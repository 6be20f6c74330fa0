------------------------- MODULE MC_TraceAnalyses -------------------------
(* Hidden latencies of two SIMDs of one engine: two waves on the first, or  *)
(* one that cannot be read; another wave on the second.  Counters: of SPM,  *)
(* of a trace, of a trace without samples and of none.                      *)
EXTENDS TraceAnalyses

(* A trace without records to place in time: three engines with a slot and  *)
(* a file each.                                                             *)
NoRecording == [files |-> [f1 |-> [se |-> 0, records |-> <<>>], f2 |-> [se |-> 1, records |-> <<>>],
                           f3 |-> [se |-> 2, records |-> <<>>]],
                json |-> [co \in 1 .. 2 |-> {}], decoder |-> [co \in 1 .. 2 |-> {}]]

MCScopes == <<<<0, 0>>, <<0, 1>>>>

Tok(type, line, clock, stall, cycles) ==
    [type |-> type, line |-> line, clock |-> clock, stall |-> stall, cycles |-> cycles]
On(simd, readable, begin, tokens) ==
    [scope |-> <<0, simd>>, readable |-> readable, begin |-> begin, tokens |-> tokens]

(* Tokens that overlap, touch, contain each other or leave a gap.          *)
FirstTokens ==
    { <<Tok("WMMA", 1, 2, 1, 6), Tok("VMEM", 2, 10, 3, 5), Tok("SALU", 3, 15, 0, 1)>>,
      <<Tok("VALU", 1, 1, 0, 4), Tok("VALU", 2, 3, 2, 4), Tok("OTHERS", 3, 9, 4, 6)>>,
      <<Tok("SALU", 1, 0, 0, 1), Tok("WMMA", 2, 5, 0, 4), Tok("VALU", 3, 9, 2, 3)>>,
      <<Tok("VMEM", 1, 0, 0, 9), Tok("OTHERS", 2, 10, 2, 2), Tok("VMEM", 3, 12, 3, 7)>> }

SecondTokens ==
    { <<Tok("VALU", 1, 4, 2, 5), Tok("SALU", 2, 9, 3, 4)>>,
      <<Tok("WMMA", 2, 3, 0, 8), Tok("VMEM", 3, 11, 1, 3)>>,
      <<Tok("VMEM", 1, 6, 2, 4), Tok("VALU", 1, 12, 1, 5)>>,
      <<Tok("SALU", 3, 2, 1, 7), Tok("OTHERS", 1, 8, 5, 6)>> }

ThirdTokens ==
    { <<Tok("OTHERS", 2, 3, 2, 4), Tok("VALU", 1, 8, 0, 2)>>,
      <<Tok("VMEM", 2, 4, 4, 6), Tok("WMMA", 3, 14, 1, 5)>> }

Others ==
    { <<>>,
      <<[clock |-> 3, cycles |-> 4], [clock |-> 13, cycles |-> 0], [clock |-> 16, cycles |-> 2]>> }

WaveTraces ==
    {[scopes |-> MCScopes, waves |-> <<On(0, TRUE, 0, x), On(0, r, 1, y), On(1, TRUE, 2, z)>>, others |-> [se \in {0} |-> o], plots |-> {}, captures |-> {}, groups |-> {}, decoded |-> {}, recorded |-> {NoRecording}] :
        x \in FirstTokens, y \in SecondTokens, z \in ThirdTokens, o \in Others, r \in BOOLEAN}

-----------------------------------------------------------------------------
(* Definitions that read each other in any order, that cannot be evaluated, *)
(* that lead back to themselves or hide a counter, and texts in which one   *)
(* line says nothing or cannot be read; the builtin ones of a trace.        *)
MCTexts ==
    [empty   |-> << <<>>, <<"#", "D", ":=", "A">> >>,
     bad     |-> << <<"E", ":=", "A">>, <<"D", ":=", "sum", "[", "A", "+", "B", "]">> >>,
     builtin |-> << <<"_busy", ":=", "sum", "[", "max", "[", "A", ",", "axis", "=", "TIME", "]",
                                ",", "axis", "=", "[", "XCC", ",", "SE", ",", "CU", "]", "]", "+", "1">>,
                    <<>>,
                    <<"A_util", ":=", "100", "*", "sum", "[", "A", ",", "axis", "=", "[", "XCC", ",", "SE", ",", "CU", "]", "]",
                                "/", "_busy", "#", "per", "engine">>,
                    <<"B_rate", ":=", "sum", "[", "B", ",", "axis", "=", "[", "0", ",", "1", ",", "2", "]", "]",
                                "/", "min", "[", "delta", "[", "RCLOCK", "]", "]">> >>,
     chain   |-> << <<"D", ":=", "-", "_C", "*", "2", "+", "(", "B", "-", "1", "-", "A", ")">>,
                    <<"_C", ":=", "max", "(", "A", ",", "B", "-", "3", ",", "1", ")">>,
                    <<"E", ":=", "_C", "-", "MISSING">>,
                    <<"P", ":=", "select", "[", "A", ",", "0", "]", "<", "NUM_SE", "|", "A", ">", "B", "&", "B", ">", "4">> >>,
     cycle   |-> << <<"P", ":=", "B", "+", "Q">>,
                    <<"Q", ":=", "P", "+", "A">>,
                    <<"A", ":=", "7">>,
                    <<"_C", ":=", "B">> >>,
     spatial |-> << <<"D", ":=", "remove", "[", "A", ",", "0", ",", "axis", "=", "XCC", "]">>,
                    <<"P", ":=", "mean", "[", "B", ",", "axis", "=", "[", "SE", ",", "CU", "]", "]">>,
                    <<"D", ":=", "-", "remove", "[", "A", ",", "-", "1", "]">>,
                    <<"E", ":=", "select", "[", "select", "[", "A", ",", "0", ":", "2", ",", "axis", "=", "SE", "]",
                                 ",", "-", "1", ",", "axis", "=", "SE", "]">> >>,
     xccs    |-> << <<"D", ":=", "remove", "[", "A", ",", "0", ",", "axis", "=", "XCC", "]">>,
                    <<"E", ":=", "select", "[", "B", ",", "-", "1", ",", "axis", "=", "XCC", "]">>,
                    <<"P", ":=", "select", "[", "(", "A", ")", ",", "0", ":", "3", ":", "2", ",", "axis", "=", "XCC", "]",
                                 "+", "linear", "(", "NUM_SAMPLES", ",", "axis", "=", "TIME", ")">> >>]

(* Three XCCs with clocks of their own; the last one has only two samples. *)
SpmClock == Tensor(<<3, 1, 1, 3>>, [i \in 0 .. 8 |-> <<10, 20, 30, 12, 20, 34, 15, 25, 25>>[i + 1]], TRUE, 0 .. 7, <<0, 1, 2>>)
SpmA == Tensor(<<3, 2, 1, 3>>, [i \in 0 .. 17 |-> (7 * i + 3) % 11], TRUE, (0 .. 17) \ {4, 14, 17}, <<0, 1, 2>>)
SpmB == Tensor(<<3, 1, 1, 3>>, [i \in 0 .. 8 |-> 2 * i + 1], TRUE, (0 .. 8) \ {1, 8}, <<0, 1, 2>>)

S(time, cu, x, y) == [time |-> time, cu |-> cu, events |-> <<x, y>>]
R(gfx, rc) == [gfx |-> gfx, realtime |-> rc]

MCStores ==
    [spm   |-> [view |-> "spm", names |-> <<"A", "B">>, counters |-> <<SpmA, SpmB>>, clock |-> SpmClock,
                timestamps |-> [i \in 0 .. 8 |-> 5 * i + (i % 2)]],
     trace |-> [view |-> "trace", names |-> <<"A", "B">>,
                banks |-> <<(0 :> <<S(100, 0, 4, 1), S(102, 1, 5, 2), S(164, 0, 6, 3), S(166, 1, 1, 9), S(360, 0, 8, 2)>>) @@
                            (2 :> <<S(98, 0, 1, 1), S(162, 0, 2, 2), S(226, 0, 3, 1)>>)>>,
                rclock |-> (0 :> <<R(96, 1000), R(196, 1010)>>) @@ (2 :> <<R(90, 999), R(290, 1020), R(390, 1031)>>)],
     silent |-> [view |-> "trace", names |-> <<"A", "B">>, banks |-> <<>>, rclock |-> [se \in {} |-> <<>>]],
     none  |-> [view |-> "trace", names |-> <<>>, banks |-> <<>>, rclock |-> [se \in {} |-> <<>>]]]

-----------------------------------------------------------------------------
(* A trace with one short wave is the one whose counters are plotted.       *)
PlotTrace ==
    [scopes |-> <<<<0, 0>>>>, waves |-> <<On(0, TRUE, 0, <<Tok("VALU", 1, 1, 0, 2)>>)>>,
     others |-> [se \in {0} |-> <<>>], plots |-> DOMAIN MCStores, captures |-> {"empty"}, groups |-> {}, decoded |-> {},
     recorded |-> {NoRecording}]

-----------------------------------------------------------------------------
I(kind) == [kind |-> kind]
W(counts) == [kind |-> "WAITCNT", form |-> "text", counters |-> DOMAIN counts, counts |-> counts]
NullWait == [kind |-> "WAITCNT", form |-> "null", counters |-> {"vs"}]
PairWait(c, n) == [kind |-> "WAITCNT", form |-> "pair", counters |-> {c, "ds"}, immediate |-> n]
Code(gfxip, code) == [gfxip |-> gfxip, code |-> code]

(* Per architecture: ordered and unordered operations of one counter, those *)
(* of two counters, messages that count twice, and waits on one or several. *)
MCPrograms ==
    { Code(9, <<I("LDS_MSG"), I("SCALAR"), W([lgkm |-> 1]), W([lgkm |-> 0])>>),
      Code(9, <<I("GLOBAL"), I("FLAT"), W([vm |-> 1]), W([lgkm |-> 0, vm |-> 1])>>),
      Code(10, <<I("GLOBAL_LOAD"), I("FLAT_LOAD"), W([vm |-> 1, lgkm |-> 0]), W([vm |-> 0])>>),
      Code(11, <<I("GLOBAL_STOR"), I("FLAT_STOR"), I("FLAT_LOAD"), W([lgkm |-> 0]), NullWait>>),
      Code(10, <<I("MSG_RTN"), I("SCALAR"), I("VALU"), W([lgkm |-> 1]), W([lgkm |-> 0])>>),
      Code(10, <<I("MSG_RTN"), I("FLAT_STOR"), W([lgkm |-> 1]), W([lgkm |-> 0, vm |-> 0])>>),
      Code(12, <<I("LDS"), I("FLAT_LOAD"), I("GLOBAL_LOAD"), PairWait("load", 1), W([idle |-> 0])>>),
      Code(12, <<I("FLAT_STOR"), I("GLOBAL_STOR"), I("LDS"), W([ds |-> 0]), W([store |-> 1])>>),
      Code(12, <<I("MSG"), I("SCALAR"), I("MSG_RTN"), W([km |-> 1]), W([km |-> 0])>>),
      Code(12, <<I("LDS_DIRECT"), I("BVH"), I("TENSOR"), I("ASYNC"),
                 W([exp |-> 0, bvh |-> 1, tensor |-> 0]), W([async |-> 1, sample |-> 0])>>) }

WaitTrace == [scopes |-> <<>>, waves |-> <<>>, others |-> [se \in {0} |-> <<>>], plots |-> {}, captures |-> {}, groups |-> {}, decoded |-> MCPrograms,
              recorded |-> {NoRecording}]

-----------------------------------------------------------------------------
(* Captures: waves, dispatches and events of a decoded trace; a JSON        *)
(* directory with dispatches that lack their kernel; one with an unknown    *)
(* kernel, a lost end and ids that are used twice; and nothing.             *)
O(time, slot, start, key) == [time |-> time, slot |-> slot, start |-> start, pc |-> key]
D(time, me, pipe, id, entry) == [time |-> time, me |-> me, pipe |-> pipe, id |-> id, entry_point |-> entry]
JsonD(time, id, entry, kid, name) == D(time, 1, 0, id, entry) @@ [kernel_id |-> kid, kernel_name |-> name]
V(time, type, me, pipe, payload) == [time |-> time, type |-> type, me |-> me, pipe |-> pipe, payload |-> payload]
None == [se \in {} |-> <<>>]
K(kid) == <<JsonKernelCodeObjectId, kid>>
MCCaptures ==
    [empty |-> [source |-> "json", names |-> <<>>, occupancy |-> None, dispatches |-> None, events |-> None],
     att |-> [source |-> "att", symbols |-> <<1, 16>> :> <<"gemm">> @@ <<2, 16>> :> <<"copy">>,
              occupancy |-> (0 :> <<O(12, "a", TRUE, <<2, 16>>), O(30, "a", FALSE, <<2, 16>>), O(14, "b", TRUE, <<1, 16>>),
                                    O(30, "a", TRUE, <<1, 16>>), O(25, "b", FALSE, <<1, 16>>), O(40, "a", FALSE, <<1, 16>>)>>) @@
                            (2 :> <<O(14, "a", TRUE, <<3, 8>>), O(20, "a", FALSE, <<3, 8>>), O(33, "a", TRUE, <<3, 8>>)>>),
              dispatches |-> 0 :> <<D(24, 1, 0, 2, <<1, 16>>), D(10, 1, 0, 1, <<2, 16>>), D(11, 1, 1, 1, <<1, 20>>)>>,
              events |-> (0 :> <<V(31, "DISPATCH_END", 1, 0, 1), V(41, "DISPATCH_END", 3, 0, 2), V(24, "DISPATCH_END", 1, 1, 1),
                                 V(24, "GC_RINSE", 0, 0, 0), V(28, "CACHE_FLUSH", 0, 0, 0), V(28, "DISPATCH_END", 1, 0, 9)>>) @@
                         (1 :> <<V(5, "SPM_SAMPLE", 0, 0, 0), V(5, "TT_FLUSH", 0, 0, 0), V(36, "CODE_OBJECT_LOAD", 0, 0, 0)>>)],
     json |-> [source |-> "json", names |-> <<<<0, <<"scan">>>>, <<2, <<>>>>>>,
               occupancy |-> 0 :> <<O(12, "a", TRUE, K(2)), O(20, "a", FALSE, K(2)), O(21, "a", TRUE, K(0)), O(22, "a", FALSE, K(0)),
                                    O(20, "b", TRUE, K(1)), O(23, "b", FALSE, K(1))>>,
               dispatches |-> 0 :> <<JsonD(11, 1, <<0, 64>>, 2, <<"sort">>), JsonD(19, 2, <<0, 32>>, 0, <<>>),
                                     JsonD(22, 3, <<0, 64>>, -1, <<>>), JsonD(15, 4, <<0, 96>>, -1, <<>>)>>,
               events |-> 0 :> <<V(21, "DISPATCH_END", 1, 0, 1), V(23, "DISPATCH_END", 1, 0, 2)>>],
     broken |-> [source |-> "json", names |-> <<>>,
                 occupancy |-> 1 :> <<O(12, "a", TRUE, K(2)), O(15, "a", TRUE, K(-1)), O(20, "a", FALSE, K(2))>>,
                 dispatches |-> 1 :> <<JsonD(11, 7, <<0, 0>>, 2, <<>>), JsonD(19, 7, <<0, 0>>, 3, <<"fill">>)>>,
                 events |-> 1 :> <<V(13, "DISPATCH_END", 1, 0, 7), V(21, "DISPATCH_END", 1, 0, 7)>>]]

ViewTrace ==
    [scopes |-> <<>>, waves |-> <<>>, others |-> [se \in {0} |-> <<>>], plots |-> {"none"}, captures |-> DOMAIN MCCaptures,
     groups |-> {"Dispatch", "GCRinse", "Other", "SQTT"}, decoded |-> {}, recorded |-> {NoRecording}]

-----------------------------------------------------------------------------
(* Records: three engines with a wave slot each; the slot of engine 0 and   *)
(* its clock samples are spread over two files, unless engine 2 has a file. *)
MCMarkerIds == (0 .. 2) \X (0 .. 2)
MCSeOf == ("a" :> 0) @@ ("b" :> 1) @@ ("c" :> 2)

ClockAt(t, rc)         == [kind |-> "realtime", time |-> t, rc |-> rc]
StartAt(l, t, co)      == [kind |-> "occupancy", slot |-> l, time |-> t, start |-> TRUE, co |-> co]
EndAt(l, t)            == [kind |-> "occupancy", slot |-> l, time |-> t, start |-> FALSE, co |-> 0]
WaveAt(id, t)          == [kind |-> "wave", id |-> id, time |-> t]
CounterAt(t)           == [kind |-> "timeline", time |-> t]
MarkerAt(l, t, op, id) == [kind |-> "shader", slot |-> l, time |-> t, op |-> op, id |-> id]

Recording(ses, f1, f2, f3, json, decoder) ==
    [files |-> [f1 |-> [se |-> ses[1], records |-> f1],
                f2 |-> [se |-> ses[2], records |-> f2],
                f3 |-> [se |-> ses[3], records |-> f3]],
     json |-> json, decoder |-> decoder]
TwoEngines == <<0, 0, 1>>
ThreeEngines == <<0, 1, 2>>

NamedByNone == [co \in 1 .. 2 |-> {}]
NamedByBoth == [co \in 1 .. 2 |-> {1}]
NamedByOne == [co \in 1 .. 2 |-> IF co = 1 THEN {1} ELSE {}]

(* Two kernels one after the other, and a third whose wave ends at once.   *)
Shuffled == <<StartAt("a", 106, 2), EndAt("a", 106), StartAt("a", 102, 1), EndAt("a", 112),
              StartAt("a", 110, 1), EndAt("a", 110), EndAt("a", 109)>>
Kernels == <<StartAt("a", 102, 1), EndAt("a", 106), StartAt("a", 106, 2), EndAt("a", 109)>>

Recorded ==
    { \* clocks 60 cycles apart; a scope of each kernel, left by a transition
      Recording(TwoEngines,
            <<ClockAt(200, 20)>> \o Kernels,
            <<ClockAt(100, 10), MarkerAt("a", 103, "enter", 1), MarkerAt("a", 106, "transition", 1),
              MarkerAt("a", 104, "enter", 2)>>,
            <<ClockAt(40, 10), StartAt("b", 44, 1), StartAt("b", 100, 2), MarkerAt("b", 110, "point", 1),
              ClockAt(140, 20), WaveAt("w", 44), CounterAt(45)>>, NamedByBoth, NamedByNone),
      \* the marker of a scope no funcmap names, and a transition after the wave
      Recording(TwoEngines,
            <<ClockAt(100, 10), MarkerAt("a", 105, "exit", 0), MarkerAt("a", 113, "transition", 1)>> \o Shuffled,
            <<ClockAt(200, 20), MarkerAt("a", 103, "enter", 1), MarkerAt("a", 104, "enter", 2)>>,
            <<ClockAt(40, 12), ClockAt(140, 22), MarkerAt("b", 44, "point", 1), StartAt("b", 43, 2)>>,
            NamedByNone, NamedByOne),
      \* engine 2 has shader data and no samples: nothing moves
      Recording(ThreeEngines,
            <<ClockAt(100, 10), ClockAt(200, 20), StartAt("a", 102, 1), MarkerAt("a", 103, "transition", 1),
              MarkerAt("a", 104, "enter", 1)>>,
            <<ClockAt(40, 10), WaveAt("v", 102), CounterAt(103)>>,
            <<MarkerAt("c", 44, "enter", 1), MarkerAt("c", 47, "exit", 0)>>, NamedByOne, NamedByOne),
      \* one sample each, and a shared wave id
      Recording(TwoEngines,
            <<ClockAt(100, 10), WaveAt("v", 102), CounterAt(104)>>,
            <<WaveAt("v", 102), StartAt("a", 102, 0), MarkerAt("a", 103, "enter", 1)>>,
            <<ClockAt(40, 9), WaveAt("w", 44), StartAt("b", 44, 2), EndAt("b", 48), MarkerAt("b", 48, "point", 1)>>,
            NamedByBoth, NamedByBoth) }

MCRecordings == Recorded \cup {NoRecording}

RecordTrace == [scopes |-> <<>>, waves |-> <<>>, others |-> [se \in {0} |-> <<>>], plots |-> {}, captures |-> {}, groups |-> {},
                decoded |-> {}, recorded |-> Recorded]

MCTraces == WaveTraces \cup {PlotTrace, WaitTrace, ViewTrace, RecordTrace}
=============================================================================
