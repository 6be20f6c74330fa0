---------------------------- MODULE LevelLatency ----------------------------
(***************************************************************************)
(* How the latency of memory instructions is estimated for one shader      *)
(* engine (LatencyAnalyzer::analyze).  The hardware samples, about every   *)
(* PerfInterval cycles, how many instructions of a kind are in flight.     *)
(* Instructions complete in the order they were issued, so that a sample   *)
(* with N instructions issued and L in flight says the first N - L are     *)
(* complete; each instruction is measured against the first sample that    *)
(* says so.                                                                *)
(*                                                                         *)
(* Latencies are kept doubled, since the code halves intervals.            *)
(***************************************************************************)
EXTENDS Integers, Sequences, FiniteSets, SequencesExt, FiniteSetsExt, Functions

CONSTANTS PerfInterval,     \* cycles between two samples
          CounterTypes      \* the counters shown: "VMEM", "LDS"

LevelsOf == [VMEM |-> {3, 4}, LDS |-> {5}, SMEM |-> {1}]
IsLevelCounter(type, level) == level \in LevelsOf[type]

-----------------------------------------------------------------------------
(* The samples: those of bank 0 of the compute unit; a sample of nothing   *)
(* in flight where one is late, another after the last one.                *)
FilterPerfData(perf, cu) == SelectSeq(perf, LAMBDA p : p.cu = cu /\ p.bank = 0)

Nothing(t) == [time |-> t, level |-> [type \in CounterTypes |-> 0]]
Gaps(perf) == {k \in 2 .. Len(perf) : perf[k].time - perf[k - 1].time > PerfInterval}
FillPerfGaps(perf) ==
    perf \o SetToSeq({Nothing(perf[k - 1].time + PerfInterval) : k \in Gaps(perf)})

ByTime(s) == SortSeq(s, LAMBDA a, b : a.time < b.time)
SortAndAppendFinal(perf) ==
    LET sorted == ByTime(perf) IN Append(sorted, Nothing(Last(sorted).time + PerfInterval))

PerfSamples(perf, cu) ==
    LET own == FilterPerfData(perf, cu) IN
    IF own = <<>> THEN <<>> ELSE SortAndAppendFinal(FillPerfGaps(own))

(* The instructions of a kind, with the time they issue.                   *)
ExtractWaveInstructions(insts, simd, type) ==
    LET kind == SelectSeq(insts, LAMBDA w : IsLevelCounter(type, w.level))
    IN  [k \in DOMAIN kind |-> [time |-> kind[k].timestamp + kind[k].stall + simd, code |-> kind[k].code]]

(* All of an engine, in the order they issue.                              *)
IssueOrder(waves, type) ==
    ByTime(FlattenSeq([f \in DOMAIN waves |-> ExtractWaveInstructions(waves[f].insts, waves[f].simd, type)]))

-----------------------------------------------------------------------------
Doubled(delta) == IF delta > PerfInterval THEN 2 * delta - PerfInterval ELSE delta

(* The samples in order: a sample before the issue of a later instruction  *)
(* measures the instructions it newly completes, the remaining samples     *)
(* measure nothing.  The measures go with their line, in order.            *)
ComputeLatencies(issued, samples, type) ==
    LET Before(p) == Cardinality({n \in DOMAIN issued : issued[n].time <= p.time})
        completed == [i \in DOMAIN samples |-> Before(samples[i]) - samples[i].level[type]]
        done[i \in 0 .. Len(samples)] ==
          IF i = 0 THEN 0 ELSE Min({Len(issued), Max({done[i - 1], completed[i]})})
        By(i, k) == [code |-> issued[k].code, twice |-> Doubled(samples[i].time - issued[k].time)]
        Read(i) == IF Before(samples[i]) = Len(issued) THEN <<>>
                   ELSE [j \in 1 .. done[i] - done[i - 1] |-> By(i, done[i - 1] + j)]
    IN  FlattenSeq([i \in DOMAIN samples |-> Read(i)])

OfLine(measures, code) ==
    LET own == SelectSeq(measures, LAMBDA m : m.code = code)
    IN  [k \in DOMAIN own |-> own[k].twice]

(* What an engine adds for a kind of instruction: line |-> its measures    *)
(* and the cycles it issued and stalled.                                   *)
Analyze(perf, cu, waves, type) ==
    LET samples  == PerfSamples(perf, cu)
        issued   == IssueOrder(waves, type)
        all      == FlattenSeq([f \in DOMAIN waves |-> waves[f].insts])
        kind     == SelectSeq(all, LAMBDA w : IsLevelCounter(type, w.level))
        measures == ComputeLatencies(issued, samples, type)
        SumOver(code, Val(_)) == MapThenSumSet(LAMBDA k : Val(kind[k]), {k \in DOMAIN kind : kind[k].code = code})
    IN  IF samples = <<>> THEN [code \in {} |-> 0]
        ELSE [code \in {kind[k].code : k \in DOMAIN kind} |->
                [latencies |-> OfLine(measures, code),
                 issue |-> SumOver(code, LAMBDA w : Max({0, w.cycles - w.stall})),
                 stall |-> SumOver(code, LAMBDA w : w.stall)]]

-----------------------------------------------------------------------------
(* What the estimate stands for, instruction by instruction: the first     *)
(* sample that says it is complete, if another instruction issues later.   *)
CompletedBy(issued, p, type) ==
    Cardinality({n \in DOMAIN issued : issued[n].time <= p.time}) - p.level[type]
FirstSaying(issued, samples, type, k) ==
    SelectInSeq(samples, LAMBDA p : CompletedBy(issued, p, type) >= k)
Measurable(issued, samples, type, k) ==
    LET i == FirstSaying(issued, samples, type, k)
    IN  i # 0 /\ \E n \in DOMAIN issued : issued[n].time > samples[i].time
MeasureOf(issued, samples, type, k) ==
    Doubled(samples[FirstSaying(issued, samples, type, k)].time - issued[k].time)
=============================================================================
