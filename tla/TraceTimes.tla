----------------------------- MODULE TraceTimes -----------------------------
(***************************************************************************)
(* How the records of a trace get their times and its markers their code   *)
(* objects on the decoder path (TraceDecoderEmitter::run from the parsing  *)
(* of the .att files on):                                                  *)
(*                                                                         *)
(*   parse     the decoding threads hand the records of their file to the  *)
(*             RecordDispatcher, one at a time under its mutex; the        *)
(*             handlers append them to the DataStore by shader engine      *)
(*   align     the clocks of the engines are shifted onto each other, if   *)
(*             every engine with records has samples of the real-time      *)
(*             clock (DataStore::applyRealtimeAlignment)                   *)
(*   complete  the shader-data records of each slot are sorted by time     *)
(*   resolve   slot by slot, every record is looked up in the code object  *)
(*             that occupied the slot at its time, and the markers are     *)
(*             walked (MarkerWalker)                                       *)
(*                                                                         *)
(* Counters, trace events, dispatches and other-SIMD records are treated   *)
(* alike by every step and share one list, `timeline'.  Every stored time  *)
(* goes with the time the decoder reported, `raw', which nothing reads.    *)
(* The index of code objects is built when a slot is first looked up,      *)
(* after all other steps, so that its cache is not modelled.               *)
(***************************************************************************)
EXTENDS MarkerWalker, TraceClock, RealtimeOffsets

CONSTANTS SEs,          \* shader engines
          Slots,        \* wave slots: <<cu, simd, slot>> within all engines
          SeOf,         \* slot |-> its engine
          Files,        \* .att files
          CodeObjects,  \* ids of code objects, 0 for none
          Ids,          \* marker ids within a code object
          Recordings    \* what the files of a trace may hold

ASSUME EnginesAssumption == IsFiniteSet(SEs) /\ SeOf \in [Slots -> SEs]
ASSUME MarkerIdsAssumption == 0 \in CodeObjects /\ MarkerIds = CodeObjects \X Ids

(* What the decoder reports of each kind.                                  *)
TraceRecord ==
         [kind : {"realtime"},  time : Int, rc : Nat]
    \cup [kind : {"occupancy"}, time : Int, slot : Slots, start : BOOLEAN, co : CodeObjects]
    \cup [kind : {"timeline"},  time : Int]
    \cup [kind : {"wave"},      time : Int, id : STRING]
    \cup [kind : {"shader"},    time : Int, slot : Slots, op : Ops, id : Ids]

ASSUME RecordingsAssumption ==
    \A t \in Recordings : t.files \in [Files -> [se : SEs, records : Seq(TraceRecord)]]

(* A file reports slots of its own engine, and the id that is generated    *)
(* for a wave contains its engine.                                         *)
ASSUME OwnEngineAssumption ==
    \A t \in Recordings : \A f \in Files : \A r \in ToSet(t.files[f].records) :
        /\ r.kind \in {"occupancy", "shader"} => SeOf[r.slot] = t.files[f].se
        /\ r.kind = "wave" =>
               \A g \in Files : \A q \in ToSet(t.files[g].records) :
                   q.kind = "wave" /\ q.id = r.id => t.files[g].se = t.files[f].se

(* A slot holds one wave at a time: what starts in it at a time has one     *)
(* code object.                                                            *)
ASSUME OneStartAssumption ==
    \A t \in Recordings : \A f, g \in Files :
        \A r \in ToSet(t.files[f].records), q \in ToSet(t.files[g].records) :
            r.kind = "occupancy" /\ q.kind = "occupancy" =>
                (r.slot = q.slot /\ r.start /\ q.start /\ r.time = q.time => r.co = q.co)

VARIABLES recording,    \* the trace being loaded
          pos,          \* file |-> number of its records dispatched
          phase,        \* the step of run()
          realtime,     \* realtime_by_se
          occupancy,    \* occupancy_by_se
          timeline,     \* counters_, trace_events_, dispatch_records_, other_simd_by_se
          entries,      \* wave_hierarchy by engine: the entries
          wave_records, \* id |-> record
          shader,       \* m_pending, later m_records_by_location
          applied,      \* realtime_alignment_applied
          todo,         \* slots whose markers are still to be resolved
          walking,      \* {} or {the slot being walked}
          markers       \* m_markers_by_location

recordVars == <<recording, pos, phase, realtime, occupancy, timeline, entries, wave_records,
                shader, applied, todo, walking, markers>>
timesVars == <<recordVars, walkVars>>

(* A map with a value for x, unless it has one already.                    *)
Emplace(map, x, v) ==
    [y \in DOMAIN map \cup {x} |-> IF y \in DOMAIN map THEN map[y] ELSE v]

Stored(r) == Emplace(r, "raw", r.time)
EmptyBySe == [s \in SEs |-> <<>>]

TimesInit ==
    /\ recording \in Recordings
    /\ pos = [f \in Files |-> 0]
    /\ phase = "parse"
    /\ realtime = EmptyBySe /\ occupancy = EmptyBySe /\ timeline = EmptyBySe /\ entries = EmptyBySe
    /\ wave_records = [id \in {} |-> 0]
    /\ shader = [l \in Slots |-> <<>>]
    /\ applied = FALSE
    /\ todo = {}
    /\ walking = {}
    /\ markers = [l \in {} |-> <<>>]
    /\ Walking(<<>>)

-----------------------------------------------------------------------------
(* A decoding thread dispatches the next record of its file.               *)
Dispatching(f, kind) ==
    /\ phase = "parse"
    /\ pos[f] < Len(recording.files[f].records)
    /\ recording.files[f].records[pos[f] + 1].kind = kind
    /\ pos' = [pos EXCEPT ![f] = @ + 1]
    /\ UNCHANGED <<recording, phase, applied, todo, walking, markers, walkVars>>

Dispatched(f) == recording.files[f].records[pos[f] + 1]
EngineOf(f) == recording.files[f].se

OnRealtime(f) ==
    /\ Dispatching(f, "realtime")
    /\ realtime' = [realtime EXCEPT ![EngineOf(f)] = Append(@, Stored(Dispatched(f)))]
    /\ UNCHANGED <<occupancy, timeline, entries, wave_records, shader>>

OnOccupancy(f) ==
    /\ Dispatching(f, "occupancy")
    /\ occupancy' = [occupancy EXCEPT ![EngineOf(f)] = Append(@, Stored(Dispatched(f)))]
    /\ UNCHANGED <<realtime, timeline, entries, wave_records, shader>>

OnTimeline(f) ==
    /\ Dispatching(f, "timeline")
    /\ timeline' = [timeline EXCEPT ![EngineOf(f)] = Append(@, Stored(Dispatched(f)))]
    /\ UNCHANGED <<realtime, occupancy, entries, wave_records, shader>>

(* A wave has an entry in the hierarchy; the record is kept under the id   *)
(* generated from its slot and its begin, the first one if ids collide.    *)
OnWave(f) ==
    LET w == Stored(Dispatched(f)) IN
    /\ Dispatching(f, "wave")
    /\ entries' = [entries EXCEPT ![EngineOf(f)] = Append(@, w)]
    /\ wave_records' = Emplace(wave_records, w.id, w)
    /\ UNCHANGED <<realtime, occupancy, timeline, shader>>

OnShaderData(f) ==
    /\ Dispatching(f, "shader")
    /\ shader' = [shader EXCEPT ![Dispatched(f).slot] = Append(@, Stored(Dispatched(f)))]
    /\ UNCHANGED <<realtime, occupancy, timeline, entries, wave_records>>

Dispatch(f) ==
    OnRealtime(f) \/ OnOccupancy(f) \/ OnTimeline(f) \/ OnWave(f) \/ OnShaderData(f)

AllDispatched == phase = "parse" /\ \A f \in Files : pos[f] = Len(recording.files[f].records)

-----------------------------------------------------------------------------
(* Faulty: shader data is forgotten among the records that need a shift.   *)
RequiredWithoutShader ==
    {s \in SEs : entries[s] # <<>> \/ occupancy[s] # <<>> \/ timeline[s] # <<>>}

(* The engines that have records of any kind.                              *)
RequiredSEs ==
    {s \in SEs : entries[s] # <<>> \/ occupancy[s] # <<>> \/ timeline[s] # <<>>}
      \cup {SeOf[l] : l \in {m \in Slots : shader[m] # <<>>}}

Shift(q, d) == [i \in DOMAIN q |-> [q[i] EXCEPT !.time = @ + d]]

(* wave_records are shifted through the entries that name them: as many    *)
(* times as there are entries with their id.                               *)
Naming(s, id) == Cardinality({i \in DOMAIN entries[s] : entries[s][i].id = id})
ShiftRecords(off) ==
    [id \in DOMAIN wave_records |->
        [wave_records[id] EXCEPT !.time =
            @ + SumFunction([s \in DOMAIN off |-> Naming(s, id) * off[s]])]]

ShiftBySe(lists, off) ==
    [s \in SEs |-> IF s \in DOMAIN off THEN Shift(lists[s], off[s]) ELSE lists[s]]

(* Faulty: the shader data, which is still pending, is not shifted.        *)
ApplyTimeOffsetsButPending(off) ==
    /\ entries' = ShiftBySe(entries, off)
    /\ wave_records' = ShiftRecords(off)
    /\ occupancy' = ShiftBySe(occupancy, off)
    /\ timeline' = ShiftBySe(timeline, off)
    /\ realtime' = ShiftBySe(realtime, off)
    /\ shader' = shader

ApplyTimeOffsets(off) ==
    /\ entries' = ShiftBySe(entries, off)
    /\ wave_records' = ShiftRecords(off)
    /\ occupancy' = ShiftBySe(occupancy, off)
    /\ timeline' = ShiftBySe(timeline, off)
    /\ realtime' = ShiftBySe(realtime, off)
    /\ shader' = [l \in Slots |-> IF SeOf[l] \in DOMAIN off THEN Shift(shader[l], off[SeOf[l]])
                                                           ELSE shader[l]]

(* alignSEClocks: all engines are shifted, or none.                        *)
AlignClocks ==
    LET off == Offsets(realtime) IN
    /\ AllDispatched
    /\ phase' = "align"
    /\ IF ~applied /\ DOMAIN off # {} /\ RequiredSEs \subseteq DOMAIN off
         THEN ApplyTimeOffsets(off) /\ applied' = TRUE
         ELSE UNCHANGED <<entries, wave_records, occupancy, timeline, realtime, shader, applied>>
    /\ UNCHANGED <<recording, pos, todo, walking, markers, walkVars>>

(* signalComplete.                                                         *)
Complete ==
    /\ phase = "align"
    /\ phase' = "resolve"
    /\ occupancy' = [s \in SEs |-> SortOccupancy(occupancy[s])]
    /\ shader' = [l \in Slots |-> SortByTime(shader[l])]
    /\ todo' = {l \in Slots : shader[l] # <<>>}
    /\ UNCHANGED <<recording, pos, realtime, timeline, entries, wave_records, applied, walking,
                   markers, walkVars>>

-----------------------------------------------------------------------------
(* What the two funcmaps - of code.json and of the loaded code objects -   *)
(* answer together for marker m of code object co.                         *)
Answer(co, m) ==
    LET named   == co # 0 /\ m \in recording.json[co]
        decoded == co # 0 /\ recording.decoder[co] # {}
    IN IF ~named /\ ~decoded THEN "absent"
       ELSE IF named \/ m \in recording.decoder[co] THEN "found"
       ELSE "unknown"

OccupancyOf(l) == SlotOccupancy(occupancy[SeOf[l]], l)

(* The records of slot l as the walker sees them.  A marker is identified  *)
(* with its code object.                                                   *)
Resolved(l) ==
    [i \in DOMAIN shader[l] |->
        LET r  == shader[l][i]
            co == ActiveCodeobj(OccupancyOf(l), r.time)
        IN [time |-> r.time, op |-> r.op, id |-> <<co, r.id>>, answer |-> Answer(co, r.id)]]

BeginMarkers(l) ==
    /\ phase = "resolve"
    /\ walking = {}
    /\ l \in todo
    /\ walking' = {l}
    /\ todo' = todo \ {l}
    /\ BeginWalk(Resolved(l))
    /\ UNCHANGED <<recording, pos, phase, realtime, occupancy, timeline, entries, wave_records,
                   shader, applied, markers>>

WalkMarkers ==
    /\ walking # {}
    /\ WalkStep
    /\ UNCHANGED recordVars

EnterOrder(sp) == SortedBy(LAMBDA m : m.enter, sp)

EndMarkers(l) ==
    /\ walking = {l}
    /\ Walked
    /\ walking' = {}
    /\ markers' = IF spans = <<>> THEN markers ELSE Emplace(markers, l, EnterOrder(spans))
    /\ UNCHANGED <<recording, pos, phase, realtime, occupancy, timeline, entries, wave_records,
                   shader, applied, todo, walkVars>>

TimesNext ==
    \/ \E f \in Files : Dispatch(f)
    \/ AlignClocks
    \/ Complete
    \/ \E l \in Slots : BeginMarkers(l) \/ EndMarkers(l)
    \/ WalkMarkers

TimesSpec == TimesInit /\ [][TimesNext]_timesVars

(***************************************************************************)
(* Properties.                                                             *)
(***************************************************************************)
(* How far the records of engine s were moved.  (A wave record that two    *)
(* entries name is left out: it is moved twice.)                           *)
Moves(q) == {q[i].time - q[i].raw : i \in DOMAIN q}
MovesOf(s) ==
    Moves(realtime[s]) \cup Moves(occupancy[s]) \cup Moves(timeline[s]) \cup Moves(entries[s])
      \cup (UNION {Moves(shader[l]) : l \in {m \in Slots : SeOf[m] = s}})
      \cup {wave_records[id].time - wave_records[id].raw :
                id \in {i \in DOMAIN wave_records : Naming(s, i) = 1}}

(* Whatever the order in which the threads dispatched them, the records    *)
(* of an engine all move by the same time - what happened together stays   *)
(* together - and either every engine with records moves onto the common   *)
(* clock or none moves at all.                                             *)
AlignedTogether ==
    /\ \A s \in SEs : Cardinality(MovesOf(s)) <= 1
    /\ ~applied => \A s \in SEs : MovesOf(s) \subseteq {0}
    /\ applied => \A s \in SEs : /\ \A m \in MovesOf(s) : m >= 0
                                 /\ MovesOf(s) # {} => realtime[s] # <<>>

(* Once aligned, the samples of two engines place the same real time at    *)
(* the same shader clock by the rate k that was computed, up to the cycle  *)
(* that is cut off and what the roundings of doubles on the way to the two *)
(* shifts can add: half a spacing each, in cycles or in real time.         *)
RoundingOf(rt, s) ==
    LET k == Rate(rt)
        a == FirstAnchor(rt[s])
    IN   Unit * (SpacingAt(a.rc * Unit, 1) + MinusSpacing(Double(a.rc), Double(a.time), k)
                   + SpacingAt(Origin(rt, s) - Earliest(rt), 1))
       + k * (SpacingAt(a.time * Unit, 1) + SpacingAt(FromEarliest(rt, s) * Unit, k))

Unshifted(q) == [i \in DOMAIN q |-> [q[i] EXCEPT !.time = q[i].raw]]
ClocksAgree ==
    LET sampled == {s \in SEs : realtime[s] # <<>>}
        rt == [s \in sampled |-> Unshifted(realtime[s])]
        Lag(p, q) == (p.rc - q.rc) * Unit - (p.time - q.time) * Rate(rt)
    IN applied => \A s, t \in sampled :
           2 * Unit * Lag(FirstAnchor(realtime[s]), FirstAnchor(realtime[t]))
             < 2 * Unit * Rate(rt) + RoundingOf(rt, s) + RoundingOf(rt, t)

(* The code object of every marker shown is that of the wave which, by the *)
(* times the decoder reported, occupied the slot then: of the last start   *)
(* of a kernel with a code object, unless another record of the slot lies  *)
(* between that start and the marker.                                      *)
Reported(l) ==
    {r \in UNION {ToSet(recording.files[f].records) : f \in Files} : r.kind = "occupancy" /\ r.slot = l}
Occupant(l, t) ==
    LET starts == {r \in Reported(l) : r.start /\ r.co # 0 /\ r.time <= t}
        last   == CHOOSE r \in starts : \A x \in starts : x.time <= r.time
    IN IF starts = {} \/ \E r \in Reported(l) : last.time < r.time /\ r.time < t THEN 0 ELSE last.co
MarkersOfOccupant ==
    LET Shown(l) == IF l \in DOMAIN markers THEN ToSet(markers[l])
                    ELSE IF walking = {l} THEN ToSet(spans) ELSE {}
    IN \A l \in Slots : \A m \in Shown(l) : \E i \in DOMAIN shader[l] :
           shader[l][i].time = m.enter /\ m.id[1] = Occupant(l, shader[l][i].raw)

(* The walk of each slot is one of MarkerWalker: the records it is given   *)
(* are in the order of their times, and no two walks overlap.              *)
ImplementsMarkerWalker == WalkSpec
=============================================================================
