-------------------------- MODULE TraceTimes_proofs --------------------------
(***************************************************************************)
(* For every trace - any engines, slots, files and records, dispatched in  *)
(* any order - the records of an engine move together, the clocks of two   *)
(* engines agree up to a cycle and what roundings add, the spans of every  *)
(* slot nest, and every marker goes with the wave that occupied its slot.  *)
(*                                                                         *)
(* The parts: the invariant TimesInv of the lists of records and what it   *)
(* says of the alignment; the walk of one stream (MarkerWalker), and that  *)
(* the trace walks one stream after another; the look-up of code objects,  *)
(* by OccupancyInv and MarksInv.                                           *)
(***************************************************************************)
EXTENDS TraceTimes, AggregateTheorems, SequenceTheorems, TLAPS

-----------------------------------------------------------------------------
(* What the lists of an engine hold.                                       *)
Sample    == [kind : {"realtime"},  time : Int, raw : Int, rc : Nat]
Occupancy == [kind : {"occupancy"}, time : Int, raw : Int, slot : Slots, start : BOOLEAN,
              co : CodeObjects]
Event     == [kind : {"timeline"},  time : Int, raw : Int]
Wave      == [kind : {"wave"},      time : Int, raw : Int, id : STRING]
Shader    == [kind : {"shader"},    time : Int, raw : Int, slot : Slots, op : Ops, id : Ids]

TimesTypeOK ==
    /\ recording \in Recordings
    /\ pos \in [Files -> Nat]
    /\ phase \in {"parse", "align", "resolve"}
    /\ realtime \in [SEs -> Seq(Sample)]
    /\ occupancy \in [SEs -> Seq(Occupancy)]
    /\ timeline \in [SEs -> Seq(Event)]
    /\ entries \in [SEs -> Seq(Wave)]
    /\ shader \in [Slots -> Seq(Shader)]
    /\ \A id \in DOMAIN wave_records : wave_records[id] \in Wave /\ wave_records[id].id = id
    /\ applied \in BOOLEAN

(* Every wave was reported by a file of its engine.                        *)
WavesReported ==
    \A s \in SEs : \A i \in DOMAIN entries[s] : \E f \in Files :
        /\ recording.files[f].se = s
        /\ \E r \in ToSet(recording.files[f].records) : r.kind = "wave" /\ r.id = entries[s][i].id

(* The times of a list are d later than reported.                          *)
MovedBy(q, d) == \A i \in DOMAIN q : q[i].time = q[i].raw + d

Unmoved ==
    /\ \A s \in SEs : /\ MovedBy(realtime[s], 0) /\ MovedBy(occupancy[s], 0)
                      /\ MovedBy(timeline[s], 0) /\ MovedBy(entries[s], 0)
    /\ \A l \in Slots : MovedBy(shader[l], 0)
    /\ MovedBy(wave_records, 0)

(* The records of engine s are all moved by d.                             *)
Placed(s, d) ==
    /\ MovedBy(realtime[s], d) /\ MovedBy(occupancy[s], d)
    /\ MovedBy(timeline[s], d) /\ MovedBy(entries[s], d)
    /\ \A l \in Slots : SeOf[l] = s => MovedBy(shader[l], d)
    /\ \A id \in DOMAIN wave_records : Naming(s, id) = 1 => wave_records[id].time = wave_records[id].raw + d

Nothing(s) ==
    /\ realtime[s] = <<>> /\ occupancy[s] = <<>> /\ timeline[s] = <<>> /\ entries[s] = <<>>
    /\ \A l \in Slots : SeOf[l] = s => shader[l] = <<>>

Together ==
    /\ phase = "parse" => ~applied
    /\ ~applied => Unmoved
    /\ applied => \A s \in SEs : /\ \E d \in Nat : Placed(s, d)
                                 /\ realtime[s] # <<>> \/ Nothing(s)

(* The records that are walked are in the order of their times.            *)
Completed == phase = "resolve" => \A l \in Slots : TimeOrdered(shader[l])

TimesInv == TimesTypeOK /\ WavesReported /\ Together /\ Completed

-----------------------------------------------------------------------------
(* A record is stored with the time that was reported.                     *)
LEMMA StoredRecord ==
    ASSUME NEW r \in TraceRecord
    PROVE  /\ Stored(r).time = Stored(r).raw
           /\ r.kind = "realtime" => Stored(r) \in Sample
           /\ r.kind = "occupancy" => Stored(r) \in Occupancy /\ Stored(r).slot = r.slot
           /\ r.kind = "timeline" => Stored(r) \in Event
           /\ r.kind = "wave" => Stored(r) \in Wave /\ Stored(r).id = r.id
           /\ r.kind = "shader" => Stored(r) \in Shader
<1>1. CASE r \in [kind : {"realtime"}, time : Int, rc : Nat]
  <2>1. Stored(r) = [kind |-> "realtime", time |-> r.time, raw |-> r.time, rc |-> r.rc]
    BY <1>1 DEF Stored, Emplace
  <2> QED BY <1>1, <2>1 DEF Sample
<1>2. CASE r \in [kind : {"occupancy"}, time : Int, slot : Slots, start : BOOLEAN,
                  co : CodeObjects]
  <2>1. Stored(r) = [kind |-> "occupancy", time |-> r.time, raw |-> r.time, slot |-> r.slot,
                     start |-> r.start, co |-> r.co]
    BY <1>2 DEF Stored, Emplace
  <2> QED BY <1>2, <2>1 DEF Occupancy
<1>3. CASE r \in [kind : {"timeline"}, time : Int]
  <2>1. Stored(r) = [kind |-> "timeline", time |-> r.time, raw |-> r.time]
    BY <1>3 DEF Stored, Emplace
  <2> QED BY <1>3, <2>1 DEF Event
<1>4. CASE r \in [kind : {"wave"}, time : Int, id : STRING]
  <2>1. Stored(r) = [kind |-> "wave", time |-> r.time, raw |-> r.time, id |-> r.id]
    BY <1>4 DEF Stored, Emplace
  <2> QED BY <1>4, <2>1 DEF Wave
<1>5. CASE r \in [kind : {"shader"}, time : Int, slot : Slots, op : Ops, id : Ids]
  <2>1. Stored(r) = [kind |-> "shader", time |-> r.time, raw |-> r.time, slot |-> r.slot,
                     op |-> r.op, id |-> r.id]
    BY <1>5 DEF Stored, Emplace
  <2> QED BY <1>5, <2>1 DEF Shader
<1> QED BY <1>1, <1>2, <1>3, <1>4, <1>5 DEF TraceRecord

LEMMA DispatchedRecord ==
    ASSUME TimesTypeOK, NEW f \in Files, NEW kind, Dispatching(f, kind)
    PROVE  /\ Dispatched(f) \in TraceRecord
           /\ Dispatched(f) \in ToSet(recording.files[f].records)
           /\ Dispatched(f).kind = kind
           /\ EngineOf(f) \in SEs
           /\ pos' \in [Files -> Nat]
<1>1. recording.files[f] \in [se : SEs, records : Seq(TraceRecord)]
  BY RecordingsAssumption DEF TimesTypeOK
<1>2. pos[f] + 1 \in 1 .. Len(recording.files[f].records)
  BY <1>1 DEF TimesTypeOK, Dispatching
<1>3. recording.files[f].records \in Seq(TraceRecord)
  BY <1>1
<1>4. Dispatched(f) \in TraceRecord /\ Dispatched(f) \in ToSet(recording.files[f].records)
  BY <1>2, <1>3 DEF Dispatched, ToSet
<1>5. pos' \in [Files -> Nat]
  BY DEF Dispatching, TimesTypeOK
<1> QED BY <1>1, <1>4, <1>5 DEF Dispatching, Dispatched, EngineOf

(* A list grows by one element.                                            *)
LEMMA Appended ==
    ASSUME NEW A, NEW S, NEW lists \in [A -> Seq(S)], NEW a \in A, NEW r \in S,
           NEW b \in A
    PROVE  /\ [lists EXCEPT ![a] = Append(@, r)] \in [A -> Seq(S)]
           /\ \A i \in DOMAIN [lists EXCEPT ![a] = Append(@, r)][b] :
                  \/ i \in DOMAIN lists[b]
                     /\ [lists EXCEPT ![a] = Append(@, r)][b][i] = lists[b][i]
                  \/ a = b /\ [lists EXCEPT ![a] = Append(@, r)][b][i] = r
<1>1. lists[a] \in Seq(S) /\ lists[b] \in Seq(S)
  OBVIOUS
<1>2. CASE a = b
  <2>1. [lists EXCEPT ![a] = Append(@, r)][b] = Append(lists[b], r)
    BY <1>2
  <2>2. \A i \in 1 .. Len(lists[b]) + 1 :
            \/ i \in 1 .. Len(lists[b]) /\ Append(lists[b], r)[i] = lists[b][i]
            \/ Append(lists[b], r)[i] = r
    BY <1>1
  <2> QED BY <1>1, <1>2, <2>1, <2>2
<1>3. CASE a # b
  BY <1>1, <1>3
<1> QED BY <1>2, <1>3

LEMMA AppendMoved ==
    ASSUME NEW A, NEW S, NEW lists \in [A -> Seq(S)], NEW a \in A, NEW r \in S,
           NEW b \in A, r.time = r.raw, r.raw \in Int, MovedBy(lists[b], 0)
    PROVE  MovedBy([lists EXCEPT ![a] = Append(@, r)][b], 0)
BY Appended DEF MovedBy

-----------------------------------------------------------------------------
LEMMA TimesBegin == TimesInit => TimesInv
<1> SUFFICES ASSUME TimesInit PROVE TimesInv
  OBVIOUS
<1>1. TimesTypeOK
  <2>1. EmptyBySe \in [SEs -> Seq(Sample)] /\ EmptyBySe \in [SEs -> Seq(Occupancy)]
    BY DEF EmptyBySe
  <2>2. EmptyBySe \in [SEs -> Seq(Event)] /\ EmptyBySe \in [SEs -> Seq(Wave)]
    BY DEF EmptyBySe
  <2>3. shader \in [Slots -> Seq(Shader)] /\ pos \in [Files -> Nat] /\ DOMAIN wave_records = {}
    BY DEF TimesInit
  <2> QED BY <2>1, <2>2, <2>3 DEF TimesInit, TimesTypeOK
<1>2. WavesReported
  BY DEF TimesInit, WavesReported, EmptyBySe
<1>3. Together
  BY DEF TimesInit, Together, Unmoved, MovedBy, EmptyBySe
<1> QED BY <1>1, <1>2, <1>3 DEF TimesInv, TimesInit, Completed

(* A handler keeps a record with the time that was reported.               *)
LEMMA HandlerKeeps ==
    ASSUME TimesInv, NEW f \in Files, Dispatch(f)
    PROVE  TimesInv'
<1>1. phase = "parse" /\ ~applied /\ Unmoved /\ TimesTypeOK
  BY DEF TimesInv, Together, Dispatch, OnRealtime, OnOccupancy, OnTimeline, OnWave, OnShaderData,
         Dispatching
<1> DEFINE r == Dispatched(f)
           e == EngineOf(f)
<1> SUFFICES TimesTypeOK' /\ WavesReported' /\ Unmoved' /\ phase' = "parse" /\ ~applied'
  BY DEF TimesInv, Together, Completed
<1>2. recording' = recording /\ phase' = phase /\ applied' = applied
  BY DEF Dispatch, OnRealtime, OnOccupancy, OnTimeline, OnWave, OnShaderData, Dispatching
<1>3. CASE OnRealtime(f)
  <2>1. r \in TraceRecord /\ r.kind = "realtime" /\ e \in SEs /\ pos' \in [Files -> Nat]
    BY <1>1, <1>3, DispatchedRecord DEF OnRealtime
  <2>2. Stored(r) \in Sample /\ Stored(r).time = Stored(r).raw /\ Stored(r).raw \in Int
    BY <2>1, StoredRecord DEF Sample
  <2>3. realtime' \in [SEs -> Seq(Sample)]
    BY <1>1, <1>3, <2>1, <2>2, Appended DEF OnRealtime, TimesTypeOK
  <2>4. \A s \in SEs : MovedBy(realtime'[s], 0)
    BY <1>1, <1>3, <2>1, <2>2, AppendMoved DEF OnRealtime, TimesTypeOK, Unmoved
  <2>5. TimesTypeOK'
    BY <1>1, <1>2, <1>3, <2>1, <2>3 DEF OnRealtime, TimesTypeOK
  <2>6. WavesReported'
    BY <1>2, <1>3 DEF OnRealtime, TimesInv, WavesReported
  <2>7. Unmoved'
    BY <1>1, <1>3, <2>4 DEF OnRealtime, Unmoved, MovedBy
  <2> QED BY <1>1, <1>2, <2>5, <2>6, <2>7
<1>4. CASE OnOccupancy(f)
  <2>1. r \in TraceRecord /\ r.kind = "occupancy" /\ e \in SEs /\ pos' \in [Files -> Nat]
    BY <1>1, <1>4, DispatchedRecord DEF OnOccupancy
  <2>2. Stored(r) \in Occupancy /\ Stored(r).time = Stored(r).raw /\ Stored(r).raw \in Int
    BY <2>1, StoredRecord DEF Occupancy
  <2>3. occupancy' \in [SEs -> Seq(Occupancy)]
    BY <1>1, <1>4, <2>1, <2>2, Appended DEF OnOccupancy, TimesTypeOK
  <2>4. \A s \in SEs : MovedBy(occupancy'[s], 0)
    BY <1>1, <1>4, <2>1, <2>2, AppendMoved DEF OnOccupancy, TimesTypeOK, Unmoved
  <2>5. TimesTypeOK'
    BY <1>1, <1>2, <1>4, <2>1, <2>3 DEF OnOccupancy, TimesTypeOK
  <2>6. WavesReported'
    BY <1>2, <1>4 DEF OnOccupancy, TimesInv, WavesReported
  <2>7. Unmoved'
    BY <1>1, <1>4, <2>4 DEF OnOccupancy, Unmoved, MovedBy
  <2> QED BY <1>1, <1>2, <2>5, <2>6, <2>7
<1>5. CASE OnTimeline(f)
  <2>1. r \in TraceRecord /\ r.kind = "timeline" /\ e \in SEs /\ pos' \in [Files -> Nat]
    BY <1>1, <1>5, DispatchedRecord DEF OnTimeline
  <2>2. Stored(r) \in Event /\ Stored(r).time = Stored(r).raw /\ Stored(r).raw \in Int
    BY <2>1, StoredRecord DEF Event
  <2>3. timeline' \in [SEs -> Seq(Event)]
    BY <1>1, <1>5, <2>1, <2>2, Appended DEF OnTimeline, TimesTypeOK
  <2>4. \A s \in SEs : MovedBy(timeline'[s], 0)
    BY <1>1, <1>5, <2>1, <2>2, AppendMoved DEF OnTimeline, TimesTypeOK, Unmoved
  <2>5. TimesTypeOK'
    BY <1>1, <1>2, <1>5, <2>1, <2>3 DEF OnTimeline, TimesTypeOK
  <2>6. WavesReported'
    BY <1>2, <1>5 DEF OnTimeline, TimesInv, WavesReported
  <2>7. Unmoved'
    BY <1>1, <1>5, <2>4 DEF OnTimeline, Unmoved, MovedBy
  <2> QED BY <1>1, <1>2, <2>5, <2>6, <2>7
<1>6. CASE OnWave(f)
  <2>1. /\ r \in TraceRecord /\ r.kind = "wave" /\ e \in SEs /\ pos' \in [Files -> Nat]
        /\ r \in ToSet(recording.files[f].records)
    BY <1>1, <1>6, DispatchedRecord DEF OnWave
  <2>2. /\ Stored(r) \in Wave /\ Stored(r).time = Stored(r).raw /\ Stored(r).raw \in Int
        /\ Stored(r).id = r.id
    BY <2>1, StoredRecord DEF Wave
  <2>3. entries' \in [SEs -> Seq(Wave)]
    BY <1>1, <1>6, <2>1, <2>2, Appended DEF OnWave, TimesTypeOK
  <2>4. \A s \in SEs : MovedBy(entries'[s], 0)
    BY <1>1, <1>6, <2>1, <2>2, AppendMoved DEF OnWave, TimesTypeOK, Unmoved
  <2>5. /\ DOMAIN wave_records' = DOMAIN wave_records \cup {Stored(r).id}
        /\ \A id \in DOMAIN wave_records' :
              IF id \in DOMAIN wave_records THEN wave_records'[id] = wave_records[id]
                                       ELSE id = Stored(r).id /\ wave_records'[id] = Stored(r)
    BY <1>6 DEF OnWave, Emplace
  <2>6. \A id \in DOMAIN wave_records' : wave_records'[id] \in Wave /\ wave_records'[id].id = id
    BY <1>1, <2>2, <2>5 DEF TimesTypeOK
  <2>7. TimesTypeOK'
    BY <1>1, <1>2, <1>6, <2>1, <2>3, <2>6 DEF OnWave, TimesTypeOK
  <2>8. MovedBy(wave_records', 0)
    BY <1>1, <2>2, <2>5, <2>6 DEF Unmoved, MovedBy
  <2>9. Unmoved'
    BY <1>1, <1>6, <2>4, <2>8 DEF OnWave, Unmoved, MovedBy
  <2>10. WavesReported'
    <3> SUFFICES ASSUME NEW s \in SEs, NEW i \in DOMAIN entries'[s]
                 PROVE  \E g \in Files :
                           /\ recording.files[g].se = s
                           /\ \E q \in ToSet(recording.files[g].records) :
                                 q.kind = "wave" /\ q.id = entries'[s][i].id
      BY <1>2 DEF WavesReported
    <3>1. \/ i \in DOMAIN entries[s] /\ entries'[s][i] = entries[s][i]
          \/ e = s /\ entries'[s][i] = Stored(r)
      BY <1>1, <1>6, <2>1, <2>2, Appended DEF OnWave, TimesTypeOK
    <3>2. CASE i \in DOMAIN entries[s] /\ entries'[s][i] = entries[s][i]
      BY <3>2 DEF TimesInv, WavesReported
    <3>3. CASE e = s /\ entries'[s][i] = Stored(r)
      BY <3>3, <2>1, <2>2 DEF EngineOf
    <3> QED BY <3>1, <3>2, <3>3
  <2> QED BY <1>1, <1>2, <2>7, <2>9, <2>10
<1>7. CASE OnShaderData(f)
  <2>1. r \in TraceRecord /\ r.kind = "shader" /\ e \in SEs /\ pos' \in [Files -> Nat]
    BY <1>1, <1>7, DispatchedRecord DEF OnShaderData
  <2>2. /\ Stored(r) \in Shader /\ Stored(r).time = Stored(r).raw /\ Stored(r).raw \in Int
        /\ r.slot \in Slots
    BY <2>1, StoredRecord DEF Shader, TraceRecord
  <2>3. shader' \in [Slots -> Seq(Shader)]
    BY <1>1, <1>7, <2>1, <2>2, Appended DEF OnShaderData, TimesTypeOK
  <2>4. \A l \in Slots : MovedBy(shader'[l], 0)
    BY <1>1, <1>7, <2>1, <2>2, AppendMoved DEF OnShaderData, TimesTypeOK, Unmoved
  <2>5. TimesTypeOK'
    BY <1>1, <1>2, <1>7, <2>1, <2>3 DEF OnShaderData, TimesTypeOK
  <2>6. WavesReported'
    BY <1>2, <1>7 DEF OnShaderData, TimesInv, WavesReported
  <2>7. Unmoved'
    BY <1>1, <1>7, <2>4 DEF OnShaderData, Unmoved, MovedBy
  <2> QED BY <1>1, <1>2, <2>5, <2>6, <2>7
<1> QED BY <1>3, <1>4, <1>5, <1>6, <1>7 DEF Dispatch

-----------------------------------------------------------------------------
(* There is a sample with the least, and one with the greatest, time.      *)
LEMMA AnchorsExist ==
    ASSUME NEW q \in Seq(Sample), q # <<>>
    PROVE  /\ \E i \in DOMAIN q : /\ FirstAnchor(q) = q[i]
                                 /\ \A j \in DOMAIN q : \/ q[i].time < q[j].time
                                                        \/ q[i].time = q[j].time /\ i <= j
           /\ \E i \in DOMAIN q : /\ LastAnchor(q) = q[i]
                                 /\ \A j \in DOMAIN q : \/ q[i].time > q[j].time
                                                        \/ q[i].time = q[j].time /\ i <= j
<1> DEFINE P == DOMAIN q
<1>1. P = 1 .. Len(q) /\ Len(q) \in Nat \ {0} /\ P \in SUBSET Nat
  BY EmptySeq
<1>2. IsFiniteSet(P) /\ Cardinality(P) = Len(q)
  BY <1>1, FS_Interval
<1>3. \A i \in P : q[i].time \in Int
  <2>1. \A i \in P : q[i] \in Sample
    OBVIOUS
  <2> QED BY <2>1 DEF Sample
<1> HIDE DEF P
<1>4. ASSUME NEW key, \A i \in P : key[i] \in Int
      PROVE  \E i \in P : \A j \in P : i = j \/ Precedes(key, i, j)
  <2> DEFINE r == Ranked(key, P)
  <2>0. /\ Cardinality(P) \in Nat
        /\ DOMAIN r = 1 .. Cardinality(P)
        /\ \A k \in 1 .. Cardinality(P) : r[k] \in P
        /\ \A i \in P : \E k \in 1 .. Cardinality(P) : r[k] = i
        /\ \A a, b \in 1 .. Cardinality(P) : a < b => Precedes(key, r[a], r[b])
    <3>1. P \in SUBSET Nat /\ IsFiniteSet(P) BY <1>1, <1>2
    <3>. QED BY <3>1, <1>4, RanksInOrder
  <2>1. /\ \A k \in 1 .. Len(q) : r[k] \in P
        /\ \A i \in P : \E k \in 1 .. Len(q) : r[k] = i
        /\ \A a, b \in 1 .. Len(q) : a < b => Precedes(key, r[a], r[b])
    BY <1>2, <2>0, Zenon
  <2> HIDE DEF r
  <2>2. r[1] \in P
    BY <1>1, <2>1
  <2>3. ASSUME NEW j \in P PROVE r[1] = j \/ Precedes(key, r[1], j)
    <3>1. PICK k \in 1 .. Len(q) : r[k] = j
      BY <2>1
    <3>2. CASE k = 1
      BY <3>1, <3>2
    <3>3. CASE 1 < k
      <4>1. 1 \in 1 .. Len(q)
        BY <1>1
      <4>2. Precedes(key, r[1], r[k])
        BY <2>1, <3>3, <4>1
      <4> QED BY <3>1, <4>2
    <3> QED BY <1>1, <3>2, <3>3
  <2> QED BY <2>2, <2>3
<1>5. \E i \in P : \A j \in P : q[i].time < q[j].time \/ (q[i].time = q[j].time /\ i <= j)
  <2> DEFINE key == [i \in P |-> q[i].time]
  <2>1. \A i \in P : key[i] \in Int
    BY <1>3
  <2>2. PICK i \in P : \A j \in P : i = j \/ Precedes(key, i, j)
    <3> HIDE DEF key
    <3> QED BY <1>4, <2>1
  <2>3. \A j \in P : q[i].time < q[j].time \/ (q[i].time = q[j].time /\ i <= j)
    BY <1>1, <1>3, <2>2 DEF Precedes
  <2> QED BY <2>3
<1>6. \E i \in P : \A j \in P : q[i].time > q[j].time \/ (q[i].time = q[j].time /\ i <= j)
  <2> DEFINE key == [i \in P |-> -q[i].time]
  <2>1. \A i \in P : key[i] \in Int
    BY <1>3
  <2>2. PICK i \in P : \A j \in P : i = j \/ Precedes(key, i, j)
    <3> HIDE DEF key
    <3> QED BY <1>4, <2>1
  <2>3. \A j \in P : q[i].time > q[j].time \/ (q[i].time = q[j].time /\ i <= j)
    BY <1>1, <1>3, <2>2 DEF Precedes
  <2> QED BY <2>3
<1> QED BY <1>5, <1>6, Zenon DEF FirstAnchor, LastAnchor, P

LEMMA AnchorsAreSamples ==
    ASSUME NEW q \in Seq(Sample), q # <<>>
    PROVE  FirstAnchor(q) \in Sample /\ LastAnchor(q) \in Sample
<1>1. \A i \in DOMAIN q : q[i] \in Sample
  OBVIOUS
<1> QED BY <1>1, AnchorsExist

(* Both clocks advance.                                                    *)
LEMMA TicksPositive ==
    ASSUME NEW E, IsFiniteSet(E), NEW rt \in [E -> Seq(Sample)], \A s \in E : rt[s] # <<>>
    PROVE  ShaderTicks(rt) \in Nat \ {0} /\ RealTicks(rt) \in Nat \ {0}
<1>1. Spanning(rt) \in SUBSET E /\ IsFiniteSet(Spanning(rt))
  <2>1. Spanning(rt) \in SUBSET E
    BY DEF Spanning
  <2> QED BY <2>1, FS_Subset
<1>2. ASSUME NEW s \in Spanning(rt)
      PROVE  /\ LastAnchor(rt[s]).time - FirstAnchor(rt[s]).time \in Nat
             /\ LastAnchor(rt[s]).rc - FirstAnchor(rt[s]).rc \in Nat
  <2>1. rt[s] \in Seq(Sample) /\ rt[s] # <<>>
    BY <1>1
  <2>2. FirstAnchor(rt[s]) \in Sample /\ LastAnchor(rt[s]) \in Sample
    BY <2>1, AnchorsAreSamples
  <2>3. /\ LastAnchor(rt[s]).time > FirstAnchor(rt[s]).time
        /\ LastAnchor(rt[s]).rc > FirstAnchor(rt[s]).rc
    BY DEF Spanning
  <2>4. \A x \in Sample : x.time \in Int /\ x.rc \in Nat BY DEF Sample
  <2>5. \A x, y \in Int : x > y => x - y \in Nat OBVIOUS
  <2> QED BY <2>2, <2>3, <2>4, <2>5
<1> DEFINE f == [s \in Spanning(rt) |-> LastAnchor(rt[s]).time - FirstAnchor(rt[s]).time]
           g == [s \in Spanning(rt) |-> LastAnchor(rt[s]).rc - FirstAnchor(rt[s]).rc]
<1>3. /\ DOMAIN f = Spanning(rt) /\ \A s \in Spanning(rt) : f[s] \in Nat
      /\ DOMAIN g = Spanning(rt) /\ \A s \in Spanning(rt) : g[s] \in Nat
  BY <1>2
<1>4. ShaderTicks(rt) = 25 + SumFunction(f) /\ RealTicks(rt) = 1 + SumFunction(g)
  BY DEF ShaderTicks, RealTicks
<1> HIDE DEF f, g
<1>5. SumFunction(f) \in Nat /\ SumFunction(g) \in Nat
  BY <1>1, <1>3, SumIsOver, SumType
<1> QED BY <1>4, <1>5

-----------------------------------------------------------------------------
(* Doubles: an operation gives an integer, half a spacing away at most.    *)
LEMMA SpacingBounds ==
    ASSUME NEW x \in Int
    PROVE  Spacing(x) \in Nat \ {0} /\ (x > 0 => Spacing(x) <= x)
<1> DEFINE S == {p \in Powers : p * Significant <= x}
           T == {1} \cup S
<1>1. \A p \in S : p \in Nat \ {0} /\ p <= x
  <2> SUFFICES ASSUME NEW p \in Powers, p * Significant <= x PROVE p \in Nat \ {0} /\ p <= x
    OBVIOUS
  <2>1. p \in Nat \ {0} /\ Significant \in Nat \ {0}
    BY DoublesAssumption
  <2>2. p <= p * Significant /\ p * Significant \in Nat
    BY <2>1
  <2> QED BY <2>1, <2>2
<1>2. IsFiniteSet(T)
  <2>1. IsFiniteSet(S)
    BY DoublesAssumption, FS_Subset
  <2> HIDE DEF S
  <2> QED BY <2>1, FS_Singleton, FS_Union
<1>3. Spacing(x) = Max(T)
  BY DEF Spacing
<1> HIDE DEF S
<1>4. T \subseteq Int /\ T # {} /\ \A p \in T : p \in Nat \ {0} /\ (x > 0 => p <= x)
  BY <1>1
<1> HIDE DEF T
<1>5. Max(T) \in T
  BY <1>2, <1>4, FiniteMax
<1> QED BY <1>3, <1>4, <1>5

LEMMA Quotient ==
    ASSUME NEW a \in Int, NEW b \in Nat \ {0}
    PROVE  /\ a \div b \in Int /\ (a \div b) * b <= a /\ a < (a \div b) * b + b
           /\ 0 <= a => 0 <= a \div b
OBVIOUS

LEMMA RoundedClose ==
    ASSUME NEW g \in Nat \ {0}, NEW n \in Int, NEW d \in Nat \ {0}
    PROVE  /\ RoundTo(g, n, d) \in Int
           /\ 2 * (RoundTo(g, n, d) * d - n) <= d * g
           /\ 2 * (n - RoundTo(g, n, d) * d) <= d * g
           /\ 0 <= n => 0 <= RoundTo(g, n, d)
<1> DEFINE m == d * g
           q == n \div m
           rest == n - q * m
           up == 2 * rest > m \/ (2 * rest = m /\ q % 2 = 1)
           k == IF up THEN q + 1 ELSE q
<1>1. m \in Nat \ {0}
  OBVIOUS
<1>2. RoundTo(g, n, d) = g * k
  BY DEF RoundTo
<1> HIDE DEF m
<1>3. /\ q \in Int /\ q * m \in Int /\ q * m <= n /\ n < q * m + m
      /\ 0 <= n => 0 <= q
  BY <1>1, Quotient
<1>4. k \in Int /\ (0 <= n => 0 <= k)
  BY <1>3
<1>5. (g * k) * d = k * m
  <2> HIDE DEF k
  <2> QED BY <1>4 DEF m
<1>6. 2 * (k * m - n) <= m /\ 2 * (n - k * m) <= m
  <2> HIDE DEF q
  <2>1. CASE up
    <3>1. k * m = q * m + m
      BY <1>1, <1>3, <2>1
    <3>2. 2 * rest >= m /\ rest \in Int
      BY <1>1, <1>3, <2>1
    <3> HIDE DEF k, up
    <3> QED BY <1>1, <1>3, <3>1, <3>2
  <2>2. CASE ~up
    <3>1. k * m = q * m
      BY <2>2
    <3>2. 2 * rest <= m /\ rest \in Int
      BY <1>1, <1>3, <2>2
    <3> HIDE DEF k, up
    <3> QED BY <1>1, <1>3, <3>1, <3>2
  <2> QED BY <2>1, <2>2
<1> HIDE DEF k
<1>7. g * k \in Int /\ (0 <= n => 0 <= g * k)
  BY <1>4
<1> QED BY <1>2, <1>5, <1>6, <1>7 DEF m

LEMMA NearestClose ==
    ASSUME NEW n \in Int, NEW d \in Nat \ {0}
    PROVE  /\ SpacingAt(n, d) \in Nat \ {0} /\ Nearest(n, d) \in Int
           /\ 2 * (Nearest(n, d) * d - n) <= d * SpacingAt(n, d)
           /\ 2 * (n - Nearest(n, d) * d) <= d * SpacingAt(n, d)
           /\ 0 <= n => 0 <= Nearest(n, d)
<1>1. Magnitude(n) \in Int
  BY DEF Magnitude
<1>2. Magnitude(n) \div d \in Int
  BY <1>1, Quotient
<1>3. SpacingAt(n, d) \in Nat \ {0}
  BY <1>2, SpacingBounds DEF SpacingAt
<1> QED BY <1>3, RoundedClose DEF Nearest

LEMMA PositiveDouble == ASSUME NEW i \in Nat \ {0} PROVE Double(i) \in Nat \ {0}
<1> DEFINE n == i * Unit
<1>1. n \in Nat \ {0}
  BY DoublesAssumption
<1> HIDE DEF n
<1>2. Nearest(n, 1) \in Int /\ 2 * (n - Nearest(n, 1) * 1) <= 1 * SpacingAt(n, 1)
  BY <1>1, NearestClose
<1>3. SpacingAt(n, 1) = Spacing(n)
  <2>1. Magnitude(n) \div 1 = n
    BY <1>1 DEF Magnitude
  <2> QED BY <2>1 DEF SpacingAt
<1>4. Spacing(n) \in Nat /\ Spacing(n) <= n
  BY <1>1, SpacingBounds
<1>5. Nearest(n, 1) > 0
  BY <1>1, <1>2, <1>3, <1>4
<1> QED BY <1>2, <1>5 DEF Double, n

(* What the operations give, and how far from the exact result.            *)
LEMMA OperationsClose ==
    /\ \A i \in Int :
         /\ Double(i) \in Int /\ SpacingAt(i * Unit, 1) \in Nat
         /\ 2 * (Double(i) - i * Unit) <= SpacingAt(i * Unit, 1)
         /\ 2 * (i * Unit - Double(i)) <= SpacingAt(i * Unit, 1)
    /\ \A a, b \in Int :
         /\ Difference(a, b) \in Int /\ SpacingAt(a - b, 1) \in Nat
         /\ 2 * (Difference(a, b) - (a - b)) <= SpacingAt(a - b, 1)
         /\ 2 * ((a - b) - Difference(a, b)) <= SpacingAt(a - b, 1)
         /\ b <= a => 0 <= Difference(a, b)
    /\ \A a, b \in Int :
         /\ Product(a, b) \in Int /\ SpacingAt(a * b, Unit) \in Nat
         /\ 2 * (Product(a, b) * Unit - a * b) <= Unit * SpacingAt(a * b, Unit)
         /\ 2 * (a * b - Product(a, b) * Unit) <= Unit * SpacingAt(a * b, Unit)
    /\ \A a \in Int, b \in Nat \ {0} :
         /\ Division(a, b) \in Int /\ SpacingAt(a * Unit, b) \in Nat
         /\ 2 * (Division(a, b) * b - a * Unit) <= b * SpacingAt(a * Unit, b)
         /\ 2 * (a * Unit - Division(a, b) * b) <= b * SpacingAt(a * Unit, b)
         /\ 0 <= a => 0 <= Division(a, b)
<1>1. Unit \in Nat \ {0}
  BY DoublesAssumption
<1>2. ASSUME NEW n \in Int
      PROVE  /\ SpacingAt(n, 1) \in Nat /\ Nearest(n, 1) \in Int
             /\ 2 * (Nearest(n, 1) - n) <= SpacingAt(n, 1)
             /\ 2 * (n - Nearest(n, 1)) <= SpacingAt(n, 1)
             /\ 0 <= n => 0 <= Nearest(n, 1)
  <2>1. /\ SpacingAt(n, 1) \in Nat \ {0} /\ Nearest(n, 1) \in Int
        /\ 2 * (Nearest(n, 1) * 1 - n) <= 1 * SpacingAt(n, 1)
        /\ 2 * (n - Nearest(n, 1) * 1) <= 1 * SpacingAt(n, 1)
        /\ 0 <= n => 0 <= Nearest(n, 1)
    BY NearestClose
  <2> QED BY <2>1
<1>3. ASSUME NEW i \in Int
      PROVE  /\ Double(i) \in Int /\ SpacingAt(i * Unit, 1) \in Nat
             /\ 2 * (Double(i) - i * Unit) <= SpacingAt(i * Unit, 1)
             /\ 2 * (i * Unit - Double(i)) <= SpacingAt(i * Unit, 1)
  <2>1. i * Unit \in Int
    BY <1>1
  <2> QED BY <1>2, <2>1 DEF Double
<1>4. ASSUME NEW a \in Int, NEW b \in Int
      PROVE  /\ Difference(a, b) \in Int /\ SpacingAt(a - b, 1) \in Nat
             /\ 2 * (Difference(a, b) - (a - b)) <= SpacingAt(a - b, 1)
             /\ 2 * ((a - b) - Difference(a, b)) <= SpacingAt(a - b, 1)
             /\ b <= a => 0 <= Difference(a, b)
  <2>1. a - b \in Int /\ (b <= a => 0 <= a - b)
    OBVIOUS
  <2> QED BY <1>2, <2>1 DEF Difference
<1>5. ASSUME NEW a \in Int, NEW b \in Int
      PROVE  /\ Product(a, b) \in Int /\ SpacingAt(a * b, Unit) \in Nat
             /\ 2 * (Product(a, b) * Unit - a * b) <= Unit * SpacingAt(a * b, Unit)
             /\ 2 * (a * b - Product(a, b) * Unit) <= Unit * SpacingAt(a * b, Unit)
  <2>1. a * b \in Int
    OBVIOUS
  <2> QED BY <1>1, <2>1, NearestClose DEF Product
<1>6. ASSUME NEW a \in Int, NEW b \in Nat \ {0}
      PROVE  /\ Division(a, b) \in Int /\ SpacingAt(a * Unit, b) \in Nat
             /\ 2 * (Division(a, b) * b - a * Unit) <= b * SpacingAt(a * Unit, b)
             /\ 2 * (a * Unit - Division(a, b) * b) <= b * SpacingAt(a * Unit, b)
             /\ 0 <= a => 0 <= Division(a, b)
  <2>1. a * Unit \in Int /\ (0 <= a => 0 <= a * Unit)
    BY <1>1
  <2> QED BY <2>1, NearestClose DEF Division
<1> QED BY <1>3, <1>4, <1>5, <1>6

LEMMA Scaled ==
    ASSUME NEW a \in Int, NEW b \in Int, NEW n \in Nat \ {0}
    PROVE  (a <= b => a * n <= b * n) /\ (a < b => a * n < b * n)
OBVIOUS

LEMMA MinusProductClose ==
    ASSUME NEW c \in Int, NEW a \in Int, NEW b \in Int
    PROVE  /\ MinusProduct(c, a, b) \in Int /\ MinusSpacing(c, a, b) \in Nat
           /\ 2 * (MinusProduct(c, a, b) * Unit - (c * Unit - a * b)) <= Unit * MinusSpacing(c, a, b)
           /\ 2 * ((c * Unit - a * b) - MinusProduct(c, a, b) * Unit) <= Unit * MinusSpacing(c, a, b)
<1>1. Unit \in Nat \ {0} /\ Fused \in BOOLEAN
  BY DoublesAssumption
<1>2. CASE Fused
  <2>1. c * Unit - a * b \in Int
    BY <1>1
  <2> QED BY <1>1, <1>2, <2>1, NearestClose DEF MinusProduct, MinusSpacing
<1>3. CASE ~Fused
  <2> DEFINE P  == Product(a, b)
             D  == Difference(c, P)
             g  == SpacingAt(a * b, Unit)
             h  == SpacingAt(c - P, 1)
             U  == Unit
             ab == a * b
  <2>1. /\ P \in Int /\ g \in Nat /\ 2 * (P * U - ab) <= U * g /\ 2 * (ab - P * U) <= U * g
    BY OperationsClose
  <2> HIDE DEF P
  <2>2. /\ D \in Int /\ h \in Nat /\ 2 * (D - (c - P)) <= h /\ 2 * ((c - P) - D) <= h
    BY <2>1, OperationsClose
  <2>3. MinusProduct(c, a, b) = D /\ MinusSpacing(c, a, b) = g + h
    BY <1>3 DEF MinusProduct, MinusSpacing, P
  <2>4. U \in Nat \ {0} /\ ab \in Int
    BY <1>1
  <2> HIDE DEF D, g, h, U, ab
  <2>5. (2 * (D - (c - P))) * U <= h * U /\ (2 * ((c - P) - D)) * U <= h * U
    BY <2>1, <2>2, <2>4, Scaled
  <2>6. /\ (2 * (D - (c - P))) * U = 2 * (D * U) - 2 * (c * U) + 2 * (P * U)
        /\ (2 * ((c - P) - D)) * U = 2 * (c * U) - 2 * (P * U) - 2 * (D * U)
        /\ U * (g + h) = U * g + h * U
    BY <2>1, <2>2, <2>4
  <2>7. /\ D * U \in Int /\ c * U \in Int /\ P * U \in Int /\ U * g \in Int /\ h * U \in Int
    BY <2>1, <2>2, <2>4
  <2>8. /\ 2 * (D * U - (c * U - ab)) <= U * (g + h)
        /\ 2 * ((c * U - ab) - D * U) <= U * (g + h)
    BY <2>1, <2>4, <2>5, <2>6, <2>7
  <2> QED BY <2>1, <2>2, <2>3, <2>8 DEF U, ab
<1> QED BY <1>1, <1>2, <1>3

(* The distance of a shifted sample from the common origin, a, by the      *)
(* rate k: less than a cycle, up to what the roundings g1 .. g5 add.       *)
LEMMA ShiftArithmetic ==
    ASSUME NEW U \in Nat \ {0}, NEW k \in Nat \ {0}, NEW rc \in Int, NEW t \in Int, NEW a \in Int,
           NEW C \in Int, NEW T \in Int, NEW o \in Int, NEW D \in Int, NEW Q \in Int, NEW d \in Int,
           NEW g1 \in Nat, NEW g2 \in Nat, NEW g3 \in Nat, NEW g4 \in Nat, NEW g5 \in Nat,
           2 * (C - rc * U) <= g1, 2 * (rc * U - C) <= g1,
           2 * (T - t * U) <= g2, 2 * (t * U - T) <= g2,
           2 * (o * U - (C * U - T * k)) <= U * g3, 2 * ((C * U - T * k) - o * U) <= U * g3,
           2 * (D - (o - a)) <= g4, 2 * ((o - a) - D) <= g4,
           2 * (Q * k - D * U) <= k * g5, 2 * (D * U - Q * k) <= k * g5,
           d * U <= Q, Q < d * U + U
    PROVE  LET x == 2 * U * (rc * U - t * k - a - d * k)
               g == U * (g1 + g3 + g4) + k * (g2 + g5)
           IN x \in Int /\ g \in Int /\ -g <= x /\ x < 2 * U * k + g
<1> DEFINE cU == C * U    rU == (rc * U) * U    Tk == T * k    tk == (t * U) * k
           oU == o * U    aU == a * U    DU == D * U    Qk == Q * k    dk == (d * U) * k
           Uk == U * k
           e1 == g1 * U    e2 == g2 * k    e3 == U * g3    e4 == g4 * U    e5 == k * g5
<1>1. /\ cU \in Int /\ rU \in Int /\ Tk \in Int /\ tk \in Int /\ oU \in Int /\ aU \in Int
      /\ DU \in Int /\ Qk \in Int /\ dk \in Int /\ Uk \in Int
      /\ e1 \in Int /\ e2 \in Int /\ e3 \in Int /\ e4 \in Int /\ e5 \in Int
  OBVIOUS
<1>2. 2 * cU - 2 * rU <= e1 /\ 2 * rU - 2 * cU <= e1
  <2>1. (2 * (C - rc * U)) * U <= g1 * U /\ (2 * (rc * U - C)) * U <= g1 * U
    BY Scaled
  <2>2. /\ (2 * (C - rc * U)) * U = 2 * cU - 2 * rU
        /\ (2 * (rc * U - C)) * U = 2 * rU - 2 * cU
    OBVIOUS
  <2> QED BY <2>1, <2>2
<1>3. 2 * Tk - 2 * tk <= e2 /\ 2 * tk - 2 * Tk <= e2
  <2>1. (2 * (T - t * U)) * k <= g2 * k /\ (2 * (t * U - T)) * k <= g2 * k
    BY Scaled
  <2>2. /\ (2 * (T - t * U)) * k = 2 * Tk - 2 * tk
        /\ (2 * (t * U - T)) * k = 2 * tk - 2 * Tk
    OBVIOUS
  <2> QED BY <2>1, <2>2
<1>4. 2 * (oU - (cU - Tk)) <= e3 /\ 2 * ((cU - Tk) - oU) <= e3
  OBVIOUS
<1>5. 2 * DU - 2 * oU + 2 * aU <= e4 /\ 2 * oU - 2 * aU - 2 * DU <= e4
  <2>1. (2 * (D - (o - a))) * U <= g4 * U /\ (2 * ((o - a) - D)) * U <= g4 * U
    BY Scaled
  <2>2. /\ (2 * (D - (o - a))) * U = 2 * DU - 2 * oU + 2 * aU
        /\ (2 * ((o - a) - D)) * U = 2 * oU - 2 * aU - 2 * DU
    OBVIOUS
  <2> QED BY <2>1, <2>2
<1>6. 2 * (Qk - DU) <= e5 /\ 2 * (DU - Qk) <= e5
  OBVIOUS
<1>7. dk <= Qk /\ Qk < dk + Uk
  <2>1. (d * U) * k <= Q * k /\ Q * k < (d * U + U) * k
    BY Scaled
  <2>2. (d * U + U) * k = dk + Uk
    OBVIOUS
  <2> QED BY <2>1, <2>2
<1>8. 2 * U * (rc * U - t * k - a - d * k) = 2 * rU - 2 * tk - 2 * aU - 2 * dk
  OBVIOUS
<1>9. /\ U * (g1 + g3 + g4) + k * (g2 + g5) = e1 + e2 + e3 + e4 + e5
      /\ 2 * U * k = 2 * Uk
  OBVIOUS
<1> HIDE DEF cU, rU, Tk, tk, oU, aU, DU, Qk, dk, Uk, e1, e2, e3, e4, e5
<1> QED BY <1>1, <1>2, <1>3, <1>4, <1>5, <1>6, <1>7, <1>8, <1>9

LEMMA RateType ==
    ASSUME NEW E, IsFiniteSet(E), NEW rt \in [E -> Seq(Sample)], \A s \in E : rt[s] # <<>>
    PROVE  Rate(rt) \in Nat
<1>1. ShaderTicks(rt) \in Nat \ {0} /\ RealTicks(rt) \in Nat \ {0}
  BY TicksPositive
<1> DEFINE r == Double(RealTicks(rt))
           c == Double(ShaderTicks(rt))
<1>2. r \in Nat \ {0} /\ c \in Nat \ {0}
  BY <1>1, PositiveDouble
<1>3. Rate(rt) = Division(r, c)
  BY DEF Rate
<1> HIDE DEF r, c
<1>4. r \in Int /\ 0 <= r
  BY <1>2
<1>5. Division(r, c) \in Int /\ 0 <= Division(r, c)
  BY <1>2, <1>4, OperationsClose
<1> QED BY <1>3, <1>5

(* The shifts are the distances of the engines' origins from the earliest, *)
(* truncated to whole cycles.                                              *)
Truncated(q) ==
    LET sampled == {s \in DOMAIN q : q[s] # <<>>}
        rt      == [s \in sampled |-> q[s]]
    IN /\ Rate(rt) \in Nat \ {0}
       /\ \A s \in sampled :
            /\ Origin(rt, s) \in Int /\ Earliest(rt) \in Int /\ FromEarliest(rt, s) \in Nat
            /\ Division(FromEarliest(rt, s), Rate(rt)) \in Nat
            /\ Offsets(q)[s] = Division(FromEarliest(rt, s), Rate(rt)) \div Unit

(* Every shift is a natural number, of an engine that has samples.         *)
LEMMA OffsetsKnown ==
    ASSUME NEW q \in [SEs -> Seq(Sample)]
    PROVE  /\ DOMAIN Offsets(q) \in SUBSET SEs
           /\ IsFiniteSet(DOMAIN Offsets(q))
           /\ \A s \in DOMAIN Offsets(q) : Offsets(q)[s] \in Nat
           /\ DOMAIN Offsets(q) # {} => /\ DOMAIN Offsets(q) = {s \in SEs : q[s] # <<>>}
                                        /\ Truncated(q)
<1> DEFINE sampled == {s \in DOMAIN q : q[s] # <<>>}
           rt      == [s \in sampled |-> q[s]]
           origins == {Origin(rt, s) : s \in sampled}
<1>1. sampled \in SUBSET SEs /\ IsFiniteSet(sampled)
  <2>1. sampled \in SUBSET SEs
    OBVIOUS
  <2> QED BY <2>1, EnginesAssumption, FS_Subset
<1>2. CASE Cardinality(sampled) < 2
  <2>1. Offsets(q) = [s \in {} |-> 0]
    BY <1>2 DEF Offsets
  <2>2. DOMAIN Offsets(q) = {}
    BY <2>1
  <2> QED BY <2>2, FS_EmptySet
<1>3. CASE ~(Cardinality(sampled) < 2) /\ Rate(rt) <= 0
  <2>1. Offsets(q) = [s \in {} |-> 0]
    BY <1>3 DEF Offsets
  <2>2. DOMAIN Offsets(q) = {}
    BY <2>1
  <2> QED BY <2>2, FS_EmptySet
<1>4. CASE ~(Cardinality(sampled) < 2) /\ ~(Rate(rt) <= 0)
  <2>1. Offsets(q) = [s \in sampled |-> Truncate(Division(FromEarliest(rt, s), Rate(rt)))]
    BY <1>4 DEF Offsets
  <2>2. rt \in [sampled -> Seq(Sample)] /\ \A s \in sampled : rt[s] # <<>>
    OBVIOUS
  <2>3. Rate(rt) \in Nat \ {0}
    <3>1. Rate(rt) \in Nat
      <4> HIDE DEF rt, sampled
      <4> QED BY <1>1, <2>2, RateType
    <3> HIDE DEF rt, sampled
    <3> QED BY <1>4, <3>1
  <2>4. ASSUME NEW s \in sampled PROVE Origin(rt, s) \in Int
    <3>1. FirstAnchor(rt[s]) \in Sample
      BY <2>2, AnchorsAreSamples
    <3> HIDE DEF rt, sampled
    <3>2. FirstAnchor(rt[s]).time \in Int /\ FirstAnchor(rt[s]).rc \in Int
      BY <3>1 DEF Sample
    <3>3. Double(FirstAnchor(rt[s]).time) \in Int /\ Double(FirstAnchor(rt[s]).rc) \in Int
      BY <3>2, OperationsClose
    <3> QED BY <2>3, <3>3, MinusProductClose DEF Origin
  <2>5. Earliest(rt) = Min(origins)
    BY DEF Earliest
  <2> HIDE DEF rt, sampled
  <2>6. ASSUME NEW s \in sampled
        PROVE  /\ Origin(rt, s) \in Int /\ Earliest(rt) \in Int /\ FromEarliest(rt, s) \in Nat
               /\ Division(FromEarliest(rt, s), Rate(rt)) \in Nat
               /\ Offsets(q)[s] = Division(FromEarliest(rt, s), Rate(rt)) \div Unit
               /\ Offsets(q)[s] \in Nat
    <3>1. origins \subseteq Int /\ Origin(rt, s) \in origins
      BY <2>4
    <3>2. IsFiniteSet(origins)
      <4> DEFINE o == [t \in sampled |-> Origin(rt, t)]
      <4>1. o \in Surjection(sampled, origins)
        BY DEF Surjection
      <4> HIDE DEF o, origins
      <4> QED BY <1>1, <4>1, FS_Surjection
    <3> HIDE DEF origins
    <3>3. Earliest(rt) \in Int /\ Earliest(rt) <= Origin(rt, s)
      BY <2>5, <3>1, <3>2, FiniteMin
    <3>4. FromEarliest(rt, s) \in Nat
      <4>1. /\ Difference(Origin(rt, s), Earliest(rt)) \in Int
            /\ 0 <= Difference(Origin(rt, s), Earliest(rt))
        BY <2>4, <3>3, OperationsClose
      <4> QED BY <4>1 DEF FromEarliest
    <3>5. Division(FromEarliest(rt, s), Rate(rt)) \in Nat
      <4> DEFINE D == FromEarliest(rt, s)
                 k == Rate(rt)
      <4>1. D \in Int /\ 0 <= D /\ k \in Nat \ {0}
        BY <2>3, <3>4
      <4> HIDE DEF D, k
      <4>2. Division(D, k) \in Int /\ 0 <= Division(D, k)
        BY <4>1, OperationsClose
      <4> QED BY <4>2 DEF D, k
    <3>6. Offsets(q)[s] = Division(FromEarliest(rt, s), Rate(rt)) \div Unit
      <4>1. Offsets(q)[s] = Truncate(Division(FromEarliest(rt, s), Rate(rt)))
        BY <2>1
      <4> QED BY <3>5, <4>1 DEF Truncate
    <3>7. Offsets(q)[s] \in Nat
      BY <3>5, <3>6, Quotient, DoublesAssumption
    <3> QED BY <2>4, <3>3, <3>4, <3>5, <3>6, <3>7
  <2>7. DOMAIN Offsets(q) = sampled
    BY <2>1
  <2>8. sampled = {s \in SEs : q[s] # <<>>}
    BY DEF sampled
  <2>9. Truncated(q)
    BY <2>3, <2>6, Zenon DEF Truncated, sampled, rt
  <2> QED BY <1>1, <2>6, <2>7, <2>8, <2>9
<1> QED BY <1>2, <1>3, <1>4

-----------------------------------------------------------------------------
(* A list whose records are shifted.                                       *)
Movable(S) == \A r \in S : /\ r.time \in Int /\ r.raw \in Int
                           /\ \A d \in Int : /\ [r EXCEPT !.time = @ + d] \in S
                                             /\ [r EXCEPT !.time = @ + d].time = r.time + d
                                             /\ [r EXCEPT !.time = @ + d].raw = r.raw

LEMMA AllMovable ==
    Movable(Sample) /\ Movable(Occupancy) /\ Movable(Event) /\ Movable(Wave) /\ Movable(Shader)
<1>1. Movable(Sample)
  BY DEF Movable, Sample
<1>2. Movable(Occupancy)
  BY DEF Movable, Occupancy
<1>3. Movable(Event)
  BY DEF Movable, Event
<1>4. Movable(Wave)
  BY DEF Movable, Wave
<1>5. Movable(Shader)
  BY DEF Movable, Shader
<1> QED BY <1>1, <1>2, <1>3, <1>4, <1>5

LEMMA Shifted ==
    ASSUME NEW S, Movable(S), NEW q \in Seq(S), NEW d \in Int
    PROVE  /\ Shift(q, d) \in Seq(S)
           /\ DOMAIN Shift(q, d) = DOMAIN q
           /\ \A i \in DOMAIN q : Shift(q, d)[i] = [q[i] EXCEPT !.time = @ + d]
           /\ q # <<>> => Shift(q, d) # <<>>
           /\ MovedBy(q, 0) => MovedBy(Shift(q, d), d)
<1>1. \A i \in DOMAIN q : /\ q[i] \in S /\ q[i].time \in Int /\ q[i].raw \in Int
                         /\ [q[i] EXCEPT !.time = @ + d] \in S
                         /\ [q[i] EXCEPT !.time = @ + d].time = q[i].time + d
                         /\ [q[i] EXCEPT !.time = @ + d].raw = q[i].raw
  BY DEF Movable
<1>2. /\ DOMAIN Shift(q, d) = DOMAIN q
      /\ \A i \in DOMAIN q : Shift(q, d)[i] = [q[i] EXCEPT !.time = @ + d]
  BY DEF Shift
<1>3. DOMAIN q = 1 .. Len(q) /\ Len(q) \in Nat
  OBVIOUS
<1>4. Shift(q, d) \in Seq(S)
  <2>1. Shift(q, d) = [i \in 1 .. Len(q) |-> [q[i] EXCEPT !.time = @ + d]]
    BY <1>3 DEF Shift
  <2> QED BY <1>1, <1>3, <2>1
<1>5. q # <<>> => Shift(q, d) # <<>>
  <2>1. q # <<>> => Len(Shift(q, d)) # 0
    BY <1>2, <1>3, <1>4, EmptySeq
  <2> QED BY <1>4, <2>1
<1>6. MovedBy(q, 0) => MovedBy(Shift(q, d), d)
  <2> SUFFICES ASSUME MovedBy(q, 0), NEW i \in DOMAIN q
               PROVE  Shift(q, d)[i].time = Shift(q, d)[i].raw + d
    BY <1>2 DEF MovedBy
  <2>1. q[i].time = q[i].raw + 0
    BY DEF MovedBy
  <2>2. Shift(q, d)[i].time = q[i].time + d /\ Shift(q, d)[i].raw = q[i].raw
    BY <1>1, <1>2
  <2>3. q[i].time \in Int /\ q[i].raw \in Int
    BY <1>1
  <2> QED BY <2>1, <2>2, <2>3
<1> QED BY <1>2, <1>4, <1>5, <1>6

(* What becomes of the lists of all engines when off is applied to them.   *)
ShiftedLists(new, old, S, off) ==
    /\ new \in [SEs -> Seq(S)]
    /\ \A s \in SEs : DOMAIN new[s] = DOMAIN old[s]
    /\ \A s \in SEs : s \notin DOMAIN off => new[s] = old[s]
    /\ \A s \in DOMAIN off : /\ new[s] = Shift(old[s], off[s])
                             /\ MovedBy(new[s], off[s])
                             /\ old[s] # <<>> => new[s] # <<>>

LEMMA ShiftedBySe ==
    ASSUME NEW S, Movable(S), NEW lists \in [SEs -> Seq(S)], \A s \in SEs : MovedBy(lists[s], 0),
           NEW off, DOMAIN off \subseteq SEs, \A s \in DOMAIN off : off[s] \in Nat
    PROVE  ShiftedLists(ShiftBySe(lists, off), lists, S, off)
<1>1. ASSUME NEW s \in DOMAIN off
      PROVE  /\ Shift(lists[s], off[s]) \in Seq(S)
             /\ DOMAIN Shift(lists[s], off[s]) = DOMAIN lists[s]
             /\ lists[s] # <<>> => Shift(lists[s], off[s]) # <<>>
             /\ MovedBy(Shift(lists[s], off[s]), off[s])
  <2>1. off[s] \in Int /\ lists[s] \in Seq(S) /\ MovedBy(lists[s], 0)
    BY <1>1
  <2> QED BY <2>1, Shifted
<1>2. \A s \in SEs : ShiftBySe(lists, off)[s]
                       = IF s \in DOMAIN off THEN Shift(lists[s], off[s]) ELSE lists[s]
  BY DEF ShiftBySe
<1>3. ShiftBySe(lists, off) \in [SEs -> Seq(S)]
  <2>1. \A s \in SEs : (IF s \in DOMAIN off THEN Shift(lists[s], off[s]) ELSE lists[s]) \in Seq(S)
    BY <1>1
  <2> QED BY <2>1 DEF ShiftBySe
<1>4. \A s \in SEs : DOMAIN ShiftBySe(lists, off)[s] = DOMAIN lists[s]
  BY <1>1, <1>2
<1>5. \A s \in SEs : s \notin DOMAIN off => ShiftBySe(lists, off)[s] = lists[s]
  BY <1>2
<1>6. ASSUME NEW s \in DOMAIN off
      PROVE  /\ ShiftBySe(lists, off)[s] = Shift(lists[s], off[s])
             /\ MovedBy(ShiftBySe(lists, off)[s], off[s])
             /\ lists[s] # <<>> => ShiftBySe(lists, off)[s] # <<>>
  <2>1. ShiftBySe(lists, off)[s] = Shift(lists[s], off[s])
    BY <1>2
  <2> QED BY <1>1, <2>1
<1> QED BY <1>3, <1>4, <1>5, <1>6 DEF ShiftedLists

(* An id names waves of one engine only, that of the file which reported it. *)
LEMMA NamedByOneEngine ==
    ASSUME TimesTypeOK, WavesReported, NEW s \in SEs, NEW t \in SEs, NEW id,
           NEW i \in DOMAIN entries[s], NEW j \in DOMAIN entries[t],
           entries[s][i].id = id, entries[t][j].id = id
    PROVE  s = t
<1>1. PICK f \in Files : /\ recording.files[f].se = s
                        /\ \E r \in ToSet(recording.files[f].records) : r.kind = "wave" /\ r.id = id
  BY DEF WavesReported
<1>2. PICK g \in Files : /\ recording.files[g].se = t
                        /\ \E r \in ToSet(recording.files[g].records) : r.kind = "wave" /\ r.id = id
  BY DEF WavesReported
<1>3. recording \in Recordings
  BY DEF TimesTypeOK
<1> QED BY <1>1, <1>2, <1>3, OwnEngineAssumption

LEMMA NamingCounts ==
    ASSUME TimesTypeOK, NEW s \in SEs, NEW id
    PROVE  /\ Naming(s, id) \in Nat
           /\ Naming(s, id) = 0 <=> \A i \in DOMAIN entries[s] : entries[s][i].id # id
<1> DEFINE named == {i \in DOMAIN entries[s] : entries[s][i].id = id}
<1>1. IsFiniteSet(named)
  <2>1. DOMAIN entries[s] = 1 .. Len(entries[s]) /\ Len(entries[s]) \in Nat
    BY DEF TimesTypeOK
  <2>2. IsFiniteSet(DOMAIN entries[s])
    BY <2>1, FS_Interval
  <2> QED BY <2>2, FS_Subset
<1>2. Naming(s, id) = Cardinality(named)
  BY DEF Naming
<1>3. named = {} <=> \A i \in DOMAIN entries[s] : entries[s][i].id # id
  OBVIOUS
<1> HIDE DEF named
<1> QED BY <1>1, <1>2, <1>3, FS_CardinalityType, FS_EmptySet

(* The shift of a record that one entry names is that of the entry's       *)
(* engine.                                                                 *)
LEMMA ShiftOfRecord ==
    ASSUME TimesTypeOK, WavesReported, NEW id, NEW off,
           DOMAIN off \in SUBSET SEs, IsFiniteSet(DOMAIN off), \A s \in DOMAIN off : off[s] \in Nat
    PROVE  LET shift == SumFunction([s \in DOMAIN off |-> Naming(s, id) * off[s]])
           IN  /\ shift \in Nat
               /\ \A s \in DOMAIN off : Naming(s, id) = 1 => shift = off[s]
<1> DEFINE f == [s \in DOMAIN off |-> Naming(s, id) * off[s]]
           shift == SumFunction(f)
<1>1. ASSUME NEW s \in DOMAIN off PROVE f[s] = Naming(s, id) * off[s] /\ f[s] \in Nat
  <2>1. Naming(s, id) \in Nat
    BY NamingCounts
  <2> QED BY <2>1
<1>2. DOMAIN f = DOMAIN off
  OBVIOUS
<1> HIDE DEF f
<1>3. shift = SumOver(f, DOMAIN off)
  BY <1>2, SumIsOver
<1>4. shift \in Nat
  BY <1>1, <1>3, SumType
<1>5. ASSUME NEW s \in DOMAIN off, Naming(s, id) = 1
      PROVE  shift = off[s]
  <2>1. shift = f[s] + SumOver(f, DOMAIN off \ {s})
    BY <1>1, <1>3, SumRemove
  <2>2. ASSUME NEW t \in DOMAIN off \ {s} PROVE f[t] = 0
    <3>1. PICK i \in DOMAIN entries[s] : entries[s][i].id = id
      BY <1>5, NamingCounts
    <3>2. \A j \in DOMAIN entries[t] : entries[t][j].id # id
      BY <3>1, NamedByOneEngine
    <3>3. Naming(t, id) = 0
      BY <3>2, NamingCounts
    <3>4. off[t] \in Nat /\ t \in DOMAIN off
      OBVIOUS
    <3> QED BY <1>1, <3>3, <3>4
  <2>3. IsFiniteSet(DOMAIN off \ {s})
    BY FS_Subset
  <2>4. SumOver(f, DOMAIN off \ {s}) = 0
    <3>1. \A t \in DOMAIN off \ {s} : f[t] \in Nat /\ f[t] = 0
      BY <1>1, <2>2
    <3> QED BY <2>3, <3>1, SumZero
  <2> QED BY <1>1, <1>5, <2>1, <2>4
<1> QED BY <1>4, <1>5 DEF f

(* All engines are shifted: every list of an engine, and the records its   *)
(* entries name, by the engine's offset.                                   *)
LEMMA ShiftPlaces ==
    ASSUME TimesInv, ~applied, Unmoved, recording' = recording,
           NEW off, off = Offsets(realtime), DOMAIN off # {}, RequiredSEs \subseteq DOMAIN off,
           ApplyTimeOffsets(off), pos' = pos, phase' = "align", applied'
    PROVE  TimesInv'
<1>1. TimesTypeOK /\ WavesReported
  BY DEF TimesInv
<1>2. /\ DOMAIN off \in SUBSET SEs /\ IsFiniteSet(DOMAIN off)
      /\ \A s \in DOMAIN off : off[s] \in Nat
      /\ DOMAIN off = {s \in SEs : realtime[s] # <<>>}
  <2>1. realtime \in [SEs -> Seq(Sample)]
    BY <1>1 DEF TimesTypeOK
  <2> QED BY <2>1, OffsetsKnown
<1>3. /\ Movable(Sample) /\ Movable(Occupancy) /\ Movable(Event) /\ Movable(Wave)
      /\ Movable(Shader)
  BY AllMovable
<1>4. /\ realtime' = ShiftBySe(realtime, off) /\ occupancy' = ShiftBySe(occupancy, off)
      /\ timeline' = ShiftBySe(timeline, off) /\ entries' = ShiftBySe(entries, off)
      /\ wave_records' = ShiftRecords(off)
      /\ shader' = [l \in Slots |-> IF SeOf[l] \in DOMAIN off THEN Shift(shader[l], off[SeOf[l]])
                                                               ELSE shader[l]]
  BY DEF ApplyTimeOffsets
<1>5. /\ ShiftedLists(realtime', realtime, Sample, off)
      /\ ShiftedLists(occupancy', occupancy, Occupancy, off)
      /\ ShiftedLists(timeline', timeline, Event, off)
      /\ ShiftedLists(entries', entries, Wave, off)
  <2>1. \A s \in SEs : /\ MovedBy(realtime[s], 0) /\ MovedBy(occupancy[s], 0)
                       /\ MovedBy(timeline[s], 0) /\ MovedBy(entries[s], 0)
    BY DEF Unmoved
  <2>2. ShiftedLists(realtime', realtime, Sample, off)
    <3>1. realtime \in [SEs -> Seq(Sample)] /\ Movable(Sample) /\ realtime' = ShiftBySe(realtime, off)
      BY <1>1, <1>3, <1>4 DEF TimesTypeOK
    <3> QED BY <1>2, <2>1, <3>1, ShiftedBySe
  <2>3. ShiftedLists(occupancy', occupancy, Occupancy, off)
    <3>1. occupancy \in [SEs -> Seq(Occupancy)] /\ Movable(Occupancy) /\ occupancy' = ShiftBySe(occupancy, off)
      BY <1>1, <1>3, <1>4 DEF TimesTypeOK
    <3> QED BY <1>2, <2>1, <3>1, ShiftedBySe
  <2>4. ShiftedLists(timeline', timeline, Event, off)
    <3>1. timeline \in [SEs -> Seq(Event)] /\ Movable(Event) /\ timeline' = ShiftBySe(timeline, off)
      BY <1>1, <1>3, <1>4 DEF TimesTypeOK
    <3> QED BY <1>2, <2>1, <3>1, ShiftedBySe
  <2>5. ShiftedLists(entries', entries, Wave, off)
    <3>1. entries \in [SEs -> Seq(Wave)] /\ Movable(Wave) /\ entries' = ShiftBySe(entries, off)
      BY <1>1, <1>3, <1>4 DEF TimesTypeOK
    <3> QED BY <1>2, <2>1, <3>1, ShiftedBySe
  <2> QED BY <2>2, <2>3, <2>4, <2>5
<1>6. /\ shader' \in [Slots -> Seq(Shader)]
      /\ \A l \in Slots : /\ SeOf[l] \notin DOMAIN off => shader'[l] = shader[l]
                          /\ SeOf[l] \in DOMAIN off => MovedBy(shader'[l], off[SeOf[l]])
  <2>1. ASSUME NEW l \in Slots, SeOf[l] \in DOMAIN off
        PROVE  /\ Shift(shader[l], off[SeOf[l]]) \in Seq(Shader)
               /\ MovedBy(Shift(shader[l], off[SeOf[l]]), off[SeOf[l]])
    <3>1. shader[l] \in Seq(Shader) /\ off[SeOf[l]] \in Int /\ MovedBy(shader[l], 0)
      BY <1>1, <1>2, <2>1 DEF TimesTypeOK, Unmoved
    <3> QED BY <1>3, <3>1, Shifted
  <2>2. \A l \in Slots : shader'[l] = IF SeOf[l] \in DOMAIN off
                                         THEN Shift(shader[l], off[SeOf[l]]) ELSE shader[l]
    BY <1>4
  <2>3. \A l \in Slots : shader[l] \in Seq(Shader)
    BY <1>1 DEF TimesTypeOK
  <2>4. \A l \in Slots : shader'[l] \in Seq(Shader)
    BY <2>1, <2>2, <2>3
  <2>5. shader' \in [Slots -> Seq(Shader)]
    BY <1>4, <2>4
  <2> QED BY <2>1, <2>2, <2>5
<1>7. ASSUME NEW s \in SEs
      PROVE  /\ DOMAIN entries'[s] = DOMAIN entries[s]
             /\ \A i \in DOMAIN entries[s] : entries'[s][i].id = entries[s][i].id
  <2>1. DOMAIN entries'[s] = DOMAIN entries[s]
    BY <1>5 DEF ShiftedLists
  <2>2. CASE s \in DOMAIN off
    <3>1. entries[s] \in Seq(Wave) /\ off[s] \in Int /\ entries'[s] = Shift(entries[s], off[s])
      BY <1>1, <1>2, <1>5, <2>2 DEF TimesTypeOK, ShiftedLists
    <3> SUFFICES ASSUME NEW i \in DOMAIN entries[s] PROVE entries'[s][i].id = entries[s][i].id
      BY <2>1
    <3>2. entries'[s][i] = [entries[s][i] EXCEPT !.time = @ + off[s]]
      BY <1>3, <3>1, Shifted
    <3>3. entries[s][i] \in Wave
      BY <3>1
    <3> QED BY <3>2, <3>3 DEF Wave
  <2>3. CASE s \notin DOMAIN off
    BY <1>5, <2>3 DEF ShiftedLists
  <2> QED BY <2>1, <2>2, <2>3
<1>8. WavesReported'
  <2>1. recording' = recording
    OBVIOUS
  <2> QED BY <1>1, <1>7, <2>1 DEF WavesReported
<1>9. \A s \in SEs : \A id : Naming(s, id)' = Naming(s, id)
  <2> SUFFICES ASSUME NEW s \in SEs, NEW id PROVE Naming(s, id)' = Naming(s, id)
    OBVIOUS
  <2>1. DOMAIN entries'[s] = DOMAIN entries[s]
    BY <1>7
  <2>2. {i \in DOMAIN entries'[s] : entries'[s][i].id = id} = {i \in DOMAIN entries[s] : entries[s][i].id = id}
    BY <1>7, <2>1
  <2> QED BY <2>2 DEF Naming
<1>10. ASSUME NEW id \in DOMAIN wave_records
       PROVE  /\ wave_records'[id] \in Wave /\ wave_records'[id].id = id
              /\ \A s \in DOMAIN off : Naming(s, id) = 1 =>
                    wave_records'[id].time = wave_records'[id].raw + off[s]
  <2> DEFINE shift == SumFunction([s \in DOMAIN off |-> Naming(s, id) * off[s]])
  <2>1. shift \in Nat /\ \A s \in DOMAIN off : Naming(s, id) = 1 => shift = off[s]
    BY <1>1, <1>2, ShiftOfRecord
  <2>2. wave_records'[id] = [wave_records[id] EXCEPT !.time = @ + shift]
    BY <1>4 DEF ShiftRecords
  <2> HIDE DEF shift
  <2>3. /\ wave_records[id] \in Wave /\ wave_records[id].id = id /\ wave_records[id].time = wave_records[id].raw + 0
    BY <1>1 DEF TimesTypeOK, Unmoved, MovedBy
  <2>4. /\ wave_records'[id] \in Wave /\ wave_records'[id].id = id
        /\ wave_records'[id].time = wave_records[id].raw + shift /\ wave_records'[id].raw = wave_records[id].raw
    BY <2>1, <2>2, <2>3 DEF Wave
  <2> QED BY <2>1, <2>4
<1>11. DOMAIN wave_records' = DOMAIN wave_records
  BY <1>4 DEF ShiftRecords
<1>12. TimesTypeOK'
  <2>1. /\ realtime' \in [SEs -> Seq(Sample)] /\ occupancy' \in [SEs -> Seq(Occupancy)]
        /\ timeline' \in [SEs -> Seq(Event)] /\ entries' \in [SEs -> Seq(Wave)]
    BY <1>5 DEF ShiftedLists
  <2> QED BY <1>1, <2>1, <1>6, <1>10, <1>11 DEF TimesTypeOK
<1>13. ASSUME NEW s \in SEs
       PROVE  /\ \E d \in Nat : Placed(s, d)'
              /\ realtime'[s] # <<>> \/ Nothing(s)'
  <2>1. CASE s \in DOMAIN off
    <3>1. /\ MovedBy(realtime'[s], off[s]) /\ MovedBy(occupancy'[s], off[s])
          /\ MovedBy(timeline'[s], off[s]) /\ MovedBy(entries'[s], off[s])
          /\ realtime'[s] # <<>>
      BY <1>2, <1>5, <2>1 DEF ShiftedLists
    <3>2. \A l \in Slots : SeOf[l] = s => MovedBy(shader'[l], off[s])
      BY <1>6, <2>1
    <3>3. \A id \in DOMAIN wave_records' :
              Naming(s, id)' = 1 => wave_records'[id].time = wave_records'[id].raw + off[s]
      BY <1>9, <1>10, <1>11, <2>1
    <3>4. Placed(s, off[s])'
      BY <3>1, <3>2, <3>3 DEF Placed
    <3> QED BY <1>2, <2>1, <3>1, <3>4
  <2>2. CASE s \notin DOMAIN off
    <3>1. Nothing(s)
      <4>1. s \notin RequiredSEs /\ realtime[s] = <<>>
        BY <1>2, <2>2
      <4> QED BY <4>1 DEF RequiredSEs, Nothing
    <3>2. Nothing(s)'
      BY <1>5, <1>6, <2>2, <3>1 DEF Nothing, ShiftedLists
    <3>3. \A id : Naming(s, id)' = 0
      BY <1>1, <1>9, <3>1, NamingCounts DEF Nothing
    <3>4. Placed(s, 0)'
      BY <3>2, <3>3 DEF Placed, Nothing, MovedBy
    <3> QED BY <3>2, <3>4
  <2> QED BY <2>1, <2>2
<1> QED BY <1>8, <1>12, <1>13 DEF TimesInv, Together, Completed

LEMMA AlignKeeps == TimesInv /\ AlignClocks => TimesInv'
<1> SUFFICES ASSUME TimesInv, AlignClocks PROVE TimesInv'
  OBVIOUS
<1> DEFINE off == Offsets(realtime)
<1>1. phase = "parse" /\ ~applied /\ Unmoved
  BY DEF TimesInv, Together, AlignClocks, AllDispatched
<1>2. recording' = recording /\ pos' = pos /\ phase' = "align"
  BY DEF AlignClocks
<1>3. CASE ~applied /\ DOMAIN off # {} /\ RequiredSEs \subseteq DOMAIN off
  <2>1. ApplyTimeOffsets(off) /\ applied'
    BY <1>3 DEF AlignClocks
  <2> QED BY <1>1, <1>2, <1>3, <2>1, ShiftPlaces
<1>4. CASE ~(~applied /\ DOMAIN off # {} /\ RequiredSEs \subseteq DOMAIN off)
  <2>1. UNCHANGED <<entries, wave_records, occupancy, timeline, realtime, shader, applied>>
    BY <1>4 DEF AlignClocks
  <2>2. TimesTypeOK' /\ WavesReported' /\ Unmoved'
    BY <1>1, <1>2, <2>1 DEF TimesInv, TimesTypeOK, WavesReported, Unmoved, MovedBy
  <2> QED BY <1>1, <1>2, <2>1, <2>2 DEF TimesInv, Together, Completed
<1> QED BY <1>3, <1>4

-----------------------------------------------------------------------------
(* Sorting keeps the records of a list.                                    *)
LEMMA SortsArrange ==
    /\ \A q : SortOccupancy(q) = Arranged(q, [i \in DOMAIN q |-> OccupancyKey(q[i])], DOMAIN q)
    /\ \A q : SortByTime(q) = Arranged(q, [i \in DOMAIN q |-> q[i].time], DOMAIN q)
BY DEF SortOccupancy, SortByTime, SortedBy

LEMMA ArrangedMoved ==
    ASSUME NEW S, NEW q \in Seq(S), NEW key, \A i \in DOMAIN q : key[i] \in Int, NEW d
    PROVE  /\ Arranged(q, key, DOMAIN q) \in Seq(S)
           /\ MovedBy(q, d) => MovedBy(Arranged(q, key, DOMAIN q), d)
           /\ q = <<>> => Arranged(q, key, DOMAIN q) = <<>>
<1> DEFINE t == Arranged(q, key, DOMAIN q)
<1>1. t \in Seq(S) /\ \A k \in DOMAIN t : \E i \in DOMAIN q : t[k] = q[i]
  <2>1. t \in Seq(S)
    BY ArrangedInOrder
  <2>2. \A k \in DOMAIN t : \E i \in DOMAIN q : t[k] = q[i]
    BY ArrangedInOrder
  <2> QED BY <2>1, <2>2
<1> HIDE DEF t
<1>2. MovedBy(q, d) => MovedBy(t, d)
  BY <1>1 DEF MovedBy
<1>3. q = <<>> => t = <<>>
  <2> SUFFICES ASSUME q = <<>> PROVE t = <<>>
    OBVIOUS
  <2>1. DOMAIN q = {}
    OBVIOUS
  <2>2. DOMAIN t = {}
    BY <1>1, <2>1
  <2> QED BY <1>1, <2>2, EmptySeq
<1> QED BY <1>1, <1>2, <1>3 DEF t

LEMMA SortedOccupancy ==
    ASSUME NEW q \in Seq(Occupancy), NEW d
    PROVE  /\ SortOccupancy(q) \in Seq(Occupancy)
           /\ MovedBy(q, d) => MovedBy(SortOccupancy(q), d)
           /\ q = <<>> => SortOccupancy(q) = <<>>
<1> DEFINE key == [i \in DOMAIN q |-> OccupancyKey(q[i])]
<1>1. \A i \in DOMAIN q : key[i] \in Int
  <2>1. \A i \in DOMAIN q : q[i] \in Occupancy
    OBVIOUS
  <2> QED BY <2>1 DEF OccupancyKey, Occupancy
<1>2. SortOccupancy(q) = Arranged(q, key, DOMAIN q)
  BY SortsArrange
<1> HIDE DEF key
<1> QED BY <1>1, <1>2, ArrangedMoved

LEMMA SortedShader ==
    ASSUME NEW q \in Seq(Shader), NEW d
    PROVE  /\ SortByTime(q) \in Seq(Shader)
           /\ MovedBy(q, d) => MovedBy(SortByTime(q), d)
           /\ q = <<>> => SortByTime(q) = <<>>
           /\ TimeOrdered(SortByTime(q))
<1> DEFINE key == [i \in DOMAIN q |-> q[i].time]
           t == Arranged(q, key, DOMAIN q)
<1>1. \A i \in DOMAIN q : key[i] \in Int /\ key[i] = q[i].time
  <2>1. \A i \in DOMAIN q : q[i] \in Shader
    OBVIOUS
  <2> QED BY <2>1 DEF Shader
<1>2. SortByTime(q) = t
  BY SortsArrange
<1> HIDE DEF key
<1>3. \A a, b \in DOMAIN t : a < b =>
          \E i, j \in DOMAIN q : t[a] = q[i] /\ t[b] = q[j] /\ Precedes(key, i, j)
  BY <1>1, ArrangedInOrder
<1>4. t \in Seq(Shader) /\ (MovedBy(q, d) => MovedBy(t, d)) /\ (q = <<>> => t = <<>>)
  BY <1>1, ArrangedMoved
<1> HIDE DEF t
<1>5. TimeOrdered(t)
  BY <1>1, <1>3 DEF TimeOrdered, Precedes
<1> QED BY <1>2, <1>4, <1>5

LEMMA CompleteKeeps == TimesInv /\ Complete => TimesInv'
<1> SUFFICES ASSUME TimesInv, Complete PROVE TimesInv'
  OBVIOUS
<1>1. TimesTypeOK /\ WavesReported /\ Together
  BY DEF TimesInv
<1>2. /\ \A s \in SEs : occupancy[s] \in Seq(Occupancy)
      /\ \A l \in Slots : shader[l] \in Seq(Shader)
  BY <1>1 DEF TimesTypeOK
<1>3. /\ \A s \in SEs : occupancy'[s] = SortOccupancy(occupancy[s])
      /\ \A l \in Slots : shader'[l] = SortByTime(shader[l])
      /\ occupancy' = [s \in SEs |-> SortOccupancy(occupancy[s])]
      /\ shader' = [l \in Slots |-> SortByTime(shader[l])]
      /\ phase = "align" /\ phase' = "resolve"
      /\ UNCHANGED <<recording, pos, realtime, timeline, entries, wave_records, applied>>
  BY DEF Complete
<1>4. ASSUME NEW s \in SEs
      PROVE  /\ occupancy'[s] \in Seq(Occupancy)
             /\ \A d : MovedBy(occupancy[s], d) => MovedBy(occupancy'[s], d)
             /\ occupancy[s] = <<>> => occupancy'[s] = <<>>
  BY <1>2, <1>3, SortedOccupancy
<1>5. ASSUME NEW l \in Slots
      PROVE  /\ shader'[l] \in Seq(Shader)
             /\ \A d : MovedBy(shader[l], d) => MovedBy(shader'[l], d)
             /\ shader[l] = <<>> => shader'[l] = <<>>
             /\ TimeOrdered(shader'[l])
  BY <1>2, <1>3, SortedShader
<1>6. TimesTypeOK'
  <2>1. occupancy' \in [SEs -> Seq(Occupancy)]
    BY <1>3, <1>4
  <2>2. shader' \in [Slots -> Seq(Shader)]
    BY <1>3, <1>5
  <2> QED BY <1>1, <1>3, <2>1, <2>2 DEF TimesTypeOK
<1>7. WavesReported'
  BY <1>1, <1>3 DEF WavesReported
<1>8. ~applied => Unmoved'
  BY <1>1, <1>3, <1>4, <1>5 DEF Together, Unmoved
<1>9. ASSUME NEW s \in SEs, applied
      PROVE  /\ \E d \in Nat : Placed(s, d)'
             /\ realtime'[s] # <<>> \/ Nothing(s)'
  <2>1. PICK d \in Nat : Placed(s, d)
    BY <1>1, <1>9 DEF Together
  <2>2. \A id : Naming(s, id)' = Naming(s, id)
    BY <1>3 DEF Naming
  <2>3. Placed(s, d)'
    BY <1>3, <1>4, <1>5, <2>1, <2>2 DEF Placed
  <2>4. realtime'[s] # <<>> \/ Nothing(s)'
    BY <1>1, <1>3, <1>4, <1>5, <1>9 DEF Together, Nothing
  <2> QED BY <2>3, <2>4
<1>10. Completed'
  BY <1>5 DEF Completed
<1> QED BY <1>3, <1>6, <1>7, <1>8, <1>9, <1>10 DEF TimesInv, Together

-----------------------------------------------------------------------------
LEMMA StepKeeps == TimesInv /\ [TimesNext]_timesVars => TimesInv'
<1> SUFFICES ASSUME TimesInv, [TimesNext]_timesVars PROVE TimesInv'
  OBVIOUS
<1>1. ASSUME NEW f \in Files, Dispatch(f) PROVE TimesInv'
  BY <1>1, HandlerKeeps
<1>2. CASE AlignClocks
  BY <1>2, AlignKeeps
<1>3. CASE Complete
  BY <1>3, CompleteKeeps
<1>4. ASSUME UNCHANGED <<recording, pos, phase, realtime, occupancy, timeline, entries, wave_records, shader,
                         applied>>
      PROVE  TimesInv'
  <2>1. TimesTypeOK' /\ WavesReported' /\ Completed'
    BY <1>4 DEF TimesInv, TimesTypeOK, WavesReported, Completed
  <2>2. Unmoved' = Unmoved
    BY <1>4 DEF Unmoved
  <2>3. \A s \in SEs : Nothing(s)' = Nothing(s) /\ \A d \in Nat : Placed(s, d)' = Placed(s, d)
    BY <1>4 DEF Nothing, Placed, Naming
  <2>4. Together'
    BY <1>4, <2>2, <2>3 DEF TimesInv, Together
  <2> QED BY <2>1, <2>4 DEF TimesInv
<1>5. CASE \E l \in Slots : BeginMarkers(l) \/ EndMarkers(l)
  BY <1>4, <1>5 DEF BeginMarkers, EndMarkers
<1>6. CASE WalkMarkers
  BY <1>4, <1>6 DEF WalkMarkers, recordVars
<1>7. CASE UNCHANGED timesVars
  BY <1>4, <1>7 DEF timesVars, recordVars
<1> QED BY <1>1, <1>2, <1>3, <1>5, <1>6, <1>7 DEF TimesNext

(* The lists, the entries, the records: what run() keeps of a trace.       *)
THEOREM TimesInvariance == TimesSpec => []TimesInv
<1>1. TimesInv /\ [TimesNext]_timesVars => TimesInv'
  BY StepKeeps
<1> QED BY <1>1, TimesBegin, PTL DEF TimesSpec

(* All moves of an engine's records are one.                               *)
LEMMA OneMove ==
    ASSUME TimesTypeOK, NEW s \in SEs, NEW d \in Nat, Placed(s, d)
    PROVE  MovesOf(s) \subseteq {d}
<1>1. ASSUME NEW S, Movable(S), NEW q \in Seq(S), MovedBy(q, d)
      PROVE  Moves(q) \subseteq {d}
  <2> SUFFICES ASSUME NEW i \in DOMAIN q PROVE q[i].time - q[i].raw = d
    BY DEF Moves
  <2>1. q[i] \in S
    OBVIOUS
  <2>2. q[i].time \in Int /\ q[i].raw \in Int
    BY <1>1, <2>1 DEF Movable
  <2> QED BY <1>1, <2>2 DEF MovedBy
<1>2. /\ realtime[s] \in Seq(Sample) /\ occupancy[s] \in Seq(Occupancy)
      /\ timeline[s] \in Seq(Event) /\ entries[s] \in Seq(Wave)
      /\ \A l \in Slots : shader[l] \in Seq(Shader)
  BY DEF TimesTypeOK
<1>3. /\ Moves(realtime[s]) \subseteq {d} /\ Moves(occupancy[s]) \subseteq {d}
      /\ Moves(timeline[s]) \subseteq {d} /\ Moves(entries[s]) \subseteq {d}
  BY <1>1, <1>2, AllMovable DEF Placed
<1>4. \A l \in Slots : SeOf[l] = s => Moves(shader[l]) \subseteq {d}
  BY <1>1, <1>2, AllMovable DEF Placed
<1>5. \A id \in DOMAIN wave_records : Naming(s, id) = 1 => wave_records[id].time - wave_records[id].raw = d
  <2> SUFFICES ASSUME NEW id \in DOMAIN wave_records, Naming(s, id) = 1
               PROVE  wave_records[id].time - wave_records[id].raw = d
    OBVIOUS
  <2>1. wave_records[id].time = wave_records[id].raw + d /\ wave_records[id] \in Wave
    BY DEF Placed, TimesTypeOK
  <2> QED BY <2>1 DEF Wave
<1> DEFINE lists == Moves(realtime[s]) \cup Moves(occupancy[s]) \cup Moves(timeline[s])
                      \cup Moves(entries[s])
           slots == UNION {Moves(shader[l]) : l \in {m \in Slots : SeOf[m] = s}}
           named == {wave_records[id].time - wave_records[id].raw :
                        id \in {i \in DOMAIN wave_records : Naming(s, i) = 1}}
<1>6. lists \subseteq {d} /\ slots \subseteq {d} /\ named \subseteq {d}
  BY <1>3, <1>4, <1>5
<1>7. MovesOf(s) = lists \cup slots \cup named
  BY Zenon DEF MovesOf
<1> HIDE DEF lists, slots, named
<1> QED BY <1>6, <1>7

(* Whatever the order in which the files are decoded, the records of an    *)
(* engine all move by the same time, all engines with records or none are  *)
(* moved, and no time is lowered.                                          *)
THEOREM MovedTogether == TimesSpec => []AlignedTogether
<1>1. TimesInv => AlignedTogether
  <2> SUFFICES ASSUME TimesInv PROVE AlignedTogether
    OBVIOUS
  <2>1. TimesTypeOK /\ Together
    BY DEF TimesInv
  <2>2. ASSUME NEW s \in SEs PROVE \E d \in Nat : Placed(s, d) /\ (~applied => d = 0)
    <3>1. CASE applied
      BY <2>1, <3>1 DEF Together
    <3>2. CASE ~applied
      <4>1. Unmoved
        BY <2>1, <3>2 DEF Together
      <4>2. Placed(s, 0)
        BY <4>1 DEF Unmoved, Placed, MovedBy
      <4> QED BY <4>2
    <3> QED BY <3>1, <3>2
  <2>3. ASSUME NEW s \in SEs
        PROVE  /\ Cardinality(MovesOf(s)) <= 1
               /\ ~applied => MovesOf(s) \subseteq {0}
               /\ \A m \in MovesOf(s) : m >= 0
    <3>1. PICK d \in Nat : Placed(s, d) /\ (~applied => d = 0)
      BY <2>2
    <3>2. MovesOf(s) \subseteq {d}
      BY <2>1, <3>1, OneMove
    <3>3. IsFiniteSet({d}) /\ Cardinality({d}) = 1
      BY FS_Singleton
    <3>4. Cardinality(MovesOf(s)) <= 1
      BY <3>2, <3>3, FS_Subset
    <3> QED BY <3>1, <3>2, <3>4
  <2>4. ASSUME applied, NEW s \in SEs, MovesOf(s) # {} PROVE realtime[s] # <<>>
    <3> SUFFICES ASSUME Nothing(s) PROVE FALSE
      BY <2>1, <2>4 DEF Together
    <3>1. \A id : Naming(s, id) = 0
      BY <2>1, NamingCounts DEF Nothing
    <3>2. /\ Moves(realtime[s]) = {} /\ Moves(occupancy[s]) = {} /\ Moves(timeline[s]) = {}
          /\ Moves(entries[s]) = {} /\ \A l \in Slots : SeOf[l] = s => Moves(shader[l]) = {}
      BY DEF Nothing, Moves
    <3> QED BY <2>4, <3>1, <3>2 DEF MovesOf
  <2> QED BY <2>3, <2>4 DEF AlignedTogether
<1> QED BY <1>1, TimesInvariance, PTL

-----------------------------------------------------------------------------
(* The samples as they were reported.                                      *)
Reports == [s \in SEs |-> Unshifted(realtime[s])]

(* The samples have been moved by the offsets that the reports give.       *)
SamplesMoved ==
    applied => \A s \in SEs : realtime[s] # <<>> =>
        s \in DOMAIN Offsets(Reports) /\ MovedBy(realtime[s], Offsets(Reports)[s])

LEMMA UnshiftedList ==
    ASSUME NEW q \in Seq(Sample), MovedBy(q, 0)
    PROVE  /\ Unshifted(q) = q
           /\ \A d \in Int : Unshifted(Shift(q, d)) = q
<1>1. \A i \in DOMAIN q : q[i] \in Sample /\ q[i].time = q[i].raw + 0
  BY DEF MovedBy
<1>2. DOMAIN q = 1 .. Len(q) /\ q = [i \in DOMAIN q |-> q[i]]
  OBVIOUS
<1>3. \A i \in DOMAIN q : [q[i] EXCEPT !.time = q[i].raw] = q[i]
  <2> SUFFICES ASSUME NEW i \in DOMAIN q PROVE [q[i] EXCEPT !.time = q[i].raw] = q[i]
    OBVIOUS
  <2>1. q[i].time = q[i].raw
    BY <1>1 DEF Sample
  <2> QED BY <1>1, <2>1 DEF Sample
<1>4. Unshifted(q) = q
  BY <1>2, <1>3 DEF Unshifted
<1>5. ASSUME NEW d \in Int PROVE Unshifted(Shift(q, d)) = q
  <2> DEFINE t == Shift(q, d)
  <2>1. DOMAIN t = DOMAIN q /\ \A i \in DOMAIN q : t[i] = [q[i] EXCEPT !.time = @ + d]
    BY AllMovable, Shifted
  <2> HIDE DEF t
  <2>2. ASSUME NEW i \in DOMAIN q PROVE [t[i] EXCEPT !.time = t[i].raw] = q[i]
    <3>1. t[i] = [q[i] EXCEPT !.time = @ + d] /\ q[i] \in Sample /\ q[i].time = q[i].raw + 0
      BY <1>1, <2>1
    <3>2. t[i].raw = q[i].raw /\ q[i].time = q[i].raw
      BY <3>1 DEF Sample
    <3> QED BY <3>1, <3>2 DEF Sample
  <2> QED BY <1>2, <2>1, <2>2 DEF Unshifted, t
<1> QED BY <1>4, <1>5

LEMMA SamplesKeep == TimesInv /\ SamplesMoved /\ [TimesNext]_timesVars => SamplesMoved'
<1> SUFFICES ASSUME TimesInv, SamplesMoved, [TimesNext]_timesVars PROVE SamplesMoved'
  OBVIOUS
<1>1. ASSUME UNCHANGED <<realtime, applied>> PROVE SamplesMoved'
  <2>1. Reports' = Reports
    BY <1>1 DEF Reports
  <2> QED BY <1>1, <2>1 DEF SamplesMoved
<1>2. ASSUME NEW f \in Files, Dispatch(f) PROVE SamplesMoved'
  <2>1. ~applied'
    BY <1>2 DEF TimesInv, Together, Dispatch, OnRealtime, OnOccupancy, OnTimeline, OnWave,
                OnShaderData, Dispatching
  <2> QED BY <2>1 DEF SamplesMoved
<1>3. CASE AlignClocks
  <2> DEFINE off == Offsets(realtime)
  <2>1. /\ TimesTypeOK /\ Unmoved /\ realtime \in [SEs -> Seq(Sample)]
    BY <1>3 DEF TimesInv, TimesTypeOK, Together, AlignClocks, AllDispatched
  <2>2. CASE ~applied /\ DOMAIN off # {} /\ RequiredSEs \subseteq DOMAIN off
    <3>1. realtime' = ShiftBySe(realtime, off)
      BY <1>3, <2>2 DEF AlignClocks, ApplyTimeOffsets
    <3>2. /\ DOMAIN off \subseteq SEs /\ \A s \in DOMAIN off : off[s] \in Nat
          /\ DOMAIN off = {s \in SEs : realtime[s] # <<>>}
      BY <2>1, <2>2, OffsetsKnown
    <3>3. ShiftedLists(realtime', realtime, Sample, off)
      <4>1. \A s \in SEs : MovedBy(realtime[s], 0)
        BY <2>1 DEF Unmoved
      <4> HIDE DEF off
      <4> QED BY <2>1, <3>1, <3>2, <4>1, AllMovable, ShiftedBySe
    <3>4. ASSUME NEW s \in SEs PROVE Unshifted(realtime'[s]) = realtime[s]
      <4>1. realtime[s] \in Seq(Sample) /\ MovedBy(realtime[s], 0)
        BY <2>1 DEF Unmoved
      <4>2. CASE s \in DOMAIN off
        <5>1. realtime'[s] = Shift(realtime[s], off[s]) /\ off[s] \in Int
          BY <3>2, <3>3, <4>2 DEF ShiftedLists
        <5> QED BY <4>1, <5>1, UnshiftedList
      <4>3. CASE s \notin DOMAIN off
        <5>1. realtime'[s] = realtime[s]
          BY <3>3, <4>3 DEF ShiftedLists
        <5> QED BY <4>1, <5>1, UnshiftedList
      <4> QED BY <4>2, <4>3
    <3>5. Reports' = realtime
      BY <2>1, <3>4 DEF Reports
    <3>6. ASSUME NEW s \in SEs, realtime'[s] # <<>>
          PROVE  s \in DOMAIN off /\ MovedBy(realtime'[s], off[s])
      BY <3>2, <3>3, <3>6 DEF ShiftedLists
    <3> QED BY <3>5, <3>6 DEF SamplesMoved
  <2>3. CASE ~(~applied /\ DOMAIN off # {} /\ RequiredSEs \subseteq DOMAIN off)
    BY <1>1, <1>3, <2>3 DEF AlignClocks
  <2> QED BY <2>2, <2>3
<1>4. CASE Complete
  BY <1>1, <1>4 DEF Complete
<1>5. CASE \E l \in Slots : BeginMarkers(l) \/ EndMarkers(l)
  BY <1>1, <1>5 DEF BeginMarkers, EndMarkers
<1>6. CASE WalkMarkers
  BY <1>1, <1>6 DEF WalkMarkers, recordVars
<1>7. CASE UNCHANGED timesVars
  BY <1>1, <1>7 DEF timesVars, recordVars
<1> QED BY <1>2, <1>3, <1>4, <1>5, <1>6, <1>7 DEF TimesNext

(* The first sample of a list stays the first when the list is moved.      *)
LEMMA AnchorMoved ==
    ASSUME NEW q \in Seq(Sample), NEW d \in Int, MovedBy(q, d)
    PROVE  /\ Unshifted(q) \in Seq(Sample)
           /\ Unshifted(q) = <<>> <=> q = <<>>
           /\ q # <<>> => /\ FirstAnchor(q).rc = FirstAnchor(Unshifted(q)).rc
                          /\ FirstAnchor(q).time = FirstAnchor(Unshifted(q)).time + d
<1> DEFINE u == Unshifted(q)
<1>1. \A i \in DOMAIN q : q[i] \in Sample /\ q[i].time = q[i].raw + d
  BY DEF MovedBy
<1>2. DOMAIN u = DOMAIN q /\ DOMAIN q = 1 .. Len(q)
  BY DEF Unshifted
<1>3. ASSUME NEW i \in DOMAIN q
      PROVE  /\ u[i] \in Sample /\ u[i].rc = q[i].rc /\ q[i].time = u[i].time + d
             /\ u[i].time \in Int
  <2>1. u[i] = [q[i] EXCEPT !.time = q[i].raw]
    BY DEF Unshifted
  <2> QED BY <1>1, <2>1 DEF Sample
<1>4. u \in Seq(Sample)
  <2>1. u = [i \in 1 .. Len(q) |-> u[i]]
    BY <1>2 DEF Unshifted
  <2> HIDE DEF u
  <2> QED BY <1>2, <1>3, <2>1
<1> HIDE DEF u
<1>5. u = <<>> <=> q = <<>>
  BY <1>2, <1>4, EmptySeq
<1>6. ASSUME q # <<>>
      PROVE  FirstAnchor(q).rc = FirstAnchor(u).rc /\ FirstAnchor(q).time = FirstAnchor(u).time + d
  <2>1. PICK i \in DOMAIN q : /\ FirstAnchor(q) = q[i]
                              /\ \A j \in DOMAIN q : \/ q[i].time < q[j].time
                                                     \/ q[i].time = q[j].time /\ i <= j
    BY <1>6, AnchorsExist
  <2>2. PICK k \in DOMAIN u : /\ FirstAnchor(u) = u[k]
                              /\ \A j \in DOMAIN u : \/ u[k].time < u[j].time
                                                     \/ u[k].time = u[j].time /\ k <= j
    BY <1>4, <1>5, <1>6, AnchorsExist
  <2>3. /\ q[i].time < q[k].time \/ (q[i].time = q[k].time /\ i <= k)
        /\ u[k].time < u[i].time \/ (u[k].time = u[i].time /\ k <= i)
    BY <1>2, <2>1, <2>2
  <2>4. /\ q[i].time = u[i].time + d /\ q[k].time = u[k].time + d
        /\ u[i].time \in Int /\ u[k].time \in Int
    BY <1>2, <1>3
  <2>5. i \in Int /\ k \in Int
    BY <1>2
  <2>6. i = k
    BY <2>3, <2>4, <2>5
  <2> QED BY <1>2, <1>3, <2>1, <2>2, <2>6
<1> QED BY <1>4, <1>5, <1>6 DEF u

(* The shift of an engine takes its first sample to less than a cycle from *)
(* the common origin, up to what the roundings add.                        *)
LEMMA ShiftClose ==
    ASSUME NEW rt, NEW s, Rate(rt) \in Nat \ {0},
           FirstAnchor(rt[s]).rc \in Int, FirstAnchor(rt[s]).time \in Int,
           Origin(rt, s) \in Int, Earliest(rt) \in Int, FromEarliest(rt, s) \in Nat,
           Division(FromEarliest(rt, s), Rate(rt)) \in Nat,
           NEW d, d = Division(FromEarliest(rt, s), Rate(rt)) \div Unit
    PROVE  LET a == FirstAnchor(rt[s])
               x == 2 * Unit * (a.rc * Unit - a.time * Rate(rt) - Earliest(rt) - d * Rate(rt))
           IN /\ x \in Int /\ RoundingOf(rt, s) \in Int
              /\ -RoundingOf(rt, s) <= x /\ x < 2 * Unit * Rate(rt) + RoundingOf(rt, s)
<1> DEFINE k  == Rate(rt)
           rc == FirstAnchor(rt[s]).rc
           t  == FirstAnchor(rt[s]).time
           C  == Double(rc)
           T  == Double(t)
           o  == Origin(rt, s)
           e  == Earliest(rt)
           D  == FromEarliest(rt, s)
           Q  == Division(D, k)
           g1 == SpacingAt(rc * Unit, 1)
           g2 == SpacingAt(t * Unit, 1)
           g3 == MinusSpacing(C, T, k)
           g4 == SpacingAt(o - e, 1)
           g5 == SpacingAt(D * Unit, k)
<1>1. Unit \in Nat \ {0}
  BY DoublesAssumption
<1>2. /\ C \in Int /\ g1 \in Nat /\ 2 * (C - rc * Unit) <= g1 /\ 2 * (rc * Unit - C) <= g1
      /\ T \in Int /\ g2 \in Nat /\ 2 * (T - t * Unit) <= g2 /\ 2 * (t * Unit - T) <= g2
  BY OperationsClose
<1>3. /\ g3 \in Nat /\ 2 * (o * Unit - (C * Unit - T * k)) <= Unit * g3
      /\ 2 * ((C * Unit - T * k) - o * Unit) <= Unit * g3
  <2>1. o = MinusProduct(C, T, k)
    BY DEF Origin
  <2> HIDE DEF o, C, T, k
  <2>2. k \in Int
    BY DEF k
  <2> QED BY <1>2, <2>1, <2>2, MinusProductClose
<1>4. /\ D \in Int /\ g4 \in Nat /\ 2 * (D - (o - e)) <= g4 /\ 2 * ((o - e) - D) <= g4
  BY OperationsClose DEF FromEarliest
<1>5. /\ Q \in Int /\ g5 \in Nat
      /\ 2 * (Q * k - D * Unit) <= k * g5 /\ 2 * (D * Unit - Q * k) <= k * g5
  <2>1. D \in Int /\ k \in Nat \ {0}
    OBVIOUS
  <2> HIDE DEF D, k
  <2> QED BY <2>1, OperationsClose
<1>6. d \in Int /\ d * Unit <= Q /\ Q < d * Unit + Unit
  <2>1. Q \in Int /\ d = Q \div Unit
    OBVIOUS
  <2> HIDE DEF Q
  <2> QED BY <1>1, <2>1, Quotient
<1>7. RoundingOf(rt, s) = Unit * (g1 + g3 + g4) + k * (g2 + g5)
  BY DEF RoundingOf
<1>8. k \in Nat \ {0} /\ rc \in Int /\ t \in Int /\ o \in Int /\ e \in Int
  OBVIOUS
<1> DEFINE x == 2 * Unit * (rc * Unit - t * k - e - d * k)
           g == Unit * (g1 + g3 + g4) + k * (g2 + g5)
<1>9. x \in Int /\ g \in Int /\ -g <= x /\ x < 2 * Unit * k + g
  <2> HIDE DEF k, rc, t, C, T, o, e, D, Q, g1, g2, g3, g4, g5
  <2> QED BY <1>1, <1>2, <1>3, <1>4, <1>5, <1>6, <1>8, ShiftArithmetic
<1> HIDE DEF g1, g2, g3, g4, g5
<1> QED BY <1>7, <1>9

LEMMA LagArithmetic ==
    ASSUME NEW U \in Nat \ {0}, NEW k \in Nat \ {0}, NEW m \in Int,
           NEW r1 \in Int, NEW r2 \in Int, NEW t1 \in Int, NEW t2 \in Int,
           NEW d1 \in Int, NEW d2 \in Int, NEW g1 \in Int, NEW g2 \in Int,
           2 * U * (r1 * U - t1 * k - m - d1 * k) < 2 * U * k + g1,
           -g2 <= 2 * U * (r2 * U - t2 * k - m - d2 * k)
    PROVE  2 * U * ((r1 - r2) * U - ((t1 + d1) - (t2 + d2)) * k) < 2 * U * k + g1 + g2
<1> DEFINE x == r1 * U - t1 * k - m - d1 * k
           y == r2 * U - t2 * k - m - d2 * k
<1>1. (r1 - r2) * U - ((t1 + d1) - (t2 + d2)) * k = x - y
  OBVIOUS
<1>2. x \in Int /\ y \in Int
  OBVIOUS
<1>3. 2 * U * x < 2 * U * k + g1 /\ -g2 <= 2 * U * y
  OBVIOUS
<1> HIDE DEF x, y
<1>4. 2 * U * (x - y) = 2 * U * x - 2 * U * y
  BY <1>2
<1>5. 2 * U * x \in Int /\ 2 * U * y \in Int /\ 2 * U * k \in Int
  BY <1>2
<1> QED BY <1>1, <1>3, <1>4, <1>5

LEMMA SampledLag ==
    ASSUME TimesInv, SamplesMoved PROVE ClocksAgree
<1> DEFINE sampled == {s \in SEs : realtime[s] # <<>>}
           rt == [s \in sampled |-> Unshifted(realtime[s])]
           off == Offsets(Reports)
           Lag(p, q) == (p.rc - q.rc) * Unit - (p.time - q.time) * Rate(rt)
<1> SUFFICES ASSUME applied, NEW s \in sampled, NEW t \in sampled
             PROVE  2 * Unit * Lag(FirstAnchor(realtime[s]), FirstAnchor(realtime[t]))
                      < 2 * Unit * Rate(rt) + RoundingOf(rt, s) + RoundingOf(rt, t)
  BY Zenon DEF ClocksAgree
<1>1. realtime \in [SEs -> Seq(Sample)] /\ Together
  BY DEF TimesInv, TimesTypeOK
<1>2. ASSUME NEW e \in SEs
      PROVE  /\ \E d \in Int : MovedBy(realtime[e], d)
             /\ Unshifted(realtime[e]) \in Seq(Sample)
             /\ Unshifted(realtime[e]) = <<>> <=> realtime[e] = <<>>
  <2>1. PICK d \in Nat : Placed(e, d)
    BY <1>1 DEF Together
  <2>2. MovedBy(realtime[e], d) /\ d \in Int /\ realtime[e] \in Seq(Sample)
    BY <1>1, <2>1 DEF Placed
  <2> QED BY <2>2, AnchorMoved
<1>3. Reports \in [SEs -> Seq(Sample)] /\ DOMAIN Reports = SEs
  BY <1>2 DEF Reports
<1>4. sampled = {e \in DOMAIN Reports : Reports[e] # <<>>} /\ rt = [e \in sampled |-> Reports[e]]
  BY <1>2 DEF Reports
<1>5. ASSUME NEW e \in sampled
      PROVE  e \in SEs /\ e \in DOMAIN off /\ MovedBy(realtime[e], off[e]) /\ off[e] \in Nat
  <2>1. e \in DOMAIN off /\ MovedBy(realtime[e], off[e])
    BY DEF SamplesMoved
  <2> QED BY <1>3, <2>1, OffsetsKnown
<1>6. /\ Rate(rt) \in Nat \ {0}
      /\ \A e \in sampled :
           /\ Origin(rt, e) \in Int /\ Earliest(rt) \in Int /\ FromEarliest(rt, e) \in Nat
           /\ Division(FromEarliest(rt, e), Rate(rt)) \in Nat
           /\ off[e] = Division(FromEarliest(rt, e), Rate(rt)) \div Unit
  <2>1. Truncated(Reports)
    <3>1. DOMAIN off # {}
      BY <1>5
    <3> QED BY <1>3, <3>1, OffsetsKnown
  <2> HIDE DEF sampled
  <2> QED BY <1>4, <2>1, Zenon DEF Truncated
<1>7. \A e \in sampled : rt[e] # <<>> /\ rt[e] \in Seq(Sample)
  BY <1>2
<1>8. ASSUME NEW e \in sampled
      PROVE  /\ FirstAnchor(rt[e]).rc \in Int /\ FirstAnchor(rt[e]).time \in Int
             /\ FirstAnchor(realtime[e]).rc = FirstAnchor(rt[e]).rc
             /\ FirstAnchor(realtime[e]).time = FirstAnchor(rt[e]).time + off[e]
  <2>1. FirstAnchor(rt[e]) \in Sample
    BY <1>7, AnchorsAreSamples
  <2>2. realtime[e] \in Seq(Sample) /\ realtime[e] # <<>> /\ rt[e] = Unshifted(realtime[e])
    BY <1>1
  <2>3. off[e] \in Int /\ MovedBy(realtime[e], off[e])
    BY <1>5
  <2>4. /\ FirstAnchor(realtime[e]).rc = FirstAnchor(rt[e]).rc
        /\ FirstAnchor(realtime[e]).time = FirstAnchor(rt[e]).time + off[e]
    BY <2>2, <2>3, AnchorMoved
  <2> HIDE DEF rt, sampled, off
  <2> QED BY <2>1, <2>4 DEF Sample
<1> HIDE DEF rt, sampled, off
<1> DEFINE k  == Rate(rt)
           m  == Earliest(rt)
           r1 == FirstAnchor(rt[s]).rc
           r2 == FirstAnchor(rt[t]).rc
           t1 == FirstAnchor(rt[s]).time
           t2 == FirstAnchor(rt[t]).time
           d1 == off[s]
           d2 == off[t]
           g1 == RoundingOf(rt, s)
           g2 == RoundingOf(rt, t)
<1>9. /\ g1 \in Int /\ 2 * Unit * (r1 * Unit - t1 * k - m - d1 * k) < 2 * Unit * k + g1
      /\ g2 \in Int /\ -g2 <= 2 * Unit * (r2 * Unit - t2 * k - m - d2 * k)
  BY <1>6, <1>8, ShiftClose
<1>10. /\ FirstAnchor(realtime[s]).rc = r1 /\ FirstAnchor(realtime[t]).rc = r2
       /\ FirstAnchor(realtime[s]).time = t1 + d1 /\ FirstAnchor(realtime[t]).time = t2 + d2
  BY <1>8
<1>11. /\ Unit \in Nat \ {0} /\ k \in Nat \ {0} /\ m \in Int /\ r1 \in Int /\ r2 \in Int
       /\ t1 \in Int /\ t2 \in Int /\ d1 \in Int /\ d2 \in Int
  BY <1>5, <1>6, <1>8, DoublesAssumption
<1>12. Lag(FirstAnchor(realtime[s]), FirstAnchor(realtime[t]))
         = (r1 - r2) * Unit - ((t1 + d1) - (t2 + d2)) * k
  BY <1>10
<1> HIDE DEF k, m, r1, r2, t1, t2, d1, d2, g1, g2, Lag
<1>13. 2 * Unit * ((r1 - r2) * Unit - ((t1 + d1) - (t2 + d2)) * k) < 2 * Unit * k + g1 + g2
  BY <1>9, <1>11, LagArithmetic
<1> QED BY <1>12, <1>13 DEF k, g1, g2

(* Once aligned, the samples of two engines place the same real time at    *)
(* the same shader clock, up to one cycle and what the roundings add.      *)
THEOREM ClocksAligned == TimesSpec => []ClocksAgree
<1>1. TimesInit => SamplesMoved
  BY DEF TimesInit, SamplesMoved
<1>2. TimesInv /\ SamplesMoved /\ [TimesNext]_timesVars => SamplesMoved'
  BY SamplesKeep
<1>3. TimesInv /\ SamplesMoved => ClocksAgree
  BY SampledLag
<1> QED BY <1>1, <1>2, <1>3, TimesInvariance, PTL DEF TimesSpec

-----------------------------------------------------------------------------
(***************************************************************************)
(* The walk keeps a stack of open scopes and a list of finished spans.     *)
(* What is invariant of the two is stated for a time t that no record      *)
(* still to be walked precedes, and of which every step of the walk is a   *)
(* sequence of three moves: closing the innermost scope, opening a scope   *)
(* and adding a point, all at t.                                           *)
(***************************************************************************)
(* The time of the next step.                                              *)
Now == IF next > Len(stream) THEN TimeMax ELSE stream[next].time

(* The open scopes: one per depth, each entered within the one around it.  *)
Frames(st, t) ==
    \A k \in 1 .. Len(st) : /\ st[k].depth = k - 1
                            /\ st[k].enter <= t
                            /\ \A j \in 1 .. Len(st) : j <= k => st[j].enter <= st[k].enter

(* The finished spans are over at t.                                       *)
Ended(sp, t) == \A i \in 1 .. Len(sp) : sp[i].enter <= sp[i].exit /\ sp[i].exit <= t

(* A finished span was over before any scope at its depth or further in    *)
(* was entered, and lies after or within the scopes further out.           *)
Apart(st, sp) ==
    \A i \in 1 .. Len(sp), k \in 1 .. Len(st) :
        \/ sp[i].exit <= st[k].enter
        \/ k <= sp[i].depth /\ st[k].enter <= sp[i].enter

Nested(st, sp, t) ==
    /\ t \in Int
    /\ st \in Seq(Frame)
    /\ sp \in Seq(Span)
    /\ Frames(st, t)
    /\ Ended(sp, t)
    /\ Apart(st, sp)
    /\ Laminar(sp)
    /\ \A i \in DOMAIN sp : HasParent(st, sp, i)

WalkInv ==
    /\ stream \in Seq(MarkerRecord)
    /\ TimeOrdered(stream)
    /\ next \in 1 .. Len(stream) + 1
    /\ Nested(stack, spans, Now)

-----------------------------------------------------------------------------
LEMMA FrontFacts ==
    ASSUME NEW S, NEW s \in Seq(S), s # <<>>
    PROVE  /\ Front(s) \in Seq(S)
           /\ Len(s) \in Nat \ {0}
           /\ DOMAIN s = 1 .. Len(s)
           /\ Len(Front(s)) = Len(s) - 1
           /\ DOMAIN Front(s) = 1 .. Len(s) - 1
           /\ \A k \in 1 .. Len(s) - 1 : Front(s)[k] = s[k]
           /\ Last(s) = s[Len(s)] /\ Last(s) \in S
<1>1. Len(s) \in Nat \ {0} BY EmptySeq
<1>2. \A i \in 1 .. Len(s) - 1 : s[i] \in S BY <1>1, ElementOfSeq
<1>3. /\ SubSeq(s, 1, Len(s) - 1) \in Seq(S)
      /\ Len(SubSeq(s, 1, Len(s) - 1)) = Len(s) - 1
      /\ \A i \in 1 .. Len(s) - 1 : SubSeq(s, 1, Len(s) - 1)[i] = s[i]
  <2>1. \A i \in 1 .. Len(s) - 1 - 1 + 1 : SubSeq(s, 1, Len(s) - 1)[i] = s[1 + i - 1]
    BY <1>1, <1>2, SubSeqProperties
  <2>2. /\ SubSeq(s, 1, Len(s) - 1) \in Seq(S)
        /\ Len(SubSeq(s, 1, Len(s) - 1)) = IF 1 <= Len(s) - 1 THEN Len(s) - 1 - 1 + 1 ELSE 0
    BY <1>1, <1>2, SubSeqProperties
  <2>3. \A i \in 1 .. Len(s) - 1 : i \in 1 .. Len(s) - 1 - 1 + 1 /\ 1 + i - 1 = i
    BY <1>1
  <2>4. \A i \in 1 .. Len(s) - 1 : SubSeq(s, 1, Len(s) - 1)[i] = s[i]
    BY <2>1, <2>3
  <2>5. Len(SubSeq(s, 1, Len(s) - 1)) = Len(s) - 1
    <3>1. CASE Len(s) = 1 BY <2>2, <3>1
    <3>2. CASE Len(s) # 1
      <4>0. \A n \in Nat \ {0} : n # 1 => 1 <= n - 1 /\ n - 1 - 1 + 1 = n - 1 OBVIOUS
      <4>1. 1 <= Len(s) - 1 /\ Len(s) - 1 - 1 + 1 = Len(s) - 1 BY <1>1, <3>2, <4>0
      <4>. QED BY <2>2, <4>1
    <3>. QED BY <3>1, <3>2
  <2>. QED BY <2>2, <2>4, <2>5
<1>4. s[Len(s)] \in S BY <1>1, ElementOfSeq
<1>. QED BY <1>1, <1>3, <1>4, LenProperties DEF Front, Last

LEMMA AppendFacts ==
    ASSUME NEW S, NEW s \in Seq(S), NEW x \in S
    PROVE  /\ Append(s, x) \in Seq(S)
           /\ Len(s) \in Nat
           /\ DOMAIN s = 1 .. Len(s)
           /\ Len(Append(s, x)) = Len(s) + 1
           /\ DOMAIN Append(s, x) = 1 .. Len(s) + 1
           /\ \A k \in 1 .. Len(s) : Append(s, x)[k] = s[k] /\ s[k] \in S
           /\ Append(s, x)[Len(s) + 1] = x
  BY ElementOfSeq

(* Closing the innermost scope at t.                                       *)
LEMMA CloseLast ==
    ASSUME NEW st, NEW sp, NEW t, NEW form \in {"closed", "open"},
           Nested(st, sp, t), st # <<>>
    PROVE  Nested(Front(st), Append(sp, Close(Last(st), t, form)), t)
<1> DEFINE n  == Len(st)
           f  == st[n]
           s  == Close(f, t, form)
           st2 == Front(st)
           sp2 == Append(sp, s)
           m  == Len(sp)
<1>1. /\ st \in Seq(Frame) /\ sp \in Seq(Span) /\ t \in Int
      /\ Frames(st, t) /\ Ended(sp, t) /\ Apart(st, sp) /\ Laminar(sp)
      /\ \A i \in DOMAIN sp : HasParent(st, sp, i)
  BY DEF Nested
<1>2. /\ st2 \in Seq(Frame) /\ Len(st2) = n - 1 /\ n \in Nat \ {0} /\ f \in Frame
      /\ DOMAIN st2 = 1 .. n - 1 /\ DOMAIN st = 1 .. n
      /\ \A k \in 1 .. n - 1 : st2[k] = st[k]
      /\ Last(st) = f /\ n = Len(st) /\ f = st[n]
  BY <1>1, FrontFacts
<1>3. /\ f.depth = n - 1 /\ f.enter <= t /\ f.enter \in Int
      /\ f.id \in MarkerIds /\ f.known \in BOOLEAN
  <2>1. n \in DOMAIN st BY <1>2
  <2>2. f.depth = n - 1 /\ f.enter <= t BY <2>1, <1>1 DEF Frames
  <2>. QED BY <2>2, <1>2 DEF Frame
<1>4. /\ s \in Span
      /\ s.enter = f.enter /\ s.exit = t /\ s.depth = n - 1 /\ s.form = form
  BY <1>1, <1>2, <1>3 DEF Close, Span
<1>5. /\ sp2 \in Seq(Span) /\ m \in Nat /\ DOMAIN sp = 1 .. m
      /\ DOMAIN sp2 = 1 .. m + 1
      /\ \A i \in 1 .. m : sp2[i] = sp[i] /\ sp[i] \in Span
      /\ sp2[m + 1] = s /\ Len(sp2) = m + 1 /\ m = Len(sp)
  <2>. HIDE DEF s
  <2>. QED BY <1>1, <1>4, AppendFacts
<1>6. \A i \in 1 .. m : sp[i].enter \in Int /\ sp[i].exit \in Int /\ sp[i].depth \in Nat
  BY <1>5 DEF Span
<1>7. \A k \in 1 .. n : st[k] \in Frame /\ st[k].enter \in Int
  <2>1. \A k \in 1 .. n : st[k] \in Frame BY <1>1, <1>2, ElementOfSeq
  <2>. QED BY <2>1 DEF Frame
<1>a. st2 = Front(st) /\ sp2 = Append(sp, Close(Last(st), t, form))
  BY <1>2
<1> HIDE DEF n, f, s, st2, sp2, m
<1>b. \A i \in 1 .. m : sp[i].enter <= sp[i].exit /\ sp[i].exit <= t
  <2>1. Ended(sp, t) BY <1>1
  <2>. QED BY <2>1, <1>2, <1>5 DEF Ended
<1>c. \A i \in 1 .. m, k \in 1 .. n : \/ sp[i].exit <= st[k].enter
                                      \/ k <= sp[i].depth /\ st[k].enter <= sp[i].enter
  <2>1. Apart(st, sp) BY <1>1
  <2>. QED BY <2>1, <1>2, <1>5 DEF Apart
<1>8. Frames(st2, t)
  <2>1. \A k \in 1 .. n - 1 : k \in 1 .. n BY <1>2
  <2>2. \A k \in 1 .. n : /\ st[k].depth = k - 1 /\ st[k].enter <= t
                          /\ \A j \in 1 .. n : j <= k => st[j].enter <= st[k].enter
    BY <1>1, <1>2 DEF Frames
  <2>. QED BY <2>1, <2>2, <1>2 DEF Frames
<1>9. Ended(sp2, t)
  <2> SUFFICES ASSUME NEW i \in 1 .. m + 1
               PROVE  /\ sp2[i].enter <= sp2[i].exit
                      /\ sp2[i].exit <= t
    BY <1>5 DEF Ended
  <2>1. CASE i = m + 1 BY <2>1, <1>1, <1>2, <1>3, <1>4, <1>5
  <2>2. CASE i # m + 1
    <3>1. i \in 1 .. m /\ sp2[i] = sp[i] BY <2>2, <1>5
    <3>. QED BY <3>1, <1>b, <1>2, <1>6
  <2>. QED BY <2>1, <2>2
<1>10. Apart(st2, sp2)
  <2> SUFFICES ASSUME NEW i \in 1 .. m + 1, NEW k \in 1 .. n - 1
               PROVE  \/ sp2[i].exit <= st2[k].enter
                      \/ k <= sp2[i].depth /\ st2[k].enter <= sp2[i].enter
    BY <1>2, <1>5 DEF Apart
  <2>1. CASE i = m + 1
    <3>1. st[k].enter <= f.enter BY <1>1, <1>2 DEF Frames
    <3>. QED BY <2>1, <3>1, <1>2, <1>4, <1>5
  <2>2. CASE i # m + 1
    <3>1. i \in 1 .. m /\ sp2[i] = sp[i] BY <2>2, <1>5
    <3>2. k \in 1 .. n /\ st2[k] = st[k] BY <1>2
    <3>3. sp[i].exit <= st[k].enter \/ (k <= sp[i].depth /\ st[k].enter <= sp[i].enter)
      BY <3>1, <3>2, <1>c DEF Apart
    <3>. QED BY <3>1, <3>2, <3>3
  <2>. QED BY <2>1, <2>2
<1>11. \A i \in 1 .. m : \/ sp[i].exit <= s.enter
                         \/ sp[i].depth > s.depth /\ s.enter <= sp[i].enter /\ sp[i].exit <= s.exit
  <2> SUFFICES ASSUME NEW i \in 1 .. m
               PROVE  \/ sp[i].exit <= s.enter
                      \/ sp[i].depth > s.depth /\ s.enter <= sp[i].enter /\ sp[i].exit <= s.exit
    OBVIOUS
  <2>1. sp[i].exit <= t BY <1>b
  <2>2. \/ sp[i].exit <= f.enter
        \/ n <= sp[i].depth /\ f.enter <= sp[i].enter
    BY <1>c, <1>2
  <2>. QED BY <2>1, <2>2, <1>2, <1>4, <1>6
<1>12. Laminar(sp2)
  <2> SUFFICES ASSUME NEW i \in 1 .. m + 1, NEW j \in 1 .. m + 1, i < j
               PROVE  \/ sp2[i].exit <= sp2[j].enter
                      \/ /\ sp2[i].depth > sp2[j].depth
                         /\ sp2[j].enter <= sp2[i].enter
                         /\ sp2[i].exit <= sp2[j].exit
    BY <1>5 DEF Laminar
  <2>1. i \in 1 .. m /\ sp2[i] = sp[i] BY <1>5
  <2>2. CASE j = m + 1 BY <2>1, <2>2, <1>5, <1>11
  <2>3. CASE j # m + 1
    <3>1. j \in 1 .. m /\ sp2[j] = sp[j] BY <2>3, <1>5
    <3>. QED BY <2>1, <3>1, <1>1, <1>5 DEF Laminar
  <2>. QED BY <2>2, <2>3
<1>13. \A i \in 1 .. m + 1 : HasParent(st2, sp2, i)
  <2> SUFFICES ASSUME NEW i \in 1 .. m + 1 PROVE HasParent(st2, sp2, i)
    OBVIOUS
  <2>1. CASE i = m + 1
    <3>1. sp2[i].depth = n - 1 /\ sp2[i].enter = f.enter BY <2>1, <1>4, <1>5
    <3>2. CASE n = 1 BY <3>1, <3>2 DEF HasParent
    <3>3. CASE n # 1
      <4>1. n - 1 \in 1 .. n BY <3>3, <1>2
      <4>2. st[n - 1].enter <= f.enter BY <4>1, <1>1, <1>2 DEF Frames
      <4>. QED BY <3>1, <3>3, <4>1, <4>2, <1>2 DEF HasParent
    <3>. QED BY <3>2, <3>3
  <2>2. CASE i # m + 1
    <3>1. i \in 1 .. m /\ sp2[i] = sp[i] /\ HasParent(st, sp, i) BY <2>2, <1>1, <1>5
    <3>2. CASE sp[i].depth = 0 BY <3>1, <3>2 DEF HasParent
    <3>3. CASE sp[i].depth # 0 /\ sp[i].depth <= n /\ st[sp[i].depth].enter <= sp[i].enter
      <4>1. CASE sp[i].depth = n
        <5>1. sp[i].exit <= t BY <3>1, <1>b
        <5>2. /\ m + 1 \in 1 .. m + 1 /\ m + 1 > i
              /\ sp2[m + 1].depth = sp2[i].depth - 1
              /\ sp2[m + 1].enter <= sp2[i].enter
              /\ sp2[i].exit <= sp2[m + 1].exit
          BY <3>1, <3>3, <4>1, <5>1, <1>2, <1>4, <1>5
        <5>. QED BY <5>2, <1>5 DEF HasParent
      <4>2. CASE sp[i].depth # n
        <5>1. sp[i].depth \in 1 .. n - 1 BY <3>1, <3>3, <4>2, <1>2, <1>6
        <5>. QED BY <3>1, <3>3, <5>1, <1>2 DEF HasParent
      <4>. QED BY <4>1, <4>2
    <3>4. ASSUME NEW j \in 1 .. m, j > i, sp[j].depth = sp[i].depth - 1,
                 sp[j].enter <= sp[i].enter, sp[i].exit <= sp[j].exit
          PROVE  HasParent(st2, sp2, i)
      <4>1. j \in 1 .. m + 1 /\ sp2[j] = sp[j] BY <1>5
      <4>. QED BY <3>1, <3>4, <4>1, <1>5 DEF HasParent
    <3>5. \/ sp[i].depth = 0
          \/ sp[i].depth <= n /\ st[sp[i].depth].enter <= sp[i].enter
          \/ \E j \in 1 .. m : /\ j > i
                              /\ sp[j].depth = sp[i].depth - 1
                              /\ sp[j].enter <= sp[i].enter
                              /\ sp[i].exit <= sp[j].exit
      <4>1. HasParent(st, sp, i) /\ DOMAIN sp = 1 .. m /\ Len(st) = n BY <3>1, <1>2, <1>5
      <4>. QED BY <4>1 DEF HasParent
    <3>. QED BY <3>2, <3>3, <3>4, <3>5
  <2>. QED BY <2>1, <2>2
<1>. QED BY <1>1, <1>2, <1>5, <1>8, <1>9, <1>10, <1>12, <1>13, <1>a DEF Nested

(* Opening a scope at t.                                                   *)
LEMMA Open ==
    ASSUME NEW st, NEW sp, NEW t, NEW f \in Frame, Nested(st, sp, t),
           f.depth = Len(st), f.enter = t
    PROVE  Nested(Append(st, f), sp, t)
<1> DEFINE st2 == Append(st, f)
           n == Len(st)
           m == Len(sp)
<1>1. /\ st \in Seq(Frame) /\ sp \in Seq(Span) /\ t \in Int
      /\ Frames(st, t) /\ Ended(sp, t) /\ Apart(st, sp) /\ Laminar(sp)
      /\ \A i \in DOMAIN sp : HasParent(st, sp, i)
  BY DEF Nested
<1>2. /\ st2 \in Seq(Frame) /\ Len(st2) = n + 1 /\ n \in Nat
      /\ \A k \in 1 .. n : st2[k] = st[k]
      /\ st2[n + 1] = f /\ n = Len(st)
  BY <1>1, AppendFacts
<1>3. m \in Nat /\ DOMAIN sp = 1 .. m /\ \A i \in 1 .. m : sp[i] \in Span
  BY <1>1, LenProperties, ElementOfSeq
<1>4. \A i \in 1 .. m : sp[i].depth \in Nat BY <1>3 DEF Span
<1>5. m = Len(sp) /\ st2 = Append(st, f) OBVIOUS
<1> HIDE DEF st2, n, m
<1>6. Frames(st2, t)
  <2> SUFFICES ASSUME NEW k \in 1 .. n + 1
               PROVE  /\ st2[k].depth = k - 1 /\ st2[k].enter <= t
                      /\ \A j \in 1 .. n + 1 : j <= k => st2[j].enter <= st2[k].enter
    BY <1>2 DEF Frames
  <2>1. \A j \in 1 .. n : /\ st[j].depth = j - 1 /\ st[j].enter <= t
                          /\ \A i \in 1 .. n : i <= j => st[i].enter <= st[j].enter
    BY <1>1, <1>2 DEF Frames
  <2>2. CASE k = n + 1
    <3>1. st2[k].enter = t /\ st2[k].depth = k - 1 BY <2>2, <1>2
    <3>2. \A j \in 1 .. n + 1 : st2[j].enter <= t
      <4> SUFFICES ASSUME NEW j \in 1 .. n + 1 PROVE st2[j].enter <= t
        OBVIOUS
      <4>1. CASE j = n + 1 BY <4>1, <1>1, <1>2
      <4>2. CASE j # n + 1
        <5>1. j \in 1 .. n BY <4>2, <1>2
        <5>. QED BY <5>1, <2>1, <1>2
      <4>. QED BY <4>1, <4>2
    <3>. QED BY <3>1, <3>2, <1>1
  <2>3. CASE k # n + 1
    <3>1. k \in 1 .. n /\ \A j \in 1 .. n + 1 : j <= k => j \in 1 .. n BY <2>3, <1>2
    <3>. QED BY <3>1, <2>1, <1>2
  <2>. QED BY <2>2, <2>3
<1>7. Apart(st2, sp)
  <2> SUFFICES ASSUME NEW i \in 1 .. m, NEW k \in 1 .. n + 1
               PROVE  \/ sp[i].exit <= st2[k].enter
                      \/ k <= sp[i].depth /\ st2[k].enter <= sp[i].enter
    BY <1>2, <1>5 DEF Apart
  <2>1. CASE k = n + 1
    <3>1. sp[i].exit <= t BY <1>1, <1>5 DEF Ended
    <3>. QED BY <2>1, <3>1, <1>2
  <2>2. CASE k # n + 1
    <3>1. k \in 1 .. n /\ st2[k] = st[k] BY <2>2, <1>2
    <3>. QED BY <3>1, <1>1, <1>2, <1>5 DEF Apart
  <2>. QED BY <2>1, <2>2
<1>8. \A i \in DOMAIN sp : HasParent(st2, sp, i)
  <2> SUFFICES ASSUME NEW i \in 1 .. m PROVE HasParent(st2, sp, i)
    BY <1>3
  <2>1. HasParent(st, sp, i) BY <1>1, <1>3
  <2>2. CASE sp[i].depth # 0 /\ sp[i].depth <= n /\ st[sp[i].depth].enter <= sp[i].enter
    <3>1. sp[i].depth \in 1 .. n /\ sp[i].depth <= n + 1 BY <2>2, <1>2, <1>4
    <3>. QED BY <2>2, <3>1, <1>2 DEF HasParent
  <2>3. CASE ~(sp[i].depth # 0 /\ sp[i].depth <= n /\ st[sp[i].depth].enter <= sp[i].enter)
    BY <2>1, <2>3, <1>2 DEF HasParent
  <2>. QED BY <2>2, <2>3
<1>. QED BY <1>1, <1>2, <1>5, <1>6, <1>7, <1>8 DEF Nested

(* Marking a point at t.                                                   *)
LEMMA AddPoint ==
    ASSUME NEW st, NEW sp, NEW t, NEW s \in Span, Nested(st, sp, t),
           s.enter = t, s.exit = t, s.depth = Len(st)
    PROVE  Nested(st, Append(sp, s), t)
<1> DEFINE sp2 == Append(sp, s)
           n == Len(st)
           m == Len(sp)
<1>1. /\ st \in Seq(Frame) /\ sp \in Seq(Span) /\ t \in Int
      /\ Frames(st, t) /\ Ended(sp, t) /\ Apart(st, sp) /\ Laminar(sp)
      /\ \A i \in DOMAIN sp : HasParent(st, sp, i)
  BY DEF Nested
<1>2. /\ sp2 \in Seq(Span) /\ m \in Nat /\ DOMAIN sp = 1 .. m
      /\ DOMAIN sp2 = 1 .. m + 1 /\ Len(sp2) = m + 1
      /\ \A i \in 1 .. m : sp2[i] = sp[i] /\ sp[i] \in Span
      /\ sp2[m + 1] = s
  BY <1>1, AppendFacts
<1>3. n \in Nat /\ DOMAIN st = 1 .. n /\ \A k \in 1 .. n : st[k] \in Frame
  BY <1>1, LenProperties, ElementOfSeq
<1>4. m = Len(sp) /\ n = Len(st) /\ sp2 = Append(sp, s) OBVIOUS
<1> HIDE DEF sp2, n, m
<1>5. Ended(sp2, t)
  <2> SUFFICES ASSUME NEW i \in 1 .. m + 1
               PROVE  sp2[i].enter <= sp2[i].exit /\ sp2[i].exit <= t
    BY <1>2 DEF Ended
  <2>1. CASE i = m + 1 BY <2>1, <1>1, <1>2
  <2>2. CASE i # m + 1
    <3>1. i \in 1 .. m /\ sp2[i] = sp[i] BY <2>2, <1>2
    <3>. QED BY <3>1, <1>1, <1>4 DEF Ended
  <2>. QED BY <2>1, <2>2
<1>6. Apart(st, sp2)
  <2> SUFFICES ASSUME NEW i \in 1 .. m + 1, NEW k \in 1 .. n
               PROVE  \/ sp2[i].exit <= st[k].enter
                      \/ k <= sp2[i].depth /\ st[k].enter <= sp2[i].enter
    BY <1>2, <1>4 DEF Apart
  <2>1. CASE i = m + 1
    <3>1. st[k].enter <= t BY <1>1, <1>4 DEF Frames
    <3>. QED BY <2>1, <3>1, <1>2, <1>4
  <2>2. CASE i # m + 1
    <3>1. i \in 1 .. m /\ sp2[i] = sp[i] BY <2>2, <1>2
    <3>. QED BY <3>1, <1>1, <1>4 DEF Apart
  <2>. QED BY <2>1, <2>2
<1>7. Laminar(sp2)
  <2> SUFFICES ASSUME NEW i \in 1 .. m + 1, NEW j \in 1 .. m + 1, i < j
               PROVE  \/ sp2[i].exit <= sp2[j].enter
                      \/ /\ sp2[i].depth > sp2[j].depth
                         /\ sp2[j].enter <= sp2[i].enter
                         /\ sp2[i].exit <= sp2[j].exit
    BY <1>2 DEF Laminar
  <2>1. i \in 1 .. m /\ sp2[i] = sp[i] BY <1>2
  <2>2. CASE j = m + 1
    <3>1. sp[i].exit <= t BY <2>1, <1>1, <1>4 DEF Ended
    <3>. QED BY <2>1, <2>2, <3>1, <1>2
  <2>3. CASE j # m + 1
    <3>1. j \in 1 .. m /\ sp2[j] = sp[j] BY <2>3, <1>2
    <3>. QED BY <2>1, <3>1, <1>1, <1>2 DEF Laminar
  <2>. QED BY <2>2, <2>3
<1>8. \A i \in 1 .. m + 1 : HasParent(st, sp2, i)
  <2> SUFFICES ASSUME NEW i \in 1 .. m + 1 PROVE HasParent(st, sp2, i)
    OBVIOUS
  <2>1. CASE i = m + 1
    <3>1. sp2[i].depth = n /\ sp2[i].enter = t BY <2>1, <1>2, <1>4
    <3>2. CASE n = 0 BY <3>1, <3>2 DEF HasParent
    <3>3. CASE n # 0
      <4>1. n \in 1 .. n BY <3>3, <1>3
      <4>2. st[n].enter <= t BY <4>1, <1>1, <1>4 DEF Frames
      <4>. QED BY <3>1, <4>1, <4>2, <1>4 DEF HasParent
    <3>. QED BY <3>2, <3>3
  <2>2. CASE i # m + 1
    <3>1. i \in 1 .. m /\ sp2[i] = sp[i] /\ HasParent(st, sp, i) BY <2>2, <1>1, <1>2
    <3>2. \A j \in 1 .. m : j \in 1 .. m + 1 /\ sp2[j] = sp[j] BY <1>2
    <3>. QED BY <3>1, <3>2, <1>2 DEF HasParent
  <2>. QED BY <2>1, <2>2
<1>. QED BY <1>1, <1>2, <1>4, <1>5, <1>6, <1>7, <1>8 DEF Nested

(* What holds at t holds later.                                            *)
LEMMA Later ==
    ASSUME NEW st, NEW sp, NEW t, NEW u \in Int, Nested(st, sp, t), t <= u
    PROVE  Nested(st, sp, u)
<1>1. t \in Int /\ st \in Seq(Frame) /\ sp \in Seq(Span) BY DEF Nested
<1>2. \A k \in 1 .. Len(st) : st[k].enter \in Int
  <2>1. \A k \in 1 .. Len(st) : st[k] \in Frame BY <1>1, ElementOfSeq
  <2>. QED BY <2>1 DEF Frame
<1>3. \A i \in 1 .. Len(sp) : sp[i].exit \in Int
  <2>1. \A i \in 1 .. Len(sp) : sp[i] \in Span BY <1>1, ElementOfSeq
  <2>. QED BY <2>1 DEF Span
<1>4. Frames(st, u) BY <1>1, <1>2 DEF Nested, Frames
<1>5. Ended(sp, u) BY <1>1, <1>3 DEF Nested, Ended
<1>. QED BY <1>1, <1>4, <1>5 DEF Nested

-----------------------------------------------------------------------------
LEMMA RecordFacts ==
    ASSUME WalkInv, next <= Len(stream)
    PROVE  /\ Now = stream[next].time
           /\ stream[next].time \in Int
           /\ \A d \in Nat : /\ FrameOf(stream[next], d) \in Frame
                             /\ FrameOf(stream[next], d).enter = Now
                             /\ FrameOf(stream[next], d).depth = d
           /\ \A d \in Nat : /\ PointSpan(stream[next], d) \in Span
                             /\ PointSpan(stream[next], d).enter = Now
                             /\ PointSpan(stream[next], d).exit = Now
                             /\ PointSpan(stream[next], d).depth = d
<1>1. Now = stream[next].time BY DEF Now, WalkInv
<1>2. stream[next] \in MarkerRecord BY ElementOfSeq DEF WalkInv
<1>3. stream[next].time \in Int /\ stream[next].id \in MarkerIds BY <1>2 DEF MarkerRecord
<1>. QED BY <1>1, <1>3 DEF FrameOf, PointSpan, Close, Frame, Span

(* A step to the next record, or past the last one, goes on in time.       *)
LEMMA NowGrows ==
    ASSUME WalkInv, next <= Len(stream), next' = next + 1, stream' = stream
    PROVE  /\ next' \in 1 .. Len(stream') + 1
           /\ Now' \in Int
           /\ Now <= Now'
<1>1. Len(stream) \in Nat /\ DOMAIN stream = 1 .. Len(stream) BY LenProperties DEF WalkInv
<1>2. next \in 1 .. Len(stream) /\ Now = stream[next].time BY <1>1 DEF WalkInv, Now
<1>3. \A i \in 1 .. Len(stream) : stream[i].time \in Int /\ stream[i].time <= TimeMax
  <2>1. \A i \in 1 .. Len(stream) : stream[i] \in MarkerRecord BY ElementOfSeq DEF WalkInv
  <2>. QED BY <2>1 DEF MarkerRecord
<1>4. CASE next = Len(stream) BY <1>1, <1>2, <1>3, <1>4, TimeMaxIsInt DEF Now
<1>5. CASE next # Len(stream)
  <2>0. \A m \in Nat : \A n \in 1 .. m : n # m => n + 1 \in 1 .. m /\ n < n + 1
    OBVIOUS
  <2>1. next + 1 \in 1 .. Len(stream) /\ next < next + 1 BY <1>1, <1>2, <1>5, <2>0
  <2>2. stream[next].time <= stream[next + 1].time
    BY <1>1, <1>2, <2>1 DEF WalkInv, TimeOrdered
  <2>3. Now' = stream[next + 1].time BY <1>1, <2>1 DEF Now
  <2>. QED BY <1>1, <1>2, <1>3, <2>1, <2>2, <2>3
<1>. QED BY <1>4, <1>5

(* A step that walks a record keeps the invariant if what it leaves is     *)
(* nested at the time of the record.                                       *)
LEMMA ReadingKeeps ==
    ASSUME WalkInv, next <= Len(stream), next' = next + 1, stream' = stream,
           Nested(stack', spans', Now)
    PROVE  WalkInv'
<1>1. Nested(stack', spans', Now') BY NowGrows, Later
<1>. QED BY <1>1, NowGrows DEF WalkInv

LEMMA SkipRecordKeeps == ASSUME WalkInv, SkipRecord PROVE WalkInv'
  BY ReadingKeeps DEF SkipRecord, Reading, WalkInv

LEMMA EnterKeeps == ASSUME WalkInv, Enter PROVE WalkInv'
<1> DEFINE f == FrameOf(stream[next], Len(stack))
<1>1. next <= Len(stream) /\ next' = next + 1 /\ stream' = stream
      /\ stack' = Append(stack, f) /\ spans' = spans
  BY DEF Enter, Reading
<1>2. Len(stack) \in Nat BY LenProperties DEF WalkInv, Nested
<1>3. f \in Frame /\ f.depth = Len(stack) /\ f.enter = Now BY <1>1, <1>2, RecordFacts
<1> HIDE DEF f
<1>4. Nested(Append(stack, f), spans, Now) BY <1>3, Open DEF WalkInv
<1>. QED BY <1>1, <1>4, ReadingKeeps

LEMMA ExitKeeps == ASSUME WalkInv, Exit PROVE WalkInv'
<1>1. /\ next <= Len(stream) /\ next' = next + 1 /\ stream' = stream
      /\ stack # <<>>
      /\ stack' = Front(stack)
      /\ spans' = Append(spans, Close(Last(stack), stream[next].time, "closed"))
  BY DEF Exit, Reading
<1>2. Now = stream[next].time BY <1>1, RecordFacts
<1>3. Nested(Front(stack), Append(spans, Close(Last(stack), Now, "closed")), Now)
  BY <1>1, CloseLast DEF WalkInv
<1>. QED BY <1>1, <1>2, <1>3, ReadingKeeps

(* A transition closes a scope and opens the next one at once.             *)
LEMMA TransitionKeeps == ASSUME WalkInv, Transition PROVE WalkInv'
<1> DEFINE f  == FrameOf(stream[next], Len(stack) - 1)
           sp == Append(spans, Close(Last(stack), Now, "closed"))
<1>1. /\ next <= Len(stream) /\ next' = next + 1 /\ stream' = stream
      /\ stack # <<>>
      /\ stack' = Front(stack) \/ stack' = Append(Front(stack), f)
      /\ spans' = Append(spans, Close(Last(stack), stream[next].time, "closed"))
  BY DEF Transition, Reading
<1>2. stack \in Seq(Frame) BY DEF WalkInv, Nested
<1>3. Len(Front(stack)) = Len(stack) - 1 /\ Len(stack) - 1 \in Nat
  <2>1. Len(Front(stack)) = Len(stack) - 1 /\ Len(stack) \in Nat \ {0}
    BY <1>1, <1>2, FrontFacts
  <2>2. \A n \in Nat \ {0} : n - 1 \in Nat OBVIOUS
  <2>. QED BY <2>1, <2>2
<1>4. spans' = sp BY <1>1, RecordFacts
<1>5. f \in Frame /\ f.depth = Len(Front(stack)) /\ f.enter = Now
  BY <1>1, <1>3, RecordFacts
<1>6. Nested(Front(stack), sp, Now) BY <1>1, CloseLast DEF WalkInv
<1> HIDE DEF f, sp
<1>7. Nested(Append(Front(stack), f), sp, Now) BY <1>5, <1>6, Open
<1>. QED BY <1>1, <1>4, <1>6, <1>7, ReadingKeeps

LEMMA TransitionFromNothingKeeps == ASSUME WalkInv, TransitionFromNothing PROVE WalkInv'
<1> DEFINE f == FrameOf(stream[next], 0)
<1>1. /\ next <= Len(stream) /\ next' = next + 1 /\ stream' = stream
      /\ stack = <<>> /\ stack' = <<f>> /\ spans' = spans
  BY DEF TransitionFromNothing, Reading
<1>2. f \in Frame /\ f.depth = 0 /\ f.enter = Now BY <1>1, RecordFacts
<1>3. Len(stack) = 0 BY <1>1
<1> HIDE DEF f
<1>4. Append(stack, f) = <<f>> BY <1>1
<1>5. Nested(Append(stack, f), spans, Now) BY <1>2, <1>3, Open DEF WalkInv
<1>. QED BY <1>1, <1>4, <1>5, ReadingKeeps

LEMMA MarkPointKeeps == ASSUME WalkInv, MarkPoint PROVE WalkInv'
<1> DEFINE s == PointSpan(stream[next], Len(stack))
<1>1. /\ next <= Len(stream) /\ next' = next + 1 /\ stream' = stream
      /\ stack' = stack /\ spans' = Append(spans, s)
  BY DEF MarkPoint, Reading
<1>2. Len(stack) \in Nat BY LenProperties DEF WalkInv, Nested
<1>3. s \in Span /\ s.enter = Now /\ s.exit = Now /\ s.depth = Len(stack)
  BY <1>1, <1>2, RecordFacts
<1> HIDE DEF s
<1>4. Nested(stack, Append(spans, s), Now) BY <1>3, AddPoint DEF WalkInv
<1>. QED BY <1>1, <1>4, ReadingKeeps

LEMMA CloseOpenKeeps == ASSUME WalkInv, CloseOpen PROVE WalkInv'
<1>1. /\ next > Len(stream) /\ next' = next /\ stream' = stream /\ stack # <<>>
      /\ stack' = Front(stack)
      /\ spans' = Append(spans, Close(Last(stack), TimeMax, "open"))
  BY DEF CloseOpen
<1>2. Now = TimeMax /\ Now' = TimeMax BY <1>1 DEF Now
<1>3. Nested(Front(stack), Append(spans, Close(Last(stack), Now, "open")), Now)
  BY <1>1, CloseLast DEF WalkInv
<1>. QED BY <1>1, <1>2, <1>3 DEF WalkInv

(* Every walk begins with nothing.                                         *)
LEMMA WalkBegins ==
    ASSUME stream \in Seq(MarkerRecord), TimeOrdered(stream), Walking(stream)
    PROVE  WalkInv
<1>1. next = 1 /\ stack = <<>> /\ spans = <<>> BY DEF Walking
<1>2. Len(stream) \in Nat BY LenProperties
<1>3. Now \in Int
  <2>1. CASE Len(stream) = 0 BY <1>1, <2>1, TimeMaxIsInt DEF Now
  <2>2. CASE Len(stream) # 0
    <3>1. 1 \in 1 .. Len(stream) BY <1>2, <2>2
    <3>2. stream[1] \in MarkerRecord BY <3>1, ElementOfSeq
    <3>. QED BY <1>1, <1>2, <2>2, <3>2 DEF Now, MarkerRecord
  <2>. QED BY <2>1, <2>2
<1>4. Nested(<<>>, <<>>, Now) BY <1>3 DEF Nested, Frames, Ended, Apart, Laminar
<1>. QED BY <1>1, <1>2, <1>4 DEF WalkInv

LEMMA WalkStepKeeps == WalkInv /\ [WalkNext]_walkVars => WalkInv'
<1> SUFFICES ASSUME WalkInv, [WalkNext]_walkVars PROVE WalkInv'
  OBVIOUS
<1>1. CASE SkipRecord BY <1>1, SkipRecordKeeps
<1>2. CASE Enter BY <1>2, EnterKeeps
<1>3. CASE Exit BY <1>3, ExitKeeps
<1>4. CASE Transition BY <1>4, TransitionKeeps
<1>5. CASE TransitionFromNothing BY <1>5, TransitionFromNothingKeeps
<1>6. CASE MarkPoint BY <1>6, MarkPointKeeps
<1>7. CASE CloseOpen BY <1>7, CloseOpenKeeps
<1>8. CASE BeginWalk(stream') /\ stream' \in Seq(MarkerRecord) /\ TimeOrdered(stream')
  <2>1. Walking(stream)' BY <1>8 DEF BeginWalk, Walking
  <2>2. (stream \in Seq(MarkerRecord) /\ TimeOrdered(stream))' BY <1>8
  <2>. QED BY <2>1, <2>2, WalkBegins, PTL
<1>9. CASE UNCHANGED walkVars
  BY <1>9 DEF walkVars, WalkInv, Now
<1>. QED BY <1>1, <1>2, <1>3, <1>4, <1>5, <1>6, <1>7, <1>8, <1>9 DEF WalkNext, WalkStep

(* The stack and the spans are always well formed.                         *)
THEOREM WalkTypeCorrect == WalkSpec => []WalkTypeOK
<1>1. WalkInit => WalkInv BY WalkBegins DEF WalkInit
<1>2. WalkInv => WalkTypeOK BY DEF WalkInv, Nested, WalkTypeOK
<1>. QED BY <1>1, <1>2, WalkStepKeeps, PTL DEF WalkSpec

(* The spans of a slot are intervals that nest like calls, whatever the    *)
(* records of the slot are and however many there are.                     *)
THEOREM SpansAlwaysNest == WalkSpec => []SpansNest
<1>1. WalkInit => WalkInv BY WalkBegins DEF WalkInit
<1>2. WalkInv => SpansNest BY DEF WalkInv, Nested, SpansNest
<1>. QED BY <1>1, <1>2, WalkStepKeeps, PTL DEF WalkSpec

-----------------------------------------------------------------------------
(* No shader-data record lies beyond the 64 bits of the clock.             *)
TimesFit == \A l \in Slots : \A i \in DOMAIN shader[l] : shader[l][i].time <= TimeMax

(* The occupancy of one slot: its records of the engine's, in order.       *)
LEMMA SlotRecords ==
    ASSUME NEW q \in Seq(Occupancy), NEW l
    PROVE  /\ SlotOccupancy(q, l) \in Seq(Occupancy)
           /\ \A k \in DOMAIN SlotOccupancy(q, l) :
                  \E i \in DOMAIN q : q[i].slot = l /\ SlotOccupancy(q, l)[k] = q[i]
           /\ \A i \in DOMAIN q : q[i].slot = l =>
                  \E k \in DOMAIN SlotOccupancy(q, l) : SlotOccupancy(q, l)[k] = q[i]
           /\ \A a, b \in DOMAIN SlotOccupancy(q, l) : a < b =>
                  OccupancyKey(SlotOccupancy(q, l)[a]) <= OccupancyKey(SlotOccupancy(q, l)[b])
<1> DEFINE P == {i \in DOMAIN q : q[i].slot = l}
           key == [i \in DOMAIN q |-> OccupancyKey(q[i])]
           t == Arranged(q, key, P)
<1>1. SlotOccupancy(q, l) = t
  BY DEF SlotOccupancy
<1>2. P \in SUBSET DOMAIN q /\ \A i \in P : key[i] \in Int /\ key[i] = OccupancyKey(q[i])
  <2>1. \A i \in DOMAIN q : q[i] \in Occupancy
    OBVIOUS
  <2> QED BY <2>1 DEF OccupancyKey, Occupancy
<1>3. \A i \in P : q[i].slot = l
  OBVIOUS
<1>4. \A i \in DOMAIN q : q[i].slot = l => i \in P
  OBVIOUS
<1> HIDE DEF P, key
<1>5. /\ t \in Seq(Occupancy)
      /\ \A k \in DOMAIN t : \E i \in P : t[k] = q[i]
      /\ \A i \in P : \E k \in DOMAIN t : t[k] = q[i]
      /\ \A a, b \in DOMAIN t : a < b =>
             \E i, j \in P : t[a] = q[i] /\ t[b] = q[j] /\ Precedes(key, i, j)
  BY <1>2, ArrangedInOrder
<1> HIDE DEF t
<1>6. \A a, b \in DOMAIN t : a < b => OccupancyKey(t[a]) <= OccupancyKey(t[b])
  <2> SUFFICES ASSUME NEW a \in DOMAIN t, NEW b \in DOMAIN t, a < b
               PROVE  OccupancyKey(t[a]) <= OccupancyKey(t[b])
    OBVIOUS
  <2>1. PICK i \in P, j \in P : t[a] = q[i] /\ t[b] = q[j] /\ Precedes(key, i, j)
    BY <1>5
  <2>2. key[i] <= key[j]
    BY <1>2, <2>1 DEF Precedes
  <2> QED BY <1>2, <2>1, <2>2
<1>7. \A k \in DOMAIN t : \E i \in DOMAIN q : q[i].slot = l /\ t[k] = q[i]
  BY <1>2, <1>3, <1>5
<1>8. \A i \in DOMAIN q : q[i].slot = l => \E k \in DOMAIN t : t[k] = q[i]
  BY <1>4, <1>5
<1> QED BY <1>1, <1>5, <1>6, <1>7, <1>8

(* A looked up code object is 0 or that of the last start.                 *)
LEMMA ActiveIsKnown ==
    ASSUME NEW o \in Seq(Occupancy), NEW t \in Int
    PROVE  ActiveCodeobj(o, t) \in CodeObjects
<1> DEFINE Starts == {i \in DOMAIN o : o[i].start /\ o[i].co # 0 /\ o[i].time <= t}
<1>1. Starts # {} => o[Max(Starts)].co \in CodeObjects
  <2> SUFFICES ASSUME Starts # {} PROVE o[Max(Starts)].co \in CodeObjects
    OBVIOUS
  <2>1. Starts \in SUBSET DOMAIN o /\ DOMAIN o = 1 .. Len(o) /\ Len(o) \in Nat
    OBVIOUS
  <2>2. Starts \subseteq Int /\ IsFiniteSet(Starts)
    <3>1. IsFiniteSet(1 .. Len(o))
      BY <2>1, FS_Interval
    <3>2. Starts \in SUBSET (1 .. Len(o))
      BY <2>1
    <3>3. Starts \subseteq Int
      BY <2>1
    <3> HIDE DEF Starts
    <3>4. IsFiniteSet(Starts)
      BY <3>1, <3>2, FS_Subset
    <3> QED BY <3>3, <3>4
  <2> HIDE DEF Starts
  <2>3. Max(Starts) \in DOMAIN o
    BY <2>1, <2>2, FiniteMax
  <2>4. o[Max(Starts)] \in Occupancy
    BY <2>3
  <2> QED BY <2>4 DEF Occupancy
<1> HIDE DEF Starts
<1> QED BY <1>1, MarkerIdsAssumption DEF ActiveCodeobj, Starts

LEMMA ResolvedStream ==
    ASSUME TimesInv, TimesFit, phase = "resolve", NEW l \in Slots
    PROVE  Resolved(l) \in Seq(MarkerRecord) /\ TimeOrdered(Resolved(l))
<1>1. /\ shader[l] \in Seq(Shader) /\ TimeOrdered(shader[l])
      /\ OccupancyOf(l) \in Seq(Occupancy)
  <2>1. occupancy[SeOf[l]] \in Seq(Occupancy)
    BY EnginesAssumption DEF TimesInv, TimesTypeOK
  <2>2. OccupancyOf(l) \in Seq(Occupancy)
    BY <2>1, SlotRecords DEF OccupancyOf
  <2> QED BY <2>2 DEF TimesInv, TimesTypeOK, Completed
<1>2. DOMAIN Resolved(l) = DOMAIN shader[l] /\ DOMAIN shader[l] = 1 .. Len(shader[l])
  BY <1>1 DEF Resolved
<1>3. ASSUME NEW i \in DOMAIN shader[l]
      PROVE  Resolved(l)[i] \in MarkerRecord /\ Resolved(l)[i].time = shader[l][i].time
  <2> DEFINE r  == shader[l][i]
             co == ActiveCodeobj(OccupancyOf(l), r.time)
  <2>1. /\ r \in Shader /\ r.time \in Int /\ r.time <= TimeMax
    <3>1. r \in Shader /\ r.time <= TimeMax
      BY <1>1 DEF TimesFit
    <3> QED BY <3>1 DEF Shader
  <2>2. co \in CodeObjects
    BY <1>1, <2>1, ActiveIsKnown
  <2>3. Resolved(l)[i] = [time |-> r.time, op |-> r.op, id |-> <<co, r.id>>, answer |-> Answer(co, r.id)]
    BY DEF Resolved
  <2>4. Answer(co, r.id) \in Answers
    BY DEF Answer, Answers
  <2>5. <<co, r.id>> \in MarkerIds
    BY <2>1, <2>2, MarkerIdsAssumption DEF Shader
  <2>6. r.op \in Ops
    BY <2>1 DEF Shader
  <2> HIDE DEF r, co
  <2>7. Resolved(l)[i] \in MarkerRecord /\ Resolved(l)[i].time = r.time
    BY <2>1, <2>3, <2>4, <2>5, <2>6 DEF MarkerRecord
  <2> QED BY <2>7 DEF r
<1>4. Resolved(l) \in Seq(MarkerRecord)
  <2> DEFINE s == Resolved(l)
             n == Len(shader[l])
  <2>1. s = [i \in 1 .. n |-> s[i]] /\ n \in Nat
    BY <1>1, <1>2 DEF Resolved
  <2>2. \A i \in 1 .. n : s[i] \in MarkerRecord
    BY <1>2, <1>3
  <2> HIDE DEF s, n
  <2> QED BY <2>1, <2>2 DEF s
<1>5. TimeOrdered(Resolved(l))
  BY <1>1, <1>2, <1>3 DEF TimeOrdered
<1> QED BY <1>4, <1>5

(* Every step of the trace is a step of one walk after another, or none.   *)
LEMMA WalkSteps == TimesInv /\ TimesFit /\ [TimesNext]_timesVars => [WalkNext]_walkVars
<1> SUFFICES ASSUME TimesInv, TimesFit, [TimesNext]_timesVars PROVE [WalkNext]_walkVars
  OBVIOUS
<1>1. ASSUME NEW f \in Files, Dispatch(f) PROVE UNCHANGED walkVars
  BY <1>1 DEF Dispatch, OnRealtime, OnOccupancy, OnTimeline, OnWave, OnShaderData, Dispatching
<1>2. CASE AlignClocks
  BY <1>2 DEF AlignClocks
<1>3. CASE Complete
  BY <1>3 DEF Complete
<1>4. ASSUME NEW l \in Slots, BeginMarkers(l) PROVE WalkNext
  <2>1. Resolved(l) \in Seq(MarkerRecord) /\ TimeOrdered(Resolved(l))
    BY <1>4, ResolvedStream DEF BeginMarkers
  <2>2. BeginWalk(Resolved(l)) /\ stream' = Resolved(l)
    BY <1>4 DEF BeginMarkers, BeginWalk
  <2>3. BeginWalk(stream') /\ stream' \in Seq(MarkerRecord) /\ TimeOrdered(stream')
    BY <2>1, <2>2 DEF BeginWalk
  <2> QED BY <2>3 DEF WalkNext
<1>5. ASSUME NEW l \in Slots, EndMarkers(l) PROVE UNCHANGED walkVars
  BY <1>5 DEF EndMarkers
<1>6. CASE WalkMarkers
  BY <1>6 DEF WalkMarkers, WalkNext
<1>7. CASE UNCHANGED timesVars
  BY <1>7 DEF timesVars
<1> QED BY <1>1, <1>2, <1>3, <1>4, <1>5, <1>6, <1>7 DEF TimesNext

(* The walk of each slot is one of MarkerWalker: the records it is given   *)
(* are in the order of their times, and no two walks overlap.              *)
THEOREM WalkImplemented == TimesSpec /\ []TimesFit => ImplementsMarkerWalker
<1>1. TimesInit => WalkInit
  <2>1. <<>> \in Seq(MarkerRecord) /\ TimeOrdered(<<>>)
    BY DEF TimeOrdered
  <2> QED BY <2>1 DEF TimesInit, WalkInit, Walking
<1>2. TimesInv /\ TimesFit /\ [TimesNext]_timesVars => [WalkNext]_walkVars
  BY WalkSteps
<1> QED BY <1>1, <1>2, TimesInvariance, PTL DEF TimesSpec, WalkSpec, ImplementsMarkerWalker

(* The spans of every slot nest, at any time while its markers are walked. *)
THEOREM TraceSpansNest == TimesSpec /\ []TimesFit => []SpansNest
BY WalkImplemented, SpansAlwaysNest, PTL DEF ImplementsMarkerWalker

-----------------------------------------------------------------------------
(* Which occupancy has been stored.  o is the stored form of the report r. *)
StoredFrom(o, r) == o.raw = r.time /\ o.slot = r.slot /\ o.start = r.start /\ o.co = r.co

OccupancyStored ==
    \A f \in Files : \A j \in DOMAIN recording.files[f].records :
        j <= pos[f] /\ recording.files[f].records[j].kind = "occupancy" =>
            \E i \in DOMAIN occupancy[EngineOf(f)] :
                StoredFrom(occupancy[EngineOf(f)][i], recording.files[f].records[j])

OccupancyReported ==
    \A s \in SEs : \A i \in DOMAIN occupancy[s] : \E f \in Files :
        \E r \in ToSet(recording.files[f].records) :
            r.kind = "occupancy" /\ StoredFrom(occupancy[s][i], r)

OccupancyInv ==
    /\ OccupancyStored
    /\ OccupancyReported
    /\ phase # "parse" => \A f \in Files : pos[f] = Len(recording.files[f].records)

(* The elements of one list are, up to their times, those of another.      *)
SameReports(new, old) ==
    /\ \A i \in DOMAIN old : \E k \in DOMAIN new : \A r : StoredFrom(old[i], r) => StoredFrom(new[k], r)
    /\ \A k \in DOMAIN new : \E i \in DOMAIN old : \A r : StoredFrom(old[i], r) => StoredFrom(new[k], r)

LEMMA SameReportsKeep ==
    ASSUME OccupancyInv, recording' = recording, pos' = pos, TimesTypeOK,
           \A s \in SEs : SameReports(occupancy'[s], occupancy[s])
    PROVE  OccupancyStored' /\ OccupancyReported'
<1>1. ASSUME NEW f \in Files, NEW j \in DOMAIN recording.files[f].records,
             j <= pos[f], recording.files[f].records[j].kind = "occupancy"
      PROVE  \E k \in DOMAIN occupancy'[EngineOf(f)] :
                StoredFrom(occupancy'[EngineOf(f)][k], recording.files[f].records[j])
  <2>1. EngineOf(f) \in SEs
    BY RecordingsAssumption DEF TimesTypeOK, EngineOf
  <2>2. PICK i \in DOMAIN occupancy[EngineOf(f)] :
               StoredFrom(occupancy[EngineOf(f)][i], recording.files[f].records[j])
    BY <1>1 DEF OccupancyInv, OccupancyStored
  <2> QED BY <2>1, <2>2 DEF SameReports
<1>2. OccupancyStored'
  BY <1>1 DEF OccupancyStored, EngineOf
<1>3. ASSUME NEW s \in SEs, NEW k \in DOMAIN occupancy'[s]
      PROVE  \E f \in Files : \E r \in ToSet(recording.files[f].records) :
                r.kind = "occupancy" /\ StoredFrom(occupancy'[s][k], r)
  <2>1. PICK i \in DOMAIN occupancy[s] :
                \A r : StoredFrom(occupancy[s][i], r) => StoredFrom(occupancy'[s][k], r)
    BY <1>3 DEF SameReports
  <2>2. PICK f \in Files : \E r \in ToSet(recording.files[f].records) :
                r.kind = "occupancy" /\ StoredFrom(occupancy[s][i], r)
    BY DEF OccupancyInv, OccupancyReported
  <2> QED BY <2>1, <2>2
<1>4. OccupancyReported'
  BY <1>3 DEF OccupancyReported
<1> QED BY <1>2, <1>4

LEMMA StoredOccupancy ==
    ASSUME NEW r \in TraceRecord, r.kind = "occupancy"
    PROVE  StoredFrom(Stored(r), r)
<1>1. r \in [kind : {"occupancy"}, time : Int, slot : Slots, start : BOOLEAN, co : CodeObjects]
  BY DEF TraceRecord
<1>2. Stored(r) = [kind |-> "occupancy", time |-> r.time, raw |-> r.time, slot |-> r.slot,
                   start |-> r.start, co |-> r.co]
  BY <1>1 DEF Stored, Emplace
<1> QED BY <1>2 DEF StoredFrom

LEMMA AppendKeeps ==
    ASSUME NEW A, NEW S, NEW lists \in [A -> Seq(S)], NEW a \in A, NEW r \in S,
           NEW b \in A, NEW i \in DOMAIN lists[b]
    PROVE  \E k \in DOMAIN [lists EXCEPT ![a] = Append(@, r)][b] :
              [lists EXCEPT ![a] = Append(@, r)][b][k] = lists[b][i]
<1>1. lists[b] \in Seq(S) /\ Len(lists[b]) \in Nat /\ DOMAIN lists[b] = 1 .. Len(lists[b])
  OBVIOUS
<1>2. CASE a = b
  <2>1. [lists EXCEPT ![a] = Append(@, r)][b] = Append(lists[b], r)
    BY <1>2
  <2>2. i \in DOMAIN Append(lists[b], r) /\ Append(lists[b], r)[i] = lists[b][i]
    BY <1>1
  <2> QED BY <2>1, <2>2
<1>3. CASE a # b
  BY <1>3
<1> QED BY <1>2, <1>3

LEMMA AppendAdds ==
    ASSUME NEW A, NEW S, NEW lists \in [A -> Seq(S)], NEW a \in A, NEW r \in S
    PROVE  \E k \in DOMAIN [lists EXCEPT ![a] = Append(@, r)][a] :
              [lists EXCEPT ![a] = Append(@, r)][a][k] = r
<1>1. lists[a] \in Seq(S) /\ Len(lists[a]) \in Nat
  OBVIOUS
<1>2. [lists EXCEPT ![a] = Append(@, r)][a] = Append(lists[a], r)
  OBVIOUS
<1>3. /\ Len(lists[a]) + 1 \in DOMAIN Append(lists[a], r)
      /\ Append(lists[a], r)[Len(lists[a]) + 1] = r
  BY <1>1
<1> QED BY <1>2, <1>3

LEMMA DispatchKeepsOccupancy ==
    ASSUME TimesInv, OccupancyInv, NEW f \in Files, Dispatch(f)
    PROVE  OccupancyInv'
<1>1. TimesTypeOK /\ phase' = "parse" /\ recording' = recording
  BY DEF TimesInv, Dispatch, OnRealtime, OnOccupancy, OnTimeline, OnWave, OnShaderData, Dispatching
<1> SUFFICES OccupancyStored' /\ OccupancyReported'
  BY <1>1 DEF OccupancyInv
<1>2. ASSUME NEW kind, Dispatching(f, kind), NEW g \in Files, NEW j \in DOMAIN recording.files[g].records,
             j <= pos'[g], recording.files[g].records[j].kind = "occupancy"
      PROVE  j <= pos[g] \/ (g = f /\ kind = "occupancy" /\ recording.files[g].records[j] = Dispatched(f))
  <2>1. pos' = [pos EXCEPT ![f] = @ + 1] /\ pos \in [Files -> Nat] /\ Dispatched(f).kind = kind
    BY <1>1, <1>2 DEF Dispatching, TimesTypeOK, Dispatched
  <2>2. recording.files[g].records \in Seq(TraceRecord)
    BY <1>1, RecordingsAssumption DEF TimesTypeOK
  <2>3. j \in Nat /\ pos[g] \in Nat
    BY <2>1, <2>2
  <2>4. CASE g # f
    BY <1>2, <2>1, <2>4
  <2>5. CASE g = f
    <3>1. j <= pos[g] + 1
      BY <1>2, <2>1, <2>5
    <3>2. j <= pos[g] \/ j = pos[g] + 1
      BY <2>3, <3>1
    <3> QED BY <1>2, <2>1, <2>5, <3>2 DEF Dispatched
  <2> QED BY <2>4, <2>5
<1>3. CASE OnOccupancy(f)
  <2> DEFINE r == Dispatched(f)
             e == EngineOf(f)
  <2>1. /\ Dispatching(f, "occupancy")
        /\ occupancy' = [occupancy EXCEPT ![e] = Append(@, Stored(r))]
        /\ occupancy \in [SEs -> Seq(Occupancy)]
    BY <1>1, <1>3 DEF OnOccupancy, TimesTypeOK
  <2>2. /\ r \in TraceRecord /\ r \in ToSet(recording.files[f].records) /\ r.kind = "occupancy" /\ e \in SEs
    BY <1>1, <2>1, DispatchedRecord
  <2>3. Stored(r) \in Occupancy /\ StoredFrom(Stored(r), r)
    BY <2>2, StoredRecord, StoredOccupancy
  <2> HIDE DEF r, e
  <2>4. /\ \A s \in SEs : \A i \in DOMAIN occupancy[s] :
              \E k \in DOMAIN occupancy'[s] : occupancy'[s][k] = occupancy[s][i]
        /\ \E k \in DOMAIN occupancy'[e] : occupancy'[e][k] = Stored(r)
    <3>1. ASSUME NEW s \in SEs, NEW i \in DOMAIN occupancy[s]
          PROVE  \E k \in DOMAIN occupancy'[s] : occupancy'[s][k] = occupancy[s][i]
      BY <2>1, <2>2, <2>3, AppendKeeps
    <3>2. \E k \in DOMAIN occupancy'[e] : occupancy'[e][k] = Stored(r)
      BY <2>1, <2>2, <2>3, AppendAdds
    <3> QED BY <3>1, <3>2
  <2>5. ASSUME NEW s \in SEs, NEW i \in DOMAIN occupancy'[s]
        PROVE  \/ i \in DOMAIN occupancy[s] /\ occupancy'[s][i] = occupancy[s][i]
               \/ e = s /\ occupancy'[s][i] = Stored(r)
    BY <2>1, <2>2, <2>3, Appended
  <2>6. ASSUME NEW g \in Files, NEW j \in DOMAIN recording.files[g].records,
               j <= pos'[g], recording.files[g].records[j].kind = "occupancy"
        PROVE  \E i \in DOMAIN occupancy'[EngineOf(g)] :
                  StoredFrom(occupancy'[EngineOf(g)][i], recording.files[g].records[j])
    <3>1. CASE j <= pos[g]
      <4>1. EngineOf(g) \in SEs
        BY <1>1, RecordingsAssumption DEF TimesTypeOK, EngineOf
      <4>2. PICK i \in DOMAIN occupancy[EngineOf(g)] :
                    StoredFrom(occupancy[EngineOf(g)][i], recording.files[g].records[j])
        BY <2>6, <3>1 DEF OccupancyInv, OccupancyStored
      <4> QED BY <2>4, <4>1, <4>2
    <3>2. CASE g = f /\ recording.files[g].records[j] = Dispatched(f)
      <4>1. EngineOf(g) = e /\ recording.files[g].records[j] = r
        BY <3>2 DEF r, e
      <4> QED BY <2>3, <2>4, <4>1
    <3> QED BY <1>2, <2>1, <2>6, <3>1, <3>2
  <2>7. OccupancyStored'
    BY <1>1, <2>6 DEF OccupancyStored, EngineOf
  <2>8. ASSUME NEW s \in SEs, NEW i \in DOMAIN occupancy'[s]
        PROVE  \E g \in Files : \E q \in ToSet(recording.files[g].records) :
                  q.kind = "occupancy" /\ StoredFrom(occupancy'[s][i], q)
    <3>1. CASE i \in DOMAIN occupancy[s] /\ occupancy'[s][i] = occupancy[s][i]
      BY <3>1 DEF OccupancyInv, OccupancyReported
    <3>2. CASE occupancy'[s][i] = Stored(r)
      BY <2>2, <2>3, <3>2
    <3> QED BY <2>5, <3>1, <3>2
  <2>9. OccupancyReported'
    BY <1>1, <2>8 DEF OccupancyReported
  <2> QED BY <2>7, <2>9
<1>4. ASSUME NEW kind, Dispatching(f, kind), kind # "occupancy", occupancy' = occupancy
      PROVE  OccupancyStored' /\ OccupancyReported'
  <2>1. OccupancyReported'
    BY <1>1, <1>4 DEF OccupancyInv, OccupancyReported
  <2>2. ASSUME NEW g \in Files, NEW j \in DOMAIN recording.files[g].records,
               j <= pos'[g], recording.files[g].records[j].kind = "occupancy"
        PROVE  \E i \in DOMAIN occupancy[EngineOf(g)] :
                  StoredFrom(occupancy[EngineOf(g)][i], recording.files[g].records[j])
    <3>1. j <= pos[g]
      BY <1>2, <1>4, <2>2
    <3> QED BY <2>2, <3>1 DEF OccupancyInv, OccupancyStored
  <2>3. OccupancyStored'
    BY <1>1, <1>4, <2>2 DEF OccupancyStored, EngineOf
  <2> QED BY <2>1, <2>3
<1>5. CASE OnRealtime(f) \/ OnTimeline(f) \/ OnWave(f) \/ OnShaderData(f)
  BY <1>4, <1>5 DEF OnRealtime, OnTimeline, OnWave, OnShaderData
<1> QED BY <1>3, <1>5 DEF Dispatch

LEMMA AlignKeepsOccupancy == TimesInv /\ OccupancyInv /\ AlignClocks => OccupancyInv'
<1> SUFFICES ASSUME TimesInv, OccupancyInv, AlignClocks PROVE OccupancyInv'
  OBVIOUS
<1> DEFINE off == Offsets(realtime)
<1>1. /\ TimesTypeOK /\ recording' = recording /\ pos' = pos
      /\ \A f \in Files : pos[f] = Len(recording.files[f].records)
  BY DEF TimesInv, AlignClocks, AllDispatched
<1>2. \A s \in SEs : occupancy'[s] = occupancy[s] \/ \E d : occupancy'[s] = Shift(occupancy[s], d)
  <2>1. CASE occupancy' = occupancy
    BY <2>1
  <2>2. CASE occupancy' = ShiftBySe(occupancy, off)
    <3> HIDE DEF off
    <3> QED BY <2>2 DEF ShiftBySe
  <2> QED BY <2>1, <2>2 DEF AlignClocks, ApplyTimeOffsets
<1>3. ASSUME NEW s \in SEs PROVE SameReports(occupancy'[s], occupancy[s])
  <2>1. CASE occupancy'[s] = occupancy[s]
    BY <2>1 DEF SameReports
  <2>2. ASSUME NEW d, occupancy'[s] = Shift(occupancy[s], d)
        PROVE  SameReports(occupancy'[s], occupancy[s])
    <3>1. occupancy[s] \in Seq(Occupancy)
      BY <1>1 DEF TimesTypeOK
    <3>2. DOMAIN occupancy'[s] = DOMAIN occupancy[s]
      BY <2>2 DEF Shift
    <3>3. ASSUME NEW i \in DOMAIN occupancy[s]
          PROVE  /\ occupancy'[s][i].raw = occupancy[s][i].raw
                 /\ occupancy'[s][i].slot = occupancy[s][i].slot
                 /\ occupancy'[s][i].start = occupancy[s][i].start
                 /\ occupancy'[s][i].co = occupancy[s][i].co
      <4>1. occupancy[s][i] \in Occupancy
        BY <3>1
      <4>2. occupancy'[s][i] = [occupancy[s][i] EXCEPT !.time = @ + d]
        BY <2>2 DEF Shift
      <4> QED BY <4>1, <4>2 DEF Occupancy
    <3>4. \A i \in DOMAIN occupancy[s] : \A r :
              StoredFrom(occupancy[s][i], r) => StoredFrom(occupancy'[s][i], r)
      BY <3>3 DEF StoredFrom
    <3> QED BY <3>2, <3>4 DEF SameReports
  <2> QED BY <1>2, <2>1, <2>2
<1> QED BY <1>1, <1>3, SameReportsKeep DEF OccupancyInv

LEMMA CompleteKeepsOccupancy == TimesInv /\ OccupancyInv /\ Complete => OccupancyInv'
<1> SUFFICES ASSUME TimesInv, OccupancyInv, Complete PROVE OccupancyInv'
  OBVIOUS
<1>1. /\ TimesTypeOK /\ recording' = recording /\ pos' = pos
      /\ \A f \in Files : pos[f] = Len(recording.files[f].records)
      /\ \A s \in SEs : occupancy'[s] = SortOccupancy(occupancy[s])
  BY DEF TimesInv, Complete, OccupancyInv
<1>2. ASSUME NEW s \in SEs PROVE SameReports(occupancy'[s], occupancy[s])
  <2> DEFINE q == occupancy[s]
             key == [i \in DOMAIN q |-> OccupancyKey(q[i])]
             t == Arranged(q, key, DOMAIN q)
  <2>1. q \in Seq(Occupancy)
    BY <1>1 DEF TimesTypeOK
  <2>2. \A i \in DOMAIN q : key[i] \in Int
    <3>1. \A i \in DOMAIN q : q[i] \in Occupancy
      BY <2>1
    <3> QED BY <3>1 DEF OccupancyKey, Occupancy
  <2>3. occupancy'[s] = t
    BY <1>1, SortsArrange
  <2> HIDE DEF q, key
  <2>4. /\ \A k \in DOMAIN t : \E i \in DOMAIN q : t[k] = q[i]
        /\ \A i \in DOMAIN q : \E k \in DOMAIN t : t[k] = q[i]
    <3> DEFINE P == DOMAIN q
    <3>1. P \in SUBSET DOMAIN q /\ \A i \in P : key[i] \in Int
      BY <2>2
    <3>2. P = DOMAIN q
      OBVIOUS
    <3> HIDE DEF P
    <3> DEFINE u == Arranged(q, key, P)
    <3>3. /\ u \in Seq(Occupancy)
          /\ \A k \in DOMAIN u : \E i \in P : u[k] = q[i]
          /\ \A i \in P : \E k \in DOMAIN u : u[k] = q[i]
          /\ \A a, b \in DOMAIN u : a < b =>
                 \E i, j \in P : u[a] = q[i] /\ u[b] = q[j] /\ Precedes(key, i, j)
      BY <2>1, <3>1, ArrangedInOrder
    <3>4. t = u
      BY <3>2
    <3> HIDE DEF t, u
    <3> QED BY <3>2, <3>3, <3>4
  <2> HIDE DEF t
  <2>5. SameReports(t, q)
    BY <2>4 DEF SameReports
  <2> QED BY <2>3, <2>5 DEF q
<1> QED BY <1>1, <1>2, SameReportsKeep DEF OccupancyInv

LEMMA StepKeepsOccupancy == TimesInv /\ OccupancyInv /\ [TimesNext]_timesVars => OccupancyInv'
<1> SUFFICES ASSUME TimesInv, OccupancyInv, [TimesNext]_timesVars PROVE OccupancyInv'
  OBVIOUS
<1>1. ASSUME NEW f \in Files, Dispatch(f) PROVE OccupancyInv'
  BY <1>1, DispatchKeepsOccupancy
<1>2. CASE AlignClocks
  BY <1>2, AlignKeepsOccupancy
<1>3. CASE Complete
  BY <1>3, CompleteKeepsOccupancy
<1>4. ASSUME UNCHANGED <<recording, pos, phase, occupancy>> PROVE OccupancyInv'
  BY <1>4 DEF OccupancyInv, OccupancyStored, OccupancyReported, EngineOf
<1>5. ASSUME NEW l \in Slots, BeginMarkers(l) \/ EndMarkers(l) PROVE OccupancyInv'
  BY <1>4, <1>5 DEF BeginMarkers, EndMarkers
<1>6. CASE WalkMarkers
  BY <1>4, <1>6 DEF WalkMarkers, recordVars
<1>7. CASE UNCHANGED timesVars
  BY <1>4, <1>7 DEF timesVars, recordVars
<1> QED BY <1>1, <1>2, <1>3, <1>5, <1>6, <1>7 DEF TimesNext

LEMMA OccupancyBegins == TimesInit => OccupancyInv
<1> SUFFICES ASSUME TimesInit PROVE OccupancyInv
  OBVIOUS
<1>1. \A f \in Files : recording.files[f].records \in Seq(TraceRecord)
  BY RecordingsAssumption DEF TimesInit
<1>2. \A f \in Files : \A j \in DOMAIN recording.files[f].records : ~(j <= pos[f])
  BY <1>1 DEF TimesInit
<1>3. \A s \in SEs : DOMAIN occupancy[s] = {}
  BY DEF TimesInit, EmptyBySe
<1> QED BY <1>2, <1>3 DEF TimesInit, OccupancyInv, OccupancyStored, OccupancyReported

(* The occupancy of a slot is what was reported of it, d later.            *)
Follows(o, l, d) ==
    /\ \A k \in DOMAIN o : \E r \in Reported(l) : StoredFrom(o[k], r) /\ o[k].time = r.time + d
    /\ \A r \in Reported(l) : \E k \in DOMAIN o : StoredFrom(o[k], r) /\ o[k].time = r.time + d

KeyOrdered(o) == \A a, b \in DOMAIN o : a < b => OccupancyKey(o[a]) <= OccupancyKey(o[b])

LEMMA OccupancyFollows ==
    ASSUME TimesInv, OccupancyInv, phase # "parse", NEW l \in Slots,
           NEW d \in Int, MovedBy(occupancy[SeOf[l]], d)
    PROVE  /\ OccupancyOf(l) \in Seq(Occupancy)
           /\ KeyOrdered(OccupancyOf(l))
           /\ Follows(OccupancyOf(l), l, d)
<1> DEFINE q == occupancy[SeOf[l]]
           o == OccupancyOf(l)
<1>1. q \in Seq(Occupancy) /\ MovedBy(q, d) /\ SeOf[l] \in SEs /\ recording \in Recordings
  BY EnginesAssumption DEF TimesInv, TimesTypeOK
<1>2. o = SlotOccupancy(q, l)
  BY DEF OccupancyOf
<1>3. /\ o \in Seq(Occupancy)
      /\ \A k \in DOMAIN o : \E i \in DOMAIN q : q[i].slot = l /\ o[k] = q[i]
      /\ \A i \in DOMAIN q : q[i].slot = l => \E k \in DOMAIN o : o[k] = q[i]
      /\ \A a, b \in DOMAIN o : a < b => OccupancyKey(o[a]) <= OccupancyKey(o[b])
  <2> HIDE DEF q, o
  <2> QED BY <1>1, <1>2, SlotRecords
<1>4. ASSUME NEW k \in DOMAIN o
      PROVE  \E r \in Reported(l) : StoredFrom(o[k], r) /\ o[k].time = r.time + d
  <2>1. PICK i \in DOMAIN q : q[i].slot = l /\ o[k] = q[i]
    BY <1>3
  <2>2. PICK f \in Files : \E r \in ToSet(recording.files[f].records) :
                r.kind = "occupancy" /\ StoredFrom(q[i], r)
    BY <1>1 DEF OccupancyInv, OccupancyReported
  <2>3. PICK r \in ToSet(recording.files[f].records) : r.kind = "occupancy" /\ StoredFrom(q[i], r)
    BY <2>2
  <2>4. r \in Reported(l)
    BY <2>1, <2>3 DEF Reported, StoredFrom
  <2>5. q[i].time = r.time + d
    BY <1>1, <2>3 DEF MovedBy, StoredFrom
  <2> QED BY <2>1, <2>3, <2>4, <2>5
<1>5. ASSUME NEW r \in Reported(l)
      PROVE  \E k \in DOMAIN o : StoredFrom(o[k], r) /\ o[k].time = r.time + d
  <2>1. PICK f \in Files : r \in ToSet(recording.files[f].records) /\ r.kind = "occupancy" /\ r.slot = l
    BY DEF Reported
  <2>2. PICK j \in DOMAIN recording.files[f].records : r = recording.files[f].records[j]
    BY <2>1 DEF ToSet
  <2>3. EngineOf(f) = SeOf[l]
    BY <1>1, <2>1, OwnEngineAssumption DEF EngineOf
  <2>4. j <= pos[f]
    <3>1. recording.files[f].records \in Seq(TraceRecord)
      BY <1>1, RecordingsAssumption
    <3>2. pos[f] = Len(recording.files[f].records)
      BY DEF OccupancyInv
    <3> QED BY <3>1, <3>2
  <2>5. PICK i \in DOMAIN q : StoredFrom(q[i], r)
    BY <2>1, <2>2, <2>3, <2>4 DEF OccupancyInv, OccupancyStored
  <2>6. q[i].slot = l /\ q[i].time = r.time + d
    BY <1>1, <2>1, <2>5 DEF MovedBy, StoredFrom
  <2> QED BY <1>3, <2>5, <2>6
<1> QED BY <1>3, <1>4, <1>5 DEF KeyOrdered, Follows

(* What is reported of one slot.                                           *)
LEMMA ReportsOfSlot ==
    ASSUME TimesTypeOK, NEW l \in Slots
    PROVE  /\ \A r \in Reported(l) : r.time \in Int /\ r.start \in BOOLEAN
           /\ \A r, x \in Reported(l) : r.start /\ x.start /\ r.time = x.time => r.co = x.co
<1>1. ASSUME NEW r \in Reported(l)
      PROVE  r.time \in Int /\ r.start \in BOOLEAN
  <2>1. PICK f \in Files : r \in ToSet(recording.files[f].records) /\ r.kind = "occupancy"
    BY DEF Reported
  <2>2. recording.files[f].records \in Seq(TraceRecord)
    BY RecordingsAssumption DEF TimesTypeOK
  <2>3. r \in TraceRecord
    BY <2>1, <2>2 DEF ToSet
  <2> QED BY <2>1, <2>3 DEF TraceRecord
<1>2. ASSUME NEW r \in Reported(l), NEW x \in Reported(l), r.start, x.start, r.time = x.time
      PROVE  r.co = x.co
  <2>1. PICK f \in Files : r \in ToSet(recording.files[f].records) /\ r.kind = "occupancy" /\ r.slot = l
    BY DEF Reported
  <2>2. PICK g \in Files : x \in ToSet(recording.files[g].records) /\ x.kind = "occupancy" /\ x.slot = l
    BY DEF Reported
  <2> QED BY <1>2, <2>1, <2>2, OneStartAssumption DEF TimesTypeOK
<1> QED BY <1>1, <1>2

(* A look-up at a time finds the wave that occupied the slot then.         *)
LEMMA LookupFindsOccupant ==
    ASSUME TimesTypeOK, NEW l \in Slots, NEW d \in Int, NEW t \in Int,
           NEW o \in Seq(Occupancy), KeyOrdered(o), Follows(o, l, d)
    PROVE  ActiveCodeobj(o, t + d) = Occupant(l, t)
<1> DEFINE Starts == {i \in DOMAIN o : o[i].start /\ o[i].co # 0 /\ o[i].time <= t + d}
           starts == {r \in Reported(l) : r.start /\ r.co # 0 /\ r.time <= t}
           n == Max(Starts)
           last == CHOOSE r \in starts : \A x \in starts : x.time <= r.time
<1>1. DOMAIN o = 1 .. Len(o) /\ Len(o) \in Nat
  OBVIOUS
<1>2. \A i \in DOMAIN o : /\ o[i].time \in Int /\ o[i].start \in BOOLEAN
                         /\ OccupancyKey(o[i]) = 2 * o[i].time + (IF o[i].start THEN 1 ELSE 0)
  <2>1. \A i \in DOMAIN o : o[i] \in Occupancy
    OBVIOUS
  <2> QED BY <2>1 DEF Occupancy, OccupancyKey
<1>3. \A a, b \in DOMAIN o : a < b =>
          /\ o[a].time <= o[b].time
          /\ o[a].time = o[b].time /\ o[a].start => o[b].start
  <2> SUFFICES ASSUME NEW a \in DOMAIN o, NEW b \in DOMAIN o, a < b
               PROVE  /\ o[a].time <= o[b].time
                      /\ o[a].time = o[b].time /\ o[a].start => o[b].start
    OBVIOUS
  <2>1. OccupancyKey(o[a]) <= OccupancyKey(o[b])
    BY DEF KeyOrdered
  <2>2. /\ o[a].time \in Int /\ o[a].start \in BOOLEAN
        /\ OccupancyKey(o[a]) = 2 * o[a].time + (IF o[a].start THEN 1 ELSE 0)
    BY <1>2
  <2>3. /\ o[b].time \in Int /\ o[b].start \in BOOLEAN
        /\ OccupancyKey(o[b]) = 2 * o[b].time + (IF o[b].start THEN 1 ELSE 0)
    BY <1>2
  <2> QED BY <2>1, <2>2, <2>3
<1>4. /\ \A r \in Reported(l) : r.time \in Int /\ r.start \in BOOLEAN
      /\ \A r, x \in Reported(l) : r.start /\ x.start /\ r.time = x.time => r.co = x.co
  BY ReportsOfSlot
<1>5. ASSUME NEW k \in DOMAIN o
      PROVE  \E r \in Reported(l) : /\ r.start = o[k].start /\ r.co = o[k].co
                                    /\ o[k].time = r.time + d
                                    /\ k \in Starts <=> r \in starts
  <2>1. PICK r \in Reported(l) : StoredFrom(o[k], r) /\ o[k].time = r.time + d
    BY DEF Follows
  <2>2. r.start = o[k].start /\ r.co = o[k].co
    BY <2>1 DEF StoredFrom
  <2>3. o[k].time <= t + d <=> r.time <= t
    BY <1>4, <2>1
  <2> QED BY <2>1, <2>2, <2>3
<1>6. ASSUME NEW r \in Reported(l)
      PROVE  \E k \in DOMAIN o : /\ r.start = o[k].start /\ r.co = o[k].co
                                 /\ o[k].time = r.time + d
                                 /\ k \in Starts <=> r \in starts
  <2>1. PICK k \in DOMAIN o : StoredFrom(o[k], r) /\ o[k].time = r.time + d
    BY DEF Follows
  <2>2. r.start = o[k].start /\ r.co = o[k].co
    BY <2>1 DEF StoredFrom
  <2>3. o[k].time <= t + d <=> r.time <= t
    BY <1>4, <2>1
  <2> QED BY <2>1, <2>2, <2>3
<1>7. Starts = {} <=> starts = {}
  <2>1. Starts \subseteq DOMAIN o /\ starts \subseteq Reported(l)
    OBVIOUS
  <2> HIDE DEF Starts, starts
  <2> QED BY <1>5, <1>6, <2>1
<1>8. CASE Starts = {}
  BY <1>7, <1>8 DEF ActiveCodeobj, Occupant
<1>9. CASE Starts # {}
  <2>1. n \in Starts /\ \A i \in Starts : i <= n
    <3>1. IsFiniteSet(1 .. Len(o))
      BY <1>1, FS_Interval
    <3>2. Starts \in SUBSET (1 .. Len(o)) /\ Starts \subseteq Int
      BY <1>1
    <3> HIDE DEF Starts
    <3>3. IsFiniteSet(Starts)
      BY <3>1, <3>2, FS_Subset
    <3> QED BY <1>9, <3>2, <3>3, FiniteMax
  <2>2. n \in DOMAIN o /\ o[n].start /\ o[n].co # 0 /\ o[n].time <= t + d
    BY <2>1
  <2>3. ActiveCodeobj(o, t + d) = IF n < Len(o) /\ t + d > o[n + 1].time THEN 0 ELSE o[n].co
    BY <1>9 DEF ActiveCodeobj
  <2>4. Occupant(l, t) = IF \E r \in Reported(l) : last.time < r.time /\ r.time < t THEN 0 ELSE last.co
    BY <1>7, <1>9 DEF Occupant
  <2>5. PICK m \in Reported(l) : /\ m.start = o[n].start /\ m.co = o[n].co
                                 /\ o[n].time = m.time + d
                                 /\ n \in Starts <=> m \in starts
    BY <1>5, <2>2
  <2>6. m \in starts /\ \A x \in starts : x.time <= m.time
    <3>1. ASSUME NEW x \in starts PROVE x.time <= m.time
      <4>1. x \in Reported(l)
        OBVIOUS
      <4>2. PICK k \in DOMAIN o : o[k].time = x.time + d /\ k \in Starts
        BY <1>6, <3>1, <4>1
      <4>3. k = n \/ k < n
        <5>1. k <= n
          BY <2>1, <4>2, Zenon
        <5>2. k \in 1 .. Len(o) /\ n \in 1 .. Len(o)
          BY <1>1, <2>2, Zenon
        <5> HIDE DEF n
        <5> QED BY <1>1, <5>1, <5>2
      <4>4. o[k].time <= o[n].time
        BY <1>2, <1>3, <2>2, <4>2, <4>3
      <4> QED BY <1>4, <2>5, <4>1, <4>2, <4>4
    <3> QED BY <2>1, <2>5, <3>1
  <2>7. last \in starts /\ \A x \in starts : x.time <= last.time
    <3> HIDE DEF starts
    <3> QED BY <2>6
  <2>8. last \in Reported(l) /\ last.time = m.time /\ last.co = m.co
    <3>1. last \in Reported(l) /\ last.start /\ m.start
      BY <2>6, <2>7
    <3>2. last.time = m.time
      BY <1>4, <2>6, <2>7, <3>1
    <3> QED BY <1>4, <3>1, <3>2
  <2> HIDE DEF n, last
  <2>9. ASSUME n < Len(o), t + d > o[n + 1].time
        PROVE  \E r \in Reported(l) : last.time < r.time /\ r.time < t
    <3>1. n + 1 \in DOMAIN o /\ n < n + 1
      BY <1>1, <2>2, <2>9
    <3>2. PICK r \in Reported(l) : /\ r.start = o[n + 1].start /\ r.co = o[n + 1].co
                                   /\ o[n + 1].time = r.time + d
                                   /\ n + 1 \in Starts <=> r \in starts
      BY <1>5, <3>1
    <3>3. o[n].time <= o[n + 1].time /\ (o[n].time = o[n + 1].time => o[n + 1].start)
      BY <1>3, <2>2, <3>1
    <3>4. r.time < t /\ m.time <= r.time
      <4>1. /\ o[n].time \in Int /\ o[n + 1].time \in Int
            /\ m.time \in Int /\ r.time \in Int
        BY <1>2, <1>4, <2>2, <3>1
      <4> QED BY <2>5, <2>9, <3>2, <3>3, <4>1
    <3>5. n + 1 \notin Starts
      BY <1>1, <2>1, <2>2
    <3>6. m.time # r.time
      <4> SUFFICES ASSUME m.time = r.time PROVE FALSE
        OBVIOUS
      <4>1. o[n + 1].start /\ r.start
        BY <2>5, <3>2, <3>3
      <4>2. r.co = m.co
        BY <1>4, <2>2, <2>5, <4>1
      <4>3. r \in starts
        BY <1>4, <2>2, <2>5, <3>4, <4>1, <4>2
      <4> QED BY <3>2, <3>5, <4>3
    <3> QED BY <1>4, <2>8, <3>4, <3>6
  <2>10. ASSUME NEW r \in Reported(l), last.time < r.time, r.time < t
         PROVE  n < Len(o) /\ t + d > o[n + 1].time
    <3>1. PICK k \in DOMAIN o : o[k].time = r.time + d
      BY <1>6
    <3>2. o[n].time < o[k].time /\ o[k].time < t + d
      BY <1>4, <2>5, <2>8, <2>10, <3>1
    <3>3. n < k
      <4>1. ~(k < n)
        BY <1>2, <1>3, <2>2, <3>2
      <4>2. k # n
        BY <1>2, <3>2
      <4> QED BY <1>1, <2>2, <4>1, <4>2
    <3>4. n + 1 \in DOMAIN o /\ n < Len(o) /\ (n + 1 = k \/ n + 1 < k)
      BY <1>1, <2>2, <3>3
    <3>5. o[n + 1].time <= o[k].time
      BY <1>2, <1>3, <3>4
    <3> QED BY <1>2, <3>2, <3>4, <3>5
  <2> QED BY <2>3, <2>4, <2>5, <2>8, <2>9, <2>10
<1> QED BY <1>8, <1>9

LEMMA ActiveIsOccupant ==
    ASSUME TimesInv, OccupancyInv, phase # "parse", NEW l \in Slots, NEW i \in DOMAIN shader[l]
    PROVE  ActiveCodeobj(OccupancyOf(l), shader[l][i].time) = Occupant(l, shader[l][i].raw)
<1>1. SeOf[l] \in SEs /\ TimesTypeOK /\ Together
  BY EnginesAssumption DEF TimesInv
<1>2. PICK d \in Int : MovedBy(occupancy[SeOf[l]], d) /\ MovedBy(shader[l], d)
  <2>1. CASE applied
    BY <1>1, <2>1 DEF Together, Placed
  <2>2. CASE ~applied
    BY <1>1, <2>2 DEF Together, Unmoved
  <2> QED BY <2>1, <2>2
<1>3. shader[l][i].raw \in Int /\ shader[l][i].time = shader[l][i].raw + d
  <2>1. shader[l][i] \in Shader
    BY <1>1 DEF TimesTypeOK
  <2> QED BY <1>2, <2>1 DEF Shader, MovedBy
<1>4. /\ OccupancyOf(l) \in Seq(Occupancy)
      /\ KeyOrdered(OccupancyOf(l))
      /\ Follows(OccupancyOf(l), l, d)
  BY <1>2, OccupancyFollows
<1>5. ActiveCodeobj(OccupancyOf(l), shader[l][i].raw + d) = Occupant(l, shader[l][i].raw)
  BY <1>1, <1>3, <1>4, LookupFindsOccupant
<1> QED BY <1>3, <1>5, Zenon

-----------------------------------------------------------------------------
(* The scopes and the spans of slot l, of the wave that occupied it.       *)
Attributed(l, m) ==
    \E i \in DOMAIN shader[l] :
        shader[l][i].time = m.enter /\ m.id[1] = Occupant(l, shader[l][i].raw)
FramesOf(l) == {f \in Frame : Attributed(l, f)}
SpansOf(l) == {s \in Span : Attributed(l, s)}

MarksInv ==
    /\ walking # {} \/ DOMAIN markers # {} => phase = "resolve"
    /\ walking = {} \/ \E l \in Slots : walking = {l}
    /\ next \in Nat \ {0}
    /\ \A l \in Slots : walking = {l} => /\ stream = Resolved(l)
                                         /\ stack \in Seq(FramesOf(l))
                                         /\ spans \in Seq(SpansOf(l))
    /\ \A l \in Slots \cap DOMAIN markers : markers[l] \in Seq(SpansOf(l))

(* What a step of the walk makes of its scopes and spans.                  *)
LEMMA WalkKeepsElements ==
    ASSUME NEW F, NEW S, stack \in Seq(F), spans \in Seq(S), next \in Nat \ {0},
           \A k \in 1 .. Len(stream), n \in Nat :
               /\ stream[k].time \in Int
               /\ FrameOf(stream[k], n) \in F
               /\ PointSpan(stream[k], n) \in S,
           \A f \in F, t \in Int, form \in {"closed", "open"} : Close(f, t, form) \in S,
           Len(stream) \in Nat, WalkStep
    PROVE  stack' \in Seq(F) /\ spans' \in Seq(S) /\ next' \in Nat \ {0} /\ stream' = stream
<1>1. ASSUME NEW op, Reading(op)
      PROVE  /\ next \in 1 .. Len(stream) /\ next' \in Nat \ {0} /\ stream' = stream
             /\ stream[next].time \in Int
  BY <1>1 DEF Reading
<1>2. ASSUME stack # <<>>
      PROVE  /\ Front(stack) \in Seq(F) /\ Last(stack) \in F /\ Len(stack) - 1 \in Nat
  BY <1>2, FrontFacts
<1>3. Len(stack) \in Nat
  OBVIOUS
<1>4. CASE SkipRecord
  BY <1>1, <1>4 DEF SkipRecord
<1>5. CASE Enter
  <2>1. FrameOf(stream[next], Len(stack)) \in F
    BY <1>1, <1>3, <1>5 DEF Enter
  <2> QED BY <1>1, <1>5, <2>1, AppendFacts DEF Enter
<1>6. CASE Exit
  <2>1. Close(Last(stack), stream[next].time, "closed") \in S
    BY <1>1, <1>2, <1>6 DEF Exit
  <2> QED BY <1>1, <1>2, <1>6, <2>1, AppendFacts DEF Exit
<1>7. CASE Transition
  <2>1. /\ stack # <<>> /\ Reading("transition")
        /\ Close(Last(stack), stream[next].time, "closed") \in S
        /\ FrameOf(stream[next], Len(stack) - 1) \in F
    BY <1>1, <1>2, <1>7 DEF Transition
  <2>2. spans' = Append(spans, Close(Last(stack), stream[next].time, "closed"))
    BY <1>7 DEF Transition
  <2>3. \/ stack' = Front(stack)
        \/ stack' = Append(Front(stack), FrameOf(stream[next], Len(stack) - 1))
    BY <1>7 DEF Transition
  <2>4. stack' \in Seq(F)
    <3>1. Front(stack) \in Seq(F)
      BY <1>2, <2>1
    <3>2. Append(Front(stack), FrameOf(stream[next], Len(stack) - 1)) \in Seq(F)
      BY <2>1, <3>1, AppendFacts
    <3> QED BY <2>3, <3>1, <3>2
  <2>5. spans' \in Seq(S)
    BY <2>1, <2>2, AppendFacts
  <2> QED BY <1>1, <2>1, <2>4, <2>5
<1>8. CASE TransitionFromNothing
  <2>1. FrameOf(stream[next], 0) \in F
    BY <1>1, <1>8 DEF TransitionFromNothing
  <2> QED BY <1>1, <1>8, <2>1 DEF TransitionFromNothing
<1>9. CASE MarkPoint
  <2>1. PointSpan(stream[next], Len(stack)) \in S
    BY <1>1, <1>3, <1>9 DEF MarkPoint
  <2> QED BY <1>1, <1>9, <2>1, AppendFacts DEF MarkPoint
<1>10. CASE CloseOpen
  <2>1. Close(Last(stack), TimeMax, "open") \in S
    BY <1>2, <1>10, TimeMaxIsInt DEF CloseOpen
  <2> QED BY <1>2, <1>10, <2>1, AppendFacts DEF CloseOpen
<1> QED BY <1>4, <1>5, <1>6, <1>7, <1>8, <1>9, <1>10 DEF WalkStep

LEMMA ResolvedIsAttributed ==
    ASSUME TimesInv, OccupancyInv, phase = "resolve", NEW l \in Slots
    PROVE  /\ Len(Resolved(l)) \in Nat
           /\ \A k \in 1 .. Len(Resolved(l)), n \in Nat :
                  /\ Resolved(l)[k].time \in Int
                  /\ FrameOf(Resolved(l)[k], n) \in FramesOf(l)
                  /\ PointSpan(Resolved(l)[k], n) \in SpansOf(l)
<1>1. shader[l] \in Seq(Shader) /\ OccupancyOf(l) \in Seq(Occupancy)
  <2>1. occupancy[SeOf[l]] \in Seq(Occupancy)
    BY EnginesAssumption DEF TimesInv, TimesTypeOK
  <2> QED BY <2>1, SlotRecords DEF TimesInv, TimesTypeOK, OccupancyOf
<1>2. Len(Resolved(l)) = Len(shader[l]) /\ Len(shader[l]) \in Nat /\ DOMAIN shader[l] = 1 .. Len(shader[l])
  <2>1. DOMAIN Resolved(l) = 1 .. Len(shader[l]) /\ Len(shader[l]) \in Nat
    BY <1>1 DEF Resolved
  <2> QED BY <1>1, <2>1, LenProperties
<1>3. ASSUME NEW k \in DOMAIN shader[l], NEW n \in Nat
      PROVE  /\ Resolved(l)[k].time \in Int
             /\ FrameOf(Resolved(l)[k], n) \in FramesOf(l)
             /\ PointSpan(Resolved(l)[k], n) \in SpansOf(l)
  <2> DEFINE r  == shader[l][k]
             co == ActiveCodeobj(OccupancyOf(l), r.time)
             x  == Resolved(l)[k]
             f  == FrameOf(x, n)
             p  == PointSpan(x, n)
  <2>1. r.time \in Int /\ r.id \in Ids
    <3>1. r \in Shader
      BY <1>1
    <3> QED BY <3>1 DEF Shader
  <2>2. x.time = r.time /\ x.id = <<co, r.id>>
    BY DEF Resolved
  <2>3. co \in CodeObjects /\ co = Occupant(l, r.raw)
    BY <1>1, <2>1, ActiveIsKnown, ActiveIsOccupant
  <2>4. x.id \in MarkerIds /\ x.id[1] = Occupant(l, r.raw)
    BY <2>1, <2>2, <2>3, MarkerIdsAssumption
  <2> HIDE DEF co, x
  <2>5. f \in Frame /\ f.enter = r.time /\ f.id = x.id
    BY <2>1, <2>2, <2>4 DEF FrameOf, Frame
  <2>6. p \in Span /\ p.enter = r.time /\ p.id = x.id
    BY <2>1, <2>2, <2>4 DEF PointSpan, FrameOf, Close, Span
  <2> HIDE DEF f, p
  <2>7. Attributed(l, f) /\ Attributed(l, p)
    BY <2>4, <2>5, <2>6 DEF Attributed
  <2>8. f \in FramesOf(l) /\ p \in SpansOf(l)
    BY <2>5, <2>6, <2>7 DEF FramesOf, SpansOf
  <2> QED BY <2>1, <2>2, <2>8 DEF f, p, x
<1> QED BY <1>2, <1>3

LEMMA ClosedIsAttributed ==
    ASSUME NEW l, NEW f \in FramesOf(l), NEW t \in Int, NEW form \in {"closed", "open"}
    PROVE  Close(f, t, form) \in SpansOf(l)
<1>1. f \in Frame /\ Attributed(l, f)
  BY DEF FramesOf
<1>2. /\ Close(f, t, form) \in Span
      /\ Close(f, t, form).enter = f.enter /\ Close(f, t, form).id = f.id
  BY <1>1 DEF Close, Frame, Span
<1>3. Attributed(l, Close(f, t, form))
  BY <1>1, <1>2 DEF Attributed
<1> QED BY <1>2, <1>3 DEF SpansOf

LEMMA EnterOrderKeeps ==
    ASSUME NEW S \in SUBSET Span, NEW q \in Seq(S)
    PROVE  EnterOrder(q) \in Seq(S)
<1> DEFINE key == [i \in DOMAIN q |-> q[i].enter]
<1>1. EnterOrder(q) = Arranged(q, key, DOMAIN q)
  BY DEF EnterOrder, SortedBy
<1>2. \A i \in DOMAIN q : key[i] \in Int
  <2>1. \A i \in DOMAIN q : q[i] \in Span
    OBVIOUS
  <2> QED BY <2>1 DEF Span
<1> HIDE DEF key
<1>3. Arranged(q, key, DOMAIN q) \in Seq(S)
  BY <1>2, ArrangedMoved
<1> QED BY <1>1, <1>3

LEMMA StepKeepsMarks == TimesInv /\ OccupancyInv /\ MarksInv /\ [TimesNext]_timesVars => MarksInv'
<1> SUFFICES ASSUME TimesInv, OccupancyInv, MarksInv, [TimesNext]_timesVars PROVE MarksInv'
  OBVIOUS
<1>1. ASSUME recording' = recording, shader' = shader
      PROVE  \A l : FramesOf(l)' = FramesOf(l) /\ SpansOf(l)' = SpansOf(l)
  BY <1>1 DEF FramesOf, SpansOf, Attributed, Occupant, Reported
<1>2. ASSUME recording' = recording, shader' = shader, occupancy' = occupancy
      PROVE  \A l : Resolved(l)' = Resolved(l)
  BY <1>2 DEF Resolved, Answer, OccupancyOf
<1>3. ASSUME phase # "resolve", UNCHANGED <<walking, markers, walkVars>>
      PROVE  MarksInv'
  BY <1>3 DEF MarksInv, walkVars
<1>4. ASSUME NEW f \in Files, Dispatch(f) PROVE MarksInv'
  BY <1>3, <1>4 DEF Dispatch, OnRealtime, OnOccupancy, OnTimeline, OnWave, OnShaderData, Dispatching
<1>5. CASE AlignClocks
  BY <1>3, <1>5 DEF AlignClocks, AllDispatched
<1>6. CASE Complete
  BY <1>3, <1>6 DEF Complete
<1>7. ASSUME NEW l \in Slots, BeginMarkers(l) PROVE MarksInv'
  <2>1. /\ phase' = "resolve" /\ walking' = {l} /\ markers' = markers
        /\ stream' = Resolved(l) /\ next' = 1 /\ stack' = <<>> /\ spans' = <<>>
        /\ recording' = recording /\ shader' = shader /\ occupancy' = occupancy
    BY <1>7 DEF BeginMarkers, BeginWalk
  <2>2. \A k \in Slots : walking' = {k} => k = l
    BY <2>1
  <2> QED BY <1>1, <1>2, <2>1, <2>2 DEF MarksInv
<1>8. ASSUME NEW l \in Slots, EndMarkers(l) PROVE MarksInv'
  <2>1. /\ walking = {l} /\ walking' = {} /\ phase' = phase
        /\ recording' = recording /\ shader' = shader /\ next' = next
        /\ markers' = markers \/ markers' = Emplace(markers, l, EnterOrder(spans))
    BY <1>8 DEF EndMarkers, walkVars
  <2>2. phase = "resolve" /\ spans \in Seq(SpansOf(l))
    BY <2>1 DEF MarksInv
  <2>3. EnterOrder(spans) \in Seq(SpansOf(l))
    <3>1. SpansOf(l) \in SUBSET Span
      BY DEF SpansOf
    <3> QED BY <2>2, <3>1, EnterOrderKeeps
  <2>4. ASSUME NEW k \in Slots \cap DOMAIN markers' PROVE markers'[k] \in Seq(SpansOf(k))
    BY <2>1, <2>3 DEF MarksInv, Emplace
  <2> QED BY <1>1, <2>1, <2>2, <2>4 DEF MarksInv
<1>9. CASE WalkMarkers
  <2>1. PICK l \in Slots : walking = {l}
    BY <1>9 DEF WalkMarkers, MarksInv
  <2>2. /\ phase = "resolve" /\ stream = Resolved(l) /\ next \in Nat \ {0}
        /\ stack \in Seq(FramesOf(l)) /\ spans \in Seq(SpansOf(l)) /\ WalkStep
        /\ UNCHANGED recordVars
    BY <1>9, <2>1 DEF MarksInv, WalkMarkers
  <2>3. /\ Len(stream) \in Nat
        /\ \A k \in 1 .. Len(stream), n \in Nat :
               /\ stream[k].time \in Int
               /\ FrameOf(stream[k], n) \in FramesOf(l)
               /\ PointSpan(stream[k], n) \in SpansOf(l)
    BY <2>2, ResolvedIsAttributed
  <2>4. stack' \in Seq(FramesOf(l)) /\ spans' \in Seq(SpansOf(l)) /\ next' \in Nat \ {0} /\ stream' = stream
    BY <2>2, <2>3, ClosedIsAttributed, WalkKeepsElements
  <2>5. \A k \in Slots : walking' = {k} => k = l
    BY <2>1, <2>2 DEF recordVars
  <2>6. /\ phase' = phase /\ walking' = walking /\ markers' = markers
        /\ recording' = recording /\ shader' = shader /\ occupancy' = occupancy
    BY <2>2 DEF recordVars
  <2> QED BY <1>1, <1>2, <2>1, <2>2, <2>4, <2>5, <2>6 DEF MarksInv
<1>10. CASE UNCHANGED timesVars
  <2>1. UNCHANGED <<recording, shader, occupancy, phase, walking, markers, stream, next, stack, spans>>
    BY <1>10 DEF timesVars, recordVars, walkVars
  <2> QED BY <1>1, <1>2, <2>1 DEF MarksInv
<1> QED BY <1>4, <1>5, <1>6, <1>7, <1>8, <1>9, <1>10 DEF TimesNext

(* The code object of every marker shown is that of the wave which, by the *)
(* times the decoder reported, occupied the slot then: of the last start   *)
(* of a kernel with a code object, unless another record of the slot lies  *)
(* between that start and the marker.                                      *)
THEOREM MarkersAttributed == TimesSpec => []MarkersOfOccupant
<1>1. TimesInit => MarksInv
  <2> SUFFICES ASSUME TimesInit PROVE MarksInv
    OBVIOUS
  <2>1. walking = {} /\ DOMAIN markers = {} /\ next = 1 /\ \A l : walking # {l}
    BY DEF TimesInit, Walking
  <2> QED BY <2>1 DEF MarksInv
<1>2. MarksInv => MarkersOfOccupant
  <2> SUFFICES ASSUME MarksInv, NEW l \in Slots,
                      NEW q \in Seq(SpansOf(l)), NEW m \in ToSet(q)
               PROVE  Attributed(l, m)
    BY DEF MarksInv, MarkersOfOccupant, Attributed
  <2>1. m \in SpansOf(l)
    BY DEF ToSet
  <2> QED BY <2>1 DEF SpansOf
<1> QED BY <1>1, <1>2, TimesInvariance, OccupancyBegins, StepKeepsOccupancy, StepKeepsMarks, PTL DEF TimesSpec
=============================================================================
