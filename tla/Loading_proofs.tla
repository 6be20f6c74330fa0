--------------------------- MODULE Loading_proofs ---------------------------
(***************************************************************************)
(* Proofs about loading a capture.  The parallel decoding of .att files:   *)
(* the pool of decoding threads (AttPool), for every number of files,      *)
(* every file size, every budget and every number of slots; and the        *)
(* callback those threads call (IsaCallback), for every number of threads, *)
(* all sets of traces and any number of loads.  What the main window makes *)
(* of a load and of one that fails (LoadSession), for any inputs, any      *)
(* detection of them and any number of stores.                             *)
(***************************************************************************)
EXTENDS AttPool, IsaCallback, LoadSession, AggregateTheorems, TLAPS

-----------------------------------------------------------------------------
(* The pool.  The size that the model adds up for a set of files.          *)
LEMMA TotalIsSum == \A S : TotalSize(S) = SumOver(size, S)
BY DEF TotalSize, MapThenSumSet, MapThenFoldSet, Adds, Chosen, SumOver

(* The loading thread is inside the loop body only for a file of the list. *)
MainInFile == main \in {"poll", "recheck", "add", "acquire", "spawn"} => cur <= NFiles

(* What is known of file f from where the two threads stand.               *)
FileHistory(f) ==
    /\ f >= cur => worker[f] = "none" /\ outcome[f] = "pending"
    /\ f < cur /\ worker[f] = "none" => outcome[f] = "nostat" /\ errors[f] > 0
    /\ worker[f] \in {"lower", "free", "release", "done"} =>
          /\ outcome[f] # "pending"
          /\ outcome[f] = "ok" \/ errors[f] > 0

(* The check that let the loading thread reach the addition still holds    *)
(* there: decoding threads only lower the counter in between.              *)
Admitted == main = "add" => inflight + size[cur] <= Budget \/ inflight <= 0

NobodyAfterReturn == main = "returned" => cur = NFiles + 1 /\ Running = {}

(* The counter is never above the budget but for one file larger than it.  *)
CounterBounded == inflight <= Budget \/ \E f \in Files : inflight <= size[f]

(* The counter is the sum of the sizes of the files in flight...           *)
CounterExact == inflight = SumOver(size, InFlight)

(* ... and stays within the budget, unless one file alone is not empty.    *)
OneAboveBudget == \E f \in InFlight : \A g \in InFlight \ {f} : size[g] = 0
CounterWithinBudget == SumOver(size, InFlight) <= Budget \/ OneAboveBudget

PoolInv == /\ TypeOK
           /\ CounterExact
           /\ CounterWithinBudget
           /\ MainInFile
           /\ \A f \in Files : FileHistory(f)
           /\ Admitted
           /\ CounterBounded
           /\ PermitsConserved
           /\ NobodyAfterReturn

-----------------------------------------------------------------------------
(* Every action of either thread leaves the state well-typed; the loading  *)
(* thread must be known to be at a file of the list when it moves on.      *)
LEMMA TypeInductive ==
  TypeOK /\ MainInFile /\ [PoolNext]_poolVars => TypeOK' /\ MainInFile'
<1> SUFFICES ASSUME TypeOK, MainInFile, [PoolNext]_poolVars PROVE TypeOK' /\ MainInFile'
  OBVIOUS
<1> USE NFilesAssumption DEF TypeOK, MainInFile, Files, MainStates, WorkerStates,
                             Outcomes, AddParseError, Goto
<1>1. CASE StatFails      BY <1>1 DEF StatFails
<1>2. CASE StatSucceeds   BY <1>2 DEF StatSucceeds
<1>3. CASE PollBudget     BY <1>3 DEF PollBudget
<1>4. CASE PollEmpty      BY <1>4 DEF PollEmpty
<1>5. CASE AddInflight    BY <1>5, SizesAssumption DEF AddInflight
<1>6. CASE AcquireSlot    BY <1>6 DEF AcquireSlot
<1>7. CASE Spawn          BY <1>7 DEF Spawn
<1>8. CASE JoinAll        BY <1>8 DEF JoinAll
<1>9. ASSUME NEW f \in Files, WorkerStep(f) \/ InfoRecord(f)
      PROVE  TypeOK' /\ MainInFile'
  <2>1. CASE OpenFails(f)       BY <2>1 DEF OpenFails
  <2>2. CASE OpenAndRead(f)     BY <2>2 DEF OpenAndRead
  <2>3. CASE DecodeSucceeds(f)  BY <2>3 DEF DecodeSucceeds
  <2>4. CASE DecodeFails(f)     BY <2>4 DEF DecodeFails
  <2>5. CASE FreeBuffer(f)      BY <2>5 DEF FreeBuffer
  <2>6. CASE LowerInflight(f)   BY <2>6, SizesAssumption DEF LowerInflight
  <2>7. CASE ReleaseSlot(f)     BY <2>7 DEF ReleaseSlot
  <2>8. CASE InfoRecord(f)      BY <2>8 DEF InfoRecord
  <2> QED BY <1>9, <2>1, <2>2, <2>3, <2>4, <2>5, <2>6, <2>7, <2>8 DEF WorkerStep, DecodeEnds
<1>10. CASE UNCHANGED poolVars BY <1>10 DEF poolVars
<1> QED
  BY <1>1, <1>2, <1>3, <1>4, <1>5, <1>6, <1>7, <1>8, <1>9, <1>10 DEF PoolNext, MainStep

(* The set of running threads is finite, so that it can be counted.        *)
LEMMA RunningFinite == IsFiniteSet(Running) /\ Running \subseteq Files
<1>1. IsFiniteSet(Files)
  BY NFilesAssumption, FS_Interval DEF Files
<1> QED BY <1>1, FS_Subset DEF Running

(* A worker that leaves or enters the running states changes their number  *)
(* by one, and any other step of a thread keeps it.                        *)
LEMMA RunningCount ==
  ASSUME TypeOK, NEW f \in Files, NEW to \in WorkerStates,
         worker' = [worker EXCEPT ![f] = to]
  PROVE  /\ worker[f] = "none" /\ to \notin {"none", "done"} =>
               Cardinality(Running') = Cardinality(Running) + 1
         /\ worker[f] \notin {"none", "done"} /\ to = "done" =>
               Cardinality(Running') = Cardinality(Running) - 1
         /\ worker[f] \notin {"none", "done"} /\ to \notin {"none", "done"} =>
               Running' = Running
         /\ Cardinality(Running) \in Nat
<1> USE DEF TypeOK, WorkerStates
<1>1. ASSUME worker[f] = "none", to \notin {"none", "done"}
      PROVE  Cardinality(Running') = Cardinality(Running) + 1
  <2>1. Running' = Running \cup {f} /\ f \notin Running
    BY <1>1 DEF Running
  <2> QED BY <2>1, RunningFinite, FS_AddElement
<1>2. ASSUME worker[f] \notin {"none", "done"}, to = "done"
      PROVE  Cardinality(Running') = Cardinality(Running) - 1
  <2>1. Running' = Running \ {f} /\ f \in Running
    BY <1>2 DEF Running
  <2> QED BY <2>1, RunningFinite, FS_RemoveElement
<1>3. ASSUME worker[f] \notin {"none", "done"}, to \notin {"none", "done"}
      PROVE  Running' = Running
  BY <1>3 DEF Running
<1>4. Cardinality(Running) \in Nat
  BY RunningFinite, FS_CardinalityType
<1> QED BY <1>1, <1>2, <1>3, <1>4

(* Each action keeps permits + running threads + the permit the loading    *)
(* thread holds between acquire and emplace_back.                          *)
LEMMA PermitsInductive ==
  PoolInv /\ [PoolNext]_poolVars => PermitsConserved'
<1> SUFFICES ASSUME PoolInv, [PoolNext]_poolVars PROVE PermitsConserved'
  OBVIOUS
<1> USE DEF PoolInv, PermitsConserved, TypeOK
<1>0. Cardinality(Running) \in Nat
  BY RunningFinite, FS_CardinalityType
<1>1. ASSUME UNCHANGED worker, UNCHANGED permits, main # "spawn", main' # "spawn"
      PROVE  PermitsConserved'
  BY <1>1 DEF Running
<1>2. CASE StatFails \/ StatSucceeds \/ PollBudget \/ PollEmpty \/ AddInflight \/ JoinAll
  BY <1>1, <1>2 DEF StatFails, StatSucceeds, PollBudget, PollEmpty, AddInflight, JoinAll
<1>3. CASE AcquireSlot
  <2>1. Running' = Running
    BY <1>3 DEF AcquireSlot, Running
  <2> QED BY <1>0, <1>3, <2>1 DEF AcquireSlot
<1>4. CASE Spawn
  <2>1. cur \in Files
    BY <1>4, NFilesAssumption DEF Spawn, Files, MainInFile
  <2>2. worker[cur] = "none"
    BY <2>1 DEF FileHistory, Files
  <2>3. Cardinality(Running') = Cardinality(Running) + 1
    BY <1>4, <2>1, <2>2, RunningCount DEF Spawn, WorkerStates
  <2> QED BY <1>0, <1>4, <2>3 DEF Spawn
<1>5. ASSUME NEW f \in Files, WorkerStep(f) \/ InfoRecord(f)
      PROVE  PermitsConserved'
  <2> USE <1>0, RunningCount DEF Goto, WorkerStates
  <2>1. CASE OpenFails(f)       BY <2>1 DEF OpenFails
  <2>2. CASE OpenAndRead(f)     BY <2>2 DEF OpenAndRead
  <2>3. CASE DecodeSucceeds(f)  BY <2>3 DEF DecodeSucceeds
  <2>4. CASE DecodeFails(f)     BY <2>4 DEF DecodeFails
  <2>5. CASE FreeBuffer(f)      BY <2>5 DEF FreeBuffer
  <2>6. CASE LowerInflight(f)   BY <2>6 DEF LowerInflight
  <2>7. CASE ReleaseSlot(f)
    <3>1. Cardinality(Running') = Cardinality(Running) - 1
      BY <2>7 DEF ReleaseSlot
    <3> QED BY <2>7, <3>1 DEF ReleaseSlot
  <2>8. CASE InfoRecord(f)      BY <2>8 DEF InfoRecord, Running
  <2> QED BY <1>5, <2>1, <2>2, <2>3, <2>4, <2>5, <2>6, <2>7, <2>8 DEF WorkerStep, DecodeEnds
<1>6. CASE UNCHANGED poolVars
  BY <1>6 DEF poolVars, Running
<1> QED BY <1>2, <1>3, <1>4, <1>5, <1>6 DEF PoolNext, MainStep

(* What is known of the files survives every step: a file's fate is        *)
(* recorded before its thread gives anything back.                         *)
LEMMA HistoryInductive ==
  PoolInv /\ [PoolNext]_poolVars => \A g \in Files : FileHistory(g)'
<1> SUFFICES ASSUME PoolInv, [PoolNext]_poolVars, NEW g \in Files PROVE FileHistory(g)'
  OBVIOUS
<1> USE NFilesAssumption DEF PoolInv, TypeOK, FileHistory, Files, MainInFile, AddParseError, Goto
<1>1. CASE StatFails      BY <1>1 DEF StatFails
<1>2. CASE StatSucceeds   BY <1>2 DEF StatSucceeds
<1>3. CASE PollBudget     BY <1>3 DEF PollBudget
<1>4. CASE PollEmpty      BY <1>4 DEF PollEmpty
<1>5. CASE AddInflight    BY <1>5 DEF AddInflight
<1>6. CASE AcquireSlot    BY <1>6 DEF AcquireSlot
<1>7. CASE Spawn          BY <1>7 DEF Spawn
<1>8. CASE JoinAll        BY <1>8 DEF JoinAll
<1>9. ASSUME NEW f \in Files, WorkerStep(f) \/ InfoRecord(f)
      PROVE  FileHistory(g)'
  <2>1. CASE OpenFails(f)       BY <2>1 DEF OpenFails
  <2>2. CASE OpenAndRead(f)     BY <2>2 DEF OpenAndRead
  <2>3. CASE DecodeSucceeds(f)  BY <2>3 DEF DecodeSucceeds
  <2>4. CASE DecodeFails(f)     BY <2>4 DEF DecodeFails
  <2>5. CASE FreeBuffer(f)      BY <2>5 DEF FreeBuffer
  <2>6. CASE LowerInflight(f)   BY <2>6 DEF LowerInflight
  <2>7. CASE ReleaseSlot(f)     BY <2>7 DEF ReleaseSlot
  <2>8. CASE InfoRecord(f)      BY <2>8 DEF InfoRecord
  <2> QED BY <1>9, <2>1, <2>2, <2>3, <2>4, <2>5, <2>6, <2>7, <2>8 DEF WorkerStep, DecodeEnds
<1>10. CASE UNCHANGED poolVars BY <1>10 DEF poolVars
<1> QED
  BY <1>1, <1>2, <1>3, <1>4, <1>5, <1>6, <1>7, <1>8, <1>9, <1>10 DEF PoolNext, MainStep

(* The counter: the loading thread is the only one that raises it, and it  *)
(* does so under a check that the other threads can only make truer.       *)
LEMMA CounterInductive ==
  PoolInv /\ [PoolNext]_poolVars => Admitted' /\ CounterBounded'
<1> SUFFICES ASSUME PoolInv, [PoolNext]_poolVars PROVE Admitted' /\ CounterBounded'
  OBVIOUS
<1>1. /\ size \in [Files -> Nat]
      /\ \A g \in Files : size[g] \in Nat
      /\ inflight \in Int /\ Budget \in Nat
  BY SizesAssumption, BudgetAssumption DEF PoolInv, TypeOK
<1>2. CounterBounded /\ Admitted /\ MainInFile /\ cur \in 1 .. (NFiles + 1)
  BY DEF PoolInv, TypeOK
<1> USE NFilesAssumption DEF Admitted, CounterBounded, Files, MainInFile
<1>3. ASSUME UNCHANGED <<size, inflight>>, main' # "add"
      PROVE  Admitted' /\ CounterBounded'
  BY <1>2, <1>3
<1>4. CASE PollBudget
  <2>1. cur \in Files
    BY <1>2, <1>4 DEF PollBudget
  <2> QED BY <1>1, <1>2, <1>4, <2>1 DEF PollBudget
<1>5. CASE PollEmpty
  BY <1>1, <1>2, <1>5 DEF PollEmpty
<1>6. CASE AddInflight
  <2>1. cur \in Files /\ size[cur] \in Nat
    BY <1>1, <1>2, <1>6 DEF AddInflight
  <2>2. inflight' <= Budget \/ inflight' <= size[cur]
    BY <1>1, <1>2, <1>6, <2>1 DEF AddInflight
  <2> QED BY <1>6, <2>1, <2>2 DEF AddInflight
<1>7. CASE StatFails \/ StatSucceeds \/ AcquireSlot \/ Spawn \/ JoinAll
  BY <1>3, <1>7 DEF StatFails, StatSucceeds, AcquireSlot, Spawn, JoinAll
<1>8. ASSUME NEW f \in Files, LowerInflight(f)
      PROVE  Admitted' /\ CounterBounded'
  <2>1. inflight' <= inflight /\ inflight' \in Int /\ UNCHANGED <<size, main, cur>>
    BY <1>1, <1>8 DEF LowerInflight
  <2>2. main = "add" => cur \in Files
    BY <1>2
  <2> QED BY <1>1, <1>2, <2>1, <2>2
<1>9. ASSUME NEW f \in Files, WorkerStep(f) \/ InfoRecord(f), ~LowerInflight(f)
      PROVE  Admitted' /\ CounterBounded'
  <2>1. UNCHANGED <<size, main, cur, inflight>>
    BY <1>9 DEF WorkerStep, DecodeEnds, OpenFails, OpenAndRead, DecodeSucceeds,
                DecodeFails, FreeBuffer, ReleaseSlot, InfoRecord
  <2> QED BY <1>2, <2>1
<1>10. CASE UNCHANGED poolVars
  BY <1>2, <1>10 DEF poolVars
<1> QED BY <1>4, <1>5, <1>6, <1>7, <1>8, <1>9, <1>10 DEF PoolNext, MainStep

(* The files in flight are finitely many and their sizes add up to a       *)
(* natural number.                                                         *)
LEMMA InFlightFinite ==
  ASSUME TypeOK
  PROVE  /\ IsFiniteSet(InFlight) /\ InFlight \subseteq Files
         /\ \A f \in InFlight : size[f] \in Nat
         /\ SumOver(size, InFlight) \in Nat
<1>1. IsFiniteSet(Files)
  BY NFilesAssumption, FS_Interval DEF Files
<1>2. InFlight \subseteq Files /\ IsFiniteSet(InFlight)
  BY <1>1, FS_Subset DEF InFlight
<1>3. \A f \in InFlight : size[f] \in Nat
  BY <1>2, SizesAssumption DEF TypeOK
<1>4. SumOver(size, InFlight) \in Nat
  BY <1>2, <1>3, SumType
<1> QED BY <1>2, <1>3, <1>4

(* The addition of a file puts it among the files in flight, its            *)
(* subtraction takes it out, and nothing else changes them.                *)
LEMMA MemoryInductive ==
  PoolInv /\ [PoolNext]_poolVars => CounterExact' /\ CounterWithinBudget'
<1> SUFFICES ASSUME PoolInv, [PoolNext]_poolVars PROVE CounterExact' /\ CounterWithinBudget'
  OBVIOUS
<1>1. /\ TypeOK /\ CounterExact /\ CounterWithinBudget /\ MainInFile /\ Admitted
      /\ \A f \in Files : FileHistory(f)
  BY DEF PoolInv
<1>2. /\ IsFiniteSet(InFlight) /\ \A f \in InFlight : size[f] \in Nat
      /\ SumOver(size, InFlight) \in Nat
  BY <1>1, InFlightFinite
<1>3. Budget \in Nat
  BY BudgetAssumption
<1>4. ASSUME UNCHANGED <<size, inflight>>, InFlight' = InFlight
      PROVE  CounterExact' /\ CounterWithinBudget'
  BY <1>1, <1>4 DEF CounterExact, CounterWithinBudget, OneAboveBudget
<1>5. CASE AddInflight
  <2>1. cur \in Files /\ size[cur] \in Nat
    <3>1. cur \in Files
      BY <1>1, <1>5, NFilesAssumption DEF AddInflight, MainInFile, TypeOK, Files
    <3> QED BY <1>1, <3>1, SizesAssumption DEF TypeOK
  <2>2. InFlight' = InFlight \cup {cur} /\ cur \notin InFlight
    <3>1. worker[cur] = "none" /\ main = "add" /\ main' = "acquire" /\ UNCHANGED <<cur, worker>>
      BY <1>1, <1>5, <2>1, NFilesAssumption DEF AddInflight, FileHistory, Files
    <3> QED BY <2>1, <3>1 DEF InFlight
  <2>3. size' = size /\ inflight' = inflight + size[cur]
    BY <1>5 DEF AddInflight
  <2>4. SumOver(size, InFlight') = size[cur] + SumOver(size, InFlight)
    <3>1. IsFiniteSet(InFlight')
      BY <1>2, <2>2, FS_AddElement
    <3>2. InFlight' \ {cur} = InFlight
      BY <2>2
    <3>3. \A f \in InFlight' : size[f] \in Nat
      BY <1>2, <2>1, <2>2
    <3> QED BY <2>2, <3>1, <3>2, <3>3, SumRemove
  <2>5. CounterExact'
    BY <1>1, <1>2, <2>1, <2>3, <2>4 DEF CounterExact
  <2>6. CASE inflight + size[cur] <= Budget
    BY <1>1, <1>2, <2>1, <2>3, <2>4, <2>5, <2>6 DEF CounterExact, CounterWithinBudget
  <2>7. CASE inflight <= 0
    <3>1. \A f \in InFlight : size[f] = 0
      BY <1>1, <1>2, <2>7, SumZero DEF CounterExact
    <3> QED BY <2>2, <2>3, <2>5, <3>1 DEF CounterWithinBudget, OneAboveBudget
  <2> QED BY <1>1, <1>5, <2>6, <2>7 DEF Admitted, AddInflight
<1>6. CASE Spawn
  <2>1. cur \in Files
    BY <1>1, <1>6, NFilesAssumption DEF Spawn, MainInFile, TypeOK, Files
  <2>2. InFlight' = InFlight
    BY <1>1, <1>6, <2>1 DEF Spawn, InFlight, TypeOK
  <2> QED BY <1>4, <1>6, <2>2 DEF Spawn
<1>7. CASE StatFails \/ StatSucceeds \/ PollBudget \/ PollEmpty \/ AcquireSlot \/ JoinAll
  <2>1. InFlight' = InFlight
    BY <1>7 DEF StatFails, StatSucceeds, PollBudget, PollEmpty, AcquireSlot, JoinAll, InFlight
  <2> QED BY <1>4, <1>7, <2>1 DEF StatFails, StatSucceeds, PollBudget, PollEmpty, AcquireSlot, JoinAll
<1>8. ASSUME NEW f \in Files, LowerInflight(f)
      PROVE  CounterExact' /\ CounterWithinBudget'
  <2>1. f \in InFlight /\ size[f] \in Nat
    BY <1>8, <1>2 DEF LowerInflight, Goto, InFlight
  <2>2. ~(main \in {"acquire", "spawn"} /\ f = cur)
    BY <1>1, <1>8, NFilesAssumption DEF LowerInflight, Goto, FileHistory, TypeOK, Files
  <2>3. InFlight' = InFlight \ {f}
    BY <1>1, <1>8, <2>2 DEF LowerInflight, Goto, InFlight, TypeOK
  <2>4. size' = size /\ inflight' = inflight - size[f]
    BY <1>8 DEF LowerInflight
  <2>5. SumOver(size, InFlight) = size[f] + SumOver(size, InFlight \ {f})
    BY <1>2, <2>1, SumRemove
  <2>6. SumOver(size, InFlight \ {f}) \in Nat
    <3>1. IsFiniteSet(InFlight \ {f})
      BY <1>2, FS_Subset
    <3> QED BY <1>2, <3>1, SumType
  <2>7. CounterExact'
    BY <1>1, <1>2, <2>1, <2>3, <2>4, <2>5, <2>6 DEF CounterExact
  <2>8. CASE SumOver(size, InFlight) <= Budget
    BY <1>2, <1>3, <2>1, <2>3, <2>4, <2>5, <2>6, <2>7, <2>8 DEF CounterWithinBudget
  <2>9. CASE OneAboveBudget
    <3>1. PICK h \in InFlight : \A g \in InFlight \ {h} : size[g] = 0
      BY <2>9 DEF OneAboveBudget
    <3>2. CASE h # f
      BY <2>3, <2>4, <2>7, <3>1, <3>2 DEF CounterWithinBudget, OneAboveBudget
    <3>3. CASE h = f
      <4>1. SumOver(size, InFlight \ {f}) = 0
        <5>1. IsFiniteSet(InFlight \ {f})
          BY <1>2, FS_Subset
        <5> QED BY <1>2, <3>1, <3>3, <5>1, SumZero
      <4> QED BY <1>3, <2>3, <2>4, <2>7, <4>1 DEF CounterWithinBudget
    <3> QED BY <3>2, <3>3
  <2> QED BY <1>1, <2>8, <2>9 DEF CounterWithinBudget
<1>9. ASSUME NEW f \in Files, WorkerStep(f) \/ InfoRecord(f), ~LowerInflight(f)
      PROVE  CounterExact' /\ CounterWithinBudget'
  <2>1. UNCHANGED <<size, inflight>>
    BY <1>9 DEF WorkerStep, DecodeEnds, OpenFails, OpenAndRead, DecodeSucceeds,
                DecodeFails, FreeBuffer, ReleaseSlot, InfoRecord
  <2>2. InFlight' = InFlight
    <3> USE <1>1 DEF InFlight, TypeOK, Goto
    <3>1. CASE OpenFails(f)       BY <3>1 DEF OpenFails
    <3>2. CASE OpenAndRead(f)     BY <3>2 DEF OpenAndRead
    <3>3. CASE DecodeSucceeds(f)  BY <3>3 DEF DecodeSucceeds
    <3>4. CASE DecodeFails(f)     BY <3>4 DEF DecodeFails
    <3>5. CASE FreeBuffer(f)      BY <3>5 DEF FreeBuffer
    <3>6. CASE ReleaseSlot(f)     BY <3>6 DEF ReleaseSlot
    <3>7. CASE InfoRecord(f)      BY <3>7 DEF InfoRecord
    <3> QED BY <1>9, <3>1, <3>2, <3>3, <3>4, <3>5, <3>6, <3>7 DEF WorkerStep, DecodeEnds
  <2> QED BY <1>4, <2>1, <2>2
<1>10. CASE UNCHANGED poolVars
  BY <1>4, <1>10 DEF poolVars, InFlight
<1> QED BY <1>5, <1>6, <1>7, <1>8, <1>9, <1>10 DEF PoolNext, MainStep

(* After the join nobody runs: no step of a thread is left.                *)
LEMMA ReturnInductive ==
  PoolInv /\ [PoolNext]_poolVars => NobodyAfterReturn'
<1> SUFFICES ASSUME PoolInv, [PoolNext]_poolVars PROVE NobodyAfterReturn'
  OBVIOUS
<1> USE NFilesAssumption DEF PoolInv, TypeOK, NobodyAfterReturn, Running, WorkerStates
<1>1. CASE MainStep
  BY <1>1 DEF MainStep, StatFails, StatSucceeds, PollBudget, PollEmpty,
              AddInflight, AcquireSlot, Spawn, JoinAll
<1>2. ASSUME NEW f \in Files, WorkerStep(f) \/ InfoRecord(f)
      PROVE  NobodyAfterReturn'
  <2>1. worker[f] \notin {"none", "done"} /\ main' = main
    BY <1>2 DEF WorkerStep, DecodeEnds, OpenFails, OpenAndRead, DecodeSucceeds, DecodeFails,
                FreeBuffer, LowerInflight, ReleaseSlot, InfoRecord, Goto
  <2>2. main # "returned"
    BY <2>1
  <2> QED BY <2>1, <2>2
<1>3. CASE UNCHANGED poolVars
  BY <1>3 DEF poolVars
<1> QED BY <1>1, <1>2, <1>3 DEF PoolNext

-----------------------------------------------------------------------------
LEMMA PoolInitInv == PoolInit => PoolInv
<1> SUFFICES ASSUME PoolInit PROVE PoolInv
  OBVIOUS
<1> USE NFilesAssumption, SlotsAssumption, SizesAssumption, BudgetAssumption DEF PoolInit
<1>1. TypeOK
  BY DEF TypeOK, Files, MainStates, WorkerStates, Outcomes
<1>2. Running = {} /\ Cardinality(Running) = 0
  BY FS_EmptySet DEF Running
<1>3. PermitsConserved
  BY <1>2 DEF PermitsConserved
<1>4. \A f \in Files : FileHistory(f)
  BY DEF FileHistory, Files
<1>5. MainInFile /\ Admitted /\ CounterBounded /\ NobodyAfterReturn
  BY DEF MainInFile, Admitted, CounterBounded, NobodyAfterReturn
<1>6. InFlight = {} /\ SumOver(size, InFlight) = 0
  <2>1. InFlight = {}
    BY DEF InFlight
  <2> QED BY <2>1, FS_EmptySet, SumStep
<1>7. CounterExact /\ CounterWithinBudget
  BY <1>6 DEF CounterExact, CounterWithinBudget
<1> QED BY <1>1, <1>3, <1>4, <1>5, <1>7 DEF PoolInv

(* The counter of the pool, its permits and the history of each file agree *)
(* in every state of parseATTFiles.                                        *)
THEOREM PoolInvariance == PoolSpec => []PoolInv
<1>1. PoolInv /\ [PoolNext]_poolVars => PoolInv'
  BY TypeInductive, PermitsInductive, HistoryInductive, CounterInductive, MemoryInductive,
     ReturnInductive DEF PoolInv
<1> QED BY PoolInitInv, <1>1, PTL DEF PoolSpec

(* parseATTFiles keeps its variables well-typed.                           *)
THEOREM TypeCorrect == PoolSpec => []TypeOK
BY PoolInvariance, PTL DEF PoolInv

(* inflight_bytes is the size of the files in flight, and exceeds          *)
(* MEMORY_BUDGET only while all of it belongs to one file.                 *)
THEOREM BudgetRespected == PoolSpec => []CounterConserved
<1>1. PoolInv => CounterConserved
  <2> SUFFICES ASSUME PoolInv PROVE CounterConserved
    OBVIOUS
  <2>1. TypeOK /\ CounterExact /\ CounterWithinBudget
    BY DEF PoolInv
  <2>2. /\ IsFiniteSet(InFlight) /\ \A f \in InFlight : size[f] \in Nat
        /\ SumOver(size, InFlight) \in Nat
    BY <2>1, InFlightFinite
  <2>3. inflight = TotalSize(InFlight)
    BY <2>1, TotalIsSum DEF CounterExact
  <2>4. ASSUME inflight > Budget PROVE Cardinality({f \in InFlight : size[f] > 0}) = 1
    <3>1. PICK h \in InFlight : \A g \in InFlight \ {h} : size[g] = 0
      BY <2>1, <2>2, <2>4, BudgetAssumption DEF CounterExact, CounterWithinBudget, OneAboveBudget
    <3>2. CASE size[h] > 0
      <4>1. {f \in InFlight : size[f] > 0} = {h}
        BY <3>1, <3>2
      <4> QED BY <4>1, FS_Singleton
    <3>3. CASE ~(size[h] > 0)
      <4>1. \A f \in InFlight : size[f] \in Nat /\ size[f] = 0
        BY <2>2, <3>1, <3>3
      <4>2. inflight = 0
        BY <2>1, <2>2, <4>1, SumZero DEF CounterExact
      <4> QED BY <2>4, <4>2, BudgetAssumption
    <3> QED BY <3>2, <3>3
  <2> QED BY <2>3, <2>4 DEF CounterConserved
<1> QED BY PoolInvariance, <1>1, PTL

(* The bytes held in memory at one time stay within MEMORY_BUDGET, but for *)
(* one file above it that is held alone: the counter the loading thread    *)
(* polls is exactly the memory in flight, in every interleaving.           *)
THEOREM MemoryRespected == PoolSpec => []BuffersWithinBudget
<1>1. PoolInv => BuffersWithinBudget
  <2> SUFFICES ASSUME PoolInv PROVE BuffersWithinBudget
    OBVIOUS
  <2>1. TypeOK /\ CounterWithinBudget
    BY DEF PoolInv
  <2>2. /\ IsFiniteSet(InFlight) /\ \A f \in InFlight : size[f] \in Nat
        /\ SumOver(size, InFlight) \in Nat
    BY <2>1, InFlightFinite
  <2>3. Buffered \subseteq InFlight
    BY DEF Buffered, InFlight
  <2>4. IsFiniteSet(Buffered) /\ SumOver(size, Buffered) \in Nat
    <3>1. IsFiniteSet(Buffered)
      BY <2>2, <2>3, FS_Subset
    <3> QED BY <2>2, <2>3, <3>1, SumType
  <2>5. TotalSize(Buffered) = SumOver(size, Buffered)
    BY TotalIsSum
  <2>6. CASE SumOver(size, InFlight) <= Budget
    <3>1. SumOver(size, Buffered) <= SumOver(size, InFlight)
      BY <2>2, <2>3, SumMonotone
    <3> QED BY <2>2, <2>4, <2>5, <2>6, <3>1, BudgetAssumption DEF BuffersWithinBudget
  <2>7. CASE OneAboveBudget
    <3>1. PICK h \in InFlight : \A g \in InFlight \ {h} : size[g] = 0
      BY <2>7 DEF OneAboveBudget
    <3>2. CASE h \in Buffered /\ size[h] > 0
      <4>1. {f \in Buffered : size[f] > 0} = {h}
        BY <2>3, <3>1, <3>2
      <4> QED BY <4>1, FS_Singleton DEF BuffersWithinBudget
    <3>3. CASE ~(h \in Buffered /\ size[h] > 0)
      <4>1. \A f \in Buffered : size[f] \in Nat /\ size[f] = 0
        BY <2>2, <2>3, <3>1, <3>3
      <4>2. SumOver(size, Buffered) = 0
        BY <2>4, <4>1, SumZero
      <4> QED BY <2>5, <4>2, BudgetAssumption DEF BuffersWithinBudget
    <3> QED BY <3>2, <3>3
  <2> QED BY <2>1, <2>6, <2>7 DEF CounterWithinBudget
<1> QED BY PoolInvariance, <1>1, PTL

(* No path of the decoding threads leaks or forges a semaphore permit.     *)
THEOREM SlotsRespected == PoolSpec => []PermitsConserved
BY PoolInvariance, PTL DEF PoolInv

(* When parseATTFiles returns every thread is joined and every file is     *)
(* decoded or reported.                                                    *)
THEOREM ReturnCorrect == PoolSpec => []ReturnIsComplete
<1>1. PoolInv => ReturnIsComplete
  <2> SUFFICES ASSUME PoolInv, main = "returned" PROVE ReturnIsComplete
    BY DEF ReturnIsComplete
  <2>1. Running = {} /\ cur = NFiles + 1
    BY DEF PoolInv, NobodyAfterReturn
  <2>2. ASSUME NEW f \in Files
        PROVE  outcome[f] # "pending" /\ (outcome[f] = "ok" \/ errors[f] > 0)
    <3>1. f < cur /\ worker[f] \in {"none", "done"}
      BY <2>1, NFilesAssumption DEF Running, Files
    <3>2. FileHistory(f)
      BY DEF PoolInv
    <3> QED BY <3>1, <3>2 DEF FileHistory
  <2> QED BY <2>1, <2>2 DEF ReturnIsComplete
<1> QED BY PoolInvariance, <1>1, PTL

-----------------------------------------------------------------------------
(* The callback: isa_mutex and the test of arch_offset together protect    *)
(* what the unlocked reads of handleWave rely on.                          *)
(*                                                                         *)
Calling(th)   == pc[th] \in {"bysymbol", "byrow", "lookup"}
Searching(th) == pc[th] \in {"bysymbol", "byrow"}

(* Inside isaCallback a thread owns the mutex.                             *)
Locked == \A th \in Threads : Calling(th) => isa_mutex = th

(* The offset is searched for only before the first answer, and an answer  *)
(* needs an offset.                                                        *)
SearchedFirst == /\ \A th \in Threads : Searching(th) => ~answered
                 /\ answered => arch_offset # 0

(* What was answered has a row under the offset of this moment.            *)
AnsweredHaveRows ==
    \A th \in Threads : \A a \in got[th] : answered /\ a + arch_offset \in isa_cache

RecordsRebased ==
    \A r \in records : answered /\ \E a \in Pcs : r = <<a, a + arch_offset>>

(* Once the dispatches are built no thread decodes.                        *)
EntryRebased == entry # -1 => /\ entry = 0 + arch_offset
                              /\ \A th \in Threads : pc[th] = "idle"

(* While the first trace is loaded and a thread walks the symbols, the     *)
(* offset is the last address visited, which is the highest of them.       *)
WalksSymbols ==
    LET visited == trace.symbols \ todo IN
    /\ isa_cache = trace.seeded
    /\ todo \subseteq trace.symbols
    /\ \A a \in visited : \A b \in todo : a <= b
    /\ \/ visited = {} /\ arch_offset = 0
       \/ arch_offset \in visited /\ \A a \in visited : a <= arch_offset

(* While it walks the rows there was no symbol but at 0, and the offset is *)
(* the lowest row visited.                                                 *)
WalksRows ==
    LET visited == trace.seeded \ todo IN
    /\ isa_cache = trace.seeded /\ trace.seeded # {}
    /\ todo \subseteq trace.seeded
    /\ \A a \in trace.symbols : a = 0
    /\ \/ visited = {} /\ arch_offset = Int64Max
       \/ arch_offset \in visited /\ \A a \in visited : arch_offset <= a

(* While it does neither the offset is that of the trace or still to be    *)
(* found, with the rows as they were seeded.                               *)
Found == IF arch_offset = 0 THEN isa_cache = trace.seeded ELSE arch_offset = OffsetOf(trace)

FirstOffset ==
    loads = 1 => /\ \A th \in Threads : pc[th] = "bysymbol" => WalksSymbols
                 /\ \A th \in Threads : pc[th] = "byrow" => WalksRows
                 /\ (\A th \in Threads : ~Searching(th)) => Found

Shape == /\ trace \in Traces
         /\ loads \in Nat \ {0}
         /\ arch_offset \in Nat
         /\ isa_cache \subseteq Nat
         /\ todo \subseteq Nat
         /\ pc \in [Threads -> ThreadStates]
         /\ request \in [Threads -> Pcs]
         /\ got \in [Threads -> SUBSET Pcs]

CallbackInv == Shape /\ Locked /\ SearchedFirst /\ AnsweredHaveRows /\ InstructionsHaveRows
        /\ RecordsRebased /\ EntryRebased /\ FirstOffset

-----------------------------------------------------------------------------
(* What is assumed of the traces, one by one.                              *)
LEMMA TraceShape ==
    ASSUME Shape
    PROVE  /\ trace.symbols \subseteq Nat /\ trace.seeded \subseteq Nat
           /\ \A a \in trace.seeded : a # 0 /\ a < Int64Max
           /\ Int64Max \in Nat
<1>1. trace \in [symbols : SUBSET Nat, code : SUBSET Nat, seeded : SUBSET (Nat \ {0})]
  BY TracesAssumption DEF Shape
<1> QED BY <1>1, Int64MaxAssumption DEF Shape

LEMMA CallbackInitInv == Init => CallbackInv
  BY TracesAssumption
     DEF Init, CallbackInv, Shape, Locked, SearchedFirst, AnsweredHaveRows, InstructionsHaveRows,
         RecordsRebased, EntryRebased, FirstOffset, Found, Calling, Searching, ThreadStates

(* Every step keeps the shape of the state.                                *)
LEMMA ShapeInductive == Shape /\ [Next]_vars => Shape'
<1> SUFFICES ASSUME Shape, [Next]_vars PROVE Shape'
  OBVIOUS
<1>t. /\ \A s \in Traces : s.symbols \subseteq Nat /\ s.seeded \subseteq Nat /\ s.code \subseteq Nat
      /\ Int64Max \in Nat /\ Pcs \subseteq Nat
  BY TracesAssumption, Int64MaxAssumption, PcsAssumption
<1>1. ASSUME NEW th \in Threads, NEW a \in Pcs, Enter(th, a) PROVE Shape'
  BY <1>1, <1>t DEF Enter, StartCallback, Shape, ThreadStates
<1>2. ASSUME NEW th \in Threads, NextSymbol(th) PROVE Shape'
  BY <1>2, MinExists DEF NextSymbol, Shape
<1>3. ASSUME NEW th \in Threads, EndSymbols(th) PROVE Shape'
  BY <1>3, <1>t DEF EndSymbols, Shape, ThreadStates
<1>4. ASSUME NEW th \in Threads, NextRow(th) PROVE Shape'
  <2>1. CASE todo = {} BY <2>1, <1>4 DEF NextRow, Shape, ThreadStates
  <2>2. CASE todo # {}
    <3>1. Min(todo) \in Nat BY <2>2, MinExists DEF Shape
    <3>2. Min({arch_offset, Min(todo)}) \in Nat BY <3>1, MinExists DEF Shape
    <3> QED BY <2>2, <3>2, <1>4 DEF NextRow, Shape, ThreadStates
  <2> QED BY <2>1, <2>2
<1>5. ASSUME NEW th \in Threads, Answer(th) PROVE Shape'
  BY <1>5, <1>t DEF Answer, Unlock, Address, Shape, ThreadStates
<1>6. ASSUME NEW th \in Threads, AskForLargerBuffer(th) PROVE Shape'
  BY <1>6, <1>t DEF AskForLargerBuffer, Unlock, Address, Shape, ThreadStates
<1>7. ASSUME NEW th \in Threads, Refuse(th) PROVE Shape'
  BY <1>7 DEF Refuse, Unlock, Shape, ThreadStates
<1>8. ASSUME NEW th \in Threads, BeginWave(th) PROVE Shape'
  BY <1>8 DEF BeginWave, Shape, ThreadStates
<1>9. ASSUME NEW th \in Threads, NEW a \in Pcs, CopyInstruction(th, a) PROVE Shape'
  BY <1>9 DEF CopyInstruction, Shape, ThreadStates
<1>10. CASE BuildDispatches BY <1>10 DEF BuildDispatches, Shape
<1>11. ASSUME NEW t \in Traces, LoadTrace(t) PROVE Shape'
  BY <1>11, <1>t DEF LoadTrace, FreshEmitter, Shape, ThreadStates
<1>12. CASE UNCHANGED vars BY <1>12 DEF vars, Shape
<1> QED BY <1>1, <1>2, <1>3, <1>4, <1>5, <1>6, <1>7, <1>8, <1>9, <1>10, <1>11, <1>12
         DEF Next, CallbackStep, WaveStep

-----------------------------------------------------------------------------
(* The steps of a search for the offset: they may move it, but nothing     *)
(* was answered yet, so nothing depends on it.                             *)
LEMMA SearchKeeps ==
    ASSUME CallbackInv, NEW th \in Threads, NextSymbol(th) \/ EndSymbols(th) \/ NextRow(th)
    PROVE  (Locked /\ SearchedFirst /\ AnsweredHaveRows /\ InstructionsHaveRows
            /\ RecordsRebased /\ EntryRebased)'
<1>1. /\ Searching(th) /\ ~answered /\ isa_mutex = th /\ entry = -1
      /\ \A u \in Threads : got[u] = {}
      /\ records = {}
  BY DEF CallbackInv, NextSymbol, EndSymbols, NextRow, Searching, Calling, Locked, SearchedFirst,
         AnsweredHaveRows, RecordsRebased, EntryRebased, Shape, ThreadStates
<1>2. /\ UNCHANGED <<answered, isa_mutex, got, records, entry, isa_cache>>
      /\ \A u \in Threads : u # th => pc'[u] = pc[u]
      /\ pc'[th] \in {"bysymbol", "byrow", "lookup"}
  BY DEF CallbackInv, NextSymbol, EndSymbols, NextRow, Shape
<1>3. Locked' BY <1>1, <1>2 DEF CallbackInv, Locked, Calling
<1>4. (SearchedFirst /\ AnsweredHaveRows /\ InstructionsHaveRows
       /\ RecordsRebased /\ EntryRebased)'
  BY <1>1, <1>2 DEF SearchedFirst, AnsweredHaveRows, InstructionsHaveRows, RecordsRebased,
                    EntryRebased
<1> QED BY <1>3, <1>4

(* The steps that answer or refuse a request, and leave the mutex.         *)
LEMMA LookupKeeps ==
    ASSUME CallbackInv, NEW th \in Threads, Answer(th) \/ AskForLargerBuffer(th) \/ Refuse(th)
    PROVE  (Locked /\ SearchedFirst /\ AnsweredHaveRows /\ InstructionsHaveRows
            /\ RecordsRebased /\ EntryRebased)'
<1>1. /\ pc[th] = "lookup" /\ entry = -1
      /\ \A u \in Threads : u # th => ~Calling(u)
  BY DEF CallbackInv, Answer, AskForLargerBuffer, Refuse, Locked, Calling, EntryRebased
<1>2. /\ UNCHANGED <<arch_offset, records, entry>>
      /\ isa_cache \subseteq isa_cache'
      /\ answered => answered'
      /\ \A u \in Threads : u # th => pc'[u] = pc[u] /\ got'[u] = got[u]
      /\ pc'[th] = "idle"
  BY DEF CallbackInv, Answer, AskForLargerBuffer, Refuse, Unlock, Shape
<1>3. Locked' BY <1>1, <1>2 DEF Locked, Calling
<1>4. SearchedFirst'
  <2>1. \A u \in Threads : ~Searching(u)' BY <1>1, <1>2 DEF Calling, Searching
  <2>2. answered' => arch_offset # 0
    BY DEF CallbackInv, SearchedFirst, Answer, AskForLargerBuffer, Refuse
  <2> QED BY <1>2, <2>1, <2>2 DEF SearchedFirst
<1>5. ASSUME NEW a \in got'[th] PROVE answered' /\ a + arch_offset \in isa_cache'
  BY <1>5, <1>2 DEF CallbackInv, AnsweredHaveRows, Answer, AskForLargerBuffer, Refuse, Address, Shape
<1>6. AnsweredHaveRows' BY <1>2, <1>5 DEF CallbackInv, AnsweredHaveRows
<1>7. (InstructionsHaveRows /\ RecordsRebased /\ EntryRebased)'
  BY <1>1, <1>2 DEF CallbackInv, InstructionsHaveRows, RecordsRebased, EntryRebased
<1> QED BY <1>3, <1>4, <1>6, <1>7

LEMMA EnterKeeps ==
    ASSUME CallbackInv, NEW th \in Threads, NEW a \in Pcs, Enter(th, a)
    PROVE  (Locked /\ SearchedFirst /\ AnsweredHaveRows /\ InstructionsHaveRows
            /\ RecordsRebased /\ EntryRebased)'
<1>1. /\ UNCHANGED <<arch_offset, isa_cache, got, records, answered, entry>>
      /\ entry = -1 /\ isa_mutex = NoThread /\ isa_mutex' = th
      /\ \A u \in Threads : u # th => pc'[u] = pc[u]
      /\ Searching(th)' => arch_offset = 0
  BY DEF CallbackInv, Enter, StartCallback, Searching, Shape
<1>2. \A u \in Threads : ~Calling(u)
  BY <1>1, NoThreadAssumption DEF CallbackInv, Locked
<1>3. Locked' BY <1>1, <1>2 DEF Locked, Calling
<1>4. SearchedFirst' BY <1>1, <1>2 DEF CallbackInv, SearchedFirst, Searching, Calling
<1>5. (AnsweredHaveRows /\ InstructionsHaveRows /\ RecordsRebased /\ EntryRebased)'
  BY <1>1 DEF CallbackInv, AnsweredHaveRows, InstructionsHaveRows, RecordsRebased, EntryRebased
<1> QED BY <1>3, <1>4, <1>5

(* The copy of a wave's instructions, without the mutex.                   *)
LEMMA WaveKeeps ==
    ASSUME CallbackInv, NEW th \in Threads,
           BeginWave(th) \/ \E a \in Pcs : CopyInstruction(th, a)
    PROVE  (Locked /\ SearchedFirst /\ AnsweredHaveRows /\ InstructionsHaveRows
            /\ RecordsRebased /\ EntryRebased)'
<1>1. /\ UNCHANGED <<arch_offset, isa_cache, isa_mutex, answered, entry>>
      /\ ~Calling(th) /\ entry = -1
      /\ \A u \in Threads : got'[u] \subseteq got[u]
      /\ \A u \in Threads : u # th => pc'[u] = pc[u]
      /\ pc'[th] \in {"idle", "emit"}
  BY DEF CallbackInv, BeginWave, CopyInstruction, Calling, EntryRebased, Shape, ThreadStates
<1>2. \A r \in records' : \/ r \in records
                          \/ \E a \in got[th] : r = <<a, a + arch_offset>>
  BY DEF BeginWave, CopyInstruction
<1>3. (Locked /\ SearchedFirst)'
  BY <1>1 DEF CallbackInv, Locked, SearchedFirst, Calling, Searching
<1>4. (AnsweredHaveRows /\ EntryRebased)'
  BY <1>1 DEF CallbackInv, AnsweredHaveRows, EntryRebased
<1>5. (InstructionsHaveRows /\ RecordsRebased)'
  BY <1>1, <1>2 DEF CallbackInv, InstructionsHaveRows, RecordsRebased, AnsweredHaveRows, Shape
<1> QED BY <1>3, <1>4, <1>5

-----------------------------------------------------------------------------
(* The search of the first load: each step of the two loops visits the     *)
(* lowest address left.                                                    *)
LEMMA SymbolStep ==
    ASSUME Shape, NEW th \in Threads, WalksSymbols, NextSymbol(th)
    PROVE  WalksSymbols'
<1> DEFINE m == Min(todo)
<1>1. /\ todo # {} /\ todo' = todo \ {m} /\ arch_offset' = m
      /\ UNCHANGED <<trace, isa_cache>>
  BY DEF NextSymbol
<1>2. m \in todo /\ \A b \in todo : m <= b
  BY <1>1, MinExists DEF Shape
<1>3. trace.symbols \ todo' = (trace.symbols \ todo) \cup {m}
  BY <1>1, <1>2 DEF WalksSymbols
<1> HIDE DEF m
<1>4. todo \subseteq Nat /\ trace.symbols \subseteq Nat
  BY TraceShape DEF Shape
<1> QED BY <1>1, <1>2, <1>3, <1>4 DEF WalksSymbols

LEMMA SymbolsEnd ==
    ASSUME Shape, NEW th \in Threads, WalksSymbols, EndSymbols(th)
    PROVE  /\ pc'[th] = "byrow" => WalksRows'
           /\ pc'[th] # "byrow" => Found'
<1>1. todo = {} /\ UNCHANGED <<trace, isa_cache>> /\ pc \in [Threads -> ThreadStates]
  BY DEF EndSymbols, Shape
<1>2. /\ trace.symbols \subseteq Nat /\ trace.seeded \subseteq Nat /\ isa_cache = trace.seeded
      /\ \A a \in trace.symbols : a <= arch_offset
      /\ arch_offset = 0 \/ arch_offset \in trace.symbols
  BY <1>1, TraceShape DEF WalksSymbols
<1>3. CASE arch_offset = 0 /\ isa_cache # {}
  BY <1>1, <1>2, <1>3 DEF EndSymbols, WalksRows
<1>4. CASE arch_offset # 0
  <2>1. Max(trace.symbols) = arch_offset /\ trace.symbols # {}
    BY <1>2, <1>4, MaxIs
  <2>2. OffsetOf(trace) = arch_offset
    BY <1>4, <2>1 DEF OffsetOf
  <2> QED BY <1>1, <1>4, <2>2 DEF EndSymbols, Found
<1>5. CASE arch_offset = 0 /\ isa_cache = {}
  BY <1>1, <1>2, <1>5 DEF EndSymbols, Found
<1> QED BY <1>3, <1>4, <1>5

LEMMA RowStep ==
    ASSUME Shape, NEW th \in Threads, WalksRows, NextRow(th)
    PROVE  IF todo = {} THEN Found' /\ pc'[th] = "lookup" ELSE WalksRows' /\ UNCHANGED pc
<1>1. /\ trace.symbols \subseteq Nat /\ trace.seeded \subseteq Nat /\ trace.seeded # {}
      /\ \A a \in trace.seeded : a # 0 /\ a < Int64Max
      /\ Int64Max \in Nat /\ arch_offset \in Nat /\ todo \subseteq Nat
      /\ \A a \in trace.symbols : a = 0
      /\ UNCHANGED <<trace, isa_cache>>
  BY TraceShape DEF Shape, WalksRows, NextRow
<1>2. CASE todo = {}
  <2>1. arch_offset \in trace.seeded /\ \A a \in trace.seeded : arch_offset <= a
    BY <1>1, <1>2 DEF WalksRows
  <2>2. Min(trace.seeded) = arch_offset
    BY <1>1, <2>1, MinIs
  <2>3. trace.symbols # {} => Max(trace.symbols) = 0
    <3>1. SUFFICES ASSUME trace.symbols # {} PROVE Max(trace.symbols) = 0
      OBVIOUS
    <3>2. 0 \in trace.symbols
      BY <1>1, <3>1
    <3> QED BY <1>1, <3>2, MaxIs
  <2>4. OffsetOf(trace) = arch_offset
    BY <1>1, <2>2, <2>3 DEF OffsetOf
  <2> QED BY <1>1, <1>2, <2>1, <2>4 DEF NextRow, Found, Shape
<1>3. CASE todo # {}
  <2> DEFINE m == Min(todo)
  <2>1. m \in todo /\ \A b \in todo : m <= b
    BY <1>1, <1>3, MinExists
  <2>2. todo' = todo \ {m} /\ arch_offset' = Min({arch_offset, m}) /\ UNCHANGED pc
    BY <1>3 DEF NextRow
  <2> HIDE DEF m
  <2>3. m \in trace.seeded /\ m \in Nat /\ trace.seeded \ todo' = (trace.seeded \ todo) \cup {m}
    BY <1>1, <2>1, <2>2 DEF WalksRows
  <2>4. arch_offset' = IF arch_offset <= m THEN arch_offset ELSE m
    BY <1>1, <2>2, <2>3, MinOfTwo
  <2> DEFINE visited == trace.seeded \ todo
  <2>5. arch_offset' \in visited \cup {m} /\ \A a \in visited \cup {m} : arch_offset' <= a
    <3>1. visited \subseteq Nat
      BY <1>1
    <3>2. CASE visited = {} /\ arch_offset = Int64Max
      BY <1>1, <2>3, <2>4, <3>2
    <3>3. CASE arch_offset \in visited /\ \A a \in visited : arch_offset <= a
      BY <1>1, <2>3, <2>4, <3>1, <3>3
    <3> QED BY <3>2, <3>3 DEF WalksRows
  <2> QED BY <1>1, <1>3, <2>2, <2>3, <2>5 DEF WalksRows
<1> QED BY <1>2, <1>3

(* FirstOffset survives every step: only the thread in the mutex walks,    *)
(* and rows are added only once the offset is found.                       *)
LEMMA FirstOffsetInductive ==
    ASSUME CallbackInv, [Next]_vars
    PROVE  FirstOffset'
<1> SUFFICES ASSUME loads' = 1 PROVE FirstOffset'
  BY DEF FirstOffset
<1>1. loads = 1 /\ UNCHANGED <<trace, loads>>
  <2>1. \A t \in Traces : ~LoadTrace(t)
    BY DEF LoadTrace, CallbackInv, Shape
  <2> QED BY <2>1 DEF Next, CallbackStep, WaveStep, Enter, StartCallback, NextSymbol,
              EndSymbols, NextRow, Answer, AskForLargerBuffer, Refuse, BeginWave,
              CopyInstruction, BuildDispatches, vars
<1>2. /\ Shape /\ Locked /\ EntryRebased
      /\ \A th \in Threads : pc[th] = "bysymbol" => WalksSymbols
      /\ \A th \in Threads : pc[th] = "byrow" => WalksRows
      /\ (\A th \in Threads : ~Searching(th)) => Found
  BY <1>1 DEF CallbackInv, FirstOffset
<1>3. ASSUME NEW th \in Threads, Calling(th)
      PROVE  \A u \in Threads : u # th => ~Searching(u)
  BY <1>2, <1>3 DEF Locked, Calling, Searching
<1>4. ASSUME NEW th \in Threads, NEW a \in Pcs, Enter(th, a) PROVE FirstOffset'
  <2>1. \A u \in Threads : ~Searching(u)
    BY <1>2, <1>4, NoThreadAssumption DEF Enter, Locked, Calling, Searching
  <2>2. Found
    BY <1>2, <2>1
  <2>3. /\ UNCHANGED <<arch_offset, isa_cache>>
        /\ \A u \in Threads : u # th => pc'[u] = pc[u]
        /\ pc'[th] = "lookup" \/ (pc'[th] = "bysymbol" /\ todo' = trace.symbols /\ arch_offset = 0)
    BY <1>2, <1>4 DEF Enter, StartCallback, Shape
  <2>4. (\A u \in Threads : ~Searching(u)') => Found'
    BY <1>1, <2>2, <2>3 DEF Found
  <2>5. pc'[th] = "bysymbol" => WalksSymbols'
    BY <1>1, <2>2, <2>3 DEF Found, WalksSymbols
  <2> QED BY <2>1, <2>3, <2>4, <2>5 DEF FirstOffset, Searching
<1>5. ASSUME NEW th \in Threads, NextSymbol(th) PROVE FirstOffset'
  <2>1. pc[th] = "bysymbol" /\ UNCHANGED pc /\ Calling(th)
    BY <1>5 DEF NextSymbol, Calling
  <2>2. WalksSymbols'
    BY <1>2, <1>5, <2>1, SymbolStep
  <2> QED BY <1>3, <2>1, <2>2 DEF FirstOffset, Searching
<1>6. ASSUME NEW th \in Threads, EndSymbols(th) PROVE FirstOffset'
  <2>1. pc[th] = "bysymbol" /\ Calling(th)
    BY <1>6 DEF EndSymbols, Calling
  <2>2. /\ pc'[th] = "byrow" => WalksRows'
        /\ pc'[th] # "byrow" => Found'
    BY <1>2, <1>6, <2>1, SymbolsEnd
  <2>3. (\A u \in Threads : u # th => pc'[u] = pc[u]) /\ pc'[th] # "bysymbol"
    BY <1>2, <1>6 DEF EndSymbols, Shape
  <2> QED BY <1>3, <2>1, <2>2, <2>3 DEF FirstOffset, Searching
<1>7. ASSUME NEW th \in Threads, NextRow(th) PROVE FirstOffset'
  <2>1. pc[th] = "byrow" /\ Calling(th)
    BY <1>7 DEF NextRow, Calling
  <2>2. IF todo = {} THEN Found' /\ pc'[th] = "lookup" ELSE WalksRows' /\ UNCHANGED pc
    BY <1>2, <1>7, <2>1, RowStep
  <2>3. \A u \in Threads : u # th => pc'[u] = pc[u]
    BY <1>2, <1>7 DEF NextRow, Shape
  <2> QED BY <1>3, <2>1, <2>2, <2>3 DEF FirstOffset, Searching
<1>8. ASSUME NEW th \in Threads, Answer(th) \/ AskForLargerBuffer(th) \/ Refuse(th)
      PROVE  FirstOffset'
  <2>1. pc[th] = "lookup" /\ Calling(th)
    BY <1>8 DEF Answer, AskForLargerBuffer, Refuse, Calling
  <2>2. Found /\ \A u \in Threads : ~Searching(u)
    BY <1>2, <1>3, <2>1 DEF Searching
  <2>3. /\ UNCHANGED arch_offset
        /\ arch_offset = 0 => isa_cache' = isa_cache
        /\ \A u \in Threads : u # th => pc'[u] = pc[u]
        /\ pc'[th] = "idle"
    BY <1>2, <1>8 DEF Answer, AskForLargerBuffer, Refuse, Unlock, Shape
  <2> QED BY <1>1, <2>2, <2>3 DEF FirstOffset, Found, Searching
<1>9. ASSUME NEW th \in Threads, WaveStep(th) PROVE FirstOffset'
  <2>1. /\ UNCHANGED <<arch_offset, isa_cache, todo>>
        /\ \A u \in Threads : u # th => pc'[u] = pc[u]
        /\ ~Searching(th) /\ pc'[th] \in {"idle", "emit"}
    BY <1>2, <1>9 DEF WaveStep, BeginWave, CopyInstruction, Searching, Shape, ThreadStates
  <2> QED BY <1>1, <1>2, <2>1 DEF FirstOffset, WalksSymbols, WalksRows, Found, Searching
<1>10. CASE BuildDispatches \/ UNCHANGED vars
  <2>1. UNCHANGED <<arch_offset, isa_cache, todo, pc>>
    BY <1>10 DEF BuildDispatches, vars
  <2> QED BY <1>1, <1>2, <2>1 DEF FirstOffset, WalksSymbols, WalksRows, Found, Searching
<1>11. \A t \in Traces : ~LoadTrace(t)
  BY <1>1 DEF LoadTrace, CallbackInv, Shape
<1> QED BY <1>4, <1>5, <1>6, <1>7, <1>8, <1>9, <1>10, <1>11 DEF Next, CallbackStep

LEMMA CallbackNextInv == CallbackInv /\ [Next]_vars => CallbackInv'
<1> SUFFICES ASSUME CallbackInv, [Next]_vars PROVE CallbackInv'
  OBVIOUS
<1>0. Shape' /\ FirstOffset'
  BY ShapeInductive, FirstOffsetInductive DEF CallbackInv
<1> SUFFICES (Locked /\ SearchedFirst /\ AnsweredHaveRows /\ InstructionsHaveRows
               /\ RecordsRebased /\ EntryRebased)'
  BY <1>0 DEF CallbackInv
<1>1. CASE \E th \in Threads : CallbackStep(th) \/ WaveStep(th)
  BY <1>1, EnterKeeps, SearchKeeps, LookupKeeps, WaveKeeps DEF CallbackStep, WaveStep
<1>2. CASE BuildDispatches
  BY <1>2 DEF BuildDispatches, CallbackInv, Locked, SearchedFirst, AnsweredHaveRows,
              InstructionsHaveRows, RecordsRebased, EntryRebased, Calling, Searching
<1>3. CASE \E t \in Traces : LoadTrace(t)
  BY <1>3 DEF LoadTrace, FreshEmitter, CallbackInv, Locked, SearchedFirst, AnsweredHaveRows,
              InstructionsHaveRows, RecordsRebased, EntryRebased, Calling, Searching
<1>4. CASE UNCHANGED vars
  BY <1>4 DEF vars, CallbackInv, Locked, SearchedFirst, AnsweredHaveRows,
              InstructionsHaveRows, RecordsRebased, EntryRebased, Calling, Searching
<1> QED BY <1>1, <1>2, <1>3, <1>4 DEF Next

(* The invariant of the callback's protocol.                               *)
THEOREM CallbackInvariance == Spec => []CallbackInv
  BY CallbackInitInv, CallbackNextInv, PTL DEF Spec

(* Every instruction a wave record holds has its row in the ISA cache.     *)
THEOREM RowsComplete == Spec => []InstructionsHaveRows
<1>1. CallbackInv => InstructionsHaveRows BY DEF CallbackInv
<1> QED BY <1>1, CallbackInvariance, PTL

(* Waves and dispatches of one load are rebased by the same amount.        *)
THEOREM DispatchesRebased == Spec => []DispatchAgreesWithWaves
<1>1. CallbackInv => DispatchAgreesWithWaves
  BY PcsAssumption DEF CallbackInv, Shape, RecordsRebased, EntryRebased, DispatchAgreesWithWaves
<1> QED BY <1>1, CallbackInvariance, PTL

(* Every instruction of the first trace is rebased by the offset of that   *)
(* trace: the highest symbol, else the lowest seeded row, never an address *)
(* at which one of the loops stood.                                        *)
THEOREM FirstRebased == Spec => []FirstTraceRebased
<1>1. CallbackInv => FirstTraceRebased
  <2> SUFFICES ASSUME CallbackInv, loads = 1, NEW r \in records
               PROVE  r[2] = r[1] + OffsetOf(trace)
    BY DEF FirstTraceRebased, RebasedToLoadedTrace
  <2>1. answered /\ \E a \in Pcs : r = <<a, a + arch_offset>>
    BY DEF CallbackInv, RecordsRebased
  <2>2. arch_offset # 0 /\ \A th \in Threads : ~Searching(th)
    BY <2>1 DEF CallbackInv, SearchedFirst
  <2>3. arch_offset = OffsetOf(trace)
    BY <2>2 DEF CallbackInv, FirstOffset, Found
  <2> QED BY <2>1, <2>3
<1> QED BY <1>1, CallbackInvariance, PTL

(* After the first answer of a load the offset does not move.              *)
THEOREM OffsetStays == Spec => OffsetSettled
<1>1. CallbackInv /\ [Next]_vars => [answered /\ loads' = loads => arch_offset' = arch_offset]_vars
  <2> SUFFICES ASSUME CallbackInv, [Next]_vars, answered
                PROVE  arch_offset' = arch_offset
    OBVIOUS
  <2>1. \A th \in Threads : ~Searching(th)
    BY DEF CallbackInv, SearchedFirst
  <2> QED BY <2>1 DEF Next, CallbackStep, WaveStep, Enter, StartCallback, NextSymbol,
              EndSymbols, NextRow, Answer, AskForLargerBuffer, Refuse, BeginWave,
              CopyInstruction, BuildDispatches, LoadTrace, Searching, vars
<1> QED BY <1>1, CallbackInvariance, PTL DEF Spec, OffsetSettled

-----------------------------------------------------------------------------
(* The load session.                                                       *)
Content == [input : Picked \cup {None}, spm : Paths \cup {None}, trace : BOOLEAN,
            shaderdata : BOOLEAN, asked : BOOLEAN]
Building == {"attach", "wire", "select", "plot", "validate"}
Positions == {"idle", "choose", "check", "emit", "terminated"} \cup Building
Loading == gui \in {"choose", "check", "emit"} \cup Building

SessionTypeOK ==
    /\ gui \in Positions
    /\ mode \in {"Reload", "Replace"}
    /\ input \in Picked \cup {None} /\ asked \in BOOLEAN
    /\ saved \in Kept \cup {None}
    /\ result \in {"none", "failed", "attached", "skipped", "loaded"}
    /\ made \in 0 .. MaxStores
    /\ contents \in [1 .. MaxStores -> Content]
    /\ data_store \in 0 .. made /\ shaderdata_manager \in 0 .. made
    /\ saved # None => saved.data_store \in 0 .. made /\ saved.shaderdata_manager \in 0 .. made
    /\ current_path \in Paths \cup {None} /\ ui_dir \in Paths \cup {None}
    /\ current_spm_path \in Paths \cup {None} /\ lastPath \in Keys \cup {None}
    /\ main_wave \in 0 .. made /\ caches \subseteq 1 .. made /\ seSelector \in 0 .. made

(* What is kept for a restore: that of a Replace load, until it ends.      *)
KeptByReplace ==
    /\ gui = "idle" => saved = None
    /\ Loading => /\ input # None
                  /\ mode = "Replace" <=> saved # None
                  /\ mode = "Replace" => input.kind # "spm" /\ current_spm_path = None
    /\ gui \in {"choose", "check", "emit"} /\ saved # None => data_store = 0
    /\ gui \in {"choose", "check"} /\ saved # None => lastPath = None

(* The store being built is none that is kept, and holds the input.        *)
BuildsInput ==
    gui \in Building =>
        /\ data_store # 0
        /\ contents[data_store].input = input
        /\ saved # None => data_store # saved.data_store

ManagerFollows ==
    /\ saved # None => saved.shaderdata_manager \in {0, saved.data_store}
    /\ gui \in {"choose", "check"} =>
          shaderdata_manager \in IF saved = None THEN {0, data_store} ELSE {0, saved.data_store}
    /\ gui \in {"emit", "attach", "wire"} => shaderdata_manager = 0
    /\ gui \in {"idle", "terminated", "select", "plot", "validate"} =>
          shaderdata_manager \in {0, data_store}

Describes(path, dir, spm, store) ==
    store # 0 /\ contents[store].input # None =>
        /\ path = contents[store].input.path
        /\ dir = path
        /\ contents[store].spm # None => spm = contents[store].spm

(* The paths kept describe the store kept; those in use describe the store *)
(* that is open until the load begins, and then the input.                 *)
PathsFollow ==
    /\ saved # None => Describes(saved.current_path, saved.ui_dir, saved.current_spm_path,
                                 saved.data_store)
    /\ gui \in {"idle", "choose", "check"} /\ saved = None =>
          Describes(current_path, ui_dir, current_spm_path, data_store)
    /\ gui = "emit" \/ gui \in Building => current_path = input.path /\ ui_dir = input.path
    /\ gui = "attach" => contents[data_store].spm \in {None, current_spm_path}
    /\ gui = "attach" /\ input.kind # "spm" => contents[data_store].spm = None
    /\ gui \in Building /\ mode = "Replace" => contents[data_store].spm = None
    /\ gui \in Building /\ contents[data_store].spm # None =>
          current_spm_path = contents[data_store].spm

(* The caches are emptied before the store is made, and filled from it.    *)
CachesFollow ==
    /\ gui \in {"emit", "attach", "wire", "select"} => main_wave = 0 /\ caches = {}
    /\ gui \in {"plot", "validate"} =>
          main_wave \in {0, data_store} /\ caches \subseteq {data_store} /\ seSelector = data_store
    /\ gui \in {"select", "plot", "validate"} => lastPath = Key(input)

SessionInv ==
    /\ SessionTypeOK
    /\ KeptByReplace
    /\ BuildsInput
    /\ ManagerFollows
    /\ PathsFollow
    /\ CachesFollow
    /\ LoadedEverywhere
    /\ SpmNotCarriedOver

-----------------------------------------------------------------------------
LEMMA SessionStarts == SessionInit => SessionInv
<1> SUFFICES ASSUME SessionInit PROVE SessionInv
  OBVIOUS
<1> USE DEF SessionInit
<1>1. Nothing \in Content BY DEF Nothing, Content
<1>2. SessionTypeOK
  <2>1. contents \in [1 .. MaxStores -> Content] BY <1>1
  <2>2. made \in 0 .. MaxStores /\ 0 \in 0 .. made BY MaxStoresAssumption
  <2>3. /\ gui \in Positions /\ mode \in {"Reload", "Replace"}
        /\ result \in {"none", "failed", "attached", "skipped", "loaded"}
    BY DEF Positions, Building
  <2>4. /\ data_store \in 0 .. made /\ shaderdata_manager \in 0 .. made
        /\ main_wave \in 0 .. made /\ seSelector \in 0 .. made /\ caches \subseteq 1 .. made
    BY <2>2
  <2>. QED BY <2>1, <2>2, <2>3, <2>4 DEF SessionTypeOK
<1>3. KeptByReplace BY DEF KeptByReplace, Loading, Building
<1>4. BuildsInput BY DEF BuildsInput, Building
<1>5. ManagerFollows BY DEF ManagerFollows
<1>6. PathsFollow BY DEF PathsFollow, Describes, Building
<1>7. CachesFollow BY DEF CachesFollow
<1>8. LoadedEverywhere /\ SpmNotCarriedOver BY DEF LoadedEverywhere, SpmNotCarriedOver
<1>. QED BY <1>2, <1>3, <1>4, <1>5, <1>6, <1>7, <1>8 DEF SessionInv

(* An input and its key are none of the values that stand for nothing.     *)
LEMMA PickedFacts ==
    ASSUME NEW i \in Picked
    PROVE  i # None /\ i.path \in Paths /\ i.kind \in Kinds /\ Key(i) \in Keys /\ Key(i) # None
<1>1. i # None BY NoneAssumption
<1>2. i.path \in Paths /\ i.kind \in Kinds /\ i.files \in SUBSET InputFiles BY DEF Picked
<1>3. Key(i) \in Keys BY <1>2 DEF Key, Keys
<1>4. Key(i) # None BY <1>3, NoneAssumption
<1>. QED BY <1>1, <1>2, <1>3, <1>4

(* To restore puts back what describes the store that is put back.         *)
LEMMA FailKeeps ==
    ASSUME SessionInv, Fail, Loading, UNCHANGED <<mode, input, asked, made, contents, waveVars>>,
           gui \in {"choose", "check"} \/ gui \in {"plot", "validate"}
    PROVE  SessionInv'
<1> USE DEF SessionInv, Fail, Restore, waveVars, pathVars, Building, Loading
<1>1. saved \in Kept \/ saved = None BY DEF SessionTypeOK
<1>2. SessionTypeOK' BY <1>1 DEF SessionTypeOK, Positions, Kept
<1>3. KeptByReplace' BY DEF KeptByReplace
<1>4. BuildsInput' BY DEF BuildsInput
<1>5. ManagerFollows' BY <1>1 DEF ManagerFollows, KeptByReplace
<1>6. PathsFollow'
  <2>1. CASE saved # None BY <2>1 DEF PathsFollow, Describes
  <2>2. CASE saved = None /\ gui \in {"choose", "check"} BY <2>2 DEF PathsFollow, Describes
  <2>3. CASE saved = None /\ gui \in {"plot", "validate"}
    BY <2>3 DEF PathsFollow, Describes, BuildsInput
  <2>. QED BY <2>1, <2>2, <2>3
<1>7. CachesFollow' BY DEF CachesFollow
<1>8. LoadedEverywhere' /\ SpmNotCarriedOver' BY DEF LoadedEverywhere, SpmNotCarriedOver
<1>. QED BY <1>2, <1>3, <1>4, <1>5, <1>6, <1>7, <1>8

(* The operations of the user.                                             *)
LEMMA OpenKeeps ==
    ASSUME SessionInv, NEW i \in Inputs, Open(i)
    PROVE  SessionInv'
<1> USE DEF SessionInv, Open, waveVars
<1> DEFINE kept == [data_store |-> data_store, shaderdata_manager |-> shaderdata_manager,
                    current_path |-> current_path, ui_dir |-> ui_dir,
                    current_spm_path |-> current_spm_path, lastPath |-> lastPath]
<1>0. saved' = kept OBVIOUS
<1>1. kept \in Kept
  <2>1. data_store \in Nat /\ shaderdata_manager \in Nat
    BY MaxStoresAssumption DEF SessionTypeOK
  <2>. QED BY <2>1 DEF SessionTypeOK, Kept
<1>2. kept # None BY <1>1, NoneAssumption
<1>3. i \in Picked /\ i # None BY InputsAssumption, PickedFacts
<1> HIDE DEF kept
<1>4. /\ kept.data_store = data_store /\ kept.shaderdata_manager = shaderdata_manager
      /\ kept.current_path = current_path /\ kept.ui_dir = ui_dir
      /\ kept.current_spm_path = current_spm_path /\ kept.lastPath = lastPath
  BY DEF kept
<1>5. SessionTypeOK'
  <2>1. 0 \in 0 .. made BY MaxStoresAssumption DEF SessionTypeOK
  <2>. QED BY <1>0, <1>1, <1>3, <1>4, <2>1 DEF SessionTypeOK, Positions
<1>6. KeptByReplace' BY <1>0, <1>2, <1>3 DEF KeptByReplace, Loading, Building
<1>7. BuildsInput' BY DEF BuildsInput, Building
<1>8. ManagerFollows' BY <1>0, <1>2, <1>4 DEF ManagerFollows
<1>9. PathsFollow'
  <2>1. Describes(current_path, ui_dir, current_spm_path, data_store)
    BY DEF PathsFollow, KeptByReplace
  <2>. QED BY <1>0, <1>2, <1>4, <2>1 DEF PathsFollow, Describes, Building
<1>10. CachesFollow' BY DEF CachesFollow
<1>11. LoadedEverywhere' /\ SpmNotCarriedOver' BY DEF LoadedEverywhere, SpmNotCarriedOver, Idle
<1>. QED BY <1>5, <1>6, <1>7, <1>8, <1>9, <1>10, <1>11

LEMMA AttachToTraceKeeps ==
    ASSUME SessionInv, NEW i \in Inputs, AttachToTrace(i)
    PROVE  SessionInv'
<1> USE DEF SessionInv, AttachToTrace, loadVars, waveVars, HasLoadedTrace
<1>1. i.path \in Paths /\ i.path # None BY NoneAssumption DEF Paths
<1>2. CASE UNCHANGED <<contents, current_spm_path, result>>
  BY <1>2 DEF SessionTypeOK, KeptByReplace, BuildsInput, ManagerFollows, PathsFollow, Describes,
              CachesFollow, LoadedEverywhere, SpmNotCarriedOver, Loading, Idle
<1>3. CASE /\ contents' = [contents EXCEPT ![data_store].spm = i.path]
           /\ current_spm_path' = i.path
           /\ result' = "attached"
  <2>1. data_store \in 1 .. MaxStores
    BY MaxStoresAssumption DEF SessionTypeOK
  <2>2. /\ contents[data_store] \in Content
        /\ contents'[data_store] = [contents[data_store] EXCEPT !.spm = i.path]
        /\ contents' \in [1 .. MaxStores -> Content]
    <3>1. contents[data_store] \in Content BY <2>1 DEF SessionTypeOK
    <3>2. [contents[data_store] EXCEPT !.spm = i.path] \in Content BY <3>1, <1>1 DEF Content
    <3>. QED BY <1>3, <2>1, <3>1, <3>2 DEF SessionTypeOK
  <2>3. /\ contents'[data_store].input = contents[data_store].input
        /\ contents'[data_store].spm = i.path
    BY <2>2 DEF Content
  <2>4. saved = None /\ gui = "idle" BY DEF KeptByReplace
  <2>5. SessionTypeOK' BY <1>1, <1>3, <2>2 DEF SessionTypeOK
  <2>6. KeptByReplace' /\ BuildsInput' /\ ManagerFollows'
    BY <2>4 DEF KeptByReplace, Loading, Building, BuildsInput, ManagerFollows
  <2>7. PathsFollow' BY <1>3, <2>3, <2>4 DEF PathsFollow, Describes, Building
  <2>8. CachesFollow' BY <2>4 DEF CachesFollow
  <2>9. LoadedEverywhere' /\ SpmNotCarriedOver'
    BY <1>3 DEF LoadedEverywhere, SpmNotCarriedOver
  <2>. QED BY <2>5, <2>6, <2>7, <2>8, <2>9
<1>. QED BY <1>2, <1>3

LEMMA OpenSpmKeeps ==
    ASSUME SessionInv, NEW i \in Inputs, OpenSpm(i)
    PROVE  SessionInv'
<1> USE DEF SessionInv, OpenSpm, pathVars, waveVars
<1>1. i \in Picked /\ i # None BY InputsAssumption, PickedFacts
<1>2. saved = None BY DEF KeptByReplace
<1>3. SessionTypeOK' BY <1>1, <1>2 DEF SessionTypeOK, Positions
<1>4. KeptByReplace' BY <1>1, <1>2 DEF KeptByReplace, Loading, Building
<1>5. BuildsInput' /\ ManagerFollows' BY <1>2 DEF BuildsInput, Building, ManagerFollows
<1>6. PathsFollow' BY <1>2 DEF PathsFollow, Describes, Building
<1>7. CachesFollow' BY DEF CachesFollow
<1>8. LoadedEverywhere' /\ SpmNotCarriedOver' BY DEF LoadedEverywhere, SpmNotCarriedOver, Idle
<1>. QED BY <1>3, <1>4, <1>5, <1>6, <1>7, <1>8

LEMMA ReloadKeeps ==
    ASSUME SessionInv, Reload
    PROVE  SessionInv'
<1> USE DEF SessionInv, Reload, waveVars
<1>1. saved = None BY DEF KeptByReplace
<1>2. CASE current_path = None
  <2>1. SessionTypeOK' BY <1>2 DEF SessionTypeOK
  <2>2. KeptByReplace' /\ BuildsInput' /\ ManagerFollows'
    BY <1>1, <1>2 DEF KeptByReplace, Loading, Building, BuildsInput, ManagerFollows
  <2>3. PathsFollow' BY <1>1, <1>2 DEF PathsFollow, Describes, Building
  <2>4. CachesFollow' BY <1>2 DEF CachesFollow
  <2>5. LoadedEverywhere' /\ SpmNotCarriedOver' BY <1>2 DEF LoadedEverywhere, SpmNotCarriedOver, Idle
  <2>. QED BY <2>1, <2>2, <2>3, <2>4, <2>5
<1>3. CASE current_path # None
  <2>1. input' \in Picked /\ input' # None
    <3>1. current_path \in Paths BY <1>3 DEF SessionTypeOK
    <3>. QED BY <1>3, <3>1, InputsAssumption, PickedFacts
  <2>2. SessionTypeOK' BY <1>1, <1>3, <2>1 DEF SessionTypeOK, Positions
  <2>3. KeptByReplace' BY <1>1, <1>3, <2>1 DEF KeptByReplace, Loading, Building
  <2>4. BuildsInput' /\ ManagerFollows' BY <1>1, <1>3 DEF BuildsInput, Building, ManagerFollows
  <2>5. PathsFollow' BY <1>1, <1>3 DEF PathsFollow, Describes, Building
  <2>6. CachesFollow' BY <1>3 DEF CachesFollow
  <2>7. LoadedEverywhere' /\ SpmNotCarriedOver' BY <1>3 DEF LoadedEverywhere, SpmNotCarriedOver, Idle
  <2>. QED BY <2>2, <2>3, <2>4, <2>5, <2>6, <2>7
<1>. QED BY <1>2, <1>3

LEMMA SelectWaveKeeps ==
    ASSUME SessionInv, SelectWave
    PROVE  SessionInv'
<1> USE DEF SessionInv, SelectWave, loadVars, pathVars
<1>1. data_store \in 1 .. made BY MaxStoresAssumption DEF SessionTypeOK
<1>2. SessionTypeOK' BY <1>1 DEF SessionTypeOK
<1>3. KeptByReplace' /\ BuildsInput' /\ ManagerFollows'
  BY DEF KeptByReplace, Loading, Building, BuildsInput, ManagerFollows
<1>4. PathsFollow' /\ CachesFollow' BY DEF PathsFollow, Describes, Building, CachesFollow
<1>5. LoadedEverywhere' /\ SpmNotCarriedOver' BY DEF LoadedEverywhere, SpmNotCarriedOver, Idle
<1>. QED BY <1>2, <1>3, <1>4, <1>5

-----------------------------------------------------------------------------
(* The steps of a load up to the new store.                                *)
LEMMA ChooseKeeps ==
    ASSUME SessionInv, Choose
    PROVE  SessionInv'
<1> USE DEF SessionInv, Choose, pathVars, waveVars
<1>1. input \in Picked BY DEF SessionTypeOK, KeptByReplace, Loading
<1>2. input' \in Picked /\ input'.kind = input.kind /\ input' # None
  <2>1. CASE input' = input BY <1>1, <2>1, PickedFacts
  <2>2. ASSUME NEW c \in Captures,
               input' = [input EXCEPT !.files = {f \in input.files : Capture[f] = c}]
        PROVE  input' \in Picked /\ input'.kind = input.kind
    BY <1>1, <2>2 DEF Picked
  <2>. QED BY <2>1, <2>2, PickedFacts
<1>3. SessionTypeOK' BY <1>2 DEF SessionTypeOK, Positions, NeedsChoice
<1>4. KeptByReplace' BY <1>2 DEF KeptByReplace, Loading, Building
<1>5. BuildsInput' /\ ManagerFollows' BY DEF BuildsInput, Building, ManagerFollows
<1>6. PathsFollow' BY DEF PathsFollow, Describes, Building
<1>7. CachesFollow' BY DEF CachesFollow
<1>8. LoadedEverywhere' /\ SpmNotCarriedOver' BY DEF LoadedEverywhere, SpmNotCarriedOver, Idle
<1>. QED BY <1>3, <1>4, <1>5, <1>6, <1>7, <1>8

(* A load is skipped only by a Reload: Replace forgets the key.            *)
LEMMA UnchangedKeeps ==
    ASSUME SessionInv, Unchanged
    PROVE  SessionInv'
<1> USE DEF SessionInv, Unchanged, Succeed, loadVars, pathVars, waveVars
<1>1. saved = None
  <2>1. Key(input) # None BY PickedFacts DEF SessionTypeOK, KeptByReplace, Loading
  <2>. QED BY <2>1 DEF KeptByReplace
<1>2. SessionTypeOK' BY DEF SessionTypeOK, Positions
<1>3. KeptByReplace' BY DEF KeptByReplace, Loading, Building
<1>4. BuildsInput' /\ ManagerFollows' BY <1>1 DEF BuildsInput, Building, ManagerFollows
<1>5. PathsFollow' BY <1>1 DEF PathsFollow, Describes, Building
<1>6. CachesFollow' BY DEF CachesFollow
<1>7. LoadedEverywhere' /\ SpmNotCarriedOver' BY DEF LoadedEverywhere, SpmNotCarriedOver
<1>. QED BY <1>2, <1>3, <1>4, <1>5, <1>6, <1>7

LEMMA BeginKeeps ==
    ASSUME SessionInv, Begin
    PROVE  SessionInv'
<1> USE DEF SessionInv, Begin, loadVars
<1>1. input.path \in Paths BY PickedFacts DEF SessionTypeOK, KeptByReplace, Loading
<1>2. SessionTypeOK'
  <2>1. 0 \in 0 .. made BY MaxStoresAssumption DEF SessionTypeOK
  <2>. QED BY <1>1, <2>1 DEF SessionTypeOK, Positions
<1>3. KeptByReplace' BY DEF KeptByReplace, Loading, Building
<1>4. BuildsInput' /\ ManagerFollows' BY DEF BuildsInput, Building, ManagerFollows
<1>5. PathsFollow' BY DEF PathsFollow, Describes, Building
<1>6. CachesFollow' BY DEF CachesFollow
<1>7. LoadedEverywhere' /\ SpmNotCarriedOver' BY DEF LoadedEverywhere, SpmNotCarriedOver, Idle
<1>. QED BY <1>2, <1>3, <1>4, <1>5, <1>6, <1>7

(* The new store is apart from the one kept, whose contents stay.          *)
LEMMA NewStoreFacts ==
    ASSUME SessionTypeOK, KeptByReplace, gui = "emit", NEW what \in Content, NewStore(what)
    PROVE  /\ made' \in 1 .. MaxStores /\ made' = made + 1
           /\ \A n : n \in 0 .. made => n \in 0 .. made'
           /\ 1 .. made \subseteq 1 .. made'
           /\ data_store' = made' /\ data_store' # 0 /\ data_store' \in 0 .. made'
           /\ contents' \in [1 .. MaxStores -> Content]
           /\ contents'[data_store'] = what
           /\ saved # None => /\ data_store' # saved.data_store
                              /\ saved.data_store # 0 =>
                                   contents'[saved.data_store] = contents[saved.data_store]
<1>1. /\ made \in Nat /\ made + 1 \in 1 .. MaxStores /\ made' = made + 1 /\ data_store' = made + 1
  BY MaxStoresAssumption DEF SessionTypeOK, NewStore
<1>2. \A s \in 1 .. MaxStores : contents[s] \in Content BY DEF SessionTypeOK
<1>3. Nothing \in Content BY DEF Nothing, Content
<1>4. \A s \in 1 .. MaxStores : [Nothing EXCEPT !.trace = contents[s].trace] \in Content
  BY <1>2, <1>3 DEF Content
<1>5. /\ contents' = [s \in 1 .. MaxStores |-> contents'[s]]
      /\ \A s \in 1 .. MaxStores :
            /\ s = made + 1 => contents'[s] = what
            /\ s # made + 1 /\ s \in Live /\ saved # None => contents'[s] = contents[s]
            /\ contents'[s] \in {what, contents[s], [Nothing EXCEPT !.trace = contents[s].trace], Nothing}
  <2> DEFINE Emptied(s) == [Nothing EXCEPT !.trace = contents[s].trace]
             new == [s \in 1 .. MaxStores |-> IF s = made + 1 THEN what
                                                ELSE IF s \in Live /\ saved # None THEN contents[s]
                                                ELSE IF s = seSelector THEN Emptied(s)
                                                ELSE Nothing]
  <2>1. contents' = new BY DEF NewStore
  <2> HIDE DEF Emptied
  <2>2. \A s \in 1 .. MaxStores :
            /\ s = made + 1 => new[s] = what
            /\ s # made + 1 /\ s \in Live /\ saved # None => new[s] = contents[s]
            /\ new[s] \in {what, contents[s], Emptied(s), Nothing}
    OBVIOUS
  <2>3. new = [s \in 1 .. MaxStores |-> new[s]] OBVIOUS
  <2> HIDE DEF new
  <2>. QED BY <2>1, <2>2, <2>3 DEF Emptied
<1>6. contents' \in [1 .. MaxStores -> Content] BY <1>2, <1>3, <1>4, <1>5
<1>7. contents'[data_store'] = what BY <1>1, <1>5
<1>8. ASSUME saved # None
      PROVE  /\ data_store' # saved.data_store
             /\ saved.data_store # 0 => contents'[saved.data_store] = contents[saved.data_store]
  <2>1. saved.data_store \in 0 .. made BY <1>8 DEF SessionTypeOK
  <2>2. saved.data_store # made + 1 BY <1>1, <2>1
  <2>3. ASSUME saved.data_store # 0
        PROVE  contents'[saved.data_store] = contents[saved.data_store]
    <3>1. saved.data_store \in Live BY <1>8, <2>3 DEF Live
    <3>2. \A n \in 0 .. made : n # 0 => n \in 1 .. MaxStores BY <1>1, MaxStoresAssumption
    <3>3. saved.data_store \in 1 .. MaxStores BY <2>1, <2>3, <3>2
    <3>. QED BY <1>5, <1>8, <2>2, <3>1, <3>3
  <2>. QED BY <1>1, <2>2, <2>3
<1>9. /\ \A n : n \in 0 .. made => n \in 0 .. made'
      /\ 1 .. made \subseteq 1 .. made'
      /\ data_store' # 0 /\ data_store' \in 0 .. made'
  BY <1>1
<1>. QED BY <1>1, <1>6, <1>7, <1>8, <1>9

(* The three emitters that return fill the new store; the first two build. *)
LEMMA EmitBuilds ==
    ASSUME SessionInv, gui = "emit", NEW what \in Content, NewStore(what), what.input = input,
           gui' = "attach", current_spm_path' \in {None, input.path, current_spm_path},
           IF input.kind = "spm" THEN what.spm = current_spm_path'
           ELSE what.spm = None /\ UNCHANGED current_spm_path,
           UNCHANGED <<loadVars, saved, result, shaderdata_manager, current_path, ui_dir, lastPath,
                       waveVars>>
    PROVE  SessionInv'
<1> USE DEF SessionInv, loadVars, waveVars
<1>1. /\ made' \in 1 .. MaxStores /\ made' = made + 1
      /\ \A n : n \in 0 .. made => n \in 0 .. made'
      /\ 1 .. made \subseteq 1 .. made'
      /\ data_store' = made' /\ data_store' # 0 /\ data_store' \in 0 .. made'
      /\ contents' \in [1 .. MaxStores -> Content]
      /\ contents'[data_store'] = what
      /\ saved # None => /\ data_store' # saved.data_store
                         /\ saved.data_store # 0 =>
                              contents'[saved.data_store] = contents[saved.data_store]
  BY NewStoreFacts
<1>2. input.path \in Paths BY PickedFacts DEF SessionTypeOK, KeptByReplace, Loading
<1>3. SessionTypeOK'
  <2>1. made' \in 0 .. MaxStores BY <1>1
  <2>. QED BY <1>1, <1>2, <2>1 DEF SessionTypeOK, Positions, Building
<1>4. KeptByReplace' BY DEF KeptByReplace, Loading, Building
<1>5. BuildsInput' BY <1>1 DEF BuildsInput
<1>6. ManagerFollows' BY DEF ManagerFollows, Building
<1>7. PathsFollow'
  <2>1. (saved # None => Describes(saved.current_path, saved.ui_dir, saved.current_spm_path,
                                   saved.data_store))'
    BY <1>1 DEF PathsFollow, Describes
  <2>. QED BY <1>1, <2>1 DEF PathsFollow, KeptByReplace, Loading, Building
<1>8. CachesFollow' BY DEF CachesFollow
<1>9. LoadedEverywhere' /\ SpmNotCarriedOver' BY DEF LoadedEverywhere, SpmNotCarriedOver, Idle
<1>. QED BY <1>3, <1>4, <1>5, <1>6, <1>7, <1>8, <1>9

LEMMA EmitKeeps ==
    ASSUME SessionInv, EmitTrace \/ EmitSpm
    PROVE  SessionInv'
<1> USE DEF SessionInv
<1>1. input \in Picked /\ input.path \in Paths
  BY PickedFacts DEF SessionTypeOK, KeptByReplace, Loading, EmitTrace, EmitSpm
<1>2. CASE EmitTrace
  <2>1. PICK tr \in BOOLEAN, shaderdata \in BOOLEAN :
            NewStore([input |-> input, spm |-> None, trace |-> tr, shaderdata |-> shaderdata,
                      asked |-> asked])
    BY <1>2 DEF EmitTrace
  <2> DEFINE what == [input |-> input, spm |-> None, trace |-> tr, shaderdata |-> shaderdata,
                      asked |-> asked]
  <2>2. what \in Content /\ what.input = input /\ what.spm = None
    BY <1>1 DEF Content, SessionTypeOK
  <2>3. NewStore(what) BY <2>1
  <2> HIDE DEF what
  <2>. QED BY <1>2, <2>2, <2>3, EmitBuilds DEF EmitTrace, pathVars
<1>3. CASE EmitSpm
  <2> DEFINE what == [input |-> input, spm |-> input.path, trace |-> FALSE, shaderdata |-> FALSE,
                      asked |-> FALSE]
  <2>1. what \in Content /\ what.input = input /\ what.spm = input.path BY <1>1 DEF Content
  <2>2. NewStore(what) BY <1>3 DEF EmitSpm
  <2> HIDE DEF what
  <2>. QED BY <1>3, <2>1, <2>2, EmitBuilds DEF EmitSpm
<1>. QED BY <1>2, <1>3

LEMMA EmitSpmFailsKeeps ==
    ASSUME SessionInv, EmitSpmFails
    PROVE  SessionInv'
<1> USE DEF SessionInv, EmitSpmFails, loadVars, pathVars, waveVars
<1> DEFINE what == [Nothing EXCEPT !.input = input]
<1>1. input \in Picked BY DEF SessionTypeOK, KeptByReplace, Loading
<1>2. what \in Content /\ what.input = input /\ what.spm = None BY <1>1 DEF Content, Nothing
<1>3. NewStore(what) OBVIOUS
<1> HIDE DEF what
<1>4. /\ made' \in 1 .. MaxStores
      /\ \A n : n \in 0 .. made => n \in 0 .. made'
      /\ 1 .. made \subseteq 1 .. made'
      /\ data_store' \in 0 .. made'
      /\ contents' \in [1 .. MaxStores -> Content]
      /\ contents'[data_store'] = what
  BY <1>2, <1>3, NewStoreFacts
<1>5. saved = None BY DEF KeptByReplace, Loading, SessionTypeOK
<1>6. SessionTypeOK'
  <2>1. made' \in 0 .. MaxStores BY <1>4
  <2>. QED BY <1>4, <1>5, <2>1 DEF SessionTypeOK, Positions
<1>7. KeptByReplace' /\ BuildsInput' BY <1>5 DEF KeptByReplace, Loading, Building, BuildsInput
<1>8. ManagerFollows' BY <1>5 DEF ManagerFollows
<1>9. PathsFollow' BY <1>2, <1>4, <1>5 DEF PathsFollow, Describes, Building
<1>10. CachesFollow' BY DEF CachesFollow
<1>11. LoadedEverywhere' /\ SpmNotCarriedOver' BY DEF LoadedEverywhere, SpmNotCarriedOver
<1>. QED BY <1>6, <1>7, <1>8, <1>9, <1>10, <1>11

-----------------------------------------------------------------------------
(* The steps that fill the window from the new store.                      *)
LEMMA AttachAgainKeeps ==
    ASSUME SessionInv, AttachAgain
    PROVE  SessionInv'
<1> USE DEF SessionInv, AttachAgain, loadVars, waveVars
<1>1. data_store \in 1 .. MaxStores /\ contents[data_store] \in Content
  <2>1. data_store \in 1 .. MaxStores
    BY MaxStoresAssumption DEF SessionTypeOK, BuildsInput, Building
  <2>. QED BY <2>1 DEF SessionTypeOK
<1>2. input \in Picked BY DEF SessionTypeOK, KeptByReplace, Loading, Building
<1>3. CASE UNCHANGED contents /\ current_spm_path' \in {current_spm_path, None}
           /\ (contents[data_store].spm # None => current_spm_path' = contents[data_store].spm)
  <2>1. SessionTypeOK' BY <1>3 DEF SessionTypeOK, Positions, Building
  <2>2. KeptByReplace' BY <1>3 DEF KeptByReplace, Loading, Building
  <2>3. BuildsInput' /\ ManagerFollows' BY <1>3 DEF BuildsInput, Building, ManagerFollows
  <2>4. PathsFollow' BY <1>3 DEF PathsFollow, Describes, Building
  <2>5. CachesFollow' BY DEF CachesFollow
  <2>6. LoadedEverywhere' /\ SpmNotCarriedOver' BY DEF LoadedEverywhere, SpmNotCarriedOver, Idle
  <2>. QED BY <2>1, <2>2, <2>3, <2>4, <2>5, <2>6
<1>4. CASE /\ input.kind # "spm" /\ current_spm_path # None
           /\ contents' = [contents EXCEPT ![data_store].spm = current_spm_path]
           /\ UNCHANGED current_spm_path
  <2>1. /\ contents' \in [1 .. MaxStores -> Content]
        /\ contents'[data_store].input = contents[data_store].input
        /\ contents'[data_store].spm = current_spm_path
        /\ \A s \in 1 .. MaxStores : s # data_store => contents'[s] = contents[s]
    <3>1. contents'[data_store] = [contents[data_store] EXCEPT !.spm = current_spm_path]
      BY <1>1, <1>4 DEF SessionTypeOK
    <3>2. [contents[data_store] EXCEPT !.spm = current_spm_path] \in Content
      BY <1>1 DEF Content, SessionTypeOK
    <3>3. contents' \in [1 .. MaxStores -> Content] BY <1>1, <1>4, <3>2 DEF SessionTypeOK
    <3>4. \A s \in 1 .. MaxStores : s # data_store => contents'[s] = contents[s]
      BY <1>4 DEF SessionTypeOK
    <3>. QED BY <1>1, <3>1, <3>3, <3>4 DEF Content
  <2>2. saved # None /\ saved.data_store # 0 => contents'[saved.data_store] = contents[saved.data_store]
    <3>1. saved # None /\ saved.data_store # 0 => saved.data_store \in 1 .. MaxStores
      BY MaxStoresAssumption DEF SessionTypeOK
    <3>. QED BY <2>1, <3>1 DEF BuildsInput, Building
  <2>3. mode = "Reload" BY <1>4 DEF KeptByReplace, Loading, Building, SessionTypeOK
  <2>4. SessionTypeOK' BY <1>4, <2>1 DEF SessionTypeOK, Positions, Building
  <2>5. KeptByReplace' BY <1>4 DEF KeptByReplace, Loading, Building
  <2>6. BuildsInput' /\ ManagerFollows' BY <2>1 DEF BuildsInput, Building, ManagerFollows
  <2>7. PathsFollow' BY <1>4, <2>1, <2>2, <2>3 DEF PathsFollow, Describes, Building
  <2>8. CachesFollow' BY DEF CachesFollow
  <2>9. LoadedEverywhere' /\ SpmNotCarriedOver' BY DEF LoadedEverywhere, SpmNotCarriedOver, Idle
  <2>. QED BY <2>4, <2>5, <2>6, <2>7, <2>8, <2>9
<1>. QED BY <1>3, <1>4 DEF PathsFollow, Building

LEMMA WireKeeps ==
    ASSUME SessionInv, Wire
    PROVE  SessionInv'
<1> USE DEF SessionInv, Wire, loadVars, waveVars
<1>1. Key(input) \in Keys
  BY PickedFacts DEF SessionTypeOK, KeptByReplace, Loading, Building
<1>2. SessionTypeOK' BY <1>1 DEF SessionTypeOK, Positions, Building
<1>3. KeptByReplace' BY DEF KeptByReplace, Loading, Building
<1>4. BuildsInput' /\ ManagerFollows' BY DEF BuildsInput, Building, ManagerFollows
<1>5. PathsFollow' BY DEF PathsFollow, Describes, Building
<1>6. CachesFollow' BY DEF CachesFollow
<1>7. LoadedEverywhere' /\ SpmNotCarriedOver' BY DEF LoadedEverywhere, SpmNotCarriedOver, Idle
<1>. QED BY <1>2, <1>3, <1>4, <1>5, <1>6, <1>7

LEMMA BuildSelectorKeeps ==
    ASSUME SessionInv, BuildSelector
    PROVE  SessionInv'
<1> USE DEF SessionInv, BuildSelector, loadVars, pathVars
<1>1. data_store \in 1 .. made
  BY MaxStoresAssumption DEF SessionTypeOK, BuildsInput, Building
<1>2. SessionTypeOK'
  <2>1. main_wave' \in 0 .. made /\ caches' \subseteq 1 .. made BY <1>1 DEF SessionTypeOK
  <2>. QED BY <2>1 DEF SessionTypeOK, Positions, Building
<1>3. KeptByReplace' BY DEF KeptByReplace, Loading, Building
<1>4. BuildsInput' /\ ManagerFollows' BY DEF BuildsInput, Building, ManagerFollows
<1>5. PathsFollow' BY DEF PathsFollow, Describes, Building
<1>6. CachesFollow' BY DEF CachesFollow
<1>7. LoadedEverywhere' /\ SpmNotCarriedOver' BY DEF LoadedEverywhere, SpmNotCarriedOver, Idle
<1>. QED BY <1>2, <1>3, <1>4, <1>5, <1>6, <1>7

LEMMA PlotKeeps ==
    ASSUME SessionInv, Plot
    PROVE  SessionInv'
<1> USE DEF SessionInv, Plot, loadVars, pathVars, waveVars
<1>1. SessionTypeOK' BY DEF SessionTypeOK, Positions, Building
<1>2. KeptByReplace' BY DEF KeptByReplace, Loading, Building
<1>3. BuildsInput' /\ ManagerFollows' BY DEF BuildsInput, Building, ManagerFollows
<1>4. PathsFollow' BY DEF PathsFollow, Describes, Building
<1>5. CachesFollow' BY DEF CachesFollow
<1>6. LoadedEverywhere' /\ SpmNotCarriedOver' BY DEF LoadedEverywhere, SpmNotCarriedOver, Idle
<1>. QED BY <1>1, <1>2, <1>3, <1>4, <1>5, <1>6

LEMMA ValidateSucceedsKeeps ==
    ASSUME SessionInv, gui = "validate", Succeed("loaded"),
           UNCHANGED <<loadVars, made, contents, data_store, shaderdata_manager, pathVars, waveVars>>
    PROVE  SessionInv'
<1> USE DEF SessionInv, Succeed, loadVars, pathVars, waveVars
<1>1. SessionTypeOK' BY DEF SessionTypeOK, Positions
<1>2. KeptByReplace' BY DEF KeptByReplace, Loading, Building
<1>3. BuildsInput' /\ ManagerFollows' BY DEF BuildsInput, Building, ManagerFollows
<1>4. PathsFollow' BY DEF PathsFollow, Describes, Building, BuildsInput
<1>5. CachesFollow' BY DEF CachesFollow
<1>6. LoadedEverywhere' BY DEF LoadedEverywhere, CachesFollow, BuildsInput, Building
<1>7. SpmNotCarriedOver' BY DEF SpmNotCarriedOver, PathsFollow, Building
<1>. QED BY <1>1, <1>2, <1>3, <1>4, <1>5, <1>6, <1>7

(* The two steps that end the program leave everything as it was.          *)
LEMMA TerminatedKeeps ==
    ASSUME SessionInv, SelectDangling \/ EmitRocpd
    PROVE  SessionInv'
<1>1. SessionTypeOK'
  <2>1. SessionTypeOK /\ gui' = "terminated" BY DEF SessionInv, SelectDangling, EmitRocpd
  <2>2. UNCHANGED <<loadVars, saved, result, made, contents, data_store, shaderdata_manager,
                    pathVars, waveVars, before>>
    BY DEF SelectDangling, EmitRocpd
  <2>. QED BY <2>1, <2>2 DEF SessionTypeOK, Positions, loadVars, pathVars, waveVars
<1> USE DEF SessionInv, SelectDangling, EmitRocpd, loadVars, pathVars, waveVars
<1>2. KeptByReplace' BY DEF KeptByReplace, Loading, Building
<1>3. BuildsInput' /\ ManagerFollows' BY DEF BuildsInput, Building, ManagerFollows
<1>4. PathsFollow' BY DEF PathsFollow, Describes, Building
<1>5. CachesFollow' BY DEF CachesFollow
<1>6. LoadedEverywhere' /\ SpmNotCarriedOver' BY DEF LoadedEverywhere, SpmNotCarriedOver, Idle
<1>. QED BY <1>1, <1>2, <1>3, <1>4, <1>5, <1>6

LEMMA StutterKeeps ==
    ASSUME SessionInv, UNCHANGED sessionVars
    PROVE  SessionInv'
<1> USE DEF SessionInv, sessionVars, loadVars, pathVars, waveVars
<1>1. SessionTypeOK' BY DEF SessionTypeOK
<1>2. KeptByReplace' BY DEF KeptByReplace, Loading
<1>3. BuildsInput' /\ ManagerFollows' BY DEF BuildsInput, ManagerFollows
<1>4. PathsFollow' BY DEF PathsFollow, Describes
<1>5. CachesFollow' BY DEF CachesFollow
<1>6. LoadedEverywhere' /\ SpmNotCarriedOver' BY DEF LoadedEverywhere, SpmNotCarriedOver, Idle
<1>. QED BY <1>1, <1>2, <1>3, <1>4, <1>5, <1>6

LEMMA SessionKeeps == SessionInv /\ [SessionNext]_sessionVars => SessionInv'
<1> SUFFICES ASSUME SessionInv, [SessionNext]_sessionVars PROVE SessionInv'
  OBVIOUS
<1>1. CASE UserStep
  <2>1. ASSUME NEW i \in Inputs, Open(i) PROVE SessionInv' BY <2>1, OpenKeeps
  <2>2. ASSUME NEW i \in Inputs, AttachToTrace(i) PROVE SessionInv' BY <2>2, AttachToTraceKeeps
  <2>3. ASSUME NEW i \in Inputs, OpenSpm(i) PROVE SessionInv' BY <2>3, OpenSpmKeeps
  <2>4. CASE Reload BY <2>4, ReloadKeeps
  <2>5. CASE SelectWave BY <2>5, SelectWaveKeeps
  <2>6. CASE SelectDangling BY <2>6, TerminatedKeeps
  <2>. QED BY <1>1, <2>1, <2>2, <2>3, <2>4, <2>5, <2>6 DEF UserStep
<1>2. CASE LoadStep
  <2>1. CASE Choose BY <2>1, ChooseKeeps
  <2>2. CASE Cancel BY <2>2, FailKeeps DEF Cancel, loadVars, Loading
  <2>3. CASE Unchanged BY <2>3, UnchangedKeeps
  <2>4. CASE Unrecognized BY <2>4, FailKeeps DEF Unrecognized, loadVars, Loading
  <2>5. CASE Begin BY <2>5, BeginKeeps
  <2>6. CASE EmitTrace \/ EmitSpm BY <2>6, EmitKeeps
  <2>7. CASE EmitSpmFails BY <2>7, EmitSpmFailsKeeps
  <2>8. CASE EmitRocpd BY <2>8, TerminatedKeeps
  <2>9. CASE AttachAgain BY <2>9, AttachAgainKeeps
  <2>10. CASE Wire BY <2>10, WireKeeps
  <2>11. CASE BuildSelector BY <2>11, BuildSelectorKeeps
  <2>12. CASE Plot BY <2>12, PlotKeeps
  <2>13. CASE PlotThrows BY <2>13, FailKeeps DEF PlotThrows, loadVars, Loading, Building
  <2>14. CASE Validate
    BY <2>14, FailKeeps, ValidateSucceedsKeeps DEF Validate, loadVars, Loading, Building
  <2>. QED BY <1>2, <2>1, <2>2, <2>3, <2>4, <2>5, <2>6, <2>7, <2>8, <2>9, <2>10, <2>11, <2>12,
              <2>13, <2>14 DEF LoadStep
<1>3. CASE UNCHANGED sessionVars BY <1>3, StutterKeeps
<1>. QED BY <1>1, <1>2, <1>3 DEF SessionNext

-----------------------------------------------------------------------------
(* Whatever the user opens, attaches, reloads or cancels and whatever      *)
(* fails: the invariant that relates stores, paths, pointer and caches.    *)
THEOREM SessionInvariance == SessionSpec => []SessionInv
<1>. QED BY SessionStarts, SessionKeeps, PTL DEF SessionSpec

(* Type correctness of the session.                                        *)
THEOREM SessionTypeCorrect == SessionSpec => []SessionTypeOK
<1>1. SessionInv => SessionTypeOK BY DEF SessionInv
<1>. QED BY <1>1, SessionInvariance, PTL

(* MainWindow's non-owning pointer to shader data is null or into a store  *)
(* that lives (mainwindow.cpp:1144).                                       *)
THEOREM ManagerAlwaysOwned == SessionSpec => []ManagerOwned
<1>1. SessionInv => ManagerOwned
  BY DEF SessionInv, SessionTypeOK, Positions, Building, ManagerFollows, ManagerOwned, Live, Idle
<1>. QED BY <1>1, SessionInvariance, PTL

(* What a successful load leaves cached, selected and offered is of the    *)
(* store it made.                                                          *)
THEOREM LoadsEverywhere == SessionSpec => []LoadedEverywhere
<1>1. SessionInv => LoadedEverywhere BY DEF SessionInv
<1>. QED BY <1>1, SessionInvariance, PTL

(* The paths of the window are those of the store that is open, whichever  *)
(* of the early returns of a load was taken (mainwindow.cpp:1025).         *)
THEOREM PathsAlwaysDescribe == SessionSpec => []PathsDescribeStore
<1>1. SessionInv => PathsDescribeStore
  BY DEF SessionInv, KeptByReplace, PathsFollow, Describes, PathsDescribeStore, Opened, Idle
<1>. QED BY <1>1, SessionInvariance, PTL

(* Counters attached to a trace are gone once another input was opened.    *)
THEOREM SpmNeverCarriedOver == SessionSpec => []SpmNotCarriedOver
<1>1. SessionInv => SpmNotCarriedOver BY DEF SessionInv
<1>. QED BY <1>1, SessionInvariance, PTL
=============================================================================
