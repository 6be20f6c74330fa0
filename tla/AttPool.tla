------------------------------ MODULE AttPool ------------------------------
(***************************************************************************)
(* TraceDecoderEmitter::parseATTFiles: the loading thread walks the sorted *)
(* list of .att files and starts one decoding thread for each, under two   *)
(* limits: a byte counter (inflight_bytes against MEMORY_BUDGET), polled   *)
(* by the loading thread and lowered by the decoding threads, and a        *)
(* counting semaphore (8 in the code).  Before it returns it joins all of  *)
(* the threads, since every pass that follows reads the store unlocked.    *)
(*                                                                         *)
(* Every access to a shared atomic is a step of its own.  File contents    *)
(* are abstract: the file system and the decoder choose whether a file can *)
(* be sized, opened and decoded.                                           *)
(***************************************************************************)
EXTENDS Integers, FiniteSets, FiniteSetsExt

CONSTANTS NFiles,     \* number of .att files of the capture
          Sizes,      \* the sizes a file may have
          Budget,     \* MEMORY_BUDGET
          Slots,      \* initial value of the semaphore
          MaxInfo     \* bound: user-visible INFO records of one file

ASSUME NFilesAssumption == NFiles \in Nat
ASSUME SizesAssumption  == Sizes \subseteq Nat
ASSUME BudgetAssumption == Budget \in Nat
ASSUME SlotsAssumption  == Slots \in Nat \ {0}
ASSUME MaxInfoAssumption == MaxInfo \in Nat

Files == 1 .. NFiles

VARIABLES size,       \* file |-> its size on disk
          main,       \* where the loading thread stands
          cur,        \* se_files iterator of the loading thread
          worker,     \* file |-> where its decoding thread stands
          outcome,    \* file |-> how its decoding went
          inflight,   \* inflight_bytes
          permits,    \* permits left in the semaphore
          errors      \* file |-> how many parse errors name it

poolVars == <<size, main, cur, worker, outcome, inflight, permits, errors>>

MainStates   == {"stat", "poll", "recheck", "add", "acquire", "spawn", "returned"}
WorkerStates == {"none", "open", "decode", "free", "lower", "release", "done"}
Outcomes     == {"pending", "nostat", "noopen", "failed", "ok"}

TypeOK ==
    /\ size \in [Files -> Sizes]
    /\ main \in MainStates
    /\ cur \in 1 .. (NFiles + 1)
    /\ worker \in [Files -> WorkerStates]
    /\ outcome \in [Files -> Outcomes]
    /\ inflight \in Int
    /\ permits \in Int
    /\ errors \in [Files -> Nat]

(* The decoding threads that own a permit, and the files whose bytes are   *)
(* in memory.                                                              *)
Running   == {f \in Files : worker[f] \notin {"none", "done"}}
Buffered  == {f \in Files : worker[f] \in {"decode", "free"}}
TotalSize(S) == MapThenSumSet(LAMBDA f : size[f], S)

PoolInit ==
    /\ size \in [Files -> Sizes]
    /\ main = "stat"
    /\ cur = 1
    /\ worker = [f \in Files |-> "none"]
    /\ outcome = [f \in Files |-> "pending"]
    /\ inflight = 0
    /\ permits = Slots
    /\ errors = [f \in Files |-> 0]

(***************************************************************************)
(* Operators whose name says what is left out or done too early are the    *)
(* faulty variants of the operator that follows them; no action uses them. *)
(*                                                                         *)
(* The loading thread.                                                     *)
(***************************************************************************)
AddParseError(f) == errors' = [errors EXCEPT ![f] = @ + 1]

StatFails ==
    /\ main = "stat" /\ cur <= NFiles
    /\ AddParseError(cur)
    /\ outcome' = [outcome EXCEPT ![cur] = "nostat"]
    /\ cur' = cur + 1
    /\ UNCHANGED <<size, main, worker, inflight, permits>>

StatSucceeds ==
    /\ main = "stat" /\ cur <= NFiles
    /\ main' = "poll"
    /\ UNCHANGED <<size, cur, worker, outcome, inflight, permits, errors>>

(* while (inflight + file_size > MEMORY_BUDGET && inflight > 0) yield: the *)
(* two loads of the counter are separate.                                  *)
PollBudgetWithoutFile ==
    /\ main = "poll"
    /\ main' = IF inflight > Budget THEN "recheck" ELSE "add"
    /\ UNCHANGED <<size, cur, worker, outcome, inflight, permits, errors>>

PollBudget ==
    /\ main = "poll"
    /\ main' = IF inflight + size[cur] > Budget THEN "recheck" ELSE "add"
    /\ UNCHANGED <<size, cur, worker, outcome, inflight, permits, errors>>

PollEmpty ==
    /\ main = "recheck"
    /\ main' = IF inflight > 0 THEN "poll" ELSE "add"
    /\ UNCHANGED <<size, cur, worker, outcome, inflight, permits, errors>>

AddInflight ==
    /\ main = "add"
    /\ inflight' = inflight + size[cur]
    /\ main' = "acquire"
    /\ UNCHANGED <<size, cur, worker, outcome, permits, errors>>

AcquireSlot ==
    /\ main = "acquire"
    /\ permits > 0
    /\ permits' = permits - 1
    /\ main' = "spawn"
    /\ UNCHANGED <<size, cur, worker, outcome, inflight, errors>>

Spawn ==
    /\ main = "spawn"
    /\ worker' = [worker EXCEPT ![cur] = "open"]
    /\ cur' = cur + 1
    /\ main' = "stat"
    /\ UNCHANGED <<size, outcome, inflight, permits, errors>>

JoinNothing ==
    /\ main = "stat" /\ cur > NFiles
    /\ main' = "returned"
    /\ UNCHANGED <<size, cur, worker, outcome, inflight, permits, errors>>

(* The loop is over: join every thread that was started, then return.      *)
JoinAll ==
    /\ main = "stat" /\ cur > NFiles
    /\ \A f \in Files : worker[f] \in {"none", "done"}
    /\ main' = "returned"
    /\ UNCHANGED <<size, cur, worker, outcome, inflight, permits, errors>>

(***************************************************************************)
(* The thread that decodes file f.                                         *)
(***************************************************************************)
Goto(f, from, to) ==
    /\ worker[f] = from
    /\ worker' = [worker EXCEPT ![f] = to]

OpenFailsKeepingSlot(f) ==
    /\ worker[f] = "open"
    /\ worker' = [worker EXCEPT ![f] = "done"]
    /\ inflight' = inflight - size[f]
    /\ AddParseError(f)
    /\ outcome' = [outcome EXCEPT ![f] = "noopen"]
    /\ UNCHANGED <<size, main, cur, permits>>

OpenFailsKeepingBytes(f) ==
    /\ Goto(f, "open", "release")
    /\ AddParseError(f)
    /\ outcome' = [outcome EXCEPT ![f] = "noopen"]
    /\ UNCHANGED <<size, main, cur, inflight, permits>>

OpenFails(f) ==
    /\ Goto(f, "open", "lower")
    /\ AddParseError(f)
    /\ outcome' = [outcome EXCEPT ![f] = "noopen"]
    /\ UNCHANGED <<size, main, cur, inflight, permits>>

OpenAndRead(f) ==
    /\ Goto(f, "open", "decode")
    /\ UNCHANGED <<size, main, cur, outcome, inflight, permits, errors>>

(* traceCallback on an INFO record that reports lost data or an incomplete *)
(* stitch: the loss becomes a parse error and decoding goes on.            *)
InfoRecord(f) ==
    /\ worker[f] = "decode"
    /\ errors[f] < MaxInfo
    /\ AddParseError(f)
    /\ UNCHANGED <<size, main, cur, worker, outcome, inflight, permits>>

DecodeSucceeds(f) ==
    /\ Goto(f, "decode", "free")
    /\ outcome' = [outcome EXCEPT ![f] = "ok"]
    /\ UNCHANGED <<size, main, cur, inflight, permits, errors>>

DecodeFails(f) ==
    /\ Goto(f, "decode", "free")
    /\ outcome' = [outcome EXCEPT ![f] = "failed"]
    /\ AddParseError(f)
    /\ UNCHANGED <<size, main, cur, inflight, permits>>

FreeBuffer(f) ==
    /\ Goto(f, "free", "lower")
    /\ UNCHANGED <<size, main, cur, outcome, inflight, permits, errors>>

LowerInflight(f) ==
    /\ Goto(f, "lower", "release")
    /\ inflight' = inflight - size[f]
    /\ UNCHANGED <<size, main, cur, outcome, permits, errors>>

ReleaseSlot(f) ==
    /\ Goto(f, "release", "done")
    /\ permits' = permits + 1
    /\ UNCHANGED <<size, main, cur, outcome, inflight, errors>>

(***************************************************************************)
(* Specification.  Both threads run until they block: weak fairness.  The  *)
(* decoder returns from rocprof_trace_decoder_parse, so decoding ends.     *)
(***************************************************************************)
MainStep == StatFails \/ StatSucceeds \/ PollBudget \/ PollEmpty \/ AddInflight
                \/ AcquireSlot \/ Spawn \/ JoinAll

DecodeEnds(f) == DecodeSucceeds(f) \/ DecodeFails(f)
WorkerStep(f) == OpenFails(f) \/ OpenAndRead(f) \/ DecodeEnds(f)
                     \/ FreeBuffer(f) \/ LowerInflight(f) \/ ReleaseSlot(f)

PoolNext == MainStep \/ \E f \in Files : WorkerStep(f) \/ InfoRecord(f)

PoolSpec == PoolInit /\ [][PoolNext]_poolVars
FairSpec == PoolSpec /\ WF_poolVars(MainStep) /\ \A f \in Files : WF_poolVars(WorkerStep(f))

(***************************************************************************)
(* Properties.                                                             *)
(***************************************************************************)

(* Memory: the bytes of the files held in memory at one time stay within   *)
(* MEMORY_BUDGET, except that one file larger than it may be held alone.   *)
BuffersWithinBudget ==
    \/ TotalSize(Buffered) <= Budget
    \/ Cardinality({f \in Buffered : size[f] > 0}) = 1

(* The byte counter is the size of the files in flight - every path of a   *)
(* decoding thread takes off what the loading thread added - and it is     *)
(* above the budget only while all of it belongs to one file.              *)
InFlight == {f \in Files : \/ worker[f] \in {"open", "decode", "free", "lower"}
                           \/ main \in {"acquire", "spawn"} /\ f = cur}
CounterConserved ==
    /\ inflight = TotalSize(InFlight)
    /\ inflight > Budget => Cardinality({f \in InFlight : size[f] > 0}) = 1

(* Every running thread owns one permit of the semaphore and every exit    *)
(* path gives it back, so that at most Slots files are decoded at a time.  *)
PermitsConserved ==
    /\ permits + Cardinality(Running) + (IF main = "spawn" THEN 1 ELSE 0) = Slots
    /\ permits >= 0

(* When parseATTFiles has returned no thread still writes to the store,    *)
(* and every file of the capture was either decoded or is named by at      *)
(* least one parse error: run() then aligns and renumbers the store with   *)
(* no lock, and the user is told of every file that is missing from it.    *)
ReturnIsComplete ==
    main = "returned" =>
        /\ Running = {}
        /\ \A f \in Files : outcome[f] = "ok" \/ errors[f] > 0
        /\ \A f \in Files : outcome[f] # "pending"

(* The polling loop and the semaphore never hold up the loading thread for *)
(* ever, whichever files cannot be sized, opened or decoded: parseATTFiles *)
(* returns.                                                                *)
Returns == <>(main = "returned")
=============================================================================
