----------------------------- MODULE WaveCache -----------------------------
(***************************************************************************)
(* The cache of decoded waves and its use by the user-interface thread:    *)
(* WaveInstance::Get / GetFromRecord / InvalidadeCache, DataStore::getWave *)
(* and the preloading of MainWindow::GatherWaves, across loads of traces.  *)
(*                                                                         *)
(* A fetch looks the cache up under a shared lock, builds the wave with no *)
(* lock and inserts it under an exclusive lock, so that two fetches of one *)
(* key may both build it.  GatherWaves runs one std::async task for each   *)
(* visible wave, keeping their futures in an array: storing a new future   *)
(* over an old one waits for the old task, and leaving the scope waits for *)
(* the rest.  While tasks run the user-interface thread is inside          *)
(* GatherWaves, so no other handler runs.                                  *)
(***************************************************************************)
EXTENDS Integers, FiniteSets

CONSTANTS NWaves,     \* waves of the selected shader engine, in hierarchy order
          Keys,       \* cache keys (path and time offset, or wave id)
          KeyOf,      \* wave |-> its key
          TypeOf,     \* wave |-> type of its token on the line that is modelled
          Slots,      \* size of the array of futures
          MaxLoads,   \* bound: loads of one process
          None

Waves == 1 .. NWaves

ASSUME NWavesAssumption == NWaves \in Nat
ASSUME SlotsAssumption == Slots \in Nat \ {0}
ASSUME KeyOfAssumption == KeyOf \in [Waves -> Keys]
ASSUME TypeOfAssumption == TypeOf \in [Waves -> Nat]
ASSUME MaxLoadsAssumption == MaxLoads \in Nat \ {0}
ASSUME NoneAssumption == None \notin (1 .. MaxLoads) \X Waves

VARIABLES load,       \* number of the load whose data_store is current
          broken,     \* keys whose wave makes the constructor throw
          cache,      \* reader_cache
          main,       \* main_wave
          mainWave,   \* the wave selected for it
          gui,        \* where the user-interface thread stands
          next,       \* its position in the waves
          vis,        \* waves inside the clock range of the gathering
          futures,    \* slot |-> wave whose task its future belongs to, or 0
          count,      \* futures stored so far by the gathering
          task,       \* wave |-> where the fetch of that wave stands
          got,        \* wave |-> what that fetch returns
          bins,       \* wave |-> times its tokens were added to the hotspot
          shown,      \* wave |-> instance in the view
          type, step, tok, seen     \* the code line, see LineType

cacheVars == <<load, broken, cache, main, mainWave, gui, next, vis, futures, count,
               task, got, bins, shown>>
vars == <<cacheVars, type, step, tok, seen>>

L == INSTANCE LineType WITH Writers <- Waves, Types <- {TypeOf[w] : w \in Waves}


NothingCached == [k \in Keys |-> None]
NoTask == [w \in Waves |-> "none"]
NoInstance == [w \in Waves |-> None]

Init ==
    /\ load = 1
    /\ broken \in SUBSET Keys
    /\ cache = NothingCached
    /\ main = None /\ mainWave = 0
    /\ gui = "idle" /\ next = 1 /\ vis = {} /\ count = 0
    /\ futures = [s \in 0 .. (Slots - 1) |-> 0]
    /\ task = NoTask
    /\ got = NoInstance
    /\ bins = [w \in Waves |-> 0]
    /\ shown = NoInstance
    /\ type = 0 /\ seen = {}
    /\ step = [w \in Waves |-> "idle"]
    /\ tok = TypeOf

(***************************************************************************)
(* One fetch: DataStore::getWave down to WaveInstance::Get, by a task of   *)
(* the gathering (which then adds the tokens to the hotspot) or by the     *)
(* user-interface thread itself.                                           *)
(***************************************************************************)
Preloading == gui \in {"launch", "store"}
Fetched == IF Preloading THEN "add" ELSE "done"
Goto(w, to) == task' = [task EXCEPT ![w] = to]

FindNothing(w) ==
    /\ task[w] = "find"
    /\ Goto(w, "build")
    /\ UNCHANGED <<load, broken, cache, main, mainWave, gui, next, vis, futures, count, got,
                   bins, shown, type, step, tok, seen>>

Find(w) ==
    /\ task[w] = "find"
    /\ IF cache[KeyOf[w]] # None
         THEN /\ got' = [got EXCEPT ![w] = cache[KeyOf[w]]]
              /\ Goto(w, Fetched)
         ELSE /\ Goto(w, "build")
              /\ UNCHANGED got
    /\ UNCHANGED <<load, broken, cache, main, mainWave, gui, next, vis, futures, count,
                   bins, shown, type, step, tok, seen>>

(* The constructor throws: Get reports it and returns nullptr.             *)
BuildFails(w) ==
    /\ task[w] = "build" /\ KeyOf[w] \in broken
    /\ got' = [got EXCEPT ![w] = None]
    /\ Goto(w, "done")
    /\ UNCHANGED <<load, broken, cache, main, mainWave, gui, next, vis, futures, count,
                   bins, shown, type, step, tok, seen>>

Build(w) ==
    /\ task[w] = "build" /\ KeyOf[w] \notin broken
    /\ L!StartToken(w, TypeOf[w])
    /\ got' = [got EXCEPT ![w] = <<load, w>>]
    /\ Goto(w, "line")
    /\ UNCHANGED <<load, broken, cache, main, mainWave, gui, next, vis, futures, count,
                   bins, shown>>

AttributeLine(w) ==
    /\ task[w] = "line"
    /\ L!AttributeStep(w)
    /\ IF step'[w] = "idle" THEN Goto(w, "insert") ELSE UNCHANGED task
    /\ UNCHANGED <<load, broken, cache, main, mainWave, gui, next, vis, futures, count,
                   got, bins, shown>>

Insert(w) ==
    /\ task[w] = "insert"
    /\ cache' = [cache EXCEPT ![KeyOf[w]] = got[w]]
    /\ Goto(w, Fetched)
    /\ UNCHANGED <<load, broken, main, mainWave, gui, next, vis, futures, count, got,
                   bins, shown, type, step, tok, seen>>

(* HotspotView::Add: the bins are atomic, the order of the adds is free.   *)
AddTokens(w) ==
    /\ task[w] = "add"
    /\ bins' = [bins EXCEPT ![w] = @ + 1]
    /\ Goto(w, "done")
    /\ UNCHANGED <<load, broken, cache, main, mainWave, gui, next, vis, futures, count, got,
                   shown, type, step, tok, seen>>

(***************************************************************************)
(* The user-interface thread.  A fetch of its own runs to the end before   *)
(* the handler goes on.                                                    *)
(***************************************************************************)

(* SetMainWave asks for the wave, and publishes whatever getWave returned. *)
Select(w) ==
    /\ gui = "idle"
    /\ gui' = "select" /\ mainWave' = w
    /\ Goto(w, "find")
    /\ UNCHANGED <<load, broken, cache, main, next, vis, futures, count, got, bins, shown,
                   type, step, tok, seen>>

SetMain ==
    /\ gui = "select" /\ task[mainWave] = "done"
    /\ main' = got[mainWave]
    /\ gui' = "idle"
    /\ Goto(mainWave, "none")
    /\ UNCHANGED <<load, broken, cache, mainWave, next, vis, futures, count, got, bins, shown,
                   type, step, tok, seen>>

(* GatherWaves: a new HotspotView, sized by the code of main_wave, and the *)
(* array of futures.  v is the set of waves that overlap the clock range.  *)
BeginGather(v) ==
    /\ gui = "idle" /\ main # None
    /\ gui' = "launch" /\ next' = 1 /\ vis' = v /\ count' = 0
    /\ bins' = [w \in Waves |-> 0]
    /\ shown' = NoInstance
    /\ UNCHANGED <<load, broken, cache, main, mainWave, futures, task, got,
                   type, step, tok, seen>>

SkipHidden ==
    /\ gui = "launch" /\ next \in Waves \ vis
    /\ next' = next + 1
    /\ UNCHANGED <<load, broken, cache, main, mainWave, gui, vis, futures, count, task, got,
                   bins, shown, type, step, tok, seen>>

Launch ==
    /\ gui = "launch" /\ next \in vis
    /\ Goto(next, "find")
    /\ gui' = "store"
    /\ UNCHANGED <<load, broken, cache, main, mainWave, next, vis, futures, count, got, bins,
                   shown, type, step, tok, seen>>

Finished(w) == w # 0 => task[w] = "done"
Slot == count % Slots

(* Faulty: the old future is dropped without waiting for its task.         *)
StoreWithoutWait ==
    /\ gui = "store"
    /\ futures' = [futures EXCEPT ![Slot] = next]
    /\ count' = count + 1
    /\ next' = next + 1
    /\ gui' = "launch"
    /\ UNCHANGED <<load, broken, cache, main, mainWave, vis, task, got, bins, shown,
                   type, step, tok, seen>>

(* The assignment of the new future waits for the task of the old one.     *)
StoreFuture == Finished(futures[Slot]) /\ StoreWithoutWait

(* Faulty: the rows are shown while tasks are still running.               *)
JoinNothing ==
    /\ gui = "launch" /\ next > NWaves
    /\ futures' = [s \in DOMAIN futures |-> 0]
    /\ task' = NoTask
    /\ gui' = "show" /\ next' = 1
    /\ UNCHANGED <<load, broken, cache, main, mainWave, vis, count, got, bins, shown,
                   type, step, tok, seen>>

(* Leaving the scope of the array waits for the tasks that are left.       *)
JoinTasks ==
    /\ gui = "launch" /\ next > NWaves
    /\ \A s \in DOMAIN futures : Finished(futures[s])
    /\ futures' = [s \in DOMAIN futures |-> 0]
    /\ task' = NoTask
    /\ gui' = "show" /\ next' = 1
    /\ UNCHANGED <<load, broken, cache, main, mainWave, vis, count, got, bins, shown,
                   type, step, tok, seen>>

(* The rows of the view: one getWave for each visible wave, again.         *)
ShowNext ==
    /\ gui = "show" /\ next \in Waves
    /\ IF next \in vis
         THEN /\ gui' = "showing"
              /\ Goto(next, "find")
              /\ UNCHANGED next
         ELSE /\ next' = next + 1
              /\ UNCHANGED <<gui, task>>
    /\ UNCHANGED <<load, broken, cache, main, mainWave, vis, futures, count, got, bins, shown,
                   type, step, tok, seen>>

Show ==
    /\ gui = "showing" /\ task[next] = "done"
    /\ shown' = [shown EXCEPT ![next] = got[next]]
    /\ Goto(next, "none")
    /\ gui' = "show" /\ next' = next + 1
    /\ UNCHANGED <<load, broken, cache, main, mainWave, vis, futures, count, got, bins,
                   type, step, tok, seen>>

EndGather ==
    /\ gui = "show" /\ next > NWaves
    /\ gui' = "idle" /\ next' = 1
    /\ UNCHANGED <<load, broken, cache, main, mainWave, vis, futures, count, task, got, bins,
                   shown, type, step, tok, seen>>

(* Faulty: the caches of the previous trace are kept.                      *)
ReloadKeepingCache ==
    /\ gui = "idle" /\ load < MaxLoads
    /\ load' = load + 1
    /\ broken' \in SUBSET Keys
    /\ main' = None
    /\ L!Renew
    /\ UNCHANGED <<cache, mainWave, gui, next, vis, futures, count, task, got, bins, shown>>

(* LoadInputImpl of another trace, which may use the same keys.            *)
Reload ==
    /\ gui = "idle" /\ load < MaxLoads
    /\ load' = load + 1
    /\ broken' \in SUBSET Keys
    /\ main' = None
    /\ cache' = NothingCached
    /\ got' = NoInstance /\ shown' = NoInstance
    /\ L!Renew
    /\ UNCHANGED <<mainWave, gui, next, vis, futures, count, task, bins>>

FetchStep(w) ==
    Find(w) \/ BuildFails(w) \/ Build(w) \/ AttributeLine(w) \/ Insert(w) \/ AddTokens(w)

Gather ==
    \/ \E v \in SUBSET Waves : BeginGather(v)
    \/ SkipHidden \/ Launch \/ StoreFuture \/ JoinTasks \/ ShowNext \/ Show \/ EndGather

Next ==
    \/ \E w \in Waves : Select(w) \/ FetchStep(w)
    \/ SetMain
    \/ Gather
    \/ Reload

Spec == Init /\ [][Next]_vars

(***************************************************************************)
(* Properties.                                                             *)
(***************************************************************************)
Unfinished(w) == task[w] \notin {"none", "done"}
Afterwards == gui \in {"show", "showing"}
Loaded(w) == w \in vis /\ KeyOf[w] \notin broken

(* No wave of an earlier load is shown, cached or selected: generated wave *)
(* names are the same in each trace (the comment of mainwindow.cpp at the  *)
(* call of InvalidadeCache).                                               *)
CacheCurrent ==
    \A i \in ({cache[k] : k \in Keys} \cup {shown[w] : w \in Waves} \cup {main}) \ {None} :
        i[1] = load

(* When GatherWaves goes on to the rows, each visible wave whose file can  *)
(* be read was added to the hotspot once, and no other wave was.           *)
HotspotExact ==
    Afterwards => \A w \in Waves : bins[w] = IF Loaded(w) THEN 1 ELSE 0

(* Though several threads may have built a wave with the same key, after   *)
(* the preloading every row and main_wave refer to the object the cache    *)
(* holds: what is written through one of them is seen through the others.  *)
ViewsShareInstances ==
    Afterwards =>
        /\ main = cache[KeyOf[mainWave]]
        /\ \A w \in Waves : shown[w] # None => shown[w] = cache[KeyOf[w]]

(* The futures bound the threads: no more tasks run than the array has     *)
(* slots, but for the one that is launched before its future replaces an   *)
(* older one.  Once the array is left none of them runs, whatever tasks    *)
(* failed; the only fetch then is that of the user-interface thread.       *)
Running == {w \in Waves : Unfinished(w)}
TasksBounded ==
    /\ gui = "launch" => Cardinality(Running) <= Slots
    /\ gui = "store" => Cardinality(Running) <= Slots + 1
    /\ gui = "select" => Running \subseteq {mainWave}
    /\ gui = "showing" => Running \subseteq {next}
    /\ gui \in {"idle", "show"} => Running = {}

(* LineType's property at this level: see there.                           *)
LineAttributed == L!Attributed

(* Within one load a line whose type is settled keeps it: the colour of an *)
(* instruction does not depend on which waves are gathered or selected     *)
(* later, though their threads exchange the type without a lock.           *)
LineSettled ==
    [][load' = load /\ type \notin {0, L!Immed} => type' = type]_vars
=============================================================================
