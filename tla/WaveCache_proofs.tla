-------------------------- MODULE WaveCache_proofs --------------------------
(***************************************************************************)
(* The cache of waves is used correctly by the preloading and the view for *)
(* every number of waves, keys and futures, and the building threads       *)
(* implement LineType, whose properties they inherit.                      *)
(***************************************************************************)
EXTENDS WaveCache, FiniteSetTheorems, TLAPS

LP == INSTANCE LineType_proofs WITH Writers <- Waves, Types <- {TypeOf[w] : w \in Waves}

Instances == ((1 .. MaxLoads) \X Waves) \cup {None}
Steps == {"none", "find", "build", "line", "insert", "add", "done"}

CacheTypeOK ==
    /\ load \in 1 .. MaxLoads
    /\ broken \subseteq Keys
    /\ cache \in [Keys -> Instances] /\ main \in Instances
    /\ got \in [Waves -> Instances] /\ shown \in [Waves -> Instances]
    /\ mainWave \in Waves \cup {0}
    /\ gui \in {"idle", "select", "launch", "store", "show", "showing"}
    /\ next \in 1 .. (NWaves + 1)
    /\ vis \subseteq Waves
    /\ futures \in [0 .. (Slots - 1) -> Waves \cup {0}]
    /\ count \in Nat
    /\ task \in [Waves -> Steps]
    /\ bins \in [Waves -> Nat]
    /\ step \in [Waves -> {"idle", "cas0", "test", "cas9"}]
    /\ tok \in [Waves -> {TypeOf[w] : w \in Waves}]

(* Everything reachable was built from the current load.                   *)
Current(i) == i = None \/ i[1] = load
AllCurrent ==
    /\ \A k \in Keys : Current(cache[k])
    /\ \A w \in Waves : Current(got[w]) /\ Current(shown[w])
    /\ Current(main)

(* Which fetches run, by the place of the user-interface thread.           *)
Launched(w) == w \in vis /\ (w < next \/ (gui = "store" /\ w = next))
Alone(w) == /\ w \in Waves
            /\ task[w] \notin {"none", "add"}
            /\ \A v \in Waves \ {w} : task[v] = "none"
FetchesRun ==
    /\ gui \in {"idle", "show"} => \A w \in Waves : task[w] = "none"
    /\ gui = "select" => Alone(mainWave)
    /\ gui = "showing" => Alone(next)
    /\ gui = "store" => next \in vis
    /\ Preloading => \A w \in Waves : task[w] = "none" <=> ~Launched(w)

(* A running task is held by a future of the array, or about to be.        *)
Held(w) == (gui = "store" /\ w = next) \/ \E s \in DOMAIN futures : futures[s] = w
TasksHeld == Preloading => \A w \in Waves : Unfinished(w) => Held(w)

(* A wave that was built can be read.                                      *)
BuiltReadable ==
    /\ \A k \in Keys : cache[k] # None => k \notin broken
    /\ \A w \in Waves : task[w] \in {"line", "insert", "add"} => KeyOf[w] \notin broken

(* The hotspot counts the tasks that are done.                             *)
Counted(w) == KeyOf[w] \notin broken /\ (IF Preloading THEN task[w] = "done" ELSE w \in vis)
HotspotCounts ==
    gui \notin {"idle", "select"} => \A w \in Waves : bins[w] = IF Counted(w) THEN 1 ELSE 0

(* The main wave is the one that is cached, and no task builds it again.   *)
Building(w) == task[w] \in {"build", "line", "insert"}
MainCached ==
    /\ gui \notin {"idle", "select"} => main # None
    /\ gui # "select" /\ main # None => mainWave \in Waves /\ main = cache[KeyOf[mainWave]]
    /\ Preloading => \A w \in Waves : Building(w) => KeyOf[w] # KeyOf[mainWave]

(* Outside the preloading a fetch ends with what the cache holds.          *)
FetchCached ==
    gui \in {"select", "showing"} =>
        \A w \in Waves : /\ Building(w) => cache[KeyOf[w]] = None
                         /\ task[w] = "done" => got[w] \in {None, cache[KeyOf[w]]}
ShownCached ==
    gui \notin {"idle", "select"} =>
        \A w \in Waves : shown[w] # None => Afterwards /\ shown[w] = cache[KeyOf[w]]

(* A thread is in the exchanges of the line while it builds.               *)
OnLine == \A w \in Waves : step[w] # "idle" <=> task[w] = "line"

IInv ==
    /\ CacheTypeOK /\ AllCurrent /\ FetchesRun /\ TasksHeld /\ BuiltReadable /\ HotspotCounts
    /\ MainCached /\ FetchCached /\ ShownCached /\ OnLine

(* When the array of futures is left every task is done.                   *)
LEMMA AllJoined ==
    ASSUME IInv, JoinTasks
    PROVE  \A u \in Waves : task[u] \in {"none", "done"}
<1>. SUFFICES ASSUME NEW u \in Waves, Unfinished(u) PROVE FALSE
  BY DEF Unfinished
<1>1. PICK s \in DOMAIN futures : futures[s] = u
  BY DEF JoinTasks, IInv, TasksHeld, Held, Preloading
<1>2. u # 0 BY NWavesAssumption DEF Waves
<1>. QED BY <1>1, <1>2 DEF JoinTasks, Finished, Unfinished

LEMMA SelectKeeps ==
    ASSUME IInv, NEW w \in Waves, Select(w)
    PROVE  IInv'
<1>1. CacheTypeOK' BY DEF Select, Goto, IInv, CacheTypeOK, Steps
<1>2. AllCurrent' BY DEF Select, Goto, IInv, AllCurrent, Current
<1>3. FetchesRun' BY DEF Select, Goto, IInv, FetchesRun, Launched, Alone,
     Preloading, CacheTypeOK
<1>4. TasksHeld' BY DEF Select, Goto, IInv, TasksHeld, Held, Unfinished, Preloading
<1>5. BuiltReadable' BY DEF Select, Goto, IInv, BuiltReadable
<1>6. HotspotCounts' BY DEF Select, Goto, IInv, HotspotCounts
<1>7. MainCached' BY DEF Select, Goto, IInv, MainCached, Building, Preloading
<1>8. FetchCached' BY DEF Select, Goto, IInv, FetchCached, Building, CacheTypeOK,
     Steps, FetchesRun, Alone
<1>9. ShownCached' BY DEF Select, Goto, IInv, ShownCached
<1>10. OnLine' BY DEF Select, Goto, IInv, OnLine, CacheTypeOK, Steps, FetchesRun,
     Alone
<1>. QED BY <1>1, <1>2, <1>3, <1>4, <1>5, <1>6, <1>7, <1>8, <1>9, <1>10 DEF IInv

LEMMA SetMainKeeps ==
    ASSUME IInv, SetMain
    PROVE  IInv'
<1>1. CacheTypeOK' BY DEF SetMain, Goto, IInv, CacheTypeOK, Steps, FetchesRun, Alone
<1>2. AllCurrent' BY DEF SetMain, Goto, IInv, AllCurrent, Current, CacheTypeOK,
     Steps, FetchesRun, Alone
<1>3. FetchesRun' BY DEF SetMain, Goto, IInv, FetchesRun, Launched, Alone,
     Preloading, CacheTypeOK
<1>4. TasksHeld' BY DEF SetMain, Goto, IInv, TasksHeld, Held, Unfinished, Preloading
<1>5. BuiltReadable' BY DEF SetMain, Goto, IInv, BuiltReadable
<1>6. HotspotCounts' BY DEF SetMain, Goto, IInv, HotspotCounts
<1>7. MainCached' BY KeyOfAssumption DEF SetMain, Goto, IInv, MainCached, Building,
     Preloading, CacheTypeOK, Steps, FetchesRun, Alone, FetchCached
<1>8. FetchCached' BY DEF SetMain, Goto, IInv, FetchCached
<1>9. ShownCached' BY DEF SetMain, Goto, IInv, ShownCached
<1>10. OnLine' BY DEF SetMain, Goto, IInv, OnLine
<1>. QED BY <1>1, <1>2, <1>3, <1>4, <1>5, <1>6, <1>7, <1>8, <1>9, <1>10 DEF IInv

LEMMA FindKeeps ==
    ASSUME IInv, NEW w \in Waves, Find(w)
    PROVE  IInv'
<1>1. CacheTypeOK'
  <2>1. cache[KeyOf[w]] \in Instances BY KeyOfAssumption DEF IInv, CacheTypeOK
  <2>. QED BY <2>1 DEF Find, Goto, Fetched, IInv, CacheTypeOK, Steps
<1>2. AllCurrent'
  <2>1. Current(cache[KeyOf[w]]) BY KeyOfAssumption DEF IInv, AllCurrent
  <2>. QED BY <2>1 DEF Find, Goto, IInv, AllCurrent, Current, CacheTypeOK
<1>3. FetchesRun' BY DEF Find, Goto, Fetched, IInv, FetchesRun, Launched, Alone,
     Preloading, CacheTypeOK
<1>4. TasksHeld' BY DEF Find, Goto, Fetched, IInv, TasksHeld, Held, Unfinished,
     Preloading, CacheTypeOK
<1>5. BuiltReadable' BY DEF Find, Goto, Fetched, IInv, BuiltReadable, CacheTypeOK
<1>6. HotspotCounts' BY DEF Find, Goto, Fetched, IInv, HotspotCounts, Counted,
     Preloading, CacheTypeOK
<1>7. MainCached' BY DEF Find, Goto, Fetched, IInv, MainCached, Building,
     Preloading, CacheTypeOK
<1>8. FetchCached'
  <2>. SUFFICES ASSUME gui \in {"select", "showing"}, NEW v \in Waves
                PROVE  /\ Building(v)' => cache'[KeyOf[v]] = None
                       /\ task'[v] = "done" => got'[v] \in {None, cache'[KeyOf[v]]}
    BY DEF FetchCached, Find
  <2>1. CASE v = w
    BY <2>1 DEF Find, Goto, Fetched, Preloading, Building, IInv, CacheTypeOK
  <2>2. CASE v # w
    BY <2>2 DEF Find, Goto, Building, IInv, FetchCached, CacheTypeOK
  <2>. QED BY <2>1, <2>2
<1>9. ShownCached' BY DEF Find, Goto, Fetched, IInv, ShownCached, Afterwards
<1>10. OnLine' BY DEF Find, Goto, Fetched, IInv, OnLine, CacheTypeOK
<1>. QED BY <1>1, <1>2, <1>3, <1>4, <1>5, <1>6, <1>7, <1>8, <1>9, <1>10 DEF IInv

LEMMA BuildFailsKeeps ==
    ASSUME IInv, NEW w \in Waves, BuildFails(w)
    PROVE  IInv'
<1>1. CacheTypeOK'
  <2>1. None \in Instances BY DEF Instances
  <2>. QED BY <2>1 DEF BuildFails, Goto, IInv, CacheTypeOK, Steps
<1>2. AllCurrent' BY DEF BuildFails, Goto, IInv, AllCurrent, Current
<1>3. FetchesRun' BY DEF BuildFails, Goto, IInv, FetchesRun, Launched, Alone,
     Preloading
<1>4. TasksHeld' BY DEF BuildFails, Goto, IInv, TasksHeld, Held, Unfinished,
     Preloading
<1>5. BuiltReadable' BY DEF BuildFails, Goto, IInv, BuiltReadable
<1>6. HotspotCounts' BY DEF BuildFails, Goto, IInv, HotspotCounts, Counted,
     Preloading
<1>7. MainCached' BY DEF BuildFails, Goto, IInv, MainCached, Building, Preloading
<1>8. FetchCached' BY DEF BuildFails, Goto, IInv, FetchCached, Building, CacheTypeOK
<1>9. ShownCached' BY DEF BuildFails, Goto, IInv, ShownCached, Afterwards
<1>10. OnLine' BY DEF BuildFails, Goto, IInv, OnLine
<1>. QED BY <1>1, <1>2, <1>3, <1>4, <1>5, <1>6, <1>7, <1>8, <1>9, <1>10 DEF IInv

LEMMA BuildKeeps ==
    ASSUME IInv, NEW w \in Waves, Build(w)
    PROVE  IInv'
<1>1. CacheTypeOK'
  <2>1. <<load, w>> \in Instances BY DEF Instances, IInv, CacheTypeOK
  <2>. QED BY <2>1 DEF Build, Goto, L!StartToken, IInv, CacheTypeOK, Steps
<1>2. AllCurrent' BY DEF Build, Goto, L!StartToken, IInv, AllCurrent, Current
<1>3. FetchesRun' BY DEF Build, Goto, L!StartToken, IInv, FetchesRun, Launched,
     Alone, Preloading
<1>4. TasksHeld' BY DEF Build, Goto, L!StartToken, IInv, TasksHeld, Held,
     Unfinished, Preloading
<1>5. BuiltReadable' BY DEF Build, Goto, L!StartToken, IInv, BuiltReadable
<1>6. HotspotCounts' BY DEF Build, Goto, L!StartToken, IInv, HotspotCounts, Counted,
     Preloading
<1>7. MainCached' BY DEF Build, Goto, L!StartToken, IInv, MainCached, Building,
     Preloading
<1>8. FetchCached' BY DEF Build, Goto, L!StartToken, IInv, FetchCached, Building
<1>9. ShownCached' BY DEF Build, Goto, L!StartToken, IInv, ShownCached, Afterwards
<1>10. OnLine' BY DEF Build, Goto, L!StartToken, IInv, OnLine, CacheTypeOK
<1>. QED BY <1>1, <1>2, <1>3, <1>4, <1>5, <1>6, <1>7, <1>8, <1>9, <1>10 DEF IInv

LEMMA AttributeLineKeeps ==
    ASSUME IInv, NEW w \in Waves, AttributeLine(w)
    PROVE  IInv'
<1>0. task[w] = "line" /\ task' \in {task, [task EXCEPT ![w] = "insert"]}
  BY DEF AttributeLine, Goto
<1>1. CacheTypeOK' BY DEF AttributeLine, Goto, L!AttributeStep,
     L!ExchangeUnattributed, L!TestImmediate, L!ExchangeImmediate, IInv,
     CacheTypeOK, Steps
<1>2. AllCurrent' BY DEF AttributeLine, Goto, L!AttributeStep,
     L!ExchangeUnattributed, L!TestImmediate, L!ExchangeImmediate, IInv, AllCurrent,
     Current
<1>3. FetchesRun'
  <2>1. \A u \in Waves : /\ task[u] = "none" <=> task'[u] = "none"
                         /\ task[u] = "add" <=> task'[u] = "add"
    BY <1>0 DEF IInv, CacheTypeOK
  <2>2. gui' = gui /\ next' = next /\ vis' = vis /\ mainWave' = mainWave
    BY DEF AttributeLine
  <2>. QED BY <2>1, <2>2 DEF IInv, FetchesRun, Launched, Alone, Preloading
<1>4. TasksHeld' BY DEF AttributeLine, Goto, L!AttributeStep,
     L!ExchangeUnattributed, L!TestImmediate, L!ExchangeImmediate, IInv, TasksHeld,
     Held, Unfinished, Preloading, CacheTypeOK
<1>5. BuiltReadable' BY DEF AttributeLine, Goto, L!AttributeStep,
     L!ExchangeUnattributed, L!TestImmediate, L!ExchangeImmediate, IInv,
     BuiltReadable, CacheTypeOK
<1>6. HotspotCounts' BY DEF AttributeLine, Goto, L!AttributeStep,
     L!ExchangeUnattributed, L!TestImmediate, L!ExchangeImmediate, IInv,
     HotspotCounts, Counted, Preloading, CacheTypeOK
<1>7. MainCached' BY DEF AttributeLine, Goto, L!AttributeStep,
     L!ExchangeUnattributed, L!TestImmediate, L!ExchangeImmediate, IInv, MainCached,
     Building, Preloading, CacheTypeOK
<1>8. FetchCached' BY DEF AttributeLine, Goto, L!AttributeStep,
     L!ExchangeUnattributed, L!TestImmediate, L!ExchangeImmediate, IInv,
     FetchCached, Building, CacheTypeOK
<1>9. ShownCached' BY DEF AttributeLine, Goto, L!AttributeStep,
     L!ExchangeUnattributed, L!TestImmediate, L!ExchangeImmediate, IInv,
     ShownCached, Afterwards
<1>10. OnLine' BY DEF AttributeLine, Goto, L!AttributeStep, L!ExchangeUnattributed,
     L!TestImmediate, L!ExchangeImmediate, IInv, OnLine, CacheTypeOK
<1>. QED BY <1>1, <1>2, <1>3, <1>4, <1>5, <1>6, <1>7, <1>8, <1>9, <1>10 DEF IInv

LEMMA InsertKeeps ==
    ASSUME IInv, NEW w \in Waves, Insert(w)
    PROVE  IInv'
<1>1. CacheTypeOK' BY DEF Insert, Goto, Fetched, IInv, CacheTypeOK, Steps
<1>2. AllCurrent' BY DEF Insert, Goto, Fetched, IInv, AllCurrent, Current
<1>3. FetchesRun' BY DEF Insert, Goto, Fetched, IInv, FetchesRun, Launched, Alone,
     Preloading
<1>4. TasksHeld' BY DEF Insert, Goto, Fetched, IInv, TasksHeld, Held, Unfinished,
     Preloading
<1>5. BuiltReadable' BY DEF Insert, Goto, Fetched, IInv, BuiltReadable
<1>6. HotspotCounts' BY DEF Insert, Goto, Fetched, IInv, HotspotCounts, Counted,
     Preloading
<1>7. MainCached'
  <2>1. cache[KeyOf[w]] = None \/ Preloading
    BY DEF Insert, IInv, FetchesRun, FetchCached, Building, Preloading, CacheTypeOK
  <2>2. ASSUME gui # "select", main # None PROVE KeyOf[w] # KeyOf[mainWave]
    BY <2>1, <2>2 DEF Insert, IInv, MainCached, Building
  <2>. QED BY <2>2, KeyOfAssumption
           DEF Insert, Goto, Fetched, IInv, MainCached, Building, Preloading, CacheTypeOK
<1>8. FetchCached' BY KeyOfAssumption DEF Insert, Goto, Fetched, IInv, FetchCached,
     Building, CacheTypeOK, Steps, FetchesRun, Alone, Preloading
<1>9. ShownCached'
  <2>1. cache[KeyOf[w]] = None \/ Preloading
    BY DEF Insert, IInv, FetchesRun, FetchCached, Building, Preloading, CacheTypeOK
  <2>2. ASSUME NEW v \in Waves, gui \notin {"idle", "select"}, shown[v] # None
        PROVE  KeyOf[v] # KeyOf[w]
    BY <2>1, <2>2 DEF IInv, ShownCached, Afterwards, Preloading
  <2>. QED BY <2>2, KeyOfAssumption DEF Insert, IInv, ShownCached, Afterwards, CacheTypeOK
<1>10. OnLine' BY DEF Insert, Goto, Fetched, IInv, OnLine
<1>. QED BY <1>1, <1>2, <1>3, <1>4, <1>5, <1>6, <1>7, <1>8, <1>9, <1>10 DEF IInv

LEMMA AddTokensKeeps ==
    ASSUME IInv, NEW w \in Waves, AddTokens(w)
    PROVE  IInv'
<1>1. CacheTypeOK'
  <2>1. bins \in [Waves -> Nat] BY DEF IInv, CacheTypeOK
  <2>2. bins[w] + 1 \in Nat BY <2>1
  <2>. QED BY <2>2 DEF AddTokens, Goto, IInv, CacheTypeOK, Steps
<1>2. AllCurrent' BY DEF AddTokens, Goto, IInv, AllCurrent, Current
<1>3. FetchesRun' BY DEF AddTokens, Goto, IInv, FetchesRun, Launched, Alone,
     Preloading
<1>4. TasksHeld' BY DEF AddTokens, Goto, IInv, TasksHeld, Held, Unfinished,
     Preloading
<1>5. BuiltReadable' BY DEF AddTokens, Goto, IInv, BuiltReadable
<1>6. HotspotCounts'
  <2>1. Preloading BY DEF AddTokens, IInv, FetchesRun, Alone, Preloading, CacheTypeOK
  <2>2. KeyOf[w] \notin broken BY DEF AddTokens, IInv, BuiltReadable
  <2>3. bins[w] = 0 BY <2>1 DEF AddTokens, IInv, HotspotCounts, Counted, Preloading
  <2>4. \A v \in Waves : bins'[v] = IF v = w THEN 1 ELSE bins[v]
    BY <2>3 DEF AddTokens, IInv, CacheTypeOK
  <2>5. Counted(w)'
    BY <2>1, <2>2 DEF AddTokens, Goto, Counted, Preloading, IInv, CacheTypeOK
  <2>6. \A v \in Waves : v # w => (Counted(v)' <=> Counted(v))
    BY DEF AddTokens, Goto, Counted, Preloading, IInv, CacheTypeOK
  <2>7. \A v \in Waves : bins[v] = IF Counted(v) THEN 1 ELSE 0
    BY <2>1 DEF IInv, HotspotCounts, Preloading
  <2>. QED BY <2>4, <2>5, <2>6, <2>7 DEF HotspotCounts
<1>7. MainCached' BY DEF AddTokens, Goto, IInv, MainCached, Building, Preloading
<1>8. FetchCached' BY DEF AddTokens, Goto, IInv, FetchCached, Building, CacheTypeOK,
     Steps, FetchesRun, Alone
<1>9. ShownCached' BY DEF AddTokens, Goto, IInv, ShownCached, Afterwards
<1>10. OnLine' BY DEF AddTokens, Goto, IInv, OnLine
<1>. QED BY <1>1, <1>2, <1>3, <1>4, <1>5, <1>6, <1>7, <1>8, <1>9, <1>10 DEF IInv

LEMMA BeginGatherKeeps ==
    ASSUME IInv, NEW v \in SUBSET Waves, BeginGather(v)
    PROVE  IInv'
<1>1. CacheTypeOK'
  <2>1. NoInstance \in [Waves -> Instances] BY DEF NoInstance, Instances
  <2>2. 1 \in 1 .. (NWaves + 1) BY NWavesAssumption
  <2>. QED BY <2>1, <2>2 DEF BeginGather, IInv, CacheTypeOK
<1>2. AllCurrent' BY DEF BeginGather, NoInstance, IInv, AllCurrent, Current
<1>3. FetchesRun' BY NWavesAssumption DEF BeginGather, NoInstance, IInv, FetchesRun,
     Launched, Alone, Preloading, CacheTypeOK, Steps, Waves
<1>4. TasksHeld' BY DEF BeginGather, NoInstance, IInv, TasksHeld, Held, Unfinished,
     Preloading, CacheTypeOK, Steps, FetchesRun, Alone
<1>5. BuiltReadable' BY DEF BeginGather, NoInstance, IInv, BuiltReadable
<1>6. HotspotCounts' BY DEF BeginGather, NoInstance, IInv, HotspotCounts, Counted,
     Preloading, CacheTypeOK, Steps, FetchesRun, Alone
<1>7. MainCached' BY DEF BeginGather, NoInstance, IInv, MainCached, Building,
     Preloading, CacheTypeOK, Steps, FetchesRun, Alone
<1>8. FetchCached' BY DEF BeginGather, NoInstance, IInv, FetchCached
<1>9. ShownCached' BY DEF BeginGather, NoInstance, IInv, ShownCached
<1>10. OnLine' BY DEF BeginGather, NoInstance, IInv, OnLine
<1>. QED BY <1>1, <1>2, <1>3, <1>4, <1>5, <1>6, <1>7, <1>8, <1>9, <1>10 DEF IInv

LEMMA SkipHiddenKeeps ==
    ASSUME IInv, SkipHidden
    PROVE  IInv'
<1>1. CacheTypeOK'
  <2>1. next + 1 \in 1 .. (NWaves + 1) BY NWavesAssumption DEF SkipHidden, Waves
  <2>. QED BY <2>1 DEF SkipHidden, IInv, CacheTypeOK
<1>2. AllCurrent' BY DEF SkipHidden, IInv, AllCurrent, Current
<1>3. FetchesRun'
  <2>1. ASSUME NEW u \in Waves, u \in vis PROVE u < next + 1 <=> u < next
    <3>1. u # next /\ u \in Int /\ next \in Int
      BY <2>1 DEF SkipHidden, Waves
    <3>. QED BY <3>1
  <2>2. \A u \in Waves : Launched(u)' <=> Launched(u)
    BY <2>1 DEF SkipHidden, Launched
  <2>. QED BY <2>2 DEF SkipHidden, IInv, FetchesRun, Alone, Preloading
<1>4. TasksHeld' BY DEF SkipHidden, IInv, TasksHeld, Held, Unfinished, Preloading
<1>5. BuiltReadable' BY DEF SkipHidden, IInv, BuiltReadable
<1>6. HotspotCounts' BY DEF SkipHidden, IInv, HotspotCounts, Counted, Preloading
<1>7. MainCached' BY DEF SkipHidden, IInv, MainCached, Building, Preloading
<1>8. FetchCached' BY DEF SkipHidden, IInv, FetchCached
<1>9. ShownCached' BY DEF SkipHidden, IInv, ShownCached, Afterwards
<1>10. OnLine' BY DEF SkipHidden, IInv, OnLine
<1>. QED BY <1>1, <1>2, <1>3, <1>4, <1>5, <1>6, <1>7, <1>8, <1>9, <1>10 DEF IInv

LEMMA LaunchKeeps ==
    ASSUME IInv, Launch
    PROVE  IInv'
<1>1. CacheTypeOK' BY DEF Launch, Goto, IInv, CacheTypeOK, Steps
<1>2. AllCurrent' BY DEF Launch, Goto, IInv, AllCurrent, Current
<1>3. FetchesRun' BY DEF Launch, Goto, IInv, FetchesRun, Launched, Alone,
     Preloading, CacheTypeOK
<1>4. TasksHeld' BY DEF Launch, Goto, IInv, TasksHeld, Held, Unfinished, Preloading
<1>5. BuiltReadable' BY DEF Launch, Goto, IInv, BuiltReadable
<1>60. gui = "launch" /\ gui' = "store" /\ task' = [task EXCEPT ![next] = "find"]
  BY DEF Launch, Goto
<1>61. next \in Waves /\ task[next] = "none"
  <2>1. next \in Waves /\ Waves \subseteq Int BY DEF Launch, IInv, CacheTypeOK, Waves
  <2>2. ~(next < next) BY <2>1
  <2>3. ~Launched(next) BY <1>60, <2>2 DEF Launched
  <2>. HIDE DEF Launched
  <2>. QED BY <1>60, <2>1, <2>3 DEF IInv, FetchesRun, Preloading
<1>62. /\ task'[next] = "find"
       /\ \A u \in Waves : u # next => task'[u] = task[u]
  BY <1>60, <1>61 DEF IInv, CacheTypeOK
<1>6. HotspotCounts'
  <2>1. \A u \in Waves : task'[u] = "done" <=> task[u] = "done"
    BY <1>61, <1>62
  <2>. QED BY <1>60, <2>1 DEF Launch, IInv, HotspotCounts, Counted, Preloading
<1>7. MainCached' BY DEF Launch, Goto, IInv, MainCached, Building, Preloading
<1>8. FetchCached' BY DEF Launch, Goto, IInv, FetchCached
<1>9. ShownCached' BY DEF Launch, Goto, IInv, ShownCached, Afterwards
<1>10. OnLine' BY <1>61, <1>62 DEF Launch, IInv, OnLine
<1>. QED BY <1>1, <1>2, <1>3, <1>4, <1>5, <1>6, <1>7, <1>8, <1>9, <1>10 DEF IInv

LEMMA SlotOfArray == count \in Nat => Slot \in 0 .. (Slots - 1)
<1>1. \A c \in Nat, n \in Nat \ {0} : c % n \in 0 .. (n - 1) OBVIOUS
<1>. QED BY <1>1, SlotsAssumption DEF Slot

LEMMA StoreFutureKeeps ==
    ASSUME IInv, StoreFuture
    PROVE  IInv'
<1>1. CacheTypeOK'
  <2>1. next \in Waves BY DEF StoreFuture, StoreWithoutWait, IInv, FetchesRun, CacheTypeOK
  <2>2. next' \in 1 .. (NWaves + 1)
    BY <2>1, NWavesAssumption DEF StoreFuture, StoreWithoutWait, Waves
  <2>3. futures' \in [0 .. (Slots - 1) -> Waves \cup {0}]
    BY <2>1 DEF StoreFuture, StoreWithoutWait, IInv, CacheTypeOK
  <2>4. count' \in Nat BY DEF StoreFuture, StoreWithoutWait, IInv, CacheTypeOK
  <2>. QED BY <2>2, <2>3, <2>4 DEF StoreFuture, StoreWithoutWait, IInv, CacheTypeOK
<1>2. AllCurrent' BY DEF StoreFuture, StoreWithoutWait, Slot, Finished, IInv,
     AllCurrent, Current
<1>3. FetchesRun'
  <2>1. gui = "store" /\ gui' = "launch" /\ vis' = vis /\ task' = task /\ next' = next + 1
    BY DEF StoreFuture, StoreWithoutWait
  <2>2. next \in Int /\ Waves \subseteq Int BY DEF IInv, CacheTypeOK, Waves
  <2>3. ASSUME NEW u \in Waves PROVE u < next + 1 <=> (u < next \/ u = next)
    BY <2>2
  <2>4. \A u \in Waves : Launched(u)' <=> Launched(u)
    BY <2>1, <2>3 DEF Launched
  <2>5. \A u \in Waves : task[u] = "none" <=> ~Launched(u)
    BY <2>1 DEF IInv, FetchesRun, Preloading
  <2>6. \A u \in Waves : task'[u] = "none" <=> ~Launched(u)'
    BY <2>1, <2>4, <2>5
  <2>. HIDE DEF Launched
  <2>. QED BY <2>1, <2>6 DEF FetchesRun
<1>4. TasksHeld'
  <2>. SUFFICES ASSUME NEW u \in Waves, Unfinished(u)' PROVE Held(u)'
    BY DEF TasksHeld
  <2>1. CASE u = next
    <3>1. Slot \in DOMAIN futures BY SlotOfArray DEF IInv, CacheTypeOK
    <3>. QED BY <2>1, <3>1 DEF StoreFuture, StoreWithoutWait, Held, IInv, CacheTypeOK
  <2>2. CASE u # next
    <3>1. Unfinished(u) BY DEF StoreFuture, StoreWithoutWait, Unfinished
    <3>2. PICK s \in DOMAIN futures : futures[s] = u
      BY <2>2, <3>1 DEF StoreFuture, StoreWithoutWait, IInv, TasksHeld, Held, Preloading
    <3>3. u # 0 BY NWavesAssumption DEF Waves
    <3>4. s # Slot
      BY <3>1, <3>2, <3>3 DEF StoreFuture, Finished, Unfinished
    <3>. QED BY <3>2, <3>4 DEF StoreFuture, StoreWithoutWait, Held, IInv, CacheTypeOK
  <2>. QED BY <2>1, <2>2
<1>5. BuiltReadable' BY DEF StoreFuture, StoreWithoutWait, Slot, Finished, IInv,
     BuiltReadable
<1>6. HotspotCounts' BY DEF StoreFuture, StoreWithoutWait, Slot, Finished, IInv,
     HotspotCounts, Counted, Preloading
<1>7. MainCached' BY DEF StoreFuture, StoreWithoutWait, Slot, Finished, IInv,
     MainCached, Building, Preloading
<1>8. FetchCached' BY DEF StoreFuture, StoreWithoutWait, Slot, Finished, IInv,
     FetchCached
<1>9. ShownCached' BY DEF StoreFuture, StoreWithoutWait, Slot, Finished, IInv,
     ShownCached, Afterwards
<1>10. OnLine' BY DEF StoreFuture, StoreWithoutWait, Slot, Finished, IInv, OnLine
<1>. QED BY <1>1, <1>2, <1>3, <1>4, <1>5, <1>6, <1>7, <1>8, <1>9, <1>10 DEF IInv

LEMMA JoinTasksKeeps ==
    ASSUME IInv, JoinTasks
    PROVE  IInv'
<1>1. CacheTypeOK'
  <2>1. NoTask \in [Waves -> Steps] BY DEF NoTask, Steps
  <2>2. 1 \in 1 .. (NWaves + 1) BY NWavesAssumption
  <2>. QED BY <2>1, <2>2 DEF JoinTasks, IInv, CacheTypeOK
<1>2. AllCurrent' BY DEF JoinTasks, NoTask, Finished, IInv, AllCurrent, Current
<1>3. FetchesRun' BY DEF JoinTasks, NoTask, Finished, IInv, FetchesRun, Launched,
     Alone, Preloading
<1>4. TasksHeld' BY DEF JoinTasks, NoTask, Finished, IInv, TasksHeld, Held,
     Unfinished, Preloading
<1>5. BuiltReadable' BY DEF JoinTasks, NoTask, Finished, IInv, BuiltReadable
<1>6. HotspotCounts'
  <2>1. \A u \in Waves : task[u] \in {"none", "done"} BY AllJoined
  <2>2. \A u \in Waves : u < next BY NWavesAssumption DEF JoinTasks, IInv, CacheTypeOK, Waves
  <2>3. \A u \in Waves : u \in vis <=> task[u] = "done"
    BY <2>1, <2>2 DEF JoinTasks, IInv, FetchesRun, Preloading, Launched
  <2>. QED BY <2>3 DEF JoinTasks, IInv, HotspotCounts, Counted, Preloading
<1>7. MainCached' BY DEF JoinTasks, NoTask, Finished, IInv, MainCached, Building,
     Preloading
<1>8. FetchCached' BY DEF JoinTasks, NoTask, Finished, IInv, FetchCached
<1>9. ShownCached' BY DEF JoinTasks, NoTask, Finished, IInv, ShownCached, Afterwards
<1>10. OnLine'
  <2>1. \A u \in Waves : task[u] \in {"none", "done"} BY AllJoined
  <2>. QED BY <2>1 DEF JoinTasks, NoTask, IInv, OnLine
<1>. QED BY <1>1, <1>2, <1>3, <1>4, <1>5, <1>6, <1>7, <1>8, <1>9, <1>10 DEF IInv

LEMMA ShowNextKeeps ==
    ASSUME IInv, ShowNext
    PROVE  IInv'
<1>1. CacheTypeOK'
  <2>1. next + 1 \in 1 .. (NWaves + 1) BY NWavesAssumption DEF ShowNext, Waves
  <2>. QED BY <2>1 DEF ShowNext, Goto, IInv, CacheTypeOK, Steps
<1>2. AllCurrent' BY DEF ShowNext, Goto, IInv, AllCurrent, Current
<1>3. FetchesRun'
  <2>1. gui = "show" /\ next \in Waves /\ \A u \in Waves : task[u] = "none"
    BY DEF ShowNext, IInv, FetchesRun
  <2>2. CASE next \in vis
    <3>1. gui' = "showing" /\ next' = next /\ task' = [task EXCEPT ![next] = "find"]
      BY <2>2 DEF ShowNext, Goto
    <3>2. task'[next] = "find" /\ \A u \in Waves \ {next} : task'[u] = "none"
      BY <2>1, <3>1 DEF IInv, CacheTypeOK
    <3>3. Alone(next)' BY <2>1, <3>1, <3>2 DEF Alone
    <3>. QED BY <3>1, <3>3 DEF FetchesRun, Preloading
  <2>3. CASE next \notin vis
    <3>1. gui' = "show" /\ task' = task BY <2>1, <2>3 DEF ShowNext
    <3>. QED BY <2>1, <3>1 DEF FetchesRun, Preloading
  <2>. QED BY <2>2, <2>3
<1>4. TasksHeld' BY DEF ShowNext, Goto, IInv, TasksHeld, Held, Unfinished,
     Preloading
<1>5. BuiltReadable' BY DEF ShowNext, Goto, IInv, BuiltReadable, CacheTypeOK
<1>6. HotspotCounts' BY DEF ShowNext, Goto, IInv, HotspotCounts, Counted, Preloading
<1>7. MainCached' BY DEF ShowNext, Goto, IInv, MainCached, Building, Preloading
<1>8. FetchCached'
  <2>1. gui = "show" /\ next \in Waves /\ \A u \in Waves : task[u] = "none"
    BY DEF ShowNext, IInv, FetchesRun
  <2>2. task' \in {task, [task EXCEPT ![next] = "find"]} BY DEF ShowNext, Goto
  <2>3. \A u \in Waves : task'[u] \in {"none", "find"}
    BY <2>1, <2>2 DEF IInv, CacheTypeOK
  <2>. QED BY <2>3 DEF FetchCached, Building
<1>9. ShownCached' BY DEF ShowNext, Goto, IInv, ShownCached, Afterwards
<1>10. OnLine' BY DEF ShowNext, Goto, IInv, OnLine, CacheTypeOK, Steps, FetchesRun,
     Alone
<1>. QED BY <1>1, <1>2, <1>3, <1>4, <1>5, <1>6, <1>7, <1>8, <1>9, <1>10 DEF IInv

LEMMA ShowKeeps ==
    ASSUME IInv, Show
    PROVE  IInv'
<1>1. CacheTypeOK'
  <2>1. next \in Waves BY DEF Show, IInv, FetchesRun, Alone
  <2>2. next + 1 \in 1 .. (NWaves + 1) BY <2>1, NWavesAssumption DEF Waves
  <2>. QED BY <2>1, <2>2 DEF Show, Goto, IInv, CacheTypeOK, Steps
<1>2. AllCurrent' BY DEF Show, Goto, IInv, AllCurrent, Current
<1>3. FetchesRun' BY DEF Show, Goto, IInv, FetchesRun, Launched, Alone, Preloading,
     CacheTypeOK
<1>4. TasksHeld' BY DEF Show, Goto, IInv, TasksHeld, Held, Unfinished, Preloading
<1>5. BuiltReadable' BY DEF Show, Goto, IInv, BuiltReadable
<1>6. HotspotCounts' BY DEF Show, Goto, IInv, HotspotCounts, Counted, Preloading
<1>7. MainCached' BY DEF Show, Goto, IInv, MainCached, Building, Preloading
<1>8. FetchCached' BY DEF Show, Goto, IInv, FetchCached
<1>9. ShownCached' BY KeyOfAssumption DEF Show, Goto, IInv, ShownCached, Afterwards,
     CacheTypeOK, Steps, FetchesRun, Alone, Preloading, Building, FetchCached
<1>10. OnLine' BY DEF Show, Goto, IInv, OnLine
<1>. QED BY <1>1, <1>2, <1>3, <1>4, <1>5, <1>6, <1>7, <1>8, <1>9, <1>10 DEF IInv

LEMMA EndGatherKeeps ==
    ASSUME IInv, EndGather
    PROVE  IInv'
<1>1. CacheTypeOK'
  <2>1. 1 \in 1 .. (NWaves + 1) BY NWavesAssumption
  <2>. QED BY <2>1 DEF EndGather, IInv, CacheTypeOK
<1>2. AllCurrent' BY DEF EndGather, IInv, AllCurrent, Current
<1>3. FetchesRun' BY DEF EndGather, IInv, FetchesRun, Launched, Alone, Preloading
<1>4. TasksHeld' BY DEF EndGather, IInv, TasksHeld, Held, Unfinished, Preloading
<1>5. BuiltReadable' BY DEF EndGather, IInv, BuiltReadable
<1>6. HotspotCounts' BY DEF EndGather, IInv, HotspotCounts
<1>7. MainCached' BY DEF EndGather, IInv, MainCached, Building, Preloading
<1>8. FetchCached' BY DEF EndGather, IInv, FetchCached
<1>9. ShownCached' BY DEF EndGather, IInv, ShownCached
<1>10. OnLine' BY DEF EndGather, IInv, OnLine
<1>. QED BY <1>1, <1>2, <1>3, <1>4, <1>5, <1>6, <1>7, <1>8, <1>9, <1>10 DEF IInv

LEMMA ReloadKeeps ==
    ASSUME IInv, Reload
    PROVE  IInv'
<1>1. CacheTypeOK'
  <2>1. load + 1 \in 1 .. MaxLoads BY MaxLoadsAssumption DEF Reload, IInv, CacheTypeOK
  <2>2. NothingCached \in [Keys -> Instances] /\ NoInstance \in [Waves -> Instances]
    BY DEF NothingCached, NoInstance, Instances
  <2>3. None \in Instances BY DEF Instances
  <2>. QED BY <2>1, <2>2, <2>3 DEF Reload, L!Renew, IInv, CacheTypeOK
<1>2. AllCurrent' BY DEF Reload, NothingCached, NoInstance, L!Renew, IInv,
     AllCurrent, Current
<1>3. FetchesRun' BY DEF Reload, NothingCached, NoInstance, L!Renew, IInv,
     FetchesRun, Launched, Alone, Preloading
<1>4. TasksHeld' BY DEF Reload, NothingCached, NoInstance, L!Renew, IInv, TasksHeld,
     Held, Unfinished, Preloading
<1>5. BuiltReadable' BY DEF Reload, NothingCached, NoInstance, L!Renew, IInv,
     BuiltReadable, CacheTypeOK, Steps, FetchesRun, Alone
<1>6. HotspotCounts' BY DEF Reload, NothingCached, NoInstance, L!Renew, IInv,
     HotspotCounts
<1>7. MainCached' BY DEF Reload, NothingCached, NoInstance, L!Renew, IInv,
     MainCached, Building, Preloading
<1>8. FetchCached' BY DEF Reload, NothingCached, NoInstance, L!Renew, IInv,
     FetchCached
<1>9. ShownCached' BY DEF Reload, NothingCached, NoInstance, L!Renew, IInv,
     ShownCached
<1>10. OnLine' BY DEF Reload, NothingCached, NoInstance, L!Renew, IInv, OnLine
<1>. QED BY <1>1, <1>2, <1>3, <1>4, <1>5, <1>6, <1>7, <1>8, <1>9, <1>10 DEF IInv

-----------------------------------------------------------------------------
LEMMA InitIInv == Init => IInv
<1>. SUFFICES ASSUME Init PROVE IInv
  OBVIOUS
<1>1. CacheTypeOK
  <2>1. /\ None \in Instances
        /\ NoInstance \in [Waves -> Instances]
        /\ NothingCached \in [Keys -> Instances]
    BY DEF Instances, NoInstance, NothingCached
  <2>2. 1 \in 1 .. (NWaves + 1) /\ 1 \in 1 .. MaxLoads
    BY NWavesAssumption, MaxLoadsAssumption
  <2>3. TypeOf \in [Waves -> {TypeOf[w] : w \in Waves}]
    BY TypeOfAssumption
  <2>. QED BY <2>1, <2>2, <2>3 DEF Init, CacheTypeOK, NoTask, Steps
<1>2. /\ AllCurrent /\ FetchesRun /\ TasksHeld /\ BuiltReadable /\ HotspotCounts
      /\ MainCached /\ FetchCached /\ ShownCached /\ OnLine
  BY DEF Init, NothingCached, NoInstance, NoTask, AllCurrent, Current, FetchesRun, TasksHeld,
         BuiltReadable, HotspotCounts, MainCached, FetchCached, ShownCached, OnLine, Preloading
<1>. QED BY <1>1, <1>2 DEF IInv

LEMMA NextIInv == IInv /\ [Next]_vars => IInv'
<1>. SUFFICES ASSUME IInv, [Next]_vars PROVE IInv'
  OBVIOUS
<1>1. CASE \E w \in Waves : Select(w) \/ FetchStep(w)
  BY <1>1, SelectKeeps, FindKeeps, BuildFailsKeeps, BuildKeeps, AttributeLineKeeps,
     InsertKeeps, AddTokensKeeps DEF FetchStep
<1>2. CASE SetMain \/ Reload
  BY <1>2, SetMainKeeps, ReloadKeeps
<1>3. CASE Gather
  BY <1>3, BeginGatherKeeps, SkipHiddenKeeps, LaunchKeeps, StoreFutureKeeps, JoinTasksKeeps,
     ShowNextKeeps, ShowKeeps, EndGatherKeeps DEF Gather
<1>4. CASE UNCHANGED vars
  <2>1. CacheTypeOK' BY <1>4 DEF vars, cacheVars, IInv, CacheTypeOK
  <2>2. (AllCurrent /\ BuiltReadable /\ OnLine)'
    BY <1>4 DEF vars, cacheVars, IInv, AllCurrent, Current, BuiltReadable, OnLine
  <2>3. (FetchesRun /\ TasksHeld)'
    BY <1>4 DEF vars, cacheVars, IInv, FetchesRun, TasksHeld, Launched, Alone, Preloading,
                Held, Unfinished
  <2>4. (HotspotCounts /\ MainCached /\ FetchCached /\ ShownCached)'
    BY <1>4 DEF vars, cacheVars, IInv, HotspotCounts, MainCached, FetchCached, ShownCached,
                Counted, Preloading, Building, Afterwards
  <2>. QED BY <2>1, <2>2, <2>3, <2>4 DEF IInv
<1>. QED BY <1>1, <1>2, <1>3, <1>4 DEF Next

(* The invariant of the cache and of the preloading.                       *)
THEOREM CacheInvariance == Spec => []IInv
  BY InitIInv, NextIInv, PTL DEF Spec

(* The view, the cache and main_wave never refer to a wave of an earlier   *)
(* load, whatever keys the loads have in common.                           *)
THEOREM CacheOfThisLoad == Spec => []CacheCurrent
<1>1. IInv => CacheCurrent BY DEF IInv, AllCurrent, Current, CacheCurrent
<1>. QED BY <1>1, CacheInvariance, PTL

(* When the rows are made, each visible wave that can be read has been     *)
(* added to the hotspot once.                                              *)
THEOREM HotspotCountsOnce == Spec => []HotspotExact
<1>1. IInv => HotspotExact
  BY DEF IInv, HotspotCounts, Counted, Preloading, HotspotExact, Afterwards, Loaded
<1>. QED BY <1>1, CacheInvariance, PTL

(* The rows and main_wave refer to the objects of the cache, although      *)
(* several tasks may have built a wave of the same key.                    *)
THEOREM ViewsOfOneObject == Spec => []ViewsShareInstances
<1>1. IInv => ViewsShareInstances
  BY DEF IInv, MainCached, ShownCached, ViewsShareInstances, Afterwards
<1>. QED BY <1>1, CacheInvariance, PTL

(* No more tasks run than there are futures, one more while its future is  *)
(* being stored, and none but the user interface's own fetch outside the   *)
(* preloading.                                                             *)
THEOREM TasksWithinSlots == Spec => []TasksBounded
<1>1. ASSUME IInv PROVE TasksBounded
  <2>. DEFINE Array == 0 .. (Slots - 1)
              Kept  == {w \in Running : \E s \in Array : futures[s] = w}
  <2>1. PICK h \in [Kept -> Array] : \A w \in Kept : futures[h[w]] = w
    <3>. DEFINE SlotOf == [w \in Kept |-> CHOOSE s \in Array : futures[s] = w]
    <3>1. SlotOf \in [Kept -> Array] /\ \A w \in Kept : futures[SlotOf[w]] = w
      OBVIOUS
    <3>. QED BY <3>1
  <2>2. h \in Injection(Kept, Array)
    BY <2>1 DEF Injection, IsInjective
  <2>3. IsFiniteSet(Array) /\ Cardinality(Array) = Slots
    BY FS_Interval, SlotsAssumption
  <2>4. /\ IsFiniteSet(Kept) /\ Cardinality(Kept) \in Nat
        /\ Cardinality(Kept) <= Slots
    BY <2>2, <2>3, FS_Injection, FS_CardinalityType
  <2>5. /\ IsFiniteSet(Kept \cup {next})
        /\ Cardinality(Kept \cup {next}) \in {Cardinality(Kept), Cardinality(Kept) + 1}
    <3>. HIDE DEF Kept
    <3>. QED BY <2>4, FS_AddElement
  <2>6. CASE gui = "launch"
    <3>1. Running = Kept
      BY <1>1, <2>6 DEF IInv, CacheTypeOK, TasksHeld, Held, Preloading, Running
    <3>. QED BY <2>4, <2>6, <3>1 DEF TasksBounded
  <2>7. CASE gui = "store"
    <3>1. Running \subseteq Kept \cup {next}
      BY <1>1, <2>7 DEF IInv, CacheTypeOK, TasksHeld, Held, Preloading, Running
    <3>2. Cardinality(Running) \in Nat /\ Cardinality(Running) <= Cardinality(Kept \cup {next})
      BY <2>5, <3>1, FS_Subset, FS_CardinalityType
    <3>. HIDE DEF Kept
    <3>3. Cardinality(Running) <= Slots + 1
      BY <2>4, <2>5, <3>2, SlotsAssumption
    <3>. QED BY <2>7, <3>3 DEF TasksBounded
  <2>8. CASE gui \in {"select", "showing", "idle", "show"}
    BY <1>1, <2>8 DEF IInv, FetchesRun, Alone, Unfinished, Running, TasksBounded
  <2>. QED BY <1>1, <2>6, <2>7, <2>8 DEF IInv, CacheTypeOK
<1>. QED BY <1>1, CacheInvariance, PTL

-----------------------------------------------------------------------------
(* The threads that build waves implement LineType: every step of the      *)
(* cache is one of the line, or leaves it alone.                           *)
LEMMA StepOfLine == [Next]_vars => [L!LineNext]_L!lineVars
<1>. SUFFICES ASSUME Next PROVE L!LineNext \/ UNCHANGED L!lineVars
  BY DEF vars, cacheVars, L!lineVars
<1>1. ASSUME NEW w \in Waves, Build(w) PROVE L!LineNext
  BY <1>1 DEF Build, L!LineNext
<1>2. ASSUME NEW w \in Waves, AttributeLine(w) PROVE L!LineNext
  BY <1>2 DEF AttributeLine, L!LineNext
<1>3. CASE Reload
  BY <1>3 DEF Reload, L!LineNext
<1>4. ASSUME NEW w \in Waves,
             Select(w) \/ Find(w) \/ BuildFails(w) \/ Insert(w) \/ AddTokens(w)
      PROVE  UNCHANGED L!lineVars
  BY <1>4 DEF Select, Find, BuildFails, Insert, AddTokens, L!lineVars
<1>5. CASE SetMain \/ Gather
  BY <1>5 DEF SetMain, Gather, BeginGather, SkipHidden, Launch, StoreFuture, StoreWithoutWait,
              JoinTasks, ShowNext, Show, EndGather, L!lineVars
<1>. QED BY <1>1, <1>2, <1>3, <1>4, <1>5 DEF Next, FetchStep

LEMMA InitOfLine == Init => L!LineInit
  BY TypeOfAssumption DEF Init, L!LineInit

(* So the attribution of lines, proved of LineType, holds of the waves     *)
(* that GatherWaves and SetMainWave build.                                 *)
THEOREM LinesAttributed == Spec => []LineAttributed
<1>1. Init => LP!LineInit
  BY InitOfLine DEF L!LineInit, LP!LineInit
<1>2. [Next]_vars => [LP!LineNext]_LP!lineVars
  BY StepOfLine DEF L!LineNext, L!lineVars, L!AttributeStep, L!StartToken, L!Renew,
       L!ExchangeUnattributed, L!TestImmediate, L!ExchangeImmediate, L!Immed,
       LP!LineNext, LP!lineVars, LP!AttributeStep, LP!StartToken, LP!Renew,
       LP!ExchangeUnattributed, LP!TestImmediate, LP!ExchangeImmediate, LP!Immed
<1>3. LP!Attributed => LineAttributed
  BY DEF LP!Attributed, LineAttributed, L!Attributed, LP!Immed, L!Immed
<1>. QED BY <1>1, <1>2, <1>3, LP!LineAttribution, PTL DEF Spec, LP!LineSpec

(* Until the next load a line keeps a type other than "immediate".         *)
THEOREM LinesStaySettled == Spec => LineSettled
<1>. DEFINE Kept == load' = load /\ type \notin {0, L!Immed} => type' = type
<1>1. ASSUME IInv, [Next]_vars PROVE Kept
  <2>1. ASSUME NEW w \in Waves, FetchStep(w) PROVE Kept
    BY <2>1 DEF FetchStep, Find, BuildFails, Build, L!StartToken, AttributeLine,
         L!AttributeStep, L!ExchangeUnattributed, L!TestImmediate, L!ExchangeImmediate,
         Insert, AddTokens
  <2>2. CASE Reload
    BY <1>1, <2>2 DEF Reload, IInv, CacheTypeOK
  <2>3. CASE (\E w \in Waves : Select(w)) \/ SetMain \/ Gather
    BY <2>3 DEF Select, SetMain, Gather, BeginGather, SkipHidden, Launch, StoreFuture,
                StoreWithoutWait, JoinTasks, ShowNext, Show, EndGather
  <2>4. CASE UNCHANGED vars
    BY <2>4 DEF vars
  <2>. QED BY <1>1, <2>1, <2>2, <2>3, <2>4 DEF Next
<1>2. IInv /\ [Next]_vars => [Kept]_vars
  BY <1>1
<1>. QED BY <1>2, CacheInvariance, PTL DEF Spec, LineSettled
=============================================================================
