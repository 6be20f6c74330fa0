----------------------- MODULE WaveSelection_proofs -----------------------
(***************************************************************************)
(* Proofs about WaveSelection for every set of waves, their clocks, their  *)
(* connections and any ranges the user types: what ends up over the        *)
(* listing and in the view is that of the wave that was selected last.     *)
(***************************************************************************)
EXTENDS WaveSelection, WellFoundedInduction, TLAPS

ConnectionSets == {Waits[w] : w \in Waves} \cup {Branches[w] : w \in Waves}
Events == {"waits", "branches"} \X ConnectionSets

Shape ==
    /\ main \in (Waves \ Unbuildable) \cup {None}
    /\ gui \in {"loading", "idle", "range", "join", "crashed"}
    /\ waiter \in {"none", "check", "build"}
    /\ brancher \in {"none", "build"}
    /\ events \in Seq(Events)
    /\ text \in Int \X Int
    /\ loaded \in Int \X Int
    /\ force \in BOOLEAN
    /\ overtaken \in BOOLEAN

(* Threads run only while the user-interface thread is inside SetMainWave, *)
(* which then has a wave.                                                  *)
Running ==
    /\ gui \in {"range", "join"} => main # None
    /\ gui \notin {"range", "join"} => waiter = "none" /\ brancher = "none"
    /\ gui = "loading" => main = None

SeOfMain == main # None => se = Se[main]

(* What the canvas has, or is to get, is of the selected wave.             *)
BranchesComing ==
    main # None /\ brancher = "none" => Latest("branches", branches) = Branches[main]

ArrowsComing ==
    ~overtaken /\ main # None =>
        IF waiter = "none" THEN Latest("waits", arrows) = Waits[main]
        ELSE Pending("waits") = {}

(* The rows are the waves of the loaded range, which includes the range of *)
(* the fields once it was shown.                                           *)
RowsLoaded ==
    main # None /\ (gui = "range" => ~force) => rows = Visible(se, loaded)
InLoaded ==
    main # None /\ gui # "range" => loaded[1] <= text[1] /\ text[2] <= loaded[2]

IInv == Shape /\ Running /\ SeOfMain /\ BranchesComing /\ ArrowsComing /\ RowsLoaded /\ InLoaded

-----------------------------------------------------------------------------
(* The least and the greatest element of a bounded set of integers.        *)
LEMMA LeastNatural ==
    ASSUME NEW S \in SUBSET Nat, S # {}
    PROVE  \E x \in S : \A y \in S : x <= y
<1>1. PICK x \in S : \A y \in S : <<y, x>> \notin OpToRel(<, Nat)
  BY NatLessThanWellFounded, WFMin, Zenon
<1>2. ASSUME NEW y \in S, y < x PROVE <<y, x>> \in OpToRel(<, Nat)
  <2>1. <<y, x>> \in Nat \X Nat /\ <<y, x>>[1] = y /\ <<y, x>>[2] = x
    OBVIOUS
  <2>. QED BY <2>1, <1>2, Zenon DEF OpToRel
<1>3. \A y \in S : ~(y < x)
  BY <1>1, <1>2, Zenon
<1>. QED BY <1>3

LEMMA MinOfBounded ==
    ASSUME NEW S \in SUBSET Int, S # {}, NEW b \in Int, \A x \in S : b <= x
    PROVE  Min(S) \in S /\ \A y \in S : Min(S) <= y
<1>. DEFINE T == {n \in Nat : b + n \in S}
<1>1. T # {}
  <2>1. PICK x \in S : TRUE OBVIOUS
  <2>2. x - b \in T BY <2>1
  <2>. QED BY <2>2
<1>2. PICK n \in T : \A m \in T : n <= m
  <2>. HIDE DEF T
  <2>1. T \in SUBSET Nat BY DEF T
  <2>. QED BY <1>1, <2>1, LeastNatural
<1>3. ASSUME NEW y \in S PROVE b + n <= y
  <2>1. y - b \in T BY <1>3
  <2>. QED BY <2>1, <1>2
<1>4. b + n \in S OBVIOUS
<1>5. \E x \in S : \A y \in S : x <= y
  <2>. HIDE DEF T
  <2>. QED BY <1>3, <1>4
<1>. QED BY <1>5 DEF Min

LEMMA MaxOfBounded ==
    ASSUME NEW S \in SUBSET Int, S # {}, NEW b \in Int, \A x \in S : x <= b
    PROVE  Max(S) \in S /\ \A y \in S : Max(S) >= y
<1>. DEFINE T == {n \in Nat : b - n \in S}
<1>1. T # {}
  <2>1. PICK x \in S : TRUE OBVIOUS
  <2>2. b - x \in T BY <2>1
  <2>. QED BY <2>2
<1>2. PICK n \in T : \A m \in T : n <= m
  <2>. HIDE DEF T
  <2>1. T \in SUBSET Nat BY DEF T
  <2>. QED BY <1>1, <2>1, LeastNatural
<1>3. ASSUME NEW y \in S PROVE b - n >= y
  <2>1. b - y \in T BY <1>3
  <2>. QED BY <2>1, <1>2
<1>4. b - n \in S OBVIOUS
<1>5. \E x \in S : \A y \in S : x >= y
  <2>. HIDE DEF T
  <2>. QED BY <1>3, <1>4
<1>. QED BY <1>5 DEF Max

-----------------------------------------------------------------------------
(* The range that is gathered includes the one that was asked for.         *)
LEMMA CutoffIncludes ==
    ASSUME NEW range \in Int \X Int
    PROVE  /\ Cutoff(range) \in Int \X Int
           /\ Cutoff(range)[1] <= range[1]
           /\ range[2] <= Cutoff(range)[2]
<1>. DEFINE S == {range[2], range[1] + MinSpan}
<1>1. S \in SUBSET Int /\ S # {}
  BY RoomAssumption
<1>2. \E b \in Int : \A x \in S : x <= b
  <2>1. CASE range[2] <= range[1] + MinSpan BY <2>1, <1>1
  <2>2. CASE ~(range[2] <= range[1] + MinSpan) BY <2>2, <1>1
  <2>. QED BY <2>1, <2>2
<1>3. Max(S) \in S /\ \A y \in S : Max(S) >= y
  <2>. HIDE DEF S
  <2>. QED BY <1>1, <1>2, MaxOfBounded
<1>. QED BY <1>1, <1>3 DEF Cutoff

(* The range that is asked for when a wave is selected includes the wave.  *)
LEMMA RangeIncludes ==
    ASSUME NEW w \in Waves
    PROVE  /\ RangeOf(w) \in Int \X Int
           /\ RangeOf(w)[1] <= Begin[w]
           /\ End[w] <= RangeOf(w)[2]
<1>. DEFINE B == {Begin[v] : v \in SameSe(w)}
            E == {End[v] : v \in SameSe(w)}
<1>1. /\ Begin[w] \in Int /\ End[w] \in Int /\ Begin[w] <= End[w]
      /\ EndRoom \in Nat
  BY ClockAssumption, RoomAssumption
<1>2. /\ B \in SUBSET Int /\ Begin[w] \in B /\ \A x \in B : -ClockMax <= x
      /\ E \in SUBSET Int /\ End[w] \in E /\ \A x \in E : x <= ClockMax
      /\ ClockMax \in Int /\ -ClockMax \in Int
  BY ClockAssumption DEF SameSe
<1>3. Min(B) \in B /\ Min(B) <= Begin[w]
  <2>. HIDE DEF B
  <2>. QED BY <1>2, MinOfBounded
<1>4. Max(E) \in E /\ End[w] <= Max(E)
  <2>. HIDE DEF E
  <2>1. Max(E) \in E /\ Max(E) >= End[w] BY <1>2, MaxOfBounded
  <2>. QED BY <2>1, <1>2
<1>5. Min(B) \in Int /\ Max(E) \in Int
  <2>. HIDE DEF B, E
  <2>. QED BY <1>2, <1>3, <1>4
<1>6. RangeOf(w) = IF allWaves /\ Min(B) < Max(E) THEN <<Min(B), Max(E) + EndRoom>>
                   ELSE <<Begin[w], End[w] + EndRoom>>
  BY DEF RangeOf
<1>. HIDE DEF B, E
<1>. QED BY <1>1, <1>3, <1>4, <1>5, <1>6

-----------------------------------------------------------------------------
(* The queue of events: the last of a kind prevails.                       *)
LEMMA PendingAppended ==
    ASSUME events \in Seq(Events), NEW k, NEW x, <<k, x>> \in Events,
           events' = Append(events, <<k, x>>)
    PROVE  /\ events' \in Seq(Events)
           /\ Latest(k, arrows)' = x
           /\ Latest(k, branches)' = x
           /\ \A h : h # k => Pending(h)' = Pending(h)
           /\ \A h : h # k => \A i \in Pending(h) : events'[i] = events[i]
<1>1. /\ Len(events) \in Nat
      /\ DOMAIN events' = DOMAIN events \cup {Len(events) + 1}
      /\ DOMAIN events = 1 .. Len(events)
      /\ events'[Len(events) + 1] = <<k, x>>
      /\ \A i \in DOMAIN events : events'[i] = events[i]
      /\ events' \in Seq(Events)
  OBVIOUS
<1>2. \A h : h # k => Pending(h)' = Pending(h)
  BY <1>1 DEF Pending
<1>3. \A h : h # k => \A i \in Pending(h) : events'[i] = events[i]
  BY <1>1 DEF Pending
<1>4. /\ Len(events) + 1 \in Pending(k)'
      /\ Pending(k)' \in SUBSET Int
      /\ \A i \in Pending(k)' : i <= Len(events) + 1
  BY <1>1 DEF Pending
<1>5. Max(Pending(k)') = Len(events) + 1
  <2>1. /\ Max(Pending(k)') \in Pending(k)'
        /\ Max(Pending(k)') >= Len(events) + 1
    BY <1>1, <1>4, MaxOfBounded
  <2>. QED BY <2>1, <1>1, <1>4
<1>6. events'[Len(events) + 1][2] = x /\ Pending(k)' # {}
  BY <1>1, <1>4
<1>. QED BY <1>1, <1>2, <1>3, <1>5, <1>6 DEF Latest

(* What waits of one kind is not disturbed by an event of another.         *)
LEMMA LatestKept ==
    ASSUME events \in Seq(Events), NEW h,
           Pending(h)' = Pending(h), \A i \in Pending(h) : events'[i] = events[i]
    PROVE  /\ arrows' = arrows => Latest(h, arrows)' = Latest(h, arrows)
           /\ branches' = branches => Latest(h, branches)' = Latest(h, branches)
<1>1. CASE Pending(h) = {}
  BY <1>1 DEF Latest
<1>2. CASE Pending(h) # {}
  <2>1. /\ Pending(h) \in SUBSET Int /\ \A i \in Pending(h) : i <= Len(events)
        /\ Len(events) \in Int
    BY DEF Pending
  <2>2. Max(Pending(h)) \in Pending(h)
    BY <1>2, <2>1, MaxOfBounded
  <2>. QED BY <1>2, <2>2 DEF Latest
<1>. QED BY <1>1, <1>2

LEMMA AppliedEvents ==
    ASSUME Apply
    PROVE  /\ \A h : Pending(h)' = {}
           /\ Latest("waits", arrows)' = Latest("waits", arrows)
           /\ Latest("branches", branches)' = Latest("branches", branches)
<1>1. \A h : Pending(h)' = {}
  BY DEF Apply, Pending
<1>. QED BY <1>1 DEF Apply, Latest

LEMMA QueueKept ==
    ASSUME UNCHANGED <<events, arrows, branches>>
    PROVE  /\ \A h : Pending(h)' = Pending(h)
           /\ Latest("waits", arrows)' = Latest("waits", arrows)
           /\ Latest("branches", branches)' = Latest("branches", branches)
BY DEF Pending, Latest

-----------------------------------------------------------------------------
(* What is gathered, or found in the loaded range already.                 *)
LEMMA RangeShown ==
    ASSUME Shape, NEW range \in Int \X Int, NEW then,
           UpdateWaveViewRange(range, then), main # None, main' = main, se' = se,
           force \/ rows = Visible(se, loaded)
    PROVE  /\ gui' = then
           /\ loaded' \in Int \X Int
           /\ rows' = Visible(se', loaded')
           /\ loaded'[1] <= range[1] /\ range[2] <= loaded'[2]
<1>1. loaded \in Int \X Int
  BY DEF Shape
<1>2. CASE force \/ range[1] < loaded[1] \/ range[2] > loaded[2]
  BY <1>2, CutoffIncludes DEF UpdateWaveViewRange, Gather, Visible
<1>3. CASE ~(force \/ range[1] < loaded[1] \/ range[2] > loaded[2])
  <2>1. gui' = then /\ loaded' = loaded /\ rows' = rows
    BY <1>3 DEF UpdateWaveViewRange
  <2>2. rows = Visible(se, loaded) BY <1>3
  <2>. QED BY <2>1, <2>2, <1>1, <1>3 DEF Visible
<1>. QED BY <1>2, <1>3

(* Without a selected wave a gather ends the program.                      *)
LEMMA RangeShownNot ==
    ASSUME Shape, NEW range \in Int \X Int, NEW then,
           UpdateWaveViewRange(range, then) \/ Gather(se, Cutoff(range), then), main = None
    PROVE  gui' \in {then, "crashed"} /\ loaded' \in Int \X Int
BY DEF Shape, UpdateWaveViewRange, Gather

LEMMA InitIInv == Init => IInv
<1>. SUFFICES ASSUME Init PROVE IInv
  OBVIOUS
<1>1. Shape
  <2>1. <<0, 0>> \in Int \X Int /\ <<-1, -1>> \in Int \X Int /\ <<>> \in Seq(Events)
    OBVIOUS
  <2>. QED BY <2>1 DEF Init, Shape
<1>. QED BY <1>1 DEF Init, IInv, Running, SeOfMain, BranchesComing, ArrowsComing, RowsLoaded, InLoaded

LEMMA SelectKeeps ==
    ASSUME IInv, NEW w \in Waves, Select(w)
    PROVE  IInv'
<1>1. CASE SelectUnbuildable(w)
  BY <1>1, NoneAssumption
     DEF Select, SelectUnbuildable, threadVars, viewVars, IInv, Shape, Running, SeOfMain,
         BranchesComing, ArrowsComing, RowsLoaded, InLoaded
<1>2. CASE SelectBuildable(w)
  <2>1. Shape'
    BY <1>2, RangeIncludes DEF SelectBuildable, IInv, Shape
  <2>2. Running' /\ SeOfMain' /\ BranchesComing' /\ InLoaded'
    BY <1>2, NoneAssumption DEF SelectBuildable, Running, SeOfMain, BranchesComing, InLoaded
  <2>3. ArrowsComing'
    <3>1. Pending("waits")' = Pending("waits") BY <1>2 DEF SelectBuildable, Pending
    <3>. QED BY <1>2, <3>1 DEF SelectBuildable, ArrowsComing
  <2>4. RowsLoaded'
    <3>1. SUFFICES ASSUME ~force' PROVE rows = Visible(se, loaded) /\ se' = se
      BY <1>2 DEF SelectBuildable, RowsLoaded, Visible
    <3>2. se = Se[w] /\ main # None BY <1>2, <3>1 DEF SelectBuildable
    <3>3. gui # "range" BY DEF Select
    <3>. QED BY <1>2, <3>2, <3>3 DEF SelectBuildable, IInv, RowsLoaded
  <2>. QED BY <2>1, <2>2, <2>3, <2>4 DEF IInv
<1>. QED BY <1>1, <1>2 DEF Select

LEMMA ShowRangeKeeps ==
    ASSUME IInv, ShowRange
    PROVE  IInv'
<1>1. main # None /\ text \in Int \X Int /\ (force \/ rows = Visible(se, loaded))
  BY DEF ShowRange, IInv, Running, RowsLoaded, Shape
<1>2. /\ gui' = "join" /\ loaded' \in Int \X Int
      /\ rows' = Visible(se', loaded')
      /\ loaded'[1] <= text[1] /\ text[2] <= loaded'[2]
  BY <1>1, RangeShown DEF ShowRange, IInv
<1>3. BranchesComing' /\ ArrowsComing'
  BY QueueKept DEF ShowRange, threadVars, IInv, BranchesComing, ArrowsComing
<1>. QED BY <1>1, <1>2, <1>3
     DEF ShowRange, threadVars, IInv, Shape, Running, SeOfMain, RowsLoaded, InLoaded

(* Editing a range and saving the options show a range that the user chose.*)
LEMMA EditsKeep ==
    ASSUME IInv, NEW range \in Int \X Int, gui = "idle", text' = range,
           UpdateWaveViewRange(range, "idle") \/ Gather(se, Cutoff(range), "idle"),
           UNCHANGED <<main, se, threadVars, events, arrows, branches, allWaves, force, overtaken>>
    PROVE  IInv'
<1>1. /\ gui' \in {"idle", "crashed"} /\ loaded' \in Int \X Int
      /\ main # None => /\ rows' = Visible(se', loaded')
                        /\ loaded'[1] <= range[1] /\ range[2] <= loaded'[2]
  <2>1. CASE main = None BY <2>1, RangeShownNot DEF IInv
  <2>2. CASE main # None /\ UpdateWaveViewRange(range, "idle")
    BY <2>2, RangeShown DEF IInv, RowsLoaded
  <2>3. CASE main # None /\ Gather(se, Cutoff(range), "idle")
    BY <2>3, CutoffIncludes DEF Gather, Visible
  <2>. QED BY <2>1, <2>2, <2>3
<1>2. BranchesComing' /\ ArrowsComing'
  BY QueueKept DEF threadVars, IInv, BranchesComing, ArrowsComing
<1>. QED BY <1>1, <1>2
     DEF threadVars, IInv, Shape, Running, SeOfMain, RowsLoaded, InLoaded

LEMMA JoinKeeps ==
    ASSUME IInv, Join
    PROVE  IInv'
<1>1. BranchesComing' /\ ArrowsComing'
  BY QueueKept DEF Join, threadVars, IInv, BranchesComing, ArrowsComing
<1>. QED BY <1>1
     DEF Join, threadVars, viewVars, IInv, Shape, Running, SeOfMain, RowsLoaded, InLoaded, Visible

LEMMA ApplyKeeps ==
    ASSUME IInv, Apply
    PROVE  IInv'
<1>1. BranchesComing' /\ ArrowsComing'
  BY AppliedEvents DEF Apply, threadVars, IInv, BranchesComing, ArrowsComing
<1>. QED BY <1>1
     DEF Apply, threadVars, viewVars, IInv, Shape, Running, SeOfMain, RowsLoaded, InLoaded, Visible

-----------------------------------------------------------------------------
(* The steps of the threads.                                               *)
LEMMA CheckKeeps ==
    ASSUME IInv, CheckConnectionsCache
    PROVE  IInv'
<1>1. UNCHANGED <<events, arrows, branches>>
  BY DEF CheckConnectionsCache
<1>2. BranchesComing'
  BY <1>1, QueueKept DEF CheckConnectionsCache, IInv, BranchesComing
<1>3. ArrowsComing'
  <2>1. ~overtaken /\ main # None => Pending("waits") = {}
    BY DEF CheckConnectionsCache, IInv, ArrowsComing
  <2>2. Pending("waits") = {} => Latest("waits", arrows) = arrows
    BY DEF Latest
  <2>. QED BY <1>1, <2>1, <2>2, QueueKept DEF CheckConnectionsCache, ArrowsComing
<1>. QED BY <1>1, <1>2, <1>3
     DEF CheckConnectionsCache, viewVars, IInv, Shape, Running, SeOfMain, RowsLoaded, InLoaded, Visible

LEMMA PostKeeps ==
    ASSUME IInv, PostWaits \/ PostBranches
    PROVE  IInv'
<1>1. main \in Waves
  BY DEF PostWaits, PostBranches, IInv, Shape, Running
<1>2. /\ <<"waits", Waits[main]>> \in Events
      /\ <<"branches", Branches[main]>> \in Events
  BY <1>1 DEF Events, ConnectionSets
<1>3. CASE PostWaits
  <2>0. /\ events \in Seq(Events)
        /\ events' = Append(events, <<"waits", Waits[main]>>)
        /\ branches' = branches
    BY <1>3 DEF PostWaits, IInv, Shape
  <2>1. /\ events' \in Seq(Events)
        /\ Latest("waits", arrows)' = Waits[main]
        /\ Pending("branches")' = Pending("branches")
        /\ \A i \in Pending("branches") : events'[i] = events[i]
    <3>1. PICK x : x = Waits[main] OBVIOUS
    <3>2. <<"waits", x>> \in Events /\ events' = Append(events, <<"waits", x>>)
      BY <1>2, <2>0, <3>1
    <3>3. /\ events' \in Seq(Events)
          /\ Latest("waits", arrows)' = x
          /\ Pending("branches")' = Pending("branches")
          /\ \A i \in Pending("branches") : events'[i] = events[i]
      BY <2>0, <3>2, PendingAppended
    <3>. QED BY <3>1, <3>3
  <2>2. Latest("branches", branches)' = Latest("branches", branches)
    BY <2>0, <2>1, LatestKept
  <2>3. BranchesComing' /\ ArrowsComing'
    BY <1>3, <2>1, <2>2 DEF PostWaits, IInv, BranchesComing, ArrowsComing
  <2>. QED BY <1>3, <2>1, <2>3
       DEF PostWaits, viewVars, IInv, Shape, Running, SeOfMain, RowsLoaded, InLoaded, Visible
<1>4. CASE PostBranches
  <2>0. /\ events \in Seq(Events)
        /\ events' = Append(events, <<"branches", Branches[main]>>)
        /\ arrows' = arrows
    BY <1>4 DEF PostBranches, IInv, Shape
  <2>1. /\ events' \in Seq(Events)
        /\ Latest("branches", branches)' = Branches[main]
        /\ Pending("waits")' = Pending("waits")
        /\ \A i \in Pending("waits") : events'[i] = events[i]
    <3>1. PICK x : x = Branches[main] OBVIOUS
    <3>2. <<"branches", x>> \in Events /\ events' = Append(events, <<"branches", x>>)
      BY <1>2, <2>0, <3>1
    <3>3. /\ events' \in Seq(Events)
          /\ Latest("branches", branches)' = x
          /\ Pending("waits")' = Pending("waits")
          /\ \A i \in Pending("waits") : events'[i] = events[i]
      BY <2>0, <3>2, PendingAppended
    <3>. QED BY <3>1, <3>3
  <2>2. Latest("waits", arrows)' = Latest("waits", arrows)
    BY <2>0, <2>1, LatestKept
  <2>3. BranchesComing' /\ ArrowsComing'
    BY <1>4, <2>1, <2>2 DEF PostBranches, IInv, BranchesComing, ArrowsComing
  <2>. QED BY <1>4, <2>1, <2>3
       DEF PostBranches, viewVars, IInv, Shape, Running, SeOfMain, RowsLoaded, InLoaded, Visible
<1>. QED BY <1>3, <1>4

LEMMA NextKeeps == IInv /\ [Next]_vars => IInv'
<1>. SUFFICES ASSUME IInv, [Next]_vars PROVE IInv'
  OBVIOUS
<1>1. ASSUME NEW w \in Waves, Select(w) PROVE IInv'
  BY <1>1, SelectKeeps
<1>2. ASSUME NEW range \in Cutoffs, EditRange(range) PROVE IInv'
  <2>1. range \in Int \X Int BY ClockAssumption
  <2>. QED BY <1>2, <2>1, EditsKeep DEF EditRange
<1>3. CASE SaveOptions
  <2>1. text \in Int \X Int BY DEF IInv, Shape
  <2>. QED BY <1>3, <2>1, EditsKeep DEF SaveOptions
<1>4. CASE UNCHANGED vars
  <2>1. BranchesComing' /\ ArrowsComing'
    BY <1>4, QueueKept DEF vars, threadVars, IInv, BranchesComing, ArrowsComing
  <2>. QED BY <1>4, <2>1
       DEF vars, threadVars, viewVars, IInv, Shape, Running, SeOfMain, RowsLoaded, InLoaded, Visible
<1>. QED BY <1>1, <1>2, <1>3, <1>4, ShowRangeKeeps, JoinKeeps, ApplyKeeps, CheckKeeps, PostKeeps
     DEF Next, ThreadStep

-----------------------------------------------------------------------------
(* The invariant that the other theorems rest on.                          *)
THEOREM SelectionInvariance == Spec => []IInv
BY InitIInv, NextKeeps, PTL DEF Spec

(* Once no result is on its way, the branches over the listing are those of*)
(* the selected wave, in whatever order the threads posted them.           *)
THEOREM BranchesFollow == Spec => []BranchesOfMain
<1>1. IInv => BranchesOfMain
  BY DEF IInv, Running, BranchesComing, BranchesOfMain, Settled, Latest
<1>. QED BY <1>1, SelectionInvariance, PTL

(* So are the arrows, unless the wave was selected while the arrows of an  *)
(* earlier one were queued.                                                *)
THEOREM ArrowsFollow == Spec => []ArrowsUnlessOvertaken
<1>1. IInv => ArrowsUnlessOvertaken
  BY DEF IInv, Running, ArrowsComing, ArrowsUnlessOvertaken, ArrowsOfMain, Settled, Latest
<1>. QED BY <1>1, SelectionInvariance, PTL

(* The selected wave is in the view while the fields have its range.       *)
THEOREM SelectedInView == Spec => []MainInView
<1>1. ASSUME IInv, gui = "idle", main # None, text = RangeOf(main) PROVE main \in rows
  <2>1. /\ main \in Waves \ Unbuildable /\ loaded \in Int \X Int
        /\ se = Se[main] /\ rows = Visible(se, loaded)
        /\ loaded[1] <= text[1] /\ text[2] <= loaded[2]
    BY <1>1 DEF IInv, Shape, SeOfMain, RowsLoaded, InLoaded
  <2>2. /\ text \in Int \X Int /\ text[1] <= Begin[main] /\ End[main] <= text[2]
        /\ Begin[main] \in Int /\ End[main] \in Int /\ Begin[main] <= End[main]
    BY <1>1, <2>1, RangeIncludes, ClockAssumption
  <2>. QED BY <2>1, <2>2 DEF Visible
<1>2. IInv => MainInView
  BY <1>1 DEF MainInView
<1>. QED BY <1>2, SelectionInvariance, PTL

(* The view never mixes the waves of two shader engines.                   *)
THEOREM OneEngineInView == Spec => []RowsOfOneEngine
<1>1. IInv => RowsOfOneEngine
  BY DEF IInv, SeOfMain, RowsLoaded, RowsOfOneEngine, Visible
<1>. QED BY <1>1, SelectionInvariance, PTL
=============================================================================
