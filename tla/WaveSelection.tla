--------------------------- MODULE WaveSelection ---------------------------
(***************************************************************************)
(* Selecting a wave: MainWindow::SetMainWave, the two threads it starts    *)
(* for the arrows of the code listing (Canvas::buildWaitConnections and    *)
(* buildBranchConnections), whose results the canvas applies later as      *)
(* queued calls on the user-interface thread, and the range of the wave    *)
(* view (UpdateWaveViewRange, GatherWaves), which the user may also edit.  *)
(*                                                                         *)
(* A wave is an interval of clocks on a shader engine, a set of wait       *)
(* connections and a set of branches.  Which waves GatherWaves shows is    *)
(* kept; what it draws, and how the waves are fetched (WaveCache), is not. *)
(***************************************************************************)
EXTENDS Integers, Sequences, FiniteSets, FiniteSetsExt

CONSTANTS Waves,        \* waves of the hierarchy
          First,        \* the wave the selectors offer first
          Unbuildable,  \* waves for which getWave returns nullptr
          Se,           \* wave |-> shader engine
          Begin, End,   \* wave |-> first and last clock
          ClockMax,     \* bound of the clocks, which are 64-bit integers
          Waits,        \* wave |-> its wait connections
          Branches,     \* wave |-> its branches
          EndRoom,      \* WAVE_END_ROOM
          MinSpan,      \* least span of the view, 128 in the code
          Cutoffs,      \* ranges the user may type
          MaxEvents,    \* bound: queued calls that wait
          None

ASSUME FirstAssumption == First \in Waves /\ Unbuildable \subseteq Waves
ASSUME ClockAssumption ==
    /\ ClockMax \in Nat
    /\ Begin \in [Waves -> -ClockMax .. ClockMax] /\ End \in [Waves -> -ClockMax .. ClockMax]
    /\ \A w \in Waves : Begin[w] <= End[w]
    /\ Cutoffs \subseteq Int \X Int
ASSUME RoomAssumption == EndRoom \in Nat /\ MinSpan \in Nat
ASSUME NoneAssumption == None \notin Waves

VARIABLES main,       \* main_wave
          se,         \* current_wave_coord_se
          gui,        \* where the user-interface thread stands
          waiter,     \* thread_wait
          brancher,   \* thread_branch
          events,     \* queued calls: <<kind, connections>>
          arrows,     \* Canvas::arrows
          branches,   \* Canvas::branches
          text,       \* the two range fields
          loaded,     \* current_loaded_clk_start, current_loaded_clk_end
          rows,       \* waves in the view
          force,      \* force_gather
          allWaves,   \* full_wave_load_allowed, settled when the trace was loaded
          overtaken   \* ghost: a selection was made while an apply of arrows waited

threadVars == <<waiter, brancher>>
viewVars   == <<text, loaded, rows, allWaves>>
vars == <<main, se, gui, threadVars, events, arrows, branches, viewVars, force, overtaken>>

(* A trace was loaded; its selectors are about to be built.                *)
Init ==
    /\ main = None /\ se = Se[First]
    /\ gui = "loading"
    /\ waiter = "none" /\ brancher = "none"
    /\ events = <<>>
    /\ arrows = {} /\ branches = {}
    /\ text = <<0, 0>>
    /\ loaded = <<-1, -1>>
    /\ rows = {}
    /\ allWaves \in BOOLEAN
    /\ force = FALSE
    /\ overtaken = FALSE

Pending(kind) == {i \in DOMAIN events : events[i][1] = kind}
SameSe(w) == {v \in Waves : Se[v] = Se[w]}

(* The range SetMainWave asks for: that of the wave, or of its whole       *)
(* shader engine when the budget allows all waves to be loaded.            *)
RangeOf(w) ==
    IF allWaves
      THEN LET lo == Min({Begin[v] : v \in SameSe(w)})
               hi == Max({End[v] : v \in SameSe(w)})
           IN IF lo < hi THEN <<lo, hi + EndRoom>> ELSE <<Begin[w], End[w] + EndRoom>>
      ELSE <<Begin[w], End[w] + EndRoom>>

(***************************************************************************)
(* The user-interface thread.  Operators named ...Unclamped, ...Unforced,  *)
(* ...ForceLate, ...OneWay or ...Checked are faulty variants of the one    *)
(* that follows them; no action uses them.                                 *)
(***************************************************************************)
Visible(e, range) ==
    {w \in Waves \ Unbuildable : Se[w] = e /\ ~(End[w] < range[1] \/ Begin[w] > range[2])}

(* GatherWaves dereferences main_wave for the size of its code.            *)
Gather(e, range, then) ==
    IF main = None
      THEN gui' = "crashed" /\ UNCHANGED <<loaded, rows>>
      ELSE gui' = then /\ loaded' = range /\ rows' = Visible(e, range)

Cutoff(range) == <<range[1], Max({range[2], range[1] + MinSpan})>>

UpdateWaveViewRangeUnforced(range, then) ==
    IF range[1] < loaded[1] \/ range[2] > loaded[2]
      THEN Gather(se, Cutoff(range), then)
      ELSE gui' = then /\ UNCHANGED <<loaded, rows>>

UpdateWaveViewRange(range, then) ==
    IF force \/ range[1] < loaded[1] \/ range[2] > loaded[2]
      THEN Gather(se, Cutoff(range), then)
      ELSE gui' = then /\ UNCHANGED <<loaded, rows>>

(* SetMainWave publishes what getWave returned before it tests it; a null  *)
(* wave ends it there.                                                     *)
SelectUnbuildable(w) ==
    /\ w \in Unbuildable
    /\ main' = None
    /\ gui' = "idle"
    /\ UNCHANGED <<se, threadVars, events, arrows, branches, viewVars, force, overtaken>>

SelectBuildableForceLate(w) ==
    /\ w \notin Unbuildable
    /\ main' = w
    /\ se' = Se[w]
    /\ force' = (se' # Se[w] \/ main = None)
    /\ waiter' = "check" /\ brancher' = "build"
    /\ text' = RangeOf(w)
    /\ gui' = "range"
    /\ overtaken' = (Pending("waits") # {})
    /\ UNCHANGED <<events, arrows, branches, loaded, rows, allWaves>>

SelectBuildable(w) ==
    /\ w \notin Unbuildable
    /\ main' = w
    /\ force' = (se # Se[w] \/ main = None)
    /\ se' = Se[w]
    /\ waiter' = "check" /\ brancher' = "build"
    /\ text' = RangeOf(w)
    /\ gui' = "range"
    /\ overtaken' = (Pending("waits") # {})
    /\ UNCHANGED <<events, arrows, branches, loaded, rows, allWaves>>

Select(w) ==
    /\ gui = "idle" \/ (gui = "loading" /\ w = First)
    /\ Cardinality(DOMAIN events) + 2 <= MaxEvents
    /\ SelectUnbuildable(w) \/ SelectBuildable(w)

ShowRange ==
    /\ gui = "range"
    /\ UpdateWaveViewRange(text, "join")
    /\ UNCHANGED <<main, se, threadVars, events, arrows, branches, text, allWaves, force, overtaken>>

Join ==
    /\ gui = "join" /\ waiter = "none" /\ brancher = "none"
    /\ gui' = "idle"
    /\ force' = FALSE
    /\ UNCHANGED <<main, se, threadVars, events, arrows, branches, viewVars, overtaken>>

(* Editing one of the range fields finishes.                               *)
EditRange(range) ==
    /\ gui = "idle"
    /\ text' = range
    /\ UpdateWaveViewRange(range, "idle")
    /\ UNCHANGED <<main, se, threadVars, events, arrows, branches, allWaves, force, overtaken>>

(* OptionsDialogH::SaveExit gathers the range that is shown.               *)
SaveOptions ==
    /\ gui = "idle"
    /\ Gather(se, Cutoff(text), "idle")
    /\ UNCHANGED <<main, se, threadVars, events, arrows, branches, text, allWaves, force, overtaken>>

(* The event loop delivers the calls posted so far, in order: the last of  *)
(* a kind prevails.  User events handled in one go come before it.         *)
Latest(kind, old) == IF Pending(kind) = {} THEN old ELSE events[Max(Pending(kind))][2]

Apply ==
    /\ gui = "idle" /\ events # <<>>
    /\ arrows' = Latest("waits", arrows)
    /\ branches' = Latest("branches", branches)
    /\ events' = <<>>
    /\ UNCHANGED <<main, se, gui, threadVars, viewVars, force, overtaken>>

(***************************************************************************)
(* The two threads.                                                        *)
(***************************************************************************)

CheckConnectionsCacheOneWay ==
    /\ waiter = "check"
    /\ waiter' = IF Waits[main] \subseteq arrows THEN "none" ELSE "build"
    /\ UNCHANGED <<main, se, gui, brancher, events, arrows, branches, viewVars, force, overtaken>>

(* checkConnectionsCache: the arrows that were applied are those of this   *)
(* wave.  It is tested under the canvas' mutex.                            *)
CheckConnectionsCache ==
    /\ waiter = "check"
    /\ waiter' = IF arrows = Waits[main] THEN "none" ELSE "build"
    /\ UNCHANGED <<main, se, gui, brancher, events, arrows, branches, viewVars, force, overtaken>>

PostWaits ==
    /\ waiter = "build"
    /\ events' = Append(events, <<"waits", Waits[main]>>)
    /\ waiter' = "none"
    /\ UNCHANGED <<main, se, gui, brancher, arrows, branches, viewVars, force, overtaken>>

PostBranchesChecked ==
    /\ brancher = "build"
    /\ events' = IF branches = Branches[main] THEN events
                 ELSE Append(events, <<"branches", Branches[main]>>)
    /\ brancher' = "none"
    /\ UNCHANGED <<main, se, gui, waiter, arrows, branches, viewVars, force, overtaken>>

PostBranches ==
    /\ brancher = "build"
    /\ events' = Append(events, <<"branches", Branches[main]>>)
    /\ brancher' = "none"
    /\ UNCHANGED <<main, se, gui, waiter, arrows, branches, viewVars, force, overtaken>>

ThreadStep == CheckConnectionsCache \/ PostWaits \/ PostBranches

Next ==
    \/ \E w \in Waves : Select(w)
    \/ \E range \in Cutoffs : EditRange(range)
    \/ ShowRange \/ Join \/ SaveOptions \/ Apply
    \/ ThreadStep

Spec == Init /\ [][Next]_vars

(***************************************************************************)
(* Properties.                                                             *)
(***************************************************************************)
Settled(kind) == gui = "idle" /\ Pending(kind) = {} /\ main # None

(* Once no result is on its way, the branches drawn over the listing are   *)
(* those of the selected wave, in whatever order the threads of several    *)
(* selections posted them.                                                 *)
BranchesOfMain == Settled("branches") => branches = Branches[main]

(* "First check if we already have the answer" (canvas.cpp:276): if the    *)
(* check lets the build be skipped, the arrows are those of the wave.      *)
ArrowsOfMain == Settled("waits") => arrows = Waits[main]

(* That holds as long as the wave was not selected while the arrows of an  *)
(* earlier one were still queued.                                          *)
ArrowsUnlessOvertaken == ~overtaken => ArrowsOfMain

(* While the range fields are those of the selected wave, it is in the     *)
(* view, though SetMainWave gathers only when the engine changes, a wave   *)
(* could not be built before, or the range leaves the loaded one.          *)
MainInView ==
    gui = "idle" /\ main # None /\ text = RangeOf(main) => main \in rows

(* Rows of another shader engine are never left in the view of a wave.     *)
RowsOfOneEngine == gui = "idle" /\ main # None => \A w \in rows : Se[w] = Se[main]
=============================================================================
