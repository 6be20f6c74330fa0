--------------------------- MODULE TraceAnalyses ---------------------------
(***************************************************************************)
(* What is computed of a trace.  First its records are placed in time and  *)
(* its markers resolved, by the emitter that loads it (TraceTimes).  Then  *)
(* the main window computes of the loaded trace: the plots of its kernels  *)
(* and the view of its waves and events (GlobalView), the plot of its      *)
(* counters with the counters derived from them (CounterPlot), the hidden  *)
(* latencies of its code (HiddenLatency), and what the waits of the wave   *)
(* that is selected wait for (WaitCounters).  Each runs to completion on   *)
(* the user interface's thread, so that nothing is loaded, edited or       *)
(* selected while one runs; the steps of an analysis are those of its      *)
(* loops.                                                                  *)
(***************************************************************************)
EXTENDS HiddenLatency, CounterPlot, WaitCounters, GlobalView, TraceTimes

hiddenVars == <<unionVars, trace, pc, scope, wave, tokenVars, busy>>
windowVars == <<hiddenVars, resultVars, plotVars, waitVars, viewVars>>
allVars == <<windowVars, timesVars>>

AnalysesInit ==
    /\ Init /\ PlotInit /\ WaitInit /\ ViewInit /\ TimesInit
    /\ recording \in trace.recorded

Loaded == phase = "resolve" /\ todo = {} /\ walking = {}

Unoccupied == Idle /\ program = NoProgram

(* The emitter runs.                                                       *)
Emit == TimesNext /\ UNCHANGED windowVars

(* LoadInput: a new store, with plots and a view and without hidden        *)
(* latencies.  The trace's plots and captures are the counters and the     *)
(* records of inputs that have these waves, its groups those of events     *)
(* that the user may want to hide.                                         *)
LoadInput ==
    /\ Unoccupied
    /\ \E name \in trace.captures : OpenCapture(name)
    /\ \E s \in trace.plots : LoadPlot(s)
    /\ byLine' = NoHidden
    /\ analyzed' = FALSE
    /\ UNCHANGED <<hiddenVars, waitVars>>

EditPlot ==
    /\ Unoccupied
    /\ EditDefinitions \/ CloseEmptyEditor \/ ToggleCurve
    /\ UNCHANGED <<hiddenVars, resultVars, waitVars, viewVars>>

FilterEvents ==
    /\ Unoccupied
    /\ \E group \in trace.groups : SetDecoderEventGroups(group)
    /\ UNCHANGED <<hiddenVars, resultVars, plotVars, waitVars>>

AnalyzeHidden ==
    /\ program = NoProgram
    /\ Next
    /\ UNCHANGED <<plotVars, waitVars, viewVars>>

(* SetMainWave: a wave that came without connections is given them.        *)
BuildWaitcnt ==
    /\ Idle
    /\ \/ \E p \in trace.decoded : SelectWave(p)
       \/ ReadToken
       \/ HandleCounter
       \/ EndWaits
    /\ UNCHANGED <<hiddenVars, resultVars, plotVars, viewVars>>

Analyse == LoadInput \/ EditPlot \/ FilterEvents \/ AnalyzeHidden \/ BuildWaitcnt

AnalysesNext ==
    \/ Emit
    \/ Loaded /\ Analyse /\ UNCHANGED timesVars

AnalysesSpec == AnalysesInit /\ [][AnalysesNext]_allVars
=============================================================================
