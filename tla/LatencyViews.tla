---------------------------- MODULE LatencyViews ----------------------------
(***************************************************************************)
(* What the code listing shows next to the instructions, and the analyses  *)
(* that feed it.  The Annotation::Registry holds the categories that can   *)
(* be shown: four made from the lines of the listing (PublishCategories)   *)
(* and "memory_latency", made by the dialog (LatencyDialog).  The selector *)
(* (DrawTypeSelector) offers two built-in rows and a row per category; the *)
(* canvas draws what Canvas::drawtype and active_annotation_id say.  The   *)
(* hidden-latency analysis fills in the store, from which its results are  *)
(* copied to the lines of the listing and of the sources.                  *)
(*                                                                         *)
(* A trace is one whose load succeeds (LoadSession has the failures).  The *)
(* dialog is modal: while it is open the user can do nothing else.         *)
(***************************************************************************)
EXTENDS LatencyDialog, Ranking

CONSTANTS Traces,       \* the traces that can be loaded
          MaxPopulates  \* how often the listing is filled

ASSUME TracesAssumption ==
    \A t \in Traces : {t.sqtt, t.pcs, t.auto} \subseteq BOOLEAN

VARIABLES trace,        \* {} or {the trace in data_store}
          main,         \* WaveInstance::main_wave is set
          analyzed,     \* hidden_latency_analyzed
          byLine,       \* hidden_latency_by_line: the (SE, SIMD) pairs summed up in it
          idle,         \* HorizontalHotspot::show_idle_time
          view,         \* the listing, the registry, the selector and the canvas
          populates     \* how often the listing was filled

mainVars == <<trace, main, analyzed, byLine, idle, populates>>
vars == <<mainVars, view, dialogVars>>

Builtin == <<"Waitcnt", "Branch">>
LatencyIds == {"inst_latency", "nonhidden_latency", "stall_reasons", "latency_stall"}

(* The lines of the listing: which Populate made them, and the pairs whose *)
(* hidden latency they include.                                            *)
Unpopulated == [stamp |-> 0, hidden |-> {}]

Init ==
    /\ trace = {} /\ main = FALSE /\ analyzed = FALSE /\ byLine = {}
    /\ idle \in BOOLEAN
    /\ view = [lines |-> Unpopulated, source |-> {}, registry |-> <<>>, rows |-> <<>>, row |-> 1,
               drawtype |-> Builtin[1], active |-> "", builtin |-> TRUE]
    /\ populates = 0
    /\ DialogInit

-----------------------------------------------------------------------------
(* The registry.                                                           *)
Position(reg, id) == {i \in DOMAIN reg : reg[i].id = id}
Publish(v, cat) ==
    [v EXCEPT !.registry = IF Position(@, cat.id) = {} THEN Append(@, cat)
                           ELSE [@ EXCEPT ![Min(Position(@, cat.id))] = cat]]
Clear(v, ids) ==
    LET others == {i \in DOMAIN v.registry : v.registry[i].id \notin ids}
    IN  [v EXCEPT !.registry = Arranged(@, [i \in others |-> i], others)]

(* The selector.  Its rows are rebuilt with its own handler switched off;  *)
(* the combo box moves to the last row left when its row is removed.       *)
RebuildRows(v, available) ==
    LET rows == [i \in DOMAIN v.registry |->
                    [id |-> v.registry[i].id,
                     enabled |-> v.registry[i].id # "nonhidden_latency" \/ available]]
        chosen == {i \in DOMAIN rows : rows[i].enabled /\ rows[i].id = v.active}
        rebuilt == [v EXCEPT !.rows = rows, !.row = Min({@, Len(Builtin)})]
    IN  CASE chosen # {} -> [rebuilt EXCEPT !.row = Len(Builtin) + Max(chosen)]
          [] chosen = {} /\ v.drawtype = "Annotation" ->
                [rebuilt EXCEPT !.drawtype = Builtin[1], !.active = "", !.row = 1]
          [] OTHER -> rebuilt

SelectAnnotation(v, id) ==
    LET at == {i \in DOMAIN v.rows : v.rows[i].id = id} IN
    IF Position(v.registry, id) = {} THEN v
    ELSE [v EXCEPT !.drawtype = "Annotation", !.active = id,
                   !.row = IF at = {} THEN @ ELSE Len(Builtin) + Min(at)]

-----------------------------------------------------------------------------
(* Which categories have something to show.  A trace has latencies of its  *)
(* own, or only idle time, or none; hidden latency may cover all of it.    *)
Shows(t, lines, showIdle, id) ==
    /\ t.sqtt \/ t.pcs
    /\ lines.stamp # 0
    /\ t.latency = "active" \/ t.latency = "covered" \/ (t.latency = "idle" /\ showIdle /\ ~t.pcs)
    /\ ~(id = "nonhidden_latency" /\ t.latency = "covered" /\ lines.hidden # {} /\ ~t.pcs)

(* The categories made from the lines, each if it has something to show.   *)
PublishShown(v, t, showIdle) ==
    LET Offer(w, id) ==
          IF Shows(t, w.lines, showIdle, id)
            THEN Publish(w, [id |-> id, lines |-> w.lines, idle |-> showIdle]) ELSE w
    IN  Offer(Offer(Offer(Offer(v, "inst_latency"), "nonhidden_latency"), "stall_reasons"), "latency_stall")

(* Faulty: nothing is dropped when there is nothing to publish.            *)
PublishCategoriesOver(v, t, showIdle, available) ==
    RebuildRows(PublishShown(v, t, showIdle), available)

(* They are dropped and made again; the rows of the selector follow in any *)
(* case.                                                                   *)
PublishCategories(v, t, showIdle, available) ==
    RebuildRows(PublishShown(Clear(v, LatencyIds), t, showIdle), available)

(* The lines are made anew: they include no hidden latency, and the        *)
(* category of the dialog, which names lines by position, is dropped.      *)
Populate(v, t, stamp, showIdle, available) ==
    LET fresh  == [v EXCEPT !.lines = [stamp |-> stamp, hidden |-> {}]]
        listed == PublishCategories(Clear(fresh, {"memory_latency"}), t, showIdle, available)
        gated  == [listed EXCEPT !.builtin = t.sqtt]
    IN  IF t.pcs THEN SelectAnnotation(gated, "inst_latency") ELSE gated

ApplyToAsm(v, hidden) ==
    [v EXCEPT !.lines.hidden = IF v.lines.stamp = 0 THEN {} ELSE hidden]
RefreshSource(v) == [v EXCEPT !.source = v.lines.hidden]

(* refreshHiddenLatencyViews                                               *)
RefreshHidden(v, t, hidden, showIdle) ==
    PublishCategories(RefreshSource(ApplyToAsm(v, hidden)), t, showIdle, TRUE)

-----------------------------------------------------------------------------
(* runHiddenLatencyAnalysis: the pairs are analysed one after the other; a *)
(* pair that cannot be analysed discards what the ones before it added.    *)
Analyzed(v, t, showIdle, failed) ==
    IF failed
      THEN [view |-> PublishCategories(RefreshSource(ApplyToAsm(v, {})), t, showIdle, FALSE),
            analyzed |-> FALSE, byLine |-> {}]
      ELSE [view |-> SelectAnnotation(RefreshHidden(v, t, t.pairs, showIdle), "inst_latency"),
            analyzed |-> TRUE, byLine |-> t.pairs]

IsOpen == dialog = "none" /\ trace # {}
Current == CHOOSE t \in trace : TRUE

(* The part of a load that follows the parsing.  A trace with PC samples   *)
(* is listed at once; one of a gaming architecture is analysed at once if  *)
(* its waves are few enough to be read.                                    *)
LoadTrace(t) ==
    \E failed \in BOOLEAN :
    LET cleared == RebuildRows([view EXCEPT !.lines = Unpopulated, !.source = {}, !.registry = <<>>,
                                            !.active = ""], FALSE)
        listed  == IF t.pcs THEN Populate(cleared, t, populates + 1, idle, FALSE) ELSE cleared
        ran     == Analyzed(listed, t, idle, failed)
    IN
    /\ dialog = "none"
    /\ populates < MaxPopulates
    /\ failed => t.sqtt /\ t.auto
    /\ trace' = {t} /\ main' = FALSE
    /\ populates' = IF t.pcs THEN populates + 1 ELSE populates
    /\ IF t.sqtt /\ t.auto
         THEN view' = ran.view /\ analyzed' = ran.analyzed /\ byLine' = ran.byLine
         ELSE view' = listed /\ analyzed' = FALSE /\ byLine' = {}
    /\ memory' = {}
    /\ UNCHANGED <<idle, dialog, folder, taskVars, posted>>

(* UpdateWaveViewRange, with a wave selected: the listing is filled from   *)
(* its code, then the hidden latency of the store is put back.             *)
ShowRange ==
    LET reset  == [view EXCEPT !.source = {}]
        listed == Populate(reset, Current, populates + 1, idle, analyzed)
    IN
    /\ IsOpen /\ populates < MaxPopulates
    /\ populates' = populates + 1
    /\ view' = IF analyzed THEN RefreshHidden(listed, Current, byLine, idle) ELSE listed
    /\ memory' = {}
    /\ UNCHANGED <<trace, analyzed, byLine, idle, dialog, folder, taskVars, posted>>

SetMainWave == IsOpen /\ Current.sqtt /\ main' = TRUE /\ ShowRange
ChangeRange == main /\ ShowRange /\ UNCHANGED main

(* The same without a wave.                                                *)
ChangeRangeOfNothing ==
    /\ IsOpen /\ ~main
    /\ view' = IF analyzed THEN RefreshHidden([view EXCEPT !.source = {}], Current, byLine, idle)
               ELSE [view EXCEPT !.source = {}]
    /\ UNCHANGED <<mainVars, dialogVars>>

AnalyzeHidden(failed) ==
    LET ran == Analyzed(view, Current, idle, failed) IN
    /\ IsOpen
    /\ failed => Current.pairs # {}
    /\ view' = ran.view /\ analyzed' = ran.analyzed /\ byLine' = ran.byLine
    /\ UNCHANGED <<trace, main, idle, populates, dialogVars>>

ShowIdleTime ==
    /\ IsOpen
    /\ idle' = ~idle
    /\ view' = PublishCategories(view, Current, idle', analyzed)
    /\ UNCHANGED <<trace, main, analyzed, byLine, populates, dialogVars>>

PickBuiltin(r) ==
    /\ IsOpen /\ view.builtin
    /\ view' = [view EXCEPT !.row = r, !.drawtype = Builtin[r], !.active = ""]
    /\ UNCHANGED <<mainVars, dialogVars>>

PickAnnotation(i) ==
    /\ IsOpen /\ view.rows[i].enabled
    /\ view' = [view EXCEPT !.row = Len(Builtin) + i, !.drawtype = "Annotation", !.active = view.rows[i].id]
    /\ UNCHANGED <<mainVars, dialogVars>>

MeasureMemoryLatency == trace # {} /\ OpenDialog(Current.folder) /\ UNCHANGED <<mainVars, view>>

(* The dialog publishes its category, or takes an old one away.            *)
PublishMemoryLatency ==
    LET known == IF view.lines.stamp = 0 THEN {} ELSE Current.codes
        cat   == [id |-> "memory_latency", lines |-> view.lines, idle |-> idle]
    IN
    /\ AnalysisFinished(known)
    /\ view' = IF memory' = {} THEN RebuildRows(Clear(view, {"memory_latency"}), analyzed)
               ELSE SelectAnnotation(RebuildRows(Publish(view, cat), analyzed), "memory_latency")
    /\ UNCHANGED mainVars

Next ==
    \/ \E t \in Traces : LoadTrace(t)
    \/ SetMainWave \/ ChangeRange \/ ChangeRangeOfNothing
    \/ \E failed \in BOOLEAN : AnalyzeHidden(failed)
    \/ ShowIdleTime
    \/ \E r \in DOMAIN Builtin : PickBuiltin(r)
    \/ \E i \in DOMAIN view.rows : PickAnnotation(i)
    \/ MeasureMemoryLatency \/ PublishMemoryLatency
    \/ (Unpublished \/ LeaveDialog) /\ UNCHANGED <<mainVars, view>>

Spec == Init /\ [][Next]_vars /\ DialogFairness

-----------------------------------------------------------------------------
(* The row the selector is at is what the canvas draws: a built-in row, or *)
(* an enabled row of a category that exists.                               *)
RowIsDrawn(v) ==
    /\ [i \in DOMAIN v.rows |-> v.rows[i].id] = [i \in DOMAIN v.registry |-> v.registry[i].id]
    /\ IF v.row <= Len(Builtin)
         THEN v.drawtype = Builtin[v.row] /\ v.active = ""
         ELSE LET shown == v.rows[v.row - Len(Builtin)] IN
              v.drawtype = "Annotation" /\ v.active = shown.id /\ shown.enabled

(* Every category was made from the lines now listed, with the hidden      *)
(* latency they now include and the idle-time setting now in force.        *)
CategoriesOfLines(v, showIdle) ==
    \A i \in DOMAIN v.registry : LET c == v.registry[i] IN
        IF c.id = "memory_latency" THEN c.lines.stamp = v.lines.stamp
        ELSE c.lines = v.lines /\ c.idle = showIdle

(* The row of the category that needs the analysis can be chosen after it. *)
NonhiddenOffered(v, available) ==
    \A i \in DOMAIN v.rows : v.rows[i].id = "nonhidden_latency" => (v.rows[i].enabled <=> available)

(* Lines include the hidden latency of all (SE, SIMD) pairs or of none.    *)
HiddenOfStore ==
    /\ byLine = IF analyzed THEN Current.pairs ELSE {}
    /\ view.lines.hidden = IF view.lines.stamp = 0 THEN {} ELSE byLine
    /\ view.source = view.lines.hidden

(* After whatever the user does, what the listing shows is what it says it *)
(* shows, of the code, the analyses and the settings of now: no category   *)
(* outlives the lines it names, no row its category or its analysis.       *)
ShownIsCurrent ==
    /\ RowIsDrawn(view)
    /\ CategoriesOfLines(view, idle)
    /\ NonhiddenOffered(view, analyzed)
    /\ trace # {} => HiddenOfStore
    /\ (memory # {}) <=> Position(view.registry, "memory_latency") # {}
=============================================================================
