----------------------------- MODULE GlobalView -----------------------------
(***************************************************************************)
(* What the main window shows of the waves, dispatches and trace events of *)
(* a loaded capture: the emitter gives every kernel an id and a name       *)
(* (DispatchResolver), the dispatch plot counts the running waves of each  *)
(* kernel, and the global view draws a row for each wave slot and, above   *)
(* them, the dispatches and events of each engine packed into lanes.       *)
(* Plot and view are made while the capture is loaded, in one go on the    *)
(* user interface's thread; afterwards the user filters the events.        *)
(* A name is a tuple, <<>> if empty; a PC is <<code object, address>>.     *)
(***************************************************************************)
EXTENDS TraceClock, TLC

CONSTANTS Captures      \* name |-> what a capture holds, with the records as they arrived

(* Records have their lists by engine; the clock of the decoder is signed. *)
Timed(s) == s \in Seq(Range(s)) /\ \A i \in DOMAIN s : s[i].time \in Int /\ s[i].me \in Int

CapturesAssumption ==
    \A name \in DOMAIN Captures :
        /\ \A se \in DOMAIN Captures[name].dispatches : Timed(Captures[name].dispatches[se])
        /\ \A se \in DOMAIN Captures[name].events : Timed(Captures[name].events[se])
ASSUME CapturesAssumption

VARIABLES opened,       \* the capture, "none" before the first
          dispatch_resolver,
          series,       \* kernel id |-> its curve in the dispatch plot
          rows,         \* <<engine, slot>> |-> waves
          tracks,       \* of the engines with dispatches or events
          kernel_names, \* static, for tooltips: outlives the view
          event_groups  \* static: the groups of events that are shown

viewVars == <<opened, dispatch_resolver, series, rows, tracks, kernel_names, event_groups>>

-----------------------------------------------------------------------------
(* DispatchResolver.                                                       *)
JsonKernelCodeObjectId == -1
NoKernels == [pcs |-> [key \in {} |-> 0], names |-> [kid \in {} |-> <<>>], next |-> 1]

Synthetic(kid) == <<"kernel_", kid>>
NameKernel(names, kid, name) == IF name # <<>> THEN (kid :> name) @@ names ELSE names @@ (kid :> Synthetic(kid))

Register(r, key, name) ==
    LET new == key \notin DOMAIN r.pcs
        kid == IF new THEN r.next ELSE r.pcs[key]
    IN  [pcs |-> r.pcs @@ (key :> kid), names |-> NameKernel(r.names, kid, name), next |-> IF new THEN r.next + 1 ELSE r.next]

(* Faulty: the ids handed out later do not leave out this one.             *)
RegisterJsonKernelOnly(r, kid, name) ==
    [r EXCEPT !.pcs = (<<JsonKernelCodeObjectId, kid>> :> kid) @@ @, !.names = NameKernel(@, kid, name)]

RegisterJsonKernel(r, kid, name) ==
    [pcs |-> (<<JsonKernelCodeObjectId, kid>> :> kid) @@ r.pcs, names |-> NameKernel(r.names, kid, name), next |-> Max({r.next, kid + 1})]

Alias(r, key, kid) == [r EXCEPT !.pcs = (key :> kid) @@ @]

(* The resolver after PCs were looked up: unknown ones have got an id.     *)
Resolve(r, pcs) == FoldLeft(LAMBDA q, key : IF key \in DOMAIN q.pcs THEN q ELSE Register(q, key, <<>>), r, pcs)
Name(r, kid) == IF kid \in DOMAIN r.names THEN r.names[kid] ELSE Synthetic(kid)

-----------------------------------------------------------------------------
(* The records of all engines, one engine after the other.                 *)
InOrder(lists) == SetToSortSeq(DOMAIN lists, <)
Flat(lists) == FoldLeft(LAMBDA all, se : all \o lists[se], <<>>, InOrder(lists))
Mapped(Op(_), s) == [i \in DOMAIN s |-> Op(s[i])]

(* buildDispatches: the PC of each wave and dispatch, with its symbol or   *)
(* else its address for a name.                                            *)
BuildDispatches(c) ==
    LET Symbol(key) == IF key \in DOMAIN c.symbols THEN c.symbols[key] ELSE <<"0 / 0x", key[2]>>
        pcs == Mapped(LAMBDA o : o.pc, Flat(c.occupancy)) \o Mapped(LAMBDA d : d.entry_point, Flat(c.dispatches))
    IN  FoldLeft(LAMBDA r, key : Register(r, key, Symbol(key)), NoKernels, pcs)

(* emitOccupancy: the kernels have ids in a JSON capture, and a PC of a    *)
(* wave stands for its id.  Dispatches may come without.                   *)
EmitDispatch(r, d) ==
    IF d.kernel_id < 0 THEN r
    ELSE Alias(RegisterJsonKernel(r, d.kernel_id, d.kernel_name), d.entry_point, d.kernel_id)

EmitOccupancy(c) ==
    LET named == FoldLeft(LAMBDA r, n : RegisterJsonKernel(r, n[1], n[2]), NoKernels, c.names)
        ran   == FoldLeft(LAMBDA r, o : RegisterJsonKernel(r, o.pc[2], <<>>), named, Flat(c.occupancy))
    IN  FoldLeft(EmitDispatch, ran, Flat(c.dispatches))

Emitted(c) == IF c.source = "json" THEN EmitOccupancy(c) ELSE BuildDispatches(c)

(* The store once the handlers have sorted what they appended.             *)
Store(c) ==
    [occupancy  |-> [se \in DOMAIN c.occupancy |-> SortOccupancy(c.occupancy[se])],
     dispatches |-> [se \in DOMAIN c.dispatches |-> SortByTime(c.dispatches[se])],
     events     |-> [se \in DOMAIN c.events |-> SortByTime(c.events[se])]]

-----------------------------------------------------------------------------
(* addDispatchSeries: the waves of each kernel over time, up to the first  *)
(* record whose id is outside the range of ids; curves of two points on.   *)
DispatchSeries(store, r) ==
    LET records == SortByTime(Flat(store.occupancy))
        KernelOf(o) == r.pcs[o.pc]
        corrupt == {i \in DOMAIN records : KernelOf(records[i]) \notin 0 .. r.next - 1}
        used == SubSeq(records, 1, Min(corrupt \cup {Len(records) + 1}) - 1)
        Count(points, o) ==
            LET last == IF points = <<>> THEN 0 ELSE points[Len(points)].count
            IN  Append(points, [time |-> o.time, count |-> IF o.start THEN last + 1 ELSE last - 1])
        points == [kid \in 0 .. r.next - 1 |-> FoldLeft(Count, <<>>, SelectSeq(used, LAMBDA o : KernelOf(o) = kid))]
    IN  [kid \in {k \in DOMAIN points : Len(points[k]) >= 2} |-> [name |-> Name(r, kid), points |-> points[kid]]]

(* accumulateOccupancySample: a start opens a wave, an end closes the last *)
(* one of the slot.  A last wave without end runs until the latest time    *)
(* that was seen so far: of dispatches, events and engines up to this one. *)
Sample(r, row, o) ==
    IF o.start THEN Append(row, [begin |-> o.time, end |-> 0, kid |-> r.pcs[o.pc]])
    ELSE IF row = <<>> THEN row
    ELSE [row EXCEPT ![Len(row)].end = o.time]

Closed(row, maxtime) == IF row[Len(row)].end = 0 THEN [row EXCEPT ![Len(row)].end = maxtime] ELSE row

MaterializeTraces(store, r) ==
    LET Times(lists, upTo) == UNION {{x.time : x \in ToSet(lists[se])} : se \in {e \in DOMAIN lists : e <= upTo}}
        last == Max(DOMAIN store.occupancy \cup DOMAIN store.dispatches \cup DOMAIN store.events \cup {0})
        MaxTime(se) == Max({0} \cup Times(store.dispatches, last) \cup Times(store.events, last) \cup Times(store.occupancy, se))
        Row(place) == FoldLeft(LAMBDA row, o : Sample(r, row, o), <<>>,
                               SelectSeq(store.occupancy[place[1]], LAMBDA o : o.slot = place[2]))
        places == UNION {{<<se, o.slot>> : o \in ToSet(store.occupancy[se])} : se \in DOMAIN store.occupancy}
    IN  [place \in {p \in places : Row(p) # <<>>} |-> Closed(Row(place), MaxTime(place[1]))]

-----------------------------------------------------------------------------
(* AddShaderEngine: a dispatch lasts until the first end with its id on    *)
(* its queue, which is then not drawn; all other events are points.        *)
Queue(x) == <<x.me % 2, x.pipe>>
Ends(d, es) ==
    {i \in DOMAIN es : es[i].type = "DISPATCH_END" /\ d.id # 0 /\ es[i].payload = d.id /\ Queue(es[i]) = Queue(d)}

Spans(ds, es, r) ==
    LET End(d) == Min(Ends(d, es))
        Span(kind, i, begin, end, kid) ==
            [kind |-> kind, index |-> i, begin |-> begin, end |-> end, kid |-> kid, lane |-> 0]
        DispatchSpan(i) ==
            Span("dispatch", i, ds[i].time, IF Ends(ds[i], es) = {} THEN ds[i].time ELSE es[End(ds[i])].time,
                 r.pcs[ds[i].entry_point])
        consumed == {End(d) : d \in {x \in ToSet(ds) : Ends(x, es) # {}}}
        points == Ranked([i \in DOMAIN es |-> i], DOMAIN es \ consumed)
    IN  SortedBy(LAMBDA p : p.begin,
                 [i \in DOMAIN ds |-> DispatchSpan(i)]
                   \o Mapped(LAMBDA i : Span("event", i, es[i].time, es[i].time, -1), points))

TraceEventGroup(type) ==
    IF type = "GC_RINSE" THEN "GCRinse"
    ELSE IF type \in {"CS_PARTIAL_FLUSH", "CACHE_FLUSH", "BOTTOM_OF_PIPE_TS"} THEN "Flush"
    ELSE IF type \in {"CODE_OBJECT_LOAD", "CODE_OBJECT_UNLOAD"} THEN "CodeObject"
    ELSE IF type \in {"TT_STALL_BEGIN", "TT_STALL_END", "TT_FLUSH"} THEN "SQTT"
    ELSE IF type = "SPM_SAMPLE" THEN "SPM"
    ELSE "Other"
EventGroups == {"Dispatch", "GCRinse", "Flush", "CodeObject", "SQTT", "SPM", "Other"}

SpanVisible(track, span, groups) ==
    (IF span.kind = "dispatch" THEN "Dispatch" ELSE TraceEventGroup(track.events[span.index].type)) \in groups

(* Faulty: a lane is free at the very time at which its last span ends.    *)
FreeAtEnd(end, begin) == end <= begin
Free(end, begin) == end < begin

(* Layout: the visible spans in their order, each in the lane that is free *)
(* first, if it is free, or in a new one.                                  *)
Place(track, groups, laid, i) ==
    LET span  == laid.spans[i]
        lanes == DOMAIN laid.ends
        first == CHOOSE k \in lanes : \A j \in lanes :
                     laid.ends[k] < laid.ends[j] \/ (laid.ends[k] = laid.ends[j] /\ k <= j)
        lane  == IF lanes # {} /\ Free(laid.ends[first], span.begin) THEN first ELSE Cardinality(lanes)
    IN  IF ~SpanVisible(track, span, groups) THEN laid
        ELSE [spans   |-> [laid.spans EXCEPT ![i].lane = lane],
              ends    |-> [k \in lanes \cup {lane} |-> IF k = lane THEN span.end ELSE laid.ends[k]],
              visible |-> Append(laid.visible, i)]

Layout(track, groups) ==
    LET laid == FoldLeft(LAMBDA l, i : Place(track, groups, l, i),
                         [spans |-> track.spans, ends |-> [k \in {} |-> 0], visible |-> <<>>],
                         [i \in DOMAIN track.spans |-> i])
    IN  [track EXCEPT !.spans = laid.spans, !.visible = laid.visible, !.lanes = Cardinality(DOMAIN laid.ends)]

AddShaderEngine(store, se, r) ==
    LET ds == IF se \in DOMAIN store.dispatches THEN store.dispatches[se] ELSE <<>>
        es == IF se \in DOMAIN store.events THEN store.events[se] ELSE <<>>
    IN  [se |-> se, dispatches |-> ds, events |-> es, spans |-> Spans(ds, es, r), visible |-> <<>>, lanes |-> 0]

BuildTracks(store, r) ==
    LET On(lists) == {se \in DOMAIN lists : lists[se] # <<>>}
        engines == SetToSortSeq(On(store.dispatches) \cup On(store.events), <)
    IN  [i \in DOMAIN engines |-> AddShaderEngine(store, engines[i], r)]

-----------------------------------------------------------------------------
(* What becomes of each capture.  The plot looks PCs up before the view.   *)
Opened ==
    [name \in DOMAIN Captures |->
        LET store  == Store(Captures[name])
            waves  == Mapped(LAMBDA o : o.pc, Flat(store.occupancy))
            atPlot == Resolve(Emitted(Captures[name]), waves)
            atView == Resolve(atPlot, Mapped(LAMBDA d : d.entry_point, Flat(store.dispatches)) \o waves)
        IN  [resolver |-> atView, series |-> DispatchSeries(store, atPlot), rows |-> MaterializeTraces(store, atView),
             tracks |-> BuildTracks(store, atView)]]

DefaultGlobalGroups == EventGroups \ {"GCRinse"}

ViewInit ==
    /\ opened = "none"
    /\ dispatch_resolver = NoKernels
    /\ series = [kid \in {} |-> <<>>]
    /\ rows = [place \in {} |-> <<>>]
    /\ tracks = <<>>
    /\ kernel_names = [kid \in {} |-> <<>>]
    /\ event_groups = DefaultGlobalGroups

ShowView(view) ==
    /\ dispatch_resolver' = view.resolver
    /\ series' = view.series
    /\ rows' = view.rows
    /\ tracks' = [i \in DOMAIN view.tracks |-> Layout(view.tracks[i], event_groups)]
    /\ kernel_names' = view.resolver.names @@ kernel_names
    /\ UNCHANGED event_groups

OpenCapture(name) == opened' = name /\ ShowView(Opened[name])

(* A checkbox of the event filter.                                         *)
SetDecoderEventGroups(group) ==
    /\ opened # "none"
    /\ event_groups' = (event_groups \ {group}) \cup ({group} \ event_groups)
    /\ tracks' = [i \in DOMAIN tracks |-> Layout(tracks[i], event_groups')]
    /\ UNCHANGED <<opened, dispatch_resolver, series, rows, kernel_names>>

ViewNext ==
    \/ \E name \in DOMAIN Captures : OpenCapture(name)
    \/ \E group \in EventGroups : SetDecoderEventGroups(group)
ViewSpec == ViewInit /\ [][ViewNext]_viewVars

-----------------------------------------------------------------------------
(* Which kernel a wave or a dispatch is of, and its name, by the capture.  *)
InUse == opened # "none"
Held == Captures[opened]
Given == Store(Held)
KernelsOfEntry(entry) == {d.kernel_id : d \in {x \in ToSet(Flat(Held.dispatches)) : x.entry_point = entry}} \ {-1}
KernelOfDispatch(d) ==
    IF Held.source = "att" THEN d.entry_point
    ELSE IF d.kernel_id >= 0 THEN <<JsonKernelCodeObjectId, d.kernel_id>>
    ELSE IF KernelsOfEntry(d.entry_point) # {} THEN <<JsonKernelCodeObjectId, CHOOSE k \in KernelsOfEntry(d.entry_point) : TRUE>>
    ELSE d.entry_point

NameOfKernel(kernel, kid) ==
    LET told == SelectSeq(Held.names \o Mapped(LAMBDA d : <<d.kernel_id, d.kernel_name>>, Flat(Held.dispatches)),
                          LAMBDA n : n[1] = kernel[2] /\ n[2] # <<>>)
    IN  IF Held.source = "att"
          THEN IF kernel \in DOMAIN Held.symbols THEN Held.symbols[kernel] ELSE <<"0 / 0x", kernel[2]>>
          ELSE IF kernel[1] # JsonKernelCodeObjectId \/ told = <<>> THEN Synthetic(kid)
          ELSE told[Len(told)][2]

RecordsAt(place) == SelectSeq(Given.occupancy[place[1]], LAMBDA o : o.slot = place[2])
StartsAt(place) == SelectSeq(RecordsAt(place), LAMBDA o : o.start)

(* <<kernel, its id in the view>> of every wave and dispatch.  Dispatches  *)
(* that name several kernels for one entry point - or have none, which is  *)
(* read as <<0, 0>> - are left out.                                        *)
KernelsShown ==
    UNION {{<<StartsAt(place)[i].pc, rows[place][i].kid>> : i \in DOMAIN rows[place]} : place \in DOMAIN rows}
      \cup UNION {{<<KernelOfDispatch(t.dispatches[s.index]), s.kid>> :
                      s \in {x \in ToSet(t.spans) : /\ x.kind = "dispatch"
                                                    /\ Held.source = "json" => Cardinality(KernelsOfEntry(t.dispatches[x.index].entry_point)) < 2}} :
                  t \in ToSet(tracks)}

(* Captures in which waves start and end by turns in each slot.            *)
WellFormed ==
    /\ \A o \in ToSet(Flat(Given.occupancy)) : o.pc # <<JsonKernelCodeObjectId, -1>>
    /\ \A se \in DOMAIN Given.occupancy : \A slot \in {o.slot : o \in ToSet(Given.occupancy[se])} :
         LET q == RecordsAt(<<se, slot>>) IN
         \A i \in DOMAIN q : q[i].start = (i % 2 = 1) /\ (i % 2 = 0 => q[i].pc = q[i - 1].pc)

Running(place, i, t) ==
    LET w == rows[place][i]
        ended == 2 * i <= Len(RecordsAt(place))
    IN  w.begin <= t /\ (ended => t < w.end)

CountAt(points, t) == points[Max({i \in DOMAIN points : points[i].time <= t})].count

(* Waves and dispatches of one kernel, wherever their ids come from - the  *)
(* file, a PC that was registered, or a PC nobody registered - have one id *)
(* and different kernels have different ones; tooltips and curves give an  *)
(* id the name of its kernel in this capture, whatever was opened before;  *)
(* and the plot counts as many running waves of a kernel as the rows show. *)
KernelsExact ==
    InUse =>
      /\ \A x, y \in KernelsShown : x[1] = y[1] <=> x[2] = y[2]
      /\ \A x \in KernelsShown : x[2] \in DOMAIN kernel_names /\ kernel_names[x[2]] = NameOfKernel(x[1], x[2])
      /\ \A x \in KernelsShown : x[2] \in DOMAIN series => series[x[2]].name = NameOfKernel(x[1], x[2])
      /\ WellFormed =>
           LET waves == UNION {{place} \X DOMAIN rows[place] : place \in DOMAIN rows}
               IdOf(w) == rows[w[1]][w[2]].kid
           IN  /\ \A w \in waves : 2 * w[2] <= Len(RecordsAt(w[1])) => IdOf(w) \in DOMAIN series
               /\ \A kid \in DOMAIN series : \A p \in ToSet(series[kid].points) :
                    CountAt(series[kid].points, p.time) = Cardinality({w \in waves : IdOf(w) = kid /\ Running(w[1], w[2], p.time)})

(* Captures whose dispatches have ids of their own on each queue, and end  *)
(* after they began.                                                       *)
Paired(d, e) ==
    e.type = "DISPATCH_END" /\ d.id # 0 /\ e.payload = d.id /\ (e.me - d.me) % 2 = 0 /\ e.pipe = d.pipe
OwnIds(t) ==
    \A i \in DOMAIN t.dispatches : \A j \in DOMAIN t.events :
        Paired(t.dispatches[i], t.events[j]) =>
            /\ t.dispatches[i].time <= t.events[j].time
            /\ \A k \in DOMAIN t.dispatches : Paired(t.dispatches[k], t.events[j]) => k = i
            /\ \A k \in DOMAIN t.events : Paired(t.dispatches[i], t.events[k]) => k = j

(* The items to be shown: <<kind, index, begin, end>>.                     *)
ItemsOf(t) ==
    LET PartnersOf(d) == {e \in ToSet(t.events) : Paired(d, e)}
        alone == {j \in DOMAIN t.events : \A d \in ToSet(t.dispatches) : ~Paired(d, t.events[j])}
        EndOf(d) == IF PartnersOf(d) = {} THEN d.time ELSE (CHOOSE e \in PartnersOf(d) : TRUE).time
    IN  {<<"dispatch", i, t.dispatches[i].time, EndOf(t.dispatches[i])>> :
            i \in {k \in DOMAIN t.dispatches : "Dispatch" \in event_groups}}
          \cup {<<"event", j, t.events[j].time, t.events[j].time>> :
                   j \in {k \in alone : TraceEventGroup(t.events[k].type) \in event_groups}}

VisibleSpans(t) == {t.spans[i] : i \in ToSet(t.visible)}

(* However the events were filtered before: each engine shows its own      *)
(* dispatches, each until the event that ended it, and the other events of *)
(* the chosen groups, in lanes in which no two touch, and in no more lanes *)
(* than there are items at one time.                                       *)
LanesExact ==
    \A t \in {x \in ToSet(tracks) : OwnIds(x)} :
        LET shown == VisibleSpans(t) IN
        /\ {<<s.kind, s.index, s.begin, s.end>> : s \in shown} = ItemsOf(t)
        /\ Len(t.visible) = Cardinality(shown)
        /\ \A x, y \in shown : x # y /\ x.lane = y.lane => x.end < y.begin \/ y.end < x.begin
        /\ t.lanes = Max({0} \cup {Cardinality({y \in shown : y.begin <= x.begin /\ x.begin <= y.end}) : x \in shown})
        /\ \A x \in shown : x.lane \in 0 .. t.lanes - 1
=============================================================================
