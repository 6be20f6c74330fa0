---------------------------- MODULE CounterPlot ----------------------------
(***************************************************************************)
(* CounterPlotView: the curves of the counters of a store, of SPM samples  *)
(* or of a trace, and of the counters derived from them.  The plot is made *)
(* when a store is loaded; the derived counters are made anew, with a new  *)
(* context, each time the editor is closed with definitions in it.         *)
(* A curve is [name, points, disabled]; a name is followed by the place    *)
(* among XCCs, SEs and CUs where a derived counter of a trace has several. *)
(***************************************************************************)
EXTENDS CounterMeaning, CounterGrammar, SpmSeries, TraceCounters

CONSTANTS Stores,               \* name -> store
          Texts,                \* name -> lines of tokens; "builtin" is the plot's own
          Temporaries,          \* the names that begin with an underscore
          BuiltinNames,         \* the names of the builtin definitions
          kMaxPlotsPerDerived

VARIABLES plotted,              \* the store, "none" before the first
          definitions,          \* the text in force
          context,              \* the counters of derivedmanager
          rawCurves, derivedCurves,
          warned,               \* the names that the last warning lists
          hides                 \* history: the raw curves that are to be hidden

plotVars == <<plotted, definitions, context, rawCurves, derivedCurves, warned, hides>>

-----------------------------------------------------------------------------
NameOf(store, index) == store.names[index]
Single(name) == <<name, -1, -1, -1>>
Curve(name, points) == [name |-> name, points |-> Tabulated(points), disabled |-> FALSE]

SpmRawCurves(store) ==
    [i \in DOMAIN store.counters |->
        Curve(Single(NameOf(store, i)), MakePlotSeries(store.counters[i], store.clock))]

TraceRawCurves(store) ==
    LET nodes == FilledNodes(store)
        OfBank(bank) ==
            LET points == AccumAll(nodes[bank])
            IN  [c \in 1 .. (IF points = <<>> THEN 0 ELSE CntBank) |->
                    Curve(Single(NameOf(store, (bank - 1) * CntBank + c)),
                          [i \in DOMAIN points |-> Point(points[i].time, points[i].events[c])])]
    IN  FoldLeft(LAMBDA curves, bank : curves \o OfBank(bank), <<>>, [bank \in DOMAIN nodes |-> bank])

AddRawCounters(store) == IF store.view = "spm" THEN SpmRawCurves(store) ELSE TraceRawCurves(store)

(* registerCounters.                                                       *)
SpmCounters(store) ==
    LET named == [i \in DOMAIN store.counters |-> <<NameOf(store, i), store.counters[i]>>]
        spmClock == [store.clock EXCEPT !.data = TimestampDeltas(store)]
    IN  IF named = <<>> THEN <<>> ELSE named \o <<<<"SCLOCK", store.clock>>, <<"SPM_CLOCK", spmClock>>>>

TraceTensors(store) ==
    LET nodes == FilledNodes(store)
        delta == Delta(store.banks)
        grid  == TimeGrid(nodes, delta)
        named == [i \in 1 .. Len(nodes) * CntBank |->
                     <<NameOf(store, i),
                       CounterTensor(nodes[((i - 1) \div CntBank) + 1], grid, delta, ((i - 1) % CntBank) + 1)>>]
        clock == Whole(<<1, 1, 1, grid.samples>>, [k \in 0 .. grid.samples - 1 |-> grid.first + k * delta])
        rclock == IF \A se \in DOMAIN store.rclock : store.rclock[se] = <<>> THEN <<>>
                  ELSE <<<<"RCLOCK", RealtimeTensor(store.rclock)>>>>
    IN  IF ~grid.valid THEN <<>> ELSE named \o <<<<"SCLOCK", clock>>>> \o rclock

BuildDerivedManager(store) ==
    FoldLeft(LAMBDA ctx, counter : SetCounter(ctx, counter[1], counter[2]), EmptyContext,
             IF store.view = "spm" THEN SpmCounters(store) ELSE TraceTensors(store))

(* addDerivedSeries: one curve for SPM; for a trace one for each place, up *)
(* to a limit, and none if there are more samples than clocks.             *)
SpmSeriesOf(name, values, clock) == <<Curve(Single(name), MakePlotSeries(values, clock))>>

TraceSeriesOf(name, values, clock) ==
    LET dim == values.dim
        place(k) == MultiIndex(<<dim[1], dim[2], dim[3], 1>>, k - 1)
        Tag(c, x) == IF dim[x] > 1 THEN c[x] ELSE -1
        SeriesAt(c) ==
            Curve(<<name, Tag(c, 1), Tag(c, 2), Tag(c, 3)>>,
                  [s \in 1 .. dim[4] |->
                      Point(Value(clock, IF XccCount(clock) = 1 THEN 0 ELSE c[1], s - 1),
                            values.data[LinearIndex(dim, [c EXCEPT ![4] = s - 1])])])
    IN  IF Samples(clock) < dim[4] THEN <<>>
        ELSE [k \in 1 .. Min({kMaxPlotsPerDerived, dim[1] * dim[2] * dim[3]}) |-> SeriesAt(place(k))]

AddDerivedSeries(view, name, values, clock) ==
    IF view = "spm" THEN SpmSeriesOf(name, values, clock) ELSE TraceSeriesOf(name, values, clock)

-----------------------------------------------------------------------------
(* Only a trace has definitions of its own, for which it never warns.      *)
TextsFor(view) == IF view = "spm" THEN DOMAIN Texts \ {"builtin"} ELSE DOMAIN Texts
Excused(view) == IF view = "spm" THEN {} ELSE BuiltinNames

(* The plot and context of each store before any definitions are loaded.   *)
FreshCurves == Tabulated([s \in DOMAIN Stores |-> AddRawCounters(Stores[s])])
FreshContext == Tabulated([s \in DOMAIN Stores |-> BuildDerivedManager(Stores[s])])

(* Faulty: the curves of counters that are not read are shown again.       *)
HideOnlyAccessed(curves, accessed) ==
    [i \in DOMAIN curves |-> [curves[i] EXCEPT !.disabled = curves[i].name[1] \in accessed]]

HideAccessed(curves, accessed) ==
    [i \in DOMAIN curves |-> [curves[i] EXCEPT !.disabled = @ \/ curves[i].name[1] \in accessed]]

(* The reference for the definitions of a text over a store.               *)
RawMeanings ==
    Tabulated([s \in DOMAIN Stores |->
                  LET raw == FreshContext[s].raw IN Tabulated([n \in DOMAIN raw |-> MeaningOf(raw[n])])])
DefsOf == Tabulated([text \in DOMAIN Texts |-> DefinedIn(Texts[text])])
Loads == (DOMAIN Stores) \X (DOMAIN Texts)
MeaningsIn ==
    Tabulated([x \in Loads |->
        Tabulated([n \in DOMAIN DefsOf[x[2]] |-> Meaning(RawMeanings[x[1]], DefsOf[x[2]], Named(n), {})])])
EvaluableOf(meanings) == {n \in DOMAIN meanings : meanings[n].ok}
Evaluable(s, text) == EvaluableOf(MeaningsIn[<<s, text>>])
ReadsOf(evaluable, raw, defs) ==
    IF evaluable \subseteq Temporaries THEN {} ELSE UNION {Reads(raw, defs, Named(n), {}) : n \in DOMAIN defs}
ReadBy == Tabulated([x \in Loads |-> ReadsOf(Evaluable(x[1], x[2]), RawMeanings[x[1]], DefsOf[x[2]])])

(* What becomes of a text: its names are evaluated, in any order, in a new *)
(* context, those that cannot be are removed from it, and the others are   *)
(* drawn against the clock of the plot.                                    *)
Draw(s, values, clock) ==
    [context |-> clock.ctx,
     curves  |-> IF ~clock.tensor.ok THEN {}
                 ELSE UNION {ToSet(AddDerivedSeries(Stores[s].view, n, values[n], clock.tensor)) : n \in DOMAIN values}]

Outcome(s, values, ctx) ==
    LET valid   == {n \in DOMAIN values : values[n].ok}
        visible == valid \ Temporaries
    IN  [drawn    |-> IF visible # {} /\ HasCounter(ctx, "SCLOCK")
                      THEN Draw(s, [n \in visible |-> values[n]], GetCounter(ctx, "SCLOCK"))
                      ELSE [context |-> ctx, curves |-> {}],
         accessed |-> IF visible = {} THEN {} ELSE ctx.accessed,
         errors   |-> DOMAIN values \ (valid \cup Excused(Stores[s].view))]

Evaluated(s, all) == Outcome(s, all.values, ClearErrorDerivedCounters(all.ctx))
Orders(S) == {order \in [1 .. Cardinality(S) -> S] : ToSet(order) = S}
OutcomesOf(s, loaded) == {Evaluated(s, EvaluateAll(loaded, order)) : order \in Orders(DOMAIN loaded.derived)}

ParsedTexts == Tabulated([text \in DOMAIN Texts |-> ParseFile(Texts[text])])

Outcomes == Tabulated([x \in Loads |-> OutcomesOf(x[1], LoadDefinitions(FreshContext[x[1]], ParsedTexts[x[2]]))])

(* UpdateDerivedCounters, of the plot of s with its raw curves.            *)
UpdateDerivedCounters(s, raw, text, suppress) ==
    \E new \in Outcomes[<<s, text>>] :
        /\ definitions' = text
        /\ context' = new.drawn.context
        /\ rawCurves' = HideAccessed(raw, new.accessed)
        /\ derivedCurves' = new.drawn.curves
        /\ warned' = IF suppress THEN {} ELSE new.errors

PlotInit ==
    /\ plotted = "none"
    /\ definitions = "none"
    /\ context = EmptyContext
    /\ rawCurves = <<>>
    /\ derivedCurves = {}
    /\ warned = {}
    /\ hides = {}

(* LoadCounters: a new plot replaces the last one.  Its definitions are    *)
(* those of the editor's file or, if that is empty, the plot's own.        *)
LoadPlot(s) ==
    /\ plotted' = s
    /\ IF Stores[s].names = <<>>
       THEN /\ definitions' = "none" /\ context' = EmptyContext
            /\ rawCurves' = <<>> /\ derivedCurves' = {}
            /\ warned' = {} /\ hides' = {}
       ELSE \E text \in TextsFor(Stores[s].view) :
              /\ UpdateDerivedCounters(s, FreshCurves[s], text, TRUE)
              /\ hides' = ReadBy[<<s, text>>]

(* The editor evaluates the counters that it lists, and is closed with the *)
(* definitions of some tab, or with an empty one.                          *)
EditDefinitions ==
    /\ plotted # "none"
    /\ \E text \in TextsFor(Stores[plotted].view) :
         /\ UpdateDerivedCounters(plotted, rawCurves, text, FALSE)
         /\ hides' = hides \cup ReadBy[<<plotted, text>>]
    /\ UNCHANGED plotted

CloseEmptyEditor ==
    /\ plotted # "none"
    /\ context' = EvaluateAll(context, SetToSeq(DOMAIN context.raw)
                                       \o SetToSeq(DOMAIN context.derived \ Temporaries)).ctx
    /\ UNCHANGED <<plotted, definitions, rawCurves, derivedCurves, warned, hides>>

(* A checkbox of the counter table: setDisabled.  That of a derived curve  *)
(* concerns nothing else and is gone with the curve.                       *)
ToggleCurve ==
    /\ plotted # "none"
    /\ \E i \in DOMAIN rawCurves :
         LET name == rawCurves[i].name
             disabled == ~rawCurves[i].disabled
         IN  /\ rawCurves' = [j \in DOMAIN rawCurves |->
                                 IF rawCurves[j].name = name THEN [rawCurves[j] EXCEPT !.disabled = disabled]
                                 ELSE rawCurves[j]]
             /\ hides' = IF disabled THEN hides \cup {name[1]} ELSE hides \ {name[1]}
    /\ UNCHANGED <<plotted, definitions, context, derivedCurves, warned>>

PlotNext ==
    \/ \E s \in DOMAIN Stores : LoadPlot(s)
    \/ EditDefinitions
    \/ CloseEmptyEditor
    \/ ToggleCurve
PlotSpec == PlotInit /\ [][PlotNext]_plotVars

-----------------------------------------------------------------------------
InForce == plotted # "none" /\ definitions # "none"

(* A counter of a trace, from its samples: each counts in the window that  *)
(* begins a quarter of a delta before its clock.                           *)
MeaningOfTrace(store, i) ==
    LET bank  == store.banks[((i - 1) \div CntBank) + 1]
        delta == Delta(store.banks)
        grid  == TimeGrid(FilledNodes(store), delta)
        Start(k) == grid.first + k * delta - delta \div 4
        In(c) == {j \in 1 .. (IF c[2] \in DOMAIN bank THEN Len(bank[c[2]]) ELSE 0) :
                     LET d == bank[c[2]][j] IN d.cu = c[3] /\ Start(c[4]) <= d.time /\ d.time < Start(c[4] + 1)}
    IN  {<<c, MapThenSumSet(LAMBDA j : bank[c[2]][j].events[((i - 1) % CntBank) + 1], In(c))>> :
            c \in Box(<<1, grid.ses, grid.cus, grid.samples>>)}

SameValues(t, m) ==
    /\ t.dim = m.dim
    /\ {MultiIndex(t.dim, i) : i \in t.valid} = DOMAIN m.at
    /\ \A i \in t.valid : t.data[i] = m.at[MultiIndex(t.dim, i)].v

(* The names under which a definition with meaning m is to be drawn.       *)
NamesDrawn(store, n, m, samples) ==
    LET Tag(c, x) == IF m.dim[x] > 1 THEN c[x] ELSE -1
        Limited(c) == LinearIndex(<<1, m.dim[2], m.dim[3], 1>>, c) < kMaxPlotsPerDerived
    IN  IF store.view = "spm" THEN {Single(n)}
        ELSE IF m.dim[4] > samples THEN {}
        ELSE {<<n, Tag(c, 1), Tag(c, 2), Tag(c, 3)>> : c \in {d \in DOMAIN m.at : d[4] = 0 /\ Limited(d)}}

CountersExact(store) ==
    \A i \in DOMAIN store.names :
        LET t == context.raw[store.names[i]]
        IN  \A point \in MeaningOfTrace(store, i) : t.data[LinearIndex(t.dim, point[1])] = point[2]

ContextMeans(store, meanings, evaluable) ==
    /\ DOMAIN context.derived = evaluable
    /\ \A n \in evaluable : SameValues(GetCounter(context, n).tensor, meanings[n])
    /\ {c.name : c \in derivedCurves} =
          IF "SCLOCK" \notin DOMAIN context.raw THEN {}
          ELSE UNION {NamesDrawn(store, n, meanings[n], Samples(context.raw["SCLOCK"])) : n \in evaluable \ Temporaries}
    /\ warned \in {{}, DOMAIN meanings \ (evaluable \cup Excused(store.view))}

(* Whatever was defined or loaded before, and in whichever order the names *)
(* are evaluated: the context holds exactly the definitions in force that  *)
(* have a value, each with that value, and the raw counters of a trace     *)
(* hold what was sampled; the curves drawn are those of the definitions    *)
(* without an underscore, and the editor warned of exactly the others.     *)
DerivedExact ==
    InForce =>
      /\ ContextMeans(Stores[plotted], MeaningsIn[<<plotted, definitions>>], Evaluable(plotted, definitions))
      /\ Stores[plotted].view = "trace" /\ DOMAIN context.raw # {} => CountersExact(Stores[plotted])

(* What is drawn of SPM values that each come from one XCC: the sum of the *)
(* values that the XCCs hold, at each time at which one of them begins a   *)
(* window with a value, until the last window of all of them ends.         *)
OneXccEach(m) ==
    \A x \in 0 .. m.dim[1] - 1 : Cardinality(Origins(m, {c \in DOMAIN m.at : c[1] = x})) = 1

SpmPoints(m, clock) ==
    LET xccs   == 0 .. m.dim[1] - 1
        On(x)  == CHOOSE k \in Origins(m, {c \in DOMAIN m.at : c[1] = x}) : TRUE
        End(x, s) == clock.at[<<On(x), 0, 0, s>>].v
        Plane(x, s) == {c \in DOMAIN m.at : c[1] = x /\ c[4] = s}
        ended  == [x \in xccs |-> {s \in 0 .. m.dim[4] - 1 : <<On(x), 0, 0, s>> \in DOMAIN clock.at}]
        Begin(x, s) == IF s > 0 THEN End(x, s - 1)
                       ELSE IF ended[x] = {0} THEN End(x, 0) ELSE 2 * End(x, 0) - End(x, 1)
        windows == {w \in xccs \X (0 .. m.dim[4] - 1) : w[2] \in ended[w[1]] /\ Plane(w[1], w[2]) # {}}
        begins  == [w \in windows |-> Begin(w[1], w[2])]
        Held(x, time) ==
            LET begun == {w \in windows : w[1] = x /\ begins[w] <= time}
            IN  IF begun = {} THEN 0 ELSE Summed(m, Plane(x, Max({w[2] : w \in begun})))
        At(time) == Point(time, MapThenSumSet(LAMBDA x : Held(x, time), xccs))
        last    == Max({End(x, Max(ended[x])) : x \in xccs})
        leading == IF m.dim[1] = 1 THEN {} ELSE {Point(Min({Begin(x, 0) : x \in xccs}) - 1, 0)}
    IN  {At(begins[w]) : w \in windows} \cup {At(last)} \cup leading

(* What is drawn of a counter of a trace at some time: the sum of the last *)
(* samples of the CUs, except those of CUs that are silent, more than a    *)
(* delta after their last sample and before their next.                    *)
CountedAt(store, i, time) ==
    LET bank  == store.banks[((i - 1) \div CntBank) + 1]
        delta == Delta(store.banks)
        All   == UNION {{<<se, j>> : j \in DOMAIN bank[se]} : se \in DOMAIN bank}
        At(e) == bank[e[1]][e[2]]
        OfCu(e) == {d \in All : d[1] = e[1] /\ At(d).cu = At(e).cu}
        Counts(e) ==
            /\ At(e).time <= time
            /\ \A d \in OfCu(e) : At(d).time <= At(e).time \/ At(d).time > time
            /\ time < At(e).time + delta \/ \A d \in OfCu(e) : At(d).time <= At(e).time
    IN  MapThenSumSet(LAMBDA e : At(e).events[((i - 1) % CntBank) + 1], {e \in All : Counts(e)})

Increasing(points) == \A i, j \in DOMAIN points : i < j => points[i].time <= points[j].time

SpmCurvesExact(store, raw, meanings) ==
    /\ \A i \in DOMAIN rawCurves :
         ToSet(rawCurves[i].points) = SpmPoints(raw[store.names[i]], raw["SCLOCK"])
    /\ \A c \in derivedCurves :
         OneXccEach(meanings[c.name[1]]) => ToSet(c.points) = SpmPoints(meanings[c.name[1]], raw["SCLOCK"])

TraceCurvesExact(store, raw, meanings) ==
    LET Place(c) == [x \in 1 .. 3 |-> IF c.name[x + 1] = -1 THEN 0 ELSE c.name[x + 1]]
    IN  /\ \A i \in DOMAIN rawCurves : \A p \in ToSet(rawCurves[i].points) : p.value = CountedAt(store, i, p.time)
        /\ \A c \in derivedCurves : \A s \in DOMAIN c.points :
             /\ c.points[s].time = raw["SCLOCK"].at[<<0, 0, 0, s - 1>>].v
             /\ c.points[s].value = meanings[c.name[1]].at[Place(c) \o <<s - 1>>].v

(* Every curve goes through the values that its counter has at the times   *)
(* of its points: of SPM values on the clock of the XCC they come from,    *)
(* those of a trace over all the CUs, and of a derived counter of a trace  *)
(* against the clock of the plot.                                          *)
CurvesExact ==
    InForce =>
      /\ \A c \in ToSet(rawCurves) \cup derivedCurves : Increasing(c.points)
      /\ IF Stores[plotted].view = "spm"
         THEN SpmCurvesExact(Stores[plotted], RawMeanings[plotted], MeaningsIn[<<plotted, definitions>>])
         ELSE TraceCurvesExact(Stores[plotted], RawMeanings[plotted], MeaningsIn[<<plotted, definitions>>])

(* A raw curve is hidden exactly if, since the plot was made, definitions  *)
(* that draw something read its counter or the user unchecked it, and the  *)
(* user did not check it since.                                            *)
RawHidden ==
    InForce => \A i \in DOMAIN rawCurves : rawCurves[i].disabled <=> rawCurves[i].name[1] \in hides
=============================================================================
