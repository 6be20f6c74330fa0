----------------------------- MODULE SpmSeries -----------------------------
(***************************************************************************)
(* SpmSeries: the points that are drawn of a tensor of SPM values, against *)
(* the sample clocks of the XCCs.  A sample holds for the window that ends *)
(* at its clock; the window of the first sample is as long as the second.  *)
(* A store of SPM data is [view, names, counters, clock, timestamps], the  *)
(* counters and the clock tensors.                                         *)
(***************************************************************************)
EXTENDS Tensors

Samples(t) == t.dim[4]
XccCount(t) == t.dim[1]
Value(t, xcc, sample) == t.data[LinearIndex(t.dim, <<xcc, 0, 0, sample>>)]
IsValid(t, xcc, sample) == LinearIndex(t.dim, <<xcc, 0, 0, sample>>) \in t.valid
Point(time, value) == [time |-> time, value |-> value]

(* Faulty: the clock of the XCC at the same place.                         *)
ClockXccByPlace(values, xcc) == xcc

ClockXcc(values, xcc) == IF Len(values.xccs) = XccCount(values) THEN values.xccs[xcc + 1] ELSE xcc

FirstWindowStart(clock, xcc, samples) ==
    LET endpoint == Value(clock, xcc, 0)
    IN  IF samples > 1 THEN endpoint - (Value(clock, xcc, 1) - endpoint) ELSE endpoint

WindowStart(clock, xcc, samples, sample) ==
    IF sample = 0 THEN FirstWindowStart(clock, xcc, samples) ELSE Value(clock, xcc, sample - 1)

(* The samples up to the last whose clock is valid.                        *)
ValidSamples(values, clock, xcc) ==
    LET most == Min({Samples(values), Samples(clock)})
    IN  Max({0} \cup {n \in 1 .. most : IsValid(clock, ClockXcc(values, xcc), n - 1)})

AverageClock(values, clock) ==
    LET n == Samples(clock)
        from == [s \in 0 .. n - 1 |->
                    SelectSeq(values.xccs, LAMBDA x : x < XccCount(clock) /\ IsValid(clock, x, s))]
        Total(s) == FoldLeft(LAMBDA sum, x : sum + Value(clock, x, s), 0, from[s])
    IN  Tensor(<<1, 1, 1, n>>, [s \in 0 .. n - 1 |-> IF from[s] = <<>> THEN 0 ELSE Total(s) \div Len(from[s])],
               TRUE, {s \in 0 .. n - 1 : from[s] # <<>>}, <<0>>)

(* The lengths of the windows by their timestamps: SPM_CLOCK.              *)
TimestampDeltas(store) ==
    LET clock == store.clock
        Stamp(x, s) == store.timestamps[LinearIndex(clock.dim, <<x, 0, 0, s>>)]
        Count(x) == Max({0} \cup {n \in 1 .. Samples(clock) : IsValid(clock, x, n - 1)})
        Average(x) == IF Count(x) > 1 THEN (Stamp(x, Count(x) - 1) - Stamp(x, 0)) \div (Count(x) - 1) ELSE 0
        Delta(x, s) == IF s > 0 /\ s < Count(x) THEN Stamp(x, s) - Stamp(x, s - 1) ELSE Average(x)
    IN  [i \in DOMAIN clock.data |-> LET c == MultiIndex(clock.dim, i) IN Delta(c[1], c[4])]

SumSpatial(values) ==
    LET axes == SelectSeq(<<2, 3>>, LAMBDA x : values.dim[x] > 1)
    IN  IF axes = <<>> THEN values ELSE SumOver(values, axes)

-----------------------------------------------------------------------------
Interval(values, clock, xcc) ==
    LET n     == ValidSamples(values, clock, xcc)
        at    == ClockXcc(values, xcc)
        drawn == SelectSeq([s \in 1 .. n |-> s - 1], LAMBDA s : IsValid(values, xcc, s))
        points == [i \in DOMAIN drawn |-> Point(WindowStart(clock, at, n, drawn[i]), Value(values, xcc, drawn[i]))]
    IN  IF points = <<>> THEN points
        ELSE Append(points, Point(Value(clock, at, n - 1), Last(points).value))

(* The windows of all XCCs are taken in the order in which they begin, and *)
(* a point is drawn once all that begin at one time have been taken.       *)
MergeXcc(values, clock) ==
    LET counts == [x \in 0 .. XccCount(values) - 1 |->
                      IF ClockXcc(values, x) >= XccCount(clock) THEN 0 ELSE ValidSamples(values, clock, x)]
        Start(e) == WindowStart(clock, ClockXcc(values, e[1]), counts[e[1]], e[2])
        events == FoldSet(LAMBDA x, es : es \o [s \in 1 .. counts[x] |-> <<x, s - 1>>], <<>>, DOMAIN counts)
        Before(d, e) == Start(d) < Start(e) \/ (Start(d) = Start(e) /\ (d[1] < e[1] \/ (d[1] = e[1] /\ d[2] < e[2])))
        queue  == SortSeq(events, Before)
        Take(acc, e) ==
            LET current == IF IsValid(values, e[1], e[2])
                           THEN [acc.current EXCEPT ![e[1]] = Value(values, e[1], e[2])] ELSE acc.current
                point == Point(Start(e), MapThenSumSet(LAMBDA x : current[x], DOMAIN current))
            IN  IF ~IsValid(values, e[1], e[2]) THEN acc
                ELSE IF Last(acc.points).time = Start(e)
                THEN [current |-> current, points |-> Append(Front(acc.points), point)]
                ELSE [current |-> current, points |-> Append(acc.points, point)]
        first  == [current |-> [x \in DOMAIN counts |-> 0], points |-> <<Point(Start(queue[1]) - 1, 0)>>]
        points == FoldLeft(Take, first, queue).points
        final  == Max({Value(clock, ClockXcc(values, x), counts[x] - 1) : x \in {y \in DOMAIN counts : counts[y] > 0}})
    IN  IF events = <<>> THEN <<>>
        ELSE IF Last(points).time < final THEN Append(points, Point(final, Last(points).value))
        ELSE points

SeriesOfXccs(summed, clock) ==
    CASE XccCount(summed) > 1 -> MergeXcc(summed, clock)
      [] XccCount(summed) = 1 /\ Len(summed.xccs) <= 1 -> Interval(summed, clock, 0)
      [] OTHER -> Interval(summed, AverageClock(summed, clock), 0)
MakePlotSeries(values, clock) == SeriesOfXccs(SumSpatial(values), clock)
=============================================================================
