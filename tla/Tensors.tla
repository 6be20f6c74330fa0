------------------------------ MODULE Tensors ------------------------------
(***************************************************************************)
(* The tensors of counter values: four axes (XCC, SE, CU, time), the data  *)
(* in row-major order, a mask of the valid elements if some are not, and   *)
(* the XCCs that the values belong to.  An operation that throws gives     *)
(* Failed.  Values are integers, and so are the quotients of means.  An    *)
(* element that is not valid reads 0: nothing reads it.                    *)
(***************************************************************************)
EXTENDS Integers, Sequences, FiniteSets, FiniteSetsExt, SequencesExt, TLC

Axes == 1 .. 4
Failed == [ok |-> FALSE]

TotalSize(dim) == dim[1] * dim[2] * dim[3] * dim[4]
LinearIndex(dim, c) == ((c[1] * dim[2] + c[2]) * dim[3] + c[3]) * dim[4] + c[4]
MultiIndex(dim, i) ==
    <<i \div (dim[4] * dim[3] * dim[2]), (i \div (dim[4] * dim[3])) % dim[2], (i \div dim[4]) % dim[3], i % dim[4]>>

(* The function f itself; TLC tabulates it here.                           *)
Tabulated(f) == f @@ [x \in {} |-> x]

(* A mask is kept only where some operand has one.                         *)
Tensor(dim, data, masked, valid, xccs) ==
    [ok |-> TRUE, dim |-> Tabulated(dim), data |-> Tabulated(data), masked |-> masked,
     valid |-> IF masked THEN valid ELSE 0 .. TotalSize(dim) - 1, xccs |-> xccs]
Whole(dim, data) == Tensor(dim, data, FALSE, {}, [x \in 1 .. dim[1] |-> x - 1])
IsScalar(t) == TotalSize(t.dim) = 1
Number(v) == Whole(<<1, 1, 1, 1>>, [i \in {0} |-> v])
Linear(size, axis) ==
    Whole([<<1, 1, 1, 1>> EXCEPT ![axis] = size], [i \in 0 .. size - 1 |-> i])
Negated(t) == Tensor(t.dim, [i \in DOMAIN t.data |-> -t.data[i]], t.masked, t.valid, t.xccs)

-----------------------------------------------------------------------------
(* reduceAxes: over the axes that a list names, all of them if it is empty.*)
Reduced(axes) == IF axes = <<>> THEN Axes ELSE ToSet(axes)
ReducedShape(dim, axes) == [x \in Axes |-> IF x \in Reduced(axes) THEN 1 ELSE dim[x]]
Collapse(c, axes) == [x \in Axes |-> IF x \in Reduced(axes) THEN 0 ELSE c[x]]

ReduceAxes(f, t, axes) ==
    LET dim  == ReducedShape(t.dim, axes)
        from == [i \in 0 .. TotalSize(dim) - 1 |->
                    {j \in t.valid : LinearIndex(dim, Collapse(MultiIndex(t.dim, j), axes)) = i}]
        Of(S) == CASE f = "sum" -> MapThenSumSet(LAMBDA j : t.data[j], S)
                   [] f = "max" -> Max({t.data[j] : j \in S})
                   [] f = "min" -> Min({t.data[j] : j \in S})
    IN  Tensor(dim, [i \in DOMAIN from |-> IF from[i] = {} THEN 0 ELSE Of(from[i])],
               t.masked, {i \in DOMAIN from : from[i] # {}}, t.xccs)

SumOver(t, axes) == ReduceAxes("sum", t, axes)
MaxOver(t, axes) == ReduceAxes("max", t, axes)
MinOver(t, axes) == ReduceAxes("min", t, axes)

(* Without a mask, a sum is divided by the sizes of the axes in the list;  *)
(* with one, by the number of values summed.                               *)
MeanOver(t, axes) ==
    LET sum    == SumOver(t, axes)
        sizes  == FoldLeft(LAMBDA n, x : n * t.dim[x], 1, IF axes = <<>> THEN <<1, 2, 3, 4>> ELSE axes)
        counts == SumOver([t EXCEPT !.data = [j \in DOMAIN @ |-> 1]], axes)
        By(i)  == IF t.masked THEN counts.data[i] ELSE sizes
    IN  Tensor(sum.dim, [i \in DOMAIN sum.data |-> IF i \in sum.valid THEN sum.data[i] \div By(i) ELSE sum.data[i]],
               t.masked, sum.valid, t.xccs)

-----------------------------------------------------------------------------
(* What select, selectRange and remove have in common: places is the       *)
(* sequence of the places on the axis that are kept.                       *)
Gather(t, axis, places, xccs) ==
    LET dim    == [t.dim EXCEPT ![axis] = Len(places)]
        all    == 0 .. TotalSize(dim) - 1
        source == [i \in all |->
                      LET c == MultiIndex(dim, i) IN LinearIndex(t.dim, [c EXCEPT ![axis] = places[c[axis] + 1]])]
    IN  Tensor(dim, [i \in all |-> t.data[source[i]]], t.masked, {i \in all : source[i] \in t.valid}, xccs)

(* A negative index counts from the end.                                   *)
FromEnd(t, axis, index) == IF index < 0 THEN index + t.dim[axis] ELSE index

SelectIndex(t, index, axis) ==
    LET at == FromEnd(t, axis, index)
    IN  IF at \notin 0 .. t.dim[axis] - 1 THEN Failed
        ELSE Gather(t, axis, <<at>>,
                    IF axis = 1 /\ at < Len(t.xccs) THEN <<t.xccs[at + 1]>> ELSE t.xccs)

RemoveIndex(t, index, axis) ==
    LET at == FromEnd(t, axis, index)
    IN  IF t.dim[axis] <= 1 \/ at \notin 0 .. t.dim[axis] - 1 THEN Failed
        ELSE Gather(t, axis, SelectSeq([k \in 1 .. t.dim[axis] |-> k - 1], LAMBDA k : k # at),
                    IF axis = 1 /\ Len(t.xccs) = t.dim[1] THEN RemoveAt(t.xccs, at + 1) ELSE t.xccs)

SelectRange(t, start, stop, step, axis) ==
    LET size == Cardinality({k \in start .. stop - 1 : (k - start) % step = 0})
    IN  IF step = 0 \/ start >= t.dim[axis] \/ stop > t.dim[axis] \/ start >= stop THEN Failed
        ELSE Gather(t, axis, [k \in 1 .. size |-> start + (k - 1) * step],
                    IF axis = 1 /\ Len(t.xccs) = t.dim[1]
                    THEN [k \in 1 .. size |-> t.xccs[start + (k - 1) * step + 1]] ELSE t.xccs)

DeltaAlong(t, axis) ==
    LET dim == [t.dim EXCEPT ![axis] = @ - 1]
        all == 0 .. TotalSize(dim) - 1
        Prev(i) == LinearIndex(t.dim, MultiIndex(dim, i))
        Curr(i) == LinearIndex(t.dim, [MultiIndex(dim, i) EXCEPT ![axis] = @ + 1])
        both == {i \in all : Prev(i) \in t.valid /\ Curr(i) \in t.valid}
    IN  IF t.dim[axis] <= 1 THEN Failed
        ELSE Tensor(dim, [i \in all |-> IF i \in both THEN t.data[Curr(i)] - t.data[Prev(i)] ELSE 0],
                    t.masked, both, IF axis = 1 THEN <<>> ELSE t.xccs)

-----------------------------------------------------------------------------
AreBroadcastable(d, e) == \A x \in Axes : d[x] = e[x] \/ d[x] = 1 \/ e[x] = 1
BroadcastShape(d, e) == [x \in Axes |-> IF d[x] < e[x] THEN e[x] ELSE d[x]]
Wrap(dim, c) == [x \in Axes |-> IF dim[x] = 1 THEN 0 ELSE c[x]]

BroadcastXccs(s, t, xccs) ==
    IF xccs > 1
    THEN IF s.dim[1] = xccs /\ Len(s.xccs) = xccs THEN s.xccs
         ELSE IF t.dim[1] = xccs /\ Len(t.xccs) = xccs THEN t.xccs ELSE <<>>
    ELSE CASE IsScalar(s) /\ ~IsScalar(t) -> t.xccs
           [] IsScalar(t) /\ ~IsScalar(s) -> s.xccs
           [] OTHER -> IF s.xccs = t.xccs THEN s.xccs ELSE <<>>

(* The functions of two elements.                                          *)
Truth(holds) == IF holds THEN 1 ELSE 0
Compute(f, x, y) ==
    CASE f = "+" -> x + y
      [] f = "-" -> x - y
      [] f = "*" -> x * y
      [] f = "/" -> x \div y
      [] f = "==" -> Truth(x = y)
      [] f = "<" -> Truth(x < y)
      [] f = ">" -> Truth(x > y)
      [] f = "<=" -> Truth(x <= y)
      [] f = ">=" -> Truth(x >= y)
      [] f = "|" -> Truth(x # 0 \/ y # 0)
      [] f = "&" -> Truth(x # 0 /\ y # 0)
      [] f = "max" -> Max({x, y})
      [] f = "min" -> Min({x, y})

BroadcastOp(f, s, t) ==
    LET dim == BroadcastShape(s.dim, t.dim)
        all == 0 .. TotalSize(dim) - 1
        Left(i) == LinearIndex(s.dim, Wrap(s.dim, MultiIndex(dim, i)))
        Right(i) == LinearIndex(t.dim, Wrap(t.dim, MultiIndex(dim, i)))
        both == {i \in all : Left(i) \in s.valid /\ Right(i) \in t.valid}
    IN  IF ~AreBroadcastable(s.dim, t.dim) THEN Failed
        ELSE Tensor(dim, [i \in all |-> IF i \in both THEN Compute(f, s.data[Left(i)], t.data[Right(i)]) ELSE 0],
                    s.masked \/ t.masked, both, BroadcastXccs(s, t, dim[1]))

(* inPlaceOp: between tensors of one shape, the left one keeps its XCCs.   *)
InPlaceOp(f, s, t) ==
    LET result == BroadcastOp(f, s, t)
    IN  IF s.dim = t.dim THEN [result EXCEPT !.xccs = s.xccs] ELSE result
=============================================================================
