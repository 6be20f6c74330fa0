--------------------------- MODULE CounterMeaning ---------------------------
(***************************************************************************)
(* What an expression over counters means, point by point: the reference   *)
(* for Tensors and CounterContext.  A meaning is [ok, dim, at], where at   *)
(* gives, for the coordinates that have one, a value and the XCCs whose    *)
(* samples it was made from.  There is no layout, no mask, no cache and no *)
(* order of evaluation.                                                    *)
(***************************************************************************)
EXTENDS CounterContext

Box(dim) == (0 .. dim[1] - 1) \X (0 .. dim[2] - 1) \X (0 .. dim[3] - 1) \X (0 .. dim[4] - 1)
Means(dim, at) == [ok |-> TRUE, dim |-> Tabulated(dim), at |-> Tabulated(at)]
Exactly(v) == Means(<<1, 1, 1, 1>>, [c \in {<<0, 0, 0, 0>>} |-> [v |-> v, from |-> {}]])
MeaningOf(t) ==
    Means(t.dim, [c \in {d \in Box(t.dim) : LinearIndex(t.dim, d) \in t.valid} |->
                     [v |-> t.data[LinearIndex(t.dim, c)], from |-> {c[1]}]])

Summed(m, S) == MapThenSumSet(LAMBDA c : m.at[c].v, S)
Origins(m, S) == UNION {m.at[c].from : c \in S}

Grouped(m, axes, Op(_)) ==
    LET Group(c) == {d \in DOMAIN m.at : Collapse(d, axes) = c}
    IN  Means(ReducedShape(m.dim, axes),
              [c \in {Collapse(d, axes) : d \in DOMAIN m.at} |->
                  [v |-> Op(Group(c)), from |-> Origins(m, Group(c))]])

Joined(m, n, f) ==
    LET dim == BroadcastShape(m.dim, n.dim)
        both == {c \in Box(dim) : Wrap(m.dim, c) \in DOMAIN m.at /\ Wrap(n.dim, c) \in DOMAIN n.at}
        Left(c) == m.at[Wrap(m.dim, c)]
        Right(c) == n.at[Wrap(n.dim, c)]
    IN  IF ~AreBroadcastable(m.dim, n.dim) THEN Failed
        ELSE Means(dim, [c \in both |-> [v |-> Compute(f, Left(c).v, Right(c).v),
                                         from |-> Left(c).from \cup Right(c).from]])

(* The places of the axis that are kept, in increasing order.              *)
Kept(m, axis, places) ==
    LET order == SelectSeq([i \in 1 .. m.dim[axis] |-> i - 1], LAMBDA i : i \in places)
        dim == [m.dim EXCEPT ![axis] = Len(order)]
        Source(c) == [c EXCEPT ![axis] = order[@ + 1]]
    IN  IF places = {} \/ ~(places \subseteq 0 .. m.dim[axis] - 1) THEN Failed
        ELSE Means(dim, [c \in {d \in Box(dim) : Source(d) \in DOMAIN m.at} |-> m.at[Source(c)]])

Differences(m, axis) ==
    LET dim == [m.dim EXCEPT ![axis] = @ - 1]
        Next(c) == [c EXCEPT ![axis] = @ + 1]
    IN  IF m.dim[axis] = 1 THEN Failed
        ELSE Means(dim, [c \in {d \in Box(dim) : d \in DOMAIN m.at /\ Next(d) \in DOMAIN m.at} |->
                            [v |-> m.at[Next(c)].v - m.at[c].v, from |-> Origins(m, {c, Next(c)})]])

Made(e, ms) ==
    LET m == ms[1]
        Arg(i) == ms[i].at[<<0, 0, 0, 0>>].v
        At == IF Arg(2) < 0 THEN Arg(2) + m.dim[e.axis] ELSE Arg(2)
        all == 0 .. m.dim[e.axis] - 1
        operands == IF e.kind \in {"select", "range", "remove", "linear"} THEN ms ELSE <<>>
        indices  == {operands[i] : i \in {j \in DOMAIN operands : j > 1 \/ e.kind = "linear"}}
    IN  IF \E n \in indices : TotalSize(n.dim) # 1 THEN Failed
        ELSE
        CASE e.kind = "literal" -> Exactly(e.value)
          [] e.kind \in {"binary", "elementwise"} -> Joined(m, ms[2], e.f)
          [] e.kind = "minus" -> Means(m.dim, [c \in DOMAIN m.at |-> [m.at[c] EXCEPT !.v = -@]])
          [] e.kind = "reduce" /\ e.f = "sum" -> Grouped(m, e.axes, LAMBDA S : Summed(m, S))
          [] e.kind = "reduce" /\ e.f = "mean" -> Grouped(m, e.axes, LAMBDA S : Summed(m, S) \div Cardinality(S))
          [] e.kind = "reduce" /\ e.f = "max" -> Grouped(m, e.axes, LAMBDA S : Max({m.at[c].v : c \in S}))
          [] e.kind = "reduce" /\ e.f = "min" -> Grouped(m, e.axes, LAMBDA S : Min({m.at[c].v : c \in S}))
          [] e.kind = "delta" -> Differences(m, e.axis)
          [] e.kind = "select" -> Kept(m, e.axis, {At})
          [] e.kind = "remove" -> IF At \in all THEN Kept(m, e.axis, all \ {At}) ELSE Failed
          [] e.kind = "range" -> IF Arg(3) \notin 1 .. m.dim[e.axis] THEN Failed
                                 ELSE Kept(m, e.axis, {k \in Arg(2) .. Arg(3) - 1 : (k - Arg(2)) % Arg(4) = 0})
          [] e.kind = "linear" ->
                 LET dim == [<<1, 1, 1, 1>> EXCEPT ![e.axis] = Arg(1)]
                 IN  Means(dim, [c \in Box(dim) |-> [v |-> c[e.axis], from |-> {}]])

(* The meaning of a name: builtin names come first, then raw counters.  A  *)
(* definition that leads back to itself has none.                          *)
RECURSIVE Meaning(_, _, _, _)
Meaning(raw, defs, e, seen) ==
    IF e.kind # "variable"
    THEN LET ms == [i \in DOMAIN e.args |-> Meaning(raw, defs, e.args[i], seen)]
         IN  IF \A i \in DOMAIN ms : ms[i].ok THEN Made(e, ms) ELSE Failed
    ELSE CASE e.name \in DOMAIN Builtins ->
                  IF DOMAIN raw = {} THEN Failed
                  ELSE Exactly(Max({raw[n].dim[Builtins[e.name]] : n \in DOMAIN raw}))
           [] e.name \in DOMAIN raw \ DOMAIN Builtins -> raw[e.name]
           [] OTHER -> IF e.name \in DOMAIN defs \ seen
                       THEN Meaning(raw, defs, defs[e.name], seen \cup {e.name}) ELSE Failed

(* The raw counters that have to be read for an expression: those of its   *)
(* operands up to the first that has no meaning.                           *)
RECURSIVE Reads(_, _, _, _)
Reads(raw, defs, e, seen) ==
    IF e.kind # "variable"
    THEN LET Needed(i) == \A j \in 1 .. i - 1 : Meaning(raw, defs, e.args[j], seen).ok
         IN  UNION {Reads(raw, defs, e.args[i], seen) : i \in {j \in DOMAIN e.args : Needed(j)}}
    ELSE CASE e.name \in DOMAIN Builtins -> {}
           [] e.name \in DOMAIN raw \ DOMAIN Builtins -> {e.name}
           [] OTHER -> IF e.name \in DOMAIN defs \ seen
                       THEN Reads(raw, defs, defs[e.name], seen \cup {e.name}) ELSE {}
=============================================================================
