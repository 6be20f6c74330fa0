--------------------------- MODULE CounterContext ---------------------------
(***************************************************************************)
(* CounterContext and the expressions of derived counters.  An expression  *)
(* is a record with the kind of expression and the sequence of its         *)
(* operands; evaluating one reads counters of the context by name, which   *)
(* evaluates those that are derived and caches them.  An exception anywhere*)
(* ends the evaluation of all the counters in progress, which are noted    *)
(* as erroneous.                                                           *)
(*                                                                         *)
(* Definitions are what ParseFile makes of a text.                         *)
(***************************************************************************)
EXTENDS Tensors, CounterText

Builtins == [NUM_XCC |-> 1, NUM_SE |-> 2, NUM_SA |-> 2, NUM_CU |-> 3, NUM_SAMPLES |-> 4]

NoNames == [n \in {} |-> Failed]
EmptyContext == [raw |-> NoNames, derived |-> NoNames, cache |-> NoNames, accessed |-> {}, errors |-> {}]

(* setCounter and setDerivedCounter: a later definition replaces one of    *)
(* the same name.                                                          *)
Without(f, names) == [n \in DOMAIN f \ names |-> f[n]]
SetCounter(ctx, name, tensor) ==
    [ctx EXCEPT !.raw = (name :> tensor) @@ @, !.cache = Without(@, {name})]
SetDerivedCounter(ctx, def) ==
    [ctx EXCEPT !.derived = (def.name :> def.expr) @@ @, !.cache = Without(@, {def.name})]
LoadDefinitions(ctx, text) == FoldLeft(SetDerivedCounter, ctx, text.defs)

HasCounter(ctx, name) == name \in DOMAIN Builtins \cup DOMAIN ctx.raw \cup DOMAIN ctx.derived

ClearErrorDerivedCounters(ctx) ==
    [ctx EXCEPT !.derived = Without(@, ctx.errors), !.cache = Without(@, ctx.errors), !.errors = {}]

-----------------------------------------------------------------------------
(* What an expression makes of its operands' tensors.                      *)
Combine(e, ts) ==
    LET Scalars(from) == \A i \in from .. Len(ts) : IsScalar(ts[i])
        Arg(i) == ts[i].data[0]
    IN  IF e.kind \in {"select", "range", "remove", "linear"} /\ ~Scalars(IF e.kind = "linear" THEN 1 ELSE 2) THEN Failed
        ELSE
        CASE e.kind = "literal" -> Number(e.value)
          [] e.kind = "binary" -> InPlaceOp(e.f, ts[1], ts[2])
          [] e.kind = "elementwise" -> BroadcastOp(e.f, ts[1], ts[2])
          [] e.kind = "minus" -> Negated(ts[1])
          [] e.kind = "reduce" ->
                 (CASE e.f = "sum" -> SumOver(ts[1], e.axes)
                    [] e.f = "mean" -> MeanOver(ts[1], e.axes)
                    [] e.f = "max" -> MaxOver(ts[1], e.axes)
                    [] e.f = "min" -> MinOver(ts[1], e.axes))
          [] e.kind = "delta" -> DeltaAlong(ts[1], e.axis)
          [] e.kind = "select" -> SelectIndex(ts[1], Arg(2), e.axis)
          [] e.kind = "remove" -> RemoveIndex(ts[1], Arg(2), e.axis)
          [] e.kind = "range" -> SelectRange(ts[1], Arg(2), Arg(3), Arg(4), e.axis)
          [] e.kind = "linear" -> Linear(Arg(1), e.axis)

(* NUM_XCC and its like: the greatest extent of any raw counter.           *)
BuiltinScalar(ctx, name) ==
    IF DOMAIN ctx.raw = {} THEN Failed
    ELSE Number(Max({ctx.raw[n].dim[Builtins[name]] : n \in DOMAIN ctx.raw}))

Cached(ctx, name, tensor) == IF tensor.ok THEN [ctx EXCEPT !.cache = (name :> tensor) @@ @] ELSE ctx

(* Evaluating an expression while the counters of inProgress are being     *)
(* evaluated.  A variable is read by getCounter; the operands of any other *)
(* expression are evaluated from left to right, as far as none throws.     *)
RECURSIVE Evaluate(_, _, _)
Evaluate(ctx, e, inProgress) ==
    IF e.kind # "variable"
    THEN LET Operand(acc, arg) ==
                 IF acc.failed THEN acc
                 ELSE LET result == Evaluate(acc.ctx, arg, inProgress)
                      IN  [failed |-> ~result.tensor.ok, ctx |-> result.ctx,
                           tensors |-> Append(acc.tensors, result.tensor)]
             operands == FoldLeft(Operand, [failed |-> FALSE, ctx |-> ctx, tensors |-> <<>>], e.args)
         IN  [tensor |-> IF operands.failed THEN Failed ELSE Combine(e, operands.tensors), ctx |-> operands.ctx]
    ELSE IF e.name \in DOMAIN ctx.cache THEN [tensor |-> ctx.cache[e.name], ctx |-> ctx]
    ELSE IF e.name \in DOMAIN Builtins
    THEN LET tensor == BuiltinScalar(ctx, e.name) IN [tensor |-> tensor, ctx |-> Cached(ctx, e.name, tensor)]
    ELSE IF e.name \in DOMAIN ctx.raw
    THEN [tensor |-> ctx.raw[e.name], ctx |-> [ctx EXCEPT !.accessed = @ \cup {e.name}]]
    ELSE IF e.name \notin DOMAIN ctx.derived \ inProgress THEN [tensor |-> Failed, ctx |-> ctx]
    ELSE LET result == Evaluate(ctx, ctx.derived[e.name], inProgress \cup {e.name})
         IN  [result EXCEPT !.ctx = IF result.tensor.ok THEN Cached(@, e.name, result.tensor)
                                    ELSE [@ EXCEPT !.errors = @ \cup {e.name}]]

GetCounter(ctx, name) == Evaluate(ctx, Named(name), {})

(* The value of each of the names, evaluated in turn.                      *)
EvaluateAll(ctx, names) ==
    FoldLeft(LAMBDA acc, name :
                 LET result == GetCounter(acc.ctx, name)
                 IN  [values |-> acc.values @@ (name :> result.tensor), ctx |-> result.ctx],
             [values |-> NoNames, ctx |-> ctx], names)
=============================================================================
