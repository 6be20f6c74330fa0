---------------------------- MODULE CounterText ----------------------------
(***************************************************************************)
(* The parser of the definitions of derived counters: recursive descent    *)
(* over the tokens of a line.  A token is a string, a number one of those  *)
(* in Numerals; how characters make tokens is left out, and so is the axis *)
(* All.  A parser takes the tokens and the place where it begins and gives *)
(* the expression and the place where it ended, or Thrown.                 *)
(***************************************************************************)
EXTENDS Integers, Sequences, SequencesExt, TLC

Thrown == [ok |-> FALSE]

Numerals == [n \in {"0", "1", "2", "3", "4", "7", "100"} |->
                CASE n = "0" -> 0 [] n = "1" -> 1 [] n = "2" -> 2 [] n = "3" -> 3
                  [] n = "4" -> 4 [] n = "7" -> 7 [] n = "100" -> 100]
Symbols == {"(", ")", "[", "]", "+", "-", "*", "/", ",", ":", "=", "<", ">", "|", "&", ":=", "==", "<=", ">="}
EndToken == ""
IsIdentifier(word) == word \notin Symbols \cup DOMAIN Numerals \cup {EndToken}

AxisNames == <<{"XCC", "xcc", "0"}, {"SE", "se", "SA", "sa", "1"},
               {"CU", "cu", "WGP", "wgp", "INSTANCE", "instance", "2"},
               {"Time", "time", "TIME", "SAMPLES", "samples", "3"}>>
IsAxis(word) == \E x \in DOMAIN AxisNames : word \in AxisNames[x]
AxisFromString(name) == CHOOSE x \in DOMAIN AxisNames : name \in AxisNames[x]

(* The nodes of expressions.                                               *)
Literal(v) == [kind |-> "literal", value |-> v, args |-> <<>>]
Named(name) == [kind |-> "variable", name |-> name, args |-> <<>>]
Binary(f, x, y) == [kind |-> "binary", f |-> f, args |-> <<x, y>>]
Elementwise(f, x, y) == [kind |-> "elementwise", f |-> f, args |-> <<x, y>>]
Unary(x) == [kind |-> "minus", args |-> <<x>>]
Reduction(f, x, axes) == [kind |-> "reduce", f |-> f, axes |-> axes, args |-> <<x>>]
OnAxis(kind, args, axis) == [kind |-> kind, axis |-> axis, args |-> args]

(* Places among the tokens of s.                                           *)
Current(s, p) == IF p \in DOMAIN s THEN s[p] ELSE EndToken
Parsed(expr, at) == [ok |-> TRUE, expr |-> expr, at |-> at]
Expect(s, parsed, word) ==
    IF parsed.ok /\ Current(s, parsed.at) = word THEN [parsed EXCEPT !.at = @ + 1] ELSE Thrown

(* Infix operators, from those that bind least; all associate to the left. *)
(* Below them are two more levels: a sign or a function with parentheses,  *)
(* and what the functions with brackets apply to.                          *)
Levels == <<{"|"}, {"&"}, {"==", "<", ">", "<=", ">="}, {"+", "-"}, {"*", "/"}>>
PrimaryLevel == Len(Levels) + 1
OperandLevel == Len(Levels) + 2

RECURSIVE ParseLevel(_, _, _)
ParseExpr(s, p) == ParseLevel(s, p, 1)

(* A number, a name or an expression in parentheses.                       *)
ParseBound(s, p) ==
    IF Current(s, p) = "(" THEN Expect(s, ParseExpr(s, p + 1), ")")
    ELSE IF Current(s, p) \in DOMAIN Numerals THEN Parsed(Literal(Numerals[s[p]]), p + 1)
    ELSE IF IsIdentifier(Current(s, p)) THEN Parsed(Named(s[p]), p + 1)
    ELSE Thrown

(* The index of select and remove may be negative.                         *)
NegatedExpr(parsed) == IF parsed.ok THEN [parsed EXCEPT !.expr = Unary(@)] ELSE Thrown
NegativeIndex(bound, bare) ==
    IF bound.ok /\ bare /\ bound.expr.kind = "literal" THEN [bound EXCEPT !.expr.value = -@] ELSE NegatedExpr(bound)
ParseIndex(s, p) ==
    IF Current(s, p) = "-" THEN NegativeIndex(ParseBound(s, p + 1), Current(s, p + 1) # "(") ELSE ParseBound(s, p)

-----------------------------------------------------------------------------
(* Calls: the arguments that were parsed so far, and where they ended.     *)
AddArgument(args, parsed) == IF parsed.ok THEN [ok |-> TRUE, args |-> Append(args, parsed.expr), at |-> parsed.at] ELSE Thrown
FirstOperand(s, p) == AddArgument(<<>>, ParseLevel(s, p + 2, OperandLevel))
AddIndex(s, call) == IF call.ok THEN AddArgument(call.args, ParseIndex(s, call.at)) ELSE Thrown
AddBound(s, call) == IF call.ok THEN AddArgument(call.args, ParseBound(s, call.at)) ELSE Thrown

(* The optional axis of all functions but reductions.                      *)
ParseAxis(s, call) ==
    IF ~call.ok THEN Thrown
    ELSE IF Current(s, call.at) # "," THEN ("axis" :> 4) @@ call
    ELSE IF /\ Current(s, call.at + 1) = "axis" /\ Current(s, call.at + 2) = "="
            /\ IsAxis(Current(s, call.at + 3))
    THEN ("axis" :> AxisFromString(s[call.at + 3])) @@ [call EXCEPT !.at = @ + 4]
    ELSE Thrown

EndCall(s, kind, call, bracket) ==
    LET closed == Expect(s, ParseAxis(s, call), bracket)
    IN  IF closed.ok THEN Parsed(OnAxis(kind, closed.args, closed.axis), closed.at) ELSE Thrown

(* The axes of a reduction: one or a list.                                 *)
RECURSIVE ParseAxes(_, _, _)
ParseAxes(s, p, axes) ==
    IF Current(s, p) = "]" THEN [ok |-> TRUE, axes |-> axes, at |-> p + 1]
    ELSE IF ~IsAxis(Current(s, p)) \/ Current(s, p + 1) \notin {",", "]"} THEN Thrown
    ELSE ParseAxes(s, IF s[p + 1] = "," THEN p + 2 ELSE p + 1, Append(axes, AxisFromString(s[p])))

ParseAxisList(s, p) ==
    IF Current(s, p) = "[" THEN ParseAxes(s, p + 1, <<>>)
    ELSE IF IsAxis(Current(s, p))
    THEN [ok |-> TRUE, axes |-> <<AxisFromString(s[p])>>, at |-> p + 1]
    ELSE Thrown

ReductionAxes(s, p) ==
    IF Current(s, p) # "," THEN [ok |-> TRUE, axes |-> <<>>, at |-> p]
    ELSE IF Current(s, p + 1) # "axis" THEN [ok |-> TRUE, axes |-> <<>>, at |-> p + 1]
    ELSE IF Current(s, p + 2) # "=" THEN Thrown
    ELSE ParseAxisList(s, p + 3)

EndReduction(s, f, operand) ==
    IF ~operand.ok THEN Thrown
    ELSE LET closed == Expect(s, ReductionAxes(s, operand.at), "]")
         IN  IF closed.ok THEN Parsed(Reduction(f, operand.expr, closed.axes), closed.at) ELSE Thrown

-----------------------------------------------------------------------------
(* The functions with brackets, whose name is at p.                        *)
ParseReduction(s, p) == EndReduction(s, s[p], ParseLevel(s, p + 2, OperandLevel))

(* A second bound makes the select a range, and a third one is its step.   *)
AddStep(s, call) ==
    IF call.ok /\ Current(s, call.at) # ":" THEN AddArgument(call.args, Parsed(Literal(1), call.at))
    ELSE AddBound(s, Expect(s, call, ":"))
EndSelect(s, call) ==
    IF call.ok /\ Current(s, call.at) = ":"
    THEN EndCall(s, "range", AddStep(s, AddBound(s, Expect(s, call, ":"))), "]")
    ELSE EndCall(s, "select", call, "]")
ParseSelect(s, p) == EndSelect(s, AddIndex(s, Expect(s, FirstOperand(s, p), ",")))

ParseRemove(s, p) == EndCall(s, "remove", AddIndex(s, Expect(s, FirstOperand(s, p), ",")), "]")
ParseDelta(s, p) == EndCall(s, "delta", FirstOperand(s, p), "]")

ParseFunction(s, p) ==
    CASE s[p] \in {"mean", "max", "min", "sum"} -> ParseReduction(s, p)
      [] s[p] = "select" -> ParseSelect(s, p)
      [] s[p] = "remove" -> ParseRemove(s, p)
      [] s[p] = "delta" -> ParseDelta(s, p)
      [] OTHER -> Thrown

(* What the functions with brackets apply to: not any expression, but also *)
(* another such function.                                                  *)
ParseOperand(s, p) ==
    IF IsIdentifier(Current(s, p)) /\ Current(s, p + 1) = "[" THEN ParseFunction(s, p) ELSE ParseBound(s, p)

(* The functions with parentheses, whose name is at p.                     *)
ParseLinear(s, p) == EndCall(s, "linear", AddArgument(<<>>, ParseExpr(s, p + 2)), ")")

(* A node of two parsed expressions, of which the second came last.        *)
JoinedBy(Node(_, _, _), f, left, right) ==
    IF right.ok THEN Parsed(Node(f, left.expr, right.expr), right.at) ELSE Thrown

RECURSIVE ParseOperands(_, _, _)
ParseOperands(s, f, left) ==
    IF ~left.ok \/ Current(s, left.at) # "," THEN left
    ELSE ParseOperands(s, f, JoinedBy(Elementwise, f, left, ParseExpr(s, left.at + 1)))

EndElementWise(s, f, first) ==
    IF first.ok /\ Current(s, first.at) = "," THEN Expect(s, ParseOperands(s, f, first), ")") ELSE Thrown
ParseElementWiseFunc(s, p) == EndElementWise(s, s[p], ParseExpr(s, p + 2))

-----------------------------------------------------------------------------
ParsePrimary(s, p) ==
    IF Current(s, p) = "-" THEN NegatedExpr(ParseLevel(s, p + 1, PrimaryLevel))
    ELSE IF Current(s, p) = "linear" /\ Current(s, p + 1) = "(" THEN ParseLinear(s, p)
    ELSE IF Current(s, p) \in {"max", "min"} /\ Current(s, p + 1) = "(" THEN ParseElementWiseFunc(s, p)
    ELSE ParseLevel(s, p, OperandLevel)

(* Faulty: operators of one level associate to the right.                  *)
ParseRestRight(s, left, level) ==
    IF ~left.ok \/ Current(s, left.at) \notin Levels[level] THEN left
    ELSE JoinedBy(Binary, s[left.at], left, ParseLevel(s, left.at + 1, level))

RECURSIVE ParseRest(_, _, _)
ParseRest(s, left, level) ==
    IF ~left.ok \/ Current(s, left.at) \notin Levels[level] THEN left
    ELSE ParseRest(s, JoinedBy(Binary, s[left.at], left, ParseLevel(s, left.at + 1, level + 1)), level)

ParseLevel(s, p, level) ==
    IF level = OperandLevel THEN ParseOperand(s, p)
    ELSE IF level = PrimaryLevel THEN ParsePrimary(s, p)
    ELSE ParseRest(s, ParseLevel(s, p, level + 1), level)

WholeLine(s, parsed) == IF parsed.ok /\ parsed.at = Len(s) + 1 THEN parsed ELSE Thrown
ParseExpression(s) == WholeLine(s, ParseExpr(s, 1))

-----------------------------------------------------------------------------
(* A line defines the one name before its first `:='.                      *)
Defined(name, parsed) == IF parsed.ok THEN [ok |-> TRUE, name |-> name, expr |-> parsed.expr] ELSE Thrown
ParseDefinition(line) ==
    IF Current(line, 2) = ":=" THEN Defined(line[1], ParseExpression(SubSeq(line, 3, Len(line)))) ELSE Thrown

(* A text of lines, which may end in comments and be empty.  If any of them*)
(* does not parse, none is used.                                           *)
Uncommented(line) == IF "#" \in ToSet(line) THEN SubSeq(line, 1, SelectInSeq(line, LAMBDA t : t = "#") - 1) ELSE line
AllOrNone(defs) ==
    IF \A l \in DOMAIN defs : defs[l].ok THEN [parses |-> TRUE, defs |-> defs] ELSE [parses |-> FALSE, defs |-> <<>>]
ParseFile(text) ==
    LET lines == SelectSeq([l \in DOMAIN text |-> Uncommented(text[l])], LAMBDA line : line # <<>>)
    IN  AllOrNone([l \in DOMAIN lines |-> ParseDefinition(lines[l])])
=============================================================================
