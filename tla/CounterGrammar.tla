--------------------------- MODULE CounterGrammar ---------------------------
(***************************************************************************)
(* What the lines of a text of derived counters say: the reference for     *)
(* CounterText.  Each operator gives the set of the expressions that a     *)
(* whole sequence of tokens stands for in one of the grammar's symbols;    *)
(* there is no place, no lookahead and no order in which things are tried. *)
(***************************************************************************)
EXTENDS CounterText, FiniteSetsExt

LOCAL Prefix(s, n) == SubSeq(s, 1, n)
LOCAL Suffix(s, n) == SubSeq(s, n, Len(s))
LOCAL Inner(s, n) == SubSeq(s, n, Len(s) - 1)
LOCAL Ends(s, word) == s # <<>> /\ Last(s) = word
LOCAL At(s, word) == {i \in DOMAIN s : s[i] = word}

(* The axis that a function's arguments end with, time if there is none.   *)
AxesNamed(s) ==
    IF s = <<>> THEN {4}
    ELSE {x \in DOMAIN AxisNames : Len(s) = 4 /\ Prefix(s, 3) = <<",", "axis", "=">> /\ Last(s) \in AxisNames[x]}

(* An axis, or a list of them in brackets; an empty list names all.        *)
AxisLists(s) ==
    LET items(t) == [k \in 1 .. (Len(t) + 1) \div 2 |-> t[2 * k - 1]]
        isList(t) == \A k \in DOMAIN t : IF k % 2 = 1 THEN IsAxis(t[k]) ELSE t[k] = ","
        Listed(t) == IF isList(t) THEN {[k \in DOMAIN items(t) |-> AxisFromString(items(t)[k])]} ELSE {}
    IN  IF s # <<>> /\ s[1] = "[" /\ Ends(s, "]") THEN Listed(Inner(s, 2))
        ELSE IF Len(s) = 1 THEN Listed(s) ELSE {}

RECURSIVE Exprs(_, _)
RECURSIVE Calls(_)

Bounds(s) ==
    IF s = <<>> THEN {}
    ELSE IF Len(s) = 1
    THEN {Literal(Numerals[n]) : n \in ToSet(s) \cap DOMAIN Numerals} \cup {Named(n) : n \in {t \in ToSet(s) : IsIdentifier(t)}}
    ELSE IF s[1] = "(" /\ Ends(s, ")") THEN Exprs(Inner(s, 2), 1) ELSE {}

(* A minus sign belongs to the number that follows it.                     *)
Minus(x, isNumber) == IF isNumber THEN Literal(-x.value) ELSE Unary(x)
Indices(s) ==
    Bounds(s) \cup (IF s # <<>> /\ s[1] = "-" THEN {Minus(x, s[2] \in DOMAIN Numerals) : x \in Bounds(Tail(s))} ELSE {})

Operands(s) == Bounds(s) \cup Calls(s)

(* The arguments between the brackets of a function.                       *)
Reductions(f, s) ==
    {Reduction(f, x, <<>>) : x \in Operands(s) \cup (IF Ends(s, ",") THEN Operands(Prefix(s, Len(s) - 1)) ELSE {})}
    \cup UNION {{Reduction(f, x, axes) : x \in Operands(Prefix(s, i - 1)), axes \in AxisLists(Suffix(s, i + 3))} :
                   i \in {j \in At(s, ",") : IsPrefix(<<",", "axis", "=">>, Suffix(s, j))}}

Deltas(s) ==
    UNION {{OnAxis("delta", <<x>>, axis) : x \in Operands(Prefix(s, i)), axis \in AxesNamed(Suffix(s, i + 1))} :
              i \in DOMAIN s}

(* An operand, an index and perhaps an axis, whose comma is the i-th token  *)
(* and whose axis follows the j-th.                                        *)
Indexed(kind, s) ==
    UNION {{OnAxis(kind, <<x, n>>, axis) :
               x \in Operands(Prefix(s, i - 1)), n \in Indices(SubSeq(s, i + 1, j)), axis \in AxesNamed(Suffix(s, j + 1))} :
              i \in At(s, ","), j \in DOMAIN s}

Steps(s) ==
    (IF At(s, ":") # {} THEN {} ELSE {<<x, Literal(1)>> : x \in Bounds(s)})
    \cup UNION {{<<x, n>> : x \in Bounds(Prefix(s, i - 1)), n \in Bounds(Suffix(s, i + 1))} : i \in At(s, ":")}
Slices(s) ==
    UNION {{OnAxis("range", <<x, first, rest[1], rest[2]>>, axis) :
               x \in Operands(Prefix(s, ijk[1] - 1)), first \in Indices(SubSeq(s, ijk[1] + 1, ijk[2] - 1)),
               rest \in Steps(SubSeq(s, ijk[2] + 1, ijk[3])), axis \in AxesNamed(Suffix(s, ijk[3] + 1))} :
              ijk \in {t \in At(s, ",") \X At(s, ":") \X DOMAIN s : t[1] < t[2] /\ t[2] < t[3]}}

Calls(s) ==
    IF Len(s) < 4 \/ s[2] # "[" \/ ~Ends(s, "]") THEN {}
    ELSE CASE s[1] \in {"mean", "max", "min", "sum"} -> Reductions(s[1], Inner(s, 3))
           [] s[1] = "delta" -> Deltas(Inner(s, 3))
           [] s[1] = "remove" -> Indexed("remove", Inner(s, 3))
           [] s[1] = "select" -> Indexed("select", Inner(s, 3)) \cup Slices(Inner(s, 3))
           [] OTHER -> {}

(* max and min of several expressions, taken from the left.                *)
RECURSIVE Extremes(_, _)
Extremes(f, s) ==
    UNION {{Elementwise(f, x, y) : x \in Exprs(Prefix(s, i - 1), 1) \cup Extremes(f, Prefix(s, i - 1)),
                                   y \in Exprs(Suffix(s, i + 1), 1)} : i \in At(s, ",")}

Applied(s) ==
    IF Len(s) < 4 \/ s[2] # "(" \/ ~Ends(s, ")") THEN {}
    ELSE CASE s[1] \in {"max", "min"} -> Extremes(s[1], Inner(s, 3))
           [] s[1] = "linear" ->
                  LET t == Inner(s, 3)
                  IN  UNION {{OnAxis("linear", <<x>>, axis) :
                                 x \in Exprs(Prefix(t, i), 1), axis \in AxesNamed(Suffix(t, i + 1))} : i \in DOMAIN t}
           [] OTHER -> {}

RECURSIVE Primaries(_)
Primaries(s) ==
    Operands(s) \cup Applied(s)
    \cup (IF Len(s) > 1 /\ s[1] = "-" THEN {Unary(x) : x \in Primaries(Tail(s))} ELSE {})

(* Those of one level of infix operators, whose operators associate to the *)
(* left, and whose operands are of the levels that bind more.              *)
Exprs(s, level) ==
    IF s = <<>> THEN {}
    ELSE IF level > Len(Levels) THEN Primaries(s)
    ELSE Exprs(s, level + 1)
         \cup UNION {{Binary(s[i], x, y) : x \in Exprs(Prefix(s, i - 1), level), y \in Exprs(Suffix(s, i + 1), level + 1)} :
                        i \in {j \in 2 .. Len(s) - 1 : s[j] \in Levels[level]}}

-----------------------------------------------------------------------------
(* The lines of a text that say something, and what they define.           *)
Said(text) == {i \in DOMAIN text : text[i] # <<>> /\ text[i][1] # "#"}
LineSays(line) ==
    LET said == Prefix(line, Min({i \in DOMAIN line : line[i] = "#"} \cup {Len(line) + 1}) - 1)
    IN  IF Len(said) > 2 /\ said[2] = ":=" THEN Exprs(Suffix(said, 3), 1) ELSE {}

DefinedIn(text) ==
    IF \E i \in Said(text) : LineSays(text[i]) = {} THEN [n \in {} |-> {}]
    ELSE LET Defining(n) == {i \in Said(text) : text[i][1] = n}
         IN  [n \in {text[i][1] : i \in Said(text)} |-> CHOOSE e \in LineSays(text[Max(Defining(n))]) : TRUE]
=============================================================================
