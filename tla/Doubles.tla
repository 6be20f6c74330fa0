------------------------------ MODULE Doubles ------------------------------
(***************************************************************************)
(* The arithmetic of the type double.  A double is the integer that counts *)
(* its least units, Unit of which are 1; doubles of magnitude x, in units, *)
(* are Spacing(x) apart.  Every operation gives the double nearest to the  *)
(* exact result, of two that are equally near the even one.  The type has  *)
(*                                                                         *)
(*   Unit = 2^1074,  Significant = 2^52,  Powers = {2^i : i \in 0 .. 2045} *)
(*                                                                         *)
(* and infinities and NaN, which no clock reaches.                         *)
(***************************************************************************)
EXTENDS Integers, FiniteSetsExt

CONSTANTS Unit,         \* least units in 1
          Significant,  \* spacings in a power of two, up to the next one
          Powers,       \* powers of two that can be a spacing
          Fused         \* the compiler contracts c - a * b to one operation

ASSUME DoublesAssumption ==
    /\ Unit \in Nat \ {0} /\ Significant \in Nat \ {0} /\ Fused \in BOOLEAN
    /\ IsFiniteSet(Powers) /\ Powers \subseteq Nat \ {0}

Magnitude(n) == IF n < 0 THEN -n ELSE n
Spacing(x)   == Max({1} \cup {p \in Powers : p * Significant <= x})

(* How far apart doubles are around n / d.                                 *)
SpacingAt(n, d) == Spacing(Magnitude(n) \div d)

(* The multiple of g nearest to n / d.                                     *)
RoundTo(g, n, d) ==
    LET q    == n \div (d * g)
        rest == n - q * (d * g)
        up   == 2 * rest > d * g \/ (2 * rest = d * g /\ q % 2 = 1)
    IN g * (IF up THEN q + 1 ELSE q)

Nearest(n, d) == RoundTo(SpacingAt(n, d), n, d)

Double(i)        == Nearest(i * Unit, 1)
Difference(a, b) == Nearest(a - b, 1)
Product(a, b)    == Nearest(a * b, Unit)
Division(a, b)   == Nearest(a * Unit, b)

(* c - a * b, with one rounding or with two.                               *)
MinusProduct(c, a, b) ==
    IF Fused THEN Nearest(c * Unit - a * b, Unit) ELSE Difference(c, Product(a, b))

(* The spacing of what is rounded on the way to c - a * b.                 *)
MinusSpacing(c, a, b) ==
    IF Fused THEN SpacingAt(c * Unit - a * b, Unit)
    ELSE SpacingAt(a * b, Unit) + SpacingAt(c - Product(a, b), 1)

(* static_cast to an integer: towards zero.                                *)
Truncate(a) == IF a < 0 THEN -(Magnitude(a) \div Unit) ELSE a \div Unit
=============================================================================
