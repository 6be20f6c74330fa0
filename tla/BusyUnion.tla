----------------------------- MODULE BusyUnion -----------------------------
(***************************************************************************)
(* compute_union: two lists of busy periods are merged into the list of    *)
(* the periods in which either is busy.  A period is kept as the clock at  *)
(* which it ends and its length.  One step takes the period that begins    *)
(* first, from the first list on a tie, and appends it to the result: a    *)
(* period that begins after the last one has ended opens a new period, any *)
(* other one extends the last.                                             *)
(***************************************************************************)
EXTENDS Integers, Sequences

VARIABLES va, vb,       \* the two lists
          a, b,         \* positions of the periods to take next
          out           \* the merged list

unionVars == <<va, vb, a, b, out>>

Util == [clock : Int, cycles : Nat]
BeginOf(u) == u.clock - u.cycles

(* Lists that the merge is meant for: the periods in the order in which    *)
(* they begin.                                                             *)
BeginOrdered(s) == \A i, j \in DOMAIN s : i < j => BeginOf(s[i]) <= BeginOf(s[j])

(* The merge of x and y begins.                                            *)
Merging(x, y) ==
    /\ va = x
    /\ vb = y
    /\ a = 1
    /\ b = 1
    /\ out = <<>>

-----------------------------------------------------------------------------
(* Faulty: the last period ends where the appended one does, even if it    *)
(* reached further.                                                        *)
ExtendShrinking(last, u) == [clock |-> u.clock, cycles |-> u.clock - BeginOf(last)]

Extend(last, u) ==
    LET merged_end == IF last.clock < u.clock THEN u.clock ELSE last.clock
    IN  [clock |-> merged_end, cycles |-> merged_end - BeginOf(last)]

Opens(o, u) == o = <<>> \/ BeginOf(u) > o[Len(o)].clock

AppendUtil(o, u) ==
    IF u.cycles = 0 THEN o
    ELSE IF Opens(o, u) THEN Append(o, u)
    ELSE [o EXCEPT ![Len(o)] = Extend(@, u)]

TakeFirst ==
    /\ a <= Len(va)
    /\ b <= Len(vb) => BeginOf(va[a]) <= BeginOf(vb[b])
    /\ out' = AppendUtil(out, va[a])
    /\ a' = a + 1
    /\ UNCHANGED <<va, vb, b>>

TakeSecond ==
    /\ b <= Len(vb)
    /\ a <= Len(va) => BeginOf(va[a]) > BeginOf(vb[b])
    /\ out' = AppendUtil(out, vb[b])
    /\ b' = b + 1
    /\ UNCHANGED <<va, vb, a>>

Merged == a > Len(va) /\ b > Len(vb)

MergeInit == \E x, y \in Seq(Util) : BeginOrdered(x) /\ BeginOrdered(y) /\ Merging(x, y)
MergeNext == TakeFirst \/ TakeSecond
MergeSpec == MergeInit /\ [][MergeNext]_unionVars

-----------------------------------------------------------------------------
(* The positions, and the result, which never has an empty period.         *)
MergeTypeOK ==
    /\ va \in Seq(Util)
    /\ vb \in Seq(Util)
    /\ a \in 1 .. Len(va) + 1
    /\ b \in 1 .. Len(vb) + 1
    /\ out \in Seq(Util)
    /\ \A i \in DOMAIN out : out[i].cycles > 0

(* The cycles of the first n periods of s.                                 *)
CyclesOf(u) == BeginOf(u) .. u.clock - 1
Covered(s, n) == UNION {CyclesOf(s[i]) : i \in 1 .. n}

Apart(s) == \A i, j \in DOMAIN s : i < j => s[i].clock < BeginOf(s[j])

(* Between any two appends of compute_union, the periods of the result lie *)
(* apart, in order, and make up exactly the cycles of the periods taken    *)
(* from the two lists, however these overlap, touch or contain each other. *)
UnionExact ==
    /\ Apart(out)
    /\ Covered(out, Len(out)) = Covered(va, a - 1) \cup Covered(vb, b - 1)
=============================================================================
