--------------------------- MODULE Analyses_proofs ---------------------------
(***************************************************************************)
(* Proofs about the waits of a wave (WaitCounters), and what the listing   *)
(* shows of them (LatencyViews).                                           *)
(***************************************************************************)
EXTENDS WaitCounters, LatencyViews, AggregateTheorems, TLAPS

-----------------------------------------------------------------------------
(***************************************************************************)
(* No operation of any wave, on any of the architectures, is connected     *)
(* more than once for each time that it counts.                            *)
(*                                                                         *)
(* LinkedOnce is not inductive: that a connection takes no slot twice      *)
(* depends on no slot being listed twice, and that a new one is in no      *)
(* connection on these being no longer than the execution.                 *)
(***************************************************************************)
ListsApart ==
    \A l \in ListNames :
        /\ IsInjective(lists[l])
        /\ \A m \in ListNames \ {l} : Range(lists[l]) \cap Range(lists[m]) = {}

ListedBefore ==
    \A l \in ListNames : \A x \in Range(lists[l]) :
        x.at <= Len(executed) /\ (awaited # {} => x.at < Len(executed))

WaitsBefore == \A e \in DOMAIN mem_unroll : mem_unroll[e].wait <= Len(executed)

(* The counters still to handle are named by the last token.               *)
AwaitedNamed ==
    /\ program \in Programs \cup {NoProgram}
    /\ awaited # {} =>
         /\ program \in Programs
         /\ executed # <<>>
         /\ executed[Len(executed)] \in DOMAIN program.code
         /\ IsWait(InstAt(Len(executed)))
         /\ awaited \subseteq InstAt(Len(executed)).counters

WaitInv ==
    /\ WaitTypeOK
    /\ ListsApart
    /\ lists["empty_list"] = <<>>
    /\ ListedBefore
    /\ WaitsBefore
    /\ AwaitedNamed
    /\ LinkedOnce

-----------------------------------------------------------------------------
(* Sequences of slots: their elements, and those of what is made of them.  *)
LEMMA SlotSeq ==
    ASSUME NEW s \in Seq(Slot)
    PROVE  /\ Len(s) \in Nat
           /\ DOMAIN s = 1 .. Len(s)
           /\ Range(s) \subseteq Slot
           /\ s = <<>> => Range(s) = {}
BY DEF Range

LEMMA NoSlots == <<>> \in Seq(Slot) /\ IsInjective(<<>>) /\ Range(<<>>) = {}
BY DEF Range, IsInjective

LEMMA ConcatSlots ==
    ASSUME NEW s \in Seq(Slot), NEW t \in Seq(Slot),
           IsInjective(s), IsInjective(t), Range(s) \cap Range(t) = {}
    PROVE  /\ s \o t \in Seq(Slot)
           /\ IsInjective(s \o t)
           /\ Range(s \o t) = Range(s) \cup Range(t)
<1>. DEFINE r == s \o t
<1>1. /\ r \in Seq(Slot)
      /\ Len(r) = Len(s) + Len(t)
      /\ \A i \in 1 .. Len(s) : r[i] = s[i]
      /\ \A i \in Len(s) + 1 .. Len(r) : r[i] = t[i - Len(s)]
  OBVIOUS
<1>2. DOMAIN r = 1 .. Len(s) + Len(t) BY <1>1
<1>3. Range(r) \subseteq Range(s) \cup Range(t)
  <2>1. ASSUME NEW i \in 1 .. Len(s) + Len(t) PROVE r[i] \in Range(s) \cup Range(t)
    <3>1. CASE i <= Len(s) BY <3>1, <1>1 DEF Range
    <3>2. CASE i > Len(s) BY <3>2, <1>1 DEF Range
    <3>. QED BY <3>1, <3>2
  <2>2. Range(r) = {r[i] : i \in 1 .. Len(s) + Len(t)} BY <1>2 DEF Range
  <2>. HIDE DEF r
  <2>. QED BY <2>1, <2>2
<1>4. Range(s) \subseteq Range(r)
  <2>. SUFFICES ASSUME NEW i \in 1 .. Len(s) PROVE s[i] \in Range(r)
    BY DEF Range
  <2>. QED BY <1>1, <1>2 DEF Range
<1>5. Range(t) \subseteq Range(r)
  <2>1. ASSUME NEW i \in 1 .. Len(t) PROVE t[i] \in Range(r)
    <3>1. i + Len(s) \in DOMAIN r /\ r[i + Len(s)] = t[i] BY <1>1, <1>2
    <3>. HIDE DEF r
    <3>. QED BY <3>1 DEF Range
  <2>2. Range(t) = {t[i] : i \in 1 .. Len(t)} BY DEF Range
  <2>. HIDE DEF r
  <2>. QED BY <2>1, <2>2
<1>6. IsInjective(r)
  <2>. SUFFICES ASSUME NEW i \in 1 .. Len(s) + Len(t), NEW j \in 1 .. Len(s) + Len(t), r[i] = r[j]
                PROVE i = j
    BY <1>2 DEF IsInjective
  <2>1. CASE i <= Len(s) /\ j <= Len(s) BY <2>1, <1>1 DEF IsInjective
  <2>2. CASE i > Len(s) /\ j > Len(s) BY <2>2, <1>1 DEF IsInjective
  <2>3. \A k \in 1 .. Len(s) + Len(t) : k <= Len(s) => r[k] \in Range(s)
    BY <1>1 DEF Range
  <2>4. \A k \in 1 .. Len(s) + Len(t) : k > Len(s) => r[k] \in Range(t)
    BY <1>1 DEF Range
  <2>. HIDE DEF r
  <2>5. ~(i <= Len(s) /\ j > Len(s)) /\ ~(i > Len(s) /\ j <= Len(s))
    BY <2>3, <2>4
  <2>. QED BY <2>1, <2>2, <2>5
<1>. QED BY <1>1, <1>3, <1>4, <1>5, <1>6

LEMMA AppendSlot ==
    ASSUME NEW s \in Seq(Slot), NEW x \in Slot, IsInjective(s), x \notin Range(s)
    PROVE  /\ Append(s, x) \in Seq(Slot)
           /\ IsInjective(Append(s, x))
           /\ Range(Append(s, x)) = Range(s) \cup {x}
<1>. DEFINE r == Append(s, x)
<1>1. /\ r \in Seq(Slot)
      /\ DOMAIN r = 1 .. Len(s) + 1
      /\ \A i \in 1 .. Len(s) : r[i] = s[i]
      /\ r[Len(s) + 1] = x
  OBVIOUS
<1>2. DOMAIN s = 1 .. Len(s) /\ Len(s) \in Nat OBVIOUS
<1>3. Range(r) = Range(s) \cup {x}
  <2>1. Range(r) \subseteq Range(s) \cup {x}
    <3>. SUFFICES ASSUME NEW i \in 1 .. Len(s) + 1 PROVE r[i] \in Range(s) \cup {x}
      BY <1>1 DEF Range
    <3>1. CASE i <= Len(s) BY <3>1, <1>1 DEF Range
    <3>2. CASE i = Len(s) + 1 BY <3>2, <1>1 DEF Range
    <3>. QED BY <3>1, <3>2
  <2>2. Range(s) \subseteq Range(r) BY <1>1, <1>2 DEF Range
  <2>3. x \in Range(r) BY <1>1, <1>2 DEF Range
  <2>. QED BY <2>1, <2>2, <2>3
<1>4. IsInjective(r)
  <2>. SUFFICES ASSUME NEW i \in 1 .. Len(s) + 1, NEW j \in 1 .. Len(s) + 1, r[i] = r[j]
                PROVE i = j
    BY <1>1 DEF IsInjective
  <2>. QED BY <1>1, <1>2 DEF IsInjective, Range
<1>. QED BY <1>1, <1>3, <1>4

(* What a wait takes and what it leaves make up the list.                  *)
LEMMA TakenRest ==
    ASSUME NEW s \in Seq(Slot), NEW n \in Nat, IsInjective(s)
    PROVE  /\ Taken(s, n) \in Seq(Slot) /\ Rest(s, n) \in Seq(Slot)
           /\ IsInjective(Taken(s, n)) /\ IsInjective(Rest(s, n))
           /\ Range(Taken(s, n)) \subseteq Range(s)
           /\ Range(Rest(s, n)) \subseteq Range(s)
           /\ Range(Taken(s, n)) \cap Range(Rest(s, n)) = {}
<1>1. CASE n >= Len(s)
  BY <1>1, NoSlots DEF Taken, Rest
<1>2. CASE n < Len(s)
  <2>. DEFINE k == Len(s) - n
              u == SubSeq(s, 1, k)
              v == SubSeq(s, k + 1, Len(s))
  <2>1. k \in 1 .. Len(s) BY <1>2
  <2>2. Taken(s, n) = u /\ Rest(s, n) = v BY <1>2 DEF Taken, Rest
  <2>3. u \in Seq(Slot) /\ DOMAIN u = 1 .. k /\ \A i \in 1 .. k : u[i] = s[i]
    BY <2>1
  <2>4. v \in Seq(Slot) /\ DOMAIN v = 1 .. n /\ \A i \in 1 .. n : v[i] = s[k + i]
    BY <2>1
  <2>5. DOMAIN s = 1 .. Len(s) OBVIOUS
  <2>6. \A i \in 1 .. n : k + i \in 1 .. Len(s) BY <2>1
  <2>. HIDE DEF u, v, k
  <2>7. IsInjective(u) BY <2>1, <2>3, <2>5 DEF IsInjective
  <2>8. IsInjective(v)
    <3>1. \A i, j \in 1 .. n : s[k + i] = s[k + j] => k + i = k + j
      BY <2>5, <2>6 DEF IsInjective
    <3>2. \A i, j \in 1 .. n : k + i = k + j => i = j BY <2>1
    <3>. QED BY <3>1, <3>2, <2>4 DEF IsInjective
  <2>9. Range(u) \subseteq Range(s) BY <2>1, <2>3, <2>5 DEF Range
  <2>10. Range(v) \subseteq Range(s) BY <2>1, <2>4, <2>5, <2>6 DEF Range
  <2>11. Range(u) \cap Range(v) = {}
    <3>. SUFFICES ASSUME NEW i \in 1 .. k, NEW j \in 1 .. n, u[i] = v[j] PROVE FALSE
      BY <2>3, <2>4 DEF Range
    <3>1. s[i] = s[k + j] BY <2>3, <2>4
    <3>2. i \in DOMAIN s /\ k + j \in DOMAIN s BY <2>1, <2>5, <2>6, SlotSeq
    <3>3. i = k + j BY <3>1, <3>2 DEF IsInjective
    <3>. QED BY <3>3, <2>1
  <2>. QED BY <2>2, <2>3, <2>4, <2>7, <2>8, <2>9, <2>10, <2>11
<1>. QED BY <1>1, <1>2

-----------------------------------------------------------------------------
(* The tables.                                                             *)
LEMMA OpFacts ==
    ASSUME NEW i
    PROVE  /\ OpOf(i).list \in ListNames
           /\ OpOf(i).slots \in {0, 1, 2}
           /\ OpOf(i).slots = 0 \/ OpOf(i).list # "empty_list"
<1>. DEFINE OK(op) == /\ op.list \in ListNames
                      /\ op.slots \in {0, 1, 2}
                      /\ op.slots = 0 \/ op.list # "empty_list"
<1>1. OK(NotMem) BY DEF NotMem, Op, ListNames, FlatLists
<1>2. \A k \in DOMAIN Gfx9 : OK(Gfx9[k]) BY DEF Gfx9, Op, ListNames, FlatLists, Counters
<1>3. \A k \in DOMAIN Gfx10 : OK(Gfx10[k]) BY DEF Gfx10, Op, ListNames, FlatLists, Counters
<1>4. \A k \in DOMAIN Gfx12 : OK(Gfx12[k]) BY DEF Gfx12, Op, ListNames, FlatLists, Counters
<1>5. Operations[Arch] \in {Gfx9, Gfx10, Gfx12} BY DEF Operations, Arch
<1>6. OK(OpOf(i))
  <2>. HIDE DEF OK
  <2>. QED BY <1>1, <1>2, <1>3, <1>4, <1>5 DEF OpOf
<1>. QED BY <1>6

LEMMA FlatFacts ==
    ASSUME NEW c
    PROVE  /\ FlatsOf(c) \in FlatLists
           /\ AlsoOf(c) \in FlatLists
           /\ FlatsOf(c) = AlsoOf(c) => AlsoOf(c) = "empty_list"
BY DEF FlatsOf, AlsoOf, FlatLists

LEMMA ListsDisjoint == Counters \cap FlatLists = {} /\ "idle" \notin ListNames
BY DEF Counters, FlatLists, ListNames

LEMMA ConnectionFact ==
    ASSUME WaitTypeOK, NEW e \in DOMAIN mem_unroll
    PROVE  mem_unroll[e].wait \in Nat /\ mem_unroll[e].sources \in Seq(Slot)
<1>1. mem_unroll[e] \in Connection BY DEF WaitTypeOK
<1>. QED BY <1>1 DEF Connection

LEMMA WantedFact ==
    ASSUME AwaitedNamed, NEW c \in awaited, c # "idle"
    PROVE  Wanted(c) \in Nat
<1>1. program \in Programs /\ executed[Len(executed)] \in DOMAIN program.code
  BY DEF AwaitedNamed
<1>2. IsWait(program.code[executed[Len(executed)]])
      /\ c \in program.code[executed[Len(executed)]].counters \ {"idle"}
  BY DEF AwaitedNamed, InstAt
<1>. QED BY <1>1, <1>2, ProgramsAssumption DEF ProgramsAssumption, Wanted, InstAt

LEMMA HandledFact ==
    \A k \in DOMAIN Handled[Arch] : Handled[Arch][k] \in Counters \cup {"idle"}
BY DEF Handled, Arch, Counters

LEMMA PushFacts ==
    ASSUME NEW s \in Seq(Slot), IsInjective(s), NEW op, op.slots \in {0, 1, 2},
           NEW p \in Nat \ {0}, \A x \in Range(s) : x.at # p
    PROVE  /\ Push(s, op, p) \in Seq(Slot)
           /\ IsInjective(Push(s, op, p))
           /\ Range(Push(s, op, p)) \subseteq Range(s) \cup {x \in Slot : x.at = p}
           /\ op.slots = 0 => Push(s, op, p) = s
<1>. DEFINE x == [at |-> p, slot |-> 1]
            y == [at |-> p, slot |-> 2]
<1>1. x \in Slot /\ y \in Slot /\ x # y /\ x.at = p /\ y.at = p BY DEF Slot
<1>. HIDE DEF x, y
<1>2. x \notin Range(s) /\ y \notin Range(s) BY <1>1
<1>3. /\ Append(s, x) \in Seq(Slot)
      /\ IsInjective(Append(s, x))
      /\ Range(Append(s, x)) = Range(s) \cup {x}
  BY <1>1, <1>2, AppendSlot
<1>4. /\ Append(Append(s, x), y) \in Seq(Slot)
      /\ IsInjective(Append(Append(s, x), y))
      /\ Range(Append(Append(s, x), y)) = Range(s) \cup {x, y}
  <2>1. y \notin Range(Append(s, x)) BY <1>1, <1>2, <1>3
  <2>2. /\ Append(Append(s, x), y) \in Seq(Slot)
        /\ IsInjective(Append(Append(s, x), y))
        /\ Range(Append(Append(s, x), y)) = Range(Append(s, x)) \cup {y}
    BY <1>1, <1>3, <2>1, AppendSlot
  <2>. QED BY <1>3, <2>2
<1>5. Push(s, op, p) = CASE op.slots = 0 -> s
                         [] op.slots = 1 -> Append(s, x)
                         [] op.slots = 2 -> Append(Append(s, x), y)
  BY DEF Push, x, y
<1>6. CASE op.slots = 0 BY <1>5, <1>6
<1>7. CASE op.slots = 1
  <2>1. Push(s, op, p) = Append(s, x) BY <1>5, <1>7
  <2>. QED BY <2>1, <1>1, <1>3, <1>7
<1>8. CASE op.slots = 2
  <2>1. Push(s, op, p) = Append(Append(s, x), y) BY <1>5, <1>8
  <2>. QED BY <2>1, <1>1, <1>4, <1>8
<1>. QED BY <1>6, <1>7, <1>8

-----------------------------------------------------------------------------
LEMMA InitInvariant == WaitInit => WaitInv
<1>. SUFFICES ASSUME WaitInit PROVE WaitInv
  OBVIOUS
<1>. USE DEF WaitInit, NoProgress
<1>1. \A l \in ListNames : lists[l] = <<>> BY DEF NoneListed
<1>2. lists \in [ListNames -> Seq(Slot)] BY DEF NoneListed
<1>3. WaitTypeOK BY <1>2 DEF WaitTypeOK
<1>4. ListsApart /\ ListedBefore BY <1>1, NoSlots DEF ListsApart, ListedBefore
<1>5. lists["empty_list"] = <<>> BY <1>1 DEF ListNames, FlatLists
<1>6. WaitsBefore /\ LinkedOnce BY DEF WaitsBefore, LinkedOnce
<1>7. AwaitedNamed BY DEF AwaitedNamed
<1>. QED BY <1>3, <1>4, <1>5, <1>6, <1>7 DEF WaitInv

(* A wave is selected, or its connections are complete.                    *)
LEMMA SelectStep == ASSUME WaitInv, NEW q \in Programs, SelectWave(q) PROVE WaitInv'
<1>. USE DEF SelectWave, WaitInv
<1>1. WaitTypeOK' BY DEF WaitTypeOK
<1>2. ListsApart' BY DEF ListsApart
<1>3. ListedBefore' BY DEF ListedBefore
<1>4. WaitsBefore' BY DEF WaitsBefore
<1>5. LinkedOnce' BY DEF LinkedOnce
<1>6. awaited = {} BY ProgramsAssumption DEF AwaitedNamed, ProgramsAssumption
<1>7. AwaitedNamed' BY <1>6 DEF AwaitedNamed
<1>. QED BY <1>1, <1>2, <1>3, <1>4, <1>5, <1>7

LEMMA EndStep == ASSUME WaitInv, EndWaits PROVE WaitInv'
<1>1. WaitInit' BY DEF EndWaits, WaitInit, NoProgress
<1>. HIDE DEF WaitInv
<1>. QED BY <1>1, InitInvariant, PTL

(* A token is read: the execution grows by its line.                       *)
LEMMA TokenStep ==
    ASSUME WaitInv, NEW line \in DOMAIN program.code, NextToken(line)
    PROVE  /\ program \in Programs
           /\ executed' \in Seq(Nat)
           /\ Len(executed) \in Nat
           /\ Len(executed') = Len(executed) + 1
           /\ executed' # <<>>
           /\ executed'[Len(executed')] = line
<1>1. program \in Programs BY DEF WaitInv, AwaitedNamed, NextToken
<1>2. line \in Nat BY <1>1, ProgramsAssumption DEF ProgramsAssumption
<1>3. executed \in Seq(Nat) /\ executed' = Append(executed, line)
  BY DEF WaitInv, WaitTypeOK, NextToken
<1>. QED BY <1>1, <1>2, <1>3

(* A memory operation: only new slots are listed.                          *)
LEMMA IssueStep ==
    ASSUME WaitInv, NEW line \in DOMAIN program.code, IssueOp(line)
    PROVE  WaitInv'
<1>. DEFINE op == OpOf(program.code[line])
            p == Len(executed) + 1
<1>1. NextToken(line) BY DEF IssueOp
<1>2. /\ program \in Programs
      /\ executed' \in Seq(Nat)
      /\ Len(executed) \in Nat
      /\ Len(executed') = p
  BY <1>1, TokenStep
<1>3. awaited = {} /\ awaited' = {} /\ program' = program /\ mem_unroll' = mem_unroll
  BY DEF IssueOp, NextToken
<1>4. /\ op.list \in ListNames
      /\ op.slots \in {0, 1, 2}
      /\ op.slots = 0 \/ op.list # "empty_list"
  BY OpFacts
<1>5. lists \in [ListNames -> Seq(Slot)] BY DEF WaitInv, WaitTypeOK
<1>6. lists' = [lists EXCEPT ![op.list] = Push(lists[op.list], op, p)]
  BY DEF IssueOp
<1>. DEFINE new == Push(lists[op.list], op, p)
<1>7. \A x \in Range(lists[op.list]) : x.at # p
  BY <1>2, <1>4, <1>5, SlotSeq DEF WaitInv, ListedBefore, Slot
<1>8. /\ new \in Seq(Slot)
      /\ IsInjective(new)
      /\ Range(new) \subseteq Range(lists[op.list]) \cup {x \in Slot : x.at = p}
      /\ op.slots = 0 => new = lists[op.list]
  <2>1. lists[op.list] \in Seq(Slot) /\ IsInjective(lists[op.list])
    BY <1>4, <1>5 DEF WaitInv, ListsApart
  <2>2. p \in Nat \ {0} BY <1>2
  <2>. HIDE DEF op, p
  <2>. QED BY <2>1, <2>2, <1>4, <1>7, PushFacts
<1>9. /\ lists' \in [ListNames -> Seq(Slot)]
      /\ lists'[op.list] = new
      /\ \A l \in ListNames \ {op.list} : lists'[l] = lists[l]
  <2>. HIDE DEF new, op, p
  <2>. QED BY <1>4, <1>5, <1>6, <1>8 DEF new
<1>10. \A l \in ListNames : Range(lists'[l]) \subseteq Range(lists[l]) \cup {x \in Slot : x.at = p}
  <2>. HIDE DEF new, op, p
  <2>. QED BY <1>8, <1>9
<1>11. ordering' \in [Counters -> {"sequential", "parallel"}]
  BY DEF IssueOp, WaitInv, WaitTypeOK
<1>. HIDE DEF new, op, p
<1>12. WaitTypeOK' BY <1>2, <1>3, <1>9, <1>11 DEF WaitInv, WaitTypeOK
<1>13. \A l \in ListNames : \A x \in Range(lists[l]) : x \in Slot /\ x.at < p
  BY <1>2, <1>5, SlotSeq DEF WaitInv, ListedBefore, Slot, p
<1>14. ListsApart'
  <2>1. \A l \in ListNames : IsInjective(lists'[l])
    BY <1>8, <1>9 DEF WaitInv, ListsApart
  <2>2. ASSUME NEW l \in ListNames, NEW m \in ListNames \ {l}
        PROVE  Range(lists'[l]) \cap Range(lists'[m]) = {}
    <3>1. Range(lists[l]) \cap Range(lists[m]) = {} BY DEF WaitInv, ListsApart
    <3>2. \A x \in Range(lists[l]) \cup Range(lists[m]) : x.at # p BY <1>13, <1>2
    <3>3. lists'[l] = lists[l] \/ lists'[m] = lists[m] BY <1>9
    <3>. QED BY <3>1, <3>2, <3>3, <1>10
  <2>. QED BY <2>1, <2>2 DEF ListsApart
<1>15. lists'["empty_list"] = <<>>
  <2>1. "empty_list" \in ListNames BY DEF ListNames, FlatLists
  <2>. QED BY <2>1, <1>4, <1>8, <1>9 DEF WaitInv
<1>16. ListedBefore'
  <2>. SUFFICES ASSUME NEW l \in ListNames, NEW x \in Range(lists'[l]) PROVE x.at <= Len(executed')
    BY <1>3 DEF ListedBefore
  <2>1. CASE x \in Range(lists[l]) BY <2>1, <1>2, <1>13 DEF Slot, p
  <2>2. CASE x.at = p BY <2>2, <1>2 DEF p
  <2>. QED BY <2>1, <2>2, <1>10
<1>17. WaitsBefore'
  <2>. SUFFICES ASSUME NEW e \in DOMAIN mem_unroll PROVE mem_unroll[e].wait <= Len(executed')
    BY <1>3 DEF WaitsBefore
  <2>. QED BY <1>2, ConnectionFact DEF WaitInv, WaitsBefore, p
<1>18. AwaitedNamed' BY <1>3 DEF WaitInv, AwaitedNamed
<1>19. LinkedOnce'
  <2>1. ASSUME NEW e \in DOMAIN mem_unroll, NEW l \in ListNames
        PROVE  Range(mem_unroll[e].sources) \cap Range(lists'[l]) = {}
    <3>1. Range(mem_unroll[e].sources) \cap Range(lists[l]) = {} BY DEF WaitInv, LinkedOnce
    <3>2. mem_unroll[e].wait \in Nat /\ mem_unroll[e].sources \in Seq(Slot)
      BY ConnectionFact DEF WaitInv
    <3>3. \A x \in Range(mem_unroll[e].sources) : x \in Slot /\ x.at < mem_unroll[e].wait
      BY <3>2, SlotSeq DEF WaitInv, LinkedOnce
    <3>4. mem_unroll[e].wait \in Nat /\ mem_unroll[e].wait < p
      BY <3>2, <1>2 DEF WaitInv, WaitsBefore, p
    <3>5. \A x \in Range(mem_unroll[e].sources) : x.at # p
      BY <3>3, <3>4, <1>2 DEF Slot, p
    <3>. QED BY <3>1, <3>5, <1>10
  <2>. QED BY <2>1, <1>3 DEF WaitInv, LinkedOnce
<1>. QED BY <1>12, <1>14, <1>15, <1>16, <1>17, <1>18, <1>19 DEF WaitInv

LEMMA BeginStep ==
    ASSUME WaitInv, NEW line \in DOMAIN program.code, BeginWait(line)
    PROVE  WaitInv'
<1>1. NextToken(line) /\ IsWait(program.code[line]) BY DEF BeginWait
<1>2. /\ program \in Programs
      /\ executed' \in Seq(Nat)
      /\ Len(executed) \in Nat
      /\ Len(executed') = Len(executed) + 1
      /\ executed' # <<>>
      /\ executed'[Len(executed')] = line
  BY <1>1, TokenStep
<1>3. /\ awaited = {} /\ program' = program
      /\ ordering' = ordering /\ lists' = lists /\ mem_unroll' = mem_unroll
  BY DEF BeginWait, NextToken
<1>4. awaited' \subseteq (Counters \cup {"idle"}) \cap program.code[line].counters
  BY HandledFact DEF BeginWait
<1>5. WaitTypeOK' BY <1>2, <1>3, <1>4 DEF WaitInv, WaitTypeOK
<1>6. ListsApart' BY <1>3 DEF WaitInv, ListsApart
<1>7. ListedBefore'
  <2>. SUFFICES ASSUME NEW l \in ListNames, NEW x \in Range(lists[l]) PROVE x.at < Len(executed')
    BY <1>2, <1>3, SlotSeq DEF ListedBefore, WaitInv, WaitTypeOK, Slot
  <2>1. x \in Slot BY SlotSeq DEF WaitInv, WaitTypeOK
  <2>2. x.at <= Len(executed) BY DEF WaitInv, ListedBefore
  <2>. QED BY <2>1, <2>2, <1>2 DEF Slot
<1>8. WaitsBefore'
  <2>. SUFFICES ASSUME NEW e \in DOMAIN mem_unroll PROVE mem_unroll[e].wait <= Len(executed')
    BY <1>3 DEF WaitsBefore
  <2>. QED BY <1>2, ConnectionFact DEF WaitInv, WaitsBefore
<1>9. AwaitedNamed'
  <2>1. InstAt(Len(executed))' = program.code[line] BY <1>2, <1>3 DEF InstAt
  <2>. QED BY <2>1, <1>1, <1>2, <1>3, <1>4 DEF AwaitedNamed
<1>10. LinkedOnce' BY <1>3 DEF WaitInv, LinkedOnce
<1>. QED BY <1>3, <1>5, <1>6, <1>7, <1>8, <1>9, <1>10 DEF WaitInv

(* A counter is handled: the lists can only lose slots.                    *)
LEMMA ShrinkLists ==
    ASSUME WaitInv, awaited # {}, awaited' \subseteq awaited,
           program' = program, executed' = executed,
           ordering' \in [Counters -> {"sequential", "parallel"}],
           lists' \in [ListNames -> Seq(Slot)],
           \A l \in ListNames : IsInjective(lists'[l]) /\ Range(lists'[l]) \subseteq Range(lists[l]),
           lists'["empty_list"] = <<>>
    PROVE  /\ ListsApart' /\ ListedBefore' /\ AwaitedNamed'
           /\ mem_unroll' = mem_unroll => WaitInv'
<1>1. ListsApart'
  <2>1. ASSUME NEW l \in ListNames, NEW m \in ListNames \ {l}
        PROVE  Range(lists'[l]) \cap Range(lists'[m]) = {}
    <3>1. Range(lists[l]) \cap Range(lists[m]) = {} BY DEF WaitInv, ListsApart
    <3>. QED BY <3>1
  <2>. QED BY <2>1 DEF ListsApart
<1>2. ListedBefore' BY DEF WaitInv, ListedBefore
<1>3. AwaitedNamed' BY DEF WaitInv, AwaitedNamed, InstAt
<1>4. ASSUME mem_unroll' = mem_unroll PROVE WaitInv'
  <2>1. WaitTypeOK' BY <1>4 DEF WaitInv, WaitTypeOK
  <2>2. WaitsBefore' BY <1>4 DEF WaitInv, WaitsBefore
  <2>3. LinkedOnce'
    <3>1. ASSUME NEW e \in DOMAIN mem_unroll, NEW l \in ListNames
          PROVE  Range(mem_unroll[e].sources) \cap Range(lists'[l]) = {}
      <4>1. Range(mem_unroll[e].sources) \cap Range(lists[l]) = {} BY DEF WaitInv, LinkedOnce
      <4>. QED BY <4>1
    <3>. QED BY <3>1, <1>4 DEF WaitInv, LinkedOnce
  <2>. QED BY <1>1, <1>2, <1>3, <2>1, <2>2, <2>3 DEF WaitInv
<1>. QED BY <1>1, <1>2, <1>3, <1>4

(* What they lose is connected, and was connected to no wait before.       *)
LEMMA ConnectLists ==
    ASSUME WaitInv, awaited # {}, awaited' \subseteq awaited,
           program' = program, executed' = executed,
           ordering' \in [Counters -> {"sequential", "parallel"}],
           lists' \in [ListNames -> Seq(Slot)],
           \A l \in ListNames : IsInjective(lists'[l]) /\ Range(lists'[l]) \subseteq Range(lists[l]),
           lists'["empty_list"] = <<>>,
           NEW s \in Seq(Slot), IsInjective(s),
           \A x \in Range(s) : \E l \in ListNames : x \in Range(lists[l]),
           \A l \in ListNames : Range(s) \cap Range(lists'[l]) = {},
           mem_unroll' = Append(mem_unroll, [wait |-> Len(executed), sources |-> s])
    PROVE  WaitInv'
<1>1. ListsApart' /\ ListedBefore' /\ AwaitedNamed' BY ShrinkLists
<1>. DEFINE new == [wait |-> Len(executed), sources |-> s]
            n == Len(mem_unroll)
<1>2. new \in Connection BY DEF WaitInv, WaitTypeOK, Connection
<1>3. mem_unroll \in Seq(Connection) BY DEF WaitInv, WaitTypeOK
<1>4. /\ mem_unroll' \in Seq(Connection)
      /\ DOMAIN mem_unroll = 1 .. n
      /\ DOMAIN mem_unroll' = 1 .. n + 1
      /\ \A e \in 1 .. n : mem_unroll'[e] = mem_unroll[e]
      /\ mem_unroll'[n + 1] = new
      /\ n \in Nat
  <2>. HIDE DEF new
  <2>. QED BY <1>2, <1>3 DEF new
<1>5. new.wait = Len(executed) /\ new.sources = s OBVIOUS
<1>. HIDE DEF new, n
<1>11. \A e \in 1 .. n + 1 : e \in 1 .. n \/ e = n + 1 BY <1>4
<1>6. WaitTypeOK' BY <1>4 DEF WaitInv, WaitTypeOK
<1>7. WaitsBefore'
  <2>1. Len(executed) \in Nat BY DEF WaitInv, WaitTypeOK
  <2>. QED BY <2>1, <1>4, <1>5 DEF WaitInv, WaitsBefore
<1>8. \A x \in Range(s) : x.at < Len(executed) BY DEF WaitInv, ListedBefore
<1>9. ASSUME NEW e \in 1 .. n
      PROVE  /\ Range(mem_unroll[e].sources) \cap Range(s) = {}
             /\ \A l \in ListNames : Range(mem_unroll[e].sources) \cap Range(lists'[l]) = {}
  <2>1. \A l \in ListNames : Range(mem_unroll[e].sources) \cap Range(lists[l]) = {}
    BY <1>4 DEF WaitInv, LinkedOnce
  <2>. QED BY <2>1
<1>10. LinkedOnce'
  <2>1. ASSUME NEW e \in 1 .. n + 1
        PROVE  /\ IsInjective(mem_unroll'[e].sources)
               /\ \A x \in Range(mem_unroll'[e].sources) : x.at < mem_unroll'[e].wait
               /\ \A l \in ListNames : Range(mem_unroll'[e].sources) \cap Range(lists'[l]) = {}
    <3>1. CASE e \in 1 .. n BY <3>1, <1>4, <1>9 DEF WaitInv, LinkedOnce
    <3>2. CASE e = n + 1 BY <3>2, <1>4, <1>5, <1>8
    <3>. QED BY <3>1, <3>2, <1>11
  <2>2. ASSUME NEW e \in 1 .. n + 1, NEW f \in 1 .. n + 1, e # f
        PROVE  Range(mem_unroll'[e].sources) \cap Range(mem_unroll'[f].sources) = {}
    <3>1. CASE e \in 1 .. n /\ f \in 1 .. n BY <3>1, <2>2, <1>4 DEF WaitInv, LinkedOnce
    <3>2. CASE e = n + 1 /\ f \in 1 .. n BY <3>2, <1>4, <1>5, <1>9
    <3>3. CASE f = n + 1 /\ e \in 1 .. n BY <3>3, <1>4, <1>5, <1>9
    <3>. QED BY <3>1, <3>2, <3>3, <2>2, <1>11
  <2>. QED BY <2>1, <2>2, <1>4 DEF LinkedOnce
<1>. QED BY <1>1, <1>6, <1>7, <1>10 DEF WaitInv

LEMMA PassStep == ASSUME WaitInv, NEW c \in awaited, PassCounter(c) PROVE WaitInv'
<1>1. lists' \in [ListNames -> Seq(Slot)] /\ ordering' \in [Counters -> {"sequential", "parallel"}]
  BY DEF PassCounter, WaitInv, WaitTypeOK
<1>2. \A l \in ListNames : IsInjective(lists'[l]) /\ Range(lists'[l]) \subseteq Range(lists[l])
  BY DEF PassCounter, WaitInv, ListsApart
<1>3. lists'["empty_list"] = <<>> BY DEF PassCounter, WaitInv
<1>. QED BY <1>1, <1>2, <1>3, ShrinkLists DEF PassCounter

LEMMA JoinStep == ASSUME WaitInv, NEW c \in awaited, JoinCounter(c) PROVE WaitInv'
<1>. DEFINE n == Wanted(c)
            F == FlatsOf(c)
            A == AlsoOf(c)
            taken == Taken(lists[c], n)
            first == lists[F] \o taken
            joined == IF first = <<>> THEN {F} ELSE {F, A}
            s == first \o lists[A]
<1>1. lists \in [ListNames -> Seq(Slot)] BY DEF WaitInv, WaitTypeOK
<1>2. c \in Counters /\ n \in Nat
  BY WantedFact DEF WaitInv, WaitTypeOK, JoinCounter
<1>3. /\ F \in FlatLists /\ A \in FlatLists
      /\ F = A => A = "empty_list"
  BY FlatFacts
<1>4. /\ c \in ListNames /\ F \in ListNames /\ A \in ListNames
      /\ c # F /\ c # A /\ "empty_list" \in ListNames
  BY <1>2, <1>3, ListsDisjoint DEF ListNames, FlatLists
<1>5. /\ lists' = [l \in ListNames |->
                     IF l = c THEN Rest(lists[c], n)
                     ELSE IF l \in joined THEN <<>> ELSE lists[l]]
      /\ mem_unroll' = IF first = <<>> THEN mem_unroll
                       ELSE Append(mem_unroll, [wait |-> Len(executed), sources |-> s])
  BY DEF JoinCounter
<1>6. /\ awaited # {} /\ awaited' \subseteq awaited
      /\ program' = program /\ executed' = executed
      /\ ordering' \in [Counters -> {"sequential", "parallel"}]
  BY DEF JoinCounter, WaitInv, WaitTypeOK
<1>7. lists["empty_list"] = <<>> BY DEF WaitInv
<1>8. /\ taken \in Seq(Slot) /\ Rest(lists[c], n) \in Seq(Slot)
      /\ IsInjective(taken) /\ IsInjective(Rest(lists[c], n))
      /\ Range(taken) \subseteq Range(lists[c])
      /\ Range(Rest(lists[c], n)) \subseteq Range(lists[c])
      /\ Range(taken) \cap Range(Rest(lists[c], n)) = {}
  <2>1. lists[c] \in Seq(Slot) /\ IsInjective(lists[c]) BY <1>1, <1>4 DEF WaitInv, ListsApart
  <2>. HIDE DEF n
  <2>. QED BY <2>1, <1>2, TakenRest
<1>9. /\ lists[F] \in Seq(Slot) /\ IsInjective(lists[F])
      /\ lists[A] \in Seq(Slot) /\ IsInjective(lists[A])
      /\ Range(lists[F]) \cap Range(lists[c]) = {}
      /\ Range(lists[A]) \cap Range(lists[c]) = {}
      /\ Range(lists[F]) \cap Range(lists[A]) = {}
  <2>1. Range(lists[F]) \cap Range(lists[A]) = {}
    <3>1. CASE F # A BY <3>1, <1>4 DEF WaitInv, ListsApart
    <3>2. CASE F = A BY <3>2, <1>3, <1>7, NoSlots
    <3>. QED BY <3>1, <3>2
  <2>. HIDE DEF F, A
  <2>. QED BY <2>1, <1>1, <1>4 DEF WaitInv, ListsApart
<1>10. /\ first \in Seq(Slot) /\ IsInjective(first)
       /\ Range(first) = Range(lists[F]) \cup Range(taken)
  <2>. HIDE DEF F, taken
  <2>. QED BY <1>8, <1>9, ConcatSlots
<1>11. /\ s \in Seq(Slot) /\ IsInjective(s)
       /\ Range(s) = Range(lists[F]) \cup Range(taken) \cup Range(lists[A])
  <2>1. Range(first) \cap Range(lists[A]) = {} BY <1>8, <1>9, <1>10
  <2>. HIDE DEF first, F, A, taken
  <2>. QED BY <2>1, <1>9, <1>10, ConcatSlots
<1>. HIDE DEF first, joined, s, taken, n, F, A
<1>12. /\ lists'[c] = Rest(lists[c], n)
       /\ \A l \in ListNames \ {c} : lists'[l] = IF l \in joined THEN <<>> ELSE lists[l]
  BY <1>4, <1>5
<1>13. lists' \in [ListNames -> Seq(Slot)]
  <2>1. \A l \in ListNames :
          (IF l = c THEN Rest(lists[c], n) ELSE IF l \in joined THEN <<>> ELSE lists[l]) \in Seq(Slot)
    BY <1>1, <1>8, NoSlots
  <2>. QED BY <2>1, <1>5
<1>14. \A l \in ListNames : IsInjective(lists'[l]) /\ Range(lists'[l]) \subseteq Range(lists[l])
  BY <1>8, <1>12, NoSlots DEF WaitInv, ListsApart
<1>15. lists'["empty_list"] = <<>> BY <1>2, <1>4, <1>7, <1>12, ListsDisjoint DEF FlatLists
<1>16. CASE first = <<>> BY <1>16, <1>5, <1>6, <1>13, <1>14, <1>15, ShrinkLists
<1>17. CASE first # <<>>
  <2>1. joined = {F, A} BY <1>17 DEF joined
  <2>2. \A x \in Range(s) : \E l \in ListNames : x \in Range(lists[l])
    BY <1>4, <1>8, <1>11
  <2>3. ASSUME NEW l \in ListNames PROVE Range(s) \cap Range(lists'[l]) = {}
    <3>1. CASE l = c BY <3>1, <1>8, <1>9, <1>11, <1>12
    <3>2. CASE l \in {F, A} BY <3>2, <2>1, <1>4, <1>12, NoSlots
    <3>3. CASE l \notin {c, F, A}
      <4>1. lists'[l] = lists[l] BY <3>3, <2>1, <1>12
      <4>2. \A m \in {c, F, A} : Range(lists[m]) \cap Range(lists[l]) = {}
        BY <3>3, <1>4 DEF WaitInv, ListsApart
      <4>. QED BY <4>1, <4>2, <1>8, <1>11
    <3>. QED BY <3>1, <3>2, <3>3
  <2>4. mem_unroll' = Append(mem_unroll, [wait |-> Len(executed), sources |-> s]) BY <1>17, <1>5
  <2>. QED BY <2>2, <2>3, <2>4, <1>6, <1>11, <1>13, <1>14, <1>15, ConnectLists
<1>. QED BY <1>16, <1>17

(* A concatenation of some of the lists.                                   *)
Joins(s, names) ==
    /\ s \in Seq(Slot)
    /\ IsInjective(s)
    /\ Range(s) = UNION {Range(lists[l]) : l \in names}

LEMMA JoinsMore ==
    ASSUME WaitTypeOK, ListsApart, NEW names \in SUBSET ListNames, NEW s, Joins(s, names),
           NEW l \in ListNames \ names
    PROVE  Joins(s \o lists[l], names \cup {l})
<1>1. lists[l] \in Seq(Slot) /\ IsInjective(lists[l]) BY DEF WaitTypeOK, ListsApart
<1>2. \A m \in names : Range(lists[m]) \cap Range(lists[l]) = {} BY DEF ListsApart
<1>3. Range(s) \cap Range(lists[l]) = {} BY <1>2 DEF Joins
<1>4. /\ s \o lists[l] \in Seq(Slot)
      /\ IsInjective(s \o lists[l])
      /\ Range(s \o lists[l]) = Range(s) \cup Range(lists[l])
  BY <1>1, <1>3, ConcatSlots DEF Joins
<1>5. Range(s) \cup Range(lists[l]) = UNION {Range(lists[m]) : m \in names \cup {l}}
  BY DEF Joins
<1>. QED BY <1>4, <1>5 DEF Joins

(* The counters that s_wait_idle takes from, and what it takes.            *)
IdleNames == {"load", "store", "sample", "ds", "km", "exp", "bvh", "tensor", "async"}
IdleSources ==
    lists["load"] \o lists["store"] \o lists["sample"] \o lists["ds"] \o lists["km"]
    \o lists["exp"] \o lists["bvh"] \o lists["tensor"] \o lists["async"]

LEMMA IdleJoins ==
    ASSUME WaitTypeOK, ListsApart
    PROVE  Joins(IdleSources, IdleNames)
<1>. DEFINE u0 == lists["load"]
            u1 == u0 \o lists["store"]
            u2 == u1 \o lists["sample"]
            u3 == u2 \o lists["ds"]
            u4 == u3 \o lists["km"]
            u5 == u4 \o lists["exp"]
            u6 == u5 \o lists["bvh"]
            u7 == u6 \o lists["tensor"]
            s == u7 \o lists["async"]
            N0 == {"load"}
            N1 == N0 \cup {"store"}
            N2 == N1 \cup {"sample"}
            N3 == N2 \cup {"ds"}
            N4 == N3 \cup {"km"}
            N5 == N4 \cup {"exp"}
            N6 == N5 \cup {"bvh"}
            N7 == N6 \cup {"tensor"}
            N8 == N7 \cup {"async"}
<1>1. WaitTypeOK /\ ListsApart OBVIOUS
<1>2. N8 \subseteq Counters /\ Counters \subseteq ListNames BY DEF Counters, ListNames
<1>3. s = IdleSources /\ N8 = IdleNames BY DEF IdleSources, IdleNames
<1>4. Joins(u0, N0) BY <1>1, <1>2 DEF Joins, WaitTypeOK, ListsApart
<1>5. Joins(u1, N1)
  <2>1. "store" \in ListNames \ N0 /\ N0 \in SUBSET ListNames BY <1>2
  <2>. HIDE DEF u0, N0
  <2>. QED BY <2>1, <1>1, <1>4, JoinsMore
<1>6. Joins(u2, N2)
  <2>1. "sample" \in ListNames \ N1 /\ N1 \in SUBSET ListNames BY <1>2
  <2>. HIDE DEF u1, N1
  <2>. QED BY <2>1, <1>1, <1>5, JoinsMore
<1>7. Joins(u3, N3)
  <2>1. "ds" \in ListNames \ N2 /\ N2 \in SUBSET ListNames BY <1>2
  <2>. HIDE DEF u2, N2
  <2>. QED BY <2>1, <1>1, <1>6, JoinsMore
<1>8. Joins(u4, N4)
  <2>1. "km" \in ListNames \ N3 /\ N3 \in SUBSET ListNames BY <1>2
  <2>. HIDE DEF u3, N3
  <2>. QED BY <2>1, <1>1, <1>7, JoinsMore
<1>9. Joins(u5, N5)
  <2>1. "exp" \in ListNames \ N4 /\ N4 \in SUBSET ListNames BY <1>2
  <2>. HIDE DEF u4, N4
  <2>. QED BY <2>1, <1>1, <1>8, JoinsMore
<1>10. Joins(u6, N6)
  <2>1. "bvh" \in ListNames \ N5 /\ N5 \in SUBSET ListNames BY <1>2
  <2>. HIDE DEF u5, N5
  <2>. QED BY <2>1, <1>1, <1>9, JoinsMore
<1>11. Joins(u7, N7)
  <2>1. "tensor" \in ListNames \ N6 /\ N6 \in SUBSET ListNames BY <1>2
  <2>. HIDE DEF u6, N6
  <2>. QED BY <2>1, <1>1, <1>10, JoinsMore
<1>12. Joins(s, N8)
  <2>1. "async" \in ListNames \ N7 /\ N7 \in SUBSET ListNames BY <1>2
  <2>. HIDE DEF u7, N7
  <2>. QED BY <2>1, <1>1, <1>11, JoinsMore
<1>. QED BY <1>3, <1>12

LEMMA IdleStep == ASSUME WaitInv, WaitIdle PROVE WaitInv'
<1>1. WaitTypeOK /\ ListsApart BY DEF WaitInv
<1>2. IdleNames \subseteq Counters /\ Counters \subseteq ListNames BY DEF IdleNames, Counters, ListNames
<1>3. /\ mem_unroll' = Append(mem_unroll, [wait |-> Len(executed), sources |-> IdleSources])
      /\ lists' = [l \in ListNames |-> IF l \in Counters THEN <<>> ELSE lists[l]]
      /\ awaited # {} /\ awaited' \subseteq awaited
      /\ program' = program /\ executed' = executed /\ ordering' = ordering
  BY DEF WaitIdle, NextAwaited, IdleSources
<1>4. Joins(IdleSources, IdleNames) BY <1>1, IdleJoins
<1>5. lists' \in [ListNames -> Seq(Slot)] BY <1>1, <1>3, NoSlots DEF WaitTypeOK
<1>6. \A l \in ListNames : IsInjective(lists'[l]) /\ Range(lists'[l]) \subseteq Range(lists[l])
  BY <1>1, <1>3, NoSlots DEF ListsApart
<1>7. lists'["empty_list"] = <<>> BY <1>3, ListsDisjoint DEF WaitInv, ListNames, FlatLists
<1>8. \A x \in Range(IdleSources) : \E l \in ListNames : x \in Range(lists[l])
  BY <1>2, <1>4 DEF Joins
<1>9. ASSUME NEW l \in ListNames PROVE Range(IdleSources) \cap Range(lists'[l]) = {}
  <2>1. CASE l \in Counters BY <2>1, <1>3, NoSlots
  <2>2. CASE l \notin Counters
    <3>1. \A m \in IdleNames : Range(lists[m]) \cap Range(lists[l]) = {} BY <2>2, <1>1, <1>2 DEF ListsApart
    <3>. QED BY <3>1, <2>2, <1>3, <1>4 DEF Joins
  <2>. QED BY <2>1, <2>2
<1>10. IdleSources \in Seq(Slot) /\ IsInjective(IdleSources) BY <1>4 DEF Joins
<1>11. ordering' \in [Counters -> {"sequential", "parallel"}] BY <1>1, <1>3 DEF WaitTypeOK
<1>. QED BY <1>3, <1>5, <1>6, <1>7, <1>8, <1>9, <1>10, <1>11, ConnectLists

-----------------------------------------------------------------------------
LEMMA NextInvariant == WaitInv /\ [WaitNext]_waitVars => WaitInv'
<1>. SUFFICES ASSUME WaitInv, [WaitNext]_waitVars PROVE WaitInv'
  OBVIOUS
<1>1. ASSUME NEW q \in Programs, SelectWave(q) PROVE WaitInv' BY <1>1, SelectStep
<1>2. CASE ReadToken
  <2>1. PICK line \in DOMAIN program.code : IssueOp(line) \/ BeginWait(line)
    BY <1>2 DEF ReadToken
  <2>. QED BY <2>1, IssueStep, BeginStep
<1>3. CASE HandleCounter
  <2>1. CASE WaitIdle BY <2>1, IdleStep
  <2>2. ASSUME NEW c \in awaited, PassCounter(c) PROVE WaitInv' BY <2>2, PassStep
  <2>3. ASSUME NEW c \in awaited, JoinCounter(c) PROVE WaitInv' BY <2>3, JoinStep
  <2>. QED BY <1>3, <2>1, <2>2, <2>3 DEF HandleCounter
<1>4. CASE EndWaits BY <1>4, EndStep
<1>5. CASE UNCHANGED waitVars
  BY <1>5 DEF waitVars, WaitInv, WaitTypeOK, ListsApart, ListedBefore, WaitsBefore, AwaitedNamed,
              InstAt, LinkedOnce
<1>. QED BY <1>1, <1>2, <1>3, <1>4, <1>5 DEF WaitNext

(* The counts of outstanding operations and their links hold together in   *)
(* every state of the walk over the tokens of a wave.                      *)
THEOREM WaitInvariance == WaitSpec => []WaitInv
BY InitInvariant, NextInvariant, PTL DEF WaitSpec

(* buildWaitcntFromTokens: the lists and connections of any wave's code.   *)
THEOREM WaitTypeCorrect == WaitSpec => []WaitTypeOK
<1>. WaitInv => WaitTypeOK BY DEF WaitInv
<1>. QED BY WaitInvariance, PTL

(* handle_mem_op and the waits of the three architectures: for any wave,   *)
(* of any length, no operation is connected to two waits, or twice to one, *)
(* or to a wait that comes before it, or stays listed once connected.      *)
THEOREM WaitsLinkOnce == WaitSpec => []LinkedOnce
<1>. WaitInv => LinkedOnce BY DEF WaitInv
<1>. QED BY WaitInvariance, PTL

-----------------------------------------------------------------------------
(***************************************************************************)
(* Each wait is connected to exactly the operations that it is the first   *)
(* to guarantee.                                                           *)
(*                                                                         *)
(* WaitsExact speaks of complete waits, and of connections only.  HistoryInv*)
(* says as well, between the counters of one wait, what the lists hold, in *)
(* which order, and what makes a counter parallel, all of it in terms of   *)
(* what has been executed: a slot stays listed until a wait ends it, and a *)
(* counter of the last wait counts once it is handled.                     *)
(***************************************************************************)
(* The wait at w has handled c, if it names it.                            *)
Passed(w, c) == w < Len(executed) \/ awaited \cap {c, "idle"} = {}

(* The wait at w has ended the FLAT loads, something that takes the FLAT    *)
(* stores along, and the FLAT stores.                                      *)
LoadsEnded(w) == \E c \in LoadCounters : ForZero(w, c) /\ Passed(w, c)
EndsMore(w, c) ==
    /\ Decides(w, c)
    /\ \/ OwnLinks(w, c) # {}
       \/ LoadLinks(w) # {} /\ \A d \in {"vm", "load"} : ~ForZero(w, d)
StoresEnded(w) ==
    \/ \E c \in {"vs", "store"} : ForZero(w, c) /\ Passed(w, c)
    \/ \E c \in {"lgkm", "ds"} : EndsMore(w, c) /\ Passed(w, c)

(* The wait at w has ended the operation in slot s of list l.              *)
Ends(w, l, s) ==
    /\ s.at < w
    /\ \/ l \in Counters /\ Guarantees(w, l, s) /\ Passed(w, l)
       \/ l \in {"flats", "flat_load"} /\ LoadsEnded(w)
       \/ l = "flat_stor" /\ StoresEnded(w)

Linked(w) == UNION {Range(mem_unroll[e].sources) : e \in {f \in DOMAIN mem_unroll : mem_unroll[f].wait = w}}

ListsExact ==
    \A l \in ListNames :
        Range(lists[l]) = {s \in Issued(l) : \A w \in s.at .. Len(executed) : ~Ends(w, l, s)}

LinksExact ==
    \A w \in 1 .. Len(executed) : \A s :
        s \in Linked(w) <=>
            \E l \in ListNames : /\ s \in Issued(l)
                                 /\ Ends(w, l, s)
                                 /\ \A v \in s.at .. w - 1 : ~Ends(v, l, s)

(* A counter is parallel from an unordered operation to a wait for 0.      *)
OrderExact ==
    \A c \in Counters :
        ordering[c] = "parallel" <=>
            \E p \in Mem : /\ c \in OpOf(InstAt(p)).parallel
                           /\ \A z \in p .. Len(executed) : ~(ForZero(z, c) /\ Passed(z, c))

Before(s, t) == s.at < t.at \/ (s.at = t.at /\ s.slot < t.slot)

(* A counter's list is in order, and has the last operations issued.       *)
ListsSorted ==
    \A c \in Counters :
        /\ \A i, j \in DOMAIN lists[c] : i < j => Before(lists[c][i], lists[c][j])
        /\ \A s \in Range(lists[c]) : \A t \in Issued(c) : Before(s, t) => t \in Range(lists[c])

OnlyIdleEmpty ==
    \A e \in DOMAIN mem_unroll :
        mem_unroll[e].sources # <<>> \/ Names(mem_unroll[e].wait, "idle")

AwaitedHandled == awaited \subseteq Range(Handled[Arch])

HistoryInv ==
    /\ WaitInv
    /\ AwaitedHandled
    /\ ListsExact
    /\ LinksExact
    /\ OrderExact
    /\ ListsSorted
    /\ OnlyIdleEmpty

-----------------------------------------------------------------------------
(* What has been executed stays, and so does what it says.                 *)
Grows ==
    /\ program' = program
    /\ Len(executed) \in Nat /\ Len(executed') \in Nat
    /\ Len(executed) <= Len(executed')
    /\ DOMAIN executed = 1 .. Len(executed)
    /\ DOMAIN executed' = 1 .. Len(executed')
    /\ \A p \in 1 .. Len(executed) : executed'[p] = executed[p]

LEMMA KeptNames ==
    ASSUME Grows, NEW w \in 1 .. Len(executed)
    PROVE  /\ Arch' = Arch
           /\ InstAt(w)' = InstAt(w)
           /\ (w \in Waits)' <=> w \in Waits
           /\ (w \in Mem)' <=> w \in Mem
           /\ \A c : Names(w, c)' <=> Names(w, c)
           /\ \A c : ForZero(w, c)' <=> ForZero(w, c)
<1>1. Arch' = Arch BY DEF Grows, Arch
<1>2. InstAt(w)' = InstAt(w) BY DEF Grows, InstAt
<1>3. w \in DOMAIN executed /\ w \in DOMAIN executed' BY DEF Grows
<1>4. (w \in Waits)' <=> w \in Waits BY <1>2, <1>3 DEF Waits
<1>5. (w \in Mem)' <=> w \in Mem BY <1>2, <1>3 DEF Mem
<1>6. \A c : Names(w, c)' <=> Names(w, c) BY <1>1, <1>2, <1>4 DEF Names
<1>7. \A c : ForZero(w, c)' <=> ForZero(w, c) BY <1>2, <1>6 DEF ForZero
<1>. QED BY <1>1, <1>2, <1>4, <1>5, <1>6, <1>7

LEMMA KeptOps ==
    ASSUME Grows, NEW w \in 1 .. Len(executed)
    PROVE  OpOf(InstAt(w))' = OpOf(InstAt(w))
BY KeptNames DEF OpOf

LEMMA KeptUnordered ==
    ASSUME Grows, NEW w \in 1 .. Len(executed)
    PROVE  \A c : /\ Unordered(w, c)' <=> Unordered(w, c)
                  /\ Decides(w, c)' <=> Decides(w, c)
<1>. SUFFICES ASSUME NEW c
              PROVE  /\ Unordered(w, c)' <=> Unordered(w, c)
                     /\ Decides(w, c)' <=> Decides(w, c)
  OBVIOUS
<1>1. \A p : p \in Mem => p \in 1 .. Len(executed) BY DEF Grows, Mem
<1>2. \A p : (p \in Mem)' => p \in 1 .. Len(executed') BY DEF Grows, Mem
<1>3. Len(executed) \in Nat /\ Len(executed') \in Nat /\ Len(executed) <= Len(executed') BY DEF Grows
<1>4. \A p \in 1 .. Len(executed) :
         /\ (p \in Mem)' <=> p \in Mem
         /\ OpOf(InstAt(p))' = OpOf(InstAt(p))
         /\ ForZero(p, c)' <=> ForZero(p, c)
  BY KeptNames, KeptOps
<1>5. Unordered(w, c)' <=> Unordered(w, c)
  <2>1. ASSUME NEW p, p \in Mem, p < w PROVE p \in 1 .. Len(executed) /\ \A z \in p .. w - 1 : z \in 1 .. Len(executed)
    BY <1>1, <1>3, <2>1
  <2>2. ASSUME NEW p, (p \in Mem)', p < w PROVE p \in 1 .. Len(executed) /\ \A z \in p .. w - 1 : z \in 1 .. Len(executed)
    BY <1>2, <1>3, <2>2
  <2>. QED BY <1>4, <2>1, <2>2 DEF Unordered
<1>. QED BY <1>5, KeptNames DEF Decides

LEMMA IssuedFacts ==
    ASSUME NEW l, NEW s
    PROVE  s \in Issued(l) <=>
              /\ s = [at |-> s.at, slot |-> s.slot]
              /\ s.at \in Mem /\ OpOf(InstAt(s.at)).list = l
              /\ s.slot \in {1, 2} /\ s.slot <= OpOf(InstAt(s.at)).slots
<1>. DEFINE Of(q) == OpOf(InstAt(q))
<1>1. s \in SlotsOf(l) <=> \E p \in Mem, k \in {1, 2} : Of(p).list = l /\ s = [at |-> p, slot |-> k]
  BY DEF SlotsOf
<1>4. s \in Issued(l) <=> s \in SlotsOf(l) /\ s.slot <= Of(s.at).slots BY DEF Issued
<1>. HIDE DEF Of
<1>2. ASSUME NEW p \in Mem, NEW k \in {1, 2}, Of(p).list = l, s = [at |-> p, slot |-> k]
      PROVE  s = [at |-> s.at, slot |-> s.slot] /\ s.at \in Mem /\ Of(s.at).list = l /\ s.slot \in {1, 2}
  <2>1. s.at = p /\ s.slot = k BY <1>2
  <2>. QED BY <2>1, <1>2
<1>3. s \in SlotsOf(l) <=> /\ s = [at |-> s.at, slot |-> s.slot]
                           /\ s.at \in Mem /\ Of(s.at).list = l
                           /\ s.slot \in {1, 2}
  BY <1>1, <1>2, Zenon
<1>5. s \in Issued(l) <=> /\ s = [at |-> s.at, slot |-> s.slot]
                          /\ s.at \in Mem /\ Of(s.at).list = l
                          /\ s.slot \in {1, 2} /\ s.slot <= Of(s.at).slots
  BY <1>3, <1>4, Zenon
<1>. QED BY <1>5 DEF Of

LEMMA IssuedFactsLater ==
    ASSUME NEW l, NEW s
    PROVE  s \in Issued(l)' <=>
              /\ s = [at |-> s.at, slot |-> s.slot]
              /\ s.at \in Mem' /\ OpOf(InstAt(s.at))'.list = l
              /\ s.slot \in {1, 2} /\ s.slot <= OpOf(InstAt(s.at))'.slots
<1>. DEFINE Of(q) == OpOf(InstAt(q))'
<1>1. s \in SlotsOf(l)' <=> \E p \in Mem', k \in {1, 2} : Of(p).list = l /\ s = [at |-> p, slot |-> k]
  BY DEF SlotsOf
<1>4. s \in Issued(l)' <=> s \in SlotsOf(l)' /\ s.slot <= Of(s.at).slots BY DEF Issued
<1>. HIDE DEF Of
<1>2. ASSUME NEW p \in Mem', NEW k \in {1, 2}, Of(p).list = l, s = [at |-> p, slot |-> k]
      PROVE  s = [at |-> s.at, slot |-> s.slot] /\ s.at \in Mem' /\ Of(s.at).list = l /\ s.slot \in {1, 2}
  <2>1. s.at = p /\ s.slot = k BY <1>2
  <2>. QED BY <2>1, <1>2
<1>3. s \in SlotsOf(l)' <=> /\ s = [at |-> s.at, slot |-> s.slot]
                           /\ s.at \in Mem' /\ Of(s.at).list = l
                           /\ s.slot \in {1, 2}
  BY <1>1, <1>2, Zenon
<1>5. s \in Issued(l)' <=> /\ s = [at |-> s.at, slot |-> s.slot]
                          /\ s.at \in Mem' /\ Of(s.at).list = l
                          /\ s.slot \in {1, 2} /\ s.slot <= Of(s.at).slots
  BY <1>3, <1>4, Zenon
<1>. QED BY <1>5 DEF Of

LEMMA IssuedAt ==
    ASSUME executed \in Seq(Nat), NEW l, NEW s \in Issued(l)
    PROVE  /\ s \in Slot /\ s.at \in 1 .. Len(executed) /\ s.at \in Mem
           /\ OpOf(InstAt(s.at)).list = l
<1>1. s = [at |-> s.at, slot |-> s.slot] /\ s.at \in Mem /\ OpOf(InstAt(s.at)).list = l /\ s.slot \in {1, 2}
  BY IssuedFacts
<1>2. s.at \in 1 .. Len(executed) BY <1>1 DEF Mem
<1>. QED BY <1>1, <1>2 DEF Slot

LEMMA KeptIssued ==
    ASSUME Grows, NEW l, NEW s, s.at \in Nat, s.at <= Len(executed)
    PROVE  s \in Issued(l)' <=> s \in Issued(l)
<1>1. s \in Issued(l)' <=>
          /\ s = [at |-> s.at, slot |-> s.slot]
          /\ s.at \in Mem' /\ OpOf(InstAt(s.at))'.list = l
          /\ s.slot \in {1, 2} /\ s.slot <= OpOf(InstAt(s.at))'.slots
  BY IssuedFactsLater
<1>2. s \in Issued(l) <=>
          /\ s = [at |-> s.at, slot |-> s.slot]
          /\ s.at \in Mem /\ OpOf(InstAt(s.at)).list = l
          /\ s.slot \in {1, 2} /\ s.slot <= OpOf(InstAt(s.at)).slots
  BY IssuedFacts
<1>3. CASE s.at = 0
  <2>1. s.at \notin Mem /\ s.at \notin Mem' BY <1>3 DEF Grows, Mem
  <2>. QED BY <1>1, <1>2, <2>1
<1>4. CASE s.at # 0
  <2>1. s.at \in 1 .. Len(executed) BY <1>4 DEF Grows
  <2>2. (s.at \in Mem' <=> s.at \in Mem) /\ OpOf(InstAt(s.at))' = OpOf(InstAt(s.at))
    BY <2>1, KeptNames, KeptOps
  <2>. QED BY <1>1, <1>2, <2>2
<1>. QED BY <1>3, <1>4

LEMMA IssuedNat ==
    ASSUME Grows, NEW l, NEW s
    PROVE  /\ s \in Issued(l) => s.at \in Nat /\ s.at <= Len(executed)
           /\ s \in Issued(l)' => s.at \in Nat
<1>1. s \in Issued(l) => s.at \in Mem BY IssuedFacts
<1>2. s \in Issued(l)' => s.at \in Mem' BY IssuedFactsLater
<1>. QED BY <1>1, <1>2 DEF Mem, Grows

LEMMA KeptLater ==
    ASSUME Grows, NEW w \in 1 .. Len(executed), NEW l, NEW s
    PROVE  Later(w, l, s)' = Later(w, l, s)
<1>0. Len(executed) \in Nat BY DEF Grows
<1>1. ASSUME NEW t, t.at < w, t \in Issued(l) \/ t \in Issued(l)'
      PROVE  t \in Issued(l)' <=> t \in Issued(l)
  <2>1. t.at \in Nat /\ t.at <= Len(executed) BY <1>0, <1>1, IssuedNat
  <2>. QED BY <2>1, KeptIssued
<1>. QED BY <1>1 DEF Later

LEMMA KeptGuarantees ==
    ASSUME Grows, NEW w \in 1 .. Len(executed), NEW l, NEW s
    PROVE  Guarantees(w, l, s)' <=> Guarantees(w, l, s)
<1>1. /\ Names(w, "idle")' <=> Names(w, "idle")
      /\ Decides(w, l)' <=> Decides(w, l)
      /\ Later(w, l, s)' = Later(w, l, s)
      /\ Extract(InstAt(w), l)' = Extract(InstAt(w), l)
  BY KeptNames, KeptUnordered, KeptLater DEF Extract
<1>. QED BY <1>1 DEF Guarantees

LEMMA KeptLinks ==
    ASSUME Grows, NEW w \in 1 .. Len(executed)
    PROVE  /\ \A c : OwnLinks(w, c)' = OwnLinks(w, c)
           /\ LoadLinks(w)' = LoadLinks(w)
           /\ \A c : EndsMore(w, c)' <=> EndsMore(w, c)
<1>0. Len(executed) \in Nat BY DEF Grows
<1>1. ASSUME NEW l, NEW s, s.at < w
      PROVE  s \in Issued(l)' <=> s \in Issued(l)
  <2>1. CASE s \in Issued(l) \/ s \in Issued(l)'
    <3>1. s.at \in Nat /\ s.at <= Len(executed) BY <1>0, <1>1, <2>1, IssuedNat
    <3>. QED BY <3>1, KeptIssued
  <2>. QED BY <2>1
<1>2. ASSUME NEW l, NEW s, s \in Issued(l), NEW v \in s.at .. w
      PROVE  v \in 1 .. Len(executed)
  <2>1. s.at \in Mem BY <1>2, IssuedFacts
  <2>2. s.at \in 1 .. Len(executed) BY <2>1 DEF Mem, Grows
  <2>. QED BY <2>2, <1>0
<1>3. ASSUME NEW c PROVE OwnLinks(w, c)' = OwnLinks(w, c)
  <2>1. ASSUME NEW s PROVE s \in OwnLinks(w, c)' <=> s \in OwnLinks(w, c)
    <3>1. CASE ~(s.at < w)
      <4>1. ~Guarantees(w, c, s) /\ ~Guarantees(w, c, s)' BY <3>1 DEF Guarantees
      <4>. QED BY <4>1 DEF OwnLinks
    <3>2. CASE s.at < w /\ s \notin Issued(c) BY <3>2, <1>1 DEF OwnLinks
    <3>3. CASE s.at < w /\ s \in Issued(c)
      <4>1. s \in Issued(c)' BY <3>3, <1>1
      <4>2. \A v \in s.at .. w : Guarantees(v, c, s)' <=> Guarantees(v, c, s)
        BY <3>3, <1>2, KeptGuarantees
      <4>3. Guarantees(w, c, s)' <=> Guarantees(w, c, s) BY KeptGuarantees
      <4>4. \A v \in s.at .. w - 1 : v \in s.at .. w
        <5>1. s.at \in Nat BY <3>3, IssuedNat
        <5>. QED BY <5>1, <1>0
      <4>. QED BY <3>3, <4>1, <4>2, <4>3, <4>4 DEF OwnLinks
    <3>. QED BY <3>1, <3>2, <3>3
  <2>. QED BY <2>1
<1>4. LoadLinks(w)' = LoadLinks(w)
  <2>1. ASSUME NEW s PROVE s \in LoadLinks(w)' <=> s \in LoadLinks(w)
    <3>1. CASE ~(s.at < w) BY <3>1 DEF LoadLinks
    <3>2. CASE s.at < w /\ s \notin Issued("flats") \cup Issued("flat_load") BY <3>2, <1>1 DEF LoadLinks
    <3>3. CASE s.at < w /\ s \in Issued("flats") \cup Issued("flat_load")
      <4>1. s \in Issued("flats")' \cup Issued("flat_load")' BY <3>3, <1>1
      <4>2. \A v \in s.at .. w : v \in 1 .. Len(executed) BY <3>3, <1>2
      <4>3. s.at \in Nat BY <3>3, IssuedNat
      <4>4. \A v \in s.at .. w - 1 : v \in 1 .. Len(executed) BY <4>2, <4>3, <1>0
      <4>5. \A v \in 1 .. Len(executed) : \A c : ForZero(v, c)' <=> ForZero(v, c) BY KeptNames
      <4>. QED BY <3>3, <4>1, <4>4, <4>5 DEF LoadLinks, LoadCounters
    <3>. QED BY <3>1, <3>2, <3>3
  <2>. QED BY <2>1
<1>5. \A c : EndsMore(w, c)' <=> EndsMore(w, c)
  BY <1>3, <1>4, KeptNames, KeptUnordered DEF EndsMore
<1>. QED BY <1>3, <1>4, <1>5

(* A wait that has handled more has ended more.                            *)
LEMMA KeptEnds ==
    ASSUME Grows, NEW w \in 1 .. Len(executed),
           \A c : Passed(w, c) => Passed(w, c)'
    PROVE  \A l, s : /\ Ends(w, l, s) => Ends(w, l, s)'
                     /\ (\A c : Passed(w, c)' => Passed(w, c)) /\ Ends(w, l, s)' => Ends(w, l, s)
<1>1. /\ \A c : ForZero(w, c)' <=> ForZero(w, c)
      /\ \A c : EndsMore(w, c)' <=> EndsMore(w, c)
      /\ \A l, s : Guarantees(w, l, s)' <=> Guarantees(w, l, s)
  BY KeptNames, KeptLinks, KeptGuarantees
<1>2. /\ LoadsEnded(w) => LoadsEnded(w)'
      /\ (\A c : Passed(w, c)' => Passed(w, c)) /\ LoadsEnded(w)' => LoadsEnded(w)
  BY <1>1 DEF LoadsEnded, LoadCounters
<1>3. /\ StoresEnded(w) => StoresEnded(w)'
      /\ (\A c : Passed(w, c)' => Passed(w, c)) /\ StoresEnded(w)' => StoresEnded(w)
  BY <1>1 DEF StoresEnded
<1>. QED BY <1>1, <1>2, <1>3 DEF Ends, Counters

-----------------------------------------------------------------------------
(* A counter is handled: slots leave the lists and are connected.          *)
LEMMA HandlingGrows ==
    ASSUME WaitInv, awaited # {}, executed' = executed, program' = program, awaited' \subseteq awaited
    PROVE  /\ Grows
           /\ Len(executed) \in Nat \ {0}
           /\ \A w \in 1 .. Len(executed) : \A c : Passed(w, c) => Passed(w, c)'
           /\ \A w \in 1 .. Len(executed) - 1 : \A c : Passed(w, c)' => Passed(w, c)
           /\ \A l : Issued(l)' = Issued(l)
<1>1. executed \in Seq(Nat) /\ executed # <<>> BY DEF WaitInv, WaitTypeOK, AwaitedNamed
<1>2. Len(executed) \in Nat \ {0} /\ DOMAIN executed = 1 .. Len(executed) BY <1>1
<1>3. Grows BY <1>2 DEF Grows
<1>4. \A w \in 1 .. Len(executed) : \A c : Passed(w, c) => Passed(w, c)' BY DEF Passed
<1>5. \A w \in 1 .. Len(executed) - 1 : \A c : Passed(w, c)' => Passed(w, c) BY <1>2 DEF Passed
<1>6. ASSUME NEW l, NEW s PROVE s \in Issued(l)' <=> s \in Issued(l)
  <2>1. s \in Issued(l) => s.at \in Nat /\ s.at <= Len(executed) BY <1>3, IssuedNat
  <2>2. s \in Issued(l)' => s.at \in Nat /\ s.at <= Len(executed)
    <3>1. s \in Issued(l)' => s.at \in Mem' BY IssuedFactsLater
    <3>. QED BY <3>1, <1>2 DEF Mem
  <2>3. s.at \in Nat /\ s.at <= Len(executed) => (s \in Issued(l)' <=> s \in Issued(l)) BY <1>3, KeptIssued
  <2>. QED BY <2>1, <2>2, <2>3, Zenon
<1>7. ASSUME NEW l PROVE Issued(l)' = Issued(l)
  <2>1. \A s : s \in Issued(l)' <=> s \in Issued(l) BY <1>6
  <2>2. Issued(l)' \subseteq Issued(l) /\ Issued(l) \subseteq Issued(l)' BY <2>1
  <2>. QED BY <2>2
<1>. QED BY <1>2, <1>3, <1>4, <1>5, <1>7, Zenon

(* The last token, a wait, handles a counter: it takes the slots in T.     *)
LEMMA SlotsTaken ==
    ASSUME WaitInv, ListsExact, LinksExact,
           awaited # {}, executed' = executed, program' = program, awaited' \subseteq awaited,
           NEW n, n = Len(executed), NEW T,
           \A l \in ListNames : Range(lists'[l]) = Range(lists[l]) \ T,
           \A s \in T : \E l \in ListNames : s \in Range(lists[l]),
           \A w \in 1 .. n : Linked(w)' = IF w = n THEN Linked(w) \cup T ELSE Linked(w),
           \A l \in ListNames : \A s \in Range(lists[l]) : Ends(n, l, s)' <=> s \in T
    PROVE  ListsExact' /\ LinksExact'
<1>1. /\ Grows /\ n \in Nat \ {0} /\ Len(executed') = n
      /\ \A w \in 1 .. n : \A c : Passed(w, c) => Passed(w, c)'
      /\ \A w \in 1 .. n - 1 : \A c : Passed(w, c)' => Passed(w, c)
      /\ \A l : Issued(l)' = Issued(l)
  BY HandlingGrows
<1>2. \A w \in 1 .. n : \A l, s : Ends(w, l, s) => Ends(w, l, s)' BY <1>1, KeptEnds
<1>3. \A w \in 1 .. n - 1 : \A l, s : Ends(w, l, s)' <=> Ends(w, l, s)
  <2>1. \A w \in 1 .. n - 1 : w \in 1 .. n BY <1>1
  <2>. QED BY <1>1, <2>1, KeptEnds
<1>4. ASSUME NEW l, NEW s \in Issued(l)
      PROVE  /\ s.at \in 1 .. n /\ n \in s.at .. n
             /\ \A w \in s.at .. n : w \in 1 .. n /\ (w = n \/ w \in 1 .. n - 1)
  <2>1. s.at \in 1 .. n BY IssuedAt DEF WaitInv, WaitTypeOK
  <2>. QED BY <2>1, <1>1
<1>5. \A l \in ListNames : \A s : s \in Range(lists[l]) <=> s \in Issued(l) /\ \A w \in s.at .. n : ~Ends(w, l, s)
  BY DEF ListsExact
<1>6. \A l \in ListNames : \A s \in Range(lists[l]) : Ends(n, l, s)' <=> s \in T OBVIOUS
<1>7. \A w \in 1 .. n : \A s :
        s \in Linked(w) <=> \E l \in ListNames : s \in Issued(l) /\ Ends(w, l, s) /\ \A v \in s.at .. w - 1 : ~Ends(v, l, s)
  BY DEF LinksExact
<1>8. \A w \in 1 .. n : Linked(w)' = IF w = n THEN Linked(w) \cup T ELSE Linked(w) OBVIOUS
<1>9. ASSUME NEW l \in ListNames, NEW s
      PROVE  s \in Range(lists'[l]) <=> s \in Issued(l) /\ \A w \in s.at .. n : ~Ends(w, l, s)'
  <2>1. CASE s \in Range(lists'[l])
    <3>1. s \in Range(lists[l]) /\ s \notin T BY <2>1
    <3>2. s \in Issued(l) /\ \A w \in s.at .. n : ~Ends(w, l, s) BY <3>1, <1>5
    <3>3. ~Ends(n, l, s)' BY <3>1, <1>6
    <3>. QED BY <2>1, <3>2, <3>3, <1>3, <1>4
  <2>2. CASE s \in Issued(l) /\ \A w \in s.at .. n : ~Ends(w, l, s)'
    <3>1. s \in Range(lists[l]) BY <2>2, <1>2, <1>4, <1>5
    <3>2. s \notin T BY <2>2, <3>1, <1>4, <1>6
    <3>. QED BY <2>2, <3>1, <3>2
  <2>. QED BY <2>1, <2>2
<1>10. ListsExact'
  <2>. SUFFICES ASSUME NEW l \in ListNames
                PROVE  Range(lists'[l]) = {s \in Issued(l) : \A w \in s.at .. n : ~Ends(w, l, s)'}
    BY <1>1 DEF ListsExact
  <2>. QED BY <1>9
<1>11. ASSUME NEW w \in 1 .. n, NEW s
       PROVE  s \in Linked(w)' <=>
                \E l \in ListNames : s \in Issued(l) /\ Ends(w, l, s)' /\ \A v \in s.at .. w - 1 : ~Ends(v, l, s)'
  <2>1. ASSUME NEW l, s \in Issued(l) PROVE \A v \in s.at .. w - 1 : Ends(v, l, s)' <=> Ends(v, l, s)
    <3>1. \A v \in s.at .. w - 1 : v \in 1 .. n - 1 BY <1>1, <1>4, <2>1
    <3>. QED BY <3>1, <1>3
  <2>2. CASE w # n
    <3>1. w \in 1 .. n - 1 BY <2>2, <1>1
    <3>. QED BY <2>1, <2>2, <3>1, <1>3, <1>7, <1>8
  <2>3. CASE w = n
    <3>1. ASSUME s \in Linked(n)
          PROVE \E l \in ListNames : s \in Issued(l) /\ Ends(w, l, s)' /\ \A v \in s.at .. w - 1 : ~Ends(v, l, s)'
      BY <3>1, <2>1, <2>3, <1>2, <1>7
    <3>2. ASSUME s \in T
          PROVE \E l \in ListNames : s \in Issued(l) /\ Ends(w, l, s)' /\ \A v \in s.at .. w - 1 : ~Ends(v, l, s)'
      <4>1. PICK l \in ListNames : s \in Range(lists[l]) BY <3>2
      <4>2. s \in Issued(l) /\ \A v \in s.at .. n : ~Ends(v, l, s) BY <4>1, <1>5
      <4>3. Ends(w, l, s)' BY <4>1, <3>2, <2>3, <1>6
      <4>4. \A v \in s.at .. n - 1 : v \in s.at .. n BY <4>2, <1>1, <1>4
      <4>. QED BY <4>2, <4>3, <4>4, <2>1, <2>3
    <3>3. ASSUME NEW l \in ListNames, s \in Issued(l), Ends(w, l, s)', \A v \in s.at .. w - 1 : ~Ends(v, l, s)'
          PROVE s \in Linked(n) \cup T
      <4>1. \A v \in s.at .. n - 1 : ~Ends(v, l, s) BY <3>3, <2>1, <2>3
      <4>2. CASE Ends(n, l, s) BY <4>1, <4>2, <3>3, <2>3, <1>7
      <4>3. CASE ~Ends(n, l, s)
        <5>1. \A v \in s.at .. n : v = n \/ v \in s.at .. n - 1 BY <1>1, <1>4, <3>3
        <5>2. s \in Range(lists[l]) BY <5>1, <4>1, <4>3, <3>3, <1>5
        <5>. QED BY <5>2, <3>3, <2>3, <1>6
      <4>. QED BY <4>2, <4>3
    <3>4. Linked(w)' = Linked(n) \cup T BY <2>3, <1>8
    <3>. QED BY <3>1, <3>2, <3>3, <3>4
  <2>. QED BY <2>2, <2>3
<1>12. LinksExact'
  <2>. QED BY <1>1, <1>11 DEF LinksExact
<1>. QED BY <1>10, <1>12

-----------------------------------------------------------------------------
(* What an architecture lists where, and what that makes parallel.         *)
LEMMA OpsOfArch ==
    ASSUME NEW i
    PROVE  /\ Arch = "gfx9" => /\ OpOf(i).list \in {"lgkm", "vm", "flats", "empty_list"}
                               /\ OpOf(i).list = "flats" => {"lgkm", "vm"} \subseteq OpOf(i).parallel
           /\ Arch = "gfx10" => /\ OpOf(i).list \in {"lgkm", "vm", "vs", "flat_load", "flat_stor", "empty_list"}
                                /\ OpOf(i).list = "flat_load" => {"lgkm", "vm"} \subseteq OpOf(i).parallel
                                /\ OpOf(i).list = "flat_stor" => "vs" \in OpOf(i).parallel
           /\ Arch = "gfx12" => /\ OpOf(i).list \in {"ds", "exp", "km", "load", "store", "bvh", "tensor", "async",
                                                      "flat_load", "flat_stor", "empty_list"}
                                /\ OpOf(i).list = "flat_load" => {"ds", "load"} \subseteq OpOf(i).parallel
                                /\ OpOf(i).list = "flat_stor" => "store" \in OpOf(i).parallel
<1>. DEFINE P9(op) == /\ op.list \in {"lgkm", "vm", "flats", "empty_list"}
                      /\ op.list = "flats" => {"lgkm", "vm"} \subseteq op.parallel
            P10(op) == /\ op.list \in {"lgkm", "vm", "vs", "flat_load", "flat_stor", "empty_list"}
                       /\ op.list = "flat_load" => {"lgkm", "vm"} \subseteq op.parallel
                       /\ op.list = "flat_stor" => "vs" \in op.parallel
            P12(op) == /\ op.list \in {"ds", "exp", "km", "load", "store", "bvh", "tensor", "async",
                                       "flat_load", "flat_stor", "empty_list"}
                       /\ op.list = "flat_load" => {"ds", "load"} \subseteq op.parallel
                       /\ op.list = "flat_stor" => "store" \in op.parallel
<1>1. P9(NotMem) /\ P10(NotMem) /\ P12(NotMem) BY DEF NotMem, Op
<1>2. \A k \in DOMAIN Gfx9 : P9(Gfx9[k]) BY DEF Gfx9, Op
<1>3. \A k \in DOMAIN Gfx10 : P10(Gfx10[k]) BY DEF Gfx10, Op
<1>4. \A k \in DOMAIN Gfx12 : P12(Gfx12[k]) BY DEF Gfx12, Op
<1>5. /\ Arch = "gfx9" => Operations[Arch] = Gfx9
      /\ Arch = "gfx10" => Operations[Arch] = Gfx10
      /\ Arch = "gfx12" => Operations[Arch] = Gfx12
  BY DEF Operations
<1>6. /\ Arch = "gfx9" => P9(OpOf(i))
      /\ Arch = "gfx10" => P10(OpOf(i))
      /\ Arch = "gfx12" => P12(OpOf(i))
  <2>. HIDE DEF P9, P10, P12
  <2>. QED BY <1>1, <1>2, <1>3, <1>4, <1>5 DEF OpOf
<1>. QED BY <1>6

LEMMA Archs == Arch \in {"gfx9", "gfx10", "gfx12"}
BY DEF Arch

LEMMA HandledOfArch ==
    /\ Arch = "gfx9" => Range(Handled[Arch]) = {"lgkm", "vm"}
    /\ Arch = "gfx10" => /\ Range(Handled[Arch]) = {"vs", "vm", "lgkm"}
                         /\ RankOf("vm") < RankOf("lgkm")
    /\ Arch = "gfx12" => /\ Range(Handled[Arch]) = {"bvh", "exp", "sample", "km", "store", "load", "tensor", "async", "ds", "idle"}
                         /\ RankOf("load") < RankOf("ds")
<1>1. CASE Arch = "gfx9" BY <1>1 DEF Handled, Range
<1>2. CASE Arch = "gfx10"
  <2>1. Handled[Arch] = <<"vs", "vm", "lgkm">> BY <1>2 DEF Handled
  <2>2. Range(Handled[Arch]) = {"vs", "vm", "lgkm"} BY <2>1 DEF Range
  <2>3. RankOf("vm") = 2 /\ RankOf("lgkm") = 3 BY <2>1 DEF RankOf
  <2>. QED BY <1>2, <2>2, <2>3
<1>3. CASE Arch = "gfx12"
  <2>1. Handled[Arch] = <<"bvh", "exp", "sample", "km", "store", "load", "tensor", "async", "ds", "idle">>
    BY <1>3 DEF Handled
  <2>2. Range(Handled[Arch]) = {"bvh", "exp", "sample", "km", "store", "load", "tensor", "async", "ds", "idle"}
    BY <2>1 DEF Range
  <2>3. RankOf("load") = 6 /\ RankOf("ds") = 9 BY <2>1 DEF RankOf
  <2>. QED BY <1>3, <2>2, <2>3
<1>. QED BY <1>1, <1>2, <1>3, Archs

(* The last token while it handles its counters.                           *)
LEMMA CurrentWait ==
    ASSUME WaitInv, AwaitedHandled, NEW n, n = Len(executed), NEW c \in awaited
    PROVE  /\ n \in Nat \ {0} /\ n \in Waits /\ n \notin Mem
           /\ Names(n, c) /\ ~Passed(n, c)
           /\ c # "idle" => /\ ~Names(n, "idle") /\ "idle" \notin awaited /\ c \in Counters
                            /\ Wanted(c) = Extract(InstAt(n), c) /\ Wanted(c) \in Nat
                            /\ ForZero(n, c) <=> Wanted(c) = 0
           /\ c = "idle" => awaited = {"idle"} /\ \A d : Names(n, d) => d = "idle"
<1>1. /\ executed \in Seq(Nat) /\ executed # <<>> /\ program \in Programs
      /\ executed[n] \in DOMAIN program.code /\ IsWait(InstAt(n)) /\ awaited \subseteq InstAt(n).counters
  BY DEF WaitInv, WaitTypeOK, AwaitedNamed
<1>2. n \in Nat \ {0} /\ n \in DOMAIN executed BY <1>1
<1>3. n \in Waits /\ n \notin Mem BY <1>1, <1>2 DEF Waits, Mem
<1>4. Names(n, c) BY <1>1, <1>3 DEF Names, AwaitedHandled
<1>5. ~Passed(n, c) BY <1>2 DEF Passed
<1>6. "idle" \in InstAt(n).counters => InstAt(n).counters = {"idle"}
  BY <1>1, ProgramsAssumption DEF ProgramsAssumption, InstAt
<1>7. ASSUME c # "idle"
      PROVE  /\ ~Names(n, "idle") /\ "idle" \notin awaited /\ c \in Counters
             /\ Wanted(c) = Extract(InstAt(n), c) /\ Wanted(c) \in Nat
             /\ ForZero(n, c) <=> Wanted(c) = 0
  <2>1. "idle" \notin InstAt(n).counters BY <1>1, <1>6, <1>7
  <2>2. ~Names(n, "idle") /\ "idle" \notin awaited BY <1>1, <2>1 DEF Names
  <2>3. c \in Counters BY <1>7 DEF WaitInv, WaitTypeOK
  <2>4. Wanted(c) = Extract(InstAt(n), c) BY DEF Wanted
  <2>5. Wanted(c) \in Nat BY <1>7, WantedFact DEF WaitInv
  <2>. QED BY <1>4, <2>2, <2>3, <2>4, <2>5 DEF ForZero
<1>8. ASSUME c = "idle" PROVE awaited = {"idle"} /\ \A d : Names(n, d) => d = "idle"
  <2>1. InstAt(n).counters = {"idle"} BY <1>1, <1>6, <1>8
  <2>. QED BY <1>1, <1>8, <2>1 DEF Names
<1>. QED BY <1>2, <1>3, <1>4, <1>5, <1>7, <1>8

LEMMA CounterDecides ==
    ASSUME WaitInv, AwaitedHandled, OrderExact, NEW n, n = Len(executed), NEW c \in awaited, c # "idle"
    PROVE  /\ ordering[c] = "parallel" <=> Unordered(n, c)
           /\ Decides(n, c) <=> Wanted(c) = 0 \/ ordering[c] = "sequential"
<1>1. /\ n \in Nat \ {0} /\ n \notin Mem /\ Names(n, c) /\ ~Passed(n, c) /\ c \in Counters
      /\ ForZero(n, c) <=> Wanted(c) = 0
  BY CurrentWait
<1>2. \A p \in Mem : p \in 1 .. n
  <2>1. executed \in Seq(Nat) BY DEF WaitInv, WaitTypeOK
  <2>. QED BY <2>1 DEF Mem
<1>3. \A p \in Mem : p < n BY <1>1, <1>2
<1>4. \A p \in Mem : \A z \in p .. n - 1 : z \in p .. n /\ Passed(z, c)
  <2>. SUFFICES ASSUME NEW p \in Mem, NEW z \in p .. n - 1 PROVE z \in p .. n /\ z < n
    BY DEF Passed
  <2>. QED BY <1>1, <1>2
<1>5. \A p \in Mem : \A z \in p .. n : z = n \/ z \in p .. n - 1 BY <1>1, <1>2
<1>6. ordering[c] = "parallel" <=> Unordered(n, c)
  <2>1. ordering[c] = "parallel" <=>
            \E p \in Mem : /\ c \in OpOf(InstAt(p)).parallel
                           /\ \A z \in p .. n : ~(ForZero(z, c) /\ Passed(z, c))
    BY <1>1 DEF OrderExact
  <2>2. \A p \in Mem : (\A z \in p .. n : ~(ForZero(z, c) /\ Passed(z, c))) <=> \A z \in p .. n - 1 : ~ForZero(z, c)
    BY <1>1, <1>4, <1>5
  <2>. QED BY <2>1, <2>2, <1>3 DEF Unordered
<1>7. ordering[c] \in {"sequential", "parallel"} BY <1>1 DEF WaitInv, WaitTypeOK
<1>. QED BY <1>1, <1>6, <1>7 DEF Decides

-----------------------------------------------------------------------------
(* The slots of c issued after a listed one are those listed after it.     *)
LEMMA LaterCount ==
    ASSUME WaitInv, ListsExact, ListsSorted, awaited # {}, NEW n, n = Len(executed),
           NEW c \in Counters, NEW i \in 1 .. Len(lists[c])
    PROVE  Cardinality(Later(n, c, lists[c][i])) = Len(lists[c]) - i
<1>. DEFINE q == lists[c]
            m == Len(lists[c])
            s == lists[c][i]
            f == [j \in i + 1 .. m |-> q[j]]
            L == Later(n, c, s)
<1>1. /\ c \in ListNames /\ q \in Seq(Slot) /\ IsInjective(q)
      /\ m \in Nat /\ DOMAIN q = 1 .. m /\ i \in 1 .. m
  BY DEF ListNames, WaitInv, WaitTypeOK, ListsApart
<1>2. \A t \in Range(q) : t \in Issued(c) /\ t \in Slot /\ t.at < n
  BY <1>1, SlotSeq DEF ListsExact, WaitInv, ListedBefore
<1>3. /\ \A j, k \in 1 .. m : j < k => Before(q[j], q[k])
      /\ \A j \in 1 .. m : \A t \in Issued(c) : Before(q[j], t) => t \in Range(q)
  BY <1>1 DEF ListsSorted, Range
<1>4. \A j \in 1 .. m : q[j] \in Range(q) BY <1>1 DEF Range
<1>5. \A t : t \in L <=> t \in Issued(c) /\ t.at < n /\ (t.at > s.at \/ (t.at = s.at /\ t.slot > s.slot))
  BY DEF Later
<1>. HIDE DEF q, m, s, L
<1>6. s = q[i] /\ s \in Slot BY <1>1, <1>2, <1>4 DEF s, q
<1>7. \A t \in Slot : (t.at > s.at \/ (t.at = s.at /\ t.slot > s.slot)) <=> Before(s, t)
  BY <1>6 DEF Slot, Before
<1>8. \A t \in Slot : ~Before(t, t) /\ (Before(s, t) => ~Before(t, s)) BY <1>6 DEF Slot, Before
<1>9. \A j \in i + 1 .. m : q[j] \in L
  <2>. SUFFICES ASSUME NEW j \in i + 1 .. m PROVE q[j] \in L
    OBVIOUS
  <2>1. j \in 1 .. m /\ i < j BY <1>1
  <2>2. Before(s, q[j]) BY <2>1, <1>1, <1>3, <1>6
  <2>. QED BY <2>1, <2>2, <1>2, <1>4, <1>5, <1>7
<1>10. \A t \in L : \E j \in i + 1 .. m : q[j] = t
  <2>. SUFFICES ASSUME NEW t \in L PROVE \E j \in i + 1 .. m : q[j] = t
    OBVIOUS
  <2>1. t \in Slot
    <3>1. t \in Issued(c) /\ executed \in Seq(Nat) BY <1>5 DEF WaitInv, WaitTypeOK
    <3>. QED BY <3>1, IssuedAt
  <2>2. t \in Issued(c) /\ Before(s, t) BY <2>1, <1>5, <1>7
  <2>3. t \in Range(q) BY <2>2, <1>1, <1>3, <1>6
  <2>4. PICK j \in 1 .. m : q[j] = t BY <2>3, <1>1 DEF Range
  <2>5. j # i BY <2>1, <2>2, <2>4, <1>6, <1>8
  <2>6. ~(j < i) BY <2>1, <2>2, <2>4, <1>1, <1>3, <1>6, <1>8
  <2>7. j \in i + 1 .. m BY <2>4, <2>5, <2>6, <1>1
  <2>. QED BY <2>4, <2>7
<1>11. f \in Bijection(i + 1 .. m, L)
  <2>1. \A j, k \in i + 1 .. m : q[j] = q[k] => j = k BY <1>1 DEF IsInjective
  <2>2. f \in Injection(i + 1 .. m, L) BY <2>1, <1>9 DEF Injection, IsInjective
  <2>3. f \in Surjection(i + 1 .. m, L) BY <1>9, <1>10 DEF Surjection
  <2>. QED BY <2>2, <2>3 DEF Bijection
<1>12. IsFiniteSet(i + 1 .. m) /\ Cardinality(i + 1 .. m) = m - i
  <2>1. i + 1 \in Int /\ m \in Int BY <1>1
  <2>2. IsFiniteSet(i + 1 .. m) /\ Cardinality(i + 1 .. m) = IF i + 1 > m THEN 0 ELSE m - (i + 1) + 1
    BY <2>1, FS_Interval
  <2>. QED BY <2>2, <1>1
<1>13. ExistsBijection(i + 1 .. m, L) BY <1>11 DEF ExistsBijection
<1>14. Cardinality(L) = m - i BY <1>12, <1>13, FS_Bijection
<1>. QED BY <1>14 DEF L, s, m, q

(* The oldest of the list are taken; n are left, the ones issued last.     *)
LEMMA TakenIs ==
    ASSUME NEW s \in Seq(Slot), IsInjective(s), NEW n \in Nat
    PROVE  /\ \A i \in 1 .. Len(s) : s[i] \in Range(Taken(s, n)) <=> n <= Len(s) - i
           /\ Range(Rest(s, n)) = Range(s) \ Range(Taken(s, n))
<1>0. Len(s) \in Nat /\ DOMAIN s = 1 .. Len(s) OBVIOUS
<1>1. CASE n >= Len(s)
  <2>1. Rest(s, n) = s /\ Range(Taken(s, n)) = {} BY <1>1, NoSlots DEF Taken, Rest
  <2>2. \A i \in 1 .. Len(s) : ~(n <= Len(s) - i) BY <1>0, <1>1
  <2>. QED BY <2>1, <2>2
<1>2. CASE n < Len(s)
  <2>. DEFINE k == Len(s) - n
              u == SubSeq(s, 1, k)
              v == SubSeq(s, k + 1, Len(s))
  <2>1. k \in 1 .. Len(s) BY <1>2
  <2>2. Taken(s, n) = u /\ Rest(s, n) = v BY <1>2 DEF Taken, Rest
  <2>3. DOMAIN u = 1 .. k /\ \A i \in 1 .. k : u[i] = s[i] BY <2>1
  <2>4. DOMAIN v = 1 .. n /\ \A i \in 1 .. n : v[i] = s[k + i] BY <2>1
  <2>5. \A i \in 1 .. n : k + i \in 1 .. Len(s) /\ ~(k + i <= k) BY <2>1, <1>0
  <2>6. \A i \in 1 .. Len(s) : /\ i <= k <=> n <= Len(s) - i
                               /\ i <= k <=> i \in 1 .. k
                               /\ i > k => i - k \in 1 .. n /\ k + (i - k) = i
    BY <2>1, <1>0
  <2>. HIDE DEF u, v, k
  <2>7. \A i, j \in 1 .. Len(s) : s[i] = s[j] => i = j BY <1>0 DEF IsInjective
  <2>8. Range(u) = {s[i] : i \in 1 .. k} BY <2>3 DEF Range
  <2>9. Range(v) = {s[k + i] : i \in 1 .. n} BY <2>4 DEF Range
  <2>10. \A i \in 1 .. k : i \in 1 .. Len(s) BY <2>1, <1>0
  <2>11. ASSUME NEW i \in 1 .. Len(s) PROVE s[i] \in Range(u) <=> i <= k
    BY <2>6, <2>7, <2>8, <2>10
  <2>12. Range(v) = Range(s) \ Range(u)
    <3>1. ASSUME NEW i \in 1 .. n PROVE s[k + i] \in Range(s) \ Range(u)
      BY <2>5, <2>11, <1>0 DEF Range
    <3>2. ASSUME NEW i \in 1 .. Len(s), s[i] \notin Range(u) PROVE s[i] \in Range(v)
      <4>1. ~(i <= k) BY <2>11, <3>2
      <4>2. i - k \in 1 .. n /\ k + (i - k) = i BY <4>1, <2>1, <2>6, <1>0
      <4>. QED BY <4>2, <2>9
    <3>. QED BY <3>1, <3>2, <2>9, <1>0 DEF Range
  <2>. QED BY <2>2, <2>6, <2>11, <2>12
<1>. QED BY <1>0, <1>1, <1>2

(* A connection is appended.                                               *)
LEMMA LinkedMore ==
    ASSUME WaitTypeOK, NEW e, mem_unroll' = Append(mem_unroll, e)
    PROVE  \A w : Linked(w)' = IF w = e.wait THEN Linked(w) \cup Range(e.sources) ELSE Linked(w)
<1>. DEFINE m == Len(mem_unroll)
<1>1. /\ m \in Nat /\ DOMAIN mem_unroll = 1 .. m
      /\ DOMAIN mem_unroll' = 1 .. m + 1
      /\ \A f \in 1 .. m : mem_unroll'[f] = mem_unroll[f]
      /\ mem_unroll'[m + 1] = e
  BY DEF WaitTypeOK
<1>. HIDE DEF m
<1>2. 1 .. m + 1 = (1 .. m) \cup {m + 1} BY <1>1
<1>. SUFFICES ASSUME NEW w
              PROVE  Linked(w)' = IF w = e.wait THEN Linked(w) \cup Range(e.sources) ELSE Linked(w)
  OBVIOUS
<1>3. ASSUME NEW s
      PROVE  s \in Linked(w) <=> \E f \in 1 .. m : mem_unroll[f].wait = w /\ s \in Range(mem_unroll[f].sources)
  BY <1>1 DEF Linked
<1>4. ASSUME NEW s
      PROVE  s \in Linked(w)' <=> \E f \in 1 .. m + 1 : mem_unroll'[f].wait = w /\ s \in Range(mem_unroll'[f].sources)
  BY <1>1 DEF Linked
<1>5. ASSUME NEW s
      PROVE  s \in Linked(w)' <=> s \in Linked(w) \/ (e.wait = w /\ s \in Range(e.sources))
  BY <1>1, <1>2, <1>3, <1>4
<1>. QED BY <1>5

-----------------------------------------------------------------------------
(* What is listed was issued before the wait, and no wait has ended it.    *)
LEMMA ListedFacts ==
    ASSUME WaitInv, ListsExact, awaited # {}, NEW n, n = Len(executed),
           NEW l \in ListNames, NEW s \in Range(lists[l])
    PROVE  /\ s \in Issued(l) /\ s \in Slot /\ s.at \in 1 .. n /\ s.at < n
           /\ s.at \in Mem /\ s.at \notin Waits
           /\ OpOf(InstAt(s.at)).list = l
           /\ \A v \in s.at .. n : ~Ends(v, l, s)
           /\ ~Ends(n, l, s)
<1>1. s \in Issued(l) /\ \A v \in s.at .. n : ~Ends(v, l, s) BY DEF ListsExact
<1>2. executed \in Seq(Nat) /\ s.at < n BY DEF WaitInv, WaitTypeOK, ListedBefore
<1>3. s \in Slot /\ s.at \in 1 .. n /\ s.at \in Mem /\ OpOf(InstAt(s.at)).list = l BY <1>1, <1>2, IssuedAt
<1>4. s.at \notin Waits BY <1>3 DEF Mem, Waits
<1>5. n \in s.at .. n
  <2>1. n \in Nat BY <1>2
  <2>. QED BY <2>1, <1>3
<1>. QED BY <1>1, <1>2, <1>3, <1>4, <1>5

(* A FLAT operation is listed while its counters have not been waited for. *)
LEMMA FlatRuns ==
    ASSUME WaitInv, ListsExact, awaited # {}, NEW n, n = Len(executed),
           NEW l \in {"flats", "flat_load", "flat_stor"}, NEW s \in Range(lists[l])
    PROVE  \A z \in s.at .. n :
             /\ l # "flat_stor" => \A c \in LoadCounters : ~(ForZero(z, c) /\ Passed(z, c))
             /\ l = "flat_stor" => \A c \in {"vs", "store"} : ~(ForZero(z, c) /\ Passed(z, c))
<1>0. l \in ListNames BY DEF ListNames, FlatLists
<1>1. /\ s.at \in 1 .. n /\ s.at \notin Waits
      /\ \A v \in s.at .. n : ~Ends(v, l, s)
  BY <1>0, ListedFacts
<1>2. \A c : ~ForZero(s.at, c) BY <1>1 DEF ForZero, Names
<1>3. ASSUME NEW z \in s.at .. n, z # s.at
      PROVE  /\ l # "flat_stor" => ~LoadsEnded(z)
             /\ l = "flat_stor" => ~StoresEnded(z)
  <2>1. s.at < z BY <1>1, <1>3
  <2>. QED BY <2>1, <1>1 DEF Ends
<1>4. ASSUME NEW z \in s.at .. n, z # s.at
      PROVE  /\ l # "flat_stor" => \A c \in LoadCounters : ~(ForZero(z, c) /\ Passed(z, c))
             /\ l = "flat_stor" => \A c \in {"vs", "store"} : ~(ForZero(z, c) /\ Passed(z, c))
  BY <1>3, <1>4 DEF LoadsEnded, StoresEnded
<1>. QED BY <1>2, <1>4

(* A counter that takes FLAT operations is parallel while one is listed.   *)
LEMMA FlatParallel ==
    ASSUME WaitInv, ListsExact, OrderExact, AwaitedHandled, NEW c \in awaited, c # "idle",
           NEW l \in {"flats", "flat_load", "flat_stor"}, NEW s \in Range(lists[l]),
           c \in IF l = "flat_stor" THEN {"vs", "store"} ELSE LoadCounters
    PROVE  ordering[c] = "parallel" /\ l = FlatsOf(c)
<1>. DEFINE n == Len(executed)
<1>0. l \in ListNames BY DEF ListNames, FlatLists
<1>1. s.at \in Mem /\ OpOf(InstAt(s.at)).list = l BY <1>0, ListedFacts
<1>6. \A z \in s.at .. n : ~(ForZero(z, c) /\ Passed(z, c))
  <2>1. \A z \in s.at .. n :
          /\ l # "flat_stor" => \A d \in LoadCounters : ~(ForZero(z, d) /\ Passed(z, d))
          /\ l = "flat_stor" => \A d \in {"vs", "store"} : ~(ForZero(z, d) /\ Passed(z, d))
    BY FlatRuns
  <2>2. CASE l = "flat_stor" BY <2>1, <2>2
  <2>3. CASE l # "flat_stor" BY <2>1, <2>3
  <2>. QED BY <2>2, <2>3
<1>2. c \in Range(Handled[Arch]) /\ c \in Counters BY CurrentWait DEF AwaitedHandled
<1>3. c \in OpOf(InstAt(s.at)).parallel
  <2>1. CASE Arch = "gfx9" BY <2>1, <1>1, <1>2, OpsOfArch, HandledOfArch
  <2>2. CASE Arch = "gfx10" BY <2>2, <1>1, <1>2, OpsOfArch, HandledOfArch DEF LoadCounters
  <2>3. CASE Arch = "gfx12" BY <2>3, <1>1, <1>2, OpsOfArch, HandledOfArch DEF LoadCounters
  <2>. QED BY <2>1, <2>2, <2>3, Archs
<1>4. ordering[c] = "parallel" BY <1>1, <1>2, <1>3, <1>6 DEF OrderExact
<1>5. l = FlatsOf(c)
  <2>1. CASE Arch = "gfx9" BY <2>1, <1>1, OpsOfArch DEF FlatsOf
  <2>2. CASE Arch = "gfx10" BY <2>2, <1>1, <1>2, OpsOfArch, HandledOfArch DEF LoadCounters, FlatsOf
  <2>3. CASE Arch = "gfx12" BY <2>3, <1>1, <1>2, OpsOfArch, HandledOfArch DEF LoadCounters, FlatsOf
  <2>. QED BY <2>1, <2>2, <2>3, Archs
<1>. QED BY <1>4, <1>5

(* What the wait has ended once it has handled one counter more.           *)
LEMMA EndsAfter ==
    ASSUME WaitInv, ListsExact, AwaitedHandled, NEW n, n = Len(executed), NEW c \in awaited, c # "idle",
           executed' = executed, program' = program, awaited' = awaited \ {c},
           NEW l \in ListNames, NEW s \in Range(lists[l])
    PROVE  Ends(n, l, s)' <=>
             \/ l = c /\ Guarantees(n, c, s)
             \/ l \in {"flats", "flat_load"} /\ c \in LoadCounters /\ ForZero(n, c)
             \/ l = "flat_stor" /\ ((c \in {"vs", "store"} /\ ForZero(n, c)) \/ (c \in {"lgkm", "ds"} /\ EndsMore(n, c)))
<1>1. s.at < n /\ ~Ends(n, l, s) BY ListedFacts
<1>2. "idle" \notin awaited /\ c \in Counters /\ n \in Nat \ {0} /\ n \in 1 .. n BY CurrentWait
<1>3. \A d : Passed(n, d)' <=> Passed(n, d) \/ d = c
  BY <1>2 DEF Passed
<1>4. Grows BY HandlingGrows
<1>5. /\ \A d : ForZero(n, d)' <=> ForZero(n, d)
      /\ \A d : EndsMore(n, d)' <=> EndsMore(n, d)
      /\ Guarantees(n, l, s)' <=> Guarantees(n, l, s)
  BY <1>2, <1>4, KeptNames, KeptLinks, KeptGuarantees
<1>6. LoadsEnded(n)' <=> LoadsEnded(n) \/ (c \in LoadCounters /\ ForZero(n, c))
  BY <1>3, <1>5 DEF LoadsEnded, LoadCounters
<1>7. StoresEnded(n)' <=> StoresEnded(n) \/ (c \in {"vs", "store"} /\ ForZero(n, c)) \/ (c \in {"lgkm", "ds"} /\ EndsMore(n, c))
  BY <1>3, <1>5 DEF StoresEnded
<1>8. {"flats", "flat_load", "flat_stor"} \cap Counters = {} BY ListsDisjoint DEF FlatLists
<1>9. Ends(n, l, s)' <=>
        \/ l \in Counters /\ Guarantees(n, l, s) /\ Passed(n, l)'
        \/ l \in {"flats", "flat_load"} /\ LoadsEnded(n)'
        \/ l = "flat_stor" /\ StoresEnded(n)'
  BY <1>1, <1>5 DEF Ends
<1>10. ~(\/ l \in Counters /\ Guarantees(n, l, s) /\ Passed(n, l)
         \/ l \in {"flats", "flat_load"} /\ LoadsEnded(n)
         \/ l = "flat_stor" /\ StoresEnded(n))
  BY <1>1 DEF Ends
<1>11. CASE l \in Counters BY <1>11, <1>2, <1>3, <1>8, <1>9, <1>10
<1>12. CASE l \in {"flats", "flat_load"} BY <1>12, <1>2, <1>6, <1>8, <1>9, <1>10
<1>13. CASE l = "flat_stor" BY <1>13, <1>2, <1>7, <1>8, <1>9, <1>10
<1>14. CASE l = "empty_list" BY <1>14, ListsDisjoint, <1>2, <1>9 DEF FlatLists
<1>. QED BY <1>11, <1>12, <1>13, <1>14 DEF ListNames, FlatLists

(* What the wait takes of a counter's own list.                            *)
LEMMA OwnTaken ==
    ASSUME WaitInv, AwaitedHandled, ListsExact, ListsSorted, NEW n, n = Len(executed),
           NEW c \in awaited, c # "idle", Decides(n, c)
    PROVE  /\ \A s \in Range(lists[c]) : Guarantees(n, c, s) <=> s \in Range(Taken(lists[c], Wanted(c)))
           /\ OwnLinks(n, c) = Range(Taken(lists[c], Wanted(c)))
<1>. DEFINE q == lists[c]
            k == Wanted(c)
<1>1. /\ c \in Counters /\ c \in ListNames /\ ~Names(n, "idle") /\ ~Passed(n, c)
      /\ k = Extract(InstAt(n), c) /\ k \in Nat /\ n \in Nat
  BY CurrentWait DEF ListNames
<1>2. q \in Seq(Slot) /\ IsInjective(q) /\ Len(q) \in Nat /\ DOMAIN q = 1 .. Len(q)
  BY <1>1 DEF WaitInv, WaitTypeOK, ListsApart
<1>3. \A i \in 1 .. Len(q) : q[i] \in Range(q) BY <1>2 DEF Range
<1>4. ASSUME NEW i \in 1 .. Len(q) PROVE Guarantees(n, c, q[i]) <=> q[i] \in Range(Taken(q, k))
  <2>1. q[i].at < n BY <1>1, <1>3, ListedFacts
  <2>2. Cardinality(Later(n, c, q[i])) = Len(q) - i BY <1>1, LaterCount
  <2>3. q[i] \in Range(Taken(q, k)) <=> k <= Len(q) - i
    <3>. HIDE DEF q, k
    <3>. QED BY <1>1, <1>2, TakenIs
  <2>. QED BY <1>1, <2>1, <2>2, <2>3 DEF Guarantees
<1>5. Range(Taken(q, k)) \subseteq Range(q)
  <2>. HIDE DEF q, k
  <2>. QED BY <1>1, <1>2, TakenRest
<1>6. \A s \in Range(q) : Guarantees(n, c, s) <=> s \in Range(Taken(q, k))
  <2>1. \A s \in Range(q) : \E i \in 1 .. Len(q) : q[i] = s BY <1>2 DEF Range
  <2>. HIDE DEF q, k
  <2>. QED BY <2>1, <1>4
<1>7. ASSUME NEW v, v < n, NEW s PROVE Ends(v, c, s) <=> Guarantees(v, c, s)
  <2>1. Passed(v, c) BY <1>7 DEF Passed
  <2>2. c \notin {"flats", "flat_load", "flat_stor"} BY <1>1, ListsDisjoint DEF FlatLists
  <2>3. Guarantees(v, c, s) => s.at < v BY DEF Guarantees
  <2>. QED BY <1>1, <2>1, <2>2, <2>3 DEF Ends
<1>8. ASSUME NEW s \in Range(Taken(q, k)) PROVE s \in OwnLinks(n, c)
  <2>1. s \in Range(q) /\ Guarantees(n, c, s) BY <1>5, <1>6
  <2>2. s \in Issued(c) /\ s.at \in 1 .. n /\ \A v \in s.at .. n : ~Ends(v, c, s) BY <1>1, <2>1, ListedFacts
  <2>3. \A v \in s.at .. n - 1 : v \in s.at .. n /\ v < n BY <1>1, <2>2
  <2>. QED BY <2>1, <2>2, <2>3, <1>7 DEF OwnLinks
<1>9. ASSUME NEW s \in OwnLinks(n, c) PROVE s \in Range(Taken(q, k))
  <2>1. s \in Issued(c) /\ Guarantees(n, c, s) /\ \A v \in s.at .. n - 1 : ~Guarantees(v, c, s)
    BY <1>9 DEF OwnLinks
  <2>2. s.at \in 1 .. n
    <3>1. executed \in Seq(Nat) BY DEF WaitInv, WaitTypeOK
    <3>. QED BY <3>1, <2>1, IssuedAt
  <2>3. \A v \in s.at .. n : v = n \/ (v \in s.at .. n - 1 /\ v < n) BY <1>1, <2>2
  <2>4. ~Ends(n, c, s)
    <3>1. c \notin {"flats", "flat_load", "flat_stor"} BY <1>1, ListsDisjoint DEF FlatLists
    <3>. QED BY <3>1, <1>1 DEF Ends
  <2>5. \A v \in s.at .. n : ~Ends(v, c, s) BY <2>1, <2>3, <2>4, <1>7
  <2>6. s \in Range(q) BY <1>1, <2>1, <2>5 DEF ListsExact
  <2>. QED BY <2>1, <2>6, <1>6
<1>. HIDE DEF q, k
<1>10. OwnLinks(n, c) = Range(Taken(q, k)) BY <1>8, <1>9
<1>. QED BY <1>6, <1>10 DEF q, k

(* A wait on lgkm or ds takes FLAT stores with what else it takes.         *)
LEMMA StoresTaken ==
    ASSUME WaitInv, AwaitedHandled, ListsExact, ListsSorted, OrderExact, NEW n, n = Len(executed),
           NEW c \in awaited, c \in {"lgkm", "ds"}, NextAwaited(c), Decides(n, c), Arch # "gfx9"
    PROVE  EndsMore(n, c) <=> Range(lists["flat_load"]) # {} \/ Range(Taken(lists[c], Wanted(c))) # {}
<1>1. /\ c \in Counters /\ c # "idle" /\ c \in LoadCounters /\ "idle" \notin awaited /\ ~Passed(n, c) /\ n \in Nat
      /\ ForZero(n, c) <=> Wanted(c) = 0
  BY CurrentWait DEF LoadCounters
<1>2. c \in Range(Handled[Arch]) BY DEF AwaitedHandled
<1>3. /\ Arch = "gfx10" => c = "lgkm"
      /\ Arch = "gfx12" => c = "ds"
      /\ Arch \in {"gfx10", "gfx12"}
  BY <1>2, HandledOfArch, Archs
<1>4. "flat_load" \in ListNames BY DEF ListNames, FlatLists
<1>5. ASSUME NEW d \in {"vm", "load"}, ForZero(n, d) PROVE Passed(n, d)
  <2>1. d \in Range(Handled[Arch]) BY <1>5 DEF ForZero, Names
  <2>2. d \notin awaited
    <3>1. RankOf(d) < RankOf(c) BY <2>1, <1>3, HandledOfArch
    <3>2. d \in awaited => RankOf(c) <= RankOf(d) BY DEF NextAwaited
    <3>3. RankOf(c) \in Nat /\ RankOf(d) \in Nat
      <4>1. \A e \in Range(Handled[Arch]) : RankOf(e) \in DOMAIN Handled[Arch] BY DEF Range, RankOf
      <4>2. DOMAIN Handled[Arch] \subseteq Nat BY Archs DEF Handled
      <4>. QED BY <4>1, <4>2, <2>1, <1>2
    <3>. QED BY <3>1, <3>2, <3>3
  <2>. QED BY <2>2, <1>1 DEF Passed
<1>6. \A d \in LoadCounters : ForZero(n, d) => d = c \/ d \in {"vm", "load"}
  BY <1>3, HandledOfArch DEF ForZero, Names, LoadCounters
<1>7. Issued("flats") = {}
  <2>1. ASSUME NEW s \in Issued("flats") PROVE FALSE
    <3>1. OpOf(InstAt(s.at)).list = "flats" BY IssuedFacts
    <3>. QED BY <3>1, <1>3, OpsOfArch
  <2>. QED BY <2>1
<1>8. ASSUME NEW s \in Range(lists["flat_load"])
      PROVE  s \in LoadLinks(n) /\ \A d \in {"vm", "load"} : ~ForZero(n, d)
  <2>1. /\ s \in Issued("flat_load") /\ s.at < n /\ s.at \in 1 .. n
    BY <1>4, ListedFacts
  <2>2. \A z \in s.at .. n : \A d \in LoadCounters : ~(ForZero(z, d) /\ Passed(z, d)) BY FlatRuns
  <2>3. ordering[c] = "parallel" BY <1>1, FlatParallel
  <2>4. ForZero(n, c) BY <2>3, <1>1, CounterDecides
  <2>5. \A z \in s.at .. n - 1 : z \in s.at .. n /\ z < n BY <2>1, <1>1
  <2>6. \A z \in s.at .. n - 1 : \A d \in LoadCounters : ~ForZero(z, d)
    BY <2>2, <2>5 DEF Passed
  <2>7. n \in s.at .. n /\ \A d \in {"vm", "load"} : ~ForZero(n, d)
    <3>1. n \in s.at .. n BY <2>1, <1>1
    <3>2. {"vm", "load"} \subseteq LoadCounters BY DEF LoadCounters
    <3>. QED BY <3>1, <3>2, <2>2, <1>5
  <2>8. s \in LoadLinks(n) BY <2>1, <2>4, <2>6, <1>1 DEF LoadLinks
  <2>. QED BY <2>7, <2>8
<1>9. ASSUME NEW s \in LoadLinks(n), \A d \in {"vm", "load"} : ~ForZero(n, d)
      PROVE  s \in Range(lists["flat_load"])
  <2>1. /\ s \in Issued("flat_load") /\ s.at < n
        /\ \A v \in s.at .. n - 1 : \A d \in LoadCounters : ~ForZero(v, d)
    BY <1>7, <1>9 DEF LoadLinks
  <2>2. s.at \in 1 .. n
    <3>1. executed \in Seq(Nat) BY DEF WaitInv, WaitTypeOK
    <3>. QED BY <3>1, <2>1, IssuedAt
  <2>3. \A v \in s.at .. n : v = n \/ v \in s.at .. n - 1 BY <1>1, <2>2
  <2>4. ~LoadsEnded(n) BY <1>1, <1>6, <1>9 DEF LoadsEnded
  <2>5. \A v \in s.at .. n : ~LoadsEnded(v) BY <2>1, <2>3, <2>4 DEF LoadsEnded
  <2>6. \A v \in s.at .. n : ~Ends(v, "flat_load", s) BY <2>5, ListsDisjoint DEF Ends, FlatLists
  <2>. QED BY <1>4, <2>1, <2>6 DEF ListsExact
<1>10. OwnLinks(n, c) = Range(Taken(lists[c], Wanted(c))) BY <1>1, OwnTaken
<1>. QED BY <1>8, <1>9, <1>10 DEF EndsMore

-----------------------------------------------------------------------------
(* Each way in which a counter is handled ends what it takes.              *)
LEMMA PassExact ==
    ASSUME HistoryInv, NEW c \in awaited, PassCounter(c)
    PROVE  ListsExact' /\ LinksExact'
<1>. USE DEF HistoryInv
<1>. SUFFICES ASSUME NEW n, n = Len(executed) PROVE ListsExact' /\ LinksExact'
  OBVIOUS
<1>1. /\ c # "idle" /\ Wanted(c) # 0 /\ ordering[c] = "parallel"
      /\ awaited' = awaited \ {c} /\ program' = program /\ executed' = executed
      /\ lists' = lists /\ mem_unroll' = mem_unroll
  BY DEF PassCounter
<1>2. ~ForZero(n, c) /\ ~Decides(n, c) BY <1>1, CurrentWait, CounterDecides
<1>3. ~EndsMore(n, c) BY <1>2 DEF EndsMore
<1>4. \A s : ~Guarantees(n, c, s) BY <1>1, <1>2, CurrentWait DEF Guarantees
<1>5. ASSUME NEW l \in ListNames, NEW s \in Range(lists[l]) PROVE ~Ends(n, l, s)'
  BY <1>1, <1>2, <1>3, <1>4, EndsAfter
<1>6. \A w \in 1 .. n : Linked(w)' = Linked(w) BY <1>1 DEF Linked
<1>. HIDE DEF HistoryInv
<1>. SUFFICES ASSUME NEW T, T = {} PROVE ListsExact' /\ LinksExact'
  OBVIOUS
<1>7. /\ \A l \in ListNames : Range(lists'[l]) = Range(lists[l]) \ T
      /\ \A w \in 1 .. n : Linked(w)' = IF w = n THEN Linked(w) \cup T ELSE Linked(w)
      /\ \A l \in ListNames : \A s \in Range(lists[l]) : Ends(n, l, s)' <=> s \in T
      /\ \A s \in T : \E l \in ListNames : s \in Range(lists[l])
      /\ awaited # {} /\ awaited' \subseteq awaited
  BY <1>1, <1>5, <1>6
<1>8. WaitInv /\ ListsExact /\ LinksExact BY DEF HistoryInv
<1>. QED BY <1>1, <1>7, <1>8, SlotsTaken

(* The slots that joining takes, and that they are those that it ends.     *)
Joined(c) ==
    LET first == lists[FlatsOf(c)] \o Taken(lists[c], Wanted(c))
    IN  Range(lists[FlatsOf(c)]) \cup Range(Taken(lists[c], Wanted(c)))
        \cup (IF first = <<>> THEN {} ELSE Range(lists[AlsoOf(c)]))

LEMMA JoinedFacts ==
    ASSUME WaitInv, AwaitedHandled, NEW n, n = Len(executed), NEW c \in awaited, c # "idle", JoinCounter(c)
    PROVE  /\ \A l \in ListNames : Range(lists'[l]) = Range(lists[l]) \ Joined(c)
           /\ \A s \in Joined(c) : \E l \in ListNames : s \in Range(lists[l])
           /\ \A w \in 1 .. n : Linked(w)' = IF w = n THEN Linked(w) \cup Joined(c) ELSE Linked(w)
           /\ \A l \in ListNames : \A s \in Range(lists[l]) :
                 s \in Joined(c) <=>
                    \/ l = FlatsOf(c)
                    \/ l = c /\ s \in Range(Taken(lists[c], Wanted(c)))
                    \/ /\ l = AlsoOf(c)
                       /\ Range(lists[FlatsOf(c)]) # {} \/ Range(Taken(lists[c], Wanted(c))) # {}
<1>. DEFINE k == Wanted(c)
            F == FlatsOf(c)
            A == AlsoOf(c)
            taken == Taken(lists[c], k)
            first == lists[F] \o taken
            joined == IF first = <<>> THEN {F} ELSE {F, A}
            s == first \o lists[A]
            T == Range(lists[F]) \cup Range(taken) \cup (IF first = <<>> THEN {} ELSE Range(lists[A]))
<1>1. lists \in [ListNames -> Seq(Slot)] /\ WaitTypeOK BY DEF WaitInv, WaitTypeOK
<1>2. c \in Counters /\ k \in Nat /\ n \in Nat \ {0} BY CurrentWait
<1>3. /\ F \in FlatLists /\ A \in FlatLists
      /\ F = A => A = "empty_list"
  BY FlatFacts
<1>4. /\ c \in ListNames /\ F \in ListNames /\ A \in ListNames
      /\ c # F /\ c # A /\ "empty_list" \in ListNames
  BY <1>2, <1>3, ListsDisjoint DEF ListNames, FlatLists
<1>5. /\ lists' = [l \in ListNames |->
                     IF l = c THEN Rest(lists[c], k)
                     ELSE IF l \in joined THEN <<>> ELSE lists[l]]
      /\ mem_unroll' = IF first = <<>> THEN mem_unroll
                       ELSE Append(mem_unroll, [wait |-> n, sources |-> s])
  BY DEF JoinCounter
<1>6. Joined(c) = T BY DEF Joined
<1>7. \A l, m \in ListNames : l # m => Range(lists[l]) \cap Range(lists[m]) = {}
  BY DEF WaitInv, ListsApart
<1>8. \A l \in ListNames : lists[l] \in Seq(Slot) /\ IsInjective(lists[l])
  BY <1>1 DEF WaitInv, ListsApart
<1>9. /\ taken \in Seq(Slot) /\ IsInjective(taken) /\ Range(taken) \subseteq Range(lists[c])
  <2>1. lists[c] \in Seq(Slot) /\ IsInjective(lists[c]) BY <1>4, <1>8
  <2>. HIDE DEF k
  <2>. QED BY <2>1, <1>2, TakenRest
<1>10. Range(Rest(lists[c], k)) = Range(lists[c]) \ Range(taken)
  <2>1. lists[c] \in Seq(Slot) /\ IsInjective(lists[c]) BY <1>4, <1>8
  <2>. HIDE DEF k
  <2>. QED BY <2>1, <1>2, TakenIs
<1>11. Range(lists["empty_list"]) = {} BY NoSlots DEF WaitInv
<1>. HIDE DEF F, A, k, taken
<1>12. /\ first \in Seq(Slot) /\ IsInjective(first) /\ Range(first) = Range(lists[F]) \cup Range(taken)
  <2>1. lists[F] \in Seq(Slot) /\ IsInjective(lists[F]) /\ Range(lists[F]) \cap Range(taken) = {}
    BY <1>4, <1>7, <1>8, <1>9
  <2>. QED BY <2>1, <1>9, ConcatSlots
<1>13. /\ s \in Seq(Slot) /\ Range(s) = Range(lists[F]) \cup Range(taken) \cup Range(lists[A])
  <2>1. lists[A] \in Seq(Slot) /\ IsInjective(lists[A]) /\ Range(first) \cap Range(lists[A]) = {}
    <3>1. Range(lists[F]) \cap Range(lists[A]) = {}
      <4>1. CASE F = A BY <4>1, <1>3, <1>11
      <4>2. CASE F # A BY <4>2, <1>4, <1>7
      <4>. QED BY <4>1, <4>2
    <3>2. Range(lists[c]) \cap Range(lists[A]) = {} BY <1>4, <1>7
    <3>. QED BY <3>1, <3>2, <1>4, <1>8, <1>9, <1>12
  <2>2. /\ first \o lists[A] \in Seq(Slot) /\ Range(first \o lists[A]) = Range(first) \cup Range(lists[A])
    <3>. HIDE DEF first
    <3>. QED BY <2>1, <1>12, ConcatSlots
  <2>. QED BY <2>2, <1>12
<1>14. first = <<>> <=> Range(lists[F]) = {} /\ Range(taken) = {}
  <2>1. first = <<>> => Range(first) = {} BY NoSlots
  <2>2. first # <<>> => Range(first) # {}
    <3>. HIDE DEF first
    <3>1. first # <<>> => 1 \in DOMAIN first BY <1>12
    <3>. QED BY <3>1 DEF Range
  <2>. QED BY <2>1, <2>2, <1>12
<1>15. /\ Range(lists'[c]) = Range(lists[c]) \ Range(taken)
       /\ \A l \in ListNames \ {c} : Range(lists'[l]) = IF l \in joined THEN {} ELSE Range(lists[l])
  BY <1>4, <1>5, <1>10, NoSlots
<1>. HIDE DEF first, s
<1>16. ASSUME NEW l \in ListNames PROVE Range(lists'[l]) = Range(lists[l]) \ T
  <2>0. Range(taken) \subseteq Range(lists[c]) BY <1>9
  <2>1. CASE l = c
    <3>1. Range(lists[F]) \cap Range(lists[c]) = {} /\ Range(lists[A]) \cap Range(lists[c]) = {}
      BY <1>4, <1>7
    <3>. QED BY <2>1, <3>1, <1>15
  <2>2. CASE l # c /\ l = F BY <2>2, <1>15
  <2>3. CASE l # c /\ l # F
    <3>1. Range(lists[l]) \cap Range(lists[F]) = {} /\ Range(lists[l]) \cap Range(lists[c]) = {} BY <2>3, <1>4, <1>7
    <3>2. l # A => Range(lists[l]) \cap Range(lists[A]) = {} BY <1>4, <1>7
    <3>. QED BY <2>0, <2>3, <3>1, <3>2, <1>15
  <2>. QED BY <2>1, <2>2, <2>3
<1>17. \A x \in T : \E l \in ListNames : x \in Range(lists[l]) BY <1>4, <1>9
<1>18. ASSUME NEW w \in 1 .. n PROVE Linked(w)' = IF w = n THEN Linked(w) \cup T ELSE Linked(w)
  <2>1. CASE first = <<>>
    <3>1. T = {} BY <2>1, <1>14
    <3>2. mem_unroll' = mem_unroll BY <2>1, <1>5
    <3>3. Linked(w)' = Linked(w) BY <3>2 DEF Linked
    <3>. QED BY <3>1, <3>3
  <2>2. CASE first # <<>>
    <3>1. T = Range(s) BY <2>2, <1>13
    <3>. DEFINE e == [wait |-> n, sources |-> s]
    <3>2. mem_unroll' = Append(mem_unroll, e) /\ e.wait = n /\ e.sources = s BY <2>2, <1>5
    <3>. HIDE DEF e
    <3>3. Linked(w)' = IF w = e.wait THEN Linked(w) \cup Range(e.sources) ELSE Linked(w)
      BY <1>1, <3>2, LinkedMore
    <3>. QED BY <3>1, <3>2, <3>3
  <2>. QED BY <2>1, <2>2
<1>19. ASSUME NEW l \in ListNames, NEW x \in Range(lists[l])
       PROVE  x \in T <=>
                \/ l = F
                \/ l = c /\ x \in Range(taken)
                \/ /\ l = A
                   /\ Range(lists[F]) # {} \/ Range(taken) # {}
  <2>1. x \in Range(lists[F]) <=> l = F BY <1>4, <1>7
  <2>2. x \in Range(lists[A]) <=> l = A BY <1>4, <1>7
  <2>3. x \in Range(taken) <=> l = c /\ x \in Range(taken) BY <1>4, <1>7, <1>9
  <2>. QED BY <2>1, <2>2, <2>3, <1>14
<1>. HIDE DEF T
<1>. QED BY <1>6, <1>16, <1>17, <1>18, <1>19 DEF F, A, taken, k

(* Which FLAT operations a counter takes, where it is handled.             *)
LEMMA FlatsTaken ==
    ASSUME NEW c \in Counters \cap Range(Handled[Arch])
    PROVE  /\ FlatsOf(c) \in {"flats", "flat_load"} => c \in LoadCounters
           /\ FlatsOf(c) = "flat_stor" <=> c \in {"vs", "store"}
           /\ AlsoOf(c) \in {"flat_stor", "empty_list"}
           /\ Arch # "gfx9" => (AlsoOf(c) = "flat_stor" <=> c \in {"lgkm", "ds"})
           /\ Arch # "gfx9" /\ c \in {"lgkm", "ds"} => FlatsOf(c) = "flat_load"
<1>1. CASE Arch = "gfx9"
  <2>1. c \in {"lgkm", "vm"} BY <1>1, HandledOfArch
  <2>. QED BY <1>1, <2>1 DEF FlatsOf, AlsoOf, LoadCounters
<1>2. CASE Arch # "gfx9" BY <1>2 DEF FlatsOf, AlsoOf, LoadCounters
<1>. QED BY <1>1, <1>2

(* Joining takes what the counter ends.                                    *)
LEMMA JoinExact ==
    ASSUME HistoryInv, NEW c \in awaited, JoinCounter(c)
    PROVE  ListsExact' /\ LinksExact'
<1>. SUFFICES ASSUME NEW n, n = Len(executed) PROVE ListsExact' /\ LinksExact'
  OBVIOUS
<1>0. WaitInv /\ AwaitedHandled /\ ListsExact /\ LinksExact /\ OrderExact /\ ListsSorted BY DEF HistoryInv
<1>1. /\ c # "idle"
      /\ NextAwaited(c)
      /\ Wanted(c) = 0 \/ ordering[c] = "sequential"
      /\ awaited' = awaited \ {c} /\ program' = program /\ executed' = executed
  BY DEF JoinCounter
<1>2. /\ Decides(n, c) /\ c \in Counters /\ c \in Range(Handled[Arch])
      /\ ForZero(n, c) <=> Wanted(c) = 0
  BY <1>0, <1>1, CurrentWait, CounterDecides DEF AwaitedHandled
<1>3. /\ \A l \in ListNames : Range(lists'[l]) = Range(lists[l]) \ Joined(c)
      /\ \A s \in Joined(c) : \E l \in ListNames : s \in Range(lists[l])
      /\ \A w \in 1 .. n : Linked(w)' = IF w = n THEN Linked(w) \cup Joined(c) ELSE Linked(w)
      /\ \A l \in ListNames : \A s \in Range(lists[l]) :
            s \in Joined(c) <=>
               \/ l = FlatsOf(c)
               \/ l = c /\ s \in Range(Taken(lists[c], Wanted(c)))
               \/ /\ l = AlsoOf(c)
                  /\ Range(lists[FlatsOf(c)]) # {} \/ Range(Taken(lists[c], Wanted(c))) # {}
  BY <1>0, <1>1, JoinedFacts
<1>4. \A s \in Range(lists[c]) : Guarantees(n, c, s) <=> s \in Range(Taken(lists[c], Wanted(c)))
  BY <1>0, <1>1, <1>2, OwnTaken
<1>5. /\ FlatsOf(c) \in FlatLists /\ AlsoOf(c) \in FlatLists /\ c \notin FlatLists
      /\ FlatLists \cap Counters = {}
  BY <1>2, FlatFacts, ListsDisjoint
<1>6. ASSUME NEW l \in {"flats", "flat_load", "flat_stor"}, NEW s \in Range(lists[l]),
             c \in IF l = "flat_stor" THEN {"vs", "store"} ELSE LoadCounters
      PROVE  l = FlatsOf(c) /\ ForZero(n, c)
  BY <1>0, <1>1, <1>2, <1>6, FlatParallel
<1>7. /\ FlatsOf(c) \in {"flats", "flat_load"} => c \in LoadCounters
      /\ FlatsOf(c) = "flat_stor" <=> c \in {"vs", "store"}
      /\ AlsoOf(c) \in {"flat_stor", "empty_list"}
      /\ Arch # "gfx9" => (AlsoOf(c) = "flat_stor" <=> c \in {"lgkm", "ds"})
      /\ Arch # "gfx9" /\ c \in {"lgkm", "ds"} => FlatsOf(c) = "flat_load"
  BY <1>2, FlatsTaken
<1>8. ASSUME NEW l \in ListNames, NEW s \in Range(lists[l])
      PROVE  Ends(n, l, s)' <=> s \in Joined(c)
  <2>1. Ends(n, l, s)' <=>
          \/ l = c /\ Guarantees(n, c, s)
          \/ l \in {"flats", "flat_load"} /\ c \in LoadCounters /\ ForZero(n, c)
          \/ l = "flat_stor" /\ ((c \in {"vs", "store"} /\ ForZero(n, c)) \/ (c \in {"lgkm", "ds"} /\ EndsMore(n, c)))
    BY <1>0, <1>1, EndsAfter
  <2>2. s \in Joined(c) <=>
          \/ l = FlatsOf(c)
          \/ l = c /\ s \in Range(Taken(lists[c], Wanted(c)))
          \/ /\ l = AlsoOf(c)
             /\ Range(lists[FlatsOf(c)]) # {} \/ Range(Taken(lists[c], Wanted(c))) # {}
    BY <1>3
  <2>3. CASE l \in Counters
    <3>1. l \notin {"flats", "flat_load", "flat_stor"} /\ l # FlatsOf(c) /\ l # AlsoOf(c)
      BY <2>3, <1>5 DEF FlatLists
    <3>. QED BY <2>1, <2>2, <3>1, <1>4
  <2>4. CASE l \in {"flats", "flat_load"}
    <3>1. l # c /\ l # AlsoOf(c) /\ l # "flat_stor" BY <2>4, <1>5, <1>7 DEF FlatLists
    <3>2. l = FlatsOf(c) => c \in LoadCounters BY <2>4, <1>7
    <3>3. c \in LoadCounters => l = FlatsOf(c) /\ ForZero(n, c) BY <2>4, <3>1, <1>6
    <3>. QED BY <2>1, <2>2, <2>4, <3>1, <3>2, <3>3
  <2>5. CASE l = "flat_stor"
    <3>1. l # c /\ l \notin {"flats", "flat_load"} BY <2>5, <1>5 DEF FlatLists
    <3>2. Arch # "gfx9"
      <4>1. OpOf(InstAt(s.at)).list = "flat_stor" BY <2>5, <1>0, ListedFacts
      <4>. QED BY <4>1, OpsOfArch
    <3>3. l = FlatsOf(c) <=> c \in {"vs", "store"} /\ ForZero(n, c)
      <4>1. c \in {"vs", "store"} => ForZero(n, c) BY <2>5, <1>6
      <4>. QED BY <4>1, <2>5, <1>7
    <3>4. l = AlsoOf(c) <=> c \in {"lgkm", "ds"} BY <2>5, <3>2, <1>7
    <3>5. c \in {"lgkm", "ds"} =>
            (EndsMore(n, c) <=> Range(lists[FlatsOf(c)]) # {} \/ Range(Taken(lists[c], Wanted(c))) # {})
      <4>. SUFFICES ASSUME c \in {"lgkm", "ds"}
                    PROVE  EndsMore(n, c) <=> Range(lists[FlatsOf(c)]) # {} \/ Range(Taken(lists[c], Wanted(c))) # {}
        OBVIOUS
      <4>1. FlatsOf(c) = "flat_load" BY <3>2, <1>7
      <4>2. EndsMore(n, c) <=> Range(lists["flat_load"]) # {} \/ Range(Taken(lists[c], Wanted(c))) # {}
        BY <3>2, <1>0, <1>1, <1>2, StoresTaken
      <4>. QED BY <4>1, <4>2
    <3>6. Ends(n, l, s)' <=> (c \in {"vs", "store"} /\ ForZero(n, c)) \/ (c \in {"lgkm", "ds"} /\ EndsMore(n, c))
      BY <2>1, <2>5, <3>1
    <3>7. s \in Joined(c) <=>
            \/ l = FlatsOf(c)
            \/ l = AlsoOf(c) /\ (Range(lists[FlatsOf(c)]) # {} \/ Range(Taken(lists[c], Wanted(c))) # {})
      BY <2>2, <3>1
    <3>. QED BY <3>3, <3>4, <3>5, <3>6, <3>7
  <2>6. CASE l = "empty_list"
    <3>1. Range(lists[l]) = {} BY <2>6, <1>0, NoSlots DEF WaitInv
    <3>. QED BY <3>1
  <2>. QED BY <2>3, <2>4, <2>5, <2>6 DEF ListNames, FlatLists
<1>9. awaited # {} /\ awaited' \subseteq awaited BY <1>1
<1>. QED BY <1>0, <1>1, <1>3, <1>8, <1>9, SlotsTaken

(* s_wait_idle ends what the counters list.                                *)
LEMMA IdleExact ==
    ASSUME HistoryInv, WaitIdle
    PROVE  ListsExact' /\ LinksExact'
<1>. SUFFICES ASSUME NEW n, n = Len(executed) PROVE ListsExact' /\ LinksExact'
  OBVIOUS
<1>0. /\ WaitInv /\ AwaitedHandled /\ ListsExact /\ LinksExact
      /\ WaitTypeOK /\ ListsApart
  BY DEF HistoryInv, WaitInv
<1>1. /\ "idle" \in awaited
      /\ mem_unroll' = Append(mem_unroll, [wait |-> n, sources |-> IdleSources])
      /\ lists' = [l \in ListNames |-> IF l \in Counters THEN <<>> ELSE lists[l]]
      /\ awaited' = awaited \ {"idle"} /\ program' = program /\ executed' = executed
  BY DEF WaitIdle, NextAwaited, IdleSources
<1>2. /\ awaited = {"idle"} /\ awaited' = {}
      /\ n \in Nat \ {0} /\ n \in 1 .. n
      /\ Names(n, "idle") /\ \A d : Names(n, d) => d = "idle"
  BY <1>0, <1>1, CurrentWait
<1>3. Arch = "gfx12" BY <1>0, <1>1, Archs, HandledOfArch DEF AwaitedHandled
<1>4. ASSUME NEW l \in {"lgkm", "vm", "vs"} PROVE Range(lists[l]) = {}
  <2>1. l \in ListNames BY DEF ListNames, Counters
  <2>2. \A s \in Range(lists[l]) : OpOf(InstAt(s.at)).list = l BY <1>0, <1>1, <2>1, ListedFacts
  <2>3. \A s \in Range(lists[l]) : OpOf(InstAt(s.at)).list # l BY <1>3, OpsOfArch
  <2>. QED BY <2>2, <2>3
<1>. SUFFICES ASSUME NEW T, T = Range(IdleSources) PROVE ListsExact' /\ LinksExact'
  OBVIOUS
<1>5. T = UNION {Range(lists[l]) : l \in IdleNames} BY <1>0, IdleJoins DEF Joins
<1>6. Counters = IdleNames \cup {"lgkm", "vm", "vs"} BY DEF Counters, IdleNames
<1>7. \A l \in Counters : Range(lists[l]) \subseteq T BY <1>4, <1>5, <1>6
<1>8. \A l \in FlatLists : Range(lists[l]) \cap T = {}
  BY <1>0, <1>5, <1>6, ListsDisjoint DEF ListsApart, ListNames
<1>9. \A l \in ListNames : Range(lists'[l]) = Range(lists[l]) \ T
  <2>1. \A l \in Counters : Range(lists'[l]) = {} BY <1>1, NoSlots DEF ListNames
  <2>2. \A l \in FlatLists : lists'[l] = lists[l] BY <1>1, ListsDisjoint DEF ListNames
  <2>. QED BY <2>1, <2>2, <1>7, <1>8 DEF ListNames
<1>10. \A s \in T : \E l \in ListNames : s \in Range(lists[l]) BY <1>5, <1>6 DEF ListNames
<1>11. \A w \in 1 .. n : Linked(w)' = IF w = n THEN Linked(w) \cup T ELSE Linked(w)
  <2>. DEFINE e == [wait |-> n, sources |-> IdleSources]
  <2>1. mem_unroll' = Append(mem_unroll, e) /\ e.wait = n /\ Range(e.sources) = T BY <1>1
  <2>. HIDE DEF e
  <2>2. \A w : Linked(w)' = IF w = e.wait THEN Linked(w) \cup Range(e.sources) ELSE Linked(w)
    BY <1>0, <2>1, LinkedMore
  <2>. QED BY <2>1, <2>2
<1>12. Grows /\ awaited # {} /\ awaited' \subseteq awaited BY <1>0, <1>1, HandlingGrows
<1>13. ASSUME NEW l \in ListNames, NEW s \in Range(lists[l])
       PROVE  Ends(n, l, s)' <=> s \in T
  <2>1. s.at < n BY <1>0, <1>1, ListedFacts
  <2>2. /\ \A d : ~ForZero(n, d)' \/ d = "idle"
        /\ \A d : EndsMore(n, d)' => d = "idle"
        /\ Guarantees(n, l, s)' <=> Guarantees(n, l, s)
    BY <1>2, <1>12, KeptNames, KeptLinks, KeptGuarantees DEF ForZero, EndsMore, Decides
  <2>3. Guarantees(n, l, s) BY <2>1, <1>2 DEF Guarantees
  <2>4. \A d : Passed(n, d)' BY <1>2 DEF Passed
  <2>5. ~LoadsEnded(n)' /\ ~StoresEnded(n)' BY <2>2 DEF LoadsEnded, StoresEnded, LoadCounters
  <2>6. Ends(n, l, s)' <=> l \in Counters BY <2>1, <2>2, <2>3, <2>4, <2>5 DEF Ends
  <2>7. CASE l \in Counters BY <2>6, <2>7, <1>7
  <2>8. CASE l \in FlatLists BY <2>6, <2>8, <1>8, ListsDisjoint
  <2>. QED BY <2>7, <2>8 DEF ListNames
<1>. QED BY <1>0, <1>1, <1>9, <1>10, <1>11, <1>12, <1>13, SlotsTaken

(* A wait handles a counter: what remains of the history.                  *)
LEMMA OrderHandled ==
    ASSUME WaitInv, OrderExact, awaited # {}, executed' = executed, program' = program, awaited' \subseteq awaited,
           NEW n, n = Len(executed),
           \A c \in Counters :
              ordering'[c] = IF ForZero(n, c) /\ Passed(n, c)' /\ ~Passed(n, c) THEN "sequential" ELSE ordering[c]
    PROVE  OrderExact'
<1>1. /\ Grows /\ n \in Nat \ {0} /\ n \in 1 .. n /\ Len(executed') = n
      /\ \A w \in 1 .. n : \A c : Passed(w, c) => Passed(w, c)'
      /\ \A w \in 1 .. n - 1 : \A c : Passed(w, c)' => Passed(w, c)
  <2>1. /\ Grows /\ Len(executed) \in Nat \ {0}
        /\ \A w \in 1 .. Len(executed) : \A c : Passed(w, c) => Passed(w, c)'
        /\ \A w \in 1 .. Len(executed) - 1 : \A c : Passed(w, c)' => Passed(w, c)
    BY HandlingGrows
  <2>2. n \in 1 .. n BY <2>1
  <2>. QED BY <2>1, <2>2
<1>2. \A p : p \in Mem' <=> p \in Mem BY DEF Mem, InstAt
<1>3. \A p \in Mem : p \in 1 .. n BY DEF Mem, WaitInv, WaitTypeOK
<1>4. \A p \in 1 .. n : /\ OpOf(InstAt(p))' = OpOf(InstAt(p))
                        /\ \A c : ForZero(p, c)' <=> ForZero(p, c)
  BY <1>1, KeptNames, KeptOps
<1>. SUFFICES ASSUME NEW c \in Counters
              PROVE  (ordering[c] = "parallel")' <=>
                        \E p \in Mem' : /\ c \in OpOf(InstAt(p))'.parallel
                                        /\ \A z \in p .. Len(executed') : ~(ForZero(z, c)' /\ Passed(z, c)')
  BY DEF OrderExact
<1>. DEFINE P(p) == /\ c \in OpOf(InstAt(p)).parallel
                    /\ \A z \in p .. n : ~(ForZero(z, c) /\ Passed(z, c))
            Q(p) == /\ c \in OpOf(InstAt(p))'.parallel
                    /\ \A z \in p .. n : ~(ForZero(z, c)' /\ Passed(z, c)')
<1>5. ordering[c] = "parallel" <=> \E p \in Mem : P(p) BY DEF OrderExact
<1>6. ASSUME NEW p \in Mem
      PROVE  Q(p) <=> P(p) /\ ~(ForZero(n, c) /\ Passed(n, c)' /\ ~Passed(n, c))
  <2>1. p \in 1 .. n /\ \A z \in p .. n : z \in 1 .. n /\ (z = n \/ z \in 1 .. n - 1) BY <1>1, <1>3
  <2>2. n \in p .. n BY <1>1, <2>1
  <2>3. \A z \in p .. n : ForZero(z, c)' <=> ForZero(z, c) BY <2>1, <1>4
  <2>4. OpOf(InstAt(p))' = OpOf(InstAt(p)) BY <2>1, <1>4
  <2>5. \A z \in p .. n : z # n => (Passed(z, c)' <=> Passed(z, c)) BY <2>1, <1>1
  <2>6. Passed(n, c) => Passed(n, c)' BY <1>1
  <2>. QED BY <2>1, <2>2, <2>3, <2>4, <2>5, <2>6
<1>7. (\E p \in Mem : Q(p)) <=> (\E p \in Mem : P(p)) /\ ~(ForZero(n, c) /\ Passed(n, c)' /\ ~Passed(n, c))
  BY <1>6
<1>8. ordering'[c] = "parallel" <=> \E p \in Mem : Q(p) BY <1>5, <1>7
<1>. QED BY <1>1, <1>2, <1>8

(* What is left of a list of slots once the first d are taken.             *)
LEMMA SlotsFrom ==
    ASSUME NEW s \in Seq(Slot), NEW d \in 1 .. Len(s)
    PROVE  /\ DOMAIN SubSeq(s, d + 1, Len(s)) = 1 .. Len(s) - d
           /\ \A i \in 1 .. Len(s) - d : SubSeq(s, d + 1, Len(s))[i] = s[d + i]
<1>. DEFINE v == SubSeq(s, d + 1, Len(s))
<1>1. v \in Seq(Slot) /\ Len(v) = Len(s) - d OBVIOUS
<1>2. \A i \in 1 .. Len(s) - d : v[i] = s[d + i]
  <2>1. \A i \in 1 .. Len(s) - d : v[i] = s[d + 1 + i - 1] OBVIOUS
  <2>. QED BY <2>1
<1>. HIDE DEF v
<1>. QED BY <1>1, <1>2 DEF v

LEMMA RestSorted ==
    ASSUME NEW s \in Seq(Slot), NEW k \in Nat,
           \A i, j \in DOMAIN s : i < j => Before(s[i], s[j])
    PROVE  /\ \A i, j \in DOMAIN Rest(s, k) : i < j => Before(Rest(s, k)[i], Rest(s, k)[j])
           /\ \A x \in Range(Rest(s, k)) : x \in Range(s) /\ \A t \in Range(s) : Before(x, t) => t \in Range(Rest(s, k))
<1>1. CASE k >= Len(s) BY <1>1 DEF Rest
<1>2. CASE k < Len(s)
  <2>. DEFINE d == Len(s) - k
              v == SubSeq(s, d + 1, Len(s))
  <2>1. d \in 1 .. Len(s) /\ Len(s) \in Nat /\ DOMAIN s = 1 .. Len(s) /\ d + k = Len(s) BY <1>2
  <2>2. Rest(s, k) = v BY <1>2 DEF Rest
  <2>3. DOMAIN v = 1 .. k /\ \A i \in 1 .. k : v[i] = s[d + i]
    <3>1. Len(s) - d = k BY <2>1
    <3>. HIDE DEF d
    <3>2. /\ DOMAIN v = 1 .. Len(s) - d
          /\ \A i \in 1 .. Len(s) - d : v[i] = s[d + i]
      BY <2>1, SlotsFrom
    <3>. HIDE DEF v
    <3>. QED BY <3>1, <3>2
  <2>. HIDE DEF v, d
  <2>4. \A i \in 1 .. k : d + i \in DOMAIN s BY <2>1
  <2>5. \A i, j \in DOMAIN v : i < j => Before(v[i], v[j])
    <3>. SUFFICES ASSUME NEW i \in 1 .. k, NEW j \in 1 .. k, i < j PROVE Before(v[i], v[j])
      BY <2>3
    <3>1. d + i < d + j BY <2>1
    <3>. QED BY <3>1, <2>3, <2>4
  <2>6. ASSUME NEW i \in 1 .. k, NEW t \in Range(s), Before(v[i], t)
        PROVE  t \in Range(v)
    <3>1. PICK j \in 1 .. Len(s) : t = s[j] BY <2>1 DEF Range
    <3>2. d + i \in 1 .. Len(s) /\ v[i] = s[d + i] BY <2>1, <2>3, <2>4
    <3>3. s[j] \in Slot /\ s[d + i] \in Slot BY <3>2, <2>1
    <3>4. Before(s[d + i], s[j]) BY <2>6, <3>1, <3>2
    <3>5. ~Before(s[j], s[d + i]) /\ s[j] # s[d + i] BY <3>3, <3>4 DEF Before, Slot
    <3>6. ~(j < d + i) /\ j # d + i BY <3>2, <3>5, <2>1
    <3>7. j - d \in 1 .. k /\ d + (j - d) = j BY <3>2, <3>6, <2>1
    <3>. QED BY <3>1, <3>7, <2>3 DEF Range
  <2>7. ASSUME NEW x \in Range(v)
        PROVE  x \in Range(s) /\ \A t \in Range(s) : Before(x, t) => t \in Range(v)
    <3>1. PICK i \in 1 .. k : x = v[i] BY <2>3 DEF Range
    <3>2. v[i] = s[d + i] /\ d + i \in DOMAIN s BY <2>3, <2>4
    <3>. QED BY <3>1, <3>2, <2>6 DEF Range
  <2>. QED BY <2>2, <2>5, <2>7
<1>. QED BY <1>1, <1>2

LEMMA SortedHandled ==
    ASSUME WaitInv, ListsSorted, awaited # {}, executed' = executed, program' = program, awaited' \subseteq awaited,
           \A c \in Counters : \E k \in Nat : lists'[c] = Rest(lists[c], k)
    PROVE  ListsSorted'
<1>1. \A l : Issued(l)' = Issued(l) BY HandlingGrows
<1>. SUFFICES ASSUME NEW c \in Counters
              PROVE  /\ \A i, j \in DOMAIN lists'[c] : i < j => Before(lists'[c][i], lists'[c][j])
                     /\ \A s \in Range(lists'[c]) : \A t \in Issued(c)' : Before(s, t) => t \in Range(lists'[c])
  BY DEF ListsSorted
<1>2. PICK k \in Nat : lists'[c] = Rest(lists[c], k) OBVIOUS
<1>3. /\ \A i, j \in DOMAIN lists[c] : i < j => Before(lists[c][i], lists[c][j])
      /\ \A s \in Range(lists[c]) : \A t \in Issued(c) : Before(s, t) => t \in Range(lists[c])
  BY DEF ListsSorted
<1>4. lists[c] \in Seq(Slot) BY DEF WaitInv, WaitTypeOK, ListNames
<1>5. /\ \A i, j \in DOMAIN Rest(lists[c], k) : i < j => Before(Rest(lists[c], k)[i], Rest(lists[c], k)[j])
      /\ \A x \in Range(Rest(lists[c], k)) :
            x \in Range(lists[c]) /\ \A t \in Range(lists[c]) : Before(x, t) => t \in Range(Rest(lists[c], k))
  BY <1>3, <1>4, RestSorted
<1>. QED BY <1>1, <1>2, <1>3, <1>5

LEMMA EmptyHandled ==
    ASSUME WaitInv, OnlyIdleEmpty, executed' = executed, program' = program,
           \/ mem_unroll' = mem_unroll
           \/ \E e : /\ mem_unroll' = Append(mem_unroll, e)
                     /\ e.sources # <<>> \/ Names(e.wait, "idle")
    PROVE  OnlyIdleEmpty'
<1>1. \A w, c : Names(w, c)' <=> Names(w, c) BY DEF Names, Waits, InstAt, Arch
<1>2. CASE mem_unroll' = mem_unroll BY <1>1, <1>2 DEF OnlyIdleEmpty
<1>3. ASSUME NEW e, mem_unroll' = Append(mem_unroll, e), e.sources # <<>> \/ Names(e.wait, "idle")
      PROVE  OnlyIdleEmpty'
  <2>. DEFINE m == Len(mem_unroll)
  <2>1. /\ m \in Nat /\ DOMAIN mem_unroll = 1 .. m
        /\ DOMAIN mem_unroll' = 1 .. m + 1
        /\ \A f \in 1 .. m : mem_unroll'[f] = mem_unroll[f]
        /\ mem_unroll'[m + 1] = e
    BY <1>3 DEF WaitInv, WaitTypeOK
  <2>. HIDE DEF m
  <2>2. \A f \in DOMAIN mem_unroll' : f \in 1 .. m \/ f = m + 1 BY <2>1
  <2>. QED BY <1>1, <1>3, <2>1, <2>2 DEF OnlyIdleEmpty
<1>. QED BY <1>2, <1>3

-----------------------------------------------------------------------------
LEMMA PassHistory == ASSUME HistoryInv, NEW c \in awaited, PassCounter(c) PROVE HistoryInv'
<1>. SUFFICES ASSUME NEW n, n = Len(executed) PROVE HistoryInv'
  OBVIOUS
<1>0. WaitInv /\ AwaitedHandled /\ OrderExact /\ ListsSorted /\ OnlyIdleEmpty BY DEF HistoryInv
<1>1. /\ c # "idle" /\ Wanted(c) # 0 /\ ordering[c] = "parallel"
      /\ awaited' = awaited \ {c} /\ program' = program /\ executed' = executed
      /\ ordering' = ordering /\ lists' = lists /\ mem_unroll' = mem_unroll
  BY DEF PassCounter
<1>2. /\ ~ForZero(n, c) /\ "idle" \notin awaited
  BY <1>0, <1>1, CurrentWait
<1>3. WaitInv' BY <1>0, PassStep
<1>4. ListsExact' /\ LinksExact' BY PassExact
<1>5. AwaitedHandled' BY <1>0, <1>1 DEF AwaitedHandled, Arch
<1>6. OrderExact'
  <2>1. \A d \in Counters : ~(ForZero(n, d) /\ Passed(n, d)' /\ ~Passed(n, d))
    BY <1>1, <1>2 DEF Passed
  <2>. QED BY <1>0, <1>1, <2>1, OrderHandled
<1>7. ListsSorted' BY <1>0, <1>1, HandlingGrows DEF ListsSorted
<1>8. OnlyIdleEmpty' BY <1>0, <1>1, EmptyHandled
<1>. QED BY <1>3, <1>4, <1>5, <1>6, <1>7, <1>8 DEF HistoryInv

LEMMA RestOfAll == ASSUME NEW s \in Seq(Slot) PROVE Rest(s, Len(s)) = s /\ Rest(s, 0) = <<>>
BY DEF Rest

LEMMA JoinHistory == ASSUME HistoryInv, NEW c \in awaited, JoinCounter(c) PROVE HistoryInv'
<1>. SUFFICES ASSUME NEW n, n = Len(executed) PROVE HistoryInv'
  OBVIOUS
<1>0. WaitInv /\ AwaitedHandled /\ OrderExact /\ ListsSorted /\ OnlyIdleEmpty BY DEF HistoryInv
<1>1. /\ c # "idle"
      /\ awaited' = awaited \ {c} /\ program' = program /\ executed' = executed
      /\ ordering' = IF Wanted(c) = 0 THEN [ordering EXCEPT ![c] = "sequential"] ELSE ordering
  BY DEF JoinCounter
<1>2. /\ ForZero(n, c) <=> Wanted(c) = 0
      /\ "idle" \notin awaited /\ c \in Counters /\ Wanted(c) \in Nat
      /\ n \in Nat
  BY <1>0, <1>1, CurrentWait
<1>3. WaitInv' BY <1>0, JoinStep
<1>4. ListsExact' /\ LinksExact' BY JoinExact
<1>5. AwaitedHandled' BY <1>0, <1>1 DEF AwaitedHandled, Arch
<1>6. OrderExact'
  <2>1. \A d : (Passed(n, d)' /\ ~Passed(n, d)) <=> d = c
    BY <1>1, <1>2 DEF Passed
  <2>2. ordering \in [Counters -> {"sequential", "parallel"}] BY <1>0 DEF WaitInv, WaitTypeOK
  <2>3. \A d \in Counters :
           ordering'[d] = IF ForZero(n, d) /\ Passed(n, d)' /\ ~Passed(n, d) THEN "sequential" ELSE ordering[d]
    BY <1>1, <1>2, <2>1, <2>2
  <2>. QED BY <1>0, <1>1, <2>3, OrderHandled
<1>7. ListsSorted'
  <2>. SUFFICES ASSUME NEW d \in Counters PROVE \E k \in Nat : lists'[d] = Rest(lists[d], k)
    BY <1>0, <1>1, SortedHandled
  <2>1. lists[d] \in Seq(Slot) /\ d \in ListNames /\ d \notin FlatLists
    BY <1>0, ListsDisjoint DEF WaitInv, WaitTypeOK, ListNames
  <2>2. FlatsOf(c) # d /\ AlsoOf(c) # d BY <2>1, FlatFacts
  <2>3. d = c => lists'[d] = Rest(lists[d], Wanted(c)) BY <2>1 DEF JoinCounter
  <2>4. d # c => lists'[d] = lists[d] BY <2>1, <2>2 DEF JoinCounter
  <2>5. Len(lists[d]) \in Nat /\ Rest(lists[d], Len(lists[d])) = lists[d] BY <2>1, RestOfAll
  <2>. QED BY <1>2, <2>3, <2>4, <2>5
<1>8. OnlyIdleEmpty'
  <2>. DEFINE first == lists[FlatsOf(c)] \o Taken(lists[c], Wanted(c))
              e == [wait |-> Len(executed), sources |-> first \o lists[AlsoOf(c)]]
  <2>1. mem_unroll' = IF first = <<>> THEN mem_unroll ELSE Append(mem_unroll, e) BY DEF JoinCounter
  <2>2. first # <<>> => e.sources # <<>>
    <3>1. /\ lists[FlatsOf(c)] \in Seq(Slot) /\ lists[AlsoOf(c)] \in Seq(Slot)
          /\ lists[c] \in Seq(Slot) /\ IsInjective(lists[c])
      BY <1>0, <1>2, FlatFacts DEF WaitInv, WaitTypeOK, ListNames, ListsApart
    <3>2. Taken(lists[c], Wanted(c)) \in Seq(Slot) BY <1>2, <3>1, TakenRest
    <3>3. first \in Seq(Slot) BY <3>1, <3>2
    <3>. HIDE DEF first
    <3>4. first # <<>> => first \o lists[AlsoOf(c)] # <<>> BY <3>1, <3>3
    <3>. QED BY <3>4
  <2>. HIDE DEF first, e
  <2>. QED BY <1>0, <1>1, <2>1, <2>2, EmptyHandled
<1>. QED BY <1>3, <1>4, <1>5, <1>6, <1>7, <1>8 DEF HistoryInv

LEMMA IdleHistory == ASSUME HistoryInv, WaitIdle PROVE HistoryInv'
<1>. SUFFICES ASSUME NEW n, n = Len(executed) PROVE HistoryInv'
  OBVIOUS
<1>0. WaitInv /\ AwaitedHandled /\ OrderExact /\ ListsSorted /\ OnlyIdleEmpty BY DEF HistoryInv
<1>1. /\ "idle" \in awaited
      /\ awaited' = awaited \ {"idle"} /\ program' = program /\ executed' = executed
      /\ mem_unroll' = Append(mem_unroll, [wait |-> n, sources |-> IdleSources])
      /\ lists' = [l \in ListNames |-> IF l \in Counters THEN <<>> ELSE lists[l]]
      /\ ordering' = ordering
  BY DEF WaitIdle, NextAwaited, IdleSources
<1>2. Names(n, "idle") /\ \A d : Names(n, d) => d = "idle" BY <1>0, <1>1, CurrentWait
<1>3. WaitInv' BY <1>0, IdleStep
<1>4. ListsExact' /\ LinksExact' BY IdleExact
<1>5. AwaitedHandled' BY <1>0, <1>1 DEF AwaitedHandled, Arch
<1>6. OrderExact'
  <2>1. \A d \in Counters : ~ForZero(n, d) BY <1>2, ListsDisjoint DEF ForZero, ListNames
  <2>. QED BY <1>0, <1>1, <2>1, OrderHandled
<1>7. ListsSorted'
  <2>1. \A d \in Counters : lists'[d] = Rest(lists[d], 0)
    BY <1>0, <1>1, RestOfAll DEF ListNames, WaitInv, WaitTypeOK
  <2>. QED BY <1>0, <1>1, <2>1, SortedHandled
<1>8. OnlyIdleEmpty'
  <2>. DEFINE e == [wait |-> n, sources |-> IdleSources]
  <2>1. mem_unroll' = Append(mem_unroll, e) /\ e.wait = n BY <1>1
  <2>. HIDE DEF e
  <2>. QED BY <1>0, <1>1, <1>2, <2>1, EmptyHandled
<1>. QED BY <1>3, <1>4, <1>5, <1>6, <1>7, <1>8 DEF HistoryInv

-----------------------------------------------------------------------------
(* A token is read: nothing of what was said changes.                      *)
LEMMA TokenGrows ==
    ASSUME WaitInv, NEW line \in DOMAIN program.code, NextToken(line), NEW n, n = Len(executed)
    PROVE  /\ Grows /\ n \in Nat /\ Len(executed') = n + 1
           /\ InstAt(n + 1)' = program.code[line]
           /\ n + 1 \in Mem' <=> ~IsWait(program.code[line])
           /\ n + 1 \in Waits' <=> IsWait(program.code[line])
           /\ \A w \in 1 .. n : \A c : Passed(w, c) /\ Passed(w, c)'
           /\ \A w \in 1 .. n : \A l, s : Ends(w, l, s)' <=> Ends(w, l, s)
<1>1. /\ awaited = {} /\ program' = program /\ executed' = Append(executed, line)
      /\ executed \in Seq(Nat)
  BY DEF NextToken, WaitInv, WaitTypeOK
<1>2. /\ Grows /\ n \in Nat /\ Len(executed') = n + 1 /\ DOMAIN executed' = 1 .. n + 1
      /\ executed'[n + 1] = line
  BY <1>1 DEF Grows
<1>3. InstAt(n + 1)' = program.code[line] BY <1>1, <1>2 DEF InstAt
<1>4. n + 1 \in DOMAIN executed' BY <1>2
<1>5. /\ n + 1 \in Mem' <=> ~IsWait(program.code[line])
      /\ n + 1 \in Waits' <=> IsWait(program.code[line])
  <2>. DEFINE m == n + 1
  <2>1. m \in DOMAIN executed' /\ program'.code[executed'[m]] = program.code[line]
    BY <1>1, <1>2, <1>4
  <2>. HIDE DEF m
  <2>2. /\ m \in Mem' <=> ~IsWait(program.code[line])
        /\ m \in Waits' <=> IsWait(program.code[line])
    BY <2>1 DEF Mem, Waits, InstAt, IsWait
  <2>. QED BY <2>2 DEF m
<1>6. \A w \in 1 .. n : \A c : Passed(w, c) BY <1>1 DEF Passed
<1>7. \A w \in 1 .. n : \A c : Passed(w, c)' BY <1>2 DEF Passed
<1>8. \A w \in 1 .. n : \A l, s : Ends(w, l, s)' <=> Ends(w, l, s) BY <1>2, <1>6, <1>7, KeptEnds
<1>. QED BY <1>2, <1>3, <1>5, <1>6, <1>7, <1>8

(* The place of the token that was read.                                   *)
LEMMA TokenPlace ==
    ASSUME WaitInv, NEW line \in DOMAIN program.code, NextToken(line),
           NEW n, n = Len(executed), NEW m, m = n + 1
    PROVE  /\ n \in Nat /\ m \in Nat \ {0} /\ InstAt(m)' = program.code[line]
           /\ m \in Mem' <=> ~IsWait(program.code[line])
           /\ m \in Waits' <=> IsWait(program.code[line])
<1>1. n \in Nat BY TokenGrows
<1>2. m \in Nat \ {0} BY <1>1
<1>3. /\ InstAt(n + 1)' = program.code[line]
      /\ n + 1 \in Mem' <=> ~IsWait(program.code[line])
      /\ n + 1 \in Waits' <=> IsWait(program.code[line])
  BY TokenGrows
<1>4. /\ InstAt(m)' = program.code[line]
      /\ m \in Mem' <=> ~IsWait(program.code[line])
      /\ m \in Waits' <=> IsWait(program.code[line])
  BY <1>3, Zenon
<1>. QED BY <1>1, <1>2, <1>4

(* A wait that has handled none of what it names has ended nothing.        *)
LEMMA NothingEnded ==
    ASSUME NEW w, w = Len(executed'), \A c : Names(w, c)' => c \in awaited', w \in Nat
    PROVE  /\ \A c : ~(ForZero(w, c)' /\ Passed(w, c)')
           /\ \A l, s : ~Ends(w, l, s)'
<1>1. /\ \A c : Names(w, c)' => ~Passed(w, c)'
      /\ Names(w, "idle")' => \A c : ~Passed(w, c)'
  BY DEF Passed
<1>2. \A c : ~(ForZero(w, c)' /\ Passed(w, c)') BY <1>1 DEF ForZero
<1>3. \A c : ~(EndsMore(w, c)' /\ Passed(w, c)') BY <1>1 DEF EndsMore, Decides, ForZero
<1>4. \A l, s : ~(Guarantees(w, l, s)' /\ Passed(w, l)') BY <1>1 DEF Guarantees, Decides, ForZero
<1>5. ~LoadsEnded(w)' /\ ~StoresEnded(w)' BY <1>2, <1>3 DEF LoadsEnded, StoresEnded
<1>6. \A l, s : ~Ends(w, l, s)' BY <1>4, <1>5 DEF Ends
<1>. QED BY <1>2, <1>6

(* What is new is listed, and nothing is linked.                           *)
LEMMA TokenExact ==
    ASSUME HistoryInv, NEW line \in DOMAIN program.code, NextToken(line), NEW n, n = Len(executed),
           mem_unroll' = mem_unroll,
           \A c : Names(n + 1, c)' => c \in awaited',
           \A l \in ListNames : Range(lists'[l]) = Range(lists[l]) \cup {s \in Issued(l)' : s.at = n + 1},
           \A c \in Counters :
              ordering'[c] = "parallel" <=>
                 ordering[c] = "parallel" \/ (n + 1 \in Mem' /\ c \in OpOf(InstAt(n + 1))'.parallel)
    PROVE  ListsExact' /\ LinksExact' /\ OrderExact' /\ OnlyIdleEmpty'
<1>. SUFFICES ASSUME NEW m, m = n + 1 PROVE ListsExact' /\ LinksExact' /\ OrderExact' /\ OnlyIdleEmpty'
  OBVIOUS
<1>0. WaitInv /\ ListsExact /\ LinksExact /\ OrderExact /\ OnlyIdleEmpty BY DEF HistoryInv
<1>1. /\ Grows /\ n \in Nat /\ m \in Nat /\ Len(executed') = m
      /\ \A w \in 1 .. n : \A c : Passed(w, c) /\ Passed(w, c)'
      /\ \A w \in 1 .. n : \A l, s : Ends(w, l, s)' <=> Ends(w, l, s)
  BY <1>0, TokenGrows
<1>2. /\ \A c : ~(ForZero(m, c)' /\ Passed(m, c)')
      /\ \A l, s : ~Ends(m, l, s)'
  BY <1>1, NothingEnded
<1>3. ASSUME NEW l, NEW s
      PROVE  /\ s \in Issued(l) => s \in Issued(l)' /\ s.at \in 1 .. n
             /\ s \in Issued(l)' => s.at \in 1 .. m /\ (s.at = m \/ (s.at \in 1 .. n /\ s \in Issued(l)))
  <2>1. s \in Issued(l) => s.at \in 1 .. n BY IssuedAt, <1>0 DEF WaitInv, WaitTypeOK
  <2>2. s \in Issued(l)' => s.at \in 1 .. m
    <3>1. s \in Issued(l)' => s.at \in Mem' BY IssuedFactsLater
    <3>. QED BY <3>1, <1>1 DEF Mem, Grows
  <2>3. s.at \in 1 .. n => (s \in Issued(l)' <=> s \in Issued(l)) BY <1>1, KeptIssued
  <2>4. s.at \in 1 .. m => s.at = m \/ s.at \in 1 .. n BY <1>1
  <2>. QED BY <2>1, <2>2, <2>3, <2>4
<1>4. ListsExact'
  <2>. SUFFICES ASSUME NEW l \in ListNames, NEW s
                PROVE  s \in Range(lists'[l]) <=> s \in Issued(l)' /\ \A w \in s.at .. m : ~Ends(w, l, s)'
    BY <1>1 DEF ListsExact
  <2>1. s \in Range(lists[l]) <=> s \in Issued(l) /\ \A w \in s.at .. n : ~Ends(w, l, s)
    BY <1>0 DEF ListsExact
  <2>2. s \in Range(lists'[l]) <=> s \in Range(lists[l]) \/ (s \in Issued(l)' /\ s.at = m) OBVIOUS
  <2>3. CASE s \in Issued(l)' /\ s.at = m
    <3>1. \A w \in s.at .. m : w = m BY <2>3, <1>1
    <3>. QED BY <2>2, <2>3, <3>1, <1>2
  <2>4. CASE s \in Issued(l)' /\ s.at # m
    <3>1. s.at \in 1 .. n /\ s \in Issued(l) BY <2>4, <1>3
    <3>2. \A w \in s.at .. m : w = m \/ (w \in s.at .. n /\ w \in 1 .. n) BY <3>1, <1>1
    <3>3. \A w \in s.at .. n : w \in s.at .. m /\ w \in 1 .. n BY <3>1, <1>1
    <3>. QED BY <2>1, <2>2, <2>4, <3>1, <3>2, <3>3, <1>1, <1>2
  <2>5. CASE s \notin Issued(l)' BY <2>1, <2>2, <2>5, <1>3
  <2>. QED BY <2>3, <2>4, <2>5
<1>5. LinksExact'
  <2>. SUFFICES ASSUME NEW w \in 1 .. m, NEW s
                PROVE  s \in Linked(w)' <=>
                         \E l \in ListNames : /\ s \in Issued(l)' /\ Ends(w, l, s)'
                                              /\ \A v \in s.at .. w - 1 : ~Ends(v, l, s)'
    BY <1>1 DEF LinksExact
  <2>1. Linked(w)' = Linked(w) BY DEF Linked
  <2>2. CASE w = m
    <3>1. \A f \in DOMAIN mem_unroll : mem_unroll[f].wait # m
      BY <1>0, <1>1, ConnectionFact DEF WaitsBefore, WaitInv
    <3>2. Linked(w) = {} BY <2>2, <3>1 DEF Linked
    <3>. QED BY <2>1, <2>2, <3>2, <1>2
  <2>3. CASE w # m
    <3>1. w \in 1 .. n BY <2>3, <1>1
    <3>2. s \in Linked(w) <=>
             \E l \in ListNames : /\ s \in Issued(l) /\ Ends(w, l, s)
                                  /\ \A v \in s.at .. w - 1 : ~Ends(v, l, s)
      BY <1>0, <3>1 DEF LinksExact
    <3>3. ASSUME NEW l \in ListNames
          PROVE  (/\ s \in Issued(l) /\ Ends(w, l, s)
                  /\ \A v \in s.at .. w - 1 : ~Ends(v, l, s))
                 <=>
                 (/\ s \in Issued(l)' /\ Ends(w, l, s)'
                  /\ \A v \in s.at .. w - 1 : ~Ends(v, l, s)')
      <4>1. Ends(w, l, s)' <=> Ends(w, l, s) BY <3>1, <1>1
      <4>2. Ends(w, l, s) => s.at < w BY DEF Ends
      <4>3. Ends(w, l, s) => (s \in Issued(l)' <=> s \in Issued(l)) BY <4>2, <3>1, <1>1, <1>3
      <4>4. s \in Issued(l) => \A v \in s.at .. w - 1 : v \in 1 .. n BY <3>1, <1>1, <1>3
      <4>5. s \in Issued(l) => \A v \in s.at .. w - 1 : Ends(v, l, s)' <=> Ends(v, l, s) BY <4>4, <1>1
      <4>. QED BY <4>1, <4>3, <4>5
    <3>. QED BY <2>1, <3>2, <3>3
  <2>. QED BY <2>2, <2>3
<1>6. OrderExact'
  <2>. SUFFICES ASSUME NEW c \in Counters
                PROVE  ordering'[c] = "parallel" <=>
                         \E p \in Mem' : /\ c \in OpOf(InstAt(p))'.parallel
                                         /\ \A z \in p .. m : ~(ForZero(z, c)' /\ Passed(z, c)')
    BY <1>1 DEF OrderExact
  <2>1. ordering[c] = "parallel" <=>
          \E p \in Mem : /\ c \in OpOf(InstAt(p)).parallel
                         /\ \A z \in p .. n : ~(ForZero(z, c) /\ Passed(z, c))
    BY <1>0 DEF OrderExact
  <2>2. /\ \A p \in Mem : p \in 1 .. n
        /\ \A p \in Mem' : p \in 1 .. m
    BY <1>1 DEF Mem, Grows
  <2>3. \A p \in 1 .. n : /\ p \in Mem' <=> p \in Mem
                          /\ OpOf(InstAt(p))' = OpOf(InstAt(p))
                          /\ ForZero(p, c)' <=> ForZero(p, c)
    BY <1>1, KeptNames, KeptOps
  <2>4. ASSUME NEW p \in 1 .. n
        PROVE  (\A z \in p .. m : ~(ForZero(z, c)' /\ Passed(z, c)'))
                 <=> (\A z \in p .. n : ~(ForZero(z, c) /\ Passed(z, c)))
    <3>1. \A z \in p .. m : z = m \/ (z \in p .. n /\ z \in 1 .. n) BY <1>1
    <3>2. \A z \in p .. n : z \in p .. m /\ z \in 1 .. n BY <1>1
    <3>. QED BY <3>1, <3>2, <2>3, <1>1, <1>2
  <2>5. \A z \in m .. m : ~(ForZero(z, c)' /\ Passed(z, c)') BY <1>1, <1>2
  <2>6. ordering'[c] = "parallel" <=>
          ordering[c] = "parallel" \/ (m \in Mem' /\ c \in OpOf(InstAt(m))'.parallel)
    OBVIOUS
  <2>7. \A p \in 1 .. m : p = m \/ p \in 1 .. n BY <1>1
  <2>. QED BY <2>1, <2>2, <2>3, <2>4, <2>5, <2>6, <2>7
<1>7. OnlyIdleEmpty'
  <2>1. \A w, c : Names(w, c) => w \in 1 .. n BY <1>1 DEF Names, Waits, Grows
  <2>2. \A w, c : Names(w, c) => Names(w, c)' BY <2>1, <1>1, KeptNames
  <2>. QED BY <2>2, <1>0 DEF OnlyIdleEmpty
<1>. QED BY <1>4, <1>5, <1>6, <1>7

(* r is s with the slots of op, executed at p, appended.                   *)
Appends(r, s, op, p) ==
    /\ DOMAIN r = 1 .. Len(s) + op.slots
    /\ \A i \in 1 .. Len(s) : r[i] = s[i]
    /\ \A i \in Len(s) + 1 .. Len(s) + op.slots : r[i] = [at |-> p, slot |-> i - Len(s)]

LEMMA PushExact ==
    ASSUME NEW s \in Seq(Slot), NEW op, op.slots \in {0, 1, 2}, NEW p \in Nat \ {0}
    PROVE  Appends(Push(s, op, p), s, op, p)
<1>. SUFFICES ASSUME NEW r, r = Push(s, op, p)
              PROVE  /\ DOMAIN r = 1 .. Len(s) + op.slots
                     /\ \A i \in 1 .. Len(s) : r[i] = s[i]
                     /\ \A i \in Len(s) + 1 .. Len(s) + op.slots : r[i] = [at |-> p, slot |-> i - Len(s)]
  BY DEF Appends
<1>. DEFINE x == [at |-> p, slot |-> 1]
            y == [at |-> p, slot |-> 2]
<1>0. x \in Slot /\ y \in Slot BY DEF Slot
<1>1. CASE op.slots = 0 BY <1>1 DEF Push
<1>2. CASE op.slots = 1
  <2>1. r = Append(s, x) BY <1>2 DEF Push
  <2>2. Len(s) + 1 .. Len(s) + 1 = {Len(s) + 1} /\ Len(s) + 1 - Len(s) = 1 OBVIOUS
  <2>3. DOMAIN r = 1 .. Len(s) + 1 /\ r[Len(s) + 1] = x /\ \A i \in 1 .. Len(s) : r[i] = s[i] BY <2>1, <1>0
  <2>. QED BY <1>2, <2>2, <2>3
<1>3. CASE op.slots = 2
  <2>. DEFINE t == Append(s, x)
  <2>1. r = Append(t, y) BY <1>3 DEF Push
  <2>2. Len(s) + 1 .. Len(s) + 2 = {Len(s) + 1, Len(s) + 2} /\ Len(s) + 1 - Len(s) = 1 /\ Len(s) + 2 - Len(s) = 2
    OBVIOUS
  <2>3. /\ t \in Seq(Slot) /\ Len(t) = Len(s) + 1 /\ t[Len(s) + 1] = x
        /\ \A i \in 1 .. Len(s) : t[i] = s[i]
    BY <1>0
  <2>. HIDE DEF t
  <2>4. /\ DOMAIN r = 1 .. Len(s) + 2 /\ r[Len(s) + 2] = y
        /\ \A i \in 1 .. Len(s) + 1 : r[i] = t[i]
    BY <2>1, <2>3, <1>0
  <2>5. r[Len(s) + 1] = x /\ \A i \in 1 .. Len(s) : r[i] = s[i] BY <2>3, <2>4
  <2>. QED BY <1>3, <2>2, <2>4, <2>5
<1>. QED BY <1>1, <1>2, <1>3

LEMMA PushedRange ==
    ASSUME NEW s \in Seq(Slot), NEW op, op.slots \in {0, 1, 2}, NEW p, NEW r, Appends(r, s, op, p)
    PROVE  \A x : x \in Range(r) <=> \/ x \in Range(s)
                                     \/ \E j \in 1 .. op.slots : x = [at |-> p, slot |-> j]
<1>. SUFFICES ASSUME NEW k, k = op.slots
              PROVE  \A x : x \in Range(r) <=> \/ x \in Range(s)
                                               \/ \E j \in 1 .. k : x = [at |-> p, slot |-> j]
  OBVIOUS
<1>0. /\ k \in {0, 1, 2}
      /\ DOMAIN r = 1 .. Len(s) + k
      /\ \A i \in 1 .. Len(s) : r[i] = s[i]
      /\ \A i \in Len(s) + 1 .. Len(s) + k : r[i] = [at |-> p, slot |-> i - Len(s)]
  BY DEF Appends
<1>1. Len(s) \in Nat /\ DOMAIN s = 1 .. Len(s) OBVIOUS
<1>2. \A i \in DOMAIN r : i \in 1 .. Len(s) \/ (i \in Len(s) + 1 .. Len(s) + k /\ i - Len(s) \in 1 .. k) BY <1>0, <1>1
<1>3. \A i \in 1 .. Len(s) : i \in DOMAIN r BY <1>0, <1>1
<1>4. \A j \in 1 .. k : j + Len(s) \in DOMAIN r /\ r[j + Len(s)] = [at |-> p, slot |-> j]
  <2>. SUFFICES ASSUME NEW j \in 1 .. k PROVE j + Len(s) \in DOMAIN r /\ r[j + Len(s)] = [at |-> p, slot |-> j]
    OBVIOUS
  <2>1. j + Len(s) \in Len(s) + 1 .. Len(s) + k /\ (j + Len(s)) - Len(s) = j BY <1>0, <1>1
  <2>. QED BY <2>1, <1>0, <1>1
<1>. SUFFICES ASSUME NEW x
              PROVE  x \in Range(r) <=> \/ x \in Range(s)
                                      \/ \E j \in 1 .. k : x = [at |-> p, slot |-> j]
  OBVIOUS
<1>5. ASSUME x \in Range(r)
      PROVE  x \in Range(s) \/ \E j \in 1 .. k : x = [at |-> p, slot |-> j]
  <2>1. PICK i \in DOMAIN r : x = r[i] BY <1>5 DEF Range
  <2>2. CASE i \in 1 .. Len(s) BY <2>1, <2>2, <1>0, <1>1 DEF Range
  <2>3. CASE i \in Len(s) + 1 .. Len(s) + k /\ i - Len(s) \in 1 .. k BY <2>1, <2>3, <1>0
  <2>. QED BY <2>2, <2>3, <1>2
<1>6. ASSUME x \in Range(s) PROVE x \in Range(r) BY <1>0, <1>1, <1>3, <1>6 DEF Range
<1>7. ASSUME NEW j \in 1 .. k, x = [at |-> p, slot |-> j] PROVE x \in Range(r)
  <2>1. j + Len(s) \in DOMAIN r /\ r[j + Len(s)] = x BY <1>4, <1>7
  <2>. QED BY <2>1 DEF Range
<1>. QED BY <1>5, <1>6, <1>7

(* New slots are appended in order.                                        *)
LEMMA TokenSorted ==
    ASSUME WaitInv, ListsSorted, NEW line \in DOMAIN program.code, NextToken(line), NEW m, m = Len(executed) + 1,
           \A l \in ListNames : Range(lists'[l]) = Range(lists[l]) \cup {s \in Issued(l)' : s.at = m},
           \A c \in Counters :
              /\ DOMAIN lists[c] \subseteq DOMAIN lists'[c]
              /\ \A i \in DOMAIN lists[c] : lists'[c][i] = lists[c][i]
              /\ \A i \in DOMAIN lists'[c] \ DOMAIN lists[c] :
                    i > Len(lists[c]) /\ i \in Nat /\ lists'[c][i] = [at |-> m, slot |-> i - Len(lists[c])]
    PROVE  ListsSorted'
<1>0. /\ Grows /\ Len(executed) \in Nat /\ Len(executed') = m
  BY TokenGrows
<1>. SUFFICES ASSUME NEW c \in Counters
              PROVE  /\ \A i, j \in DOMAIN lists'[c] : i < j => Before(lists'[c][i], lists'[c][j])
                     /\ \A s \in Range(lists'[c]) : \A t \in Issued(c)' : Before(s, t) => t \in Range(lists'[c])
  BY DEF ListsSorted
<1>1. /\ c \in ListNames /\ lists[c] \in Seq(Slot) /\ Len(lists[c]) \in Nat
      /\ DOMAIN lists[c] = 1 .. Len(lists[c])
  BY DEF WaitInv, WaitTypeOK, ListNames
<1>2. \A x \in Range(lists[c]) : x.at \in Nat /\ x.at < m
  <2>1. \A x \in Range(lists[c]) : x \in Slot BY <1>1 DEF Range
  <2>2. \A x \in Range(lists[c]) : x.at <= Len(executed) BY <1>1 DEF WaitInv, ListedBefore
  <2>. QED BY <2>1, <2>2, <1>0 DEF Slot
<1>3. /\ \A i, j \in DOMAIN lists[c] : i < j => Before(lists[c][i], lists[c][j])
      /\ \A s \in Range(lists[c]) : \A t \in Issued(c) : Before(s, t) => t \in Range(lists[c])
  BY DEF ListsSorted
<1>4. \A i \in DOMAIN lists'[c] \ DOMAIN lists[c] :
         /\ i > Len(lists[c]) /\ i \in Nat
         /\ lists'[c][i] = [at |-> m, slot |-> i - Len(lists[c])] /\ lists'[c][i].at = m
  OBVIOUS
<1>5. \A i \in DOMAIN lists[c] : lists'[c][i] = lists[c][i] OBVIOUS
<1>6. ASSUME NEW i \in DOMAIN lists'[c], NEW j \in DOMAIN lists'[c], i < j
      PROVE  Before(lists'[c][i], lists'[c][j])
  <2>1. CASE i \in DOMAIN lists[c] /\ j \in DOMAIN lists[c] BY <2>1, <1>3, <1>6
  <2>2. CASE i \in DOMAIN lists[c] /\ j \notin DOMAIN lists[c]
    <3>1. lists[c][i] \in Range(lists[c]) BY <2>2 DEF Range
    <3>2. lists'[c][i].at < m /\ lists'[c][j].at = m BY <2>2, <3>1, <1>2, <1>4, <1>5
    <3>. QED BY <3>2 DEF Before
  <2>3. CASE i \notin DOMAIN lists[c] /\ j \notin DOMAIN lists[c]
    <3>0. i \in Nat /\ j \in Nat BY <2>3, <1>4
    <3>1. i - Len(lists[c]) < j - Len(lists[c]) BY <3>0, <1>1, <1>6
    <3>2. lists'[c][i] = [at |-> m, slot |-> i - Len(lists[c])] /\ lists'[c][j] = [at |-> m, slot |-> j - Len(lists[c])]
      BY <2>3
    <3>. QED BY <3>1, <3>2 DEF Before
  <2>4. CASE i \notin DOMAIN lists[c] /\ j \in DOMAIN lists[c]
    <3>1. i > Len(lists[c]) /\ i \in Nat BY <2>4, <1>4
    <3>2. j \in 1 .. Len(lists[c]) BY <2>4, <1>1
    <3>. QED BY <3>1, <3>2, <1>1, <1>6
  <2>. QED BY <2>1, <2>2, <2>3, <2>4
<1>7. ASSUME NEW s \in Range(lists'[c]), NEW t \in Issued(c)', Before(s, t)
      PROVE  t \in Range(lists'[c])
  <2>1. CASE t.at = m BY <2>1, <1>1
  <2>2. CASE t.at # m
    <3>1. t.at \in Mem' BY IssuedFactsLater
    <3>2. t.at \in Nat /\ t.at <= Len(executed) BY <3>1, <2>2, <1>0 DEF Mem, Grows
    <3>3. t \in Issued(c) BY <3>2, <1>0, KeptIssued
    <3>4. s.at # m BY <1>0, <1>7, <3>2 DEF Before
    <3>5. s \in Range(lists[c]) BY <3>4, <1>1
    <3>. QED BY <3>3, <3>5, <1>1, <1>3, <1>7
  <2>. QED BY <2>1, <2>2
<1>. QED BY <1>6, <1>7

-----------------------------------------------------------------------------
LEMMA IssueHistory ==
    ASSUME HistoryInv, NEW line \in DOMAIN program.code, IssueOp(line)
    PROVE  HistoryInv'
<1>. SUFFICES ASSUME NEW n, n = Len(executed), NEW m, m = n + 1, NEW op, op = OpOf(program.code[line])
              PROVE  HistoryInv'
  OBVIOUS
<1>0. WaitInv /\ AwaitedHandled /\ ListsSorted BY DEF HistoryInv
<1>1. /\ NextToken(line) /\ ~IsWait(program.code[line])
      /\ awaited' = {} /\ awaited = {} /\ program' = program /\ mem_unroll' = mem_unroll
      /\ lists' = [lists EXCEPT ![op.list] = Push(lists[op.list], op, m)]
      /\ ordering' = [c \in Counters |-> IF c \in op.parallel THEN "parallel" ELSE ordering[c]]
  BY DEF IssueOp, NextToken
<1>2. /\ n \in Nat /\ m \in Nat \ {0} /\ InstAt(m)' = program.code[line]
      /\ m \in Mem' /\ m \notin Waits'
  BY <1>0, <1>1, TokenPlace, Zenon
<1>3. OpOf(InstAt(m))' = op BY <1>1, <1>2 DEF OpOf, Arch
<1>4. op.list \in ListNames /\ op.slots \in {0, 1, 2} BY OpFacts
<1>5. \A l \in ListNames : lists[l] \in Seq(Slot) BY <1>0 DEF WaitInv, WaitTypeOK
<1>6. \A l \in ListNames : lists'[l] = IF l = op.list THEN Push(lists[l], op, m) ELSE lists[l]
  BY <1>0, <1>1 DEF WaitInv, WaitTypeOK
<1>. SUFFICES ASSUME NEW r, r = lists'[op.list], NEW s, s = lists[op.list] PROVE HistoryInv'
  OBVIOUS
<1>6a. Appends(r, s, op, m)
  <2>1. r = Push(s, op, m) /\ s \in Seq(Slot) BY <1>4, <1>5, <1>6
  <2>2. Appends(Push(s, op, m), s, op, m) BY <2>1, <1>2, <1>4, PushExact
  <2>. QED BY <2>1, <2>2
<1>7. /\ DOMAIN r = 1 .. Len(s) + op.slots
      /\ \A i \in 1 .. Len(s) : r[i] = s[i]
      /\ \A i \in Len(s) + 1 .. Len(s) + op.slots : r[i] = [at |-> m, slot |-> i - Len(s)]
  BY <1>6a DEF Appends
<1>8. s \in Seq(Slot) /\ Len(s) \in Nat /\ DOMAIN s = 1 .. Len(s)
  <2>1. s \in Seq(Slot) BY <1>4, <1>5
  <2>. QED BY <2>1
<1>9. \A x : x \in Range(r) <=> \/ x \in Range(s)
                                \/ \E j \in 1 .. op.slots : x = [at |-> m, slot |-> j]
  BY <1>4, <1>8, <1>6a, PushedRange
<1>10. ASSUME NEW l, NEW x
       PROVE  (x \in Issued(l)' /\ x.at = m) <=> (l = op.list /\ \E j \in 1 .. op.slots : x = [at |-> m, slot |-> j])
  <2>1. x \in Issued(l)' <=>
              /\ x = [at |-> x.at, slot |-> x.slot]
              /\ x.at \in Mem' /\ OpOf(InstAt(x.at))'.list = l
              /\ x.slot \in {1, 2} /\ x.slot <= OpOf(InstAt(x.at))'.slots
    BY IssuedFactsLater
  <2>2. \A j : j \in 1 .. op.slots <=> j \in {1, 2} /\ j <= op.slots BY <1>4
  <2>3. ASSUME x \in Issued(l)', x.at = m
        PROVE  l = op.list /\ \E j \in 1 .. op.slots : x = [at |-> m, slot |-> j]
    <3>1. l = op.list /\ x.slot \in 1 .. op.slots /\ x = [at |-> m, slot |-> x.slot]
      BY <2>1, <2>2, <2>3, <1>3
    <3>. QED BY <3>1
  <2>4. ASSUME l = op.list, NEW j \in 1 .. op.slots, x = [at |-> m, slot |-> j]
        PROVE  x \in Issued(l)' /\ x.at = m
    <3>1. x.at = m /\ x.slot = j BY <2>4
    <3>. QED BY <3>1, <2>1, <2>2, <2>4, <1>2, <1>3
  <2>. QED BY <2>3, <2>4
<1>11. \A l \in ListNames : Range(lists'[l]) = Range(lists[l]) \cup {x \in Issued(l)' : x.at = m}
  <2>. SUFFICES ASSUME NEW l \in ListNames, NEW x
                PROVE  x \in Range(lists'[l]) <=> x \in Range(lists[l]) \/ (x \in Issued(l)' /\ x.at = m)
    OBVIOUS
  <2>1. CASE l = op.list BY <2>1, <1>9, <1>10
  <2>2. CASE l # op.list BY <2>2, <1>6, <1>10
  <2>. QED BY <2>1, <2>2
<1>12. WaitInv' BY <1>0, IssueStep DEF HistoryInv
<1>13. AwaitedHandled' BY <1>1 DEF AwaitedHandled
<1>14. ListsExact' /\ LinksExact' /\ OrderExact' /\ OnlyIdleEmpty'
  <2>1. \A c : ~Names(m, c)' BY <1>2 DEF Names
  <2>2. \A c \in Counters :
           ordering'[c] = "parallel" <=> ordering[c] = "parallel" \/ (m \in Mem' /\ c \in OpOf(InstAt(m))'.parallel)
    BY <1>1, <1>2, <1>3
  <2>. QED BY <2>1, <2>2, <1>1, <1>11, TokenExact
<1>15. ListsSorted'
  <2>1. ASSUME NEW c \in Counters
        PROVE  /\ DOMAIN lists[c] \subseteq DOMAIN lists'[c]
               /\ \A i \in DOMAIN lists[c] : lists'[c][i] = lists[c][i]
               /\ \A i \in DOMAIN lists'[c] \ DOMAIN lists[c] :
                     i > Len(lists[c]) /\ i \in Nat /\ lists'[c][i] = [at |-> m, slot |-> i - Len(lists[c])]
    <3>1. CASE c = op.list
      <4>1. 1 .. Len(s) \subseteq 1 .. Len(s) + op.slots BY <1>4, <1>8
      <4>2. \A i \in (1 .. Len(s) + op.slots) \ (1 .. Len(s)) :
               i \in Len(s) + 1 .. Len(s) + op.slots /\ i > Len(s) /\ i \in Nat
        BY <1>4, <1>8
      <4>3. /\ DOMAIN s \subseteq DOMAIN r
            /\ \A i \in DOMAIN s : r[i] = s[i]
            /\ \A i \in DOMAIN r \ DOMAIN s :
                  i > Len(s) /\ i \in Nat /\ r[i] = [at |-> m, slot |-> i - Len(s)]
        BY <4>1, <4>2, <1>7, <1>8
      <4>. QED BY <4>3, <3>1
    <3>2. CASE c # op.list BY <3>2, <1>6 DEF ListNames
    <3>. QED BY <3>1, <3>2
  <2>2. WaitInv /\ ListsSorted /\ NextToken(line) /\ m = Len(executed) + 1 BY <1>0, <1>1
  <2>. HIDE DEF HistoryInv
  <2>. QED BY <2>1, <2>2, <1>11, TokenSorted, Zenon
<1>. QED BY <1>12, <1>13, <1>14, <1>15 DEF HistoryInv

LEMMA BeginHistory ==
    ASSUME HistoryInv, NEW line \in DOMAIN program.code, BeginWait(line)
    PROVE  HistoryInv'
<1>. SUFFICES ASSUME NEW n, n = Len(executed), NEW m, m = n + 1 PROVE HistoryInv'
  OBVIOUS
<1>0. WaitInv /\ AwaitedHandled /\ ListsSorted BY DEF HistoryInv
<1>1. /\ NextToken(line) /\ IsWait(program.code[line])
      /\ awaited' = program.code[line].counters \cap Range(Handled[Arch])
      /\ program' = program /\ mem_unroll' = mem_unroll /\ lists' = lists /\ ordering' = ordering
  BY DEF BeginWait, NextToken
<1>2. /\ n \in Nat /\ m \in Nat \ {0} /\ InstAt(m)' = program.code[line]
      /\ m \notin Mem'
  BY <1>0, <1>1, TokenPlace, Zenon
<1>3. Arch' = Arch BY <1>1 DEF Arch
<1>4. WaitInv' BY <1>0, BeginStep
<1>5. AwaitedHandled' BY <1>1, <1>3 DEF AwaitedHandled
<1>6. \A c : Names(m, c)' => c \in awaited' BY <1>1, <1>2, <1>3 DEF Names
<1>7. ASSUME NEW l PROVE {x \in Issued(l)' : x.at = m} = {}
  <2>1. \A x \in Issued(l)' : x.at \in Mem' BY IssuedFactsLater
  <2>. QED BY <2>1, <1>2
<1>8. \A l \in ListNames : Range(lists'[l]) = Range(lists[l]) \cup {x \in Issued(l)' : x.at = m} BY <1>1, <1>7
<1>9. ListsExact' /\ LinksExact' /\ OrderExact' /\ OnlyIdleEmpty'
  <2>1. \A c \in Counters :
           ordering'[c] = "parallel" <=> ordering[c] = "parallel" \/ (m \in Mem' /\ c \in OpOf(InstAt(m))'.parallel)
    BY <1>1, <1>2
  <2>. QED BY <2>1, <1>1, <1>6, <1>8, TokenExact
<1>10. ListsSorted' BY <1>0, <1>1, <1>8, TokenSorted
<1>. QED BY <1>4, <1>5, <1>9, <1>10 DEF HistoryInv

-----------------------------------------------------------------------------
(* Before a wave is selected nothing is listed or connected.               *)
Unstarted == program = NoProgram => NoProgress
WaitHistoryInv == HistoryInv /\ Unstarted

LEMMA FreshHistory == WaitInv /\ NoProgress => HistoryInv
<1>. SUFFICES ASSUME WaitInv, NoProgress PROVE HistoryInv
  OBVIOUS
<1>1. executed = <<>> /\ awaited = {} /\ mem_unroll = <<>> /\ lists = NoneListed
      /\ \A c \in Counters : ordering[c] # "parallel"
  BY DEF NoProgress
<1>2. Mem = {} /\ Waits = {} /\ Len(executed) = 0 BY <1>1 DEF Mem, Waits
<1>3. \A l, s : s \notin Issued(l) BY <1>2, IssuedFacts
<1>4. \A l \in ListNames : lists[l] = <<>> /\ Range(lists[l]) = {} BY <1>1, NoSlots DEF NoneListed
<1>5. AwaitedHandled BY <1>1 DEF AwaitedHandled
<1>6. ListsExact BY <1>3, <1>4 DEF ListsExact
<1>7. LinksExact BY <1>2 DEF LinksExact
<1>8. OrderExact BY <1>1, <1>2 DEF OrderExact
<1>9. ListsSorted BY <1>3, <1>4 DEF ListsSorted, ListNames
<1>10. OnlyIdleEmpty BY <1>1 DEF OnlyIdleEmpty
<1>. QED BY <1>5, <1>6, <1>7, <1>8, <1>9, <1>10 DEF HistoryInv

LEMMA StutterHistory == ASSUME HistoryInv, UNCHANGED waitVars PROVE HistoryInv'
<1>. USE DEF HistoryInv
<1>1. /\ program' = program /\ executed' = executed /\ ordering' = ordering
      /\ lists' = lists /\ awaited' = awaited /\ mem_unroll' = mem_unroll
  BY DEF waitVars
<1>2. WaitInv' BY NextInvariant
<1>3. AwaitedHandled' BY <1>1 DEF AwaitedHandled, Arch
<1>4. Arch' = Arch /\ (\A w : InstAt(w)' = InstAt(w)) /\ (\A w, c : Passed(w, c)' <=> Passed(w, c))
  BY <1>1 DEF Arch, InstAt, Passed
<1>5. Waits' = Waits /\ Mem' = Mem /\ (\A w : OpOf(InstAt(w))' = OpOf(InstAt(w)))
  BY <1>1, <1>4 DEF Waits, Mem, OpOf
<1>6. (\A l : Issued(l)' = Issued(l)) /\ (\A w, c : Names(w, c)' <=> Names(w, c))
  <2>1. ASSUME NEW l, NEW s PROVE s \in Issued(l)' <=> s \in Issued(l)
    BY <1>5, IssuedFacts, IssuedFactsLater
  <2>2. \A w, c : Names(w, c)' <=> Names(w, c) BY <1>4, <1>5 DEF Names
  <2>. QED BY <2>1, <2>2
<1>7. \A w, c : ForZero(w, c)' <=> ForZero(w, c) BY <1>4, <1>6 DEF ForZero
<1>8. \A w, c : Decides(w, c)' <=> Decides(w, c) BY <1>5, <1>6, <1>7 DEF Decides, Unordered
<1>9. \A w, l, s : Guarantees(w, l, s)' <=> Guarantees(w, l, s)
  <2>1. \A w, c : Extract(InstAt(w), c)' = Extract(InstAt(w), c) BY <1>4 DEF Extract
  <2>2. \A w, c, s : Later(w, c, s)' = Later(w, c, s) BY <1>6 DEF Later
  <2>. QED BY <1>6, <1>8, <2>1, <2>2 DEF Guarantees
<1>10. \A w, c : EndsMore(w, c)' <=> EndsMore(w, c)
  <2>1. \A w, c : OwnLinks(w, c)' = OwnLinks(w, c) BY <1>6, <1>9 DEF OwnLinks
  <2>2. \A w : LoadLinks(w)' = LoadLinks(w) BY <1>6, <1>7 DEF LoadLinks
  <2>. QED BY <1>7, <1>8, <2>1, <2>2 DEF EndsMore
<1>11. \A w, l, s : Ends(w, l, s)' <=> Ends(w, l, s)
  BY <1>4, <1>7, <1>9, <1>10 DEF Ends, LoadsEnded, StoresEnded
<1>12. ListsExact' BY <1>1, <1>6, <1>11 DEF ListsExact
<1>13. LinksExact'
  <2>1. \A w : Linked(w)' = Linked(w) BY <1>1 DEF Linked
  <2>. QED BY <1>1, <1>6, <1>11, <2>1 DEF LinksExact
<1>14. OrderExact' BY <1>1, <1>4, <1>5, <1>7 DEF OrderExact
<1>15. ListsSorted' BY <1>1, <1>6 DEF ListsSorted
<1>16. OnlyIdleEmpty' BY <1>1, <1>6 DEF OnlyIdleEmpty
<1>. QED BY <1>2, <1>3, <1>12, <1>13, <1>14, <1>15, <1>16

LEMMA HistoryInit == WaitInit => WaitHistoryInv
BY InitInvariant, FreshHistory DEF WaitInit, WaitHistoryInv, Unstarted

LEMMA HistoryNext == WaitHistoryInv /\ [WaitNext]_waitVars => WaitHistoryInv'
<1>. SUFFICES ASSUME WaitHistoryInv, [WaitNext]_waitVars PROVE WaitHistoryInv'
  OBVIOUS
<1>0. HistoryInv /\ WaitInv /\ Unstarted BY DEF WaitHistoryInv, HistoryInv
<1>1. ASSUME NEW q \in Programs, SelectWave(q) PROVE WaitHistoryInv'
  <2>1. WaitInv' BY <1>0, <1>1, SelectStep
  <2>2. NoProgress' BY <1>0, <1>1 DEF SelectWave, Unstarted, NoProgress
  <2>3. HistoryInv' BY <2>1, <2>2, FreshHistory, PTL
  <2>. QED BY <2>2, <2>3 DEF WaitHistoryInv, Unstarted
<1>2. CASE ReadToken
  <2>1. PICK line \in DOMAIN program.code : IssueOp(line) \/ BeginWait(line) BY <1>2 DEF ReadToken
  <2>2. HistoryInv' BY <2>1, <1>0, IssueHistory, BeginHistory
  <2>3. program' = program /\ program # NoProgram BY <2>1 DEF IssueOp, BeginWait, NextToken
  <2>. QED BY <2>2, <2>3 DEF WaitHistoryInv, Unstarted
<1>3. CASE HandleCounter
  <2>1. HistoryInv'
    <3>1. ASSUME NEW c \in awaited, PassCounter(c) PROVE HistoryInv' BY <1>0, <3>1, PassHistory
    <3>2. ASSUME NEW c \in awaited, JoinCounter(c) PROVE HistoryInv' BY <1>0, <3>2, JoinHistory
    <3>3. ASSUME WaitIdle PROVE HistoryInv' BY <1>0, <3>3, IdleHistory
    <3>. QED BY <1>3, <3>1, <3>2, <3>3 DEF HandleCounter
  <2>2. awaited # {} /\ program' = program
    BY <1>3 DEF HandleCounter, PassCounter, JoinCounter, WaitIdle, NextAwaited
  <2>3. program # NoProgram
    BY <1>0, <2>2, ProgramsAssumption DEF WaitInv, AwaitedNamed, ProgramsAssumption
  <2>. QED BY <2>1, <2>2, <2>3 DEF WaitHistoryInv, Unstarted
<1>4. CASE EndWaits
  <2>1. WaitInit' BY <1>0, <1>4 DEF EndWaits, WaitInit, NoProgress
  <2>. QED BY <2>1, HistoryInit, PTL
<1>5. CASE UNCHANGED waitVars
  <2>1. HistoryInv' BY <1>0, <1>5, StutterHistory
  <2>2. Unstarted' BY <1>0, <1>5 DEF Unstarted, NoProgress, waitVars
  <2>. QED BY <2>1, <2>2 DEF WaitHistoryInv
<1>. QED BY <1>1, <1>2, <1>3, <1>4, <1>5 DEF WaitNext

(* Between two tokens: what a wait has ended is what it guarantees first.  *)
LEMMA HistoryLinks == HistoryInv => WaitsExact
<1>. SUFFICES ASSUME HistoryInv, awaited = {} PROVE
        /\ \A w \in Waits : Linked(w) = (UNION {OwnLinks(w, c) : c \in Counters}) \cup LoadLinks(w) \cup StoreLinks(w)
        /\ OnlyIdleEmpty
  BY DEF WaitsExact, OnlyIdleEmpty, Linked
<1>0. WaitInv /\ LinksExact BY DEF HistoryInv
<1>1. \A w, c : Passed(w, c) BY DEF Passed
<1>2. /\ executed \in Seq(Nat) /\ DOMAIN executed = 1 .. Len(executed) /\ Len(executed) \in Nat
  BY <1>0 DEF WaitInv, WaitTypeOK
<1>3. ASSUME NEW p \in Mem
      PROVE  /\ p \in 1 .. Len(executed)
             /\ \A c : ~Names(p, c) /\ ~ForZero(p, c) /\ ~Decides(p, c)
             /\ ~EndsStores(p)
  BY <1>2 DEF Mem, Waits, Names, ForZero, Decides, EndsStores
<1>4. \A w : /\ StoresEnded(w) <=> EndsStores(w)
             /\ LoadsEnded(w) <=> \E c \in LoadCounters : ForZero(w, c)
  BY <1>1 DEF StoresEnded, EndsStores, EndsMore, LoadsEnded
<1>5. \A c \in Counters : c \notin FlatLists BY ListsDisjoint
<1>6. ASSUME NEW w, NEW s
      PROVE  /\ \A l \in Counters : Ends(w, l, s) <=> Guarantees(w, l, s)
             /\ \A l \in {"flats", "flat_load"} : Ends(w, l, s) <=> s.at < w /\ \E c \in LoadCounters : ForZero(w, c)
             /\ Ends(w, "flat_stor", s) <=> s.at < w /\ EndsStores(w)
             /\ ~Ends(w, "empty_list", s)
  <2>1. \A l : Guarantees(w, l, s) => s.at < w BY DEF Guarantees
  <2>. QED BY <2>1, <1>1, <1>4, <1>5 DEF Ends, FlatLists
<1>. DEFINE First(w, l, s) ==
       /\ s \in Issued(l) /\ Ends(w, l, s)
       /\ \A v \in s.at .. w - 1 : ~Ends(v, l, s)
<1>7. ASSUME NEW w \in Waits, NEW s, NEW l \in Counters PROVE First(w, l, s) <=> s \in OwnLinks(w, l)
  BY <1>6 DEF OwnLinks
<1>8. ASSUME NEW l, NEW s \in Issued(l), NEW w \in Waits
      PROVE  /\ s.at \in Mem
             /\ \A v \in s.at .. w - 1 : v = s.at \/ s.at < v
  <2>1. s.at \in Mem BY IssuedFacts
  <2>2. s.at \in Nat /\ w \in Nat BY <2>1, <1>2, <1>3 DEF Waits
  <2>. QED BY <2>1, <2>2
<1>9. ASSUME NEW w \in Waits, NEW s
      PROVE  s \in LoadLinks(w) <=> First(w, "flats", s) \/ First(w, "flat_load", s)
  <2>1. ASSUME NEW l \in {"flats", "flat_load"}, s \in Issued(l)
        PROVE  (\A v \in s.at .. w - 1 : ~Ends(v, l, s)) <=> (\A v \in s.at .. w - 1 : \A c \in LoadCounters : ~ForZero(v, c))
    <3>1. \A v \in s.at .. w - 1 : v = s.at \/ s.at < v BY <2>1, <1>8
    <3>2. \A c \in LoadCounters : ~ForZero(s.at, c) BY <2>1, <1>3, <1>8
    <3>3. \A v \in s.at .. w - 1 : Ends(v, l, s) <=> \E c \in LoadCounters : ForZero(v, c)
      BY <3>1, <3>2, <1>6
    <3>. QED BY <3>3
  <2>2. \A l \in {"flats", "flat_load"} : Ends(w, l, s) <=> s.at < w /\ \E c \in LoadCounters : ForZero(w, c)
    BY <1>6
  <2>. QED BY <2>1, <2>2 DEF LoadLinks
<1>10. ASSUME NEW w \in Waits, NEW s PROVE s \in StoreLinks(w) <=> First(w, "flat_stor", s)
  <2>1. ASSUME s \in Issued("flat_stor")
        PROVE  (\A v \in s.at .. w - 1 : ~Ends(v, "flat_stor", s)) <=> (\A v \in s.at .. w - 1 : ~EndsStores(v))
    <3>1. \A v \in s.at .. w - 1 : v = s.at \/ s.at < v BY <2>1, <1>8
    <3>2. ~EndsStores(s.at) BY <2>1, <1>3, <1>8
    <3>3. \A v \in s.at .. w - 1 : Ends(v, "flat_stor", s) <=> EndsStores(v)
      BY <3>1, <3>2, <1>6
    <3>. QED BY <3>3
  <2>. QED BY <2>1, <1>6 DEF StoreLinks
<1>11. ASSUME NEW w \in Waits, NEW s PROVE ~First(w, "empty_list", s) BY <1>6
<1>12. ASSUME NEW w \in Waits, NEW s
       PROVE  s \in Linked(w) <=> \E l \in ListNames : First(w, l, s)
  BY <1>0, <1>2 DEF LinksExact, Waits
<1>. HIDE DEF First
<1>13. ASSUME NEW w \in Waits, NEW s
       PROVE  s \in Linked(w) <=> (\E c \in Counters : s \in OwnLinks(w, c)) \/ s \in LoadLinks(w) \/ s \in StoreLinks(w)
  BY <1>7, <1>9, <1>10, <1>11, <1>12 DEF ListNames, FlatLists
<1>14. \A w \in Waits : Linked(w) = (UNION {OwnLinks(w, c) : c \in Counters}) \cup LoadLinks(w) \cup StoreLinks(w)
  BY <1>13
<1>. QED BY <1>14 DEF HistoryInv

(* buildWaitcntFromTokens: for any wave, of any length, on the three       *)
(* architectures, each wait is connected to exactly the operations that it *)
(* is the first to guarantee.                                              *)
THEOREM WaitsMatchHistory == WaitSpec => []WaitsExact
<1>1. WaitSpec => []WaitHistoryInv BY HistoryInit, HistoryNext, PTL DEF WaitSpec
<1>2. WaitHistoryInv => WaitsExact BY HistoryLinks DEF WaitHistoryInv
<1>. QED BY <1>1, <1>2, PTL

-----------------------------------------------------------------------------
(***************************************************************************)
(* What the listing shows stays current, whatever the user does.           *)
(*                                                                         *)
(* Rebuilding the rows needs little of the view it starts from (Settled),  *)
(* and yields rows that mirror the registry with the selector at what is   *)
(* drawn.  Of the categories only their set matters, never their order.    *)
(***************************************************************************)
Pairs == UNION {t.pairs : t \in Traces}
CategoryIds == LatencyIds \cup {"memory_latency"}
Lines == [stamp : Nat, hidden : SUBSET Pairs]
Category == [id : CategoryIds, lines : Lines, idle : BOOLEAN]
Row == [id : CategoryIds, enabled : BOOLEAN]
Views == [lines : Lines, source : SUBSET Pairs, registry : Seq(Category), rows : Seq(Row),
          row : Nat \ {0}, drawtype : {"Waitcnt", "Branch", "Annotation"},
          active : CategoryIds \cup {""}, builtin : BOOLEAN]

Categories(v) == {v.registry[i] : i \in DOMAIN v.registry}
MemoryShown(v) == \E c \in Categories(v) : c.id = "memory_latency"
MemoryOfLines(v) ==
    \A c \in Categories(v) : c.id = "memory_latency" => c.lines.stamp = v.lines.stamp

(* The selector is at the built-in row that is drawn, if one is.           *)
Settled(v) ==
    v.drawtype # "Annotation" => v.row \in {1, 2} /\ v.drawtype = Builtin[v.row] /\ v.active = ""

(* Only the row of nonhidden_latency is ever disabled.                     *)
OthersOffered(v) == \A i \in DOMAIN v.rows : v.rows[i].id # "nonhidden_latency" => v.rows[i].enabled

Good(v, showIdle, available) ==
    /\ v \in Views
    /\ RowIsDrawn(v) /\ CategoriesOfLines(v, showIdle)
    /\ NonhiddenOffered(v, available) /\ OthersOffered(v)

ViewsInv ==
    /\ trace = {} \/ \E t \in Traces : trace = {t}
    /\ idle \in BOOLEAN /\ analyzed \in BOOLEAN /\ populates \in Nat
    /\ Good(view, idle, analyzed)
    /\ trace # {} => HiddenOfStore
    /\ (memory # {}) <=> MemoryShown(view)

SameListing(v, w) == w.lines = v.lines /\ w.source = v.source /\ w.builtin = v.builtin
SameSelection(v, w) ==
    w.rows = v.rows /\ w.row = v.row /\ w.drawtype = v.drawtype /\ w.active = v.active

-----------------------------------------------------------------------------
LEMMA ListFacts ==
    ASSUME NEW S, NEW s \in Seq(S)
    PROVE  /\ Len(s) \in Nat /\ DOMAIN s = 1 .. Len(s)
           /\ \A i \in DOMAIN s : s[i] \in S
OBVIOUS

LEMMA AppendElement ==
    ASSUME NEW S, NEW s \in Seq(S), NEW e \in S
    PROVE  /\ Append(s, e) \in Seq(S)
           /\ DOMAIN Append(s, e) = 1 .. Len(s) + 1
           /\ Append(s, e)[Len(s) + 1] = e
           /\ \A i \in 1 .. Len(s) : Append(s, e)[i] = s[i]
OBVIOUS

LEMMA ViewFacts ==
    ASSUME NEW v \in Views
    PROVE  /\ v.lines \in Lines /\ v.source \in SUBSET Pairs /\ v.registry \in Seq(Category)
           /\ v.rows \in Seq(Row) /\ v.row \in Nat \ {0}
           /\ v.drawtype \in {"Waitcnt", "Branch", "Annotation"}
           /\ v.active \in CategoryIds \cup {""} /\ v.builtin \in BOOLEAN
           /\ DOMAIN v.registry = 1 .. Len(v.registry) /\ Len(v.registry) \in Nat
           /\ \A i \in DOMAIN v.registry : v.registry[i] \in Category
<1>1. /\ v.lines \in Lines /\ v.source \in SUBSET Pairs /\ v.registry \in Seq(Category)
      /\ v.rows \in Seq(Row) /\ v.row \in Nat \ {0}
      /\ v.drawtype \in {"Waitcnt", "Branch", "Annotation"}
      /\ v.active \in CategoryIds \cup {""} /\ v.builtin \in BOOLEAN
  BY DEF Views
<1>. QED BY <1>1, ListFacts

LEMMA WithRegistry ==
    ASSUME NEW v \in Views, NEW r \in Seq(Category)
    PROVE  /\ [v EXCEPT !.registry = r] \in Views
           /\ [v EXCEPT !.registry = r].registry = r
           /\ SameListing(v, [v EXCEPT !.registry = r])
           /\ SameSelection(v, [v EXCEPT !.registry = r])
<1>1. [v EXCEPT !.registry = r] \in Views BY DEF Views
<1>2. [v EXCEPT !.registry = r].registry = r BY DEF Views
<1>3. SameListing(v, [v EXCEPT !.registry = r]) BY DEF Views, SameListing
<1>4. SameSelection(v, [v EXCEPT !.registry = r]) BY DEF Views, SameSelection
<1>. QED BY <1>1, <1>2, <1>3, <1>4

LEMMA ClearFacts ==
    ASSUME NEW v \in Views, NEW ids
    PROVE  /\ Clear(v, ids) \in Views
           /\ Categories(Clear(v, ids)) = {c \in Categories(v) : c.id \notin ids}
           /\ SameListing(v, Clear(v, ids)) /\ SameSelection(v, Clear(v, ids))
<1> DEFINE P == {i \in DOMAIN v.registry : v.registry[i].id \notin ids}
           key == [i \in P |-> i]
           r == Arranged(v.registry, key, P)
<1>1. Clear(v, ids) = [v EXCEPT !.registry = r]
  <2>1. Clear(v, ids) = [v EXCEPT !.registry = Arranged(@, key, P)] BY Zenon DEF Clear
  <2>. QED BY <2>1 DEF Views
<1>2. v.registry \in Seq(Category) /\ P \in SUBSET DOMAIN v.registry
  BY ViewFacts
<1>3. \A i \in P : key[i] \in Int
  <2>1. DOMAIN v.registry = 1 .. Len(v.registry) BY ViewFacts
  <2>. QED BY <2>1
<1>4. /\ r \in Seq(Category)
      /\ \A k \in DOMAIN r : \E i \in P : r[k] = v.registry[i]
      /\ \A i \in P : \E k \in DOMAIN r : r[k] = v.registry[i]
  <2> HIDE DEF P, key
  <2>1. /\ Arranged(v.registry, key, P) \in Seq(Category)
        /\ \A k \in DOMAIN Arranged(v.registry, key, P) :
               \E i \in P : Arranged(v.registry, key, P)[k] = v.registry[i]
        /\ \A i \in P : \E k \in DOMAIN Arranged(v.registry, key, P) :
               Arranged(v.registry, key, P)[k] = v.registry[i]
        /\ \A a1, b1 \in DOMAIN Arranged(v.registry, key, P) : a1 < b1 =>
               \E i, j \in P : /\ Arranged(v.registry, key, P)[a1] = v.registry[i]
                              /\ Arranged(v.registry, key, P)[b1] = v.registry[j]
                              /\ Precedes(key, i, j)
    <3> DEFINE q == v.registry
    <3>1. q \in Seq(Category) /\ P \in SUBSET DOMAIN q /\ \A i \in P : key[i] \in Int BY <1>2, <1>3
    <3> HIDE DEF q
    <3>2. /\ Arranged(q, key, P) \in Seq(Category)
          /\ \A k \in DOMAIN Arranged(q, key, P) : \E i \in P : Arranged(q, key, P)[k] = q[i]
          /\ \A i \in P : \E k \in DOMAIN Arranged(q, key, P) : Arranged(q, key, P)[k] = q[i]
          /\ \A a1, b1 \in DOMAIN Arranged(q, key, P) : a1 < b1 =>
                 \E i, j \in P : /\ Arranged(q, key, P)[a1] = q[i]
                                /\ Arranged(q, key, P)[b1] = q[j]
                                /\ Precedes(key, i, j)
      BY <3>1, ArrangedInOrder
    <3> QED BY <3>2 DEF q
  <2> QED BY <2>1
<1> HIDE DEF r
<1>5. [v EXCEPT !.registry = r].registry = r
  BY <1>4, WithRegistry
<1>6. {r[k] : k \in DOMAIN r} = {c \in Categories(v) : c.id \notin ids}
  BY <1>4 DEF Categories
<1>7. Categories(Clear(v, ids)) = {c \in Categories(v) : c.id \notin ids}
  BY <1>1, <1>5, <1>6 DEF Categories
<1>8. /\ [v EXCEPT !.registry = r] \in Views
      /\ SameListing(v, [v EXCEPT !.registry = r]) /\ SameSelection(v, [v EXCEPT !.registry = r])
  BY <1>4, WithRegistry
<1> QED BY <1>1, <1>7, <1>8, Zenon

LEMMA PublishFacts ==
    ASSUME NEW v \in Views, NEW cat \in Category
    PROVE  /\ Publish(v, cat) \in Views
           /\ cat \in Categories(Publish(v, cat))
           /\ Categories(Publish(v, cat)) \subseteq Categories(v) \cup {cat}
           /\ \A c \in Categories(v) : c.id # cat.id => c \in Categories(Publish(v, cat))
           /\ SameListing(v, Publish(v, cat)) /\ SameSelection(v, Publish(v, cat))
<1> DEFINE q == v.registry
           at == Position(q, cat.id)
           r == IF at = {} THEN Append(q, cat) ELSE [q EXCEPT ![Min(at)] = cat]
<1>1. Publish(v, cat) = [v EXCEPT !.registry = r]
  BY DEF Publish, Views
<1>2. q \in Seq(Category) /\ DOMAIN q = 1 .. Len(q) /\ Len(q) \in Nat
  BY ViewFacts
<1>3. at # {} => Min(at) \in DOMAIN q /\ q[Min(at)].id = cat.id
  <2>1. at \in SUBSET Nat BY <1>2 DEF Position
  <2>2. at # {} => Min(at) \in at BY <2>1, MinExists
  <2> QED BY <2>2 DEF Position
<1> HIDE DEF at, q
<1>4. r \in Seq(Category) BY <1>2, <1>3
<1>5. /\ \E k \in DOMAIN r : r[k] = cat
      /\ \A k \in DOMAIN r : r[k] = cat \/ \E i \in DOMAIN q : r[k] = q[i]
      /\ \A i \in DOMAIN q : q[i].id # cat.id => \E k \in DOMAIN r : r[k] = q[i]
  <2>1. CASE at = {}
    <3>1. r = Append(q, cat) BY <2>1
    <3> HIDE DEF r
    <3>a. /\ DOMAIN Append(q, cat) = 1 .. Len(q) + 1 /\ Append(q, cat)[Len(q) + 1] = cat
          /\ \A i \in 1 .. Len(q) : Append(q, cat)[i] = q[i]
      BY <1>2, AppendElement
    <3>2. /\ DOMAIN r = 1 .. Len(q) + 1 /\ r[Len(q) + 1] = cat
          /\ \A i \in 1 .. Len(q) : r[i] = q[i]
      BY <3>1, <3>a, Zenon
    <3>3. \A k \in 1 .. Len(q) + 1 : k = Len(q) + 1 \/ k \in 1 .. Len(q) BY <1>2
    <3>4. Len(q) + 1 \in 1 .. Len(q) + 1 /\ \A i \in 1 .. Len(q) : i \in 1 .. Len(q) + 1 BY <1>2
    <3> QED BY <1>2, <3>2, <3>3, <3>4
  <2>2. CASE at # {}
    <3>1. r = [q EXCEPT ![Min(at)] = cat] BY <2>2
    <3>2. /\ DOMAIN r = DOMAIN q /\ r[Min(at)] = cat
          /\ \A i \in DOMAIN q : i # Min(at) => r[i] = q[i]
      BY <1>3, <2>2, <3>1
    <3> HIDE DEF r
    <3> QED BY <1>3, <2>2, <3>2
  <2> QED BY <2>1, <2>2
<1> HIDE DEF r
<1>6. [v EXCEPT !.registry = r].registry = r
  BY <1>4, WithRegistry
<1>7. Categories(Publish(v, cat)) = {r[k] : k \in DOMAIN r}
  BY <1>1, <1>6 DEF Categories
<1>8. Categories(v) = {q[i] : i \in DOMAIN q}
  BY DEF Categories, q
<1> QED BY <1>1, <1>4, <1>5, <1>7, <1>8, WithRegistry

-----------------------------------------------------------------------------
(* w is v with categories made from its lines.                             *)
Offered(v, w, showIdle) ==
    /\ w \in Views /\ SameListing(v, w) /\ SameSelection(v, w)
    /\ \A c \in Categories(w) :
           c \in Categories(v) \/ (c.id \in LatencyIds /\ c.lines = v.lines /\ c.idle = showIdle)
    /\ \A c \in Categories(v) : c.id \notin LatencyIds => c \in Categories(w)

LEMMA PublishShownFacts ==
    ASSUME NEW v \in Views, NEW t, NEW showIdle \in BOOLEAN
    PROVE  Offered(v, PublishShown(v, t, showIdle), showIdle)
<1> DEFINE Offer(w, id) ==
              IF Shows(t, w.lines, showIdle, id)
                THEN Publish(w, [id |-> id, lines |-> w.lines, idle |-> showIdle]) ELSE w
<1>1. ASSUME NEW w, Offered(v, w, showIdle), NEW id \in LatencyIds
      PROVE  Offered(v, Offer(w, id), showIdle)
  <2>1. CASE ~Shows(t, w.lines, showIdle, id) BY <1>1, <2>1
  <2>2. CASE Shows(t, w.lines, showIdle, id)
    <3> DEFINE cat == [id |-> id, lines |-> w.lines, idle |-> showIdle]
               u == Publish(w, cat)
    <3>1. w \in Views /\ w.lines \in Lines /\ w.lines = v.lines
      BY <1>1, ViewFacts DEF Offered, SameListing
    <3>2. cat \in Category /\ cat.id = id /\ cat.lines = v.lines /\ cat.idle = showIdle
      BY <3>1 DEF Category, CategoryIds
    <3>3. Offer(w, id) = u BY <2>2
    <3> HIDE DEF cat
    <3>4. /\ u \in Views
          /\ Categories(u) \subseteq Categories(w) \cup {cat}
          /\ \A c \in Categories(w) : c.id # cat.id => c \in Categories(u)
          /\ SameListing(w, u) /\ SameSelection(w, u)
      BY <3>1, <3>2, PublishFacts
    <3> HIDE DEF u, Offer
    <3>5. SameListing(v, u) /\ SameSelection(v, u)
      BY <3>4, <1>1 DEF Offered, SameListing, SameSelection
    <3>6. \A c \in Categories(u) :
             c \in Categories(v) \/ (c.id \in LatencyIds /\ c.lines = v.lines /\ c.idle = showIdle)
      BY <3>2, <3>4, <1>1 DEF Offered
    <3>7. \A c \in Categories(v) : c.id \notin LatencyIds => c \in Categories(u)
      BY <3>2, <3>4, <1>1 DEF Offered
    <3> QED BY <3>3, <3>4, <3>5, <3>6, <3>7 DEF Offered
  <2> QED BY <2>1, <2>2
<1>2. Offered(v, v, showIdle)
  BY DEF Offered, SameListing, SameSelection
<1>3. PublishShown(v, t, showIdle) =
        Offer(Offer(Offer(Offer(v, "inst_latency"), "nonhidden_latency"), "stall_reasons"), "latency_stall")
  BY Zenon DEF PublishShown
<1>4. {"inst_latency", "nonhidden_latency", "stall_reasons", "latency_stall"} \subseteq LatencyIds
  BY DEF LatencyIds
<1> HIDE DEF Offer
<1>5. Offered(v, Offer(v, "inst_latency"), showIdle) BY <1>1, <1>2, <1>4
<1>6. Offered(v, Offer(Offer(v, "inst_latency"), "nonhidden_latency"), showIdle) BY <1>1, <1>5, <1>4
<1>7. Offered(v, Offer(Offer(Offer(v, "inst_latency"), "nonhidden_latency"), "stall_reasons"), showIdle)
  BY <1>1, <1>6, <1>4
<1> QED BY <1>1, <1>7, <1>3, <1>4

-----------------------------------------------------------------------------
(* w is v with the rows of the selector rebuilt.                           *)
Rebuilt(v, w, available) ==
    /\ w \in Views /\ w.registry = v.registry /\ SameListing(v, w)
    /\ RowIsDrawn(w) /\ NonhiddenOffered(w, available) /\ OthersOffered(w)

LEMMA BuiltinFacts == Len(Builtin) = 2 /\ Builtin[1] = "Waitcnt" /\ Builtin[2] = "Branch"
BY DEF Builtin

LEMMA RebuildFacts ==
    ASSUME NEW v \in Views, Settled(v), NEW available \in BOOLEAN
    PROVE  Rebuilt(v, RebuildRows(v, available), available)
<1> DEFINE rows == [i \in DOMAIN v.registry |->
                       [id |-> v.registry[i].id,
                        enabled |-> v.registry[i].id # "nonhidden_latency" \/ available]]
           chosen == {i \in DOMAIN rows : rows[i].enabled /\ rows[i].id = v.active}
           m == Min({v.row, 2})
           u == [v EXCEPT !.rows = rows, !.row = m]
           w == RebuildRows(v, available)
<1>1. /\ Len(v.registry) \in Nat /\ DOMAIN v.registry = 1 .. Len(v.registry)
      /\ \A i \in DOMAIN v.registry : v.registry[i].id \in CategoryIds
      /\ v.row \in Nat \ {0}
  BY ViewFacts DEF Category
<1>2. rows \in Seq(Row)
  <2>1. \A i \in DOMAIN v.registry :
           [id |-> v.registry[i].id,
            enabled |-> v.registry[i].id # "nonhidden_latency" \/ available] \in Row
    BY <1>1 DEF Row
  <2> QED BY <2>1, <1>1
<1>3. /\ DOMAIN rows = DOMAIN v.registry
      /\ \A i \in DOMAIN rows : /\ rows[i].id = v.registry[i].id
                                /\ rows[i].id \in CategoryIds
                                /\ rows[i].enabled <=> (rows[i].id # "nonhidden_latency" \/ available)
  BY <1>1
<1>4. m = IF v.row <= 2 THEN v.row ELSE 2
  BY <1>1, MinOfTwo
<1>5. w = CASE chosen # {} -> [u EXCEPT !.row = Len(Builtin) + Max(chosen)]
            [] chosen = {} /\ v.drawtype = "Annotation" ->
                  [u EXCEPT !.drawtype = Builtin[1], !.active = "", !.row = 1]
            [] OTHER -> u
  BY BuiltinFacts, Zenon DEF RebuildRows
<1>6. chosen # {} => /\ v.drawtype = "Annotation" /\ Max(chosen) \in chosen
                     /\ Max(chosen) \in Nat \ {0} /\ v.active \in CategoryIds
  <2> SUFFICES ASSUME chosen # {}
               PROVE  /\ v.drawtype = "Annotation" /\ Max(chosen) \in chosen
                      /\ Max(chosen) \in Nat \ {0} /\ v.active \in CategoryIds
    OBVIOUS
  <2>1. chosen \subseteq 1 .. Len(v.registry) BY <1>1, <1>3
  <2> DEFINE D == 1 .. Len(v.registry)
  <2>a. D \subseteq Int /\ IsFiniteSet(D) BY <1>1, FS_Interval
  <2> HIDE DEF rows
  <2>3. v.active \in CategoryIds BY <1>3
  <2>4. v.drawtype = "Annotation"
    BY <2>3 DEF Settled, CategoryIds, LatencyIds
  <2> HIDE DEF chosen, D
  <2>2. chosen \subseteq Int /\ IsFiniteSet(chosen) BY <2>a, <2>1, FS_Subset DEF D
  <2>5. Max(chosen) \in chosen BY <2>2, FiniteMax
  <2>b. Max(chosen) \in 1 .. Len(v.registry) BY <2>1, <2>5
  <2>6. Max(chosen) \in Nat \ {0} BY <2>b, <1>1
  <2> QED BY <2>3, <2>4, <2>5, <2>6
<1>a. m \in Nat \ {0} BY <1>1, <1>4
<1> HIDE DEF rows, chosen, m
<1>7. /\ u \in Views /\ u.registry = v.registry /\ SameListing(v, u)
      /\ u.rows = rows /\ u.row = m /\ u.drawtype = v.drawtype /\ u.active = v.active
  <2>1. u \in Views BY <1>2, <1>a DEF Views
  <2>2. u.registry = v.registry /\ SameListing(v, u) BY DEF Views, SameListing
  <2>3. u.rows = rows /\ u.row = m /\ u.drawtype = v.drawtype /\ u.active = v.active BY DEF Views
  <2> HIDE DEF u
  <2> QED BY <2>1, <2>2, <2>3
<1> HIDE DEF u, w
<1>8. /\ w \in Views /\ w.registry = v.registry /\ SameListing(v, w) /\ w.rows = rows
      /\ IF w.row <= 2 THEN w.drawtype = Builtin[w.row] /\ w.active = ""
         ELSE w.drawtype = "Annotation" /\ w.row - 2 \in chosen /\ w.active = v.active
  <2>1. CASE chosen # {}
    <3> DEFINE n == 2 + Max(chosen)
    <3>1. n \in Nat \ {0} /\ ~(n <= 2) /\ n - 2 = Max(chosen) BY <2>1, <1>6
    <3>2. w = [u EXCEPT !.row = n] BY <2>1, <1>5, BuiltinFacts
    <3> HIDE DEF n
    <3>3. w \in Views /\ w.registry = u.registry /\ w.rows = u.rows /\ w.row = n
          /\ w.drawtype = u.drawtype /\ w.active = u.active /\ SameListing(u, w)
      BY <3>1, <3>2, <1>7 DEF Views, SameListing
    <3> QED BY <3>1, <3>3, <1>6, <1>7, <2>1 DEF SameListing
  <2>2. CASE chosen = {} /\ v.drawtype = "Annotation"
    <3>1. w = [u EXCEPT !.drawtype = Builtin[1], !.active = "", !.row = 1] BY <2>2, <1>5
    <3>2. /\ w \in Views /\ w.registry = u.registry /\ SameListing(u, w)
          /\ w.rows = u.rows /\ w.row = 1 /\ w.drawtype = Builtin[1] /\ w.active = ""
      <4>1. w \in Views BY <3>1, <1>7, BuiltinFacts DEF Views
      <4>2. w.registry = u.registry /\ SameListing(u, w) BY <3>1, <1>7 DEF Views, SameListing
      <4>3. w.rows = u.rows /\ w.row = 1 /\ w.drawtype = Builtin[1] /\ w.active = ""
        BY <3>1, <1>7 DEF Views
      <4> QED BY <4>1, <4>2, <4>3
    <3>3. SameListing(v, w) BY <3>2, <1>7 DEF SameListing
    <3>4. w.row <= 2
      <4>1. w.row = 1 BY <3>2, Zenon
      <4> QED BY <4>1
    <3> QED BY <3>2, <3>3, <3>4, <1>7
  <2>3. CASE chosen = {} /\ v.drawtype # "Annotation"
    <3>1. w = u BY <2>3, <1>5
    <3>2. v.row \in {1, 2} /\ v.drawtype = Builtin[v.row] /\ v.active = ""
      BY <2>3 DEF Settled
    <3>3. v.row <= 2
      <4>1. v.row \in {1, 2} BY <3>2, Zenon
      <4> QED BY <4>1
    <3>4. m = v.row BY <3>3, <1>4
    <3> QED BY <3>1, <3>2, <3>3, <3>4, <1>7
  <2> QED BY <2>1, <2>2, <2>3
<1>9. RowIsDrawn(w)
  <2>1. [i \in DOMAIN w.rows |-> w.rows[i].id] = [i \in DOMAIN w.registry |-> w.registry[i].id]
    BY <1>3, <1>8
  <2>2. w.row - 2 \in chosen => w.rows[w.row - 2].id = v.active /\ w.rows[w.row - 2].enabled
    BY <1>8 DEF chosen
  <2> QED BY <2>1, <2>2, <1>8, BuiltinFacts DEF RowIsDrawn
<1>10. NonhiddenOffered(w, available) /\ OthersOffered(w)
  BY <1>3, <1>8 DEF NonhiddenOffered, OthersOffered
<1> QED BY <1>8, <1>9, <1>10 DEF Rebuilt, w

LEMMA DrawnIsSettled ==
    ASSUME NEW v \in Views, RowIsDrawn(v)
    PROVE  Settled(v)
<1>1. v.row \in Nat \ {0} BY ViewFacts
<1>2. v.row <= 2 => v.row \in {1, 2} BY <1>1
<1> QED BY <1>2, BuiltinFacts DEF RowIsDrawn, Settled

(* Selecting a category that exists and is offered, or one that does not   *)
(* exist, leaves the selector at what is drawn.                            *)
LEMMA SelectFacts ==
    ASSUME NEW v \in Views, RowIsDrawn(v), OthersOffered(v), NEW id \in CategoryIds \ {"nonhidden_latency"}
    PROVE  LET w == SelectAnnotation(v, id) IN
           /\ w \in Views /\ w.registry = v.registry /\ SameListing(v, w)
           /\ RowIsDrawn(w) /\ w.rows = v.rows
<1> DEFINE at == {i \in DOMAIN v.rows : v.rows[i].id = id}
           w == SelectAnnotation(v, id)
<1>1. CASE Position(v.registry, id) = {}
  <2>1. w = v BY <1>1 DEF SelectAnnotation
  <2> QED BY <2>1 DEF SameListing
<1>2. CASE Position(v.registry, id) # {}
  <2>1. /\ DOMAIN v.rows = DOMAIN v.registry
        /\ \A i \in DOMAIN v.rows : v.rows[i].id = v.registry[i].id
    <3> DEFINE f == [i \in DOMAIN v.rows |-> v.rows[i].id]
               g == [i \in DOMAIN v.registry |-> v.registry[i].id]
    <3>1. f = g BY DEF RowIsDrawn
    <3>2. DOMAIN f = DOMAIN v.rows /\ DOMAIN g = DOMAIN v.registry OBVIOUS
    <3>3. \A i \in DOMAIN v.rows : f[i] = v.rows[i].id OBVIOUS
    <3>4. \A i \in DOMAIN v.registry : g[i] = v.registry[i].id OBVIOUS
    <3> HIDE DEF f, g
    <3> QED BY <3>1, <3>2, <3>3, <3>4
  <2>2. at # {} BY <1>2, <2>1 DEF Position
  <2>3. Min(at) \in at /\ Min(at) \in Nat \ {0}
    <3>1. DOMAIN v.rows = 1 .. Len(v.rows) BY ViewFacts, ListFacts
    <3>2. at \in SUBSET Nat BY <3>1
    <3>3. Min(at) \in at BY <2>2, <3>2, MinExists
    <3> QED BY <3>1, <3>3
  <2>4. v.rows[Min(at)].id = id /\ v.rows[Min(at)].enabled
    BY <2>3 DEF OthersOffered
  <2> DEFINE n == 2 + Min(at)
  <2>5. w = [v EXCEPT !.drawtype = "Annotation", !.active = id, !.row = n]
    <3>1. w = [v EXCEPT !.drawtype = "Annotation", !.active = id,
                        !.row = IF at = {} THEN @ ELSE Len(Builtin) + Min(at)]
      BY <1>2, Zenon DEF SelectAnnotation
    <3> QED BY <3>1, <2>2, BuiltinFacts
  <2>6. n \in Nat \ {0} /\ ~(n <= 2) /\ n - 2 = Min(at) BY <2>3
  <2> HIDE DEF n, at
  <2>7. /\ w \in Views /\ w.registry = v.registry /\ SameListing(v, w)
        /\ w.rows = v.rows /\ w.row = n /\ w.drawtype = "Annotation" /\ w.active = id
    <3> HIDE DEF w
    <3>1. w \in Views BY <2>5, <2>6 DEF Views
    <3>2. w.registry = v.registry /\ SameListing(v, w) BY <2>5 DEF Views, SameListing
    <3>3. w.rows = v.rows /\ w.row = n /\ w.drawtype = "Annotation" /\ w.active = id
      BY <2>5 DEF Views
    <3> QED BY <3>1, <3>2, <3>3
  <2> HIDE DEF w
  <2>8. RowIsDrawn(w)
    <3>1. [i \in DOMAIN w.rows |-> w.rows[i].id] = [i \in DOMAIN w.registry |-> w.registry[i].id]
      BY <2>7 DEF RowIsDrawn
    <3>2. ~(w.row <= 2) /\ w.rows[w.row - 2].id = id /\ w.rows[w.row - 2].enabled
      BY <2>4, <2>6, <2>7
    <3> QED BY <2>7, <3>1, <3>2, BuiltinFacts DEF RowIsDrawn
  <2> QED BY <2>7, <2>8 DEF w
<1> QED BY <1>1, <1>2

-----------------------------------------------------------------------------
LEMMA OfLines ==
    ASSUME NEW v \in Views, NEW showIdle,
           \A c \in Categories(v) :
               IF c.id = "memory_latency" THEN c.lines.stamp = v.lines.stamp
               ELSE c.lines = v.lines /\ c.idle = showIdle
    PROVE  CategoriesOfLines(v, showIdle)
<1>1. \A i \in DOMAIN v.registry : v.registry[i] \in Categories(v) BY DEF Categories
<1> QED BY <1>1 DEF CategoriesOfLines

LEMMA MemoryKept ==
    ASSUME NEW v \in Views, NEW showIdle, CategoriesOfLines(v, showIdle)
    PROVE  MemoryOfLines(v)
BY DEF CategoriesOfLines, MemoryOfLines, Categories

(* w is v with its categories made again.                                  *)
Republished(v, w, showIdle, available) ==
    /\ Good(w, showIdle, available) /\ SameListing(v, w)
    /\ MemoryShown(w) <=> MemoryShown(v)

LEMMA CategoriesFacts ==
    ASSUME NEW v \in Views, Settled(v), MemoryOfLines(v),
           NEW t, NEW showIdle \in BOOLEAN, NEW available \in BOOLEAN
    PROVE  Republished(v, PublishCategories(v, t, showIdle, available), showIdle, available)
<1> DEFINE u == Clear(v, LatencyIds)
           x == PublishShown(u, t, showIdle)
           w == PublishCategories(v, t, showIdle, available)
<1>1. /\ u \in Views /\ Categories(u) = {c \in Categories(v) : c.id \notin LatencyIds}
      /\ SameListing(v, u) /\ SameSelection(v, u)
  BY ClearFacts
<1>2. w = RebuildRows(x, available) BY DEF PublishCategories
<1> HIDE DEF u, w
<1>3. Offered(u, x, showIdle) BY <1>1, PublishShownFacts
<1> HIDE DEF x
<1>4. x \in Views /\ SameListing(v, x) /\ SameSelection(v, x)
  BY <1>1, <1>3 DEF Offered, SameListing, SameSelection
<1>5. Settled(x) BY <1>4 DEF Settled, SameSelection
<1>6. Rebuilt(x, w, available) BY <1>2, <1>4, <1>5, RebuildFacts
<1>7. w \in Views /\ SameListing(v, w) /\ Categories(w) = Categories(x)
  BY <1>4, <1>6 DEF Rebuilt, SameListing, Categories
<1>8. \A c \in Categories(w) :
         \/ c \in Categories(v) /\ c.id \notin LatencyIds
         \/ c.id \in LatencyIds /\ c.lines = u.lines /\ c.idle = showIdle
  BY <1>1, <1>3, <1>7 DEF Offered
<1>9. \A c \in Categories(v) : c.id \notin LatencyIds => c \in Categories(w)
  BY <1>1, <1>3, <1>7 DEF Offered
<1>10. "memory_latency" \notin LatencyIds /\ CategoryIds = LatencyIds \cup {"memory_latency"}
  BY DEF LatencyIds, CategoryIds
<1>11. \A c \in Categories(w) : c.id \in CategoryIds
  BY <1>7, ViewFacts DEF Categories, Category
<1>12. u.lines = v.lines /\ w.lines = v.lines BY <1>1, <1>7 DEF SameListing
<1>13. CategoriesOfLines(w, showIdle)
  <2>1. \A c \in Categories(w) :
           IF c.id = "memory_latency" THEN c.lines.stamp = w.lines.stamp
           ELSE c.lines = w.lines /\ c.idle = showIdle
    BY <1>8, <1>10, <1>11, <1>12 DEF MemoryOfLines
  <2> QED BY <2>1, <1>7, OfLines
<1>14. MemoryShown(w) <=> MemoryShown(v)
  BY <1>8, <1>9, <1>10 DEF MemoryShown
<1> QED BY <1>6, <1>7, <1>13, <1>14 DEF Republished, Good, Rebuilt, w

-----------------------------------------------------------------------------
LEMMA WithBuiltin ==
    ASSUME NEW v, NEW b1 \in BOOLEAN, NEW showIdle, NEW available, Good(v, showIdle, available)
    PROVE  LET w == [v EXCEPT !.builtin = b1] IN
           /\ Good(w, showIdle, available)
           /\ w.lines = v.lines /\ w.source = v.source /\ w.registry = v.registry
<1> DEFINE w == [v EXCEPT !.builtin = b1]
<1>1. v \in Views BY DEF Good
<1>2. w \in Views BY <1>1 DEF Views
<1>3. w.lines = v.lines /\ w.source = v.source /\ w.registry = v.registry BY <1>1 DEF Views
<1>4. w.rows = v.rows /\ w.row = v.row /\ w.drawtype = v.drawtype /\ w.active = v.active
  BY <1>1 DEF Views
<1> HIDE DEF w
<1>5. RowIsDrawn(w) BY <1>3, <1>4 DEF Good, RowIsDrawn
<1>6. CategoriesOfLines(w, showIdle) BY <1>3 DEF Good, CategoriesOfLines
<1>7. NonhiddenOffered(w, available) /\ OthersOffered(w)
  BY <1>4 DEF Good, NonhiddenOffered, OthersOffered
<1> QED BY <1>2, <1>3, <1>5, <1>6, <1>7 DEF Good, w

LEMMA SelectKeepsGood ==
    ASSUME NEW v, NEW showIdle, NEW available, Good(v, showIdle, available),
           NEW id \in CategoryIds \ {"nonhidden_latency"}
    PROVE  /\ Good(SelectAnnotation(v, id), showIdle, available)
           /\ SelectAnnotation(v, id).registry = v.registry
           /\ SameListing(v, SelectAnnotation(v, id))
<1> DEFINE w == SelectAnnotation(v, id)
<1>1. /\ w \in Views /\ w.registry = v.registry /\ SameListing(v, w)
      /\ RowIsDrawn(w) /\ w.rows = v.rows
  BY SelectFacts DEF Good
<1> HIDE DEF w
<1>2. CategoriesOfLines(w, showIdle) BY <1>1 DEF Good, CategoriesOfLines, SameListing
<1>3. NonhiddenOffered(w, available) /\ OthersOffered(w)
  BY <1>1 DEF Good, NonhiddenOffered, OthersOffered
<1> QED BY <1>1, <1>2, <1>3 DEF Good, w

(* w is v with new lines.                                                  *)
Populated(v, w, stamp, showIdle, available) ==
    /\ Good(w, showIdle, available)
    /\ w.lines.stamp = stamp /\ w.lines.hidden = {} /\ w.source = v.source
    /\ ~MemoryShown(w)

LEMMA PopulateFacts ==
    ASSUME NEW v \in Views, Settled(v), NEW t \in Traces, NEW stamp \in Nat,
           NEW showIdle \in BOOLEAN, NEW available \in BOOLEAN
    PROVE  Populated(v, Populate(v, t, stamp, showIdle, available), stamp, showIdle, available)
<1> DEFINE f == [v EXCEPT !.lines = [stamp |-> stamp, hidden |-> {}]]
           y == Clear(f, {"memory_latency"})
           listed == PublishCategories(y, t, showIdle, available)
           gated == [listed EXCEPT !.builtin = t.sqtt]
           w == Populate(v, t, stamp, showIdle, available)
<1>1. w = IF t.pcs THEN SelectAnnotation(gated, "inst_latency") ELSE gated
  BY Zenon DEF Populate
<1>2. t.sqtt \in BOOLEAN /\ t.pcs \in BOOLEAN BY TracesAssumption
<1>3. f \in Views BY DEF Views, Lines
<1>4. /\ f.lines = [stamp |-> stamp, hidden |-> {}] /\ f.source = v.source
      /\ SameSelection(v, f)
  BY DEF Views, SameSelection
<1> HIDE DEF f, w
<1>5. /\ y \in Views /\ Categories(y) = {c \in Categories(f) : c.id \notin {"memory_latency"}}
      /\ SameListing(f, y) /\ SameSelection(f, y)
  BY <1>3, ClearFacts
<1> HIDE DEF y
<1>6. ~MemoryShown(y) /\ MemoryOfLines(y) BY <1>5 DEF MemoryShown, MemoryOfLines
<1>7. Settled(y) BY <1>4, <1>5 DEF Settled, SameSelection
<1>8. Republished(y, listed, showIdle, available) BY <1>5, <1>6, <1>7, CategoriesFacts
<1> HIDE DEF listed
<1>9. /\ Good(gated, showIdle, available)
      /\ gated.lines = listed.lines /\ gated.source = listed.source /\ gated.registry = listed.registry
  BY <1>2, <1>8, WithBuiltin DEF Republished
<1> HIDE DEF gated
<1>10. /\ Good(w, showIdle, available) /\ w.registry = gated.registry
       /\ w.lines = gated.lines /\ w.source = gated.source
  <2>1. CASE t.pcs
    <3>1. w = SelectAnnotation(gated, "inst_latency") BY <2>1, <1>1
    <3>2. "inst_latency" \in CategoryIds \ {"nonhidden_latency"} BY DEF CategoryIds, LatencyIds
    <3> QED BY <1>9, <3>1, <3>2, SelectKeepsGood DEF SameListing
  <2>2. CASE ~t.pcs BY <2>2, <1>1, <1>9
  <2> QED BY <2>1, <2>2
<1>11. ~MemoryShown(w)
  BY <1>6, <1>8, <1>9, <1>10 DEF Republished, MemoryShown, Categories
<1>12. w.lines = [stamp |-> stamp, hidden |-> {}] /\ w.source = v.source
  BY <1>4, <1>5, <1>8, <1>9, <1>10 DEF Republished, SameListing
<1> QED BY <1>10, <1>11, <1>12 DEF Populated, w

-----------------------------------------------------------------------------
(* w is v with the hidden latency of some pairs in its lines.              *)
Refreshed(v, w, hidden, showIdle, available) ==
    /\ Good(w, showIdle, available)
    /\ w.lines.stamp = v.lines.stamp
    /\ w.lines.hidden = IF v.lines.stamp = 0 THEN {} ELSE hidden
    /\ w.source = w.lines.hidden
    /\ MemoryShown(w) <=> MemoryShown(v)

LEMMA RefreshedFacts ==
    ASSUME NEW v \in Views, Settled(v), MemoryOfLines(v), NEW hidden \in SUBSET Pairs,
           NEW t, NEW showIdle \in BOOLEAN, NEW available \in BOOLEAN
    PROVE  Refreshed(v, PublishCategories(RefreshSource(ApplyToAsm(v, hidden)), t, showIdle, available),
                     hidden, showIdle, available)
<1> DEFINE h == IF v.lines.stamp = 0 THEN {} ELSE hidden
           x == ApplyToAsm(v, hidden)
           y == RefreshSource(x)
           w == PublishCategories(y, t, showIdle, available)
<1>1. v.lines \in Lines /\ h \in SUBSET Pairs BY ViewFacts
<1>2. x = [v EXCEPT !.lines.hidden = h] BY DEF ApplyToAsm
<1> HIDE DEF h
<1>3. /\ x \in Views /\ x.lines.stamp = v.lines.stamp /\ x.lines.hidden = h
      /\ SameSelection(v, x) /\ x.registry = v.registry
  <2>1. x \in Views BY <1>1, <1>2 DEF Views, Lines
  <2>a. x.lines = [v.lines EXCEPT !.hidden = h] BY <1>2 DEF Views
  <2>2. x.lines.stamp = v.lines.stamp /\ x.lines.hidden = h BY <1>1, <2>a DEF Lines
  <2>3. SameSelection(v, x) /\ x.registry = v.registry BY <1>2 DEF Views, SameSelection
  <2> QED BY <2>1, <2>2, <2>3
<1> HIDE DEF x
<1>4. y = [x EXCEPT !.source = x.lines.hidden] BY DEF RefreshSource
<1>5. /\ y \in Views /\ y.lines = x.lines /\ y.source = h
      /\ SameSelection(x, y) /\ y.registry = x.registry
  <2>1. y \in Views BY <1>1, <1>3, <1>4 DEF Views
  <2>2. y.lines = x.lines /\ y.source = h BY <1>3, <1>4 DEF Views
  <2>3. SameSelection(x, y) /\ y.registry = x.registry BY <1>3, <1>4 DEF Views, SameSelection
  <2> QED BY <2>1, <2>2, <2>3
<1> HIDE DEF y
<1>6. Settled(y) BY <1>3, <1>5 DEF Settled, SameSelection
<1>7. Categories(y) = Categories(v) BY <1>3, <1>5 DEF Categories
<1>8. MemoryOfLines(y) BY <1>3, <1>5, <1>7 DEF MemoryOfLines
<1>9. Republished(y, w, showIdle, available) BY <1>5, <1>6, <1>8, CategoriesFacts
<1> HIDE DEF w
<1>10. w.lines = x.lines /\ w.source = h BY <1>5, <1>9 DEF Republished, SameListing
<1>11. MemoryShown(w) <=> MemoryShown(v) BY <1>7, <1>9 DEF Republished, MemoryShown
<1>12. Good(w, showIdle, available) BY <1>9 DEF Republished
<1> QED BY <1>3, <1>10, <1>11, <1>12 DEF Refreshed, w, h, y, x

LEMMA AnalyzedFacts ==
    ASSUME NEW v \in Views, Settled(v), MemoryOfLines(v), NEW t \in Traces,
           NEW showIdle \in BOOLEAN, NEW failed \in BOOLEAN
    PROVE  LET ran == Analyzed(v, t, showIdle, failed) IN
           /\ ran.analyzed \in BOOLEAN
           /\ ran.byLine = IF ran.analyzed THEN t.pairs ELSE {}
           /\ Refreshed(v, ran.view, ran.byLine, showIdle, ran.analyzed)
<1> DEFINE ran == Analyzed(v, t, showIdle, failed)
<1>1. t.pairs \in SUBSET Pairs /\ {} \in SUBSET Pairs BY DEF Pairs
<1>2. CASE failed
  <2> DEFINE w == PublishCategories(RefreshSource(ApplyToAsm(v, {})), t, showIdle, FALSE)
  <2>1. ran = [view |-> w, analyzed |-> FALSE, byLine |-> {}] BY <1>2, Zenon DEF Analyzed
  <2>2. Refreshed(v, w, {}, showIdle, FALSE) BY <1>1, RefreshedFacts
  <2> HIDE DEF w, ran
  <2>3. ran.view = w /\ ran.analyzed = FALSE /\ ran.byLine = {} BY <2>1
  <2> QED BY <2>2, <2>3 DEF ran
<1>3. CASE ~failed
  <2> DEFINE x == RefreshHidden(v, t, t.pairs, showIdle)
             w == SelectAnnotation(x, "inst_latency")
  <2>1. ran = [view |-> w, analyzed |-> TRUE, byLine |-> t.pairs] BY <1>3, Zenon DEF Analyzed
  <2>2. Refreshed(v, x, t.pairs, showIdle, TRUE) BY <1>1, RefreshedFacts DEF RefreshHidden
  <2> HIDE DEF x
  <2>3. "inst_latency" \in CategoryIds \ {"nonhidden_latency"} BY DEF CategoryIds, LatencyIds
  <2>4. /\ Good(w, showIdle, TRUE) /\ w.registry = x.registry /\ SameListing(x, w)
    BY <2>2, <2>3, SelectKeepsGood DEF Refreshed
  <2> HIDE DEF w, ran
  <2>5. Refreshed(v, w, t.pairs, showIdle, TRUE)
    BY <2>2, <2>4 DEF Refreshed, SameListing, MemoryShown, Categories
  <2>6. ran.view = w /\ ran.analyzed = TRUE /\ ran.byLine = t.pairs BY <2>1
  <2> QED BY <2>5, <2>6 DEF ran
<1> QED BY <1>2, <1>3

-----------------------------------------------------------------------------
LEMMA CurrentIs ==
    ASSUME NEW t, trace = {t}
    PROVE  Current = t
BY DEF Current

LEMMA ViewReady ==
    ASSUME NEW v, NEW showIdle, NEW available, Good(v, showIdle, available)
    PROVE  v \in Views /\ Settled(v) /\ MemoryOfLines(v)
BY DrawnIsSettled, MemoryKept DEF Good

LEMMA WithSource ==
    ASSUME NEW v \in Views, NEW h \in SUBSET Pairs
    PROVE  LET w == [v EXCEPT !.source = h] IN
           /\ w \in Views /\ w.lines = v.lines /\ w.source = h /\ w.registry = v.registry
           /\ SameSelection(v, w)
<1> DEFINE w == [v EXCEPT !.source = h]
<1>1. w \in Views BY DEF Views
<1>2. w.lines = v.lines /\ w.source = h /\ w.registry = v.registry BY DEF Views
<1>3. SameSelection(v, w) BY DEF Views, SameSelection
<1> QED BY <1>1, <1>2, <1>3

LEMMA LoadTraceKeeps ==
    ASSUME ViewsInv, NEW t \in Traces, LoadTrace(t)
    PROVE  ViewsInv'
<1>1. view \in Views /\ Settled(view) BY ViewReady DEF ViewsInv
<1>2. idle \in BOOLEAN /\ populates \in Nat BY DEF ViewsInv
<1>3. t.sqtt \in BOOLEAN /\ t.pcs \in BOOLEAN /\ t.auto \in BOOLEAN BY TracesAssumption
<1> DEFINE base == [view EXCEPT !.lines = Unpopulated, !.source = {}, !.registry = <<>>, !.active = ""]
           cleared == RebuildRows(base, FALSE)
           listed == IF t.pcs THEN Populate(cleared, t, populates + 1, idle, FALSE) ELSE cleared
<1>4. PICK failed \in BOOLEAN :
         /\ trace' = {t} /\ memory' = {} /\ idle' = idle
         /\ populates' = IF t.pcs THEN populates + 1 ELSE populates
         /\ IF t.sqtt /\ t.auto
              THEN /\ view' = Analyzed(listed, t, idle, failed).view
                   /\ analyzed' = Analyzed(listed, t, idle, failed).analyzed
                   /\ byLine' = Analyzed(listed, t, idle, failed).byLine
              ELSE view' = listed /\ analyzed' = FALSE /\ byLine' = {}
  BY Zenon DEF LoadTrace
<1>5. /\ base \in Views /\ base.lines = Unpopulated /\ base.source = {} /\ base.registry = <<>>
      /\ base.row = view.row /\ base.drawtype = view.drawtype /\ base.active = ""
  <2>1. base \in Views
    <3>1. Unpopulated \in Lines BY DEF Unpopulated, Lines
    <3>2. <<>> \in Seq(Category) OBVIOUS
    <3> QED BY <1>1, <3>1, <3>2 DEF Views
  <2>2. base.lines = Unpopulated /\ base.source = {} /\ base.registry = <<>> BY <1>1 DEF Views
  <2>3. base.row = view.row /\ base.drawtype = view.drawtype /\ base.active = "" BY <1>1 DEF Views
  <2> QED BY <2>1, <2>2, <2>3
<1> HIDE DEF base
<1>6. Settled(base) BY <1>1, <1>5 DEF Settled
<1>7. Rebuilt(base, cleared, FALSE) BY <1>5, <1>6, RebuildFacts
<1> HIDE DEF cleared
<1>8. cleared.registry = <<>> /\ cleared.lines = Unpopulated /\ cleared.source = {}
  BY <1>5, <1>7 DEF Rebuilt, SameListing
<1>9. Good(cleared, idle, FALSE) /\ ~MemoryShown(cleared)
  <2>1. DOMAIN cleared.registry = {}
    <3>1. DOMAIN <<>> = {} OBVIOUS
    <3> QED BY <1>8, <3>1
  <2>2. CategoriesOfLines(cleared, idle) BY <2>1 DEF CategoriesOfLines
  <2>3. ~MemoryShown(cleared) BY <2>1 DEF MemoryShown, Categories
  <2> QED BY <1>7, <2>2, <2>3 DEF Good, Rebuilt
<1>10. /\ Good(listed, idle, FALSE) /\ ~MemoryShown(listed)
       /\ listed.lines.hidden = {} /\ listed.source = {}
  <2>1. CASE t.pcs
    <3> DEFINE stamp == populates + 1
               w == Populate(cleared, t, stamp, idle, FALSE)
    <3>1. listed = w BY <2>1
    <3>2. cleared \in Views /\ Settled(cleared) BY <1>9, ViewReady
    <3>3. stamp \in Nat BY <1>2
    <3> HIDE DEF stamp, listed
    <3>4. Populated(cleared, w, stamp, idle, FALSE) BY <1>2, <3>2, <3>3, PopulateFacts
    <3> QED BY <1>8, <3>1, <3>4, Zenon DEF Populated
  <2>2. CASE ~t.pcs
    <3>1. listed = cleared BY <2>2
    <3> HIDE DEF listed
    <3>2. Unpopulated.hidden = {} BY DEF Unpopulated
    <3> QED BY <1>8, <1>9, <3>1, <3>2
  <2> QED BY <2>1, <2>2
<1> HIDE DEF listed
<1>11. /\ Good(view', idle, analyzed') /\ ~MemoryShown(view') /\ analyzed' \in BOOLEAN
       /\ byLine' = IF analyzed' THEN t.pairs ELSE {}
       /\ view'.lines.hidden = IF view'.lines.stamp = 0 THEN {} ELSE byLine'
       /\ view'.source = view'.lines.hidden
  <2>1. CASE t.sqtt /\ t.auto
    <3>1. listed \in Views /\ Settled(listed) /\ MemoryOfLines(listed) BY <1>10, ViewReady
    <3> DEFINE ran == Analyzed(listed, t, idle, failed)
    <3>2. /\ ran.analyzed \in BOOLEAN
          /\ ran.byLine = IF ran.analyzed THEN t.pairs ELSE {}
          /\ Refreshed(listed, ran.view, ran.byLine, idle, ran.analyzed)
      BY <3>1, <1>2, AnalyzedFacts
    <3>3. view' = ran.view /\ analyzed' = ran.analyzed /\ byLine' = ran.byLine BY <1>4, <2>1
    <3> HIDE DEF ran
    <3> QED BY <3>2, <3>3, <1>10 DEF Refreshed
  <2>2. CASE ~(t.sqtt /\ t.auto)
    <3>1. view' = listed /\ analyzed' = FALSE /\ byLine' = {} BY <1>4, <2>2
    <3> QED BY <3>1, <1>10
  <2> QED BY <2>1, <2>2
<1>12. HiddenOfStore'
  <2>1. Current' = t BY <1>4, CurrentIs DEF Current
  <2> QED BY <2>1, <1>11 DEF HiddenOfStore
<1>13. populates' \in Nat BY <1>2, <1>4
<1> QED BY <1>2, <1>4, <1>11, <1>12, <1>13 DEF ViewsInv

(* What the invariant says of the trace that is open.                      *)
LEMMA OpenFacts ==
    ASSUME ViewsInv, IsOpen
    PROVE  /\ Current \in Traces /\ trace = {Current}
           /\ byLine = IF analyzed THEN Current.pairs ELSE {}
           /\ byLine \in SUBSET Pairs
           /\ view \in Views /\ Settled(view) /\ MemoryOfLines(view)
           /\ idle \in BOOLEAN /\ analyzed \in BOOLEAN /\ populates \in Nat
           /\ HiddenOfStore
<1>1. PICK t \in Traces : trace = {t} BY DEF ViewsInv, IsOpen
<1>2. Current = t BY <1>1, CurrentIs
<1>3. HiddenOfStore BY DEF ViewsInv, IsOpen
<1>4. byLine = IF analyzed THEN Current.pairs ELSE {} BY <1>3 DEF HiddenOfStore
<1>5. byLine \in SUBSET Pairs BY <1>2, <1>4 DEF Pairs
<1>6. view \in Views /\ Settled(view) /\ MemoryOfLines(view) BY ViewReady DEF ViewsInv
<1> QED BY <1>1, <1>2, <1>3, <1>4, <1>5, <1>6 DEF ViewsInv

LEMMA ShowRangeKeeps ==
    ASSUME ViewsInv, ShowRange
    PROVE  ViewsInv'
<1> DEFINE reset == [view EXCEPT !.source = {}]
           stamp == populates + 1
           listed == Populate(reset, Current, stamp, idle, analyzed)
<1>1. IsOpen BY DEF ShowRange
<1>2. /\ Current \in Traces /\ trace = {Current}
      /\ byLine = IF analyzed THEN Current.pairs ELSE {}
      /\ byLine \in SUBSET Pairs
      /\ view \in Views /\ Settled(view)
      /\ idle \in BOOLEAN /\ analyzed \in BOOLEAN /\ populates \in Nat
  BY <1>1, OpenFacts
<1>3. /\ populates' = stamp /\ memory' = {}
      /\ view' = IF analyzed THEN RefreshHidden(listed, Current, byLine, idle) ELSE listed
      /\ trace' = trace /\ analyzed' = analyzed /\ byLine' = byLine /\ idle' = idle
  BY Zenon DEF ShowRange
<1>4. stamp \in Nat BY <1>2
<1>5. reset \in Views /\ Settled(reset) /\ reset.source = {}
  <2>1. {} \in SUBSET Pairs OBVIOUS
  <2>2. reset \in Views /\ reset.source = {} /\ SameSelection(view, reset) BY <1>2, <2>1, WithSource
  <2> HIDE DEF reset
  <2> QED BY <1>2, <2>2 DEF Settled, SameSelection
<1> HIDE DEF reset, stamp
<1>6. Populated(reset, listed, stamp, idle, analyzed) BY <1>2, <1>4, <1>5, PopulateFacts
<1> HIDE DEF listed
<1>7. /\ Good(view', idle, analyzed) /\ ~MemoryShown(view')
      /\ view'.lines.hidden = IF view'.lines.stamp = 0 THEN {} ELSE byLine
      /\ view'.source = view'.lines.hidden
  <2>1. CASE analyzed
    <3> DEFINE w == RefreshHidden(listed, Current, byLine, idle)
    <3>1. view' = w BY <1>3, <2>1
    <3>2. listed \in Views /\ Settled(listed) /\ MemoryOfLines(listed) BY <1>6, ViewReady DEF Populated
    <3>3. Refreshed(listed, w, byLine, idle, TRUE) BY <1>2, <3>2, RefreshedFacts DEF RefreshHidden
    <3>4. analyzed = TRUE BY <1>2, <2>1
    <3> HIDE DEF w
    <3> QED BY <1>6, <3>1, <3>3, <3>4 DEF Refreshed, Populated
  <2>2. CASE ~analyzed
    <3>1. view' = listed /\ byLine = {} BY <1>2, <1>3, <2>2
    <3> QED BY <1>5, <1>6, <3>1 DEF Populated
  <2> QED BY <2>1, <2>2
<1>8. HiddenOfStore'
  <2>1. Current' = Current BY <1>3 DEF Current
  <2> QED BY <2>1, <1>2, <1>3, <1>7 DEF HiddenOfStore
<1> QED BY <1>2, <1>3, <1>4, <1>7, <1>8 DEF ViewsInv

(* A step that leaves the trace and the dialog alone, with a view that is  *)
(* good for what it leaves.                                                *)
LEMMA ViewStep ==
    ASSUME ViewsInv, IsOpen, trace' = trace, memory' = memory, populates' = populates,
           idle' \in BOOLEAN, analyzed' \in BOOLEAN,
           byLine' = IF analyzed' THEN Current.pairs ELSE {},
           Refreshed(view, view', byLine', idle', analyzed')
    PROVE  ViewsInv'
<1>1. trace = {Current} /\ Current \in Traces /\ populates \in Nat BY OpenFacts
<1>2. /\ Good(view', idle', analyzed') /\ (MemoryShown(view') <=> MemoryShown(view))
      /\ view'.lines.hidden = IF view'.lines.stamp = 0 THEN {} ELSE byLine'
      /\ view'.source = view'.lines.hidden
  BY DEF Refreshed
<1>3. HiddenOfStore'
  <2>1. Current' = Current BY DEF Current
  <2> QED BY <2>1, <1>2 DEF HiddenOfStore
<1>4. (memory' # {}) <=> MemoryShown(view') BY <1>2 DEF ViewsInv
<1> QED BY <1>1, <1>2, <1>3, <1>4 DEF ViewsInv

LEMMA ChangeRangeOfNothingKeeps ==
    ASSUME ViewsInv, ChangeRangeOfNothing
    PROVE  ViewsInv'
<1> DEFINE reset == [view EXCEPT !.source = {}]
<1>1. IsOpen BY DEF ChangeRangeOfNothing
<1>2. /\ Current \in Traces
      /\ byLine = IF analyzed THEN Current.pairs ELSE {}
      /\ byLine \in SUBSET Pairs
      /\ view \in Views /\ Settled(view) /\ MemoryOfLines(view)
      /\ idle \in BOOLEAN /\ analyzed \in BOOLEAN /\ HiddenOfStore
  BY <1>1, OpenFacts
<1>3. /\ view' = IF analyzed THEN RefreshHidden(reset, Current, byLine, idle) ELSE reset
      /\ trace' = trace /\ analyzed' = analyzed /\ byLine' = byLine /\ idle' = idle
      /\ populates' = populates /\ memory' = memory
  BY Zenon DEF ChangeRangeOfNothing, mainVars, dialogVars
<1>4. /\ reset \in Views /\ reset.lines = view.lines /\ reset.source = {}
      /\ reset.registry = view.registry /\ SameSelection(view, reset)
  <2>1. {} \in SUBSET Pairs OBVIOUS
  <2> QED BY <1>2, <2>1, WithSource
<1> HIDE DEF reset
<1>5. Settled(reset) /\ MemoryOfLines(reset) /\ (MemoryShown(reset) <=> MemoryShown(view))
  BY <1>2, <1>4 DEF Settled, SameSelection, MemoryOfLines, MemoryShown, Categories
<1>6. Refreshed(view, view', byLine, idle, analyzed)
  <2>1. CASE analyzed
    <3> DEFINE w == RefreshHidden(reset, Current, byLine, idle)
    <3>1. view' = w /\ analyzed = TRUE BY <1>2, <1>3, <2>1
    <3>2. Refreshed(reset, w, byLine, idle, TRUE) BY <1>2, <1>4, <1>5, RefreshedFacts DEF RefreshHidden
    <3> HIDE DEF w
    <3> QED BY <1>4, <1>5, <3>1, <3>2 DEF Refreshed
  <2>2. CASE ~analyzed
    <3>1. view' = reset /\ byLine = {} /\ reset.lines.hidden = {}
      BY <1>2, <1>3, <1>4, <2>2 DEF HiddenOfStore
    <3>2. Good(reset, idle, analyzed)
      <4>1. Good(view, idle, analyzed) BY DEF ViewsInv
      <4>2. /\ reset.rows = view.rows /\ reset.row = view.row
            /\ reset.drawtype = view.drawtype /\ reset.active = view.active
        BY <1>4 DEF SameSelection
      <4>3. RowIsDrawn(reset) BY <1>4, <4>1, <4>2 DEF Good, RowIsDrawn
      <4>4. CategoriesOfLines(reset, idle) BY <1>4, <4>1 DEF Good, CategoriesOfLines
      <4>5. NonhiddenOffered(reset, analyzed) /\ OthersOffered(reset)
        BY <4>1, <4>2 DEF Good, NonhiddenOffered, OthersOffered
      <4> QED BY <1>4, <4>3, <4>4, <4>5 DEF Good
    <3> QED BY <1>4, <1>5, <3>1, <3>2 DEF Refreshed
  <2> QED BY <2>1, <2>2
<1> QED BY <1>1, <1>2, <1>3, <1>6, ViewStep

LEMMA AnalyzeHiddenKeeps ==
    ASSUME ViewsInv, NEW failed \in BOOLEAN, AnalyzeHidden(failed)
    PROVE  ViewsInv'
<1> DEFINE ran == Analyzed(view, Current, idle, failed)
<1>1. IsOpen BY DEF AnalyzeHidden
<1>2. /\ Current \in Traces /\ view \in Views /\ Settled(view) /\ MemoryOfLines(view)
      /\ idle \in BOOLEAN
  BY <1>1, OpenFacts
<1>3. /\ view' = ran.view /\ analyzed' = ran.analyzed /\ byLine' = ran.byLine
      /\ trace' = trace /\ idle' = idle /\ populates' = populates /\ memory' = memory
  BY Zenon DEF AnalyzeHidden, dialogVars
<1>4. /\ ran.analyzed \in BOOLEAN
      /\ ran.byLine = IF ran.analyzed THEN Current.pairs ELSE {}
      /\ Refreshed(view, ran.view, ran.byLine, idle, ran.analyzed)
  BY <1>2, AnalyzedFacts
<1> HIDE DEF ran
<1>5. /\ analyzed' \in BOOLEAN
      /\ byLine' = IF analyzed' THEN Current.pairs ELSE {}
      /\ Refreshed(view, view', byLine', idle', analyzed')
  BY <1>3, <1>4, Zenon
<1> QED BY <1>1, <1>2, <1>3, <1>5, ViewStep

LEMMA ShowIdleTimeKeeps ==
    ASSUME ViewsInv, ShowIdleTime
    PROVE  ViewsInv'
<1>1. IsOpen BY DEF ShowIdleTime
<1>2. /\ byLine = IF analyzed THEN Current.pairs ELSE {}
      /\ view \in Views /\ Settled(view) /\ MemoryOfLines(view)
      /\ idle \in BOOLEAN /\ analyzed \in BOOLEAN /\ HiddenOfStore
  BY <1>1, OpenFacts
<1>3. /\ idle' = ~idle /\ view' = PublishCategories(view, Current, idle', analyzed)
      /\ trace' = trace /\ analyzed' = analyzed /\ byLine' = byLine
      /\ populates' = populates /\ memory' = memory
  BY DEF ShowIdleTime, dialogVars
<1>4. idle' \in BOOLEAN BY <1>3
<1>5. Republished(view, view', idle', analyzed) BY <1>2, <1>3, <1>4, CategoriesFacts
<1>6. Refreshed(view, view', byLine, idle', analyzed)
  BY <1>2, <1>5 DEF Republished, SameListing, Refreshed, HiddenOfStore
<1> QED BY <1>1, <1>2, <1>3, <1>4, <1>6, ViewStep

(* The user picks a row: only what is drawn changes.                       *)
LEMMA PickKeeps ==
    ASSUME ViewsInv, IsOpen, NEW n \in Nat \ {0}, NEW d \in {"Waitcnt", "Branch", "Annotation"},
           NEW id \in CategoryIds \cup {""},
           view' = [view EXCEPT !.row = n, !.drawtype = d, !.active = id],
           IF n <= 2 THEN d = Builtin[n] /\ id = ""
           ELSE d = "Annotation" /\ id = view.rows[n - 2].id /\ view.rows[n - 2].enabled,
           UNCHANGED <<mainVars, dialogVars>>
    PROVE  ViewsInv'
<1>1. view \in Views /\ Good(view, idle, analyzed) BY DEF ViewsInv, Good
<1>2. view' \in Views BY <1>1 DEF Views
<1>3. /\ view'.registry = view.registry /\ view'.lines = view.lines
      /\ view'.source = view.source /\ view'.rows = view.rows
  BY <1>1 DEF Views
<1>4. view'.row = n /\ view'.drawtype = d /\ view'.active = id BY <1>1 DEF Views
<1>5. /\ trace' = trace /\ analyzed' = analyzed /\ byLine' = byLine /\ idle' = idle
      /\ populates' = populates /\ memory' = memory
  BY DEF mainVars, dialogVars
<1> DEFINE w == view'
<1>6. RowIsDrawn(w)
  <2>1. [i \in DOMAIN w.rows |-> w.rows[i].id] = [i \in DOMAIN w.registry |-> w.registry[i].id]
    <3>1. [i \in DOMAIN view.rows |-> view.rows[i].id] = [i \in DOMAIN view.registry |-> view.registry[i].id]
      BY <1>1 DEF Good, RowIsDrawn
    <3>2. w.rows = view.rows /\ w.registry = view.registry BY <1>3
    <3> HIDE DEF w
    <3> QED BY <3>1, <3>2
  <2>2. IF w.row <= 2 THEN w.drawtype = Builtin[w.row] /\ w.active = ""
        ELSE w.drawtype = "Annotation" /\ w.active = w.rows[w.row - 2].id /\ w.rows[w.row - 2].enabled
    <3> HIDE DEF w
    <3> QED BY <1>3, <1>4 DEF w
  <2> HIDE DEF w
  <2> QED BY <2>1, <2>2, BuiltinFacts DEF RowIsDrawn
<1>a. w.registry = view.registry /\ w.lines = view.lines /\ w.rows = view.rows BY <1>3
<1> HIDE DEF w
<1>7. CategoriesOfLines(w, idle) BY <1>1, <1>a DEF Good, CategoriesOfLines
<1>8. NonhiddenOffered(w, analyzed) /\ OthersOffered(w)
  BY <1>1, <1>a DEF Good, NonhiddenOffered, OthersOffered
<1>9. Good(w, idle, analyzed) BY <1>2, <1>6, <1>7, <1>8 DEF Good, w
<1>10. MemoryShown(w) <=> MemoryShown(view) BY <1>a DEF MemoryShown, Categories
<1>11. /\ byLine = IF analyzed THEN Current.pairs ELSE {}
       /\ idle \in BOOLEAN /\ analyzed \in BOOLEAN /\ HiddenOfStore
  BY OpenFacts
<1>12. Refreshed(view, w, byLine, idle, analyzed)
  BY <1>3, <1>9, <1>10, <1>11 DEF Refreshed, HiddenOfStore, w
<1> QED BY <1>5, <1>11, <1>12, ViewStep DEF w

LEMMA PickBuiltinKeeps ==
    ASSUME ViewsInv, NEW r \in DOMAIN Builtin, PickBuiltin(r)
    PROVE  ViewsInv'
<1>1. r \in {1, 2} BY DEF Builtin
<1>2. r \in Nat \ {0} /\ r <= 2 BY <1>1
<1>3. Builtin[r] \in {"Waitcnt", "Branch", "Annotation"} BY <1>1, BuiltinFacts
<1>4. /\ IsOpen /\ UNCHANGED <<mainVars, dialogVars>>
      /\ view' = [view EXCEPT !.row = r, !.drawtype = Builtin[r], !.active = ""]
  BY DEF PickBuiltin
<1> QED BY <1>2, <1>3, <1>4, PickKeeps

LEMMA PickAnnotationKeeps ==
    ASSUME ViewsInv, NEW i \in DOMAIN view.rows, PickAnnotation(i)
    PROVE  ViewsInv'
<1>1. view \in Views BY DEF ViewsInv, Good
<1>2. DOMAIN view.rows = 1 .. Len(view.rows) /\ view.rows[i] \in Row BY <1>1, ViewFacts, ListFacts
<1> DEFINE n == 2 + i
<1>3. n \in Nat \ {0} /\ ~(n <= 2) /\ n - 2 = i BY <1>2
<1>4. view.rows[i].id \in CategoryIds \cup {""} BY <1>2 DEF Row
<1>5. /\ IsOpen /\ UNCHANGED <<mainVars, dialogVars>> /\ view.rows[i].enabled
      /\ view' = [view EXCEPT !.row = n, !.drawtype = "Annotation", !.active = view.rows[i].id]
  BY BuiltinFacts DEF PickAnnotation
<1> HIDE DEF n
<1> QED BY <1>3, <1>4, <1>5, PickKeeps

LEMMA PublishMemoryLatencyKeeps ==
    ASSUME ViewsInv, PublishMemoryLatency
    PROVE  ViewsInv'
<1>1. /\ view \in Views /\ Settled(view) /\ Good(view, idle, analyzed)
      /\ idle \in BOOLEAN /\ analyzed \in BOOLEAN
  BY ViewReady DEF ViewsInv
<1> DEFINE cat == [id |-> "memory_latency", lines |-> view.lines, idle |-> idle]
           cleared == Clear(view, {"memory_latency"})
           added == Publish(view, cat)
<1>2. /\ view' = IF memory' = {} THEN RebuildRows(cleared, analyzed)
                 ELSE SelectAnnotation(RebuildRows(added, analyzed), "memory_latency")
      /\ UNCHANGED mainVars
  BY Zenon DEF PublishMemoryLatency
<1>3. \A c \in Categories(view) :
         IF c.id = "memory_latency" THEN c.lines.stamp = view.lines.stamp
         ELSE c.lines = view.lines /\ c.idle = idle
  BY <1>1 DEF Good, CategoriesOfLines, Categories
<1>4. /\ Good(view', idle, analyzed) /\ SameListing(view, view')
      /\ (memory' # {}) <=> MemoryShown(view')
  <2>1. CASE memory' = {}
    <3>1. /\ cleared \in Views
          /\ Categories(cleared) = {c \in Categories(view) : c.id \notin {"memory_latency"}}
          /\ SameListing(view, cleared) /\ SameSelection(view, cleared)
      BY <1>1, ClearFacts
    <3> HIDE DEF cleared
    <3>2. Settled(cleared) BY <1>1, <3>1 DEF Settled, SameSelection
    <3> DEFINE w == RebuildRows(cleared, analyzed)
    <3>3. Rebuilt(cleared, w, analyzed) BY <1>1, <3>1, <3>2, RebuildFacts
    <3>4. view' = w BY <1>2, <2>1
    <3> HIDE DEF w
    <3>5. Categories(w) = {c \in Categories(view) : c.id \notin {"memory_latency"}}
      BY <3>1, <3>3 DEF Rebuilt, Categories
    <3>6. SameListing(view, w) BY <3>1, <3>3 DEF Rebuilt, SameListing
    <3>7. CategoriesOfLines(w, idle)
      <4>1. \A c \in Categories(w) :
               IF c.id = "memory_latency" THEN c.lines.stamp = w.lines.stamp
               ELSE c.lines = w.lines /\ c.idle = idle
        BY <1>3, <3>5, <3>6 DEF SameListing
      <4> QED BY <3>3, <4>1, OfLines DEF Rebuilt
    <3>8. ~MemoryShown(w) BY <3>5 DEF MemoryShown
    <3> QED BY <2>1, <3>3, <3>4, <3>6, <3>7, <3>8 DEF Good, Rebuilt
  <2>2. CASE memory' # {}
    <3>1. cat \in Category /\ cat.id = "memory_latency" /\ cat.lines = view.lines
      <4>1. view.lines \in Lines BY <1>1, ViewFacts
      <4> QED BY <1>1, <4>1 DEF Category, CategoryIds
    <3> HIDE DEF cat
    <3>2. /\ added \in Views
          /\ cat \in Categories(added)
          /\ Categories(added) \subseteq Categories(view) \cup {cat}
          /\ SameListing(view, added) /\ SameSelection(view, added)
      BY <1>1, <3>1, PublishFacts
    <3> HIDE DEF added
    <3>3. Settled(added) BY <1>1, <3>2 DEF Settled, SameSelection
    <3> DEFINE x == RebuildRows(added, analyzed)
               w == SelectAnnotation(x, "memory_latency")
    <3>4. Rebuilt(added, x, analyzed) BY <1>1, <3>2, <3>3, RebuildFacts
    <3>5. view' = w BY <1>2, <2>2
    <3> HIDE DEF x
    <3>6. Categories(x) = Categories(added) BY <3>4 DEF Rebuilt, Categories
    <3>7. SameListing(view, x) BY <3>2, <3>4 DEF Rebuilt, SameListing
    <3>8. CategoriesOfLines(x, idle)
      <4>1. \A c \in Categories(x) :
               IF c.id = "memory_latency" THEN c.lines.stamp = x.lines.stamp
               ELSE c.lines = x.lines /\ c.idle = idle
        BY <1>3, <3>1, <3>2, <3>6, <3>7 DEF SameListing
      <4> QED BY <3>4, <4>1, OfLines DEF Rebuilt
    <3>9. Good(x, idle, analyzed) BY <3>4, <3>8 DEF Good, Rebuilt
    <3>10. "memory_latency" \in CategoryIds \ {"nonhidden_latency"} BY DEF CategoryIds
    <3>11. Good(w, idle, analyzed) /\ w.registry = x.registry /\ SameListing(x, w)
      BY <3>9, <3>10, SelectKeepsGood
    <3> HIDE DEF w
    <3>12. MemoryShown(w) BY <3>1, <3>2, <3>6, <3>11 DEF MemoryShown, Categories
    <3>13. SameListing(view, w) BY <3>7, <3>11 DEF SameListing
    <3> QED BY <2>2, <3>5, <3>11, <3>12, <3>13
  <2> QED BY <2>1, <2>2
<1>5. /\ trace' = trace /\ analyzed' = analyzed /\ byLine' = byLine /\ idle' = idle
      /\ populates' = populates
  BY <1>2 DEF mainVars
<1>6. trace # {} => HiddenOfStore'
  <2>1. Current' = Current BY <1>5 DEF Current
  <2>2. view'.lines = view.lines /\ view'.source = view.source BY <1>4 DEF SameListing
  <2> QED BY <1>5, <2>1, <2>2 DEF ViewsInv, HiddenOfStore
<1> QED BY <1>4, <1>5, <1>6 DEF ViewsInv

LEMMA InitViewsInv ==
    ASSUME Init
    PROVE  ViewsInv
<1>1. /\ trace = {} /\ analyzed = FALSE /\ idle \in BOOLEAN /\ populates = 0 /\ memory = {}
      /\ view = [lines |-> Unpopulated, source |-> {}, registry |-> <<>>, rows |-> <<>>, row |-> 1,
                 drawtype |-> Builtin[1], active |-> "", builtin |-> TRUE]
  BY DEF Init, DialogInit
<1>2. Unpopulated \in Lines /\ <<>> \in Seq(Category) /\ <<>> \in Seq(Row) /\ DOMAIN <<>> = {}
  BY DEF Unpopulated, Lines
<1>3. view \in Views BY <1>1, <1>2, BuiltinFacts DEF Views
<1>4. /\ view.registry = <<>> /\ view.rows = <<>> /\ view.row = 1
      /\ view.drawtype = Builtin[1] /\ view.active = ""
  BY <1>1
<1>5. RowIsDrawn(view)
  <2>1. [i \in DOMAIN view.rows |-> view.rows[i].id] = [i \in DOMAIN view.registry |-> view.registry[i].id]
    <3>1. DOMAIN view.rows = {} /\ DOMAIN view.registry = {} BY <1>2, <1>4, Zenon
    <3> QED BY <3>1
  <2>2. view.row <= Len(Builtin)
    <3>1. view.row = 1 /\ Len(Builtin) = 2 BY <1>4, BuiltinFacts, Zenon
    <3> QED BY <3>1
  <2> QED BY <1>4, <2>1, <2>2, BuiltinFacts DEF RowIsDrawn
<1>6. CategoriesOfLines(view, idle) /\ NonhiddenOffered(view, analyzed) /\ OthersOffered(view)
  BY <1>2, <1>4 DEF CategoriesOfLines, NonhiddenOffered, OthersOffered
<1>7. ~MemoryShown(view) BY <1>2, <1>4 DEF MemoryShown, Categories
<1> QED BY <1>1, <1>3, <1>5, <1>6, <1>7 DEF ViewsInv, Good

LEMMA DialogLeavesMemory ==
    ASSUME Unpublished \/ LeaveDialog
    PROVE  UNCHANGED memory
BY DEF Unpublished, LeaveDialog, StartAnalysis, BeginEngine, ReadPerfData, ReadWaveFile, CollectWaveFile,
       CollectFailure, WaveFilesLoaded, AnalyzeEngine, PerfDataFails, PostFinished, PostError,
       ErrorShown, ExecReturns, Destroy

(* Steps that leave what the invariant is about.                           *)
LEMMA ViewsStutter ==
    ASSUME ViewsInv, UNCHANGED <<mainVars, view, memory>>
    PROVE  ViewsInv'
<1>1. /\ trace' = trace /\ analyzed' = analyzed /\ byLine' = byLine /\ idle' = idle
      /\ populates' = populates /\ view' = view /\ memory' = memory
  BY DEF mainVars
<1>2. Current' = Current BY <1>1 DEF Current
<1> QED BY <1>1, <1>2 DEF ViewsInv, HiddenOfStore

LEMMA NextViewsInv ==
    ASSUME ViewsInv, [Next]_vars
    PROVE  ViewsInv'
<1>1. CASE \E t \in Traces : LoadTrace(t) BY <1>1, LoadTraceKeeps
<1>2. CASE SetMainWave BY <1>2, ShowRangeKeeps DEF SetMainWave
<1>3. CASE ChangeRange BY <1>3, ShowRangeKeeps DEF ChangeRange
<1>4. CASE ChangeRangeOfNothing BY <1>4, ChangeRangeOfNothingKeeps
<1>5. CASE \E failed \in BOOLEAN : AnalyzeHidden(failed) BY <1>5, AnalyzeHiddenKeeps
<1>6. CASE ShowIdleTime BY <1>6, ShowIdleTimeKeeps
<1>7. CASE \E r \in DOMAIN Builtin : PickBuiltin(r) BY <1>7, PickBuiltinKeeps
<1>8. CASE \E i \in DOMAIN view.rows : PickAnnotation(i) BY <1>8, PickAnnotationKeeps
<1>9. CASE MeasureMemoryLatency
  <2>1. UNCHANGED <<mainVars, view, memory>> BY <1>9, Zenon DEF MeasureMemoryLatency, OpenDialog
  <2> QED BY <2>1, ViewsStutter
<1>10. CASE PublishMemoryLatency BY <1>10, PublishMemoryLatencyKeeps
<1>11. CASE (Unpublished \/ LeaveDialog) /\ UNCHANGED <<mainVars, view>>
  <2>1. UNCHANGED <<mainVars, view, memory>> BY <1>11, DialogLeavesMemory
  <2> QED BY <2>1, ViewsStutter
<1>12. CASE UNCHANGED vars
  <2>1. UNCHANGED <<mainVars, view, memory>> BY <1>12, Zenon DEF vars, dialogVars
  <2> QED BY <2>1, ViewsStutter
<1> QED BY <1>1, <1>2, <1>3, <1>4, <1>5, <1>6, <1>7, <1>8, <1>9, <1>10, <1>11, <1>12, Zenon DEF Next

(* The invariant of the listing, the registry, the selector and the store. *)
THEOREM ViewsInvariance == Spec => []ViewsInv
BY InitViewsInv, NextViewsInv, PTL DEF Spec

(* PublishCategories, DrawTypeSelector and the hidden-latency analysis:    *)
(* for any traces, and any order of loads, range changes, analyses,        *)
(* settings and choices, what is drawn is a category that exists, made of  *)
(* the lines now listed with the settings now in force.                    *)
THEOREM ListingShowsCurrent == Spec => []ShownIsCurrent
<1>1. ASSUME ViewsInv PROVE ShownIsCurrent
  <2>1. MemoryShown(view) <=> Position(view.registry, "memory_latency") # {}
    BY DEF MemoryShown, Categories, Position
  <2> QED BY <1>1, <2>1 DEF ViewsInv, Good, ShownIsCurrent
<1> QED BY <1>1, ViewsInvariance, PTL
=============================================================================
