------------------------ MODULE TraceAnalyses_proofs ------------------------
(***************************************************************************)
(* Proofs about what is computed of a decoded trace: the union of busy     *)
(* periods (BusyUnion), the hidden latencies by line that are made of it   *)
(* (HiddenLatency), and the dispatches and events that are drawn of an     *)
(* engine (GlobalView).                                                    *)
(***************************************************************************)
EXTENDS HiddenLatency, GlobalView, AggregateTheorems, SequenceTheorems


(***************************************************************************)
(* The merge of any two lists of periods, each in the order in which they  *)
(* begin, is exact.                                                        *)
(*                                                                         *)
(* UnionExact is not inductive: that an appended period either opens a new *)
(* one after the last or extends the last without a gap depends on no      *)
(* period still to be taken beginning before the last one of the result.   *)
(***************************************************************************)
(* No period of s from position n on begins before the last one of o.      *)
Ahead(o, s, n) == o # <<>> => \A i \in n .. Len(s) : BeginOf(o[Len(o)]) <= BeginOf(s[i])

UnionInv ==
    /\ MergeTypeOK
    /\ BeginOrdered(va)
    /\ BeginOrdered(vb)
    /\ Ahead(out, va, a)
    /\ Ahead(out, vb, b)
    /\ UnionExact

-----------------------------------------------------------------------------
(* Lists of periods.                                                       *)
LEMMA SeqFacts ==
    ASSUME NEW s \in Seq(Util)
    PROVE  /\ Len(s) \in Nat
           /\ DOMAIN s = 1 .. Len(s)
           /\ \A i \in 1 .. Len(s) : s[i] \in Util
           /\ s = <<>> <=> Len(s) = 0
OBVIOUS

(* A period ends at its clock and covers the cycles before it.             *)
LEMMA UtilFacts ==
    ASSUME NEW u \in Util
    PROVE  /\ u.clock \in Int /\ u.cycles \in Nat
           /\ BeginOf(u) \in Int
           /\ BeginOf(u) <= u.clock
           /\ u.cycles = 0 <=> BeginOf(u) = u.clock
           /\ \A t : t \in CyclesOf(u) <=> t \in Int /\ BeginOf(u) <= t /\ t < u.clock
BY DEF Util, BeginOf, CyclesOf

(* The last period of the result, extended by one that begins within it or *)
(* at its end, covers both.                                                *)
LEMMA ExtendFacts ==
    ASSUME NEW u \in Util, NEW v \in Util, v.cycles > 0,
           BeginOf(v) <= BeginOf(u), BeginOf(u) <= v.clock
    PROVE  /\ Extend(v, u) \in Util
           /\ Extend(v, u).cycles > 0
           /\ BeginOf(Extend(v, u)) = BeginOf(v)
           /\ CyclesOf(Extend(v, u)) = CyclesOf(v) \cup CyclesOf(u)
<1>. DEFINE e == Extend(v, u)
<1>1. CASE v.clock < u.clock
  <2>1. e = [clock |-> u.clock, cycles |-> u.clock - BeginOf(v)] BY <1>1 DEF Extend
  <2>2. u.clock - BeginOf(v) \in Nat /\ u.clock - BeginOf(v) > 0 BY <1>1, UtilFacts
  <2>3. e \in Util /\ e.cycles > 0 /\ e.clock = u.clock BY <2>1, <2>2, UtilFacts DEF Util
  <2>4. BeginOf(e) = BeginOf(v) BY <2>1, UtilFacts DEF BeginOf
  <2>5. CyclesOf(e) = CyclesOf(v) \cup CyclesOf(u) BY <1>1, <2>3, <2>4, UtilFacts DEF CyclesOf
  <2>. QED BY <2>3, <2>4, <2>5
<1>2. CASE ~(v.clock < u.clock)
  <2>1. e = [clock |-> v.clock, cycles |-> v.clock - BeginOf(v)] BY <1>2 DEF Extend
  <2>2. v.clock - BeginOf(v) \in Nat /\ v.clock - BeginOf(v) > 0 BY UtilFacts
  <2>3. e \in Util /\ e.cycles > 0 /\ e.clock = v.clock BY <2>1, <2>2, UtilFacts DEF Util
  <2>4. BeginOf(e) = BeginOf(v) BY <2>1, UtilFacts DEF BeginOf
  <2>5. CyclesOf(e) = CyclesOf(v) \cup CyclesOf(u) BY <1>2, <2>3, <2>4, UtilFacts DEF CyclesOf
  <2>. QED BY <2>3, <2>4, <2>5
<1>. QED BY <1>1, <1>2

(* A cycle is covered when one of the periods has it.                      *)
LEMMA CoveredFacts ==
    ASSUME NEW s, NEW n
    PROVE  \A t : t \in Covered(s, n) <=> \E i \in 1 .. n : t \in CyclesOf(s[i])
BY DEF Covered

(* One more period is covered.                                             *)
LEMMA CoveredOneMore ==
    ASSUME NEW s, NEW n \in Nat
    PROVE  Covered(s, n + 1) = Covered(s, n) \cup CyclesOf(s[n + 1])
<1>1. 1 .. n + 1 = (1 .. n) \cup {n + 1} OBVIOUS
<1>2. \A t : t \in Covered(s, n + 1) <=> t \in Covered(s, n) \/ t \in CyclesOf(s[n + 1])
  BY <1>1, CoveredFacts
<1>. QED BY <1>2

(* What is covered depends on the periods alone.                           *)
LEMMA CoveredSame ==
    ASSUME NEW s, NEW r, NEW n \in Nat, \A i \in 1 .. n : r[i] = s[i]
    PROVE  Covered(r, n) = Covered(s, n)
<1>1. \A t : t \in Covered(r, n) <=> t \in Covered(s, n) BY CoveredFacts
<1>. QED BY <1>1

(* No period covers nothing.                                               *)
LEMMA CoveredNone ==
    ASSUME NEW s
    PROVE  Covered(s, 0) = {}
<1>1. \A t : t \notin Covered(s, 0) BY CoveredFacts
<1>. QED BY <1>1

(* What one append does to a result whose last period begins no later.     *)
LEMMA AppendFacts ==
    ASSUME NEW o \in Seq(Util), NEW u \in Util,
           \A i \in DOMAIN o : o[i].cycles > 0,
           Apart(o),
           o # <<>> => BeginOf(o[Len(o)]) <= BeginOf(u)
    PROVE  /\ AppendUtil(o, u) \in Seq(Util)
           /\ \A i \in DOMAIN AppendUtil(o, u) : AppendUtil(o, u)[i].cycles > 0
           /\ Apart(AppendUtil(o, u))
           /\ Covered(AppendUtil(o, u), Len(AppendUtil(o, u))) = Covered(o, Len(o)) \cup CyclesOf(u)
           /\ AppendUtil(o, u) # <<>> => BeginOf(AppendUtil(o, u)[Len(AppendUtil(o, u))]) <= BeginOf(u)
<1>. DEFINE p == AppendUtil(o, u)
<1>0. /\ Len(o) \in Nat /\ DOMAIN o = 1 .. Len(o) /\ \A i \in 1 .. Len(o) : o[i] \in Util
      /\ o = <<>> <=> Len(o) = 0
  BY SeqFacts
<1>a. \A i, j \in 1 .. Len(o) : i < j => o[i].clock < BeginOf(o[j])
  BY <1>0 DEF Apart
<1>b. \A i \in 1 .. Len(o) : o[i].cycles > 0 /\ o[i].clock \in Int /\ BeginOf(o[i]) \in Int
                             /\ BeginOf(o[i]) <= o[i].clock
  BY <1>0, UtilFacts
<1>c. u.clock \in Int /\ BeginOf(u) \in Int BY UtilFacts
<1>1. CASE u.cycles = 0
  <2>1. p = o BY <1>1 DEF AppendUtil
  <2>2. CyclesOf(u) = {} BY <1>1, UtilFacts
  <2>. QED BY <2>1, <2>2
<1>2. CASE u.cycles # 0 /\ Opens(o, u)
  <2>1. p = Append(o, u) BY <1>2 DEF AppendUtil
  <2>2. /\ p \in Seq(Util) /\ Len(p) = Len(o) + 1 /\ p[Len(o) + 1] = u
        /\ \A i \in 1 .. Len(o) : p[i] = o[i]
        /\ DOMAIN p = 1 .. Len(o) + 1
    BY <2>1, <1>0
  <2>3. \A i \in DOMAIN p : p[i].cycles > 0
    <3>1. u.cycles > 0 /\ DOMAIN o = 1 .. Len(o) /\ Len(o) \in Nat BY <1>0, <1>2, UtilFacts
    <3>2. \A i \in 1 .. Len(o) : o[i].cycles > 0 BY <1>0, <3>1
    <3>. QED BY <2>2, <3>1, <3>2
  <2>4. Apart(p)
    <3>. SUFFICES ASSUME NEW i \in 1 .. Len(o) + 1, NEW j \in 1 .. Len(o) + 1, i < j
                  PROVE  p[i].clock < BeginOf(p[j])
      BY <2>2 DEF Apart
    <3>1. CASE j # Len(o) + 1 BY <3>1, <1>0, <1>a, <2>2
    <3>2. CASE j = Len(o) + 1
      <4>1. Len(o) # 0 /\ i \in 1 .. Len(o) /\ Len(o) \in 1 .. Len(o) BY <3>2, <1>0
      <4>2. o[Len(o)].clock < BeginOf(u) BY <4>1, <1>0, <1>2, UtilFacts DEF Opens
      <4>3. i = Len(o) \/ o[i].clock < BeginOf(o[Len(o)])
        <5>0. \A k \in Nat : \A x \in 1 .. k : x = k \/ x < k OBVIOUS
        <5>1. i = Len(o) \/ i < Len(o) BY <4>1, <1>0, <5>0
        <5>. QED BY <5>1, <4>1, <1>a
      <4>4. o[i].clock < BeginOf(u) BY <4>1, <4>2, <4>3, <1>b, <1>c
      <4>. QED BY <4>1, <4>4, <3>2, <2>2
    <3>. QED BY <3>1, <3>2
  <2>5. Covered(p, Len(p)) = Covered(o, Len(o)) \cup CyclesOf(u)
    <3>1. Covered(p, Len(o)) = Covered(o, Len(o)) BY <2>2, <1>0, CoveredSame
    <3>2. Covered(p, Len(o) + 1) = Covered(p, Len(o)) \cup CyclesOf(p[Len(o) + 1])
      BY <1>0, CoveredOneMore
    <3>. QED BY <3>1, <3>2, <2>2
  <2>. QED BY <2>2, <2>3, <2>4, <2>5, UtilFacts
<1>3. CASE u.cycles # 0 /\ ~Opens(o, u)
  <2>. DEFINE n == Len(o)
             v == o[Len(o)]
             e == Extend(v, u)
  <2>1. o # <<>> /\ n \in 1 .. n /\ n - 1 \in Nat /\ v \in Util /\ v.cycles > 0
    BY <1>0, <1>3 DEF Opens
  <2>2. BeginOf(v) <= BeginOf(u) /\ BeginOf(u) <= v.clock BY <2>1, <1>3, UtilFacts DEF Opens
  <2>3. e \in Util /\ e.cycles > 0 /\ BeginOf(e) = BeginOf(v) /\ CyclesOf(e) = CyclesOf(v) \cup CyclesOf(u)
    BY <2>1, <2>2, ExtendFacts
  <2>4. p = [o EXCEPT ![n] = e] BY <1>3 DEF AppendUtil, Extend
  <2>5. /\ p \in Seq(Util) /\ Len(p) = n /\ p[n] = e /\ DOMAIN p = 1 .. n
        /\ \A i \in 1 .. n : i # n => p[i] = o[i]
    BY <2>1, <2>3, <2>4, <1>0
  <2>6. \A i \in DOMAIN p : p[i].cycles > 0 BY <2>3, <2>5, <1>0
  <2>7. Apart(p)
    <3>. SUFFICES ASSUME NEW i \in 1 .. n, NEW j \in 1 .. n, i < j
                  PROVE  p[i].clock < BeginOf(p[j])
      BY <2>5 DEF Apart
    <3>0. i # n
      <4>1. n \in Nat BY <1>0
      <4>. QED BY <4>1
    <3>1. i # n /\ o[i].clock < BeginOf(o[j]) BY <3>0, <1>a
    <3>2. BeginOf(p[j]) = BeginOf(o[j]) BY <2>3, <2>5
    <3>. QED BY <3>1, <3>2, <2>5
  <2>8. Covered(p, n) = Covered(o, n) \cup CyclesOf(u)
    <3>0. \A k \in Nat : \A i \in 1 .. k - 1 : i \in 1 .. k /\ i # k OBVIOUS
    <3>1. \A i \in 1 .. n - 1 : i \in 1 .. n /\ i # n BY <1>0, <3>0
    <3>1a. \A i \in 1 .. n - 1 : p[i] = o[i] BY <3>1, <2>5
    <3>2. Covered(p, n - 1) = Covered(o, n - 1) BY <3>1a, <2>1, CoveredSame
    <3>3. (n - 1) + 1 = n BY <1>0
    <3>4. Covered(p, n) = Covered(p, n - 1) \cup CyclesOf(e)
      <4>1. n - 1 \in Nat BY <2>1
      <4>2. Covered(p, (n - 1) + 1) = Covered(p, n - 1) \cup CyclesOf(p[(n - 1) + 1])
        BY <4>1, CoveredOneMore
      <4>. QED BY <4>2, <3>3, <2>5, Zenon
    <3>5. Covered(o, n) = Covered(o, n - 1) \cup CyclesOf(v) BY <2>1, <3>3, CoveredOneMore
    <3>. QED BY <3>2, <3>4, <3>5, <2>3
  <2>. QED BY <2>2, <2>3, <2>5, <2>6, <2>7, <2>8
<1>. QED BY <1>1, <1>2, <1>3

-----------------------------------------------------------------------------
(* Taking the period at position n of s, which begins no later than any of *)
(* r from m on, leaves the result behind both lists.                       *)
LEMMA AheadKept ==
    ASSUME NEW o \in Seq(Util), NEW u \in Util, NEW s \in Seq(Util), NEW n \in Nat \ {0},
           o # <<>> => BeginOf(o[Len(o)]) <= BeginOf(u),
           \A i \in n .. Len(s) : BeginOf(u) <= BeginOf(s[i])
    PROVE  Ahead(o, s, n)
<1>. SUFFICES ASSUME o # <<>>, NEW i \in n .. Len(s)
              PROVE  BeginOf(o[Len(o)]) <= BeginOf(s[i])
  BY DEF Ahead
<1>1. o[Len(o)] \in Util /\ s[i] \in Util BY SeqFacts
<1>2. BeginOf(o[Len(o)]) <= BeginOf(u) /\ BeginOf(u) <= BeginOf(s[i]) OBVIOUS
<1>. QED BY <1>1, <1>2, UtilFacts

(* The periods of a list from the one at n on begin no earlier than it.    *)
LEMMA LaterBegin ==
    ASSUME NEW s \in Seq(Util), BeginOrdered(s), NEW n \in 1 .. Len(s)
    PROVE  \A i \in n .. Len(s) : BeginOf(s[n]) <= BeginOf(s[i])
<1>. SUFFICES ASSUME NEW i \in n .. Len(s) PROVE BeginOf(s[n]) <= BeginOf(s[i])
  OBVIOUS
<1>1. CASE i = n BY <1>1, SeqFacts, UtilFacts
<1>2. CASE i # n BY <1>2, SeqFacts DEF BeginOrdered
<1>. QED BY <1>1, <1>2

(* One step, for either list: s is the one taken from, at n.               *)
Ready(o, s, r, n, m) ==
    /\ o \in Seq(Util) /\ s \in Seq(Util) /\ r \in Seq(Util)
    /\ n \in 1 .. Len(s) /\ m \in 1 .. Len(r) + 1
    /\ \A i \in DOMAIN o : o[i].cycles > 0
    /\ BeginOrdered(s) /\ BeginOrdered(r)
    /\ Apart(o) /\ Ahead(o, s, n)
    /\ m <= Len(r) => BeginOf(s[n]) <= BeginOf(r[m])
    /\ Covered(o, Len(o)) = Covered(s, n - 1) \cup Covered(r, m - 1)

Took(p, s, r, n, m) ==
    /\ p \in Seq(Util)
    /\ \A i \in DOMAIN p : p[i].cycles > 0
    /\ Apart(p)
    /\ Ahead(p, s, n + 1)
    /\ Ahead(p, r, m)
    /\ Covered(p, Len(p)) = Covered(s, n) \cup Covered(r, m - 1)

(* Taking the period that begins first keeps the result exact, ordered and *)
(* apart.                                                                  *)
LEMMA TakeExact ==
    ASSUME NEW o, NEW s, NEW r, NEW n, NEW m, Ready(o, s, r, n, m)
    PROVE  Took(AppendUtil(o, s[n]), s, r, n, m)
<1>. USE DEF Ready
<1>. DEFINE p == AppendUtil(o, s[n])
<1>. DEFINE u == s[n]
<1>1. u \in Util /\ Len(s) \in Nat /\ Len(r) \in Nat /\ n \in n .. Len(s) BY SeqFacts
<1>2. o # <<>> => BeginOf(o[Len(o)]) <= BeginOf(u) BY <1>1 DEF Ahead
<1>3. /\ p \in Seq(Util)
      /\ \A i \in DOMAIN p : p[i].cycles > 0
      /\ Apart(p)
      /\ Covered(p, Len(p)) = Covered(o, Len(o)) \cup CyclesOf(u)
      /\ p # <<>> => BeginOf(p[Len(p)]) <= BeginOf(u)
  BY <1>1, <1>2, AppendFacts
<1>4. \A i \in n + 1 .. Len(s) : BeginOf(u) <= BeginOf(s[i]) BY <1>1, LaterBegin
<1>50. n + 1 \in Nat \ {0} BY <1>1
<1>5. Ahead(p, s, n + 1)
  <2>. HIDE DEF p, u
  <2>. QED BY <1>1, <1>50, <1>3, <1>4, AheadKept
<1>6. \A i \in m .. Len(r) : BeginOf(u) <= BeginOf(r[i])
  <2>. SUFFICES ASSUME NEW i \in m .. Len(r) PROVE BeginOf(u) <= BeginOf(r[i])
    OBVIOUS
  <2>1. m \in 1 .. Len(r) BY <1>1
  <2>2. BeginOf(u) <= BeginOf(r[m]) /\ BeginOf(r[m]) <= BeginOf(r[i]) BY <2>1, LaterBegin
  <2>3. r[m] \in Util /\ r[i] \in Util BY <2>1, SeqFacts
  <2>4. BeginOf(u) \in Int /\ BeginOf(r[m]) \in Int /\ BeginOf(r[i]) \in Int
    BY <1>1, <2>3, UtilFacts
  <2>. QED BY <2>2, <2>4
<1>7. Ahead(p, r, m)
  <2>1. m \in Nat \ {0} BY <1>1
  <2>. QED BY <1>1, <1>3, <1>6, <2>1, AheadKept
<1>8. Covered(s, n) = Covered(s, n - 1) \cup CyclesOf(u)
  <2>1. n - 1 \in Nat /\ (n - 1) + 1 = n BY <1>1
  <2>. QED BY <2>1, CoveredOneMore
<1>. QED BY <1>3, <1>5, <1>7, <1>8 DEF Took

(* A merge begins with nothing taken.                                      *)
LEMMA UnionInit == MergeInit => UnionInv
<1>. SUFFICES ASSUME NEW x \in Seq(Util), NEW y \in Seq(Util), BeginOrdered(x), BeginOrdered(y), Merging(x, y)
              PROVE  UnionInv
  BY DEF MergeInit
<1>1. va = x /\ vb = y /\ a = 1 /\ b = 1 /\ out = <<>> BY DEF Merging
<1>2. MergeTypeOK BY <1>1, SeqFacts DEF MergeTypeOK
<1>3. Apart(out) BY <1>1 DEF Apart
<1>4. Covered(out, Len(out)) = {} /\ Covered(va, a - 1) = {} /\ Covered(vb, b - 1) = {}
  BY <1>1, CoveredNone
<1>5. Ahead(out, va, a) /\ Ahead(out, vb, b) BY <1>1 DEF Ahead
<1>. QED BY <1>1, <1>2, <1>3, <1>4, <1>5 DEF UnionInv, UnionExact

(* Every step of the merge keeps its invariant.                            *)
LEMMA UnionStep == UnionInv /\ [MergeNext]_unionVars => UnionInv'
<1>. SUFFICES ASSUME UnionInv, [MergeNext]_unionVars PROVE UnionInv'
  OBVIOUS
<1>0. /\ va \in Seq(Util) /\ vb \in Seq(Util) /\ out \in Seq(Util)
      /\ a \in 1 .. Len(va) + 1 /\ b \in 1 .. Len(vb) + 1
      /\ \A i \in DOMAIN out : out[i].cycles > 0
      /\ BeginOrdered(va) /\ BeginOrdered(vb)
      /\ Ahead(out, va, a) /\ Ahead(out, vb, b)
      /\ Apart(out)
      /\ Covered(out, Len(out)) = Covered(va, a - 1) \cup Covered(vb, b - 1)
      /\ Len(va) \in Nat /\ Len(vb) \in Nat
  BY SeqFacts DEF UnionInv, MergeTypeOK, UnionExact
<1>1. CASE TakeFirst
  <2>1. /\ a \in 1 .. Len(va) /\ a + 1 \in 1 .. Len(va) + 1 /\ (a + 1) - 1 = a
        /\ b <= Len(vb) => BeginOf(va[a]) <= BeginOf(vb[b])
        /\ out' = AppendUtil(out, va[a]) /\ a' = a + 1 /\ va' = va /\ vb' = vb /\ b' = b
    BY <1>0, <1>1 DEF TakeFirst
  <2>2. /\ out' \in Seq(Util) /\ \A i \in DOMAIN out' : out'[i].cycles > 0
        /\ Apart(out') /\ Ahead(out', va, a + 1) /\ Ahead(out', vb, b)
        /\ Covered(out', Len(out')) = Covered(va, a) \cup Covered(vb, b - 1)
    <3>1. Ready(out, va, vb, a, b) BY <1>0, <2>1 DEF Ready
    <3>2. Took(out', va, vb, a, b) BY <3>1, <2>1, TakeExact
    <3>. QED BY <3>2 DEF Took
  <2>3. MergeTypeOK' BY <1>0, <2>1, <2>2 DEF MergeTypeOK
  <2>4. UnionExact'
    <3>1. (a' - 1 = a /\ b' - 1 = b - 1) BY <2>1
    <3>2. Covered(out', Len(out')) = Covered(va', a' - 1) \cup Covered(vb', b' - 1)
      BY <2>1, <2>2, <3>1
    <3>. QED BY <2>2, <3>2 DEF UnionExact, Apart, Covered
  <2>5. BeginOrdered(va)' /\ BeginOrdered(vb)' /\ Ahead(out, va, a)' /\ Ahead(out, vb, b)'
    BY <1>0, <2>1, <2>2 DEF BeginOrdered, Ahead
  <2>. QED BY <2>3, <2>4, <2>5 DEF UnionInv
<1>2. CASE TakeSecond
  <2>1. /\ b \in 1 .. Len(vb) /\ b + 1 \in 1 .. Len(vb) + 1 /\ (b + 1) - 1 = b
        /\ a <= Len(va) => BeginOf(va[a]) > BeginOf(vb[b])
        /\ out' = AppendUtil(out, vb[b]) /\ b' = b + 1 /\ va' = va /\ vb' = vb /\ a' = a
    BY <1>0, <1>2 DEF TakeSecond
  <2>2. a <= Len(va) => BeginOf(vb[b]) <= BeginOf(va[a])
    <3>. SUFFICES ASSUME a <= Len(va) PROVE BeginOf(vb[b]) <= BeginOf(va[a])
      OBVIOUS
    <3>1. va[a] \in Util /\ vb[b] \in Util BY <1>0, <2>1, SeqFacts
    <3>. QED BY <2>1, <3>1, UtilFacts
  <2>3. Covered(out, Len(out)) = Covered(vb, b - 1) \cup Covered(va, a - 1) BY <1>0
  <2>4. /\ out' \in Seq(Util) /\ \A i \in DOMAIN out' : out'[i].cycles > 0
        /\ Apart(out') /\ Ahead(out', vb, b + 1) /\ Ahead(out', va, a)
        /\ Covered(out', Len(out')) = Covered(vb, b) \cup Covered(va, a - 1)
    <3>1. Ready(out, vb, va, b, a) BY <1>0, <2>1, <2>2, <2>3 DEF Ready
    <3>2. Took(out', vb, va, b, a) BY <3>1, <2>1, TakeExact
    <3>. QED BY <3>2 DEF Took
  <2>5. MergeTypeOK' BY <1>0, <2>1, <2>4 DEF MergeTypeOK
  <2>6. UnionExact'
    <3>1. (b' - 1 = b /\ a' - 1 = a - 1) BY <2>1
    <3>2. Covered(out', Len(out')) = Covered(va', a' - 1) \cup Covered(vb', b' - 1)
      BY <2>1, <2>4, <3>1
    <3>. QED BY <2>4, <3>2 DEF UnionExact, Apart, Covered
  <2>7. BeginOrdered(va)' /\ BeginOrdered(vb)' /\ Ahead(out, va, a)' /\ Ahead(out, vb, b)'
    BY <1>0, <2>1, <2>4 DEF BeginOrdered, Ahead
  <2>. QED BY <2>5, <2>6, <2>7 DEF UnionInv
<1>3. CASE UNCHANGED unionVars
  <2>1. va' = va /\ vb' = vb /\ a' = a /\ b' = b /\ out' = out BY <1>3 DEF unionVars
  <2>2. MergeTypeOK' /\ BeginOrdered(va)' /\ BeginOrdered(vb)'
    BY <1>0, <2>1 DEF MergeTypeOK, BeginOrdered
  <2>3. Ahead(out, va, a)' /\ Ahead(out, vb, b)' BY <1>0, <2>1 DEF Ahead
  <2>4. UnionExact'
    <3>1. Apart(out) /\ Covered(out, Len(out)) = Covered(va, a - 1) \cup Covered(vb, b - 1)
      BY DEF UnionInv, UnionExact
    <3>2. Apart(out)' BY <3>1, <2>1 DEF Apart
    <3>3. (Covered(out, Len(out)) = Covered(va, a - 1) \cup Covered(vb, b - 1))'
      BY <3>1, <2>1 DEF Covered
    <3>. QED BY <3>2, <3>3 DEF UnionExact
  <2>. QED BY <2>2, <2>3, <2>4 DEF UnionInv
<1>. QED BY <1>1, <1>2, <1>3 DEF MergeNext

(* The merge keeps to its lists, and never leaves an empty period.         *)
THEOREM MergeTypeCorrect == MergeSpec => []MergeTypeOK
<1>1. UnionInv => MergeTypeOK BY DEF UnionInv
<1>. QED BY UnionInit, UnionStep, <1>1, PTL DEF MergeSpec

(* Whatever the two lists, the result covers exactly what was taken from   *)
(* them, in periods that neither overlap nor touch: with UnionInv, because a   *)
(* merged period never begins before the last one of the result.           *)
THEOREM UnionIsExact == MergeSpec => []UnionExact
<1>1. UnionInv => UnionExact BY DEF UnionInv
<1>. QED BY UnionInit, UnionStep, <1>1, PTL DEF MergeSpec

-----------------------------------------------------------------------------
(***************************************************************************)
(* compute_util makes, of any queue, the periods in which a server works   *)
(* that takes one cycle of it at a time: a cycle is busy if and only if    *)
(* since some clock up to it more work arrived than cycles went by.        *)
(***************************************************************************)
Job == [clock : Nat, cycles : Nat]
CyclesIn(q) == [i \in DOMAIN q |-> q[i].cycles]

EndOf(u) == u.clock + u.cycles
ServedBy(u) == u.clock .. EndOf(u) - 1
Served(o) == UNION {ServedBy(o[i]) : i \in DOMAIN o}
Spread(o) == \A i, j \in DOMAIN o : i < j => EndOf(o[i]) < o[j].clock

(* A job occupies a server from its clock on for its cycles.               *)
LEMMA JobFacts ==
    ASSUME NEW u \in Job
    PROVE  /\ u.clock \in Nat /\ u.cycles \in Nat /\ EndOf(u) \in Nat /\ u.clock <= EndOf(u)
           /\ \A t : t \in ServedBy(u) <=> t \in Int /\ u.clock <= t /\ t < EndOf(u)
BY DEF Job, EndOf, ServedBy

(* Queues of jobs.                                                         *)
LEMMA JobSeq ==
    ASSUME NEW o \in Seq(Job)
    PROVE  /\ Len(o) \in Nat /\ DOMAIN o = 1 .. Len(o)
           /\ \A i \in 1 .. Len(o) : o[i] \in Job
           /\ o = <<>> <=> Len(o) = 0
OBVIOUS

(* The cycles that one more job keeps the server busy.                     *)
Start(o, u) == IF u.clock > EndOf(o[Len(o)]) THEN u.clock ELSE EndOf(o[Len(o)])

(* A job that arrives while the server works, or as it stops, extends its  *)
(* last period; a later one begins another. Either way it is served from   *)
(* when the server is free.                                                *)
LEMMA AddFacts ==
    ASSUME NEW o \in Seq(Job), o # <<>>, Spread(o), NEW u \in Job, o[Len(o)].clock <= u.clock
    PROVE  LET p == AddCycles(o, u)
               x == Start(o, u)
           IN  /\ p \in Seq(Job) /\ p # <<>> /\ Spread(p)
               /\ x \in Nat /\ u.clock <= x
               /\ Served(p) = Served(o) \cup x .. x + u.cycles - 1
               /\ \A c \in Served(o) : c < x
               /\ EndOf(p[Len(p)]) = x + u.cycles
               /\ \A i \in DOMAIN p : p[i].clock <= u.clock
               /\ IF u.clock > EndOf(o[Len(o)]) THEN p[Len(p)] = u
                  ELSE p[Len(p)].clock = o[Len(o)].clock /\ p[Len(p)].cycles = o[Len(o)].cycles + u.cycles
<1>. DEFINE n == Len(o)
            v == o[n]
            p == AddCycles(o, u)
            x == Start(o, u)
<1>1. n \in Nat /\ DOMAIN o = 1 .. n /\ n \in 1 .. n /\ \A i \in 1 .. n : o[i] \in Job
  <2>1. n \in Nat /\ n # 0 /\ DOMAIN o = 1 .. n /\ \A i \in 1 .. n : o[i] \in Job BY JobSeq
  <2>. QED BY <2>1
<1>2. /\ v \in Job /\ v.clock \in Nat /\ v.cycles \in Nat /\ EndOf(v) \in Nat /\ EndOf(v) = v.clock + v.cycles
      /\ u.clock \in Nat /\ u.cycles \in Nat /\ EndOf(u) = u.clock + u.cycles
  BY <1>1, JobFacts DEF EndOf
<1>3. x \in Nat /\ u.clock <= x /\ EndOf(v) <= x BY <1>2 DEF Start
<1>4. ASSUME NEW i \in 1 .. n PROVE EndOf(o[i]) <= EndOf(v) /\ o[i].clock <= v.clock
  <2>1. CASE i = n BY <2>1, <1>2
  <2>2. CASE i # n
    <3>0. \A k \in Nat : \A y \in 1 .. k : y = k \/ y < k OBVIOUS
    <3>1. i < n BY <2>2, <1>1, <3>0
    <3>2. EndOf(o[i]) < v.clock BY <3>1, <1>1 DEF Spread
    <3>3. o[i].clock <= EndOf(o[i]) /\ o[i].clock \in Nat /\ EndOf(o[i]) \in Nat BY <1>1, JobFacts
    <3>4. v.clock \in Nat /\ EndOf(v) \in Nat /\ v.clock <= EndOf(v) BY <1>2
    <3>. HIDE DEF v
    <3>. QED BY <3>2, <3>3, <3>4
  <2>. QED BY <2>1, <2>2
<1>5. ASSUME NEW c \in Served(o) PROVE c < x /\ c \in Int
  <2>1. PICK i \in 1 .. n : c \in ServedBy(o[i]) BY <1>1 DEF Served
  <2>2. c \in Int /\ c < EndOf(o[i]) /\ EndOf(o[i]) \in Nat BY <2>1, <1>1, JobFacts
  <2>. QED BY <2>2, <1>2, <1>3, <1>4
<1>6. CASE u.clock > EndOf(v)
  <2>1. p = Append(o, u) BY <1>6 DEF AddCycles, EndOf
  <2>2. /\ p \in Seq(Job) /\ Len(p) = n + 1 /\ DOMAIN p = 1 .. n + 1 /\ p[n + 1] = u
        /\ \A i \in 1 .. n : p[i] = o[i]
    BY <2>1, <1>1
  <2>3. x = u.clock BY <1>6 DEF Start
  <2>4. Spread(p)
    <3>. SUFFICES ASSUME NEW i \in 1 .. n + 1, NEW j \in 1 .. n + 1, i < j
                  PROVE  EndOf(p[i]) < p[j].clock
      BY <2>2 DEF Spread
    <3>1. i \in 1 .. n BY <1>1
    <3>2. CASE j \in 1 .. n BY <3>1, <3>2, <1>1, <2>2 DEF Spread
    <3>3. CASE j = n + 1
      <4>1. EndOf(o[i]) <= EndOf(v) /\ EndOf(o[i]) \in Nat BY <3>1, <1>1, <1>4, JobFacts
      <4>. QED BY <4>1, <3>1, <3>3, <1>2, <1>6, <2>2
    <3>. QED BY <3>2, <3>3, <1>1
  <2>5. Served(p) = Served(o) \cup x .. x + u.cycles - 1
    <3>1. ServedBy(u) = x .. x + u.cycles - 1 BY <2>3, <1>2 DEF ServedBy
    <3>2. \A c : c \in Served(p) <=> \E i \in 1 .. n + 1 : c \in ServedBy(p[i]) BY <2>2 DEF Served
    <3>3. \A c : c \in Served(o) <=> \E i \in 1 .. n : c \in ServedBy(o[i]) BY <1>1 DEF Served
    <3>4. 1 .. n + 1 = (1 .. n) \cup {n + 1} BY <1>1
    <3>. QED BY <3>1, <3>2, <3>3, <3>4, <2>2
  <2>6. \A i \in DOMAIN p : p[i].clock <= u.clock
    <3>1. \A i \in 1 .. n : o[i].clock <= u.clock
      <4>. SUFFICES ASSUME NEW i \in 1 .. n PROVE o[i].clock <= u.clock
        OBVIOUS
      <4>1. o[i].clock <= v.clock /\ o[i].clock \in Nat BY <1>4, <1>1, JobFacts
      <4>. QED BY <4>1, <1>2
    <3>. QED BY <3>1, <1>1, <1>2, <2>2
  <2>. QED BY <2>2, <2>3, <2>4, <2>5, <2>6, <1>2, <1>3, <1>5, <1>6
<1>7. CASE ~(u.clock > EndOf(v))
  <2>. DEFINE w == [v EXCEPT !.cycles = @ + u.cycles]
  <2>1. p = [o EXCEPT ![n] = w] BY <1>7 DEF AddCycles, EndOf
  <2>2. w \in Job /\ w.clock = v.clock /\ w.cycles = v.cycles + u.cycles BY <1>2 DEF Job
  <2>3. /\ p \in Seq(Job) /\ Len(p) = n /\ DOMAIN p = 1 .. n /\ p[n] = w
        /\ \A i \in 1 .. n : i # n => p[i] = o[i]
    <3>1. n = Len(o) BY <1>1
    <3>. HIDE DEF w, p, n
    <3>2. n \in 1 .. Len(o) /\ n \in Nat BY <1>1, <3>1
    <3>3. /\ [o EXCEPT ![n] = w] \in Seq(Job) /\ Len([o EXCEPT ![n] = w]) = Len(o)
          /\ \A j \in 1 .. Len(o) : [o EXCEPT ![n] = w][j] = IF j = n THEN w ELSE o[j]
      BY <2>2, <3>2, ExceptSeq
    <3>4. DOMAIN p = 1 .. Len(p) BY <2>1, <3>3, LenProperties
    <3>. QED BY <2>1, <3>1, <3>2, <3>3, <3>4
  <2>4. x = EndOf(v) /\ EndOf(w) = x + u.cycles BY <1>7, <2>2, <1>2 DEF Start, EndOf
  <2>. HIDE DEF w, p
  <2>5. Spread(p)
    <3>. SUFFICES ASSUME NEW i \in 1 .. n, NEW j \in 1 .. n, i < j
                  PROVE  EndOf(p[i]) < p[j].clock
      BY <2>3 DEF Spread
    <3>1. i # n
      <4>1. n \in Nat BY <1>1
      <4>. HIDE DEF n
      <4>. QED BY <4>1
    <3>2. EndOf(o[i]) < o[j].clock BY <1>1 DEF Spread
    <3>3. p[j].clock = o[j].clock BY <2>2, <2>3
    <3>. QED BY <3>1, <3>2, <3>3, <2>3
  <2>6. Served(p) = Served(o) \cup x .. x + u.cycles - 1
    <3>0. x \in Nat BY <1>3
    <3>1. \A c : c \in ServedBy(w) <=> c \in ServedBy(v) \/ c \in x .. x + u.cycles - 1
      <4>1. \A c : c \in ServedBy(w) <=> c \in Int /\ v.clock <= c /\ c < x + u.cycles BY <2>2, <2>4, JobFacts
      <4>2. \A c : c \in ServedBy(v) <=> c \in Int /\ v.clock <= c /\ c < x BY <1>2, <2>4, JobFacts
      <4>3. v.clock \in Nat /\ v.clock <= x /\ u.cycles \in Nat BY <1>2, <2>4
      <4>. HIDE DEF x, v
      <4>. QED BY <4>1, <4>2, <4>3, <3>0
    <3>2. \A c : c \in Served(p) <=> \E i \in 1 .. n : c \in ServedBy(p[i]) BY <2>3 DEF Served
    <3>3. \A c : c \in Served(o) <=> \E i \in 1 .. n : c \in ServedBy(o[i]) BY <1>1 DEF Served
    <3>4. \A c : c \in Served(p) <=> c \in Served(o) \/ c \in x .. x + u.cycles - 1
      <4>. HIDE DEF x
      <4>. QED BY <3>1, <3>2, <3>3, <2>3, <1>1
    <3>. QED BY <3>4
  <2>7. \A i \in DOMAIN p : p[i].clock <= u.clock
    <3>. SUFFICES ASSUME NEW i \in 1 .. n PROVE p[i].clock <= u.clock
      BY <2>3
    <3>1. o[i].clock <= v.clock /\ o[i].clock \in Nat BY <1>4, <1>1, JobFacts
    <3>2. p[i].clock = o[i].clock BY <2>2, <2>3
    <3>. QED BY <3>1, <3>2, <1>2
  <2>8. p # <<>>
    <3>1. Len(p) # 0
      <4>1. Len(p) = n /\ n \in 1 .. n /\ n \in Nat BY <2>3, <1>1
      <4>. HIDE DEF n, p
      <4>. QED BY <4>1
    <3>. HIDE DEF p
    <3>. QED BY <3>1
  <2>9. /\ EndOf(p[Len(p)]) = x + u.cycles
        /\ p[Len(p)].clock = v.clock /\ p[Len(p)].cycles = v.cycles + u.cycles
    BY <2>2, <2>3, <2>4
  <2>. QED BY <2>3, <2>5, <2>6, <2>7, <2>8, <2>9, <1>3, <1>5, <1>7 DEF p
<1>. QED BY <1>6, <1>7

-----------------------------------------------------------------------------
(* EndTimes of the work on the jobs of a queue in the order of their clocks:   *)
(* each is begun when it arrives or when the one before it is done.        *)
InClockOrder(q) == \A i, j \in DOMAIN q : i < j => q[i].clock <= q[j].clock

EndTimes(q, e) ==
    /\ e \in [0 .. Len(q) -> Nat]
    /\ e[0] = 0
    /\ \A i \in 1 .. Len(q) : e[i] = MaxOf(e[i - 1], q[i].clock) + q[i].cycles

Begun(q) == FoldLeft(AddCycles, <<[q[1] EXCEPT !.cycles = 0]>>, q)

(* The fold as a function of the positions that were added.                *)
Adding(q, h) ==
    h = [s \in SUBSET DOMAIN q |->
            IF s = {} THEN <<[q[1] EXCEPT !.cycles = 0]>> ELSE AddCycles(h[s \ {Max(s)}], q[Max(s)])]

(* The fold of compute_util, unfolded.                                     *)
LEMMA BegunIsAdding ==
    ASSUME NEW q
    PROVE  Begun(q) = (CHOOSE h : Adding(q, h))[DOMAIN q]
BY Zenon DEF Begun, FoldLeft, MapThenFoldSet, Adding

(* Adding a job keeps a queue of periods.                                  *)
LEMMA AddType ==
    ASSUME NEW o \in Seq(Job), o # <<>>, NEW u \in Job
    PROVE  AddCycles(o, u) \in Seq(Job) /\ AddCycles(o, u) # <<>>
<1>1. Len(o) \in Nat /\ Len(o) \in 1 .. Len(o) /\ DOMAIN o = 1 .. Len(o) /\ \A i \in 1 .. Len(o) : o[i] \in Job
  <2>1. Len(o) \in Nat /\ Len(o) # 0 /\ DOMAIN o = 1 .. Len(o) /\ \A i \in 1 .. Len(o) : o[i] \in Job BY JobSeq
  <2>. QED BY <2>1
<1>2. CASE u.clock > o[Len(o)].clock + o[Len(o)].cycles
  <2>1. AddCycles(o, u) = Append(o, u) BY <1>2 DEF AddCycles
  <2>. QED BY <2>1
<1>3. CASE ~(u.clock > o[Len(o)].clock + o[Len(o)].cycles)
  <2>. DEFINE w == [o[Len(o)] EXCEPT !.cycles = @ + u.cycles]
  <2>1. w \in Job
    <3>1. o[Len(o)] \in Job BY <1>1
    <3>. QED BY <3>1 DEF Job
  <2>2. AddCycles(o, u) = [o EXCEPT ![Len(o)] = w] BY <1>1, <1>3 DEF AddCycles
  <2>. HIDE DEF w
  <2>3. [o EXCEPT ![Len(o)] = w] \in Seq(Job) /\ Len([o EXCEPT ![Len(o)] = w]) = Len(o)
    BY <1>1, <2>1, ExceptSeq
  <2>. QED BY <1>1, <2>2, <2>3
<1>. QED BY <1>2, <1>3

(* That fold is defined on every queue.                                    *)
LEMMA AddingExists ==
    ASSUME NEW q \in Seq(Job), q # <<>>
    PROVE  \E h : Adding(q, h)
<1>. DEFINE n == Len(q)
            O == {o \in Seq(Job) : o # <<>>}
            none == <<[q[1] EXCEPT !.cycles = 0]>>
            step == [i \in 1 .. n |-> [o \in O |-> AddCycles(o, q[i])]]
<1>1. n \in Nat /\ n # 0 /\ DOMAIN q = 1 .. n /\ \A i \in 1 .. n : q[i] \in Job BY JobSeq
<1>2. none \in O
  <2>1. q[1] \in Job BY <1>1
  <2>2. [q[1] EXCEPT !.cycles = 0] \in Job BY <2>1 DEF Job
  <2>. QED BY <2>2
<1>3. \A i \in 1 .. n : \A o \in O : step[i][o] \in O
  <2>. SUFFICES ASSUME NEW i \in 1 .. n, NEW o \in O PROVE AddCycles(o, q[i]) \in O
    OBVIOUS
  <2>. QED BY <1>1, AddType
<1>. HIDE DEF none
<1>4. PICK h \in [SUBSET (1 .. n) -> O] : Folds(h, none, step, n)
  <2>. HIDE DEF O, step, n
  <2>. QED BY <1>1, <1>2, <1>3, FoldExists, Zenon
<1>5. ASSUME NEW s \in SUBSET (1 .. n), s # {}
      PROVE  step[Max(s)][h[s \ {Max(s)}]] = AddCycles(h[s \ {Max(s)}], q[Max(s)])
  <2>1. Max(s) \in 1 .. n BY <1>1, <1>5, MaxUpTo
  <2>2. h[s \ {Max(s)}] \in O BY <1>4
  <2>. HIDE DEF O
  <2>. QED BY <2>1, <2>2
<1>6. h = [s \in SUBSET (1 .. n) |-> IF s = {} THEN none ELSE step[Max(s)][h[s \ {Max(s)}]]] BY <1>4 DEF Folds
<1>. HIDE DEF step, O
<1>7. h = [s \in SUBSET (1 .. n) |-> IF s = {} THEN none ELSE AddCycles(h[s \ {Max(s)}], q[Max(s)])]
  BY <1>5, <1>6, Zenon
<1>. QED BY <1>1, <1>7, Zenon DEF Adding, none

(* Adding one job to the periods of those before it.                       *)
Stages(q, r) ==
    /\ r[0] = <<[q[1] EXCEPT !.cycles = 0]>>
    /\ \A k \in 1 .. Len(q) : r[k] = AddCycles(r[k - 1], q[k])
    /\ Begun(q) = r[Len(q)]

(* The fold passes through one stage after each job.                       *)
LEMMA Accumulates ==
    ASSUME NEW q \in Seq(Job), q # <<>>
    PROVE  \E r : Stages(q, r)
<1>. DEFINE n == Len(q)
            h == CHOOSE g : Adding(q, g)
            r == [k \in 0 .. n |-> h[1 .. k]]
<1>1. n \in Nat /\ n # 0 /\ DOMAIN q = 1 .. n BY JobSeq
<1>2. Adding(q, h) BY AddingExists
<1>3. Begun(q) = h[DOMAIN q] BY BegunIsAdding
<1>. HIDE DEF h
<1>4. r[0] = <<[q[1] EXCEPT !.cycles = 0]>>
  <2>1. 1 .. 0 = {} /\ 0 \in 0 .. n BY <1>1
  <2>2. h[{}] = <<[q[1] EXCEPT !.cycles = 0]>> BY <1>2, Zenon DEF Adding
  <2>. QED BY <2>1, <2>2
<1>5. ASSUME NEW k \in 1 .. n PROVE r[k] = AddCycles(r[k - 1], q[k])
  <2>1. k - 1 \in 0 .. n /\ k \in 0 .. n /\ k \in Nat /\ 1 .. k \in SUBSET (1 .. n) /\ 1 .. k # {}
    <3>1. k \in 1 .. k /\ k \in Nat /\ k <= n BY <1>1
    <3>2. \A i \in 1 .. k : i \in 1 .. n BY <1>1, <3>1
    <3>3. k - 1 \in 0 .. n /\ k \in 0 .. n BY <1>1, <3>1
    <3>. HIDE DEF n, r
    <3>. QED BY <3>1, <3>2, <3>3
  <2>2. Max(1 .. k) = k
    <3>1. 1 .. k \in SUBSET Nat /\ k \in 1 .. k /\ \A y \in 1 .. k : y <= k BY <2>1
    <3>. QED BY <3>1, MaxIs
  <2>3. (1 .. k) \ {k} = 1 .. k - 1 BY <2>1
  <2>4. h[1 .. k] = AddCycles(h[(1 .. k) \ {k}], q[k]) BY <1>1, <1>2, <2>1, <2>2, Zenon DEF Adding
  <2>. QED BY <2>1, <2>3, <2>4
<1>6. Begun(q) = r[n] BY <1>1, <1>3
<1>7. Stages(q, r)
  <2>. HIDE DEF r
  <2>. QED BY <1>4, <1>5, <1>6 DEF Stages
<1>. HIDE DEF r
<1>. QED BY <1>7

(* The periods of compute_util are apart, and each job is served for its   *)
(* cycles up to its end time.                                              *)
LEMMA BegunFacts ==
    ASSUME NEW q \in Seq(Job), q # <<>>, InClockOrder(q)
    PROVE  /\ Begun(q) \in Seq(Job) /\ Spread(Begun(q))
           /\ \E e : /\ EndTimes(q, e)
                    /\ \A c : c \in Served(Begun(q)) <=>
                             \E i \in 1 .. Len(q) : c \in e[i] - q[i].cycles .. e[i] - 1
<1>. DEFINE n == Len(q)
            Kept(k, o) == /\ o \in Seq(Job) /\ o # <<>> /\ Spread(o)
                          /\ \A j \in k + 1 .. n : o[Len(o)].clock <= q[j].clock
<1>1. /\ n \in Nat /\ n >= 1 /\ DOMAIN q = 1 .. n /\ \A i \in 1 .. n : q[i] \in Job
      /\ \A i, j \in 1 .. n : i < j => q[i].clock <= q[j].clock
  <2>1. n \in Nat /\ n # 0 /\ DOMAIN q = 1 .. n /\ \A i \in 1 .. n : q[i] \in Job BY JobSeq
  <2>. QED BY <2>1 DEF InClockOrder
<1>a. PICK r : Stages(q, r) BY Accumulates
<1>2. /\ r[0] = <<[q[1] EXCEPT !.cycles = 0]>>
      /\ \A k \in 1 .. n : r[k] = AddCycles(r[k - 1], q[k])
      /\ Begun(q) = r[n]
  BY <1>a DEF Stages
<1>. DEFINE end == [k \in 0 .. n |-> IF k = 0 THEN 0 ELSE EndOf(r[k][Len(r[k])])]
            by(m) == end[m] - q[m].cycles .. end[m] - 1
<1>3. /\ Kept(0, r[0]) /\ EndOf(r[0][Len(r[0])]) = q[1].clock /\ Served(r[0]) = {}
  <2>. DEFINE u == [q[1] EXCEPT !.cycles = 0]
  <2>1. q[1] \in Job BY <1>1
  <2>2. u \in Job /\ u.clock = q[1].clock /\ u.cycles = 0 /\ EndOf(u) = q[1].clock /\ q[1].clock \in Nat
    BY <2>1 DEF Job, EndOf
  <2>3. r[0] = <<u>> BY <1>2
  <2>. HIDE DEF u
  <2>4. r[0] \in Seq(Job) /\ r[0] # <<>> /\ Len(r[0]) = 1 /\ DOMAIN r[0] = {1} /\ r[0][1] = u BY <2>2, <2>3
  <2>5. Spread(r[0]) BY <2>4 DEF Spread
  <2>6. \A j \in 1 .. n : q[1].clock <= q[j].clock
    <3>1. \A j \in 1 .. n : j = 1 \/ 1 < j BY <1>1
    <3>. QED BY <1>1, <2>2, <3>1
  <2>7. ServedBy(u) = {} BY <2>2 DEF ServedBy
  <2>8. Served(r[0]) = {} BY <2>4, <2>7 DEF Served
  <2>. QED BY <2>2, <2>4, <2>5, <2>6, <2>8
<1>4. ASSUME NEW k \in 1 .. n, Kept(k - 1, r[k - 1])
      PROVE  /\ Kept(k, r[k])
             /\ end[k] = MaxOf(end[k - 1], q[k].clock) + q[k].cycles /\ end[k] \in Nat
             /\ Served(r[k]) = Served(r[k - 1]) \cup by(k)
  <2>. DEFINE o == r[k - 1]
              p == r[k]
              x == Start(o, q[k])
  <2>1. /\ q[k] \in Job /\ o \in Seq(Job) /\ o # <<>> /\ Spread(o) /\ o[Len(o)].clock <= q[k].clock
        /\ p = AddCycles(o, q[k]) /\ q[k].clock \in Nat /\ q[k].cycles \in Nat
    <3>1. k \in (k - 1) + 1 .. n BY <1>1
    <3>. QED BY <1>1, <1>2, <1>4, <3>1, JobFacts
  <2>2. /\ p \in Seq(Job) /\ p # <<>> /\ Spread(p)
        /\ x \in Nat /\ q[k].clock <= x
        /\ Served(p) = Served(o) \cup x .. x + q[k].cycles - 1
        /\ EndOf(p[Len(p)]) = x + q[k].cycles
        /\ \A i \in DOMAIN p : p[i].clock <= q[k].clock
    <3>. HIDE DEF o, p, x
    <3>. QED BY <2>1, AddFacts DEF x
  <2>3. Kept(k, r[k])
    <3>. SUFFICES ASSUME NEW j \in k + 1 .. n PROVE p[Len(p)].clock <= q[j].clock
      BY <2>2
    <3>1. k < j /\ j \in 1 .. n BY <1>1
    <3>2. q[k].clock <= q[j].clock /\ q[j] \in Job /\ q[j].clock \in Nat BY <1>1, <3>1, JobFacts
    <3>3. Len(p) \in DOMAIN p /\ p[Len(p)] \in Job
      <4>1. Len(p) \in Nat /\ Len(p) # 0 /\ DOMAIN p = 1 .. Len(p) /\ \A i \in 1 .. Len(p) : p[i] \in Job
        BY <2>2, JobSeq
      <4>. QED BY <4>1
    <3>4. p[Len(p)].clock <= q[k].clock /\ p[Len(p)].clock \in Nat BY <2>2, <3>3, JobFacts
    <3>. QED BY <3>2, <3>4, <2>1
  <2>4. end[k] = x + q[k].cycles BY <1>1, <2>2
  <2>5. x = MaxOf(end[k - 1], q[k].clock)
    <3>1. CASE k = 1
      <4>1. x = q[1].clock /\ end[0] = 0 BY <1>3, <3>1, <1>1 DEF Start
      <4>. QED BY <4>1, <3>1, <2>1 DEF MaxOf
    <3>2. CASE k # 1
      <4>1. end[k - 1] = EndOf(o[Len(o)]) BY <3>2, <1>1
      <4>2. EndOf(o[Len(o)]) \in Nat
        <5>1. Len(o) \in Nat /\ Len(o) # 0 /\ \A i \in 1 .. Len(o) : o[i] \in Job BY <2>1, JobSeq
        <5>2. o[Len(o)] \in Job BY <5>1
        <5>. HIDE DEF o
        <5>. QED BY <5>2, JobFacts
      <4>. QED BY <4>1, <4>2, <2>1 DEF MaxOf, Start
    <3>. QED BY <3>1, <3>2
  <2>6. by(k) = x .. x + q[k].cycles - 1
    <3>1. end[k] - q[k].cycles = x BY <2>1, <2>2, <2>4
    <3>2. end[k] - 1 = x + q[k].cycles - 1 BY <2>1, <2>2, <2>4
    <3>. HIDE DEF x, end
    <3>. QED BY <3>1, <3>2
  <2>7. end[k] \in Nat BY <2>1, <2>2, <2>4
  <2>8. end[k] = MaxOf(end[k - 1], q[k].clock) + q[k].cycles BY <2>4, <2>5
  <2>9. Served(r[k]) = Served(r[k - 1]) \cup by(k) BY <2>2, <2>6
  <2>. HIDE DEF end, x
  <2>. QED BY <2>3, <2>7, <2>8, <2>9
<1>. DEFINE A == {k \in 0 .. n : /\ Kept(k, r[k])
                                 /\ \A i \in 0 .. k : end[i] \in Nat
                                 /\ \A i \in 1 .. k : end[i] = MaxOf(end[i - 1], q[i].clock) + q[i].cycles
                                 /\ \A c : c \in Served(r[k]) <=> \E i \in 1 .. k : c \in by(i)}
<1>5. 0 \in A
  <2>1. 0 \in 0 .. n /\ end[0] = 0 /\ 1 .. 0 = {} /\ 0 .. 0 = {0} BY <1>1
  <2>. HIDE DEF end
  <2>. QED BY <2>1, <1>3
<1>6. ASSUME NEW k \in 1 .. n, k - 1 \in A PROVE k \in A
  <2>1. /\ Kept(k, r[k])
        /\ end[k] = MaxOf(end[k - 1], q[k].clock) + q[k].cycles /\ end[k] \in Nat
        /\ Served(r[k]) = Served(r[k - 1]) \cup by(k)
    <3>1. Kept(k - 1, r[k - 1]) BY <1>6
    <3>. HIDE DEF end, Kept
    <3>. QED BY <3>1, <1>4
  <2>2. 1 .. k = 1 .. k - 1 \cup {k} /\ 0 .. k = 0 .. k - 1 \cup {k} BY <1>1
  <2>3. /\ \A i \in 0 .. k - 1 : end[i] \in Nat
        /\ \A i \in 1 .. k - 1 : end[i] = MaxOf(end[i - 1], q[i].clock) + q[i].cycles
        /\ \A c : c \in Served(r[k - 1]) <=> \E i \in 1 .. k - 1 : c \in by(i)
    <3>. HIDE DEF end, Kept
    <3>. QED BY <1>6
  <2>4. k \in 0 .. n BY <1>1
  <2>. HIDE DEF end, Kept
  <2>5. \A c : c \in Served(r[k]) <=> \E i \in 1 .. k : c \in by(i) BY <2>1, <2>2, <2>3, Zenon
  <2>6. \A i \in 0 .. k : end[i] \in Nat BY <2>1, <2>2, <2>3, Zenon
  <2>7. \A i \in 1 .. k : end[i] = MaxOf(end[i - 1], q[i].clock) + q[i].cycles BY <2>1, <2>2, <2>3, Zenon
  <2>. QED BY <2>1, <2>4, <2>5, <2>6, <2>7
<1>7. n \in A
  <2>1. n \in 0 .. n BY <1>1
  <2>. HIDE DEF A
  <2>. QED BY <1>1, <1>5, <1>6, <2>1, Climb, Zenon
<1>8. EndTimes(q, end)
  <2>1. end[0] = 0 BY <1>1
  <2>2. \A i \in 0 .. n : end[i] \in Nat BY <1>7
  <2>3. \A i \in 1 .. n : end[i] = MaxOf(end[i - 1], q[i].clock) + q[i].cycles BY <1>7
  <2>. QED BY <2>1, <2>2, <2>3 DEF EndTimes
<1>. HIDE DEF end
<1>. QED BY <1>2, <1>7, <1>8

(* A queue in the order of its clocks, and the ends of its jobs.           *)
LEMMA EndsFacts ==
    ASSUME NEW q \in Seq(Job), InClockOrder(q), NEW e, EndTimes(q, e)
    PROVE  /\ Len(q) \in Nat /\ DOMAIN q = 1 .. Len(q)
           /\ e[0] = 0 /\ \A i \in 0 .. Len(q) : e[i] \in Nat
           /\ \A i \in 1 .. Len(q) : /\ q[i].clock \in Nat /\ q[i].cycles \in Nat
                                     /\ e[i] = MaxOf(e[i - 1], q[i].clock) + q[i].cycles
                                     /\ e[i - 1] \in Nat
           /\ \A i, j \in 1 .. Len(q) : i <= j => q[i].clock <= q[j].clock
<1>1. Len(q) \in Nat /\ DOMAIN q = 1 .. Len(q) /\ \A i \in 1 .. Len(q) : q[i] \in Job BY JobSeq
<1>2. \A i \in 1 .. Len(q) : q[i].clock \in Nat /\ q[i].cycles \in Nat BY <1>1, JobFacts
<1>3. \A i \in 1 .. Len(q) : i - 1 \in 0 .. Len(q) BY <1>1
<1>4. \A i, j \in 1 .. Len(q) : i <= j => i = j \/ i < j BY <1>1
<1>5. \A i, j \in 1 .. Len(q) : i <= j => q[i].clock <= q[j].clock
  BY <1>1, <1>2, <1>4 DEF InClockOrder
<1>. QED BY <1>1, <1>2, <1>3, <1>5 DEF EndTimes

(* Jobs end in the order in which they arrive.                             *)
LEMMA EndsGrow ==
    ASSUME NEW q \in Seq(Job), InClockOrder(q), NEW e, EndTimes(q, e),
           NEW j \in 0 .. Len(q), NEW i \in 0 .. j
    PROVE  e[i] <= e[j]
<1>. DEFINE n == Len(q)
            A == {k \in 0 .. n : \A x \in 0 .. k : e[x] <= e[k]}
<1>1. /\ n \in Nat /\ \A k \in 0 .. n : e[k] \in Nat
      /\ \A k \in 1 .. n : e[k] = MaxOf(e[k - 1], q[k].clock) + q[k].cycles
                           /\ e[k - 1] \in Nat /\ q[k].clock \in Nat /\ q[k].cycles \in Nat
  BY EndsFacts
<1>2. 0 \in A BY <1>1
<1>3. ASSUME NEW k \in 1 .. n, k - 1 \in A PROVE k \in A
  <2>1. e[k - 1] <= e[k] /\ e[k] \in Nat
    <3>1. e[k] = MaxOf(e[k - 1], q[k].clock) + q[k].cycles /\ e[k - 1] \in Nat
          /\ q[k].clock \in Nat /\ q[k].cycles \in Nat
      BY <1>1
    <3>. QED BY <3>1 DEF MaxOf
  <2>2. \A x \in 0 .. k : x = k \/ x \in 0 .. k - 1 BY <1>1
  <2>3. \A x \in 0 .. k - 1 : e[x] <= e[k - 1] /\ e[x] \in Nat
    <3>1. \A x \in 0 .. k - 1 : x \in 0 .. n BY <1>1
    <3>. QED BY <1>1, <1>3, <3>1
  <2>4. k \in 0 .. n BY <1>1
  <2>5. e[k - 1] \in Nat BY <1>1
  <2>6. \A x \in 0 .. k : e[x] <= e[k] BY <2>1, <2>2, <2>3, <2>5
  <2>. QED BY <2>4, <2>6
<1>4. j \in A
  <2>. HIDE DEF A
  <2>. QED BY <1>1, <1>2, <1>3, Climb, Zenon
<1>. QED BY <1>4

(* The jobs that have arrived by a clock come first in the queue.          *)
LEMMA ArrivedFirst ==
    ASSUME NEW q \in Seq(Job), InClockOrder(q), NEW c \in Int
    PROVE  \E k \in 0 .. Len(q) : \A i \in 1 .. Len(q) : q[i].clock <= c <=> i <= k
<1>. DEFINE n == Len(q)
            A == {m \in 0 .. n : \E k \in 0 .. m : \A i \in 1 .. m : q[i].clock <= c <=> i <= k}
<1>1. /\ n \in Nat /\ DOMAIN q = 1 .. n /\ \A i \in 1 .. n : q[i] \in Job
      /\ \A i, j \in 1 .. n : i < j => q[i].clock <= q[j].clock
  BY JobSeq DEF InClockOrder
<1>2. \A i \in 1 .. n : q[i].clock \in Nat BY <1>1, JobFacts
<1>3. 0 \in A
  <2>1. 0 \in 0 .. n /\ 0 \in 0 .. 0 /\ 1 .. 0 = {} BY <1>1
  <2>. QED BY <2>1
<1>4. ASSUME NEW m \in 1 .. n, m - 1 \in A PROVE m \in A
  <2>1. PICK k \in 0 .. m - 1 : \A i \in 1 .. m - 1 : q[i].clock <= c <=> i <= k BY <1>4
  <2>2. m \in 0 .. n /\ m \in 0 .. m /\ k \in 0 .. m /\ ~(m <= k) /\ \A i \in 1 .. m : i <= m BY <1>1
  <2>3. \A i \in 1 .. m : (i = m \/ i \in 1 .. m - 1) /\ i \in 1 .. n BY <1>1
  <2>4. CASE q[m].clock <= c
    <3>1. \A i \in 1 .. m : q[i].clock <= c
      <4>. SUFFICES ASSUME NEW i \in 1 .. m PROVE q[i].clock <= c
        OBVIOUS
      <4>1. CASE i = m BY <4>1, <2>4
      <4>2. CASE i # m
        <5>1. i < m /\ i \in 1 .. n BY <4>2, <1>1
        <5>2. q[i].clock <= q[m].clock /\ q[i].clock \in Nat /\ q[m].clock \in Nat BY <5>1, <1>1, <1>2
        <5>. QED BY <5>2, <2>4
      <4>. QED BY <4>1, <4>2
    <3>. QED BY <3>1, <2>2
  <2>5. CASE ~(q[m].clock <= c)
    <3>1. \A i \in 1 .. m : q[i].clock <= c <=> i <= k BY <2>1, <2>2, <2>3, <2>5
    <3>. QED BY <3>1, <2>2
  <2>. QED BY <2>4, <2>5
<1>5. n \in A
  <2>1. n \in 0 .. n BY <1>1
  <2>. HIDE DEF A
  <2>. QED BY <1>1, <1>3, <1>4, <2>1, Climb, Zenon
<1>. QED BY <1>5

(* A cycle is one of those in which a job is done exactly if it comes      *)
(* after the arrival of a job and before the end of it.                    *)
LEMMA DoneInside ==
    ASSUME NEW q \in Seq(Job), InClockOrder(q), NEW e, EndTimes(q, e), NEW c
    PROVE  (\E i \in 1 .. Len(q) : c \in e[i] - q[i].cycles .. e[i] - 1)
             <=> c \in Nat /\ \E i \in 1 .. Len(q) : q[i].clock <= c /\ c < e[i]
<1>. DEFINE n == Len(q)
            Holds == {i \in 1 .. n : c < e[i]}
<1>1. /\ n \in Nat /\ e[0] = 0 /\ \A i \in 0 .. n : e[i] \in Nat
      /\ \A i \in 1 .. n : /\ q[i].clock \in Nat /\ q[i].cycles \in Nat
                           /\ e[i] = MaxOf(e[i - 1], q[i].clock) + q[i].cycles
                           /\ e[i - 1] \in Nat
      /\ \A i, j \in 1 .. n : i <= j => q[i].clock <= q[j].clock
  BY EndsFacts
<1>2. ASSUME NEW i \in 1 .. n, c \in e[i] - q[i].cycles .. e[i] - 1
      PROVE  c \in Nat /\ q[i].clock <= c /\ c < e[i]
  <2>1. e[i] - q[i].cycles = MaxOf(e[i - 1], q[i].clock) BY <1>1 DEF MaxOf
  <2>2. q[i].clock <= e[i] - q[i].cycles /\ e[i] \in Nat /\ q[i].clock \in Nat BY <2>1, <1>1 DEF MaxOf
  <2>. QED BY <1>2, <1>1, <2>2
<1>3. ASSUME c \in Nat, NEW j \in 1 .. n, q[j].clock <= c, c < e[j]
      PROVE  \E i \in 1 .. n : c \in e[i] - q[i].cycles .. e[i] - 1
  <2>. DEFINE i == Min(Holds)
  <2>1. i \in Holds /\ \A k \in Holds : i <= k
    <3>1. Holds \in SUBSET Nat /\ j \in Holds BY <1>1, <1>3
    <3>. HIDE DEF Holds
    <3>. QED BY <3>1, MinExists
  <2>. HIDE DEF i
  <2>2. i \in 1 .. n /\ c < e[i] /\ i <= j BY <2>1, <1>3
  <2>3. q[i].clock <= c
    <3>1. q[i].clock <= q[j].clock /\ q[i].clock \in Nat /\ q[j].clock \in Nat BY <1>1, <2>2
    <3>. QED BY <3>1, <1>3
  <2>4. e[i - 1] <= c
    <3>1. CASE i = 1 BY <3>1, <1>1, <1>3
    <3>2. CASE i # 1
      <4>1. i - 1 \in 1 .. n /\ ~(i <= i - 1) BY <3>2, <2>2, <1>1
      <4>2. i - 1 \notin Holds
        <5>. HIDE DEF Holds
        <5>. QED BY <4>1, <2>1
      <4>. QED BY <4>1, <4>2, <2>2, <1>1, <1>3
    <3>. QED BY <3>1, <3>2
  <2>5. e[i] - q[i].cycles = MaxOf(e[i - 1], q[i].clock) BY <1>1, <2>2 DEF MaxOf
  <2>6. e[i] - q[i].cycles <= c /\ e[i] - q[i].cycles \in Nat BY <1>1, <2>2, <2>3, <2>4, <2>5 DEF MaxOf
  <2>7. e[i] \in Nat BY <1>1, <2>2
  <2>. QED BY <2>2, <2>6, <2>7, <1>3
<1>. QED BY <1>2, <1>3

-----------------------------------------------------------------------------
(* The server of the reference: what is left to do at a clock, of the work *)
(* that has arrived by then.                                               *)
Serves(left, new, n) ==
    /\ left \in [0 .. n -> Nat]
    /\ left[0] = new[0]
    /\ \A c \in 1 .. n : left[c] = new[c] + MaxOf(left[c - 1] - 1, 0)

ArrivesAt(q, c) == {i \in DOMAIN q : q[i].clock = c}
WorkAt(q, c) == SumOver(CyclesIn(q), ArrivesAt(q, c))

(* Jobs that arrive at the same clock.                                     *)
LEMMA Batch ==
    ASSUME NEW q \in Seq(Job), InClockOrder(q), NEW e, EndTimes(q, e), NEW c \in Nat,
           NEW k \in 0 .. Len(q), NEW l \in 0 .. k, \A i \in l + 1 .. k : q[i].clock = c
    PROVE  MaxOf(e[k] - c, 0) = MaxOf(e[l] - c, 0) + SumOver(CyclesIn(q), l + 1 .. k)
<1>. DEFINE n == Len(q)
            f == CyclesIn(q)
            A == {d \in 0 .. k - l : MaxOf(e[l + d] - c, 0) = MaxOf(e[l] - c, 0) + SumOver(f, l + 1 .. l + d)}
<1>1. /\ n \in Nat /\ DOMAIN q = 1 .. n /\ \A i \in 0 .. n : e[i] \in Nat
      /\ \A i \in 1 .. n : /\ q[i].clock \in Nat /\ q[i].cycles \in Nat
                           /\ e[i] = MaxOf(e[i - 1], q[i].clock) + q[i].cycles
                           /\ e[i - 1] \in Nat
  BY EndsFacts
<1>2. k \in Nat /\ l \in Nat /\ l <= k /\ k <= n /\ k - l \in Nat BY <1>1
<1>3. \A i \in 1 .. n : f[i] = q[i].cycles BY <1>1 DEF CyclesIn
<1>4. 0 \in A
  <2>1. l + 0 = l /\ l + 1 .. l + 0 = {} /\ 0 \in 0 .. k - l BY <1>2
  <2>2. SumOver(f, {}) = 0 BY FS_EmptySet, SumStep
  <2>3. e[l] \in Nat BY <1>1, <1>2
  <2>4. MaxOf(e[l] - c, 0) = MaxOf(e[l] - c, 0) + 0 BY <2>3 DEF MaxOf
  <2>. QED BY <2>1, <2>2, <2>4
<1>5. ASSUME NEW d \in 1 .. k - l, d - 1 \in A PROVE d \in A
  <2>. DEFINE m == l + d
              R == l + 1 .. m
  <2>1. m \in 1 .. n /\ m \in l + 1 .. k /\ m - 1 = l + (d - 1) /\ d \in 0 .. k - l BY <1>2
  <2>2. IsFiniteSet(R) BY <1>2, FS_Interval
  <2>3. \A i \in R : f[i] \in Nat
    <3>1. \A i \in R : i \in 1 .. n BY <1>2
    <3>. QED BY <3>1, <1>1, <1>3
  <2>4. m \in R /\ R \ {m} = l + 1 .. l + (d - 1) BY <1>2
  <2>5. SumOver(f, R) = f[m] + SumOver(f, l + 1 .. l + (d - 1))
    <3>. HIDE DEF R, f, m
    <3>1. SumOver(f, R) = f[m] + SumOver(f, R \ {m}) BY ONLY <2>2, <2>3, <2>4, SumRemove
    <3>. QED BY <3>1, <2>4
  <2>6. SumOver(f, l + 1 .. l + (d - 1)) \in Nat
    <3>1. IsFiniteSet(R \ {m}) BY <2>2, FS_Subset
    <3>. HIDE DEF R, f, m
    <3>2. SumOver(f, R \ {m}) \in Nat BY <2>3, <3>1, SumType
    <3>. QED BY <3>2, <2>4
  <2>7. MaxOf(e[m - 1] - c, 0) = MaxOf(e[l] - c, 0) + SumOver(f, l + 1 .. l + (d - 1)) BY <1>5, <2>1
  <2>8. e[m] = MaxOf(e[m - 1], c) + f[m] /\ e[m - 1] \in Nat /\ f[m] \in Nat /\ e[m] \in Nat
    <3>1. m \in 0 .. n /\ q[m].clock = c BY <2>1, <1>1
    <3>. HIDE DEF m, f
    <3>. QED BY <3>1, <2>1, <1>1, <1>3
  <2>9. e[l] \in Nat BY <1>1, <1>2
  <2>10. MaxOf(e[m] - c, 0) = MaxOf(e[m - 1] - c, 0) + f[m]
    <3>1. \A x1, y1 \in Nat : MaxOf((MaxOf(x1, c) + y1) - c, 0) = MaxOf(x1 - c, 0) + y1 BY DEF MaxOf
    <3>. HIDE DEF m, f
    <3>. QED BY <2>8, <3>1
  <2>11. MaxOf(e[m] - c, 0) = MaxOf(e[l] - c, 0) + SumOver(f, R)
    <3>1. MaxOf(e[l] - c, 0) \in Int BY <2>9 DEF MaxOf
    <3>. HIDE DEF R, f, m
    <3>. QED BY <2>5, <2>6, <2>7, <2>8, <2>10, <3>1
  <2>. QED BY <2>1, <2>11
<1>6. k - l \in A
  <2>1. k - l \in 0 .. k - l BY <1>2
  <2>. HIDE DEF A
  <2>. QED BY <1>2, <1>4, <1>5, <2>1, Climb, Zenon
<1>7. l + (k - l) = k BY <1>2
<1>. QED BY <1>6, <1>7

(* What the server still has to do at a clock is what the last job that    *)
(* arrived by then needs beyond it.                                        *)
LEMMA LeftIs ==
    ASSUME NEW q \in Seq(Job), InClockOrder(q), NEW e, EndTimes(q, e),
           NEW n \in Nat, NEW left, NEW new, Serves(left, new, n),
           \A c \in 0 .. n : new[c] = WorkAt(q, c),
           NEW c \in 0 .. n
    PROVE  \A k \in 0 .. Len(q) : (\A i \in 1 .. Len(q) : q[i].clock <= c <=> i <= k)
                                    => left[c] = MaxOf(e[k] - c, 0)
<1>. DEFINE m == Len(q)
            Reached(k, t) == k \in 0 .. m /\ \A i \in 1 .. m : q[i].clock <= t <=> i <= k
            A == {t \in 0 .. n : \A k \in 0 .. m : Reached(k, t) => left[t] = MaxOf(e[k] - t, 0)}
<1>1. /\ m \in Nat /\ DOMAIN q = 1 .. m /\ \A i \in 0 .. m : e[i] \in Nat /\ e[0] = 0
      /\ \A i \in 1 .. m : q[i].clock \in Nat /\ q[i].cycles \in Nat
  BY EndsFacts
<1>2. /\ left \in [0 .. n -> Nat] /\ left[0] = new[0]
      /\ \A t \in 1 .. n : left[t] = new[t] + MaxOf(left[t - 1] - 1, 0)
  BY DEF Serves
<1>3. ASSUME NEW t \in 0 .. n, NEW l \in 0 .. m, NEW k \in 0 .. m, Reached(l, t - 1), Reached(k, t)
      PROVE  MaxOf(e[k] - t, 0) = MaxOf(e[l] - t, 0) + new[t]
  <2>1. l <= k
    <3>. SUFFICES ASSUME ~(l <= k) PROVE FALSE
      OBVIOUS
    <3>1. l \in 1 .. m /\ ~(l <= k) /\ l <= l BY <1>1
    <3>2. q[l].clock <= t - 1 /\ ~(q[l].clock <= t) /\ q[l].clock \in Nat BY <3>1, <1>1, <1>3
    <3>. QED BY <3>2
  <2>2. ArrivesAt(q, t) = l + 1 .. k
    <3>1. ASSUME NEW i \in 1 .. m PROVE q[i].clock = t <=> i \in l + 1 .. k
      <4>1. q[i].clock = t <=> q[i].clock <= t /\ ~(q[i].clock <= t - 1) BY <1>1
      <4>2. q[i].clock = t <=> i <= k /\ ~(i <= l) BY <4>1, <1>3
      <4>. QED BY <4>2, <1>1
    <3>2. \A i \in l + 1 .. k : i \in 1 .. m BY <1>1
    <3>. QED BY <3>1, <3>2, <1>1 DEF ArrivesAt
  <2>3. \A i \in l + 1 .. k : q[i].clock = t BY <2>2 DEF ArrivesAt
  <2>4. l \in 0 .. k /\ t \in Nat BY <2>1, <1>1
  <2>5. MaxOf(e[k] - t, 0) = MaxOf(e[l] - t, 0) + SumOver(CyclesIn(q), l + 1 .. k)
    <3>1. k \in 0 .. Len(q) /\ l \in 0 .. k /\ t \in Nat BY <2>4
    <3>. QED BY ONLY q \in Seq(Job), InClockOrder(q), EndTimes(q, e), <3>1, <2>3, Batch
  <2>. QED BY <2>2, <2>5 DEF WorkAt
<1>4. 0 \in A
  <2>. SUFFICES ASSUME NEW k \in 0 .. m, Reached(k, 0) PROVE left[0] = MaxOf(e[k] - 0, 0)
    OBVIOUS
  <2>1. Reached(0, 0 - 1) /\ 0 \in 0 .. m /\ 0 \in 0 .. n
    <3>1. \A i \in 1 .. m : ~(q[i].clock <= 0 - 1) /\ ~(i <= 0) BY <1>1
    <3>. QED BY <3>1, <1>1
  <2>2. MaxOf(e[k] - 0, 0) = MaxOf(e[0] - 0, 0) + new[0]
    <3>. HIDE DEF Reached
    <3>. QED BY <2>1, <1>3
  <2>3. MaxOf(e[0] - 0, 0) = 0 BY <1>1 DEF MaxOf
  <2>4. left[0] \in Nat BY <1>2, <2>1
  <2>. QED BY <2>2, <2>3, <2>4, <1>2
<1>5. ASSUME NEW t \in 1 .. n, t - 1 \in A PROVE t \in A
  <2>. SUFFICES ASSUME NEW k \in 0 .. m, Reached(k, t) PROVE left[t] = MaxOf(e[k] - t, 0)
    <3>1. t \in 0 .. n OBVIOUS
    <3>. QED BY <3>1
  <2>1. PICK l \in 0 .. m : Reached(l, t - 1)
    <3>1. t - 1 \in Int OBVIOUS
    <3>. QED BY <3>1, ArrivedFirst
  <2>2. left[t - 1] = MaxOf(e[l] - (t - 1), 0) BY <2>1, <1>5
  <2>3. MaxOf(e[k] - t, 0) = MaxOf(e[l] - t, 0) + new[t]
    <3>1. t \in 0 .. n OBVIOUS
    <3>. HIDE DEF Reached
    <3>. QED BY <2>1, <3>1, <1>3
  <2>4. e[l] \in Nat /\ e[k] \in Nat BY <1>1
  <2>5. MaxOf(left[t - 1] - 1, 0) = MaxOf(e[l] - t, 0) BY <2>2, <2>4 DEF MaxOf
  <2>6. left[t] = new[t] + MaxOf(e[l] - t, 0) BY <2>5, <1>2
  <2>7. new[t] \in Int
    <3>1. MaxOf(e[l] - t, 0) \in Int /\ MaxOf(e[k] - t, 0) \in Int BY <2>4 DEF MaxOf
    <3>2. IsFiniteSet(ArrivesAt(q, t))
      <4>1. IsFiniteSet(1 .. m) BY <1>1, FS_Interval
      <4>. QED BY <4>1, <1>1, FS_Subset DEF ArrivesAt
    <3>3. \A i \in ArrivesAt(q, t) : CyclesIn(q)[i] \in Nat BY <1>1 DEF ArrivesAt, CyclesIn
    <3>4. WorkAt(q, t) \in Nat BY <3>2, <3>3, SumType DEF WorkAt
    <3>5. t \in 0 .. n OBVIOUS
    <3>. QED BY <3>4, <3>5
  <2>8. MaxOf(e[l] - t, 0) \in Int BY <2>4 DEF MaxOf
  <2>. QED BY <2>3, <2>6, <2>7, <2>8
<1>6. c \in A
  <2>. HIDE DEF A
  <2>. QED BY <1>4, <1>5, Climb, Zenon
<1>. QED BY <1>6

(* The periods of a queue in the order of its clocks are the cycles in     *)
(* which the server has work left.                                         *)
LEMMA OrderedBusy ==
    ASSUME NEW q \in Seq(Job), q # <<>>, InClockOrder(q),
           NEW n \in Nat, NEW left, NEW new, Serves(left, new, n),
           \A c \in 0 .. n : new[c] = WorkAt(q, c)
    PROVE  /\ Begun(q) \in Seq(Job) /\ Spread(Begun(q))
           /\ Served(Begun(q)) \subseteq Nat
           /\ \A c \in 0 .. n : c \in Served(Begun(q)) <=> left[c] > 0
<1>. DEFINE m == Len(q)
<1>1. PICK e : /\ EndTimes(q, e)
               /\ \A c : c \in Served(Begun(q)) <=>
                          \E i \in 1 .. m : c \in e[i] - q[i].cycles .. e[i] - 1
  BY BegunFacts
<1>2. \A c : c \in Served(Begun(q)) <=> c \in Nat /\ \E i \in 1 .. m : q[i].clock <= c /\ c < e[i]
  BY <1>1, DoneInside
<1>3. /\ m \in Nat /\ e[0] = 0 /\ \A i \in 0 .. m : e[i] \in Nat
  BY <1>1, EndsFacts
<1>4. ASSUME NEW c \in 0 .. n
      PROVE  c \in Served(Begun(q)) <=> left[c] > 0
  <2>0. c \in Nat /\ c \in Int OBVIOUS
  <2>1. PICK k \in 0 .. m : \A i \in 1 .. m : q[i].clock <= c <=> i <= k BY <2>0, ArrivedFirst
  <2>2. left[c] = MaxOf(e[k] - c, 0) BY <1>1, <2>1, LeftIs
  <2>3. e[k] \in Nat BY <1>3
  <2>4. left[c] > 0 <=> c < e[k] BY <2>0, <2>2, <2>3 DEF MaxOf
  <2>5. ASSUME c < e[k] PROVE \E i \in 1 .. m : q[i].clock <= c /\ c < e[i]
    <3>1. k # 0 BY <2>5, <1>3, <2>0
    <3>2. k \in 1 .. m /\ k <= k BY <3>1, <1>3
    <3>. QED BY <2>1, <2>5, <3>2
  <2>6. ASSUME NEW i \in 1 .. m, q[i].clock <= c, c < e[i] PROVE c < e[k]
    <3>1. i <= k /\ i \in 0 .. k BY <2>1, <2>6, <1>3
    <3>2. e[i] <= e[k] BY <1>1, <3>1, EndsGrow
    <3>3. e[i] \in Nat
      <4>1. i \in 0 .. m BY <1>3
      <4>. QED BY <4>1, <1>3
    <3>. QED BY <3>2, <3>3, <2>3, <2>6, <2>0
  <2>. QED BY <1>2, <2>0, <2>4, <2>5, <2>6
<1>. QED BY <1>2, <1>4, BegunFacts

(* The jobs of s at the positions P that arrive at c.                      *)
ArrivesAmong(s, P, c) == {i \in P : s[i].clock = c}

(* Rearranging jobs, or leaving some out, keeps the work of the others.    *)
LEMMA ArrangedWork ==
    ASSUME NEW s \in Seq(Job), NEW P \in SUBSET DOMAIN s, NEW key, \A i \in P : key[i] \in Int
    PROVE  LET t == Arranged(s, key, P)
           IN  /\ t \in Seq(Job)
               /\ \A c : WorkAt(t, c) = SumOver(CyclesIn(s), ArrivesAmong(s, P, c))
<1>. DEFINE t == Arranged(s, key, P)
            r == Ranked(key, P)
            n == Cardinality(P)
<1>1. DOMAIN s = 1 .. Len(s) /\ Len(s) \in Nat /\ \A i \in DOMAIN s : s[i] \in Job BY JobSeq
<1>2. P \in SUBSET Nat /\ IsFiniteSet(P)
  <2>1. IsFiniteSet(1 .. Len(s)) BY <1>1, FS_Interval
  <2>. QED BY <1>1, <2>1, FS_Subset
<1>3. /\ n \in Nat /\ DOMAIN r = 1 .. n
      /\ \A k \in 1 .. n : r[k] \in P
      /\ \A i \in P : \E k \in 1 .. n : r[k] = i
      /\ \A k, l \in 1 .. n : k < l => Precedes(key, r[k], r[l])
  BY <1>2, RanksInOrder
<1>4. t = [k \in 1 .. n |-> s[r[k]]] BY <1>3 DEF Arranged
<1>5. t \in Seq(Job) /\ DOMAIN t = 1 .. n /\ \A k \in 1 .. n : t[k] = s[r[k]]
  BY <1>1, <1>3, <1>4, ArrangedInOrder
<1>. HIDE DEF t, r
<1>6. \A k, l \in 1 .. n : r[k] = r[l] => k = l
  <2>. SUFFICES ASSUME NEW k \in 1 .. n, NEW l \in 1 .. n, r[k] = r[l], k # l PROVE FALSE
    OBVIOUS
  <2>1. k < l \/ l < k BY <1>3
  <2>2. Precedes(key, r[k], r[k])
    <3>1. CASE k < l BY <3>1, <1>3
    <3>2. CASE l < k BY <3>2, <1>3
    <3>. QED BY <2>1, <3>1, <3>2
  <2>3. key[r[k]] \in Int /\ r[k] \in Nat BY <1>2, <1>3
  <2>. QED BY <2>2, <2>3 DEF Precedes
<1>7. ASSUME NEW c PROVE WorkAt(t, c) = SumOver(CyclesIn(s), ArrivesAmong(s, P, c))
  <2>. DEFINE K == ArrivesAt(t, c)
              f == CyclesIn(s)
              g == CyclesIn(t)
  <2>1. K \in SUBSET (1 .. n) /\ K = {k \in 1 .. n : s[r[k]].clock = c} BY <1>5 DEF ArrivesAt
  <2>2. IsFiniteSet(K)
    <3>1. IsFiniteSet(1 .. n) BY <1>3, FS_Interval
    <3>. QED BY <2>1, <3>1, FS_Subset
  <2>3. {r[k] : k \in K} = ArrivesAmong(s, P, c) BY <1>3, <2>1 DEF ArrivesAmong
  <2>4. \A k \in K : g[k] \in Nat /\ f[r[k]] = g[k]
    <3>. SUFFICES ASSUME NEW k \in 1 .. n PROVE g[k] \in Nat /\ f[r[k]] = g[k]
      BY <2>1
    <3>1. r[k] \in DOMAIN s /\ t[k] = s[r[k]] /\ s[r[k]] \in Job /\ k \in DOMAIN t BY <1>1, <1>3, <1>5
    <3>. QED BY <3>1, JobFacts DEF CyclesIn
  <2>5. \A k, l \in K : r[k] = r[l] => k = l BY <1>6, <2>1
  <2>. HIDE DEF K, f, g
  <2>6. SumOver(f, {r[k] : k \in K}) = SumOver(g, K) BY <2>2, <2>4, <2>5, SumRenamed
  <2>. QED BY <2>3, <2>6 DEF WorkAt, K, f, g
<1>. QED BY <1>5, <1>7 DEF t

(* The cycles of periods given by their ends.                              *)
ByEnd(o) == [i \in DOMAIN o |-> [o[i] EXCEPT !.clock = @ + o[i].cycles]]

(* With clocks of ends, as the union wants them, the periods are apart and *)
(* cover the same cycles.                                                  *)
LEMMA ByEndFacts ==
    ASSUME NEW o \in Seq(Job), Spread(o)
    PROVE  LET v == ByEnd(o)
           IN  /\ v \in Seq(Util) /\ Apart(v) /\ BeginOrdered(v)
               /\ Covered(v, Len(v)) = Served(o)
<1>. DEFINE v == ByEnd(o)
            n == Len(o)
<1>1. n \in Nat /\ DOMAIN o = 1 .. n /\ \A i \in 1 .. n : o[i] \in Job BY JobSeq
<1>2. DOMAIN v = 1 .. n BY <1>1 DEF ByEnd
<1>3. ASSUME NEW i \in 1 .. n
      PROVE  /\ v[i] \in Util /\ v[i].clock = EndOf(o[i]) /\ BeginOf(v[i]) = o[i].clock
             /\ CyclesOf(v[i]) = ServedBy(o[i])
             /\ o[i].clock \in Nat /\ EndOf(o[i]) \in Nat /\ o[i].clock <= EndOf(o[i])
  <2>1. o[i] \in Job BY <1>1
  <2>2. v[i] = [o[i] EXCEPT !.clock = o[i].clock + o[i].cycles] BY <1>1 DEF ByEnd
  <2>3. v[i] = [clock |-> o[i].clock + o[i].cycles, cycles |-> o[i].cycles] BY <2>1, <2>2 DEF Job
  <2>4. o[i].clock \in Nat /\ o[i].cycles \in Nat BY <2>1, JobFacts
  <2>5. BeginOf(v[i]) = o[i].clock /\ v[i].clock = EndOf(o[i]) BY <2>3, <2>4 DEF BeginOf, EndOf
  <2>. QED BY <2>3, <2>4, <2>5 DEF Util, CyclesOf, ServedBy, EndOf
<1>4. v \in [1 .. n -> Util]
  <2>1. v = [i \in 1 .. n |-> v[i]] BY <1>1 DEF ByEnd
  <2>. HIDE DEF v
  <2>. QED BY <1>3, <2>1
<1>5. v \in Seq(Util) /\ Len(v) = n
  <2>. HIDE DEF v, n
  <2>. QED BY <1>1, <1>2, <1>4
<1>. HIDE DEF v
<1>6. Apart(v) BY <1>1, <1>2, <1>3 DEF Apart, Spread
<1>7. BeginOrdered(v)
  <2>. SUFFICES ASSUME NEW i \in 1 .. n, NEW j \in 1 .. n, i < j PROVE BeginOf(v[i]) <= BeginOf(v[j])
    BY <1>2 DEF BeginOrdered
  <2>1. EndOf(o[i]) < o[j].clock BY <1>1 DEF Spread
  <2>. QED BY <2>1, <1>3
<1>8. Covered(v, Len(v)) = Served(o)
  <2>1. \A c : c \in Covered(v, n) <=> \E i \in 1 .. n : c \in CyclesOf(v[i]) BY CoveredFacts
  <2>2. \A c : c \in Served(o) <=> \E i \in 1 .. n : c \in ServedBy(o[i]) BY <1>1 DEF Served
  <2>3. \A c : c \in Covered(v, n) <=> c \in Served(o) BY <1>3, <2>1, <2>2
  <2>. QED BY <1>5, <2>3
<1>. QED BY <1>5, <1>6, <1>7, <1>8 DEF v

(* compute_util is exact, whatever is queued and in whatever order.        *)
LEMMA ComputeUtilExact ==
    ASSUME NEW in \in Seq(Job), NEW n \in Nat, NEW left, NEW new, Serves(left, new, n),
           \A c \in 0 .. n : new[c] = WorkAt(in, c)
    PROVE  LET v == ComputeUtil(in)
           IN  /\ v \in Seq(Util) /\ Apart(v) /\ BeginOrdered(v)
               /\ Covered(v, Len(v)) \subseteq Nat
               /\ \A c \in 0 .. n : c \in Covered(v, Len(v)) <=> left[c] > 0
<1>1. CASE in = <<>>
  <2>1. ComputeUtil(in) = <<>> BY <1>1 DEF ComputeUtil
  <2>2. <<>> \in Seq(Util) /\ Apart(<<>>) /\ BeginOrdered(<<>>) /\ Len(<<>>) = 0 BY DEF Apart, BeginOrdered
  <2>3. Covered(<<>>, 0) = {} BY CoveredNone
  <2>4. \A c \in 0 .. n : new[c] = 0
    <3>1. \A c : ArrivesAt(<<>>, c) = {} BY DEF ArrivesAt
    <3>2. \A c : WorkAt(in, c) = 0
      <4>. SUFFICES ASSUME NEW c PROVE WorkAt(in, c) = 0
        OBVIOUS
      <4>1. SumOver(CyclesIn(in), {}) = 0 BY FS_EmptySet, SumStep
      <4>. QED BY <4>1, <3>1, <1>1 DEF WorkAt
    <3>. QED BY <3>2
  <2>5. \A c \in 0 .. n : left[c] = 0
    <3>. DEFINE A == {c \in 0 .. n : left[c] = 0}
    <3>1. 0 \in A BY <2>4 DEF Serves
    <3>2. ASSUME NEW c \in 1 .. n, c - 1 \in A PROVE c \in A
      <4>1. left[c] = new[c] + MaxOf(left[c - 1] - 1, 0) /\ c \in 0 .. n BY DEF Serves
      <4>2. left[c - 1] = 0 BY <3>2
      <4>. QED BY <4>1, <4>2, <2>4 DEF MaxOf
    <3>3. \A c \in 0 .. n : c \in A
      <4>. HIDE DEF A
      <4>. QED BY <3>1, <3>2, Climb, Zenon
    <3>. QED BY <3>3
  <2>. QED BY <2>1, <2>2, <2>3, <2>5
<1>2. CASE in # <<>>
  <2>. DEFINE key == [i \in DOMAIN in |-> in[i].clock]
              P == DOMAIN in
              q == Arranged(in, key, P)
  <2>1. DOMAIN in = 1 .. Len(in) /\ Len(in) \in Nat /\ Len(in) # 0 /\ \A i \in DOMAIN in : in[i] \in Job
    BY <1>2, JobSeq
  <2>2. \A i \in DOMAIN in : key[i] = in[i].clock /\ key[i] \in Int BY <2>1, JobFacts
  <2>. HIDE DEF key
  <2>a. P \in SUBSET DOMAIN in /\ \A i \in P : key[i] \in Int BY <2>2
  <2>3. /\ q \in Seq(Job)
        /\ \A c : WorkAt(q, c) = SumOver(CyclesIn(in), ArrivesAmong(in, DOMAIN in, c))
    <3>. HIDE DEF P
    <3>1. /\ q \in Seq(Job)
          /\ \A c : WorkAt(q, c) = SumOver(CyclesIn(in), ArrivesAmong(in, P, c))
      BY <2>a, ArrangedWork
    <3>. QED BY <3>1 DEF P
  <2>4. \A c : WorkAt(q, c) = WorkAt(in, c) BY <2>3 DEF WorkAt, ArrivesAt, ArrivesAmong
  <2>5. /\ \A i \in DOMAIN in : \E k \in DOMAIN q : q[k] = in[i]
        /\ \A k, l \in DOMAIN q : k < l =>
             \E i, j \in DOMAIN in : q[k] = in[i] /\ q[l] = in[j] /\ Precedes(key, i, j)
    <3>. HIDE DEF P
    <3>1. \A i \in P : \E k \in DOMAIN q : q[k] = in[i]
      BY ONLY in \in Seq(Job), <2>a, ArrangedKeepsAll
    <3>2. \A k, l \in DOMAIN q : k < l =>
             \E i, j \in P : q[k] = in[i] /\ q[l] = in[j] /\ Precedes(key, i, j)
      BY ONLY in \in Seq(Job), <2>a, ArrangedInOrder, Zenon
    <3>. QED BY <3>1, <3>2 DEF P
  <2>. HIDE DEF q
  <2>6. q # <<>>
    <3>1. 1 \in DOMAIN in BY <2>1
    <3>. QED BY <3>1, <2>5
  <2>7. InClockOrder(q)
    <3>. SUFFICES ASSUME NEW k \in DOMAIN q, NEW l \in DOMAIN q, k < l PROVE q[k].clock <= q[l].clock
      BY DEF InClockOrder
    <3>1. PICK i \in DOMAIN in, j \in DOMAIN in : q[k] = in[i] /\ q[l] = in[j] /\ Precedes(key, i, j) BY <2>5
    <3>2. key[i] <= key[j] BY <3>1, <2>2 DEF Precedes
    <3>. QED BY <3>1, <3>2, <2>2
  <2>8. \A c \in 0 .. n : new[c] = WorkAt(q, c) BY <2>4
  <2>9. /\ Begun(q) \in Seq(Job) /\ Spread(Begun(q))
        /\ Served(Begun(q)) \subseteq Nat
        /\ \A c \in 0 .. n : c \in Served(Begun(q)) <=> left[c] > 0
    BY <2>3, <2>6, <2>7, <2>8, OrderedBusy
  <2>10. ComputeUtil(in) = ByEnd(Begun(q)) BY <1>2 DEF ComputeUtil, ByEnd, Begun, q, key
  <2>11. LET v == ByEnd(Begun(q))
         IN  /\ v \in Seq(Util) /\ Apart(v) /\ BeginOrdered(v)
             /\ Covered(v, Len(v)) = Served(Begun(q))
    BY <2>9, ByEndFacts
  <2>. QED BY <2>9, <2>10, <2>11
<1>. QED BY <1>1, <1>2

(* What the assumption says of a trace.                                    *)
LEMMA TraceFacts ==
    ASSUME trace \in Traces
    PROVE  /\ Horizon \in Nat
           /\ Len(trace.waves) \in Nat /\ DOMAIN trace.waves = 1 .. Len(trace.waves)
           /\ \A w \in DOMAIN trace.waves :
                 /\ trace.waves[w].readable \in BOOLEAN /\ trace.waves[w].begin \in Int
                 /\ Len(trace.waves[w].tokens) \in Nat
                 /\ DOMAIN trace.waves[w].tokens = 1 .. Len(trace.waves[w].tokens)
                 /\ \A k \in DOMAIN trace.waves[w].tokens : TokenFits(trace.waves[w].tokens[k])
           /\ Len(Scopes) \in Nat /\ DOMAIN Scopes = 1 .. Len(Scopes)
           /\ \A i \in 1 .. Len(Scopes) : trace.others[Scopes[i][1]] \in Seq(Job)
           /\ \A i, j \in 1 .. Len(Scopes) : Scopes[i] = Scopes[j] => i = j
<1>. DEFINE waves == trace.waves
            Clear(w) == /\ w.readable \in BOOLEAN /\ w.begin \in Int
                        /\ w.tokens \in Seq(Range(w.tokens))
                        /\ \A t \in Range(w.tokens) : TokenFits(t)
<1>1. /\ Horizon \in Nat
      /\ Scopes \in Seq(Range(Scopes)) /\ IsInjective(Scopes)
      /\ waves \in Seq(Range(waves))
      /\ \A w \in Range(waves) : Clear(w)
      /\ \A s \in Range(Scopes) : trace.others[s[1]] \in Seq(Job)
  BY TracesAssumption DEF TracesAssumption, Scopes, Job
<1>. HIDE DEF waves
<1>2. Len(waves) \in Nat /\ DOMAIN waves = 1 .. Len(waves) BY <1>1, LenProperties
<1>3. Len(Scopes) \in Nat /\ DOMAIN Scopes = 1 .. Len(Scopes) BY <1>1, LenProperties
<1>4. \A i \in 1 .. Len(Scopes) : Scopes[i] \in Range(Scopes) BY <1>3 DEF Range
<1>5. ASSUME NEW w \in DOMAIN waves
      PROVE  /\ waves[w].readable \in BOOLEAN /\ waves[w].begin \in Int
             /\ Len(waves[w].tokens) \in Nat
             /\ DOMAIN waves[w].tokens = 1 .. Len(waves[w].tokens)
             /\ \A k \in DOMAIN waves[w].tokens : TokenFits(waves[w].tokens[k])
  <2>1. waves[w] \in Range(waves) BY DEF Range
  <2>. DEFINE v == waves[w]
  <2>. HIDE DEF v
  <2>2. Clear(v) BY <2>1, <1>1 DEF v
  <2>3. Len(v.tokens) \in Nat /\ DOMAIN v.tokens = 1 .. Len(v.tokens) BY <2>2, LenProperties
  <2>4. \A k \in DOMAIN v.tokens : v.tokens[k] \in Range(v.tokens) BY DEF Range
  <2>5. \A k \in DOMAIN v.tokens : TokenFits(v.tokens[k]) BY <2>2, <2>4
  <2>. QED BY <2>2, <2>3, <2>5 DEF v
<1>6. \A i, j \in 1 .. Len(Scopes) : Scopes[i] = Scopes[j] => i = j
  BY <1>1, <1>3 DEF IsInjective
<1>. QED BY <1>1, <1>2, <1>3, <1>4, <1>5, <1>6 DEF waves

(* The fields of a token, and of its issue.                                *)
LEMMA FitFacts ==
    ASSUME NEW t, TokenFits(t)
    PROVE  /\ t.type \in Types /\ t.line \in Lines
           /\ t.clock \in Nat /\ t.cycles \in Nat /\ t.stall \in Nat /\ t.stall <= t.cycles
           /\ t.clock + t.stall \in Nat /\ t.cycles - t.stall \in Nat
           /\ t.clock + t.cycles <= Horizon + 1
BY DEF TokenFits

(* The tokens of a pair, and of its waves from the first ones.             *)
Own(s) == {v \in DOMAIN trace.waves : trace.waves[v].scope = s /\ trace.waves[v].readable}
TokensBefore(s, w) == {x \in TokensOf(s) : x[1] < w}
TokensIn(w) == {w} \X DOMAIN trace.waves[w].tokens

(* The tokens of a pair are finitely many, of its own waves.               *)
LEMMA TokensFacts ==
    ASSUME trace \in Traces, NEW s
    PROVE  /\ IsFiniteSet(TokensOf(s))
           /\ \A x \in TokensOf(s) : /\ x = <<x[1], x[2]>> /\ x[1] \in Own(s)
                                     /\ x[1] \in 1 .. Len(trace.waves)
                                     /\ x[2] \in 1 .. Len(trace.waves[x[1]].tokens)
                                     /\ TokenFits(At(x))
           /\ \A w \in Own(s) : \A k \in DOMAIN trace.waves[w].tokens : <<w, k>> \in TokensOf(s)
<1>. DEFINE F == [w \in Own(s) |-> TokensIn(w)]
            f == [w \in Own(s) |-> Cardinality(F[w])]
<1>1. /\ Len(trace.waves) \in Nat /\ DOMAIN trace.waves = 1 .. Len(trace.waves)
      /\ \A w \in DOMAIN trace.waves :
            /\ Len(trace.waves[w].tokens) \in Nat
            /\ DOMAIN trace.waves[w].tokens = 1 .. Len(trace.waves[w].tokens)
            /\ \A k \in DOMAIN trace.waves[w].tokens : TokenFits(trace.waves[w].tokens[k])
  BY TraceFacts
<1>2. Own(s) \subseteq DOMAIN trace.waves BY DEF Own
<1>3. TokensOf(s) = UNION {F[w] : w \in Own(s)} BY DEF TokensOf, Own, TokensIn
<1>4. IsFiniteSet(Own(s))
  <2>1. IsFiniteSet(1 .. Len(trace.waves)) BY <1>1, FS_Interval
  <2>. QED BY <2>1, <1>1, <1>2, FS_Subset
<1>5. \A w \in Own(s) : IsFiniteSet(F[w])
  <2>. SUFFICES ASSUME NEW w \in Own(s) PROVE IsFiniteSet(TokensIn(w))
    OBVIOUS
  <2>0. Len(trace.waves[w].tokens) \in Int BY <1>1, <1>2
  <2>1. IsFiniteSet(1 .. Len(trace.waves[w].tokens)) BY <2>0, FS_Interval
  <2>2. IsFiniteSet({w}) BY FS_Singleton
  <2>3. IsFiniteSet(DOMAIN trace.waves[w].tokens) BY <1>1, <1>2, <2>1
  <2>. QED BY <2>2, <2>3, FS_Product DEF TokensIn
<1>6. \A v, w \in Own(s) : v # w => F[v] \cap F[w] = {} BY DEF TokensIn
<1>7. \A w \in Own(s) : f[w] = Cardinality(F[w]) OBVIOUS
<1>8. IsFiniteSet(TokensOf(s))
  <2>. HIDE DEF F, f
  <2>. QED BY <1>3, <1>4, <1>5, <1>6, <1>7, CardinalityOfUnion
<1>9. ASSUME NEW x \in TokensOf(s)
      PROVE  /\ x = <<x[1], x[2]>> /\ x[1] \in Own(s)
             /\ x[1] \in 1 .. Len(trace.waves)
             /\ x[2] \in 1 .. Len(trace.waves[x[1]].tokens)
             /\ TokenFits(At(x))
  <2>1. PICK w \in Own(s) : x \in TokensIn(w) BY <1>3
  <2>2. x = <<x[1], x[2]>> /\ x[1] = w /\ x[2] \in DOMAIN trace.waves[w].tokens BY <2>1 DEF TokensIn
  <2>. QED BY <2>2, <1>1, <1>2 DEF At
<1>10. \A w \in Own(s) : \A k \in DOMAIN trace.waves[w].tokens : <<w, k>> \in TokensOf(s)
  BY <1>3 DEF TokensIn
<1>. QED BY <1>8, <1>9, <1>10

-----------------------------------------------------------------------------
(* The work that tokens and records of other SIMDs bring for a pipe.       *)
WorkOf(p, s) == [x \in TokensOf(s) |-> Work(p, At(x))]
Issuing(T, c) == {x \in T : At(x).clock + At(x).stall = c}
Recorded(p, s) == IF p = "vmem" THEN trace.others[s[1]] ELSE <<>>


(* What a token queues for a pipe is what the reference server is given.   *)
LEMMA WorkType ==
    ASSUME NEW p \in Pipes, NEW t, TokenFits(t)
    PROVE  /\ Work(p, t) \in Nat
           /\ p \notin PipesOf[t.type] => Work(p, t) = 0
           /\ p \in PipesOf[t.type] => Work(p, t) = UtilOf(p, t).cycles
           /\ UtilOf(p, t) \in Job /\ UtilOf(p, t).clock = t.clock + t.stall
<1>1. /\ t.type \in Types /\ t.clock + t.stall \in Nat /\ t.cycles - t.stall \in Nat BY FitFacts
<1>2. (3 * (t.cycles - t.stall)) \div 4 \in Nat
  <2>1. \A n \in Nat : (3 * n) \div 4 \in Nat OBVIOUS
  <2>. QED BY <1>1, <2>1
<1>. DEFINE n == t.cycles - t.stall
            m == (3 * n) \div 4
            c == t.clock + t.stall
<1>3. IssueOf(t) = [clock |-> c, cycles |-> n] BY DEF IssueOf
<1>4. UtilOf(p, t) = IF t.type = "WMMA" /\ p = "valu" THEN [clock |-> c, cycles |-> m] ELSE [clock |-> c, cycles |-> n]
  <2>. HIDE DEF n, c
  <2>. QED BY <1>3 DEF UtilOf, m
<1>5. c \in Nat /\ n \in Nat /\ m \in Nat BY <1>1, <1>2
<1>6. Work(p, t) = IF p = "valu" /\ t.type = "WMMA" THEN m
                   ELSE IF t.type = [wmma |-> "WMMA", valu |-> "VALU", vmem |-> "VMEM", scal |-> "SALU"][p] THEN n ELSE 0
  BY DEF Work
<1>. HIDE DEF n, m, c
<1>7. UtilOf(p, t) \in Job /\ UtilOf(p, t).clock = c BY <1>4, <1>5 DEF Job
<1>8. UtilOf(p, t).cycles = IF t.type = "WMMA" /\ p = "valu" THEN m ELSE n BY <1>4
<1>9. p \in PipesOf[t.type] <=> (p = "valu" /\ t.type = "WMMA")
         \/ t.type = [wmma |-> "WMMA", valu |-> "VALU", vmem |-> "VMEM", scal |-> "SALU"][p]
  BY <1>1 DEF PipesOf, Pipes, Types
<1>10. ~(p = "valu" /\ t.type = "WMMA" /\ t.type = [wmma |-> "WMMA", valu |-> "VALU", vmem |-> "VMEM", scal |-> "SALU"][p])
  OBVIOUS
<1>. QED BY <1>5, <1>6, <1>7, <1>8, <1>9, <1>10 DEF c

(* What arrives at a clock: the work of the tokens that issue then, and    *)
(* that recorded of other SIMDs.                                           *)
LEMMA ArrivalsAre ==
    ASSUME trace \in Traces, NEW p \in Pipes, NEW i \in 1 .. Len(Scopes)
    PROVE  LET s == Scopes[i]
           IN  \A c \in 0 .. Horizon :
                 /\ Arrivals(p, s)[c] = SumOver(WorkOf(p, s), Issuing(TokensOf(s), c)) + WorkAt(Recorded(p, s), c)
                 /\ SumOver(WorkOf(p, s), Issuing(TokensOf(s), c)) \in Nat
                 /\ WorkAt(Recorded(p, s), c) \in Nat
<1>. DEFINE s == Scopes[i]
            q == Recorded(p, s)
<1>1. /\ IsFiniteSet(TokensOf(s)) /\ \A x \in TokensOf(s) : TokenFits(At(x)) BY TokensFacts
<1>2. q \in Seq(Job)
  <2>1. trace.others[s[1]] \in Seq(Job) BY TraceFacts
  <2>. QED BY <2>1 DEF Recorded
<1>. HIDE DEF s
<1>3. ASSUME NEW c \in 0 .. Horizon
      PROVE  /\ Arrivals(p, s)[c] = SumOver(WorkOf(p, s), Issuing(TokensOf(s), c)) + WorkAt(q, c)
             /\ SumOver(WorkOf(p, s), Issuing(TokensOf(s), c)) \in Nat
             /\ WorkAt(q, c) \in Nat
  <2>. DEFINE X == Issuing(TokensOf(s), c)
              Y == ArrivesAt(q, c)
              f == [x \in X |-> Work(p, At(x))]
              g == [j \in Y |-> q[j].cycles]
  <2>1. X \subseteq TokensOf(s) BY DEF Issuing
  <2>2. IsFiniteSet(X) BY <1>1, <2>1, FS_Subset
  <2>3. \A x \in X : WorkOf(p, s)[x] = f[x] /\ f[x] \in Nat BY <1>1, <2>1, WorkType DEF WorkOf
  <2>4. SumOver(WorkOf(p, s), X) \in Nat /\ SumOver(f, X) = SumOver(WorkOf(p, s), X)
    <3>. HIDE DEF X, f
    <3>1. \A x \in X : WorkOf(p, s)[x] \in Nat /\ f[x] = WorkOf(p, s)[x] BY <2>3
    <3>2. SumOver(WorkOf(p, s), X) = SumOver(f, X) BY <2>2, <3>1, SumAgrees
    <3>. QED BY <2>2, <3>1, <3>2, SumType
  <2>5. DOMAIN q = 1 .. Len(q) /\ Len(q) \in Nat /\ \A j \in DOMAIN q : q[j] \in Job BY <1>2, JobSeq
  <2>6. IsFiniteSet(Y)
    <3>1. IsFiniteSet(1 .. Len(q)) BY <2>5, FS_Interval
    <3>. QED BY <3>1, <2>5, FS_Subset DEF ArrivesAt
  <2>7. \A j \in Y : CyclesIn(q)[j] \in Nat /\ g[j] = CyclesIn(q)[j] BY <2>5, JobFacts DEF ArrivesAt, CyclesIn
  <2>8. SumOver(CyclesIn(q), Y) \in Nat /\ SumOver(g, Y) = SumOver(CyclesIn(q), Y)
    <3>. HIDE DEF Y, g, q
    <3>1. SumOver(CyclesIn(q), Y) = SumOver(g, Y) BY <2>6, <2>7, SumAgrees
    <3>. QED BY <2>6, <2>7, <3>1, SumType
  <2>9. Arrivals(p, s)[c] = SumFunction(f) + SumFunction(g) BY Zenon DEF Arrivals, Issuing, ArrivesAt, Recorded
  <2>10. SumFunction(f) = SumOver(f, X) /\ SumFunction(g) = SumOver(g, Y)
    <3>1. DOMAIN f = X /\ DOMAIN g = Y OBVIOUS
    <3>. HIDE DEF f, g, X, Y
    <3>. QED BY <3>1, SumIsOver
  <2>. HIDE DEF f, g
  <2>. QED BY <2>4, <2>8, <2>9, <2>10 DEF WorkAt
<1>. QED BY <1>3 DEF s

-----------------------------------------------------------------------------
(* The reference's fold as a function of the clocks that were served.      *)
Clocks == [i \in 1 .. Horizon + 1 |-> i - 1]
Serve(new, q, c) ==
    LET left == new[c] + MaxOf(q.left - 1, 0)
    IN  [left |-> left, busy |-> IF left > 0 THEN q.busy \cup {c} ELSE q.busy]
Serving(new, h) ==
    h = [s \in SUBSET DOMAIN Clocks |->
            IF s = {} THEN [left |-> 0, busy |-> {}] ELSE Serve(new, h[s \ {Max(s)}], Clocks[Max(s)])]

(* The fold of the reference server, unfolded.                             *)
LEMMA BusyIsServing ==
    ASSUME NEW p, NEW s
    PROVE  BusyCycles(p, s) = (CHOOSE h : Serving(Arrivals(p, s), h))[DOMAIN Clocks].busy
BY Zenon DEF BusyCycles, FoldLeft, MapThenFoldSet, Serving, Serve, Clocks

(* That fold is defined for all arrivals.                                  *)
LEMMA ServingExists ==
    ASSUME Horizon \in Nat, NEW new, \A c \in 0 .. Horizon : new[c] \in Nat
    PROVE  \E h : Serving(new, h)
<1>. DEFINE n == Horizon + 1
            O == [left : Nat, busy : SUBSET Nat]
            none == [left |-> 0, busy |-> {}]
            step == [i \in 1 .. n |-> [o \in O |-> Serve(new, o, i - 1)]]
<1>1. n \in Nat /\ DOMAIN Clocks = 1 .. n /\ \A i \in 1 .. n : Clocks[i] = i - 1 BY DEF Clocks
<1>2. none \in O OBVIOUS
<1>3. \A i \in 1 .. n : \A o \in O : step[i][o] \in O
  <2>. SUFFICES ASSUME NEW i \in 1 .. n, NEW o \in O PROVE Serve(new, o, i - 1) \in O
    OBVIOUS
  <2>1. i - 1 \in Nat /\ new[i - 1] \in Nat BY <1>1
  <2>2. new[i - 1] + MaxOf(o.left - 1, 0) \in Nat BY <2>1 DEF MaxOf
  <2>. QED BY <2>1, <2>2 DEF Serve
<1>. HIDE DEF none
<1>4. PICK h \in [SUBSET (1 .. n) -> O] : Folds(h, none, step, n)
  <2>. HIDE DEF O, step, n
  <2>. QED BY <1>1, <1>2, <1>3, FoldExists, Zenon
<1>5. ASSUME NEW s \in SUBSET (1 .. n), s # {}
      PROVE  step[Max(s)][h[s \ {Max(s)}]] = Serve(new, h[s \ {Max(s)}], Clocks[Max(s)])
  <2>1. Max(s) \in 1 .. n BY <1>1, <1>5, MaxUpTo
  <2>2. h[s \ {Max(s)}] \in O BY <1>4
  <2>3. Clocks[Max(s)] = Max(s) - 1 BY <1>1, <2>1
  <2>. HIDE DEF O, n
  <2>. QED BY <2>1, <2>2, <2>3
<1>6. h = [s \in SUBSET (1 .. n) |-> IF s = {} THEN none ELSE step[Max(s)][h[s \ {Max(s)}]]] BY <1>4 DEF Folds
<1>. HIDE DEF step, O
<1>7. h = [s \in SUBSET (1 .. n) |-> IF s = {} THEN none ELSE Serve(new, h[s \ {Max(s)}], Clocks[Max(s)])]
  BY <1>5, <1>6, Zenon
<1>. QED BY <1>1, <1>7, Zenon DEF Serving, none

(* A pipe is busy in the cycles in which its server has work left.         *)
LEMMA BusyIsLeft ==
    ASSUME Horizon \in Nat, NEW p, NEW s, \A c \in 0 .. Horizon : Arrivals(p, s)[c] \in Nat
    PROVE  \E left : /\ Serves(left, Arrivals(p, s), Horizon)
                    /\ BusyCycles(p, s) = {c \in 0 .. Horizon : left[c] > 0}
<1>. DEFINE new == Arrivals(p, s)
            h == CHOOSE g : Serving(new, g)
            n == Horizon + 1
            r == [k \in 0 .. n |-> h[1 .. k]]
<1>1. n \in Nat /\ DOMAIN Clocks = 1 .. n /\ \A i \in 1 .. n : Clocks[i] = i - 1 BY DEF Clocks
<1>2. Serving(new, h) BY ServingExists
<1>3. BusyCycles(p, s) = h[1 .. n].busy BY <1>1, BusyIsServing
<1>4. \A c \in 0 .. Horizon : new[c] \in Nat OBVIOUS
<1>. HIDE DEF h, new
<1>5. r[0] = [left |-> 0, busy |-> {}]
  <2>1. 1 .. 0 = {} /\ 0 \in 0 .. n BY <1>1
  <2>2. h[{}] = [left |-> 0, busy |-> {}] BY <1>2, Zenon DEF Serving
  <2>. QED BY <2>1, <2>2
<1>6. ASSUME NEW k \in 1 .. n PROVE r[k] = Serve(new, r[k - 1], k - 1)
  <2>1. k - 1 \in 0 .. n /\ k \in 0 .. n /\ k \in Nat /\ 1 .. k \in SUBSET (1 .. n) /\ 1 .. k # {}
    <3>1. k \in 1 .. k /\ k \in Nat /\ k <= n BY <1>1
    <3>2. \A i \in 1 .. k : i \in 1 .. n BY <1>1, <3>1
    <3>3. k - 1 \in 0 .. n /\ k \in 0 .. n BY <1>1, <3>1
    <3>. HIDE DEF n, r
    <3>. QED BY <3>1, <3>2, <3>3
  <2>2. Max(1 .. k) = k
    <3>1. 1 .. k \in SUBSET Nat /\ k \in 1 .. k /\ \A y \in 1 .. k : y <= k BY <2>1
    <3>. QED BY <3>1, MaxIs
  <2>3. (1 .. k) \ {k} = 1 .. k - 1 BY <2>1
  <2>4. h[1 .. k] = Serve(new, h[(1 .. k) \ {k}], Clocks[k]) BY <1>1, <1>2, <2>1, <2>2, Zenon DEF Serving
  <2>5. Clocks[k] = k - 1 BY <1>1
  <2>. HIDE DEF n
  <2>. QED BY <2>1, <2>3, <2>4, <2>5
<1>. HIDE DEF r
<1>7. BusyCycles(p, s) = r[n].busy BY <1>1, <1>3 DEF r
<1>. DEFINE left == [c \in 0 .. Horizon |-> r[c + 1].left]
<1>8. ASSUME NEW k \in 1 .. n
      PROVE  /\ r[k].left = new[k - 1] + MaxOf(r[k - 1].left - 1, 0)
             /\ r[k].busy = IF r[k].left > 0 THEN r[k - 1].busy \cup {k - 1} ELSE r[k - 1].busy
  <2>1. r[k] = Serve(new, r[k - 1], k - 1) BY <1>6
  <2>. DEFINE o == r[k - 1]
              c == k - 1
  <2>. HIDE DEF o, c
  <2>2. /\ Serve(new, o, c).left = new[c] + MaxOf(o.left - 1, 0)
        /\ Serve(new, o, c).busy = IF Serve(new, o, c).left > 0 THEN o.busy \cup {c} ELSE o.busy
    BY DEF Serve
  <2>. QED BY <2>1, <2>2 DEF o, c
<1>. DEFINE A == {k \in 0 .. n : /\ r[k].left \in Nat
                                 /\ r[k].busy = {c \in 0 .. k - 1 : left[c] > 0}}
<1>9. 0 \in A
  <2>1. 0 .. 0 - 1 = {} /\ 0 \in 0 .. n BY <1>1
  <2>. QED BY <2>1, <1>5
<1>10. ASSUME NEW k \in 1 .. n, k - 1 \in A PROVE k \in A
  <2>1. k \in 0 .. n /\ k - 1 \in 0 .. Horizon /\ (k - 1) + 1 = k BY <1>1
  <2>2. r[k].left \in Nat
    <3>1. new[k - 1] \in Nat /\ r[k - 1].left \in Nat BY <2>1, <1>4, <1>10
    <3>2. MaxOf(r[k - 1].left - 1, 0) \in Nat BY <3>1 DEF MaxOf
    <3>3. r[k].left = new[k - 1] + MaxOf(r[k - 1].left - 1, 0) BY <1>8
    <3>. HIDE DEF n, left
    <3>. QED BY <3>1, <3>2, <3>3
  <2>3. left[k - 1] = r[k].left BY <2>1
  <2>4. 0 .. k - 1 = 0 .. (k - 1) - 1 \cup {k - 1} /\ k - 1 \notin 0 .. (k - 1) - 1 BY <2>1
  <2>5. r[k - 1].busy = {c \in 0 .. (k - 1) - 1 : left[c] > 0} BY <1>10
  <2>. HIDE DEF left
  <2>6. r[k].busy = {c \in 0 .. k - 1 : left[c] > 0}
    <3>1. r[k].busy = IF left[k - 1] > 0 THEN r[k - 1].busy \cup {k - 1} ELSE r[k - 1].busy BY <1>8, <2>3
    <3>. HIDE DEF n
    <3>2. CASE left[k - 1] > 0 BY ONLY <3>1, <3>2, <2>4, <2>5
    <3>3. CASE ~(left[k - 1] > 0) BY ONLY <3>1, <3>3, <2>4, <2>5
    <3>. QED BY <3>2, <3>3
  <2>. QED BY <2>1, <2>2, <2>6
<1>11. \A k \in 0 .. n : k \in A
  <2>. HIDE DEF A
  <2>. QED BY <1>1, <1>9, <1>10, Climb, Zenon
<1>12. BusyCycles(p, s) = {c \in 0 .. Horizon : left[c] > 0}
  <2>1. n \in 0 .. n /\ n - 1 = Horizon BY <1>1
  <2>2. n \in A
    <3>. HIDE DEF A
    <3>. QED BY <2>1, <1>11
  <2>. HIDE DEF left
  <2>. QED BY <2>1, <2>2, <1>7
<1>13. Serves(left, new, Horizon)
  <2>1. \A c \in 0 .. Horizon : r[c + 1].left \in Nat
    <3>. SUFFICES ASSUME NEW c \in 0 .. Horizon PROVE r[c + 1].left \in Nat
      OBVIOUS
    <3>1. c + 1 \in 0 .. n BY <1>1
    <3>2. c + 1 \in A
      <4>. HIDE DEF A
      <4>. QED BY <3>1, <1>11
    <3>. QED BY <3>2
  <2>2. left[0] = new[0]
    <3>1. 1 \in 1 .. n /\ 0 \in 0 .. Horizon BY <1>1
    <3>2. r[1].left = new[0] + MaxOf(0 - 1, 0)
      <4>1. r[1].left = new[1 - 1] + MaxOf(r[1 - 1].left - 1, 0) BY <3>1, <1>8
      <4>2. 1 - 1 = 0 /\ r[0].left = 0 BY <1>5
      <4>. HIDE DEF left, n
      <4>. QED BY <4>1, <4>2
    <3>3. MaxOf(0 - 1, 0) = 0 BY DEF MaxOf
    <3>. QED BY <3>1, <3>2, <3>3, <1>4
  <2>3. ASSUME NEW c \in 1 .. Horizon PROVE left[c] = new[c] + MaxOf(left[c - 1] - 1, 0)
    <3>1. c + 1 \in 1 .. n /\ (c + 1) - 1 = c /\ c \in 0 .. Horizon /\ c - 1 \in 0 .. Horizon /\ (c - 1) + 1 = c
      BY <1>1
    <3>2. r[c + 1].left = new[c] + MaxOf(r[c].left - 1, 0) BY <3>1, <1>8
    <3>. QED BY <3>1, <3>2
  <2>. QED BY <2>1, <2>2, <2>3 DEF Serves
<1>. HIDE DEF left
<1>. QED BY <1>12, <1>13 DEF new

(* Queues that are filled one after the other.                             *)
LEMMA WorkFacts ==
    ASSUME NEW q \in Seq(Job), NEW c
    PROVE  /\ IsFiniteSet(ArrivesAt(q, c)) /\ ArrivesAt(q, c) \subseteq 1 .. Len(q)
           /\ \A i \in 1 .. Len(q) : CyclesIn(q)[i] \in Nat /\ CyclesIn(q)[i] = q[i].cycles
           /\ WorkAt(q, c) \in Nat
<1>1. DOMAIN q = 1 .. Len(q) /\ Len(q) \in Nat /\ \A i \in 1 .. Len(q) : q[i] \in Job BY JobSeq
<1>2. \A i \in 1 .. Len(q) : CyclesIn(q)[i] \in Nat /\ CyclesIn(q)[i] = q[i].cycles BY <1>1, JobFacts DEF CyclesIn
<1>3. ArrivesAt(q, c) \subseteq 1 .. Len(q) BY <1>1 DEF ArrivesAt
<1>4. IsFiniteSet(1 .. Len(q)) BY <1>1, FS_Interval
<1>5. IsFiniteSet(ArrivesAt(q, c)) BY <1>3, <1>4, FS_Subset
<1>6. \A i \in ArrivesAt(q, c) : CyclesIn(q)[i] \in Nat BY <1>2, <1>3
<1>7. WorkAt(q, c) \in Nat BY <1>5, <1>6, SumType DEF WorkAt
<1>. QED BY <1>2, <1>3, <1>5, <1>7

(* The work of two queues, one behind the other, is that of both.          *)
LEMMA ConcatWork ==
    ASSUME NEW q \in Seq(Job), NEW r \in Seq(Job)
    PROVE  q \o r \in Seq(Job) /\ \A c : WorkAt(q \o r, c) = WorkAt(q, c) + WorkAt(r, c)
<1>. DEFINE n == Len(q)
            m == Len(r)
            t == q \o r
<1>1. n \in Nat /\ m \in Nat /\ DOMAIN q = 1 .. n /\ DOMAIN r = 1 .. m BY JobSeq
<1>2. /\ t \in Seq(Job) /\ Len(t) = n + m
      /\ \A i \in 1 .. n + m : t[i] = IF i <= n THEN q[i] ELSE r[i - n]
  BY ConcatProperties
<1>3. DOMAIN t = 1 .. n + m BY <1>2, LenProperties
<1>. HIDE DEF t
<1>4. ASSUME NEW c PROVE WorkAt(t, c) = WorkAt(q, c) + WorkAt(r, c)
  <2>. DEFINE A == ArrivesAt(q, c)
              B == ArrivesAt(r, c)
              f == CyclesIn(t)
              g == CyclesIn(r)
              k == [i \in B |-> n + i]
              C == {k[i] : i \in B}
  <2>1. \A i \in 1 .. n : i \in 1 .. n + m /\ t[i] = q[i] BY <1>1, <1>2
  <2>2. \A i \in 1 .. m : n + i \in 1 .. n + m /\ t[n + i] = r[i]
    <3>. SUFFICES ASSUME NEW i \in 1 .. m PROVE n + i \in 1 .. n + m /\ t[n + i] = r[i]
      OBVIOUS
    <3>1. n + i \in 1 .. n + m /\ ~(n + i <= n) /\ (n + i) - n = i BY <1>1
    <3>2. t[n + i] = IF n + i <= n THEN q[n + i] ELSE r[(n + i) - n] BY <1>2, <3>1
    <3>. QED BY <3>1, <3>2
  <2>3. A \subseteq 1 .. n /\ B \subseteq 1 .. m /\ IsFiniteSet(A) /\ IsFiniteSet(B) BY WorkFacts
  <2>4. C \subseteq n + 1 .. n + m BY <2>3, <1>1
  <2>5. ArrivesAt(t, c) = A \cup C
    <3>1. ASSUME NEW i \in 1 .. n + m PROVE t[i].clock = c <=> i \in A \cup C
      <4>1. CASE i <= n
        <5>1. i \in 1 .. n BY <4>1, <1>1
        <5>2. t[i].clock = c <=> i \in A BY <5>1, <2>1, <1>1 DEF ArrivesAt
        <5>3. i \notin C BY <5>1, <2>4, <1>1
        <5>. QED BY <5>2, <5>3
      <4>2. CASE ~(i <= n)
        <5>1. i - n \in 1 .. m /\ n + (i - n) = i BY <4>2, <1>1
        <5>2. t[i] = r[i - n] BY <5>1, <2>2
        <5>3. t[i].clock = c <=> i - n \in B BY <5>1, <5>2, <1>1 DEF ArrivesAt
        <5>4. i \in C <=> i - n \in B
          <6>1. i - n \in B => k[i - n] = i BY <5>1
          <6>2. \A j \in B : k[j] = i => j = i - n BY <2>3, <1>1
          <6>. HIDE DEF k, B
          <6>. QED BY <6>1, <6>2
        <5>5. i \notin A BY <4>2, <2>3
        <5>. QED BY <5>3, <5>4, <5>5
      <4>. QED BY <4>1, <4>2
    <3>2. A \cup C \subseteq 1 .. n + m BY <2>3, <2>4, <1>1
    <3>. QED BY <3>1, <3>2, <1>3 DEF ArrivesAt
  <2>6. A \cap C = {} BY <2>3, <2>4, <1>1
  <2>7. ArrivesAt(t, c) \subseteq 1 .. n + m /\ IsFiniteSet(ArrivesAt(t, c))
        /\ \A i \in 1 .. n + m : f[i] \in Nat /\ f[i] = t[i].cycles
    BY <1>2, WorkFacts
  <2>8. \A i \in 1 .. n : CyclesIn(q)[i] \in Nat /\ CyclesIn(q)[i] = q[i].cycles BY WorkFacts
  <2>9. \A i \in 1 .. m : g[i] \in Nat /\ g[i] = r[i].cycles BY WorkFacts
  <2>10. SumOver(f, A \cup C) = SumOver(f, A) + SumOver(f, C)
    <3>1. A \cup C \subseteq 1 .. n + m /\ IsFiniteSet(A \cup C) BY <2>5, <2>7
    <3>2. IsFiniteSet(C)
      <4>. HIDE DEF A, C
      <4>. QED BY <3>1, FS_Subset
    <3>3. \A i \in A \cup C : f[i] \in Nat
      <4>. HIDE DEF A, C, f
      <4>. QED BY <3>1, <2>7
    <3>. HIDE DEF A, C, f
    <3>. QED BY <2>3, <2>6, <3>2, <3>3, SumUnion
  <2>11. SumOver(f, A) = SumOver(CyclesIn(q), A)
    <3>1. \A i \in A : f[i] \in Nat /\ CyclesIn(q)[i] = f[i] BY <2>1, <2>3, <2>7, <2>8
    <3>. HIDE DEF A, f
    <3>. QED BY <2>3, <3>1, SumAgrees
  <2>12. SumOver(f, C) = SumOver(g, B)
    <3>1. \A i \in B : g[i] \in Nat /\ f[k[i]] = g[i]
      <4>. SUFFICES ASSUME NEW i \in B PROVE g[i] \in Nat /\ f[k[i]] = g[i]
        OBVIOUS
      <4>1. i \in 1 .. m BY <2>3
      <4>2. g[i] \in Nat /\ g[i] = r[i].cycles BY <4>1, <2>9
      <4>3. k[i] \in 1 .. n + m /\ t[k[i]] = r[i] BY <4>1, <2>2, <2>3
      <4>4. f[k[i]] = t[k[i]].cycles BY <4>3, <2>7
      <4>. HIDE DEF f, g, k, B
      <4>. QED BY <4>2, <4>3, <4>4
    <3>2. \A i, j \in B : k[i] = k[j] => i = j BY <2>3, <1>1
    <3>3. SumOver(f, {k[i] : i \in B}) = SumOver(g, B)
      <4>1. IsFiniteSet(B) BY <2>3
      <4>. HIDE DEF A, B, C, f, g, k, n, m
      <4>. QED BY ONLY <3>1, <3>2, <4>1, SumRenamed
    <3>. QED BY <3>3
  <2>. QED BY <2>5, <2>10, <2>11, <2>12 DEF WorkAt
<1>. QED BY <1>2, <1>4 DEF t

(* What a wave brings for a pipe.                                          *)
LEMMA QueuedWork ==
    ASSUME trace \in Traces, NEW p \in Pipes, NEW s, NEW w \in Own(s)
    PROVE  LET q == Queued(p, trace.waves[w].tokens)
           IN  /\ q \in Seq(Job)
               /\ \A c : WorkAt(q, c) = SumOver(WorkOf(p, s), Issuing(TokensIn(w), c))
<1>. DEFINE tokens == trace.waves[w].tokens
            n == Len(tokens)
            u == [i \in DOMAIN tokens |-> UtilOf(p, tokens[i])]
            key == [i \in DOMAIN tokens |-> i]
            P == {i \in DOMAIN tokens : p \in PipesOf[tokens[i].type]}
<1>1. n \in Nat /\ DOMAIN tokens = 1 .. n /\ \A i \in 1 .. n : TokenFits(tokens[i])
  BY TraceFacts DEF Own
<1>2. \A i \in 1 .. n : /\ Work(p, tokens[i]) \in Nat
                        /\ p \notin PipesOf[tokens[i].type] => Work(p, tokens[i]) = 0
                        /\ p \in PipesOf[tokens[i].type] => Work(p, tokens[i]) = UtilOf(p, tokens[i]).cycles
                        /\ UtilOf(p, tokens[i]) \in Job
                        /\ UtilOf(p, tokens[i]).clock = tokens[i].clock + tokens[i].stall
  BY <1>1, WorkType
<1>3. u \in Seq(Job) /\ DOMAIN u = 1 .. n /\ Len(u) = n
  <2>1. u \in [1 .. n -> Job] BY <1>1, <1>2
  <2>. HIDE DEF u, n
  <2>. QED BY <1>1, <2>1
<1>4. P \in SUBSET DOMAIN u /\ P \subseteq 1 .. n /\ \A i \in P : key[i] \in Int BY <1>1, <1>3
<1>5. /\ Arranged(u, key, P) \in Seq(Job)
      /\ \A c : WorkAt(Arranged(u, key, P), c) = SumOver(CyclesIn(u), ArrivesAmong(u, P, c))
  <2>. HIDE DEF u, key, P
  <2>. QED BY <1>3, <1>4, ArrangedWork
<1>6. ASSUME NEW c PROVE SumOver(CyclesIn(u), ArrivesAmong(u, P, c)) = SumOver(WorkOf(p, s), Issuing(TokensIn(w), c))
  <2>. DEFINE K == {i \in 1 .. n : tokens[i].clock + tokens[i].stall = c}
              A == ArrivesAmong(u, P, c)
              g == [i \in 1 .. n |-> Work(p, tokens[i])]
              f == CyclesIn(u)
              m == [i \in 1 .. n |-> <<w, i>>]
  <2>1. IsFiniteSet(K)
    <3>1. IsFiniteSet(1 .. n) BY <1>1, FS_Interval
    <3>. QED BY <3>1, FS_Subset
  <2>2. A = {i \in K : p \in PipesOf[tokens[i].type]} BY <1>1, <1>2, <1>4 DEF ArrivesAmong
  <2>3. A \in SUBSET K /\ IsFiniteSet(A)
    <3>1. A \in SUBSET K BY <2>2
    <3>. HIDE DEF A, K
    <3>. QED BY <2>1, <3>1, FS_Subset
  <2>4. \A i \in A : f[i] \in Nat /\ g[i] = f[i] BY <1>2, <1>3, <2>2 DEF CyclesIn
  <2>5. SumOver(f, A) = SumOver(g, A)
    <3>. HIDE DEF A, f, g
    <3>. QED BY <2>3, <2>4, SumAgrees
  <2>6. SumOver(g, K) = SumOver(g, A)
    <3>1. \A i \in A : g[i] \in Nat BY <1>2, <2>2
    <3>2. \A i \in K \ A : g[i] = 0 BY <1>2, <2>2
    <3>. HIDE DEF A, g, K
    <3>. QED BY <2>1, <2>3, <3>1, <3>2, SumWithout
  <2>7. SumOver(WorkOf(p, s), {m[i] : i \in K}) = SumOver(g, K)
    <3>1. \A i \in K : g[i] \in Nat /\ WorkOf(p, s)[m[i]] = g[i]
      <4>. SUFFICES ASSUME NEW i \in K PROVE g[i] \in Nat /\ WorkOf(p, s)[<<w, i>>] = g[i]
        OBVIOUS
      <4>1. <<w, i>> \in TokensOf(s) BY <1>1, TokensFacts
      <4>2. At(<<w, i>>) = tokens[i] BY DEF At
      <4>. QED BY <4>1, <4>2, <1>2 DEF WorkOf
    <3>2. \A i, j \in K : m[i] = m[j] => i = j OBVIOUS
    <3>. HIDE DEF K, g, m
    <3>. QED BY <2>1, <3>1, <3>2, SumRenamed
  <2>8. {m[i] : i \in K} = Issuing(TokensIn(w), c)
    <3>1. ASSUME NEW x \in Issuing(TokensIn(w), c) PROVE x \in {m[i] : i \in K}
      <4>1. x \in {w} \X (1 .. n) /\ At(x).clock + At(x).stall = c BY <1>1 DEF Issuing, TokensIn
      <4>2. x = <<w, x[2]>> /\ x[2] \in 1 .. n BY <4>1
      <4>3. At(x) = tokens[x[2]] BY <4>2 DEF At
      <4>4. x[2] \in K /\ m[x[2]] = x BY <4>1, <4>2, <4>3
      <4>. QED BY <4>4
    <3>2. ASSUME NEW i \in K PROVE m[i] \in Issuing(TokensIn(w), c)
      <4>1. m[i] = <<w, i>> /\ <<w, i>> \in TokensIn(w) BY <1>1 DEF TokensIn
      <4>2. At(<<w, i>>) = tokens[i] BY DEF At
      <4>. QED BY <4>1, <4>2 DEF Issuing
    <3>. QED BY <3>1, <3>2
  <2>. QED BY <2>5, <2>6, <2>7, <2>8
<1>7. Queued(p, tokens) = Arranged(u, key, P) BY DEF Queued
<1>. HIDE DEF u, key, P
<1>. QED BY <1>5, <1>6, <1>7

-----------------------------------------------------------------------------
(* What the waves up to one bring for a pipe.                              *)
ReadUpTo(q, p, s, w) ==
    /\ q \in Seq(Job)
    /\ \A c : WorkAt(q, c) = SumOver(WorkOf(p, s), Issuing(TokensBefore(s, w), c))

(* Reading a wave of the pair adds its tokens, and no other.               *)
LEMMA TokensGrow ==
    ASSUME trace \in Traces, NEW s, NEW w \in DOMAIN trace.waves
    PROVE  /\ w \in Own(s) => /\ TokensBefore(s, w + 1) = TokensBefore(s, w) \cup TokensIn(w)
                              /\ TokensBefore(s, w) \cap TokensIn(w) = {}
                              /\ TokensIn(w) \subseteq TokensOf(s)
           /\ w \notin Own(s) => TokensBefore(s, w + 1) = TokensBefore(s, w)
<1>1. \A x \in TokensOf(s) : x = <<x[1], x[2]>> /\ x[1] \in Own(s) /\ x[1] \in Nat
                             /\ x[2] \in DOMAIN trace.waves[x[1]].tokens
  BY TokensFacts, TraceFacts DEF Own
<1>2. w \in Nat BY TraceFacts
<1>3. \A x \in TokensOf(s) : x[1] < w + 1 <=> x[1] < w \/ x[1] = w BY <1>1, <1>2
<1>4. \A x \in TokensIn(w) : x = <<w, x[2]>> /\ x[1] = w /\ x[2] \in DOMAIN trace.waves[w].tokens BY DEF TokensIn
<1>5. w \in Own(s) => TokensIn(w) \subseteq TokensOf(s) BY <1>4, TokensFacts
<1>6. \A x \in TokensOf(s) : x[1] = w => w \in Own(s) /\ x \in TokensIn(w) BY <1>1 DEF TokensIn
<1>7. w \in Own(s) => TokensBefore(s, w + 1) = TokensBefore(s, w) \cup TokensIn(w)
  BY <1>3, <1>4, <1>5, <1>6 DEF TokensBefore
<1>8. TokensBefore(s, w) \cap TokensIn(w) = {} BY <1>2, <1>4 DEF TokensBefore
<1>9. w \notin Own(s) => TokensBefore(s, w + 1) = TokensBefore(s, w) BY <1>3, <1>6 DEF TokensBefore
<1>. QED BY <1>5, <1>7, <1>8, <1>9

(* ReadWave queues the work of one more wave.                              *)
LEMMA ReadOneMore ==
    ASSUME trace \in Traces, NEW p \in Pipes, NEW s, NEW w \in DOMAIN trace.waves, NEW q, ReadUpTo(q, p, s, w)
    PROVE  /\ w \in Own(s) => ReadUpTo(q \o Queued(p, trace.waves[w].tokens), p, s, w + 1)
           /\ w \notin Own(s) => ReadUpTo(q, p, s, w + 1)
<1>1. CASE w \notin Own(s) BY <1>1, TokensGrow DEF ReadUpTo
<1>2. CASE w \in Own(s)
  <2>. DEFINE r == Queued(p, trace.waves[w].tokens)
  <2>1. r \in Seq(Job) /\ \A c : WorkAt(r, c) = SumOver(WorkOf(p, s), Issuing(TokensIn(w), c))
    BY <1>2, QueuedWork
  <2>. HIDE DEF r
  <2>2. q \in Seq(Job) BY DEF ReadUpTo
  <2>3. q \o r \in Seq(Job) /\ \A c : WorkAt(q \o r, c) = WorkAt(q, c) + WorkAt(r, c)
    BY <2>1, <2>2, ConcatWork
  <2>4. ASSUME NEW c
        PROVE  WorkAt(q \o r, c) = SumOver(WorkOf(p, s), Issuing(TokensBefore(s, w + 1), c))
    <3>. DEFINE A == Issuing(TokensBefore(s, w), c)
                B == Issuing(TokensIn(w), c)
    <3>1. A \cap B = {} /\ Issuing(TokensBefore(s, w + 1), c) = A \cup B
      BY <1>2, TokensGrow DEF Issuing
    <3>2. A \subseteq TokensOf(s) /\ B \subseteq TokensOf(s)
      BY <1>2, TokensGrow DEF Issuing, TokensBefore
    <3>3. IsFiniteSet(TokensOf(s)) /\ \A x \in TokensOf(s) : TokenFits(At(x)) BY TokensFacts
    <3>4. IsFiniteSet(A) /\ IsFiniteSet(B)
      <4>. HIDE DEF A, B
      <4>. QED BY <3>2, <3>3, FS_Subset
    <3>5. \A x \in A \cup B : WorkOf(p, s)[x] \in Nat
      <4>. HIDE DEF A, B
      <4>. QED BY <3>2, <3>3, WorkType DEF WorkOf
    <3>6. SumOver(WorkOf(p, s), A \cup B) = SumOver(WorkOf(p, s), A) + SumOver(WorkOf(p, s), B)
      <4>. HIDE DEF A, B
      <4>. QED BY <3>1, <3>4, <3>5, SumUnion
    <3>. QED BY <3>1, <3>6, <2>1, <2>3 DEF ReadUpTo
  <2>5. ReadUpTo(q \o r, p, s, w + 1) BY <2>3, <2>4 DEF ReadUpTo
  <2>. QED BY <1>2, <2>5 DEF r
<1>. QED BY <1>1, <1>2

(* Before the first wave nothing is queued.                                *)
LEMMA ReadNone ==
    ASSUME trace \in Traces, NEW p, NEW s
    PROVE  ReadUpTo(<<>>, p, s, 1)
<1>1. TokensBefore(s, 1) = {}
  <2>1. \A x \in TokensOf(s) : x[1] \in 1 .. Len(trace.waves) /\ Len(trace.waves) \in Nat BY TokensFacts, TraceFacts
  <2>. QED BY <2>1 DEF TokensBefore
<1>2. \A c : Issuing(TokensBefore(s, 1), c) = {} BY <1>1 DEF Issuing
<1>3. \A c : ArrivesAt(<<>>, c) = {} BY DEF ArrivesAt
<1>4. \A f : SumOver(f, {}) = 0 BY FS_EmptySet, SumStep
<1>5. \A c : WorkAt(<<>>, c) = 0 BY <1>3, <1>4 DEF WorkAt
<1>6. \A c : SumOver(WorkOf(p, s), Issuing(TokensBefore(s, 1), c)) = 0 BY <1>2, <1>4
<1>7. <<>> \in Seq(Job) OBVIOUS
<1>. QED BY <1>5, <1>6, <1>7 DEF ReadUpTo

(* The records of other SIMDs.                                             *)
Busy(records) == Arranged(records, [i \in DOMAIN records |-> i], {i \in DOMAIN records : records[i].cycles > 0})

(* Records without cycles, which ComputePipes leaves out, are no work.     *)
LEMMA BusyWork ==
    ASSUME NEW q \in Seq(Job)
    PROVE  Busy(q) \in Seq(Job) /\ \A c : WorkAt(Busy(q), c) = WorkAt(q, c)
<1>. DEFINE key == [i \in DOMAIN q |-> i]
            P == {i \in DOMAIN q : q[i].cycles > 0}
<1>1. DOMAIN q = 1 .. Len(q) /\ Len(q) \in Nat /\ \A i \in 1 .. Len(q) : q[i] \in Job BY JobSeq
<1>2. P \in SUBSET DOMAIN q /\ \A i \in P : key[i] \in Int BY <1>1
<1>3. Busy(q) = Arranged(q, key, P) BY DEF Busy
<1>4. Busy(q) \in Seq(Job) /\ \A c : WorkAt(Busy(q), c) = SumOver(CyclesIn(q), ArrivesAmong(q, P, c))
  <2>. HIDE DEF key, P
  <2>. QED BY <1>2, <1>3, ArrangedWork
<1>5. ASSUME NEW c PROVE SumOver(CyclesIn(q), ArrivesAmong(q, P, c)) = WorkAt(q, c)
  <2>. DEFINE A == ArrivesAmong(q, P, c)
              B == ArrivesAt(q, c)
              f == CyclesIn(q)
  <2>1. IsFiniteSet(B) /\ B \subseteq 1 .. Len(q)
        /\ \A i \in 1 .. Len(q) : f[i] \in Nat /\ f[i] = q[i].cycles
    BY WorkFacts
  <2>2. A \in SUBSET B BY DEF ArrivesAmong, ArrivesAt
  <2>3. \A i \in A : f[i] \in Nat
    <3>. HIDE DEF A, B, f
    <3>. QED BY <2>1, <2>2
  <2>4. \A i \in B \ A : f[i] = 0
    <3>1. \A i \in B \ A : ~(q[i].cycles > 0) BY <1>1 DEF ArrivesAmong, ArrivesAt
    <3>. HIDE DEF A, B, f
    <3>. QED BY <2>1, <3>1
  <2>. HIDE DEF A, B, f
  <2>5. SumOver(f, B) = SumOver(f, A) BY <2>1, <2>2, <2>3, <2>4, SumWithout
  <2>. QED BY <2>5 DEF WorkAt, A, B, f
<1>. HIDE DEF P
<1>. QED BY <1>4, <1>5

-----------------------------------------------------------------------------
(* What a list says of the cycles in which the server of a pipe is busy.   *)
Shows(v, B) ==
    /\ v \in Seq(Util) /\ Apart(v) /\ BeginOrdered(v)
    /\ Covered(v, Len(v)) \subseteq Nat
    /\ \A c \in 0 .. Horizon : c \in Covered(v, Len(v)) <=> c \in B

(* Of all that its waves brought, and of the records of other SIMDs, a     *)
(* pipe's list shows the cycles of the reference.                          *)
LEMMA PipeExact ==
    ASSUME trace \in Traces, NEW p \in Pipes, NEW i \in 1 .. Len(Scopes), NEW q,
           ReadUpTo(q, p, Scopes[i], Len(trace.waves) + 1)
    PROVE  LET r == IF p = "vmem" THEN q \o Busy(trace.others[Scopes[i][1]]) ELSE q
           IN  Shows(ComputeUtil(r), BusyCycles(p, Scopes[i]))
<1>. DEFINE s == Scopes[i]
            r == IF p = "vmem" THEN q \o Busy(trace.others[s[1]]) ELSE q
            new == Arrivals(p, s)
<1>1. Horizon \in Nat /\ trace.others[s[1]] \in Seq(Job) BY TraceFacts
<1>2. TokensBefore(s, Len(trace.waves) + 1) = TokensOf(s)
  <2>1. \A x \in TokensOf(s) : x[1] < Len(trace.waves) + 1
    <3>1. \A x \in TokensOf(s) : x[1] \in 1 .. Len(trace.waves) /\ Len(trace.waves) \in Nat
      BY TokensFacts, TraceFacts
    <3>. HIDE DEF s
    <3>. QED BY <3>1
  <2>. QED BY <2>1 DEF TokensBefore
<1>3. q \in Seq(Job) /\ \A c : WorkAt(q, c) = SumOver(WorkOf(p, s), Issuing(TokensOf(s), c))
  BY <1>2 DEF ReadUpTo
<1>4. \A c \in 0 .. Horizon :
          /\ new[c] = SumOver(WorkOf(p, s), Issuing(TokensOf(s), c)) + WorkAt(Recorded(p, s), c)
          /\ SumOver(WorkOf(p, s), Issuing(TokensOf(s), c)) \in Nat
          /\ WorkAt(Recorded(p, s), c) \in Nat
  BY ArrivalsAre
<1>5. r \in Seq(Job) /\ \A c \in 0 .. Horizon : new[c] = WorkAt(r, c)
  <2>1. CASE p = "vmem"
    <3>. DEFINE o == trace.others[s[1]]
    <3>1. Busy(o) \in Seq(Job) /\ \A c : WorkAt(Busy(o), c) = WorkAt(o, c) BY <1>1, BusyWork
    <3>2. q \o Busy(o) \in Seq(Job) /\ \A c : WorkAt(q \o Busy(o), c) = WorkAt(q, c) + WorkAt(Busy(o), c)
      BY <1>3, <3>1, ConcatWork
    <3>3. Recorded(p, s) = o /\ r = q \o Busy(o) BY <2>1 DEF Recorded
    <3>. HIDE DEF s, o, r, new
    <3>. QED BY <3>1, <3>2, <3>3, <1>3, <1>4
  <2>2. CASE p # "vmem"
    <3>1. Recorded(p, s) = <<>> /\ r = q BY <2>2 DEF Recorded
    <3>2. \A c : WorkAt(<<>>, c) = 0
      <4>1. \A c : ArrivesAt(<<>>, c) = {} BY DEF ArrivesAt
      <4>2. \A f : SumOver(f, {}) = 0 BY FS_EmptySet, SumStep
      <4>. QED BY <4>1, <4>2 DEF WorkAt
    <3>. HIDE DEF s, r, new
    <3>. QED BY <3>1, <3>2, <1>3, <1>4
  <2>. QED BY <2>1, <2>2
<1>6. \A c \in 0 .. Horizon : new[c] \in Nat
  <2>. HIDE DEF s, new
  <2>. QED BY <1>4
<1>7. PICK left : Serves(left, new, Horizon) /\ BusyCycles(p, s) = {c \in 0 .. Horizon : left[c] > 0}
  BY <1>1, <1>6, BusyIsLeft
<1>. HIDE DEF s, r, new
<1>. DEFINE v == ComputeUtil(r)
<1>8. /\ v \in Seq(Util) /\ Apart(v) /\ BeginOrdered(v)
      /\ Covered(v, Len(v)) \subseteq Nat
      /\ \A c \in 0 .. Horizon : c \in Covered(v, Len(v)) <=> left[c] > 0
  BY <1>1, <1>5, <1>7, ComputeUtilExact
<1>. HIDE DEF v
<1>9. Shows(v, BusyCycles(p, s)) BY <1>7, <1>8 DEF Shows
<1>. QED BY <1>9 DEF v, r, s

(* What is within an interval of a period.                                 *)
LEMMA OverlapIs ==
    ASSUME NEW u \in Util, NEW start \in Int, NEW n \in Nat
    PROVE  LET F == CyclesOf(u) \cap (start .. start + n - 1)
           IN  /\ IsFiniteSet(F) /\ Cardinality(F) = Overlap(u, start, n)
               /\ Overlap(u, start, n) \in Nat
               /\ ~(u.clock >= start /\ BeginOf(u) <= start + n) => Overlap(u, start, n) = 0
<1>. DEFINE beg == BeginOf(u)
            e == u.clock
            lo == MaxOf(beg, start)
            hi == MinOf(e, start + n)
<1>1. /\ e \in Int /\ u.cycles \in Nat /\ beg \in Int /\ beg <= e /\ u.cycles = e - beg
      /\ \A t : t \in CyclesOf(u) <=> t \in Int /\ beg <= t /\ t < e
  <2>1. u.cycles = e - beg BY UtilFacts DEF BeginOf
  <2>. QED BY <2>1, UtilFacts
<1>2. Overlap(u, start, n) = MaxOf(MinOf(MinOf(e - start, start + n - beg), MinOf(n, e - beg)), 0)
  BY <1>1 DEF Overlap
<1>. HIDE DEF beg, e
<1>3. lo \in Int /\ hi \in Int BY <1>1 DEF MaxOf, MinOf
<1>4. CyclesOf(u) \cap (start .. start + n - 1) = lo .. hi - 1 BY <1>1 DEF MaxOf, MinOf
<1>5. /\ IsFiniteSet(lo .. hi - 1)
      /\ Cardinality(lo .. hi - 1) = IF lo > hi - 1 THEN 0 ELSE (hi - 1) - lo + 1
  <2>1. hi - 1 \in Int BY <1>3
  <2>. HIDE DEF lo, hi
  <2>. QED BY <1>3, <2>1, FS_Interval
<1>. DEFINE d == MinOf(e - start, start + n - beg)
            c == MinOf(n, e - beg)
            m == MinOf(d, c)
<1>a. /\ d \in Int /\ d <= e - start /\ d <= start + n - beg /\ (d = e - start \/ d = start + n - beg)
      /\ c \in Int /\ c <= n /\ c <= e - beg /\ (c = n \/ c = e - beg)
  BY <1>1 DEF MinOf
<1>b. /\ lo \in Int /\ lo >= beg /\ lo >= start /\ (lo = beg \/ lo = start)
      /\ hi \in Int /\ hi <= e /\ hi <= start + n /\ (hi = e \/ hi = start + n)
  BY <1>1 DEF MinOf, MaxOf
<1>. HIDE DEF d, c, lo, hi
<1>c. m \in Int /\ m <= d /\ m <= c /\ (m = d \/ m = c) BY <1>a DEF MinOf
<1>. HIDE DEF m
<1>d. Overlap(u, start, n) = IF m < 0 THEN 0 ELSE m BY <1>2, <1>c DEF MaxOf, m, d, c
<1>6. (IF lo > hi - 1 THEN 0 ELSE (hi - 1) - lo + 1) = Overlap(u, start, n)
  BY <1>1, <1>a, <1>b, <1>c, <1>d
<1>7. Overlap(u, start, n) \in Nat BY <1>c, <1>d
<1>8. ~(e >= start /\ beg <= start + n) => Overlap(u, start, n) = 0 BY <1>1, <1>a, <1>c, <1>d
<1>. QED BY <1>4, <1>5, <1>6, <1>7, <1>8 DEF e, beg, lo, hi

(* compute_intersection counts the cycles of the interval that are covered. *)
LEMMA IntersectionIs ==
    ASSUME NEW v \in Seq(Util), Apart(v), NEW start \in Int, NEW n \in Int
    PROVE  LET F == Covered(v, Len(v)) \cap (start .. start + n - 1)
           IN  IsFiniteSet(F) /\ Intersection(v, start, n) = Cardinality(F)
<1>. DEFINE I == start .. start + n - 1
<1>1. CASE n <= 0
  <2>1. I = {} BY <1>1
  <2>2. Intersection(v, start, n) = 0 BY <1>1 DEF Intersection
  <2>. QED BY <2>1, <2>2, FS_EmptySet
<1>2. CASE ~(n <= 0)
  <2>0. n \in Nat BY <1>2
  <2>. DEFINE D == DOMAIN v
              met == {i \in D : v[i].clock >= start /\ BeginOf(v[i]) <= start + n}
              F == [i \in D |-> CyclesOf(v[i]) \cap I]
              f == [i \in D |-> Overlap(v[i], start, n)]
              g == [i \in met |-> Overlap(v[i], start, n)]
  <2>1. Len(v) \in Nat /\ D = 1 .. Len(v) /\ \A i \in D : v[i] \in Util BY SeqFacts
  <2>2. IsFiniteSet(D)
    <3>1. IsFiniteSet(1 .. Len(v)) BY <2>1, FS_Interval
    <3>. QED BY <3>1, <2>1
  <2>3. \A i \in D : /\ IsFiniteSet(F[i]) /\ Cardinality(F[i]) = f[i] /\ f[i] \in Nat
                     /\ i \notin met => f[i] = 0
    <3>. SUFFICES ASSUME NEW i \in D
                  PROVE  /\ IsFiniteSet(CyclesOf(v[i]) \cap I) /\ Cardinality(CyclesOf(v[i]) \cap I) = Overlap(v[i], start, n)
                         /\ Overlap(v[i], start, n) \in Nat
                         /\ ~(v[i].clock >= start /\ BeginOf(v[i]) <= start + n) => Overlap(v[i], start, n) = 0
      OBVIOUS
    <3>1. v[i] \in Util BY <2>1
    <3>. QED BY <2>0, <3>1, OverlapIs
  <2>4. \A i, j \in D : i # j => F[i] \cap F[j] = {}
    <3>1. \A i, j \in D : i < j => CyclesOf(v[i]) \cap CyclesOf(v[j]) = {}
      <4>. SUFFICES ASSUME NEW i \in D, NEW j \in D, i < j PROVE CyclesOf(v[i]) \cap CyclesOf(v[j]) = {}
        OBVIOUS
      <4>1. v[i].clock < BeginOf(v[j]) /\ v[i] \in Util /\ v[j] \in Util BY <2>1 DEF Apart
      <4>. QED BY <4>1, UtilFacts
    <3>2. \A i, j \in D : i # j => i < j \/ j < i BY <2>1
    <3>3. \A i, j \in D : i # j => CyclesOf(v[i]) \cap CyclesOf(v[j]) = {} BY <3>1, <3>2
    <3>. QED BY <3>3
  <2>5. UNION {F[i] : i \in D} = Covered(v, Len(v)) \cap I
    <3>1. \A t : t \in Covered(v, Len(v)) <=> \E i \in D : t \in CyclesOf(v[i]) BY <2>1, CoveredFacts
    <3>. HIDE DEF I
    <3>. QED BY <3>1
  <2>6. /\ IsFiniteSet(UNION {F[i] : i \in D})
        /\ Cardinality(UNION {F[i] : i \in D}) = SumOver(f, D)
    <3>. HIDE DEF D, F, f
    <3>. QED BY <2>2, <2>3, <2>4, CardinalityOfUnion
  <2>7. SumOver(f, D) = SumOver(f, met)
    <3>1. met \in SUBSET D OBVIOUS
    <3>. HIDE DEF D, F, f, met
    <3>2. (\A i \in met : f[i] \in Nat) /\ \A i \in D \ met : f[i] = 0 BY <2>3, <3>1
    <3>. QED BY <2>2, <3>1, <3>2, SumWithout
  <2>8. SumOver(f, met) = SumOver(g, met)
    <3>1. met \in SUBSET D /\ \A i \in met : g[i] = f[i] OBVIOUS
    <3>. HIDE DEF D, F, f, g, met
    <3>2. IsFiniteSet(met) BY <2>2, <3>1, FS_Subset
    <3>3. \A i \in met : f[i] \in Nat BY <2>3, <3>1
    <3>. QED BY <3>1, <3>2, <3>3, SumAgrees
  <2>9. Intersection(v, start, n) = SumFunction(g) BY <1>2, Zenon DEF Intersection
  <2>10. SumFunction(g) = SumOver(g, met)
    <3>1. DOMAIN g = met OBVIOUS
    <3>. HIDE DEF g, met
    <3>. QED BY <3>1, SumIsOver
  <2>. HIDE DEF F, f, g, met, D, I
  <2>11. IsFiniteSet(Covered(v, Len(v)) \cap I) /\ Intersection(v, start, n) = Cardinality(Covered(v, Len(v)) \cap I)
    BY <2>5, <2>6, <2>7, <2>8, <2>9, <2>10
  <2>. QED BY <2>11 DEF I
<1>. QED BY <1>1, <1>2

-----------------------------------------------------------------------------
(* A list that shows the busy cycles counts those among what a token spent. *)
Counts(h, B, S) ==
    /\ h.idle = Cardinality(B \cap S.idle)
    /\ h.stall = Cardinality(B \cap S.stall)
    /\ h.issue = Cardinality(B \cap S.issue)

SpentBy(t, last) ==
    [idle  |-> last .. t.clock - 1,
     stall |-> t.clock .. t.clock + t.stall - 1,
     issue |-> t.clock + t.stall .. t.clock + t.cycles - 1]

(* A token idles, stalls and issues at different cycles, none beyond the   *)
(* horizon.                                                                *)
LEMMA SpentFacts ==
    ASSUME NEW t, TokenFits(t), NEW last \in Int, Horizon \in Nat
    PROVE  LET S == SpentBy(t, last)
           IN  /\ IsFiniteSet(S.idle) /\ IsFiniteSet(S.stall) /\ IsFiniteSet(S.issue)
               /\ S.idle \cap S.stall = {} /\ S.idle \cap S.issue = {} /\ S.stall \cap S.issue = {}
               /\ \A c \in S.idle \cup S.stall \cup S.issue : c \in Int /\ c <= Horizon
<1>1. /\ t.clock \in Nat /\ t.cycles \in Nat /\ t.stall \in Nat /\ t.stall <= t.cycles
      /\ t.clock + t.cycles <= Horizon + 1
  BY FitFacts
<1>. DEFINE a1 == last .. t.clock - 1
            a2 == t.clock .. t.clock + t.stall - 1
            a3 == t.clock + t.stall .. t.clock + t.cycles - 1
<1>2. IsFiniteSet(a1) /\ IsFiniteSet(a2) /\ IsFiniteSet(a3)
  <2>1. /\ last \in Int /\ t.clock - 1 \in Int /\ t.clock \in Int /\ t.clock + t.stall - 1 \in Int
        /\ t.clock + t.stall \in Int /\ t.clock + t.cycles - 1 \in Int
    BY <1>1
  <2>. QED BY <2>1, FS_Interval
<1>3. a1 \cap a2 = {} /\ a1 \cap a3 = {} /\ a2 \cap a3 = {} BY <1>1
<1>4. \A c \in a1 \cup a2 \cup a3 : c \in Int /\ c <= Horizon BY <1>1
<1>5. SpentBy(t, last).idle = a1 /\ SpentBy(t, last).stall = a2 /\ SpentBy(t, last).issue = a3 BY DEF SpentBy
<1>. HIDE DEF a1, a2, a3
<1>. QED BY <1>2, <1>3, <1>4, <1>5

(* compute_interval counts, of each part of a token, the cycles in which a *)
(* list is busy.                                                           *)
LEMMA IntervalCounts ==
    ASSUME NEW v, NEW B \in SUBSET (0 .. Horizon), Shows(v, B), Horizon \in Nat,
           NEW t, TokenFits(t), NEW last \in Int
    PROVE  Counts(ComputeInterval(v, last, t), B, SpentBy(t, last))
<1>. DEFINE C == Covered(v, Len(v))
            h == ComputeInterval(v, last, t)
            S == SpentBy(t, last)
<1>1. /\ v \in Seq(Util) /\ Apart(v) /\ C \subseteq Nat /\ \A c \in 0 .. Horizon : c \in C <=> c \in B BY DEF Shows
<1>2. ASSUME NEW X, \A c \in X : c \in Int /\ c <= Horizon PROVE C \cap X = B \cap X
  <2>1. \A c \in X : c \in Nat => c \in 0 .. Horizon BY <1>2
  <2>. HIDE DEF C
  <2>. QED BY <1>1, <2>1
<1>3. \A c \in S.idle \cup S.stall \cup S.issue : c \in Int /\ c <= Horizon BY SpentFacts
<1>4. /\ t.clock \in Nat /\ t.cycles \in Nat /\ t.stall \in Nat /\ t.clock + t.stall \in Nat /\ t.cycles - t.stall \in Nat
  BY FitFacts
<1>5. /\ S.idle = last .. last + (t.clock - last) - 1
      /\ S.stall = t.clock .. t.clock + t.stall - 1
      /\ S.issue = (t.clock + t.stall) .. (t.clock + t.stall) + (t.cycles - t.stall) - 1
  <2>1. last + (t.clock - last) - 1 = t.clock - 1 /\ (t.clock + t.stall) + (t.cycles - t.stall) - 1 = t.clock + t.cycles - 1
    BY <1>4
  <2>. QED BY <2>1 DEF SpentBy
<1>6. /\ h.idle = Intersection(v, last, t.clock - last)
      /\ h.stall = Intersection(v, t.clock, t.stall)
      /\ h.issue = Intersection(v, t.clock + t.stall, t.cycles - t.stall)
  BY DEF ComputeInterval, IssueOf
<1>. HIDE DEF C, S, h
<1>7. h.idle = Cardinality(C \cap S.idle)
  <2>1. t.clock - last \in Int BY <1>4
  <2>2. Intersection(v, last, t.clock - last) = Cardinality(Covered(v, Len(v)) \cap ((last) .. (last) + (t.clock - last) - 1))
    BY <1>1, <2>1, IntersectionIs
  <2>. QED BY <1>5, <1>6, <2>2 DEF C
<1>8. h.stall = Cardinality(C \cap S.stall)
  <2>1. t.clock \in Int /\ t.stall \in Int BY <1>4
  <2>2. Intersection(v, t.clock, t.stall) = Cardinality(Covered(v, Len(v)) \cap ((t.clock) .. (t.clock) + (t.stall) - 1))
    BY <1>1, <2>1, IntersectionIs
  <2>. QED BY <1>5, <1>6, <2>2 DEF C
<1>9. h.issue = Cardinality(C \cap S.issue)
  <2>1. t.clock + t.stall \in Int /\ t.cycles - t.stall \in Int BY <1>4
  <2>2. Intersection(v, t.clock + t.stall, t.cycles - t.stall) = Cardinality(Covered(v, Len(v)) \cap ((t.clock + t.stall) .. (t.clock + t.stall) + (t.cycles - t.stall) - 1))
    BY <1>1, <2>1, IntersectionIs
  <2>. QED BY <1>5, <1>6, <2>2 DEF C
<1>10. C \cap S.idle = B \cap S.idle /\ C \cap S.stall = B \cap S.stall /\ C \cap S.issue = B \cap S.issue
  BY <1>2, <1>3
<1>. QED BY <1>7, <1>8, <1>9, <1>10 DEF Counts, S, h

(* The totals, with and without what is spent issuing.                     *)
LEMMA Within ==
    ASSUME NEW B, NEW A, IsFiniteSet(A)
    PROVE  IsFiniteSet(B \cap A) /\ Cardinality(B \cap A) \in Nat /\ Cardinality(A) \in Nat
           /\ Cardinality(B \cap A) <= Cardinality(A)
<1>1. B \cap A \in SUBSET A OBVIOUS
<1>. QED BY <1>1, FS_Subset, FS_CardinalityType

(* Cardinalities of a set cut by two that are apart.                       *)
LEMMA Joins ==
    ASSUME NEW B, NEW A, IsFiniteSet(A), NEW C, IsFiniteSet(C), A \cap C = {}
    PROVE  Cardinality(B \cap (A \cup C)) = Cardinality(B \cap A) + Cardinality(B \cap C)
<1>. DEFINE X == B \cap A
            Y == B \cap C
<1>1. IsFiniteSet(X) /\ IsFiniteSet(Y) /\ Cardinality(X) \in Nat /\ Cardinality(Y) \in Nat BY Within
<1>2. X \cap Y = {} /\ B \cap (A \cup C) = X \cup Y OBVIOUS
<1>. HIDE DEF X, Y
<1>3. Cardinality(X \cap Y) = 0 BY <1>2, FS_EmptySet
<1>4. Cardinality(X \cup Y) = Cardinality(X) + Cardinality(Y) - Cardinality(X \cap Y) BY <1>1, FS_Union
<1>5. Cardinality(B \cap (A \cup C)) = Cardinality(X \cup Y) BY <1>2, Zenon
<1>6. Cardinality(X \cup Y) = Cardinality(X) + Cardinality(Y) BY <1>1, <1>3, <1>4
<1>. QED BY <1>5, <1>6, Zenon DEF X, Y

(* What is claimed of a token's hidden cycles, and of a part of them.      *)
PartOf(h, S) ==
    /\ h \in Hidden
    /\ h.idle <= Cardinality(S.idle)
    /\ h.stall <= Cardinality(S.stall)
    /\ h.issue <= Cardinality(S.issue)
WaitingOf(S) == S.idle \cup S.stall
AllOf(S) == WaitingOf(S) \cup S.issue

(* The total of an interval, with and without its issue.                   *)
LEMMA CountsFacts ==
    ASSUME NEW B, NEW S, IsFiniteSet(S.idle), IsFiniteSet(S.stall), IsFiniteSet(S.issue),
           S.idle \cap S.stall = {}, S.idle \cap S.issue = {}, S.stall \cap S.issue = {},
           NEW i, NEW l, NEW m, Counts([idle |-> i, stall |-> l, issue |-> m], B, S)
    PROVE  LET h == [idle |-> i, stall |-> l, issue |-> m]
           IN  /\ PartOf(h, S) /\ Total(h) = Cardinality(B \cap AllOf(S)) /\ Total(h) \in Nat
               /\ PartOf(WithoutIssue(h), S) /\ Total(WithoutIssue(h)) = Cardinality(B \cap WaitingOf(S))
               /\ Total(WithoutIssue(h)) \in Nat
<1>1. i = Cardinality(B \cap S.idle) /\ l = Cardinality(B \cap S.stall) /\ m = Cardinality(B \cap S.issue) BY DEF Counts
<1>2. /\ i \in Nat /\ Cardinality(S.idle) \in Nat /\ i <= Cardinality(S.idle)
      /\ l \in Nat /\ Cardinality(S.stall) \in Nat /\ l <= Cardinality(S.stall)
      /\ m \in Nat /\ Cardinality(S.issue) \in Nat /\ m <= Cardinality(S.issue)
  BY <1>1, Within
<1>3. Cardinality(B \cap WaitingOf(S)) = i + l
  <2>. DEFINE X == S.idle
              Y == S.stall
  <2>1. IsFiniteSet(X) /\ IsFiniteSet(Y) /\ X \cap Y = {} OBVIOUS
  <2>. HIDE DEF X, Y
  <2>2. Cardinality(B \cap (X \cup Y)) = Cardinality(B \cap X) + Cardinality(B \cap Y) BY ONLY <2>1, Joins
  <2>. QED BY <1>1, <2>2 DEF WaitingOf, X, Y
<1>4. Cardinality(B \cap AllOf(S)) = i + l + m
  <2>. DEFINE W == WaitingOf(S)
              X == S.issue
  <2>1. IsFiniteSet(W) /\ IsFiniteSet(X) /\ W \cap X = {}
    <3>1. IsFiniteSet(S.idle \cup S.stall) BY FS_Union
    <3>. QED BY <3>1 DEF WaitingOf
  <2>. HIDE DEF W, X
  <2>2. Cardinality(B \cap (W \cup X)) = Cardinality(B \cap W) + Cardinality(B \cap X) BY ONLY <2>1, Joins
  <2>. QED BY <1>1, <1>3, <2>2 DEF AllOf, W, X
<1>. DEFINE h == [idle |-> i, stall |-> l, issue |-> m]
            g == [idle |-> i, stall |-> l, issue |-> 0]
<1>5. WithoutIssue(h) = g BY DEF WithoutIssue
<1>6. PartOf(h, S) /\ PartOf(g, S) BY <1>2 DEF PartOf, Hidden
<1>7. Total(h) = i + l + m /\ Total(g) = i + l BY <1>2 DEF Total
<1>. HIDE DEF h, g
<1>8. Total(h) \in Nat /\ Total(g) \in Nat BY <1>2, <1>7
<1>. QED BY <1>3, <1>4, <1>5, <1>6, <1>7, <1>8 DEF h

(* The pipes whose periods a list unites, and when these are busy.         *)
Joined == [wmma |-> {"wmma"}, valu |-> {"valu"}, vmem |-> {"vmem"}, scal |-> {"scal"},
           math |-> {"wmma", "valu"}, vector |-> {"wmma", "valu", "vmem"}, all |-> Pipes]
BusyIn(l, s) == UNION {BusyCycles(p, s) : p \in Joined[l]}

(* A list of periods that lie apart is in the order in which they begin.   *)
LEMMA ApartInOrder ==
    ASSUME NEW v \in Seq(Util), Apart(v)
    PROVE  BeginOrdered(v)
<1>. SUFFICES ASSUME NEW i \in DOMAIN v, NEW j \in DOMAIN v, i < j PROVE BeginOf(v[i]) <= BeginOf(v[j])
  BY DEF BeginOrdered
<1>1. v[i] \in Util /\ v[j] \in Util /\ v[i].clock < BeginOf(v[j]) BY SeqFacts DEF Apart
<1>. QED BY <1>1, UtilFacts

(* The union of two lists shows what either of them shows.                 *)
LEMMA UnionShows ==
    ASSUME NEW v, NEW A, Shows(v, A), NEW w, NEW B, Shows(w, B),
           NEW o \in Seq(Util), Apart(o),
           Covered(o, Len(o)) = Covered(v, Len(v)) \cup Covered(w, Len(w))
    PROVE  Shows(o, A \cup B)
<1>1. BeginOrdered(o) BY ApartInOrder
<1>2. Covered(o, Len(o)) \subseteq Nat BY DEF Shows
<1>3. \A c \in 0 .. Horizon : c \in Covered(o, Len(o)) <=> c \in A \cup B BY DEF Shows
<1>. QED BY <1>1, <1>2, <1>3 DEF Shows

(* The empty list shows that nothing is busy.                              *)
LEMMA NoneShows == Shows(<<>>, {})
<1>1. <<>> \in Seq(Util) /\ Len(<<>>) = 0 /\ DOMAIN <<>> = {} OBVIOUS
<1>2. Apart(<<>>) /\ BeginOrdered(<<>>) BY <1>1 DEF Apart, BeginOrdered
<1>3. Covered(<<>>, Len(<<>>)) = {} BY <1>1, CoveredNone
<1>. QED BY <1>1, <1>2, <1>3 DEF Shows

(* Each union is of two lists.                                             *)
LEMMA BusyInIs ==
    ASSUME NEW s
    PROVE  /\ \A p \in Pipes : BusyIn(p, s) = BusyCycles(p, s)
           /\ BusyIn("math", s) = BusyIn("valu", s) \cup BusyIn("wmma", s)
           /\ BusyIn("vector", s) = BusyIn("math", s) \cup BusyIn("vmem", s)
           /\ BusyIn("all", s) = BusyIn("vector", s) \cup BusyIn("scal", s)
<1>1. \A l : \A c : c \in BusyIn(l, s) <=> \E p \in Joined[l] : c \in BusyCycles(p, s) BY DEF BusyIn
<1>2. /\ Joined["wmma"] = {"wmma"} /\ Joined["valu"] = {"valu"} /\ Joined["vmem"] = {"vmem"} /\ Joined["scal"] = {"scal"}
      /\ Joined["math"] = {"wmma", "valu"} /\ Joined["vector"] = {"wmma", "valu", "vmem"}
      /\ Joined["all"] = {"wmma", "valu", "vmem", "scal"}
  BY DEF Joined, Pipes
<1>3. \A p \in Pipes : Joined[p] = {p} BY <1>2 DEF Pipes
<1>4. \A p \in Pipes : BusyIn(p, s) = BusyCycles(p, s)
  <2>. SUFFICES ASSUME NEW p \in Pipes PROVE BusyIn(p, s) = BusyCycles(p, s)
    OBVIOUS
  <2>1. \A c : c \in BusyIn(p, s) <=> c \in BusyCycles(p, s) BY <1>1, <1>3
  <2>. QED BY <2>1
<1>5. \A c : c \in BusyIn("math", s) <=> c \in BusyIn("valu", s) \cup BusyIn("wmma", s) BY <1>1, <1>2
<1>6. \A c : c \in BusyIn("vector", s) <=> c \in BusyIn("math", s) \cup BusyIn("vmem", s) BY <1>1, <1>2
<1>7. \A c : c \in BusyIn("all", s) <=> c \in BusyIn("vector", s) \cup BusyIn("scal", s) BY <1>1, <1>2
<1>. QED BY <1>4, <1>5, <1>6, <1>7

(* What is busy is so within the trace.                                    *)
LEMMA BusyInTrace ==
    ASSUME trace \in Traces, NEW i \in 1 .. Len(Scopes), NEW l \in Lists
    PROVE  BusyIn(l, Scopes[i]) \in SUBSET (0 .. Horizon)
<1>. DEFINE s == Scopes[i]
<1>1. \A p \in Pipes : BusyCycles(p, s) \subseteq 0 .. Horizon
  <2>. SUFFICES ASSUME NEW p \in Pipes PROVE BusyCycles(p, s) \subseteq 0 .. Horizon
    OBVIOUS
  <2>0. Horizon \in Nat BY TraceFacts
  <2>1. \A c \in 0 .. Horizon : Arrivals(p, s)[c] \in Nat
    <3>1. \A c \in 0 .. Horizon :
             /\ Arrivals(p, s)[c] = SumOver(WorkOf(p, s), Issuing(TokensOf(s), c)) + WorkAt(Recorded(p, s), c)
             /\ SumOver(WorkOf(p, s), Issuing(TokensOf(s), c)) \in Nat
             /\ WorkAt(Recorded(p, s), c) \in Nat
      BY ArrivalsAre
    <3>. QED BY <3>1
  <2>2. PICK left : BusyCycles(p, s) = {c \in 0 .. Horizon : left[c] > 0} BY <2>0, <2>1, BusyIsLeft
  <2>. QED BY <2>2
<1>2. Joined[l] \subseteq Pipes BY DEF Joined, Lists, Pipes, Unions, ToSet
<1>. QED BY <1>1, <1>2 DEF BusyIn

-----------------------------------------------------------------------------
(* What is hidden of a token.                                              *)
LastOf(x) ==
    LET w == trace.waves[x[1]]
        k == x[2]
    IN  IF k = 1 THEN w.begin ELSE w.tokens[k - 1].clock + w.tokens[k - 1].cycles

(* A token idles from the end of the one before, or from the beginning of  *)
(* its wave.                                                               *)
LEMMA LastFacts ==
    ASSUME trace \in Traces, NEW s, NEW x \in TokensOf(s)
    PROVE  LastOf(x) \in Int /\ TokenFits(At(x)) /\ Spent(x) = SpentBy(At(x), LastOf(x))
<1>1. TokenFits(At(x)) /\ x[1] \in DOMAIN trace.waves /\ x[2] \in 1 .. Len(trace.waves[x[1]].tokens)
  BY TokensFacts, TraceFacts
<1>. DEFINE w == trace.waves[x[1]]
            k == x[2]
<1>2. w.begin \in Int /\ Len(w.tokens) \in Nat /\ DOMAIN w.tokens = 1 .. Len(w.tokens)
      /\ \A j \in DOMAIN w.tokens : TokenFits(w.tokens[j])
  BY <1>1, TraceFacts
<1>3. LastOf(x) \in Int
  <2>1. CASE k = 1 BY <2>1, <1>2 DEF LastOf
  <2>2. CASE k # 1
    <3>1. k - 1 \in DOMAIN w.tokens BY <2>2, <1>1, <1>2
    <3>2. TokenFits(w.tokens[k - 1]) BY <3>1, <1>2
    <3>. QED BY <2>2, <3>2, FitFacts DEF LastOf
  <2>. QED BY <2>1, <2>2
<1>4. Spent(x) = SpentBy(At(x), LastOf(x)) BY DEF Spent, SpentBy, LastOf
<1>. QED BY <1>1, <1>3, <1>4

(* The greater of two latencies, and its total.                            *)
LEMMA GreaterFacts ==
    ASSUME NEW S, NEW g, PartOf(g, S), Total(g) \in Nat, NEW h, PartOf(h, S), Total(h) \in Nat
    PROVE  PartOf(Greater(g, h), S) /\ Total(Greater(g, h)) = Max({Total(g)} \cup {Total(h)})
<1>. DEFINE n == Total(g)
            m == Total(h)
            X == {n} \cup {m}
<1>. HIDE DEF n, m
<1>1. n \in Nat /\ m \in Nat BY DEF n, m
<1>2. X \in SUBSET Nat BY <1>1
<1>3. CASE n > m
  <2>1. Greater(g, h) = g BY <1>3 DEF Greater, n, m
  <2>2. n \in X /\ \A y \in X : y <= n BY <1>1, <1>3
  <2>. HIDE DEF X
  <2>3. Max(X) = n BY <1>2, <2>2, MaxIs
  <2>. QED BY <2>1, <2>3 DEF X, n, m
<1>4. CASE ~(n > m)
  <2>1. Greater(g, h) = h BY <1>4 DEF Greater, n, m
  <2>2. m \in X /\ \A y \in X : y <= m BY <1>1, <1>4
  <2>. HIDE DEF X
  <2>3. Max(X) = m BY <1>2, <2>2, MaxIs
  <2>. QED BY <2>1, <2>3 DEF X, n, m
<1>. QED BY <1>3, <1>4

(* Every list shows when the pipes that it unites are busy.                *)
ListsShow(lists, s) == \A l \in Lists : Shows(lists[l], BusyIn(l, s))

(* An interval of a token counts what its list shows.                      *)
LEMMA ListCounts ==
    ASSUME trace \in Traces, NEW i \in 1 .. Len(Scopes), NEW l \in Lists,
           NEW v, Shows(v, BusyIn(l, Scopes[i])), NEW x \in TokensOf(Scopes[i])
    PROVE  LET h == ComputeInterval(v, LastOf(x), At(x))
               B == BusyIn(l, Scopes[i])
               S == Spent(x)
           IN  /\ PartOf(h, S) /\ Total(h) = Cardinality(B \cap AllOf(S)) /\ Total(h) \in Nat
               /\ PartOf(WithoutIssue(h), S) /\ Total(WithoutIssue(h)) = Cardinality(B \cap WaitingOf(S))
               /\ Total(WithoutIssue(h)) \in Nat
<1>. DEFINE B == BusyIn(l, Scopes[i])
            S == Spent(x)
            h == ComputeInterval(v, LastOf(x), At(x))
            n == Intersection(v, LastOf(x), At(x).clock - LastOf(x))
            st == Intersection(v, At(x).clock, At(x).stall)
            m == Intersection(v, IssueOf(At(x)).clock, IssueOf(At(x)).cycles)
<1>1. LastOf(x) \in Int /\ TokenFits(At(x)) /\ S = SpentBy(At(x), LastOf(x)) BY LastFacts
<1>2. B \in SUBSET (0 .. Horizon) BY BusyInTrace
<1>3. Horizon \in Nat BY TraceFacts
<1>4. h = [idle |-> n, stall |-> st, issue |-> m] BY DEF ComputeInterval
<1>5. Counts(h, B, S)
  <2>. HIDE DEF B, S, h
  <2>1. Shows(v, B) BY DEF B
  <2>2. Counts(ComputeInterval(v, LastOf(x), At(x)), B, SpentBy(At(x), LastOf(x)))
    BY <1>1, <1>2, <1>3, <2>1, IntervalCounts
  <2>. QED BY <1>1, <2>2 DEF h
<1>6. /\ IsFiniteSet(S.idle) /\ IsFiniteSet(S.stall) /\ IsFiniteSet(S.issue)
      /\ S.idle \cap S.stall = {} /\ S.idle \cap S.issue = {} /\ S.stall \cap S.issue = {}
  <2>. HIDE DEF S
  <2>1. LET T == SpentBy(At(x), LastOf(x))
        IN  /\ IsFiniteSet(T.idle) /\ IsFiniteSet(T.stall) /\ IsFiniteSet(T.issue)
            /\ T.idle \cap T.stall = {} /\ T.idle \cap T.issue = {} /\ T.stall \cap T.issue = {}
    BY <1>1, <1>3, SpentFacts
  <2>. QED BY <1>1, <2>1
<1>. HIDE DEF B, S, h, n, st, m
<1>7. Counts([idle |-> n, stall |-> st, issue |-> m], B, S) BY <1>4, <1>5
<1>8. LET g == [idle |-> n, stall |-> st, issue |-> m]
      IN  /\ PartOf(g, S) /\ Total(g) = Cardinality(B \cap AllOf(S)) /\ Total(g) \in Nat
          /\ PartOf(WithoutIssue(g), S) /\ Total(WithoutIssue(g)) = Cardinality(B \cap WaitingOf(S))
          /\ Total(WithoutIssue(g)) \in Nat
  BY <1>6, <1>7, CountsFacts
<1>9. /\ PartOf(h, S) /\ Total(h) = Cardinality(B \cap AllOf(S)) /\ Total(h) \in Nat
      /\ PartOf(WithoutIssue(h), S) /\ Total(WithoutIssue(h)) = Cardinality(B \cap WaitingOf(S))
      /\ Total(WithoutIssue(h)) \in Nat
  BY <1>4, <1>8
<1>. QED BY <1>9 DEF B, S, h

(* The reference for a token, by its type.                                 *)
CyclesBy(s) == [p \in Pipes |-> BusyCycles(p, s)]

(* The reference by the type of the token.                                 *)
LEMMA ReferenceIs ==
    ASSUME NEW s, NEW x, TokenFits(At(x))
    PROVE  LET In(l) == Cardinality(BusyIn(l, s) \cap AllOf(Spent(x)))
               Waits(l) == Cardinality(BusyIn(l, s) \cap WaitingOf(Spent(x)))
               ref == ReferenceTotal(x, CyclesBy(s))
               type == At(x).type
           IN  /\ type = "WMMA" => ref = Max({Waits("wmma"), Waits("valu")} \cup {0})
               /\ type = "VALU" => ref = Max({Waits("valu")} \cup {In("wmma")})
               /\ type = "VMEM" => ref = Max({Waits("vmem")} \cup {In("math")})
               /\ type = "SALU" => ref = Max({Waits("scal")} \cup {In("vector")})
               /\ type = "OTHERS" => ref = Max({} \cup {In("all")})
<1>. DEFINE type == At(x).type
            W == WaitingOf(Spent(x))
            A == AllOf(Spent(x))
            cyc == CyclesBy(s)
            Waits(l) == Cardinality(BusyIn(l, s) \cap W)
            In(l) == Cardinality(BusyIn(l, s) \cap A)
            Own1 == [WMMA |-> {"wmma", "valu"}, VALU |-> {"valu"}, VMEM |-> {"vmem"}, SALU |-> {"scal"}, OTHERS |-> {}]
            Above1 == [WMMA |-> {}, VALU |-> {"wmma"}, VMEM |-> {"wmma", "valu"},
                       SALU |-> {"wmma", "valu", "vmem"}, OTHERS |-> Pipes]
            Ref(o, h) == Max({Cardinality(cyc[p] \cap W) : p \in o} \cup {Cardinality((UNION {cyc[p] : p \in h}) \cap A)})
<1>1. ReferenceTotal(x, cyc) = Ref(Own1[type], Above1[type])
  BY Zenon DEF ReferenceTotal, WaitingOf, AllOf
<1>2. \A p \in Pipes : cyc[p] = BusyIn(p, s) BY BusyInIs DEF CyclesBy
<1>3. /\ UNION {cyc[p] : p \in {}} = {}
      /\ UNION {cyc[p] : p \in {"wmma"}} = BusyIn("wmma", s)
      /\ UNION {cyc[p] : p \in {"wmma", "valu"}} = BusyIn("math", s)
      /\ UNION {cyc[p] : p \in {"wmma", "valu", "vmem"}} = BusyIn("vector", s)
      /\ UNION {cyc[p] : p \in Pipes} = BusyIn("all", s)
  <2>1. /\ cyc["wmma"] = BusyIn("wmma", s) /\ cyc["valu"] = BusyIn("valu", s)
        /\ cyc["vmem"] = BusyIn("vmem", s) /\ cyc["scal"] = BusyIn("scal", s)
    BY <1>2 DEF Pipes
  <2>2. /\ BusyIn("math", s) = BusyIn("valu", s) \cup BusyIn("wmma", s)
        /\ BusyIn("vector", s) = BusyIn("math", s) \cup BusyIn("vmem", s)
        /\ BusyIn("all", s) = BusyIn("vector", s) \cup BusyIn("scal", s)
    BY BusyInIs
  <2>. HIDE DEF cyc
  <2>3. UNION {cyc[p] : p \in {}} = {} OBVIOUS
  <2>4. UNION {cyc[p] : p \in {"wmma"}} = cyc["wmma"] OBVIOUS
  <2>5. UNION {cyc[p] : p \in {"wmma", "valu"}} = cyc["valu"] \cup cyc["wmma"] OBVIOUS
  <2>6. UNION {cyc[p] : p \in {"wmma", "valu", "vmem"}} = (cyc["valu"] \cup cyc["wmma"]) \cup cyc["vmem"] OBVIOUS
  <2>7. UNION {cyc[p] : p \in Pipes} = ((cyc["valu"] \cup cyc["wmma"]) \cup cyc["vmem"]) \cup cyc["scal"] BY DEF Pipes
  <2>. QED BY <2>1, <2>2, <2>3, <2>4, <2>5, <2>6, <2>7
<1>4. /\ cyc["wmma"] = BusyIn("wmma", s) /\ cyc["valu"] = BusyIn("valu", s)
      /\ cyc["vmem"] = BusyIn("vmem", s) /\ cyc["scal"] = BusyIn("scal", s)
  BY <1>2 DEF Pipes
<1>5. /\ {Cardinality(cyc[p] \cap W) : p \in {}} = {}
      /\ {Cardinality(cyc[p] \cap W) : p \in {"wmma", "valu"}} = {Cardinality(cyc["wmma"] \cap W), Cardinality(cyc["valu"] \cap W)}
      /\ {Cardinality(cyc[p] \cap W) : p \in {"valu"}} = {Cardinality(cyc["valu"] \cap W)}
      /\ {Cardinality(cyc[p] \cap W) : p \in {"vmem"}} = {Cardinality(cyc["vmem"] \cap W)}
      /\ {Cardinality(cyc[p] \cap W) : p \in {"scal"}} = {Cardinality(cyc["scal"] \cap W)}
  <2>. HIDE DEF cyc, W
  <2>. QED OBVIOUS
<1>6. Cardinality({} \cap A) = 0 BY FS_EmptySet
<1>7. /\ type = "WMMA" => Own1[type] = {"wmma", "valu"} /\ Above1[type] = {}
      /\ type = "VALU" => Own1[type] = {"valu"} /\ Above1[type] = {"wmma"}
      /\ type = "VMEM" => Own1[type] = {"vmem"} /\ Above1[type] = {"wmma", "valu"}
      /\ type = "SALU" => Own1[type] = {"scal"} /\ Above1[type] = {"wmma", "valu", "vmem"}
      /\ type = "OTHERS" => Own1[type] = {} /\ Above1[type] = Pipes
  <2>. HIDE DEF type
  <2>. QED OBVIOUS
<1>8. type = "WMMA" => ReferenceTotal(x, cyc) = Max({Waits("wmma"), Waits("valu")} \cup {0})
  <2>. HIDE DEF Own1, Above1, cyc, W, A, type
  <2>1. type = "WMMA" => Ref(Own1[type], Above1[type]) = Ref({"wmma", "valu"}, {}) BY <1>7
  <2>. QED BY <1>1, <2>1, <1>3, <1>4, <1>5, <1>6
<1>9. type = "VALU" => ReferenceTotal(x, cyc) = Max({Waits("valu")} \cup {In("wmma")})
  <2>. HIDE DEF Own1, Above1, cyc, W, A, type
  <2>1. type = "VALU" => Ref(Own1[type], Above1[type]) = Ref({"valu"}, {"wmma"}) BY <1>7
  <2>. QED BY <1>1, <2>1, <1>3, <1>4, <1>5
<1>10. type = "VMEM" => ReferenceTotal(x, cyc) = Max({Waits("vmem")} \cup {In("math")})
  <2>. HIDE DEF Own1, Above1, cyc, W, A, type
  <2>1. type = "VMEM" => Ref(Own1[type], Above1[type]) = Ref({"vmem"}, {"wmma", "valu"}) BY <1>7
  <2>. QED BY <1>1, <2>1, <1>3, <1>4, <1>5
<1>11. type = "SALU" => ReferenceTotal(x, cyc) = Max({Waits("scal")} \cup {In("vector")})
  <2>. HIDE DEF Own1, Above1, cyc, W, A, type
  <2>1. type = "SALU" => Ref(Own1[type], Above1[type]) = Ref({"scal"}, {"wmma", "valu", "vmem"}) BY <1>7
  <2>. QED BY <1>1, <2>1, <1>3, <1>4, <1>5
<1>12. type = "OTHERS" => ReferenceTotal(x, cyc) = Max({} \cup {In("all")})
  <2>. HIDE DEF Own1, Above1, cyc, W, A, type
  <2>1. type = "OTHERS" => Ref(Own1[type], Above1[type]) = Ref({}, Pipes) BY <1>7
  <2>. QED BY <1>1, <2>1, <1>3, <1>4, <1>5
<1>. HIDE DEF Waits, In, type, cyc
<1>13. /\ type = "WMMA" => ReferenceTotal(x, cyc) = Max({Waits("wmma"), Waits("valu")} \cup {0})
       /\ type = "VALU" => ReferenceTotal(x, cyc) = Max({Waits("valu")} \cup {In("wmma")})
       /\ type = "VMEM" => ReferenceTotal(x, cyc) = Max({Waits("vmem")} \cup {In("math")})
       /\ type = "SALU" => ReferenceTotal(x, cyc) = Max({Waits("scal")} \cup {In("vector")})
       /\ type = "OTHERS" => ReferenceTotal(x, cyc) = Max({} \cup {In("all")})
  BY <1>8, <1>9, <1>10, <1>11, <1>12
<1>. QED BY <1>13 DEF Waits, In, type, cyc

(* A token's hidden cycles, each of the kind it spent, are as many as the  *)
(* reference has: the choice of the list, and its issue, are by its type.  *)
LEMMA TokenHidden ==
    ASSUME trace \in Traces, NEW i \in 1 .. Len(Scopes), ListsShow(busy, Scopes[i]), NEW x \in TokensOf(Scopes[i])
    PROVE  LET h == HiddenOf(At(x), LastOf(x))
           IN  PartOf(h, Spent(x)) /\ Total(h) = ReferenceTotal(x, CyclesBy(Scopes[i])) /\ Total(h) \in Nat
<1>. DEFINE s == Scopes[i]
            t == At(x)
            S == Spent(x)
            By(l) == ComputeInterval(busy[l], LastOf(x), t)
            In(l) == Cardinality(BusyIn(l, s) \cap AllOf(S))
            Waits(l) == Cardinality(BusyIn(l, s) \cap WaitingOf(S))
            h == HiddenOf(t, LastOf(x))
            ref == ReferenceTotal(x, CyclesBy(s))
            B1(l) == PartOf(By(l), S) /\ Total(By(l)) = In(l) /\ In(l) \in Nat
            B2(l) == PartOf(WithoutIssue(By(l)), S) /\ Total(WithoutIssue(By(l))) = Waits(l) /\ Waits(l) \in Nat
<1>1. \A l \in Lists : B1(l) /\ B2(l)
  <2>. SUFFICES ASSUME NEW l \in Lists PROVE B1(l) /\ B2(l)
    OBVIOUS
  <2>1. Shows(busy[l], BusyIn(l, Scopes[i])) BY DEF ListsShow
  <2>2. LET g == ComputeInterval(busy[l], LastOf(x), At(x))
            B == BusyIn(l, Scopes[i])
            R == Spent(x)
        IN  /\ PartOf(g, R) /\ Total(g) = Cardinality(B \cap AllOf(R)) /\ Total(g) \in Nat
            /\ PartOf(WithoutIssue(g), R) /\ Total(WithoutIssue(g)) = Cardinality(B \cap WaitingOf(R))
            /\ Total(WithoutIssue(g)) \in Nat
    BY <2>1, ListCounts
  <2>. QED BY <2>2
<1>2. TokenFits(t) /\ t.type \in Types BY TokensFacts, FitFacts
<1>3. /\ "wmma" \in Lists /\ "valu" \in Lists /\ "vmem" \in Lists /\ "scal" \in Lists
      /\ "math" \in Lists /\ "vector" \in Lists /\ "all" \in Lists
  BY DEF Lists, Pipes, Unions, ToSet
<1>4. /\ t.type = "WMMA" => ref = Max({Waits("wmma"), Waits("valu")} \cup {0})
      /\ t.type = "VALU" => ref = Max({Waits("valu")} \cup {In("wmma")})
      /\ t.type = "VMEM" => ref = Max({Waits("vmem")} \cup {In("math")})
      /\ t.type = "SALU" => ref = Max({Waits("scal")} \cup {In("vector")})
      /\ t.type = "OTHERS" => ref = Max({} \cup {In("all")})
  BY <1>2, ReferenceIs
<1>5. /\ t.type = "WMMA" => h = Greater(WithoutIssue(By("valu")), WithoutIssue(By("wmma")))
      /\ t.type = "VALU" => h = Greater(WithoutIssue(By("valu")), By("wmma"))
      /\ t.type = "VMEM" => h = Greater(By("math"), WithoutIssue(By("vmem")))
      /\ t.type = "SALU" => h = Greater(By("vector"), WithoutIssue(By("scal")))
      /\ t.type = "OTHERS" => h = By("all")
  <2>. HIDE DEF t
  <2>. QED BY DEF HiddenOf
<1>. DEFINE Right == PartOf(h, S) /\ Total(h) = ref /\ Total(h) \in Nat
<1>. SUFFICES Right
  OBVIOUS
<1>. HIDE DEF s, t, S, By, In, Waits, h, ref
<1>6. CASE t.type = "WMMA"
  <2>. DEFINE f == WithoutIssue(By("valu"))
              g == WithoutIssue(By("wmma"))
              X == {Waits("wmma"), Waits("valu")} \cup {0}
              Y == {Total(f)} \cup {Total(g)}
  <2>1. B2("valu") /\ B2("wmma") BY <1>1, <1>3
  <2>2. PartOf(Greater(f, g), S) /\ Total(Greater(f, g)) = Max(Y)
    <3>1. PartOf(f, S) /\ Total(f) \in Nat /\ PartOf(g, S) /\ Total(g) \in Nat BY <2>1
    <3>. HIDE DEF f, g
    <3>. QED BY <3>1, GreaterFacts
  <2>3. Max(X) = Max(Y) /\ Max(Y) \in Nat
    <3>. DEFINE v == Waits("valu")
                w == Waits("wmma")
    <3>1. v \in Nat /\ w \in Nat /\ X = {w, v, 0} /\ Y = {v, w} BY <2>1
    <3>. HIDE DEF v, w, X, Y
    <3>2. X \in SUBSET Nat /\ Y \in SUBSET Nat BY <3>1
    <3>3. CASE v > w
      <4>1. v \in X /\ v \in Y /\ (\A y \in X : y <= v) /\ \A y \in Y : y <= v BY <3>1, <3>3
      <4>2. Max(X) = v BY <3>2, <4>1, MaxIs
      <4>3. Max(Y) = v BY <3>2, <4>1, MaxIs
      <4>. QED BY <3>1, <4>2, <4>3
    <3>4. CASE ~(v > w)
      <4>1. w \in X /\ w \in Y /\ (\A y \in X : y <= w) /\ \A y \in Y : y <= w BY <3>1, <3>4
      <4>2. Max(X) = w BY <3>2, <4>1, MaxIs
      <4>3. Max(Y) = w BY <3>2, <4>1, MaxIs
      <4>. QED BY <3>1, <4>2, <4>3
    <3>. QED BY <3>3, <3>4
  <2>. HIDE DEF f, g, X, Y
  <2>4. ref = Max(X) BY <1>4, <1>6 DEF X
  <2>5. h = Greater(f, g) BY <1>5, <1>6 DEF f, g
  <2>. QED BY <2>2, <2>3, <2>4, <2>5
<1>7. CASE t.type = "VALU"
  <2>. DEFINE f == WithoutIssue(By("valu"))
              g == By("wmma")
  <2>1. B2("valu") /\ B1("wmma") BY <1>1, <1>3
  <2>2. PartOf(Greater(f, g), S) /\ Total(Greater(f, g)) = Max({Total(f)} \cup {Total(g)})
    <3>1. PartOf(f, S) /\ Total(f) \in Nat /\ PartOf(g, S) /\ Total(g) \in Nat BY <2>1
    <3>. HIDE DEF f, g
    <3>. QED BY <3>1, GreaterFacts
  <2>3. Total(f) = Waits("valu") /\ Total(g) = In("wmma") BY <2>1
  <2>4. h = Greater(f, g) /\ ref = Max({Waits("valu")} \cup {In("wmma")}) BY <1>4, <1>5, <1>7
  <2>5. Total(Greater(f, g)) \in Nat BY <2>1 DEF Greater
  <2>. HIDE DEF f, g
  <2>. QED BY <2>2, <2>3, <2>4, <2>5
<1>8. CASE t.type = "VMEM"
  <2>. DEFINE f == By("math")
              g == WithoutIssue(By("vmem"))
  <2>1. B1("math") /\ B2("vmem") BY <1>1, <1>3
  <2>2. PartOf(Greater(f, g), S) /\ Total(Greater(f, g)) = Max({Total(f)} \cup {Total(g)})
    <3>1. PartOf(f, S) /\ Total(f) \in Nat /\ PartOf(g, S) /\ Total(g) \in Nat BY <2>1
    <3>. HIDE DEF f, g
    <3>. QED BY <3>1, GreaterFacts
  <2>3. Total(f) = In("math") /\ Total(g) = Waits("vmem") BY <2>1
  <2>4. h = Greater(f, g) /\ ref = Max({Waits("vmem")} \cup {In("math")}) BY <1>4, <1>5, <1>8
  <2>5. Total(Greater(f, g)) \in Nat BY <2>1 DEF Greater
  <2>. HIDE DEF f, g
  <2>6. {Total(f)} \cup {Total(g)} = {Waits("vmem")} \cup {In("math")} BY <2>3
  <2>. QED BY <2>2, <2>4, <2>5, <2>6
<1>9. CASE t.type = "SALU"
  <2>. DEFINE f == By("vector")
              g == WithoutIssue(By("scal"))
  <2>1. B1("vector") /\ B2("scal") BY <1>1, <1>3
  <2>2. PartOf(Greater(f, g), S) /\ Total(Greater(f, g)) = Max({Total(f)} \cup {Total(g)})
    <3>1. PartOf(f, S) /\ Total(f) \in Nat /\ PartOf(g, S) /\ Total(g) \in Nat BY <2>1
    <3>. HIDE DEF f, g
    <3>. QED BY <3>1, GreaterFacts
  <2>3. Total(f) = In("vector") /\ Total(g) = Waits("scal") BY <2>1
  <2>4. h = Greater(f, g) /\ ref = Max({Waits("scal")} \cup {In("vector")}) BY <1>4, <1>5, <1>9
  <2>5. Total(Greater(f, g)) \in Nat BY <2>1 DEF Greater
  <2>. HIDE DEF f, g
  <2>6. {Total(f)} \cup {Total(g)} = {Waits("scal")} \cup {In("vector")} BY <2>3
  <2>. QED BY <2>2, <2>4, <2>5, <2>6
<1>10. CASE t.type = "OTHERS"
  <2>. DEFINE n == In("all")
              X == {n}
  <2>1. B1("all") BY <1>1, <1>3
  <2>2. h = By("all") /\ ref = Max({n})
    <3>1. {} \cup {n} = {n} OBVIOUS
    <3>. QED BY <1>4, <1>5, <1>10, <3>1
  <2>. HIDE DEF n
  <2>3. n \in Nat BY <2>1 DEF n
  <2>4. Max(X) = n
    <3>1. X \in SUBSET Nat /\ n \in X /\ \A y \in X : y <= n BY <2>3
    <3>. HIDE DEF X
    <3>. QED BY <3>1, MaxIs
  <2>. QED BY <2>1, <2>2, <2>4 DEF n
<1>. QED BY <1>2, <1>6, <1>7, <1>8, <1>9, <1>10 DEF Types

(* The trace does not change, and neither does what is said of it.         *)
LEMMA RigidTokens ==
    ASSUME trace' = trace
    PROVE  /\ \A s : TokensOf(s)' = TokensOf(s)
           /\ \A x : At(x)' = At(x)
           /\ \A x : Spent(x)' = Spent(x)
           /\ Scopes' = Scopes
<1>1. \A s : TokensOf(s)' = TokensOf(s) BY DEF TokensOf
<1>2. \A x : At(x)' = At(x) BY DEF At
<1>3. \A x : Spent(x)' = Spent(x) BY DEF Spent, At
<1>4. Scopes' = Scopes BY DEF Scopes
<1>. QED BY <1>1, <1>2, <1>3, <1>4

(* Arrivals depend on the trace alone.                                     *)
LEMMA RigidArrivals ==
    ASSUME trace' = trace
    PROVE  \A p, s : Arrivals(p, s)' = Arrivals(p, s)
<1>. SUFFICES ASSUME NEW p, NEW s PROVE Arrivals(p, s)' = Arrivals(p, s)
  OBVIOUS
<1>. DEFINE own == TokensOf(s)
            other == IF p = "vmem" THEN trace.others[s[1]] ELSE <<>>
            f(c) == [x \in {y \in own : At(y).clock + At(y).stall = c} |-> Work(p, At(x))]
            g(c) == [i \in {j \in DOMAIN other : other[j].clock = c} |-> other[i].cycles]
<1>1. \A c : f(c)' = f(c)
  <2>1. own' = own /\ \A x : At(x)' = At(x) BY RigidTokens
  <2>. QED BY <2>1
<1>2. \A c : g(c)' = g(c) OBVIOUS
<1>3. Arrivals(p, s) = [c \in 0 .. Horizon |-> SumFunction(f(c)) + SumFunction(g(c))] BY Zenon DEF Arrivals
<1>4. Arrivals(p, s)' = [c \in 0 .. Horizon |-> SumFunction(f(c)') + SumFunction(g(c)')] BY Zenon DEF Arrivals
<1>. HIDE DEF f, g
<1>. QED BY <1>1, <1>2, <1>3, <1>4

(* So does what is busy.                                                   *)
LEMMA RigidBusy ==
    ASSUME trace' = trace
    PROVE  /\ \A p, s : BusyCycles(p, s)' = BusyCycles(p, s)
           /\ \A l, s : BusyIn(l, s)' = BusyIn(l, s)
<1>1. \A p, s : BusyCycles(p, s)' = BusyCycles(p, s)
  <2>. SUFFICES ASSUME NEW p, NEW s PROVE BusyCycles(p, s)' = BusyCycles(p, s)
    OBVIOUS
  <2>1. Arrivals(p, s)' = Arrivals(p, s) BY RigidArrivals
  <2>2. BusyCycles(p, s) = (CHOOSE h : Serving(Arrivals(p, s), h))[DOMAIN Clocks].busy BY BusyIsServing
  <2>3. BusyCycles(p, s)' = (CHOOSE h : Serving(Arrivals(p, s)', h))[DOMAIN Clocks].busy
    BY Zenon DEF BusyCycles, FoldLeft, MapThenFoldSet, Serving, Serve, Clocks
  <2>. QED BY <2>1, <2>2, <2>3
<1>2. \A l, s : BusyIn(l, s)' = BusyIn(l, s)
  <2>. SUFFICES ASSUME NEW l, NEW s PROVE BusyIn(l, s)' = BusyIn(l, s)
    OBVIOUS
  <2>. QED BY <1>1 DEF BusyIn
<1>. QED BY <1>1, <1>2

(* So does what a queue should hold.                                       *)
LEMMA RigidRead ==
    ASSUME trace' = trace
    PROVE  \A q, p, s, w : ReadUpTo(q, p, s, w)' <=> ReadUpTo(q, p, s, w)
<1>0. /\ \A s : TokensOf(s)' = TokensOf(s)
      /\ \A x : At(x)' = At(x)
  BY RigidTokens
<1>1. \A p, s : WorkOf(p, s)' = WorkOf(p, s) BY <1>0 DEF WorkOf
<1>2. \A s, w : TokensBefore(s, w)' = TokensBefore(s, w) BY <1>0 DEF TokensBefore
<1>3. \A T, c : Issuing(T, c)' = Issuing(T, c) BY <1>0 DEF Issuing
<1>4. \A p, s, w, c : Issuing(TokensBefore(s, w), c)' = Issuing(TokensBefore(s, w), c) BY <1>2, <1>3
<1>. SUFFICES ASSUME NEW q, NEW p, NEW s, NEW w PROVE ReadUpTo(q, p, s, w)' <=> ReadUpTo(q, p, s, w)
  OBVIOUS
<1>. QED BY <1>1, <1>4 DEF ReadUpTo

(* The tokens of all pairs; what the reference has for each, and how many  *)
(* cycles of each kind it spent.                                           *)
AllTokens == UNION {TokensOf(s) : s \in ToSet(Scopes)}
Reference == [x \in AllTokens |-> ReferenceTotal(x, CyclesBy(trace.waves[x[1]].scope))]
SpentIn(part) == [x \in AllTokens |-> Cardinality(Spent(x)[part])]
OfLine(T, l) == {x \in T : At(x).line = l}

(* The hidden latencies h by line are those of the tokens T.               *)
HiddenFor(h, T) ==
    /\ h \in [Lines -> Hidden]
    /\ \A l \in Lines :
         /\ Total(h[l]) = SumOver(Reference, OfLine(T, l))
         /\ \A part \in DOMAIN Nothing : h[l][part] <= SumOver(SpentIn(part), OfLine(T, l))

(* The tokens of the trace, by the pair of their wave.                     *)
LEMMA AllFacts ==
    ASSUME trace \in Traces
    PROVE  /\ IsFiniteSet(AllTokens)
           /\ \A i \in 1 .. Len(Scopes) : TokensOf(Scopes[i]) \subseteq AllTokens
           /\ \A x \in AllTokens : \E i \in 1 .. Len(Scopes) : x \in TokensOf(Scopes[i])
           /\ \A i \in 1 .. Len(Scopes) : \A x \in TokensOf(Scopes[i]) : trace.waves[x[1]].scope = Scopes[i]
<1>1. Len(Scopes) \in Nat /\ DOMAIN Scopes = 1 .. Len(Scopes) BY TraceFacts
<1>2. ToSet(Scopes) = {Scopes[i] : i \in 1 .. Len(Scopes)} BY <1>1 DEF ToSet
<1>3. \A x : x \in AllTokens <=> \E i \in 1 .. Len(Scopes) : x \in TokensOf(Scopes[i])
  BY <1>2 DEF AllTokens
<1>4. IsFiniteSet(AllTokens)
  <2>1. IsFiniteSet(1 .. Len(Scopes)) BY <1>1, FS_Interval
  <2>. DEFINE F == [i \in 1 .. Len(Scopes) |-> Scopes[i]]
              D == 1 .. Len(Scopes)
              R == {Scopes[i] : i \in D}
  <2>2. F \in Surjection(D, R) BY DEF Surjection
  <2>3. IsFiniteSet(R)
    <3>. HIDE DEF F, D, R
    <3>1. IsFiniteSet(D) BY <2>1 DEF D
    <3>. QED BY <3>1, <2>2, FS_Surjection
  <2>. DEFINE Z == {TokensOf(s) : s \in R}
              G == [s \in R |-> TokensOf(s)]
  <2>4. G \in Surjection(R, Z)
    <3>. HIDE DEF R
    <3>. QED BY DEF Surjection
  <2>5. IsFiniteSet(Z)
    <3>. HIDE DEF Z, G, R
    <3>. QED BY <2>3, <2>4, FS_Surjection
  <2>6. \A T \in Z : IsFiniteSet(T) BY TokensFacts
  <2>7. IsFiniteSet(UNION Z)
    <3>. HIDE DEF Z
    <3>. QED BY <2>5, <2>6, FS_UNION
  <2>8. AllTokens = UNION Z
    <3>1. ToSet(Scopes) = R BY <1>2
    <3>. HIDE DEF R
    <3>. QED BY <3>1 DEF AllTokens
  <2>. QED BY <2>7, <2>8
<1>5. \A i \in 1 .. Len(Scopes) : \A x \in TokensOf(Scopes[i]) : trace.waves[x[1]].scope = Scopes[i]
  <2>1. \A s : \A x \in TokensOf(s) : x[1] \in Own(s) BY TokensFacts
  <2>. QED BY <2>1 DEF Own
<1>. QED BY <1>3, <1>4, <1>5

(* The reference, and what tokens spend, are numbers.                      *)
LEMMA NumbersAre ==
    ASSUME trace \in Traces
    PROVE  \A part \in DOMAIN Nothing : \A x \in AllTokens : SpentIn(part)[x] \in Nat
<1>. SUFFICES ASSUME NEW part \in DOMAIN Nothing, NEW x \in AllTokens PROVE Cardinality(Spent(x)[part]) \in Nat
  BY DEF SpentIn
<1>1. PICK i \in 1 .. Len(Scopes) : x \in TokensOf(Scopes[i]) BY AllFacts
<1>2. LastOf(x) \in Int /\ TokenFits(At(x)) /\ Spent(x) = SpentBy(At(x), LastOf(x)) BY <1>1, LastFacts
<1>3. Horizon \in Nat BY TraceFacts
<1>4. LET S == SpentBy(At(x), LastOf(x))
      IN  IsFiniteSet(S.idle) /\ IsFiniteSet(S.stall) /\ IsFiniteSet(S.issue)
  BY <1>2, <1>3, SpentFacts
<1>5. part \in {"idle", "stall", "issue"} BY DEF Nothing
<1>6. IsFiniteSet(Spent(x)[part]) BY <1>2, <1>4, <1>5
<1>. QED BY <1>6, FS_CardinalityType

(* The reference counts cycles.                                            *)
LEMMA ReferenceType ==
    ASSUME trace \in Traces
    PROVE  \A x \in AllTokens : Reference[x] \in Nat
<1>. SUFFICES ASSUME NEW x \in AllTokens PROVE Reference[x] \in Nat
  OBVIOUS
<1>1. PICK i \in 1 .. Len(Scopes) : x \in TokensOf(Scopes[i]) BY AllFacts
<1>. DEFINE s == Scopes[i]
            W == WaitingOf(Spent(x))
            A == AllOf(Spent(x))
            In(l) == Cardinality(BusyIn(l, s) \cap A)
            Waits(l) == Cardinality(BusyIn(l, s) \cap W)
<1>2. LastOf(x) \in Int /\ TokenFits(At(x)) /\ Spent(x) = SpentBy(At(x), LastOf(x)) BY <1>1, LastFacts
<1>3. Horizon \in Nat BY TraceFacts
<1>4. IsFiniteSet(W) /\ IsFiniteSet(A)
  <2>1. LET S == SpentBy(At(x), LastOf(x))
        IN  IsFiniteSet(S.idle) /\ IsFiniteSet(S.stall) /\ IsFiniteSet(S.issue)
    BY <1>2, <1>3, SpentFacts
  <2>2. IsFiniteSet(Spent(x).idle) /\ IsFiniteSet(Spent(x).stall) /\ IsFiniteSet(Spent(x).issue)
    BY <1>2, <2>1
  <2>3. IsFiniteSet(W) BY <2>2, FS_Union DEF WaitingOf
  <2>. HIDE DEF W
  <2>4. A = W \cup Spent(x).issue BY DEF W, AllOf
  <2>. HIDE DEF A
  <2>. QED BY <2>2, <2>3, <2>4, FS_Union
<1>5. \A l : In(l) \in Nat /\ Waits(l) \in Nat
  <2>. HIDE DEF W, A
  <2>. QED BY <1>4, Within
<1>. DEFINE ref == ReferenceTotal(x, CyclesBy(s))
            type == At(x).type
<1>6. /\ type = "WMMA" => ref = Max({Waits("wmma"), Waits("valu")} \cup {0})
      /\ type = "VALU" => ref = Max({Waits("valu")} \cup {In("wmma")})
      /\ type = "VMEM" => ref = Max({Waits("vmem")} \cup {In("math")})
      /\ type = "SALU" => ref = Max({Waits("scal")} \cup {In("vector")})
      /\ type = "OTHERS" => ref = Max({} \cup {In("all")})
  BY <1>2, ReferenceIs
<1>7. \A a1 \in Nat : \A b1 \in Nat : \A c1 \in Nat : Max({a1, b1, c1}) \in Nat
  <2>. SUFFICES ASSUME NEW a1 \in Nat, NEW b1 \in Nat, NEW c1 \in Nat PROVE Max({a1, b1, c1}) \in Nat
    OBVIOUS
  <2>. DEFINE X == {a1, b1, c1}
  <2>1. PICK m \in X : \A y \in X : y <= m
    <3>1. CASE a1 <= b1 /\ c1 <= b1 BY <3>1
    <3>2. CASE b1 <= a1 /\ c1 <= a1 BY <3>2
    <3>3. CASE a1 <= c1 /\ b1 <= c1 BY <3>3
    <3>. QED BY <3>1, <3>2, <3>3
  <2>2. X \in SUBSET Nat OBVIOUS
  <2>. HIDE DEF X
  <2>3. Max(X) = m BY <2>1, <2>2, MaxIs
  <2>. QED BY <2>1, <2>2, <2>3 DEF X
<1>8. \A a1 \in Nat : \A b1 \in Nat : Max({a1} \cup {b1}) \in Nat
  <2>1. \A a1, b1 : {a1} \cup {b1} = {a1, b1, b1} OBVIOUS
  <2>. QED BY <1>7, <2>1
<1>9. \A b1 \in Nat : Max({} \cup {b1}) \in Nat
  <2>1. \A b1 : {} \cup {b1} = {b1, b1, b1} OBVIOUS
  <2>. QED BY <1>7, <2>1
<1>10. \A a1 \in Nat : \A b1 \in Nat : Max({a1, b1} \cup {0}) \in Nat
  <2>1. \A a1, b1 : {a1, b1} \cup {0} = {a1, b1, 0} OBVIOUS
  <2>. QED BY <1>7, <2>1
<1>11. type \in Types BY <1>2, FitFacts
<1>12. ref \in Nat
  <2>. HIDE DEF ref, type, In, Waits
  <2>1. CASE type = "WMMA" BY <2>1, <1>5, <1>6, <1>10
  <2>2. CASE type = "VALU" BY <2>2, <1>5, <1>6, <1>8
  <2>3. CASE type = "VMEM" BY <2>3, <1>5, <1>6, <1>8
  <2>4. CASE type = "SALU" BY <2>4, <1>5, <1>6, <1>8
  <2>5. CASE type = "OTHERS" BY <2>5, <1>5, <1>6, <1>9
  <2>. QED BY <2>1, <2>2, <2>3, <2>4, <2>5, <1>11 DEF Types
<1>13. trace.waves[x[1]].scope = s BY <1>1, AllFacts
<1>. QED BY <1>12, <1>13 DEF Reference

(* No token hides nothing.                                                 *)
LEMMA HiddenForNone == HiddenFor(NoHidden, {})
<1>1. \A l : OfLine({}, l) = {} BY DEF OfLine
<1>2. \A f : SumOver(f, {}) = 0 BY SumStep, FS_EmptySet
<1>3. NoHidden \in [Lines -> Hidden] BY DEF NoHidden, Nothing, Hidden
<1>4. \A l \in Lines : Total(NoHidden[l]) = 0 BY DEF NoHidden, Nothing, Total
<1>5. \A l \in Lines : \A part \in DOMAIN Nothing : NoHidden[l][part] = 0 BY DEF NoHidden, Nothing
<1>6. ASSUME NEW l \in Lines
      PROVE  /\ Total(NoHidden[l]) = SumOver(Reference, OfLine({}, l))
             /\ \A part \in DOMAIN Nothing : NoHidden[l][part] <= SumOver(SpentIn(part), OfLine({}, l))
  <2>1. SumOver(Reference, OfLine({}, l)) = 0 BY <1>1, <1>2
  <2>2. \A part : SumOver(SpentIn(part), OfLine({}, l)) = 0 BY <1>1, <1>2
  <2>3. \A part \in DOMAIN Nothing : NoHidden[l][part] = 0 BY <1>5
  <2>. HIDE DEF NoHidden
  <2>. QED BY <1>4, <2>1, <2>2, <2>3
<1>. QED BY <1>3, <1>6 DEF HiddenFor

(* Latencies are added part by part.                                       *)
LEMMA PlusFacts ==
    ASSUME NEW g \in Hidden, NEW h \in Hidden
    PROVE  /\ Plus(g, h) \in Hidden /\ Total(Plus(g, h)) = Total(g) + Total(h)
           /\ \A part \in DOMAIN Nothing : Plus(g, h)[part] = g[part] + h[part] /\ g[part] \in Nat /\ h[part] \in Nat
           /\ Total(g) \in Nat /\ Total(h) \in Nat
<1>1. /\ g.idle \in Nat /\ g.stall \in Nat /\ g.issue \in Nat /\ h.idle \in Nat /\ h.stall \in Nat /\ h.issue \in Nat
      /\ DOMAIN g = {"idle", "stall", "issue"}
  BY DEF Hidden
<1>. DEFINE p == Plus(g, h)
<1>2. p = [k \in {"idle", "stall", "issue"} |-> g[k] + h[k]] BY <1>1 DEF Plus
<1>3. p.idle = g.idle + h.idle /\ p.stall = g.stall + h.stall /\ p.issue = g.issue + h.issue BY <1>2
<1>4. p = [idle |-> g.idle + h.idle, stall |-> g.stall + h.stall, issue |-> g.issue + h.issue] BY <1>2
<1>. HIDE DEF p
<1>5. p \in Hidden BY <1>1, <1>4 DEF Hidden
<1>6. Total(p) = Total(g) + Total(h) BY <1>1, <1>3 DEF Total
<1>7. \A part \in {"idle", "stall", "issue"} : p[part] = g[part] + h[part] /\ g[part] \in Nat /\ h[part] \in Nat
  BY <1>1, <1>3
<1>8. Total(g) \in Nat /\ Total(h) \in Nat BY <1>1 DEF Total
<1>9. DOMAIN Nothing = {"idle", "stall", "issue"} BY DEF Nothing
<1>. QED BY <1>5, <1>6, <1>7, <1>8, <1>9 DEF p

(* Tokens of one line among some, and the sums over them.                  *)
LEMMA LineFacts ==
    ASSUME trace \in Traces, NEW T \in SUBSET AllTokens, NEW l
    PROVE  /\ IsFiniteSet(OfLine(T, l)) /\ OfLine(T, l) \subseteq AllTokens
           /\ \A x \in OfLine(T, l) : Reference[x] \in Nat
           /\ \A part \in DOMAIN Nothing : \A x \in OfLine(T, l) : SpentIn(part)[x] \in Nat
           /\ SumOver(Reference, OfLine(T, l)) \in Nat
           /\ \A part \in DOMAIN Nothing : SumOver(SpentIn(part), OfLine(T, l)) \in Nat
<1>1. OfLine(T, l) \subseteq AllTokens BY DEF OfLine
<1>2. IsFiniteSet(OfLine(T, l)) BY <1>1, AllFacts, FS_Subset
<1>3. /\ \A x \in OfLine(T, l) : Reference[x] \in Nat
      /\ \A part \in DOMAIN Nothing : \A x \in OfLine(T, l) : SpentIn(part)[x] \in Nat
  BY <1>1, ReferenceType, NumbersAre
<1>4. SumOver(Reference, OfLine(T, l)) \in Nat BY <1>2, <1>3, SumType
<1>5. \A part \in DOMAIN Nothing : SumOver(SpentIn(part), OfLine(T, l)) \in Nat BY <1>2, <1>3, SumType
<1>. QED BY <1>1, <1>2, <1>3, <1>4, <1>5

(* The latencies of two sets of tokens add up: EndScope.                   *)
LEMMA HiddenForBoth ==
    ASSUME trace \in Traces, NEW T \in SUBSET AllTokens, NEW U \in SUBSET AllTokens, T \cap U = {},
           NEW g, HiddenFor(g, T), NEW h, HiddenFor(h, U)
    PROVE  HiddenFor([l \in Lines |-> Plus(g[l], h[l])], T \cup U)
<1>. DEFINE p == [l \in Lines |-> Plus(g[l], h[l])]
<1>1. p \in [Lines -> Hidden] BY PlusFacts DEF HiddenFor
<1>2. ASSUME NEW l \in Lines
      PROVE  /\ Total(p[l]) = SumOver(Reference, OfLine(T \cup U, l))
             /\ \A part \in DOMAIN Nothing : p[l][part] <= SumOver(SpentIn(part), OfLine(T \cup U, l))
  <2>. DEFINE A == OfLine(T, l)
              B == OfLine(U, l)
              C == OfLine(T \cup U, l)
  <2>1. C = A \cup B /\ A \cap B = {} BY DEF OfLine
  <2>2. IsFiniteSet(A) /\ IsFiniteSet(B) BY LineFacts
  <2>3. /\ \A x \in A \cup B : Reference[x] \in Nat
        /\ \A part \in DOMAIN Nothing : \A x \in A \cup B : SpentIn(part)[x] \in Nat
    <3>1. /\ \A x \in A : Reference[x] \in Nat
          /\ \A part \in DOMAIN Nothing : \A x \in A : SpentIn(part)[x] \in Nat
      BY LineFacts
    <3>2. /\ \A x \in B : Reference[x] \in Nat
          /\ \A part \in DOMAIN Nothing : \A x \in B : SpentIn(part)[x] \in Nat
      BY LineFacts
    <3>. HIDE DEF A, B
    <3>. QED BY <3>1, <3>2
  <2>4. /\ SumOver(Reference, A) \in Nat /\ SumOver(Reference, B) \in Nat
        /\ \A part \in DOMAIN Nothing : SumOver(SpentIn(part), A) \in Nat /\ SumOver(SpentIn(part), B) \in Nat
    BY LineFacts
  <2>5. /\ g[l] \in Hidden /\ h[l] \in Hidden
        /\ Total(g[l]) = SumOver(Reference, A) /\ Total(h[l]) = SumOver(Reference, B)
        /\ \A part \in DOMAIN Nothing : g[l][part] <= SumOver(SpentIn(part), A) /\ h[l][part] <= SumOver(SpentIn(part), B)
    BY DEF HiddenFor
  <2>6. p[l] = Plus(g[l], h[l]) OBVIOUS
  <2>. HIDE DEF A, B, C, p
  <2>7. SumOver(Reference, A \cup B) = SumOver(Reference, A) + SumOver(Reference, B) BY <2>1, <2>2, <2>3, SumUnion
  <2>8. \A part \in DOMAIN Nothing : SumOver(SpentIn(part), A \cup B) = SumOver(SpentIn(part), A) + SumOver(SpentIn(part), B)
    BY <2>1, <2>2, <2>3, SumUnion
  <2>9. Total(p[l]) = SumOver(Reference, C)
    <3>1. Total(Plus(g[l], h[l])) = Total(g[l]) + Total(h[l]) BY <2>5, PlusFacts
    <3>. QED BY <2>1, <2>5, <2>6, <2>7, <3>1
  <2>10. ASSUME NEW part \in DOMAIN Nothing PROVE p[l][part] <= SumOver(SpentIn(part), C)
    <3>1. Plus(g[l], h[l])[part] = g[l][part] + h[l][part] /\ g[l][part] \in Nat /\ h[l][part] \in Nat
      BY <2>5, PlusFacts
    <3>2. g[l][part] <= SumOver(SpentIn(part), A) /\ h[l][part] <= SumOver(SpentIn(part), B) BY <2>5
    <3>3. SumOver(SpentIn(part), A) \in Nat /\ SumOver(SpentIn(part), B) \in Nat BY <2>4
    <3>4. SumOver(SpentIn(part), C) = SumOver(SpentIn(part), A) + SumOver(SpentIn(part), B) BY <2>1, <2>8
    <3>. QED BY <2>6, <3>1, <3>2, <3>3, <3>4
  <2>. QED BY <2>9, <2>10 DEF C
<1>. QED BY <1>1, <1>2 DEF HiddenFor

(* The hidden cycles of one more token.                                    *)
LEMMA HiddenForOne ==
    ASSUME trace \in Traces, NEW x \in AllTokens, At(x).line \in Lines,
           NEW h, PartOf(h, Spent(x)), Total(h) = Reference[x]
    PROVE  HiddenFor([NoHidden EXCEPT ![At(x).line] = h], {x})
<1>. DEFINE n == At(x).line
            p == [NoHidden EXCEPT ![n] = h]
<1>0. h \in Hidden BY DEF PartOf
<1>1. p \in [Lines -> Hidden] /\ p[n] = h /\ \A l \in Lines : l # n => p[l] = Nothing
  BY <1>0 DEF NoHidden, Nothing, Hidden
<1>2. OfLine({x}, n) = {x} /\ \A l : l # n => OfLine({x}, l) = {} BY DEF OfLine
<1>3. \A f : SumOver(f, {}) = 0 BY SumStep, FS_EmptySet
<1>4. \A f : f[x] \in Nat => SumOver(f, {x}) = f[x]
  <2>. SUFFICES ASSUME NEW f, f[x] \in Nat PROVE SumOver(f, {x}) = f[x]
    OBVIOUS
  <2>1. IsFiniteSet({x}) /\ {x} \ {x} = {} /\ \A y \in {x} : f[y] \in Nat BY FS_Singleton
  <2>2. SumOver(f, {x}) = f[x] + SumOver(f, {x} \ {x}) BY <2>1, SumRemove
  <2>. QED BY <2>1, <2>2, <1>3
<1>5. Reference[x] \in Nat /\ \A part \in DOMAIN Nothing : SpentIn(part)[x] \in Nat BY ReferenceType, NumbersAre
<1>6. \A part \in DOMAIN Nothing : SpentIn(part)[x] = Cardinality(Spent(x)[part]) BY DEF SpentIn
<1>7. \A part \in DOMAIN Nothing : h[part] <= Cardinality(Spent(x)[part]) BY DEF Nothing, PartOf
<1>8. Total(Nothing) = 0 /\ \A part \in DOMAIN Nothing : Nothing[part] = 0 BY DEF Nothing, Total
<1>. HIDE DEF p
<1>9. ASSUME NEW l \in Lines
      PROVE  /\ Total(p[l]) = SumOver(Reference, OfLine({x}, l))
             /\ \A part \in DOMAIN Nothing : p[l][part] <= SumOver(SpentIn(part), OfLine({x}, l))
  <2>1. CASE l = n
    <3>1. p[l] = h /\ OfLine({x}, l) = {x} BY <2>1, <1>1, <1>2
    <3>2. SumOver(Reference, {x}) = Reference[x] BY <1>4, <1>5
    <3>3. \A part \in DOMAIN Nothing : SumOver(SpentIn(part), {x}) = Cardinality(Spent(x)[part]) BY <1>4, <1>5, <1>6
    <3>. QED BY <3>1, <3>2, <3>3, <1>7
  <2>2. CASE l # n
    <3>1. p[l] = Nothing /\ OfLine({x}, l) = {} BY <2>2, <1>1, <1>2
    <3>2. \A part \in DOMAIN Nothing : Nothing[part] <= 0 BY <1>8
    <3>. QED BY <3>1, <3>2, <1>3, <1>8
  <2>. QED BY <2>1, <2>2
<1>10. HiddenFor(p, {x}) BY <1>1, <1>9 DEF HiddenFor
<1>. QED BY <1>10 DEF p, n

(* One more token, at its line: AnalyzeToken.                              *)
LEMMA HiddenForOneMore ==
    ASSUME trace \in Traces, NEW T \in SUBSET AllTokens, NEW g, HiddenFor(g, T),
           NEW x \in AllTokens \ T, At(x).line \in Lines,
           NEW h, PartOf(h, Spent(x)), Total(h) = Reference[x]
    PROVE  HiddenFor([g EXCEPT ![At(x).line] = Plus(@, h)], T \cup {x})
<1>. DEFINE n == At(x).line
            o == [NoHidden EXCEPT ![n] = h]
            p == [l \in Lines |-> Plus(g[l], o[l])]
<1>1. HiddenFor(o, {x}) BY HiddenForOne
<1>2. {x} \in SUBSET AllTokens /\ T \cap {x} = {} OBVIOUS
<1>3. HiddenFor(p, T \cup {x})
  <2>. HIDE DEF o, n
  <2>. QED BY <1>1, <1>2, HiddenForBoth
<1>4. p = [g EXCEPT ![n] = Plus(@, h)]
  <2>1. g \in [Lines -> Hidden] BY DEF HiddenFor
  <2>2. \A k \in Hidden : Plus(k, Nothing) = k
    <3>. SUFFICES ASSUME NEW k \in Hidden PROVE Plus(k, Nothing) = k
      OBVIOUS
    <3>1. k = [idle |-> k.idle, stall |-> k.stall, issue |-> k.issue] /\ k.idle \in Nat /\ k.stall \in Nat /\ k.issue \in Nat
          /\ DOMAIN k = {"idle", "stall", "issue"}
      BY DEF Hidden
    <3>2. Plus(k, Nothing) = [f \in {"idle", "stall", "issue"} |-> k[f] + Nothing[f]] BY <3>1 DEF Plus
    <3>3. \A f \in {"idle", "stall", "issue"} : k[f] + Nothing[f] = k[f] BY <3>1 DEF Nothing
    <3>4. Plus(k, Nothing) = [f \in {"idle", "stall", "issue"} |-> k[f]] BY <3>2, <3>3
    <3>. QED BY <3>1, <3>4
  <2>3. n \in Lines /\ o = [l \in Lines |-> IF l = n THEN h ELSE Nothing] BY DEF NoHidden
  <2>4. [g EXCEPT ![n] = Plus(@, h)] = [l \in Lines |-> IF l = n THEN Plus(g[n], h) ELSE g[l]] BY <2>1, <2>3
  <2>5. p = [l \in Lines |-> IF l = n THEN Plus(g[n], h) ELSE Plus(g[l], Nothing)] BY <2>3
  <2>6. \A l \in Lines : Plus(g[l], Nothing) = g[l] BY <2>1, <2>2
  <2>. QED BY <2>4, <2>5, <2>6
<1>. QED BY <1>3, <1>4

(* Whether latencies are those of given tokens depends on the trace alone. *)
LEMMA RigidHidden ==
    ASSUME trace' = trace
    PROVE  \A h, T : HiddenFor(h, T)' <=> HiddenFor(h, T)
<1>0. /\ \A s : TokensOf(s)' = TokensOf(s)
      /\ \A x : At(x)' = At(x)
      /\ \A x : Spent(x)' = Spent(x)
      /\ Scopes' = Scopes
      /\ \A p, s : BusyCycles(p, s)' = BusyCycles(p, s)
  BY RigidTokens, RigidBusy
<1>1. AllTokens' = AllTokens BY <1>0 DEF AllTokens
<1>2. \A s : CyclesBy(s)' = CyclesBy(s) BY <1>0 DEF CyclesBy
<1>3. \A x, cycles : ReferenceTotal(x, cycles)' = ReferenceTotal(x, cycles)
  BY <1>0 DEF ReferenceTotal
<1>4. Reference' = Reference
  <2>1. \A x : ReferenceTotal(x, CyclesBy(trace.waves[x[1]].scope))' = ReferenceTotal(x, CyclesBy(trace.waves[x[1]].scope))
    BY <1>2, <1>3
  <2>. QED BY <1>1, <2>1 DEF Reference
<1>5. \A part : SpentIn(part)' = SpentIn(part) BY <1>0, <1>1 DEF SpentIn
<1>6. \A T, l : OfLine(T, l)' = OfLine(T, l) BY <1>0 DEF OfLine
<1>. SUFFICES ASSUME NEW h, NEW T PROVE HiddenFor(h, T)' <=> HiddenFor(h, T)
  OBVIOUS
<1>. QED BY <1>4, <1>5, <1>6 DEF HiddenFor

(* The tokens before the one at k of wave w, and those of the pairs before n. *)
TokensDone(s, w, k) == {x \in TokensOf(s) : x[1] < w \/ (x[1] = w /\ x[2] < k)}
PairsDone(n) == UNION {TokensOf(Scopes[i]) : i \in 1 .. n - 1}

(* The tokens of a pair that are analysed, from none to all.               *)
LEMMA DoneFacts ==
    ASSUME trace \in Traces, NEW s
    PROVE  /\ TokensDone(s, 1, 1) = {}
           /\ \A w \in Own(s) : \A k \in 1 .. Len(trace.waves[w].tokens) :
                 /\ TokensDone(s, w, k + 1) = TokensDone(s, w, k) \cup {<<w, k>>}
                 /\ <<w, k>> \in TokensOf(s) \ TokensDone(s, w, k)
           /\ \A w \in 1 .. Len(trace.waves) : \A k \in Nat :
                 (w \in Own(s) => k > Len(trace.waves[w].tokens)) => TokensDone(s, w + 1, 1) = TokensDone(s, w, k)
           /\ \A w \in Nat : \A k : w > Len(trace.waves) => TokensDone(s, w, k) = TokensOf(s)
<1>1. \A x \in TokensOf(s) : /\ x = <<x[1], x[2]>> /\ x[1] \in Own(s)
                             /\ x[1] \in 1 .. Len(trace.waves)
                             /\ x[2] \in 1 .. Len(trace.waves[x[1]].tokens)
  BY TokensFacts
<1>2. \A w \in Own(s) : \A k \in DOMAIN trace.waves[w].tokens : <<w, k>> \in TokensOf(s) BY TokensFacts
<1>3. /\ Len(trace.waves) \in Nat
      /\ \A w \in Own(s) : /\ w \in 1 .. Len(trace.waves)
                           /\ Len(trace.waves[w].tokens) \in Nat
                           /\ DOMAIN trace.waves[w].tokens = 1 .. Len(trace.waves[w].tokens)
  BY TraceFacts DEF Own
<1>4. \A x \in TokensOf(s) : x[1] \in Nat /\ x[2] \in Nat /\ x[1] >= 1 /\ x[2] >= 1
  BY <1>1, <1>3
<1>5. TokensDone(s, 1, 1) = {} BY <1>4 DEF TokensDone
<1>6. ASSUME NEW w \in Own(s), NEW k \in 1 .. Len(trace.waves[w].tokens)
      PROVE  /\ TokensDone(s, w, k + 1) = TokensDone(s, w, k) \cup {<<w, k>>}
             /\ <<w, k>> \in TokensOf(s) \ TokensDone(s, w, k)
  <2>1. w \in Nat /\ k \in Nat BY <1>3
  <2>2. <<w, k>> \in TokensOf(s) BY <1>2, <1>3
  <2>3. <<w, k>> \notin TokensDone(s, w, k) BY <2>1 DEF TokensDone
  <2>4. \A x \in TokensOf(s) : (x[1] < w \/ (x[1] = w /\ x[2] < k + 1)) <=>
                               ((x[1] < w \/ (x[1] = w /\ x[2] < k)) \/ x = <<w, k>>)
    <3>. SUFFICES ASSUME NEW x \in TokensOf(s)
                  PROVE  (x[1] < w \/ (x[1] = w /\ x[2] < k + 1)) <=>
                         ((x[1] < w \/ (x[1] = w /\ x[2] < k)) \/ x = <<w, k>>)
      OBVIOUS
    <3>1. x[1] \in Nat /\ x[2] \in Nat /\ x = <<x[1], x[2]>> BY <1>1, <1>4
    <3>2. x = <<w, k>> <=> x[1] = w /\ x[2] = k BY <3>1
    <3>3. x[2] < k + 1 <=> x[2] < k \/ x[2] = k BY <2>1, <3>1
    <3>. QED BY <3>2, <3>3
  <2>. QED BY <2>2, <2>3, <2>4 DEF TokensDone
<1>7. ASSUME NEW w \in 1 .. Len(trace.waves), NEW k \in Nat, w \in Own(s) => k > Len(trace.waves[w].tokens)
      PROVE  TokensDone(s, w + 1, 1) = TokensDone(s, w, k)
  <2>. SUFFICES ASSUME NEW x \in TokensOf(s)
                PROVE  (x[1] < w + 1 \/ (x[1] = w + 1 /\ x[2] < 1)) <=> (x[1] < w \/ (x[1] = w /\ x[2] < k))
    BY DEF TokensDone
  <2>1. w \in Nat BY <1>3
  <2>2. x[1] = w => x[2] < k
    <3>. SUFFICES ASSUME x[1] = w PROVE x[2] < k
      OBVIOUS
    <3>1. w \in Own(s) /\ x[2] \in 1 .. Len(trace.waves[w].tokens) /\ Len(trace.waves[w].tokens) \in Nat
      BY <1>1, <1>3
    <3>. QED BY <3>1, <1>7
  <2>. QED BY <2>1, <2>2, <1>4
<1>8. ASSUME NEW w \in Nat, NEW k, w > Len(trace.waves) PROVE TokensDone(s, w, k) = TokensOf(s)
  <2>1. \A x \in TokensOf(s) : x[1] < w BY <1>1, <1>3, <1>8
  <2>. QED BY <2>1 DEF TokensDone
<1>. QED BY <1>5, <1>6, <1>7, <1>8

(* The tokens of the pairs that are analysed, from none to all.            *)
LEMMA PairsFacts ==
    ASSUME trace \in Traces
    PROVE  /\ PairsDone(1) = {}
           /\ PairsDone(Len(Scopes) + 1) = AllTokens
           /\ \A n \in 1 .. Len(Scopes) :
                 /\ PairsDone(n + 1) = PairsDone(n) \cup TokensOf(Scopes[n])
                 /\ PairsDone(n) \cap TokensOf(Scopes[n]) = {}
                 /\ PairsDone(n) \subseteq AllTokens
<1>1. Len(Scopes) \in Nat /\ \A i, j \in 1 .. Len(Scopes) : Scopes[i] = Scopes[j] => i = j BY TraceFacts
<1>2. \A n : \A x : x \in PairsDone(n) <=> \E i \in 1 .. n - 1 : x \in TokensOf(Scopes[i]) BY DEF PairsDone
<1>3. PairsDone(1) = {} BY <1>2
<1>4. PairsDone(Len(Scopes) + 1) = AllTokens
  <2>1. (Len(Scopes) + 1) - 1 = Len(Scopes) BY <1>1
  <2>2. \A x : x \in PairsDone(Len(Scopes) + 1) <=> \E i \in 1 .. Len(Scopes) : x \in TokensOf(Scopes[i]) BY <1>2, <2>1
  <2>3. \A x : x \in AllTokens <=> \E i \in 1 .. Len(Scopes) : x \in TokensOf(Scopes[i]) BY AllFacts
  <2>4. \A x : x \in PairsDone(Len(Scopes) + 1) <=> x \in AllTokens BY <2>2, <2>3
  <2>. QED BY <2>4
<1>5. ASSUME NEW n \in 1 .. Len(Scopes)
      PROVE  /\ PairsDone(n + 1) = PairsDone(n) \cup TokensOf(Scopes[n])
             /\ PairsDone(n) \cap TokensOf(Scopes[n]) = {}
             /\ PairsDone(n) \subseteq AllTokens
  <2>1. (n + 1) - 1 = n /\ 1 .. n = (1 .. n - 1) \cup {n} /\ \A i \in 1 .. n - 1 : i \in 1 .. Len(Scopes) /\ i # n
    BY <1>1
  <2>2. \A x : x \in PairsDone(n + 1) <=> x \in PairsDone(n) \cup TokensOf(Scopes[n]) BY <1>2, <2>1
  <2>3. \A i \in 1 .. n - 1 : TokensOf(Scopes[i]) \cap TokensOf(Scopes[n]) = {}
    <3>. SUFFICES ASSUME NEW i \in 1 .. n - 1, NEW x \in TokensOf(Scopes[i]), x \in TokensOf(Scopes[n]) PROVE FALSE
      OBVIOUS
    <3>1. i \in 1 .. Len(Scopes) /\ i # n BY <2>1
    <3>2. trace.waves[x[1]].scope = Scopes[i] /\ trace.waves[x[1]].scope = Scopes[n] BY <3>1, AllFacts
    <3>. QED BY <1>1, <3>1, <3>2
  <2>4. PairsDone(n) \cap TokensOf(Scopes[n]) = {} BY <1>2, <2>3
  <2>5. PairsDone(n) \subseteq AllTokens BY <1>2, <2>1, AllFacts
  <2>. QED BY <2>2, <2>4, <2>5
<1>. QED BY <1>3, <1>4, <1>5

(* The results of all tokens are those that are claimed.                   *)
LEMMA ResultIs ==
    ASSUME trace \in Traces, HiddenFor(byLine, AllTokens)
    PROVE  LET scopes == ToSet(Scopes)
               cycles == [s \in scopes |-> [p \in Pipes |-> BusyCycles(p, s)]]
               of     == [l \in Lines |-> {x \in UNION {TokensOf(s) : s \in scopes} : At(x).line = l}]
           IN  \A l \in Lines :
                 /\ Total(byLine[l]) =
                      SumFunction([x \in of[l] |-> ReferenceTotal(x, cycles[trace.waves[x[1]].scope])])
                 /\ \A part \in DOMAIN Nothing :
                      byLine[l][part] <= SumFunction([x \in of[l] |-> Cardinality(Spent(x)[part])])
<1>. DEFINE scopes == ToSet(Scopes)
            cycles == [s \in scopes |-> [p \in Pipes |-> BusyCycles(p, s)]]
            of == [l \in Lines |-> {x \in UNION {TokensOf(s) : s \in scopes} : At(x).line = l}]
            f(l) == [x \in of[l] |-> ReferenceTotal(x, cycles[trace.waves[x[1]].scope])]
            g(l, part) == [x \in of[l] |-> Cardinality(Spent(x)[part])]
<1>1. \A l \in Lines : of[l] = OfLine(AllTokens, l) BY DEF AllTokens, OfLine
<1>2. \A x \in AllTokens : cycles[trace.waves[x[1]].scope] = CyclesBy(trace.waves[x[1]].scope)
  <2>1. \A x \in AllTokens : trace.waves[x[1]].scope \in scopes
    <3>. SUFFICES ASSUME NEW x \in AllTokens PROVE trace.waves[x[1]].scope \in scopes
      OBVIOUS
    <3>1. PICK i \in 1 .. Len(Scopes) : x \in TokensOf(Scopes[i]) BY AllFacts
    <3>2. trace.waves[x[1]].scope = Scopes[i] BY <3>1, AllFacts
    <3>3. DOMAIN Scopes = 1 .. Len(Scopes) BY TraceFacts
    <3>. QED BY <3>2, <3>3 DEF ToSet
  <2>. HIDE DEF scopes
  <2>. QED BY <2>1 DEF CyclesBy
<1>. HIDE DEF cycles, of
<1>3. ASSUME NEW l \in Lines PROVE SumFunction(f(l)) = SumOver(Reference, OfLine(AllTokens, l))
  <2>. DEFINE T == OfLine(AllTokens, l)
  <2>1. IsFiniteSet(T) /\ T \subseteq AllTokens /\ \A x \in T : Reference[x] \in Nat BY LineFacts
  <2>2. \A x \in T : f(l)[x] = Reference[x] BY <1>1, <1>2, <2>1 DEF Reference
  <2>3. DOMAIN f(l) = T BY <1>1
  <2>. HIDE DEF T, f
  <2>4. SumFunction(f(l)) = SumOver(f(l), T) BY <2>3, SumIsOver
  <2>5. SumOver(Reference, T) = SumOver(f(l), T) BY <2>1, <2>2, SumAgrees
  <2>. QED BY <2>4, <2>5 DEF T
<1>4. ASSUME NEW l \in Lines, NEW part \in DOMAIN Nothing
      PROVE  SumFunction(g(l, part)) = SumOver(SpentIn(part), OfLine(AllTokens, l))
  <2>. DEFINE T == OfLine(AllTokens, l)
              h == SpentIn(part)
              k == g(l, part)
  <2>1. IsFiniteSet(T) /\ T \subseteq AllTokens /\ \A x \in T : h[x] \in Nat BY LineFacts
  <2>2. \A x \in T : k[x] = h[x] BY <1>1, <2>1 DEF SpentIn
  <2>3. DOMAIN k = T BY <1>1
  <2>. HIDE DEF T, h, k
  <2>4. SumFunction(k) = SumOver(k, T) BY <2>3, SumIsOver
  <2>5. SumOver(h, T) = SumOver(k, T) BY <2>1, <2>2, SumAgrees
  <2>6. SumFunction(k) = SumOver(h, T) BY <2>4, <2>5
  <2>. QED BY <2>6 DEF T, h, k
<1>. HIDE DEF f, g
<1>5. \A l \in Lines : /\ Total(byLine[l]) = SumFunction(f(l))
                       /\ \A part \in DOMAIN Nothing : byLine[l][part] <= SumFunction(g(l, part))
  BY <1>3, <1>4 DEF HiddenFor
<1>. QED BY <1>5, Zenon DEF f, g, cycles, of

(***************************************************************************)
(* The invariant of analyze.  HiddenExact speaks of the end only, and is   *)
(* not inductive; HiddenInv has one clause for each phase:                 *)
(*  - reading: a queue holds the work of the waves read so far (ReadUpTo); *)
(*  - uniting: the lists complete so far show the cycles in which their    *)
(*    pipes are busy, those of the pipes because compute_util serves a     *)
(*    queue as the reference does (ComputeUtilExact), those of a union     *)
(*    by UnionInv of BusyUnion;                                            *)
(*  - analysing: the latencies by line are those of the tokens analysed so *)
(*    far (HiddenFor), because the interval of a token counts, of its      *)
(*    cycles, those that its lists show (TokenHidden);                     *)
(* and throughout, the results are those of the pairs before.              *)
(***************************************************************************)
(* The lists that a union is of, and those complete before it.             *)
First == [math |-> "valu", vector |-> "math", all |-> "vector"]
Second == [math |-> "wmma", vector |-> "vmem", all |-> "scal"]
Complete == [math |-> Pipes, vector |-> Pipes \cup {"math"}, all |-> Pipes \cup {"math", "vector"}]

AtWork ==
    /\ scope \in 1 .. Len(Scopes)
    /\ analyzed = FALSE
    /\ HiddenFor(byLine, PairsDone(scope))

Reading ==
    /\ wave \in 1 .. Len(trace.waves) + 1
    /\ \A p \in Pipes : ReadUpTo(busy[p], p, Scopes[scope], wave)

Uniting ==
    /\ UnionInv
    /\ \A l \in Complete[pc] : Shows(busy[l], BusyIn(l, Scopes[scope]))
    /\ Shows(va, BusyIn(First[pc], Scopes[scope]))
    /\ Shows(vb, BusyIn(Second[pc], Scopes[scope]))

Analyzing ==
    /\ wave \in 1 .. Len(trace.waves) + 1
    /\ token \in Nat \ {0}
    /\ ListsShow(busy, Scopes[scope])
    /\ wave \in Own(Scopes[scope]) =>
         /\ token <= Len(trace.waves[wave].tokens) + 1
         /\ token # 1 => last_time = LastOf(<<wave, token>>)
    /\ HiddenFor(lineHidden, TokensDone(Scopes[scope], wave, token))

Named == busy = [l \in Lists |-> busy[l]]

HiddenInv ==
    /\ trace \in Traces
    /\ Named
    /\ \/ pc = "idle" /\ IF analyzed THEN HiddenFor(byLine, AllTokens) ELSE byLine = NoHidden
       \/ pc = "read" /\ AtWork /\ Reading
       \/ pc \in {"math", "vector", "all"} /\ AtWork /\ Uniting
       \/ pc = "analyze" /\ AtWork /\ Analyzing

(* The unions, by name.                                                    *)
LEMMA UnionsAre == ToSet(Unions) = {"math", "vector", "all"}
BY DEF ToSet, Unions

(* Every list has its name, at first.                                      *)
LEMMA NoneNamed == NoneBusy = [l \in Lists |-> NoneBusy[l]]
BY DEF NoneBusy

(* Which tokens are analysed depends on the trace and the position alone.  *)
LEMMA RigidDone ==
    ASSUME trace' = trace
    PROVE  /\ \A s : Own(s)' = Own(s)
           /\ \A x : LastOf(x)' = LastOf(x)
           /\ \A s, w, k : TokensDone(s, w, k)' = TokensDone(s, w, k)
           /\ \A n : PairsDone(n)' = PairsDone(n)
           /\ AllTokens' = AllTokens
<1>0. /\ \A s : TokensOf(s)' = TokensOf(s)
      /\ Scopes' = Scopes
  BY RigidTokens
<1>1. \A s : Own(s)' = Own(s) BY DEF Own
<1>2. \A x : LastOf(x)' = LastOf(x) BY DEF LastOf
<1>3. \A s, w, k : TokensDone(s, w, k)' = TokensDone(s, w, k) BY <1>0 DEF TokensDone
<1>4. \A n : PairsDone(n)' = PairsDone(n) BY <1>0 DEF PairsDone
<1>5. AllTokens' = AllTokens BY <1>0 DEF AllTokens
<1>. QED BY <1>1, <1>2, <1>3, <1>4, <1>5

(* The pair stays, and so do the results of those before.                  *)
LEMMA AtWorkKept ==
    ASSUME trace' = trace, AtWork, scope' = scope, analyzed' = analyzed, byLine' = byLine
    PROVE  AtWork'
<1>1. Scopes' = Scopes BY RigidTokens
<1>2. \A h, T : HiddenFor(h, T)' <=> HiddenFor(h, T) BY RigidHidden
<1>3. \A n : PairsDone(n)' = PairsDone(n) BY RigidDone
<1>. QED BY <1>1, <1>2, <1>3 DEF AtWork

(* The loop over the pairs, before any of them and at its end.             *)
LEMMA NextScopeKeeps ==
    ASSUME trace \in Traces, trace' = trace, NEW n \in 1 .. Len(Scopes) + 1, NextScope(n), Named,
           NEW r, byLine' = r, HiddenFor(r, PairsDone(n))
    PROVE  HiddenInv'
<1>1. Scopes' = Scopes BY RigidTokens
<1>2. \A h, T : HiddenFor(h, T)' <=> HiddenFor(h, T) BY RigidHidden
<1>3. (\A m : PairsDone(m)' = PairsDone(m)) /\ AllTokens' = AllTokens BY RigidDone
<1>4. Len(Scopes) \in Nat /\ Len(trace.waves) \in Nat BY TraceFacts
<1>5. CASE n <= Len(Scopes)
  <2>1. scope' = n /\ wave' = 1 /\ busy' = NoneBusy /\ pc' = "read" /\ analyzed' = FALSE
    BY <1>5 DEF NextScope
  <2>2. AtWork' BY <1>1, <1>2, <1>3, <1>4, <1>5, <2>1 DEF AtWork
  <2>3. Reading'
    <3>1. \A p \in Pipes : NoneBusy[p] = <<>> BY DEF NoneBusy, Lists
    <3>2. \A p \in Pipes : ReadUpTo(<<>>, p, Scopes[n], 1) BY ReadNone
    <3>3. \A q, p, s, w : ReadUpTo(q, p, s, w)' <=> ReadUpTo(q, p, s, w) BY RigidRead
    <3>4. (\A p \in Pipes : ReadUpTo(busy[p], p, Scopes[scope], wave))' BY <1>1, <2>1, <3>1, <3>2, <3>3
    <3>. QED BY <1>4, <2>1, <3>4 DEF Reading
  <2>4. Named' BY <2>1, NoneNamed DEF Named
  <2>. QED BY <2>1, <2>2, <2>3, <2>4 DEF HiddenInv
<1>6. CASE ~(n <= Len(Scopes))
  <2>1. pc' = "idle" /\ busy' = NoneBusy /\ analyzed' = TRUE BY <1>6 DEF NextScope, Return
  <2>2. n = Len(Scopes) + 1 BY <1>4, <1>6
  <2>3. HiddenFor(r, AllTokens) BY <2>2, PairsFacts
  <2>4. HiddenFor(byLine, AllTokens)' BY <2>3, <1>2, <1>3
  <2>5. Named' BY <2>1, NoneNamed DEF Named
  <2>. QED BY <2>1, <2>4, <2>5 DEF HiddenInv
<1>. QED BY <1>5, <1>6

(* analyze begins.                                                         *)
LEMMA AnalyzeKeeps == ASSUME HiddenInv, Analyze PROVE HiddenInv'
<1>1. trace \in Traces /\ Named BY DEF HiddenInv
<1>2. NextScope(1) /\ byLine' = NoHidden /\ trace' = trace BY DEF Analyze
<1>3. HiddenFor(NoHidden, PairsDone(1)) BY <1>1, PairsFacts, HiddenForNone
<1>4. 1 \in 1 .. Len(Scopes) + 1
  <2>1. Len(Scopes) \in Nat BY <1>1, TraceFacts
  <2>. QED BY <2>1
<1>. QED BY <1>1, <1>2, <1>3, <1>4, NextScopeKeeps

(* A failed pair leaves no results.                                        *)
LEMMA FailScopeKeeps == ASSUME HiddenInv, FailScope PROVE HiddenInv'
<1>1. pc' = "idle" /\ busy' = NoneBusy /\ byLine' = NoHidden /\ trace' = trace /\ analyzed' = analyzed
  BY DEF FailScope, Return
<1>2. trace \in Traces /\ analyzed = FALSE BY DEF HiddenInv, FailScope, AtWork
<1>3. Named' BY <1>1, NoneNamed DEF Named
<1>4. trace' \in Traces /\ analyzed' = FALSE BY <1>1, <1>2
<1>. QED BY <1>1, <1>3, <1>4 DEF HiddenInv

(* buildUtil for one more wave.                                            *)
LEMMA ReadWaveKeeps == ASSUME HiddenInv, ReadWave PROVE HiddenInv'
<1>1. trace \in Traces /\ pc = "read" /\ AtWork /\ Reading /\ Named BY DEF HiddenInv, ReadWave
<1>2. /\ wave <= Len(trace.waves) /\ wave' = wave + 1
      /\ busy' = IF Here(wave) THEN [p \in Lists |-> busy[p] \o Queued(p, Tokens)] ELSE busy
      /\ trace' = trace /\ pc' = pc /\ scope' = scope /\ byLine' = byLine /\ analyzed' = analyzed
  BY DEF ReadWave, resultVars
<1>3. Len(trace.waves) \in Nat /\ wave \in DOMAIN trace.waves /\ wave \in Nat
  <2>1. Len(trace.waves) \in Nat /\ DOMAIN trace.waves = 1 .. Len(trace.waves) BY <1>1, TraceFacts
  <2>. QED BY <1>1, <1>2, <2>1 DEF Reading
<1>4. AtWork' BY <1>1, <1>2, AtWorkKept
<1>. DEFINE s == Scopes[scope]
<1>5. Here(wave) <=> wave \in Own(s) BY <1>3 DEF Here, Own
<1>6. \A p \in Pipes : ReadUpTo(busy[p], p, s, wave) BY <1>1 DEF Reading
<1>7. \A p \in Pipes : ReadUpTo(busy'[p], p, s, wave + 1)
  <2>. SUFFICES ASSUME NEW p \in Pipes PROVE ReadUpTo(busy'[p], p, s, wave + 1)
    OBVIOUS
  <2>1. /\ wave \in Own(s) => ReadUpTo(busy[p] \o Queued(p, trace.waves[wave].tokens), p, s, wave + 1)
        /\ wave \notin Own(s) => ReadUpTo(busy[p], p, s, wave + 1)
    <3>. HIDE DEF s
    <3>. QED BY <1>1, <1>3, <1>6, ReadOneMore
  <2>2. /\ wave \in Own(s) => busy'[p] = busy[p] \o Queued(p, trace.waves[wave].tokens)
        /\ wave \notin Own(s) => busy'[p] = busy[p]
    BY <1>2, <1>5 DEF Lists, Tokens
  <2>. QED BY <2>1, <2>2
<1>8. Reading'
  <2>1. \A q, p, t, w : ReadUpTo(q, p, t, w)' <=> ReadUpTo(q, p, t, w) BY <1>2, RigidRead
  <2>2. Scopes' = Scopes BY <1>2, RigidTokens
  <2>3. (\A p \in Pipes : ReadUpTo(busy[p], p, Scopes[scope], wave))' BY <1>2, <1>7, <2>1, <2>2
  <2>4. wave' \in 1 .. Len(trace'.waves) + 1 BY <1>2, <1>3
  <2>. QED BY <2>3, <2>4 DEF Reading
<1>9. Named'
  <2>1. CASE Here(wave)
    <3>1. busy' = [p \in Lists |-> busy[p] \o Queued(p, Tokens)] BY <1>2, <2>1
    <3>. QED BY <3>1 DEF Named
  <2>2. CASE ~Here(wave) BY <1>1, <1>2, <2>2 DEF Named
  <2>. QED BY <2>1, <2>2
<1>10. trace' \in Traces /\ pc' = "read" BY <1>1, <1>2
<1>. QED BY <1>4, <1>8, <1>9, <1>10 DEF HiddenInv

(* A merge may begin in any step.                                          *)
LEMMA UnionInitNext == (MergeInit => UnionInv)'
BY UnionInit, PTL

(* A union begins with lists that show when their pipes are busy.          *)
LEMMA UnionBegins ==
    ASSUME NEW x, NEW A, Shows(x, A), NEW y, NEW B, Shows(y, B),
           va' = x, vb' = y, a' = 1, b' = 1, out' = <<>>
    PROVE  UnionInv'
<1>1. x \in Seq(Util) /\ y \in Seq(Util) /\ BeginOrdered(x) /\ BeginOrdered(y) BY DEF Shows
<1>2. MergeInit' BY <1>1 DEF MergeInit, Merging
<1>. QED BY <1>2, UnionInitNext

(* The busy periods of each pipe are those of the reference server.        *)
LEMMA ComputePipesKeeps == ASSUME HiddenInv, ComputePipes PROVE HiddenInv'
<1>. DEFINE s == Scopes[scope]
            records == trace.others[s[1]]
            queued == [busy EXCEPT !.vmem = @ \o Busy(records)]
            pipes == [p \in Lists |-> IF p \in Pipes THEN ComputeUtil(queued[p]) ELSE <<>>]
<1>1. trace \in Traces /\ pc = "read" /\ AtWork /\ Reading /\ Named BY DEF HiddenInv, ComputePipes
<1>2. /\ wave > Len(trace.waves)
      /\ busy' = pipes /\ va' = pipes.valu /\ vb' = pipes.wmma /\ a' = 1 /\ b' = 1 /\ out' = <<>>
      /\ pc' = "math"
      /\ trace' = trace /\ scope' = scope /\ byLine' = byLine /\ analyzed' = analyzed
  BY DEF ComputePipes, resultVars, Busy
<1>3. scope \in 1 .. Len(Scopes) BY <1>1 DEF AtWork
<1>4. wave = Len(trace.waves) + 1 /\ \A p \in Pipes : ReadUpTo(busy[p], p, s, Len(trace.waves) + 1)
  <2>1. Len(trace.waves) \in Nat BY <1>1, TraceFacts
  <2>2. wave = Len(trace.waves) + 1 BY <1>1, <1>2, <2>1 DEF Reading
  <2>. QED BY <1>1, <2>2 DEF Reading
<1>5. \A p \in Pipes : queued[p] = IF p = "vmem" THEN busy[p] \o Busy(records) ELSE busy[p]
  <2>1. DOMAIN busy = Lists /\ Pipes \subseteq Lists BY <1>1 DEF Named, Lists
  <2>. QED BY <2>1
<1>6. \A p \in Pipes : Shows(pipes[p], BusyIn(p, s))
  <2>. SUFFICES ASSUME NEW p \in Pipes PROVE Shows(pipes[p], BusyIn(p, s))
    OBVIOUS
  <2>1. LET r == IF p = "vmem" THEN busy[p] \o Busy(trace.others[Scopes[scope][1]]) ELSE busy[p]
        IN  Shows(ComputeUtil(r), BusyCycles(p, Scopes[scope]))
    BY <1>1, <1>3, <1>4, PipeExact
  <2>2. Shows(ComputeUtil(queued[p]), BusyCycles(p, s)) BY <1>5, <2>1
  <2>3. pipes[p] = ComputeUtil(queued[p]) BY DEF Lists
  <2>4. BusyIn(p, s) = BusyCycles(p, s) BY BusyInIs
  <2>. QED BY <2>2, <2>3, <2>4
<1>7. AtWork' BY <1>1, <1>2, AtWorkKept
<1>8. Named' BY <1>2 DEF Named
<1>. HIDE DEF pipes
<1>9. Shows(pipes["valu"], BusyIn("valu", s)) /\ Shows(pipes["wmma"], BusyIn("wmma", s)) BY <1>6 DEF Pipes
<1>10. UnionInv' BY <1>2, <1>9, UnionBegins
<1>11. Uniting'
  <2>1. Scopes' = Scopes BY <1>2, RigidTokens
  <2>2. \A l, t : BusyIn(l, t)' = BusyIn(l, t) BY <1>2, RigidBusy
  <2>3. Complete["math"] = Pipes /\ First["math"] = "valu" /\ Second["math"] = "wmma" BY DEF Complete, First, Second
  <2>4. (\A l \in Complete[pc] : Shows(busy[l], BusyIn(l, Scopes[scope])))' BY <1>2, <1>6, <2>1, <2>2, <2>3
  <2>5. Shows(va, BusyIn(First[pc], Scopes[scope]))' BY <1>2, <1>9, <2>1, <2>2, <2>3
  <2>6. Shows(vb, BusyIn(Second[pc], Scopes[scope]))' BY <1>2, <1>9, <2>1, <2>2, <2>3
  <2>. QED BY <1>10, <2>4, <2>5, <2>6 DEF Uniting
<1>12. trace' \in Traces /\ pc' \in {"math", "vector", "all"} BY <1>1, <1>2
<1>. QED BY <1>7, <1>8, <1>11, <1>12 DEF HiddenInv

(* A union goes on.                                                        *)
LEMMA MergeKeeps == ASSUME HiddenInv, Merge PROVE HiddenInv'
<1>1. pc \in {"math", "vector", "all"} BY UnionsAre DEF Merge
<1>2. trace \in Traces /\ AtWork /\ Uniting /\ Named BY <1>1 DEF HiddenInv
<1>3. /\ trace' = trace /\ pc' = pc /\ scope' = scope /\ busy' = busy /\ byLine' = byLine /\ analyzed' = analyzed
      /\ va' = va /\ vb' = vb /\ MergeNext
  BY DEF Merge, resultVars, MergeNext, TakeFirst, TakeSecond
<1>4. UnionInv' BY <1>2, <1>3, UnionStep DEF Uniting
<1>5. AtWork' BY <1>2, <1>3, AtWorkKept
<1>6. Uniting'
  <2>1. Scopes' = Scopes BY <1>3, RigidTokens
  <2>2. \A l, t : BusyIn(l, t)' = BusyIn(l, t) BY <1>3, RigidBusy
  <2>3. (\A l \in Complete[pc] : Shows(busy[l], BusyIn(l, Scopes[scope])))' BY <1>2, <1>3, <2>1, <2>2 DEF Uniting
  <2>4. Shows(va, BusyIn(First[pc], Scopes[scope]))' BY <1>2, <1>3, <2>1, <2>2 DEF Uniting
  <2>5. Shows(vb, BusyIn(Second[pc], Scopes[scope]))' BY <1>2, <1>3, <2>1, <2>2 DEF Uniting
  <2>. QED BY <1>4, <2>3, <2>4, <2>5 DEF Uniting
<1>7. Named' BY <1>2, <1>3 DEF Named
<1>8. trace' \in Traces /\ pc' \in {"math", "vector", "all"} BY <1>1, <1>2, <1>3
<1>. QED BY <1>5, <1>6, <1>7, <1>8 DEF HiddenInv

(* A complete union shows when either of its lists does.                   *)
LEMMA MergedShows ==
    ASSUME pc \in {"math", "vector", "all"}, Uniting, Merged
    PROVE  Shows(out, BusyIn(pc, Scopes[scope]))
<1>. DEFINE s == Scopes[scope]
<1>1. /\ va \in Seq(Util) /\ vb \in Seq(Util) /\ out \in Seq(Util) /\ Apart(out)
      /\ a \in 1 .. Len(va) + 1 /\ b \in 1 .. Len(vb) + 1
      /\ Covered(out, Len(out)) = Covered(va, a - 1) \cup Covered(vb, b - 1)
  BY DEF Uniting, UnionInv, MergeTypeOK, UnionExact
<1>2. a - 1 = Len(va) /\ b - 1 = Len(vb) BY <1>1 DEF Merged
<1>3. Shows(va, BusyIn(First[pc], s)) /\ Shows(vb, BusyIn(Second[pc], s)) BY DEF Uniting
<1>4. BusyIn(pc, s) = BusyIn(First[pc], s) \cup BusyIn(Second[pc], s)
  <2>1. /\ BusyIn("math", s) = BusyIn("valu", s) \cup BusyIn("wmma", s)
        /\ BusyIn("vector", s) = BusyIn("math", s) \cup BusyIn("vmem", s)
        /\ BusyIn("all", s) = BusyIn("vector", s) \cup BusyIn("scal", s)
    BY BusyInIs
  <2>2. /\ First["math"] = "valu" /\ Second["math"] = "wmma"
        /\ First["vector"] = "math" /\ Second["vector"] = "vmem"
        /\ First["all"] = "vector" /\ Second["all"] = "scal"
    BY DEF First, Second
  <2>. HIDE DEF s
  <2>3. CASE pc = "math" BY <2>1, <2>2, <2>3
  <2>4. CASE pc = "vector" BY <2>1, <2>2, <2>4
  <2>5. CASE pc = "all" BY <2>1, <2>2, <2>5
  <2>. QED BY <2>3, <2>4, <2>5
<1>5. Covered(out, Len(out)) = Covered(va, Len(va)) \cup Covered(vb, Len(vb)) BY <1>1, <1>2
<1>6. Shows(out, BusyIn(First[pc], s) \cup BusyIn(Second[pc], s)) BY <1>1, <1>3, <1>5, UnionShows
<1>. QED BY <1>4, <1>6

(* A complete union shows what its pipes have busy.                        *)
LEMMA NextUnionKeeps == ASSUME HiddenInv, NextUnion PROVE HiddenInv'
<1>1. pc \in {"math", "vector"} BY DEF NextUnion
<1>2. trace \in Traces /\ AtWork /\ Uniting /\ Named BY <1>1 DEF HiddenInv
<1>3. /\ Merged /\ busy' = [busy EXCEPT ![pc] = out]
      /\ pc' = IF pc = "math" THEN "vector" ELSE "all"
      /\ va' = out /\ vb' = IF pc = "math" THEN busy.vmem ELSE busy.scal
      /\ a' = 1 /\ b' = 1 /\ out' = <<>>
      /\ trace' = trace /\ scope' = scope /\ byLine' = byLine /\ analyzed' = analyzed
  BY DEF NextUnion, resultVars
<1>. DEFINE s == Scopes[scope]
            y == IF pc = "math" THEN busy.vmem ELSE busy.scal
<1>4. Shows(out, BusyIn(pc, s)) BY <1>1, <1>2, <1>3, MergedShows
<1>5. \A l \in Complete[pc] : Shows(busy[l], BusyIn(l, s)) BY <1>2 DEF Uniting
<1>6. /\ Complete["math"] = Pipes /\ Complete["vector"] = Pipes \cup {"math"} /\ Complete["all"] = Pipes \cup {"math", "vector"}
      /\ First["vector"] = "math" /\ Second["vector"] = "vmem" /\ First["all"] = "vector" /\ Second["all"] = "scal"
  BY DEF Complete, First, Second
<1>7. DOMAIN busy = Lists /\ Lists = Pipes \cup {"math", "vector", "all"} BY <1>2, UnionsAre DEF Named, Lists
<1>8. pc \notin Complete[pc] /\ Complete[pc'] = Complete[pc] \cup {pc} /\ Complete[pc] \subseteq Lists /\ First[pc'] = pc /\ pc \in Lists
  <2>1. "math" \notin Pipes /\ "vector" \notin Pipes BY DEF Pipes
  <2>2. CASE pc = "math"
    <3>1. pc' = "vector" BY <1>3, <2>2
    <3>. QED BY <1>6, <1>7, <2>1, <2>2, <3>1
  <2>3. CASE pc = "vector"
    <3>1. pc' = "all" BY <1>3, <2>3
    <3>. QED BY <1>6, <1>7, <2>1, <2>3, <3>1
  <2>. QED BY <1>1, <2>2, <2>3
<1>9. \A l \in Complete[pc'] : Shows(busy'[l], BusyIn(l, s))
  <2>. SUFFICES ASSUME NEW l \in Complete[pc'] PROVE Shows(busy'[l], BusyIn(l, s))
    OBVIOUS
  <2>1. CASE l = pc
    <3>1. busy'[l] = out BY <1>3, <1>7, <1>8, <2>1
    <3>. QED BY <1>4, <2>1, <3>1
  <2>2. CASE l # pc
    <3>1. l \in Complete[pc] BY <1>8, <2>2
    <3>2. busy'[l] = busy[l] BY <1>3, <1>7, <1>8, <2>2, <3>1
    <3>. QED BY <1>5, <3>1, <3>2
  <2>. QED BY <2>1, <2>2
<1>10. Shows(y, BusyIn(Second[pc'], s))
  <2>0. "vmem" \in Pipes /\ "scal" \in Pipes BY DEF Pipes
  <2>1. CASE pc = "math"
    <3>1. y = busy["vmem"] /\ pc' = "vector" BY <1>3, <2>1
    <3>. QED BY <1>5, <1>6, <2>0, <2>1, <3>1
  <2>2. CASE pc = "vector"
    <3>1. y = busy["scal"] /\ pc' = "all" BY <1>3, <2>2
    <3>. QED BY <1>5, <1>6, <2>0, <2>2, <3>1
  <2>. QED BY <1>1, <2>1, <2>2
<1>. HIDE DEF y
<1>11. vb' = y BY <1>3 DEF y
<1>12. UnionInv' BY <1>3, <1>4, <1>10, <1>11, UnionBegins
<1>13. AtWork' BY <1>2, <1>3, AtWorkKept
<1>14. Uniting'
  <2>1. Scopes' = Scopes BY <1>3, RigidTokens
  <2>2. \A l, t : BusyIn(l, t)' = BusyIn(l, t) BY <1>3, RigidBusy
  <2>3. (\A l \in Complete[pc] : Shows(busy[l], BusyIn(l, Scopes[scope])))' BY <1>3, <1>9, <2>1, <2>2
  <2>4. Shows(va, BusyIn(First[pc], Scopes[scope]))' BY <1>3, <1>4, <1>8, <2>1, <2>2
  <2>5. Shows(vb, BusyIn(Second[pc], Scopes[scope]))' BY <1>3, <1>10, <1>11, <2>1, <2>2
  <2>. QED BY <1>12, <2>3, <2>4, <2>5 DEF Uniting
<1>15. Named'
  <2>1. busy' = [l \in Lists |-> IF l = pc THEN out ELSE busy[l]] BY <1>3, <1>7
  <2>. QED BY <2>1 DEF Named
<1>16. trace' \in Traces /\ pc' \in {"math", "vector", "all"} BY <1>1, <1>2, <1>3
<1>. QED BY <1>13, <1>14, <1>15, <1>16 DEF HiddenInv

(* So does the last; the analysis of the tokens begins.                    *)
LEMMA LastUnionKeeps == ASSUME HiddenInv, LastUnion PROVE HiddenInv'
<1>1. pc = "all" BY DEF LastUnion
<1>2. trace \in Traces /\ AtWork /\ Uniting /\ Named BY <1>1 DEF HiddenInv
<1>3. /\ Merged /\ busy' = [busy EXCEPT !.all = out]
      /\ pc' = "analyze" /\ wave' = 1 /\ token' = 1 /\ lineHidden' = NoHidden
      /\ trace' = trace /\ scope' = scope /\ byLine' = byLine /\ analyzed' = analyzed
  BY DEF LastUnion, resultVars
<1>. DEFINE s == Scopes[scope]
<1>4. Shows(out, BusyIn("all", s))
  <2>1. Shows(out, BusyIn(pc, s)) BY <1>1, <1>2, <1>3, MergedShows
  <2>. QED BY <1>1, <2>1
<1>5. \A l \in Pipes \cup {"math", "vector"} : Shows(busy[l], BusyIn(l, s))
  <2>1. Complete["all"] = Pipes \cup {"math", "vector"} BY DEF Complete
  <2>2. \A l \in Complete[pc] : Shows(busy[l], BusyIn(l, s)) BY <1>2 DEF Uniting
  <2>. QED BY <1>1, <2>1, <2>2
<1>6. DOMAIN busy = Lists /\ Lists = Pipes \cup {"math", "vector", "all"} BY <1>2, UnionsAre DEF Named, Lists
<1>7. \A l \in Lists : Shows(busy'[l], BusyIn(l, s))
  <2>. SUFFICES ASSUME NEW l \in Lists PROVE Shows(busy'[l], BusyIn(l, s))
    OBVIOUS
  <2>1. CASE l = "all"
    <3>1. busy'[l] = out BY <1>3, <1>6, <2>1
    <3>. QED BY <1>4, <2>1, <3>1
  <2>2. CASE l # "all"
    <3>1. busy'[l] = busy[l] BY <1>3, <1>6, <2>2
    <3>2. l \in Pipes \cup {"math", "vector"} BY <1>6, <2>2
    <3>. QED BY <1>5, <3>1, <3>2
  <2>. QED BY <2>1, <2>2
<1>8. AtWork' BY <1>2, <1>3, AtWorkKept
<1>9. Analyzing'
  <2>0. Len(trace.waves) \in Nat /\ \A w \in DOMAIN trace.waves : Len(trace.waves[w].tokens) \in Nat BY <1>2, TraceFacts
  <2>1. Scopes' = Scopes BY <1>3, RigidTokens
  <2>2. \A l, t : BusyIn(l, t)' = BusyIn(l, t) BY <1>3, RigidBusy
  <2>3. \A h, T : HiddenFor(h, T)' <=> HiddenFor(h, T) BY <1>3, RigidHidden
  <2>4. \A t, w, k : TokensDone(t, w, k)' = TokensDone(t, w, k) BY <1>3, RigidDone
  <2>5. \A t : Own(t)' = Own(t) BY <1>3, RigidDone
  <2>6. ListsShow(busy, Scopes[scope])' BY <1>3, <1>7, <2>1, <2>2 DEF ListsShow
  <2>7. HiddenFor(NoHidden, TokensDone(s, 1, 1)) BY <1>2, DoneFacts, HiddenForNone
  <2>8. HiddenFor(lineHidden, TokensDone(Scopes[scope], wave, token))' BY <1>3, <2>1, <2>3, <2>4, <2>7
  <2>9. (wave \in 1 .. Len(trace.waves) + 1 /\ token \in Nat \ {0})' BY <1>3, <2>0
  <2>10. (wave \in Own(Scopes[scope]) =>
             /\ token <= Len(trace.waves[wave].tokens) + 1
             /\ token # 1 => last_time = LastOf(<<wave, token>>))'
    <3>1. wave' \in Own(s) => 1 <= Len(trace.waves[wave'].tokens) + 1
      <4>1. Own(s) \subseteq DOMAIN trace.waves BY DEF Own
      <4>. HIDE DEF s
      <4>. QED BY <2>0, <4>1
    <3>. QED BY <1>3, <2>1, <2>5, <3>1
  <2>. QED BY <2>6, <2>8, <2>9, <2>10 DEF Analyzing
<1>10. Named'
  <2>1. busy' = [l \in Lists |-> IF l = "all" THEN out ELSE busy[l]] BY <1>3, <1>6
  <2>. QED BY <2>1 DEF Named
<1>11. trace' \in Traces BY <1>2, <1>3
<1>. QED BY <1>3, <1>8, <1>9, <1>10, <1>11 DEF HiddenInv

(* One more token is counted, as the reference counts it.                  *)
LEMMA AnalyzeTokenKeeps == ASSUME HiddenInv, AnalyzeToken PROVE HiddenInv'
<1>1. trace \in Traces /\ pc = "analyze" /\ AtWork /\ Analyzing /\ Named BY DEF HiddenInv, AnalyzeToken
<1>. DEFINE s == Scopes[scope]
            x == <<wave, token>>
            t == Tokens[token]
            last == IF token = 1 THEN trace.waves[wave].begin ELSE last_time
            h == HiddenOf(t, last)
<1>2. /\ wave <= Len(trace.waves) /\ Here(wave) /\ token <= Len(Tokens)
      /\ lineHidden' = [lineHidden EXCEPT ![t.line] = Plus(@, h)]
      /\ last_time' = t.clock + t.cycles
      /\ token' = token + 1 /\ wave' = wave /\ busy' = busy
      /\ trace' = trace /\ pc' = pc /\ scope' = scope /\ byLine' = byLine /\ analyzed' = analyzed
  BY DEF AnalyzeToken, resultVars
<1>3. Len(trace.waves) \in Nat /\ DOMAIN trace.waves = 1 .. Len(trace.waves)
      /\ \A w \in DOMAIN trace.waves : /\ Len(trace.waves[w].tokens) \in Nat
                                       /\ DOMAIN trace.waves[w].tokens = 1 .. Len(trace.waves[w].tokens)
  BY <1>1, TraceFacts
<1>4. wave \in DOMAIN trace.waves /\ wave \in Own(s) /\ wave \in Nat
  <2>1. wave \in DOMAIN trace.waves /\ wave \in Nat BY <1>1, <1>2, <1>3 DEF Analyzing
  <2>. QED BY <2>1, <1>2 DEF Here, Own
<1>5. token \in Nat \ {0} /\ token \in 1 .. Len(trace.waves[wave].tokens)
  <2>1. token \in Nat \ {0} BY <1>1 DEF Analyzing
  <2>2. Len(trace.waves[wave].tokens) \in Nat /\ token <= Len(trace.waves[wave].tokens) BY <1>2, <1>3, <1>4 DEF Tokens
  <2>. QED BY <2>1, <2>2
<1>6. scope \in 1 .. Len(Scopes) BY <1>1 DEF AtWork
<1>7. /\ TokensDone(s, wave, token + 1) = TokensDone(s, wave, token) \cup {x}
      /\ x \in TokensOf(s) \ TokensDone(s, wave, token)
  <2>. HIDE DEF s
  <2>. QED BY <1>1, <1>4, <1>5, DoneFacts
<1>8. At(x) = t /\ x[1] = wave /\ x[2] = token BY DEF At, Tokens
<1>9. last = LastOf(x)
  <2>1. CASE token = 1 BY <2>1, <1>8 DEF LastOf
  <2>2. CASE token # 1
    <3>1. wave \in Own(s) => (token # 1 => last_time = LastOf(<<wave, token>>)) BY <1>1 DEF Analyzing
    <3>. QED BY <2>2, <3>1, <1>4
  <2>. QED BY <2>1, <2>2
<1>10. ListsShow(busy, s) BY <1>1 DEF Analyzing
<1>11. PartOf(h, Spent(x)) /\ Total(h) = ReferenceTotal(x, CyclesBy(s))
  <2>1. LET g == HiddenOf(At(x), LastOf(x))
        IN  PartOf(g, Spent(x)) /\ Total(g) = ReferenceTotal(x, CyclesBy(Scopes[scope])) /\ Total(g) \in Nat
    <3>. HIDE DEF x
    <3>. QED BY <1>1, <1>6, <1>7, <1>10, TokenHidden
  <2>. HIDE DEF x, t, last
  <2>. QED BY <1>8, <1>9, <2>1
<1>12. x \in AllTokens /\ trace.waves[x[1]].scope = s /\ TokensDone(s, wave, token) \in SUBSET AllTokens
  <2>1. TokensOf(Scopes[scope]) \subseteq AllTokens BY <1>1, <1>6, AllFacts
  <2>2. \A y \in TokensOf(Scopes[scope]) : trace.waves[y[1]].scope = Scopes[scope] BY <1>1, <1>6, AllFacts
  <2>3. TokensDone(s, wave, token) \subseteq TokensOf(s) BY DEF TokensDone
  <2>. HIDE DEF x
  <2>. QED BY <1>7, <2>1, <2>2, <2>3
<1>13. Reference[x] = ReferenceTotal(x, CyclesBy(s)) BY <1>12 DEF Reference
<1>14. TokenFits(t) /\ t.line \in Lines
  <2>1. TokenFits(At(x))
    <3>. HIDE DEF x
    <3>. QED BY <1>1, <1>7, TokensFacts
  <2>. QED BY <2>1, <1>8, FitFacts
<1>. DEFINE p == [lineHidden EXCEPT ![t.line] = Plus(@, h)]
<1>15. HiddenFor(p, TokensDone(s, wave, token + 1))
  <2>1. HiddenFor(lineHidden, TokensDone(s, wave, token)) BY <1>1 DEF Analyzing
  <2>2. x \in AllTokens \ TokensDone(s, wave, token) BY <1>7, <1>12
  <2>3. At(x).line \in Lines BY <1>8, <1>14
  <2>. HIDE DEF x, h, t, s
  <2>4. HiddenFor([lineHidden EXCEPT ![At(x).line] = Plus(@, h)], TokensDone(s, wave, token) \cup {x})
    BY <1>1, <1>11, <1>12, <1>13, <2>1, <2>2, <2>3, HiddenForOneMore
  <2>. QED BY <1>7, <1>8, <2>4
<1>16. t.clock + t.cycles = LastOf(<<wave, token + 1>>)
  <2>1. (token + 1) - 1 = token /\ token + 1 # 1 BY <1>5
  <2>. QED BY <2>1 DEF LastOf, Tokens
<1>17. AtWork' BY <1>1, <1>2, AtWorkKept
<1>. HIDE DEF p, t
<1>18. Analyzing'
  <2>1. Scopes' = Scopes BY <1>2, RigidTokens
  <2>2. \A l, q : BusyIn(l, q)' = BusyIn(l, q) BY <1>2, RigidBusy
  <2>3. \A g, T : HiddenFor(g, T)' <=> HiddenFor(g, T) BY <1>2, RigidHidden
  <2>4. \A q, w, k : TokensDone(q, w, k)' = TokensDone(q, w, k) BY <1>2, RigidDone
  <2>5. (\A q : Own(q)' = Own(q)) /\ \A y : LastOf(y)' = LastOf(y) BY <1>2, RigidDone
  <2>6. ListsShow(busy, Scopes[scope])' BY <1>2, <1>10, <2>1, <2>2 DEF ListsShow
  <2>7. lineHidden' = p BY <1>2 DEF p
  <2>8. HiddenFor(lineHidden, TokensDone(Scopes[scope], wave, token))' BY <1>2, <1>15, <2>1, <2>3, <2>4, <2>7
  <2>9. (wave \in 1 .. Len(trace.waves) + 1 /\ token \in Nat \ {0})' BY <1>1, <1>2, <1>5 DEF Analyzing
  <2>10. token + 1 <= Len(trace.waves[wave].tokens) + 1
    <3>1. Len(trace.waves[wave].tokens) \in Nat BY <1>3, <1>4
    <3>. QED BY <1>5, <3>1
  <2>11. (wave \in Own(Scopes[scope]) =>
             /\ token <= Len(trace.waves[wave].tokens) + 1
             /\ token # 1 => last_time = LastOf(<<wave, token>>))'
    BY <1>2, <1>16, <2>1, <2>5, <2>10
  <2>. QED BY <2>6, <2>8, <2>9, <2>11 DEF Analyzing
<1>19. Named' BY <1>1, <1>2 DEF Named
<1>20. trace' \in Traces /\ pc' = "analyze" BY <1>1, <1>2
<1>. QED BY <1>17, <1>18, <1>19, <1>20 DEF HiddenInv

(* No token of the wave is left.                                           *)
LEMMA NextWaveKeeps == ASSUME HiddenInv, NextWave PROVE HiddenInv'
<1>1. trace \in Traces /\ pc = "analyze" /\ AtWork /\ Analyzing /\ Named BY DEF HiddenInv, NextWave
<1>. DEFINE s == Scopes[scope]
<1>2. /\ wave <= Len(trace.waves)
      /\ Here(wave) => token > Len(Tokens)
      /\ token' = 1 /\ wave' = wave + 1 /\ busy' = busy /\ lineHidden' = lineHidden
      /\ trace' = trace /\ pc' = pc /\ scope' = scope /\ byLine' = byLine /\ analyzed' = analyzed
  BY DEF NextWave, resultVars
<1>3. Len(trace.waves) \in Nat /\ DOMAIN trace.waves = 1 .. Len(trace.waves)
      /\ \A w \in DOMAIN trace.waves : Len(trace.waves[w].tokens) \in Nat
  BY <1>1, TraceFacts
<1>4. wave \in 1 .. Len(trace.waves) /\ token \in Nat BY <1>1, <1>2, <1>3 DEF Analyzing
<1>5. wave \in Own(s) => token > Len(trace.waves[wave].tokens) BY <1>2 DEF Here, Own, Tokens
<1>6. TokensDone(s, wave + 1, 1) = TokensDone(s, wave, token)
  <2>. HIDE DEF s
  <2>1. \A w \in 1 .. Len(trace.waves) : \A k \in Nat :
           (w \in Own(s) => k > Len(trace.waves[w].tokens)) => TokensDone(s, w + 1, 1) = TokensDone(s, w, k)
    BY <1>1, DoneFacts
  <2>. QED BY <2>1, <1>4, <1>5
<1>7. HiddenFor(lineHidden, TokensDone(s, wave + 1, 1)) BY <1>1, <1>6 DEF Analyzing
<1>8. AtWork' BY <1>1, <1>2, AtWorkKept
<1>9. Analyzing'
  <2>1. Scopes' = Scopes BY <1>2, RigidTokens
  <2>2. \A l, q : BusyIn(l, q)' = BusyIn(l, q) BY <1>2, RigidBusy
  <2>3. \A g, T : HiddenFor(g, T)' <=> HiddenFor(g, T) BY <1>2, RigidHidden
  <2>4. \A q, w, k : TokensDone(q, w, k)' = TokensDone(q, w, k) BY <1>2, RigidDone
  <2>5. \A q : Own(q)' = Own(q) BY <1>2, RigidDone
  <2>6. ListsShow(busy, Scopes[scope])' BY <1>1, <1>2, <2>1, <2>2 DEF ListsShow, Analyzing
  <2>7. HiddenFor(lineHidden, TokensDone(Scopes[scope], wave, token))' BY <1>2, <1>7, <2>1, <2>3, <2>4
  <2>8. (wave \in 1 .. Len(trace.waves) + 1 /\ token \in Nat \ {0})' BY <1>2, <1>3, <1>4
  <2>9. wave + 1 \in Own(s) => 1 <= Len(trace.waves[wave + 1].tokens) + 1
    <3>1. Own(s) \subseteq DOMAIN trace.waves BY DEF Own
    <3>. HIDE DEF s
    <3>2. wave + 1 \in Own(s) => Len(trace.waves[wave + 1].tokens) \in Nat BY <1>3, <3>1
    <3>. QED BY <3>2
  <2>10. (wave \in Own(Scopes[scope]) =>
             /\ token <= Len(trace.waves[wave].tokens) + 1
             /\ token # 1 => last_time = LastOf(<<wave, token>>))'
    BY <1>2, <2>1, <2>5, <2>9
  <2>. QED BY <2>6, <2>7, <2>8, <2>10 DEF Analyzing
<1>10. Named' BY <1>1, <1>2 DEF Named
<1>11. trace' \in Traces /\ pc' = "analyze" BY <1>1, <1>2
<1>. QED BY <1>8, <1>9, <1>10, <1>11 DEF HiddenInv

(* The results of the pair join those before.                              *)
LEMMA EndScopeKeeps == ASSUME HiddenInv, EndScope PROVE HiddenInv'
<1>1. trace \in Traces /\ pc = "analyze" /\ AtWork /\ Analyzing /\ Named BY DEF HiddenInv, EndScope
<1>. DEFINE s == Scopes[scope]
            r == [l \in Lines |-> Plus(byLine[l], lineHidden[l])]
<1>2. wave > Len(trace.waves) /\ byLine' = r /\ NextScope(scope + 1) /\ trace' = trace BY DEF EndScope
<1>3. Len(trace.waves) \in Nat /\ Len(Scopes) \in Nat BY <1>1, TraceFacts
<1>4. scope \in 1 .. Len(Scopes) /\ wave \in Nat /\ scope + 1 \in 1 .. Len(Scopes) + 1
  BY <1>1, <1>3 DEF AtWork, Analyzing
<1>5. TokensDone(s, wave, token) = TokensOf(s)
  <2>. HIDE DEF s
  <2>. QED BY <1>1, <1>2, <1>4, DoneFacts
<1>6. HiddenFor(byLine, PairsDone(scope)) /\ HiddenFor(lineHidden, TokensOf(s)) BY <1>1, <1>5 DEF AtWork, Analyzing
<1>7. /\ PairsDone(scope + 1) = PairsDone(scope) \cup TokensOf(s)
      /\ PairsDone(scope) \cap TokensOf(s) = {}
      /\ PairsDone(scope) \in SUBSET AllTokens /\ TokensOf(s) \in SUBSET AllTokens
  BY <1>1, <1>4, PairsFacts, AllFacts
<1>8. HiddenFor(r, PairsDone(scope + 1))
  <2>. HIDE DEF s
  <2>1. HiddenFor([l \in Lines |-> Plus(byLine[l], lineHidden[l])], PairsDone(scope) \cup TokensOf(s))
    BY <1>1, <1>6, <1>7, HiddenForBoth
  <2>. QED BY <1>7, <2>1
<1>. HIDE DEF r
<1>. QED BY <1>1, <1>2, <1>4, <1>8, NextScopeKeeps

(* Nothing changes.                                                        *)
LEMMA StutterKeeps == ASSUME HiddenInv, UNCHANGED vars PROVE HiddenInv'
<1>1. /\ trace' = trace /\ pc' = pc /\ scope' = scope /\ wave' = wave /\ token' = token /\ last_time' = last_time
      /\ busy' = busy /\ lineHidden' = lineHidden /\ byLine' = byLine /\ analyzed' = analyzed
      /\ va' = va /\ vb' = vb /\ UNCHANGED unionVars
  BY DEF vars, tokenVars, resultVars, unionVars
<1>2. Scopes' = Scopes BY <1>1, RigidTokens
<1>3. \A l, q : BusyIn(l, q)' = BusyIn(l, q) BY <1>1, RigidBusy
<1>4. \A g, T : HiddenFor(g, T)' <=> HiddenFor(g, T) BY <1>1, RigidHidden
<1>5. /\ \A q, w, k : TokensDone(q, w, k)' = TokensDone(q, w, k)
      /\ \A q : Own(q)' = Own(q)
      /\ \A y : LastOf(y)' = LastOf(y)
      /\ AllTokens' = AllTokens
  BY <1>1, RigidDone
<1>6. \A q, p, t, w : ReadUpTo(q, p, t, w)' <=> ReadUpTo(q, p, t, w) BY <1>1, RigidRead
<1>7. trace' \in Traces /\ Named' BY <1>1 DEF HiddenInv, Named
<1>8. CASE pc = "idle" /\ IF analyzed THEN HiddenFor(byLine, AllTokens) ELSE byLine = NoHidden
  <2>1. (pc = "idle" /\ IF analyzed THEN HiddenFor(byLine, AllTokens) ELSE byLine = NoHidden)' BY <1>1, <1>4, <1>5, <1>8
  <2>. QED BY <1>7, <2>1 DEF HiddenInv
<1>9. CASE pc = "read" /\ AtWork /\ Reading
  <2>1. AtWork' BY <1>1, <1>9, AtWorkKept
  <2>2. Reading' BY <1>1, <1>2, <1>6, <1>9 DEF Reading
  <2>3. pc' = "read" BY <1>1, <1>9
  <2>. QED BY <1>7, <2>1, <2>2, <2>3 DEF HiddenInv
<1>10. CASE pc \in {"math", "vector", "all"} /\ AtWork /\ Uniting
  <2>1. AtWork' BY <1>1, <1>10, AtWorkKept
  <2>2. UnionInv' BY <1>1, <1>10, UnionStep DEF Uniting
  <2>3. Uniting' BY <1>1, <1>2, <1>3, <1>10, <2>2 DEF Uniting
  <2>4. pc' \in {"math", "vector", "all"} BY <1>1, <1>10
  <2>. QED BY <1>7, <2>1, <2>3, <2>4 DEF HiddenInv
<1>11. CASE pc = "analyze" /\ AtWork /\ Analyzing
  <2>1. AtWork' BY <1>1, <1>11, AtWorkKept
  <2>2. ListsShow(busy, Scopes[scope])' BY <1>1, <1>2, <1>3, <1>11 DEF Analyzing, ListsShow
  <2>3. Analyzing' BY <1>1, <1>2, <1>4, <1>5, <1>11, <2>2 DEF Analyzing
  <2>4. pc' = "analyze" BY <1>1, <1>11
  <2>. QED BY <1>7, <2>1, <2>3, <2>4 DEF HiddenInv
<1>. QED BY <1>8, <1>9, <1>10, <1>11 DEF HiddenInv

(* Every step keeps the invariant.                                         *)
LEMMA HiddenStep == HiddenInv /\ [Next]_vars => HiddenInv'
BY AnalyzeKeeps, ReadWaveKeeps, FailScopeKeeps, ComputePipesKeeps, MergeKeeps, NextUnionKeeps, LastUnionKeeps,
   AnalyzeTokenKeeps, NextWaveKeeps, EndScopeKeeps, StutterKeeps DEF Next

(* It holds before any analysis.                                           *)
LEMMA HiddenInit == Init => HiddenInv
BY NoneNamed DEF Init, HiddenInv, Named

(* Whatever the trace, its pairs, waves and tokens, and however often it   *)
(* was analysed or an analysis failed: the hidden latency of a line is     *)
(* that of the reference server, summed over its tokens, each counted      *)
(* once.  By HiddenInv, when analyze has returned.                         *)
THEOREM HiddenIsExact == Spec => []HiddenExact
<1>1. HiddenInv => HiddenExact
  <2>. SUFFICES ASSUME HiddenInv, Idle PROVE HiddenExact
    BY DEF HiddenExact
  <2>1. trace \in Traces /\ IF analyzed THEN HiddenFor(byLine, AllTokens) ELSE byLine = NoHidden
    BY DEF Idle, HiddenInv
  <2>2. CASE analyzed = FALSE BY <2>1, <2>2 DEF HiddenExact
  <2>3. CASE analyzed # FALSE
    <3>1. CASE ~analyzed BY <2>1, <3>1 DEF HiddenExact
    <3>2. CASE analyzed
      <4>1. HiddenFor(byLine, AllTokens) BY <2>1, <3>2
      <4>. QED BY <2>1, <3>2, <4>1, ResultIs DEF HiddenExact
    <3>. QED BY <3>1, <3>2
  <2>. QED BY <2>2, <2>3
<1>. QED BY HiddenInit, HiddenStep, <1>1, PTL DEF Spec

(***************************************************************************)
(* What the global view draws of the dispatches and events of an engine is *)
(* exact, for all captures and however the events were filtered before.    *)
(*                                                                         *)
(* LanesExact is not inductive.  What every step keeps is that a track has *)
(* one span for each of its dispatches and of the events that end none, in *)
(* the order in which they begin (TrackInv), and that its lanes are packed *)
(* (LayoutInv): a lane ends with one of its spans, the spans of a lane     *)
(* follow one another, and when the last lane was opened a span of every   *)
(* lane was under way.  The first is shown of the sort by the lemmas of    *)
(* AggregateTheorems, the second by the least span that would break it.    *)
(***************************************************************************)
-----------------------------------------------------------------------------
(* The fold over the spans of a track as a function of the positions that  *)
(* were laid out: what Layout computes is its value for all of them.       *)
Unlaid(track) == [spans |-> track.spans, ends |-> [k \in {} |-> 0], visible |-> <<>>]
Lays(track, groups, h) ==
    h = [s \in SUBSET DOMAIN track.spans |->
            IF s = {} THEN Unlaid(track)
            ELSE Place(track, groups, h[s \ {Max(s)}], [i \in DOMAIN track.spans |-> i][Max(s)])]
Laid(track, groups) == (CHOOSE h : Lays(track, groups, h))[DOMAIN track.spans]

(* The fold of layOutSpans, unfolded.                                      *)
LEMMA LayoutIsLaid ==
    ASSUME NEW track, NEW groups
    PROVE  Layout(track, groups) =
             [track EXCEPT !.spans = Laid(track, groups).spans, !.visible = Laid(track, groups).visible,
                           !.lanes = Cardinality(DOMAIN Laid(track, groups).ends)]
<1>1. DOMAIN [i \in DOMAIN track.spans |-> i] = DOMAIN track.spans OBVIOUS
<1>. QED BY <1>1, Zenon DEF Layout, FoldLeft, MapThenFoldSet, Lays, Laid, Unlaid

(* That fold is defined on every track.                                    *)
LEMMA LaysExists ==
    ASSUME NEW track, NEW groups, NEW n \in Nat, DOMAIN track.spans = 1 .. n
    PROVE  \E h : Lays(track, groups, h)
<1>. DEFINE Next1(l, i) == Place(track, groups, l, [j \in DOMAIN track.spans |-> j][i])
            To(k, h) == h = [s \in SUBSET (1 .. k) |->
                               IF s = {} THEN Unlaid(track) ELSE Next1(h[s \ {Max(s)}], Max(s))]
            Bad == {k \in 0 .. n : ~\E h : To(k, h)}
<1>1. \A h : To(n, h) <=> Lays(track, groups, h) BY Zenon DEF Lays
<1>. HIDE DEF Next1
<1>2. Bad = {}
  <2>. SUFFICES ASSUME Bad # {} PROVE FALSE
    OBVIOUS
  <2>. DEFINE m == Min(Bad)
  <2>1. m \in Bad /\ \A k \in Bad : m <= k
    <3>1. Bad \in SUBSET Nat OBVIOUS
    <3>. HIDE DEF Bad
    <3>. QED BY <3>1, MinExists, Zenon
  <2>. HIDE DEF m
  <2>2. CASE m = 0
    <3>. DEFINE h == [s \in SUBSET (1 .. 0) |-> Unlaid(track)]
    <3>1. 1 .. 0 = {} OBVIOUS
    <3>2. \A s \in SUBSET (1 .. 0) : s = {} BY <3>1
    <3>3. h = [s \in SUBSET (1 .. 0) |->
                 IF s = {} THEN Unlaid(track) ELSE Next1(h[s \ {Max(s)}], Max(s))]
      BY <3>2, Zenon
    <3>. HIDE DEF h
    <3>4. To(0, h) BY <3>3, Zenon
    <3>. QED BY <3>4, <2>1, <2>2
  <2>3. CASE m # 0
    <3>1. m \in Nat /\ m - 1 \in 0 .. n /\ m - 1 < m BY <2>1, <2>3
    <3>2. m - 1 \notin Bad
      <4>1. ~(m <= m - 1) BY <3>1
      <4>. HIDE DEF Bad
      <4>. QED BY <4>1, <2>1
    <3>3. PICK g : To(m - 1, g) BY <3>1, <3>2, Zenon
    <3>. DEFINE h == [s \in SUBSET (1 .. m) |-> IF m \in s THEN Next1(g[s \ {m}], m) ELSE g[s]]
    <3>4. ASSUME NEW s \in SUBSET (1 .. m), m \in s
          PROVE  h[s] = Next1(h[s \ {Max(s)}], Max(s))
      <4>1. Max(s) = m
        <5>1. s \in SUBSET Nat /\ \A y \in s : y <= m BY <3>1
        <5>. QED BY <3>4, <5>1, MaxIs, Zenon
      <4>2. s \ {m} \in SUBSET (1 .. m) /\ m \notin s \ {m} OBVIOUS
      <4>3. h[s \ {m}] = g[s \ {m}] BY <4>2, Zenon
      <4>4. h[s] = Next1(g[s \ {m}], m) BY <3>4, Zenon
      <4>. QED BY <4>1, <4>3, <4>4, Zenon
    <3>5. ASSUME NEW s \in SUBSET (1 .. m), m \notin s, s # {}
          PROVE  h[s] = Next1(h[s \ {Max(s)}], Max(s))
      <4>1. s \in SUBSET (1 .. (m - 1)) BY <3>1, <3>5
      <4>2. g[s] = Next1(g[s \ {Max(s)}], Max(s)) BY <3>3, <3>5, <4>1, Zenon
      <4>3. m \notin s \ {Max(s)} /\ s \ {Max(s)} \in SUBSET (1 .. m) BY <3>5
      <4>4. h[s \ {Max(s)}] = g[s \ {Max(s)}] BY <4>3, Zenon
      <4>5. h[s] = g[s] BY <3>5, Zenon
      <4>. QED BY <4>2, <4>4, <4>5, Zenon
    <3>6. h[{}] = Unlaid(track)
      <4>1. g[{}] = Unlaid(track) /\ {} \in SUBSET (1 .. m) /\ m \notin {} BY <3>3, Zenon
      <4>. QED BY <4>1, Zenon
    <3>7. DOMAIN h = SUBSET (1 .. m) /\ h = [s \in SUBSET (1 .. m) |-> h[s]] BY Zenon
    <3>. HIDE DEF h
    <3>8. \A s \in SUBSET (1 .. m) :
             h[s] = IF s = {} THEN Unlaid(track) ELSE Next1(h[s \ {Max(s)}], Max(s))
      BY <3>4, <3>5, <3>6, Zenon
    <3>9. To(m, h) BY <3>7, <3>8, Zenon
    <3>. QED BY <3>9, <2>1, Zenon
  <2>. QED BY <2>2, <2>3
<1>3. n \in 0 .. n OBVIOUS
<1>4. \E h : To(n, h)
  <2>. HIDE DEF To
  <2>. QED BY <1>2, <1>3, Zenon
<1>. QED BY <1>1, <1>4, Zenon

(* One span after the other is placed.                                     *)
LEMMA LaidStepwise ==
    ASSUME NEW track, NEW groups, NEW n \in Nat, DOMAIN track.spans = 1 .. n
    PROVE  \E h : /\ h[0] = Unlaid(track)
                  /\ \A k \in 1 .. n : h[k] = Place(track, groups, h[k - 1], k)
                  /\ h[n] = Laid(track, groups)
<1>. DEFINE g == CHOOSE f : Lays(track, groups, f)
<1>1. Lays(track, groups, g) BY LaysExists, Zenon
<1>2. Laid(track, groups) = g[1 .. n] BY Zenon DEF Laid
<1>. HIDE DEF g
<1>. DEFINE h == [k \in 0 .. n |-> g[1 .. k]]
<1>3. \A s \in SUBSET (1 .. n) :
         g[s] = IF s = {} THEN Unlaid(track)
                ELSE Place(track, groups, g[s \ {Max(s)}], [i \in DOMAIN track.spans |-> i][Max(s)])
  BY <1>1, Zenon DEF Lays
<1>4. h[0] = Unlaid(track)
  <2>1. 1 .. 0 = {} /\ 0 \in 0 .. n OBVIOUS
  <2>2. g[{}] = Unlaid(track) BY <1>3, Zenon
  <2>. QED BY <2>1, <2>2, Zenon
<1>5. ASSUME NEW k \in 1 .. n PROVE h[k] = Place(track, groups, h[k - 1], k)
  <2>1. /\ 1 .. k \in SUBSET (1 .. n) /\ k \in 1 .. k /\ (1 .. k) \ {k} = 1 .. (k - 1)
        /\ k \in 0 .. n /\ k - 1 \in 0 .. n /\ 1 .. k \in SUBSET Nat /\ \A y \in 1 .. k : y <= k
    OBVIOUS
  <2>2. Max(1 .. k) = k BY <2>1, MaxIs, Zenon
  <2>3. [i \in DOMAIN track.spans |-> i][k] = k BY Zenon
  <2>4. g[1 .. k] = Place(track, groups, g[(1 .. k) \ {k}], k) BY <1>3, <2>1, <2>2, <2>3, Zenon
  <2>. QED BY <2>1, <2>4, Zenon
<1>6. h[n] = Laid(track, groups) BY <1>2, n \in 0 .. n, Zenon
<1>. HIDE DEF h
<1>. QED BY <1>4, <1>5, <1>6

-----------------------------------------------------------------------------
(* A track: its spans stand for its dispatches and the events that end     *)
(* none, each once, and are in the order in which they begin.              *)
SpanSet(K) == [kind : {"dispatch", "event"}, index : Nat, begin : Int, end : Int, kid : K, lane : Nat]
DispatchEnd(d, es) == IF Ends(d, es) = {} THEN d.time ELSE es[Min(Ends(d, es))].time
Consumed(ds, es) == {Min(Ends(d, es)) : d \in {x \in ToSet(ds) : Ends(x, es) # {}}}

Describes(ds, es, s) ==
    \/ /\ s.kind = "dispatch" /\ s.index \in DOMAIN ds
       /\ s.begin = ds[s.index].time /\ s.end = DispatchEnd(ds[s.index], es)
    \/ /\ s.kind = "event" /\ s.index \in DOMAIN es \ Consumed(ds, es)
       /\ s.begin = es[s.index].time /\ s.end = s.begin

TrackShape(t) ==
    t = [se |-> t.se, dispatches |-> t.dispatches, events |-> t.events, spans |-> t.spans,
         visible |-> t.visible, lanes |-> t.lanes]

SpansSet(t) ==
    /\ \E K : t.spans \in Seq(SpanSet(K))
    /\ \A i, j \in DOMAIN t.spans : i < j => t.spans[i].begin <= t.spans[j].begin
SpansComplete(t) ==
    /\ \A i \in DOMAIN t.spans : Describes(t.dispatches, t.events, t.spans[i])
    /\ \A i, j \in DOMAIN t.spans :
          t.spans[i].kind = t.spans[j].kind /\ t.spans[i].index = t.spans[j].index => i = j
    /\ \A x \in DOMAIN t.dispatches : \E i \in DOMAIN t.spans : t.spans[i].kind = "dispatch" /\ t.spans[i].index = x
    /\ \A x \in DOMAIN t.events \ Consumed(t.dispatches, t.events) :
          \E i \in DOMAIN t.spans : t.spans[i].kind = "event" /\ t.spans[i].index = x
TrackInv(t) ==
    /\ TrackShape(t)
    /\ Timed(t.dispatches) /\ Timed(t.events)
    /\ SpansSet(t)
    /\ SpansComplete(t)

(* The spans of which laying out changes no more than the lane.            *)
SameSpan(s, r) == s.kind = r.kind /\ s.index = r.index /\ s.begin = r.begin /\ s.end = r.end /\ s.kid = r.kid
Forward(q) == \A i \in DOMAIN q : q[i].begin <= q[i].end
Vis(t, groups, k) == {i \in 1 .. k : SpanVisible(t, t.spans[i], groups)}
Under(q, V, j) == {y \in V : q[y].begin <= q[j].begin /\ q[j].begin <= q[y].end}

(* The lanes of the spans V of q, m of them, each ending with a span; and  *)
(* unless a span ends before it begins, no lane has two at one time, and   *)
(* there was a moment at which there were spans on all of them.            *)
LanesOf(q, lane, ends, m, V) ==
    /\ ends \in [0 .. m - 1 -> Int]
    /\ \A j \in V : lane[j] \in 0 .. m - 1
    /\ \A l \in 0 .. m - 1 : \E j \in V : lane[j] = l /\ q[j].end = ends[l]
Packed(q, lane, ends, m, V) ==
    /\ \A j \in V : q[j].end <= ends[lane[j]]
    /\ \A i, j \in V : i < j /\ lane[i] = lane[j] => q[i].end < q[j].begin
    /\ m = 0 \/ \E j \in V : m <= Cardinality(Under(q, V, j))

Packing(q, lane, ends, V) ==
    \E m \in Nat : /\ LanesOf(q, lane, ends, m, V)
                   /\ Forward(q) => Packed(q, lane, ends, m, V)

LaneOf(q) == [i \in DOMAIN q |-> q[i].lane]

LaidInv(t, groups, laid, k) ==
    /\ \E K : laid.spans \in Seq(SpanSet(K))
    /\ DOMAIN laid.spans = DOMAIN t.spans
    /\ \A i \in DOMAIN t.spans : SameSpan(laid.spans[i], t.spans[i])
    /\ laid.visible \in Seq(Nat)
    /\ Range(laid.visible) = Vis(t, groups, k)
    /\ Len(laid.visible) = Cardinality(Vis(t, groups, k))
    /\ Packing(t.spans, LaneOf(laid.spans), laid.ends, Vis(t, groups, k))

(* The lane that is free first.                                            *)
LEMMA FirstLane ==
    ASSUME NEW m \in Nat, m # 0, NEW ends \in [0 .. m - 1 -> Int]
    PROVE  LET first == CHOOSE k \in DOMAIN ends : \A j \in DOMAIN ends :
                           ends[k] < ends[j] \/ (ends[k] = ends[j] /\ k <= j)
           IN  first \in 0 .. m - 1 /\ \A j \in 0 .. m - 1 : ends[first] <= ends[j]
<1>. DEFINE D == 0 .. m - 1
            S == {ends[k] : k \in D}
            F == {k \in D : ends[k] = Min(S)}
<1>1. S \subseteq Int /\ S # {}
  <2>1. 0 \in D OBVIOUS
  <2>. QED BY <2>1
<1>2. IsFiniteSet(S)
  <2>1. IsFiniteSet(D) BY FS_Interval
  <2>2. ends \in Surjection(D, S) BY DEF Surjection
  <2>. QED BY <2>1, <2>2, FS_Surjection
<1>. HIDE DEF S
<1>3. Min(S) \in S /\ \A y \in S : Min(S) <= y BY <1>1, <1>2, FiniteMin
<1>4. F \in SUBSET Nat /\ F # {}
  <2>1. PICK k \in D : Min(S) = ends[k] BY <1>3 DEF S
  <2>. QED BY <2>1
<1>5. \A k \in D : ends[k] \in S /\ ends[k] \in Int BY DEF S
<1>. DEFINE f == Min(F)
<1>6. f \in F /\ \A y \in F : f <= y
  <2>. HIDE DEF F
  <2>. QED BY <1>4, MinExists
<1>7. \A j \in D : ends[f] < ends[j] \/ (ends[f] = ends[j] /\ f <= j)
  <2>. SUFFICES ASSUME NEW j \in D PROVE ends[f] < ends[j] \/ (ends[f] = ends[j] /\ f <= j)
    OBVIOUS
  <2>1. ends[f] <= ends[j] /\ ends[f] \in Int /\ ends[j] \in Int BY <1>3, <1>5, <1>6
  <2>2. ends[f] = ends[j] => j \in F BY <1>6
  <2>. QED BY <2>1, <2>2, <1>6
<1>8. DOMAIN ends = D /\ f \in D BY <1>6
<1>. HIDE DEF f, D, F
<1>9. \E k \in DOMAIN ends : \A j \in DOMAIN ends : ends[k] < ends[j] \/ (ends[k] = ends[j] /\ k <= j)
  BY <1>7, <1>8
<1>. DEFINE first == CHOOSE k \in DOMAIN ends : \A j \in DOMAIN ends :
                       ends[k] < ends[j] \/ (ends[k] = ends[j] /\ k <= j)
<1>10. first \in D /\ \A j \in D : ends[first] < ends[j] \/ (ends[first] = ends[j] /\ first <= j)
  BY <1>8, <1>9, Zenon
<1>. HIDE DEF first
<1>11. first \in D /\ \A j \in D : ends[first] <= ends[j] BY <1>5, <1>10
<1>. QED BY <1>11 DEF first, D

LEMMA UpTo ==
    ASSUME NEW n \in Nat
    PROVE  IsFiniteSet(1 .. n) /\ IsFiniteSet(0 .. n - 1) /\ Cardinality(0 .. n) = n + 1 /\ Cardinality(0 .. n - 1) = n
BY FS_Interval

(* Lane l now ends with a span that ends at e.                             *)
Continued(new, old, l, e) == new = [j \in DOMAIN old \cup {l} |-> IF j = l THEN e ELSE old[j]]

(* Another span, in the lane that is free first or in a new one.           *)
LEMMA PackStep ==
    ASSUME NEW n \in Nat, NEW q, \A i \in 1 .. n : q[i].begin \in Int /\ q[i].end \in Int,
           \A i, j \in 1 .. n : i < j => q[i].begin <= q[j].begin, DOMAIN q = 1 .. n,
           NEW k \in 1 .. n, NEW V \in SUBSET (1 .. k - 1), NEW lane, NEW ends, NEW m \in Nat,
           LanesOf(q, lane, ends, m, V), Forward(q) => Packed(q, lane, ends, m, V),
           NEW lane2, \A i \in V : lane2[i] = lane[i], NEW l, lane2[k] = l,
           NEW ends2, Continued(ends2, ends, l, q[k].end),
           \/ l \in 0 .. m - 1 /\ ends[l] < q[k].begin
           \/ l = m /\ \A j \in 0 .. m - 1 : q[k].begin <= ends[j]
    PROVE  Packing(q, lane2, ends2, V \cup {k})
<1>. DEFINE W == V \cup {k}
            m2 == IF l = m THEN m + 1 ELSE m
<1>0. /\ ends \in [0 .. m - 1 -> Int]
      /\ \A j \in V : lane[j] \in 0 .. m - 1
      /\ \A i \in 0 .. m - 1 : \E j \in V : lane[j] = i /\ q[j].end = ends[i]
  BY DEF LanesOf
<1>1. m2 \in Nat /\ l \in 0 .. m2 - 1 /\ m <= m2 /\ (0 .. m - 1) \cup {l} = 0 .. m2 - 1 OBVIOUS
<1>2. /\ \A i \in V : i \in 1 .. n /\ i < k
      /\ k \notin V /\ W \in SUBSET (1 .. n)
  <2>1. \A i \in 1 .. k - 1 : i \in 1 .. n /\ i < k /\ i # k OBVIOUS
  <2>. QED BY <2>1
<1>3. /\ ends2 \in [0 .. m2 - 1 -> Int]
      /\ ends2[l] = q[k].end
      /\ \A j \in 0 .. m - 1 : j # l => ends2[j] = ends[j]
  <2>1. /\ DOMAIN ends2 = 0 .. m2 - 1 /\ ends2[l] = q[k].end
        /\ \A j \in 0 .. m - 1 : j # l => ends2[j] = ends[j]
        /\ ends2 = [j \in DOMAIN ends2 |-> ends2[j]]
    <3>1. DOMAIN ends \cup {l} = 0 .. m2 - 1 BY <1>0, <1>1
    <3>. HIDE DEF m2
    <3>. QED BY <3>1, <1>0 DEF Continued
  <2>. HIDE DEF m2
  <2>2. \A j \in 0 .. m2 - 1 : ends2[j] \in Int BY <1>0, <1>1, <2>1
  <2>. QED BY <2>1, <2>2
<1>. HIDE DEF m2
<1>4. LanesOf(q, lane2, ends2, m2, W)
  <2>1. \A j \in W : lane2[j] \in 0 .. m2 - 1 BY <1>0, <1>1
  <2>2. ASSUME NEW i \in 0 .. m2 - 1 PROVE \E j \in W : lane2[j] = i /\ q[j].end = ends2[i]
    <3>1. CASE i = l BY <3>1, <1>3
    <3>2. CASE i # l
      <4>1. i \in 0 .. m - 1 BY <3>2, <1>1
      <4>2. PICK j \in V : lane[j] = i /\ q[j].end = ends[i] BY <4>1, <1>0
      <4>3. lane2[j] = i /\ j \in W /\ q[j].end = ends2[i] BY <4>1, <4>2, <3>2, <1>3
      <4>. QED BY <4>3
    <3>. QED BY <3>1, <3>2
  <2>. QED BY <1>3, <2>1, <2>2 DEF LanesOf
<1>5. ASSUME Forward(q) PROVE Packed(q, lane2, ends2, m2, W)
  <2>0. /\ \A j \in V : q[j].end <= ends[lane[j]]
        /\ \A i, j \in V : i < j /\ lane[i] = lane[j] => q[i].end < q[j].begin
        /\ m = 0 \/ \E j \in V : m <= Cardinality(Under(q, V, j))
    BY <1>5 DEF Packed
  <2>1. q[k].begin <= q[k].end BY <1>5 DEF Forward
  <2>2. ASSUME NEW j \in V, lane2[j] = l PROVE q[j].end < q[k].begin
    <3>1. lane[j] = l /\ l \in 0 .. m - 1 BY <2>2, <1>0
    <3>2. ends[l] < q[k].begin BY <3>1
    <3>3. q[j].end <= ends[l] /\ ends[l] \in Int BY <3>1, <2>0, <1>0
    <3>. QED BY <3>2, <3>3, <1>2
  <2>3. ASSUME NEW j \in W PROVE q[j].end <= ends2[lane2[j]]
    <3>1. CASE j = k BY <3>1, <1>3
    <3>2. CASE j \in V /\ lane2[j] = l
      <4>1. q[j].end < q[k].begin /\ ends2[lane2[j]] = q[k].end BY <3>2, <2>2, <1>3
      <4>. QED BY <4>1, <2>1, <1>2
    <3>3. CASE j \in V /\ lane2[j] # l
      <4>1. lane2[j] = lane[j] /\ lane[j] \in 0 .. m - 1 BY <3>3, <1>0
      <4>2. ends2[lane2[j]] = ends[lane[j]] BY <4>1, <3>3, <1>3
      <4>. QED BY <4>2, <3>3, <2>0
    <3>. QED BY <3>1, <3>2, <3>3
  <2>4. ASSUME NEW i \in W, NEW j \in W, i < j, lane2[i] = lane2[j] PROVE q[i].end < q[j].begin
    <3>1. CASE j = k
      <4>1. i \in V BY <3>1, <2>4
      <4>. QED BY <3>1, <4>1, <2>2, <2>4
    <3>2. CASE j \in V
      <4>1. i \in V BY <3>2, <2>4, <1>2
      <4>. QED BY <3>2, <4>1, <2>0, <2>4
    <3>. QED BY <3>1, <3>2
  <2>5. m2 = 0 \/ \E j \in W : m2 <= Cardinality(Under(q, W, j))
    <3>0. ASSUME NEW j \in W PROVE IsFiniteSet(Under(q, W, j)) /\ Cardinality(Under(q, W, j)) \in Nat
      <4>1. Under(q, W, j) \in SUBSET (1 .. n) BY <1>2 DEF Under
      <4>2. IsFiniteSet(1 .. n) BY UpTo, Zenon
      <4>3. IsFiniteSet(Under(q, W, j)) BY <4>1, <4>2, FS_Subset
      <4>. QED BY <4>3, FS_CardinalityType
    <3>1. CASE l # m
      <4>1. m2 = m /\ m # 0 BY <3>1, <1>1 DEF m2
      <4>2. PICK j \in V : m <= Cardinality(Under(q, V, j)) BY <4>1, <2>0
      <4>3. Under(q, V, j) \in SUBSET Under(q, W, j) BY DEF Under
      <4>4. IsFiniteSet(Under(q, W, j)) /\ Cardinality(Under(q, W, j)) \in Nat BY <3>0
      <4>5. Cardinality(Under(q, V, j)) <= Cardinality(Under(q, W, j)) /\ IsFiniteSet(Under(q, V, j))
        BY <4>3, <4>4, FS_Subset
      <4>6. Cardinality(Under(q, V, j)) \in Nat BY <4>5, FS_CardinalityType
      <4>7. m <= Cardinality(Under(q, W, j)) BY <4>2, <4>4, <4>5, <4>6
      <4>. QED BY <4>1, <4>7
    <3>2. CASE l = m
      <4>1. m2 = m + 1 BY <3>2 DEF m2
      <4>. DEFINE X == Under(q, W, k)
                  f == [y \in X |-> lane2[y]]
      <4>2. k \in X BY <2>1 DEF Under
      <4>3. ASSUME NEW i \in 0 .. m - 1 PROVE \E y \in X : lane2[y] = i
        <5>1. PICK y \in V : lane[y] = i /\ q[y].end = ends[i] BY <1>0
        <5>2. q[y].begin <= q[k].begin BY <1>2
        <5>3. q[k].begin <= q[y].end BY <5>1, <3>2, <1>1
        <5>. QED BY <5>1, <5>2, <5>3 DEF Under
      <4>4. X \subseteq W BY DEF Under
      <4>. HIDE DEF X
      <4>5. f \in Surjection(X, 0 .. m)
        <5>1. \A y \in X : lane2[y] \in 0 .. m
          <6>1. \A j \in W : lane2[j] \in 0 .. m2 - 1 BY <1>4 DEF LanesOf
          <6>. QED BY <6>1, <4>1, <4>4
        <5>2. \A i \in 0 .. m : \E y \in X : lane2[y] = i
          <6>1. \A i \in 0 .. m : i = m \/ i \in 0 .. m - 1 OBVIOUS
          <6>. QED BY <6>1, <4>2, <4>3, <3>2
        <5>. QED BY <5>1, <5>2 DEF Surjection
      <4>. HIDE DEF f
      <4>6. IsFiniteSet(X) /\ Cardinality(X) \in Nat BY <3>0 DEF X
      <4>7. Cardinality(0 .. m) <= Cardinality(X) BY <4>5, <4>6, FS_Surjection
      <4>8. Cardinality(0 .. m) = m + 1 BY UpTo, Zenon
      <4>. QED BY <4>1, <4>7, <4>8 DEF X
    <3>. QED BY <3>1, <3>2
  <2>. QED BY <2>3, <2>4, <2>5 DEF Packed
<1>. QED BY <1>1, <1>4, <1>5 DEF Packing

(* One more span is visible or is not.                                     *)
LEMMA VisGrows ==
    ASSUME NEW t, NEW groups, NEW k \in Nat \ {0}
    PROVE  /\ Vis(t, groups, k) = Vis(t, groups, k - 1) \cup (IF SpanVisible(t, t.spans[k], groups) THEN {k} ELSE {})
           /\ Vis(t, groups, k - 1) \in SUBSET (1 .. k - 1)
           /\ IsFiniteSet(Vis(t, groups, k - 1))
           /\ Cardinality(Vis(t, groups, k)) = Cardinality(Vis(t, groups, k - 1))
                                               + (IF SpanVisible(t, t.spans[k], groups) THEN 1 ELSE 0)
<1>. DEFINE V == Vis(t, groups, k - 1)
            drawn == SpanVisible(t, t.spans[k], groups)
<1>1. V \in SUBSET (1 .. k - 1) BY DEF Vis
<1>2. 1 .. k = (1 .. k - 1) \cup {k} /\ k \notin 1 .. k - 1 /\ k - 1 \in Nat OBVIOUS
<1>3. Vis(t, groups, k) = V \cup (IF drawn THEN {k} ELSE {}) BY <1>2 DEF Vis
<1>4. IsFiniteSet(V)
  <2>1. IsFiniteSet(1 .. k - 1) BY <1>2, UpTo, Zenon
  <2>. QED BY <1>1, <2>1, FS_Subset, Zenon
<1>5. k \notin V BY <1>1, <1>2
<1>6. Cardinality(V) \in Nat BY <1>4, FS_CardinalityType
<1>. HIDE DEF V, drawn
<1>7. CASE drawn
  <2>1. Vis(t, groups, k) = V \cup {k} BY <1>3, <1>7
  <2>2. Cardinality(V \cup {k}) = Cardinality(V) + 1 BY <1>4, <1>5, FS_AddElement
  <2>. QED BY <1>1, <1>4, <1>7, <2>1, <2>2 DEF V, drawn
<1>8. CASE ~drawn
  <2>1. Vis(t, groups, k) = V BY <1>3, <1>8
  <2>. QED BY <1>1, <1>4, <1>6, <1>8, <2>1 DEF V, drawn
<1>. QED BY <1>7, <1>8

(* Appending adds one element.                                             *)
LEMMA AppendedRange ==
    ASSUME NEW S, NEW s \in Seq(S), NEW x \in S
    PROVE  Range(Append(s, x)) = Range(s) \cup {x}
<1>1. /\ DOMAIN Append(s, x) = 1 .. Len(s) + 1 /\ DOMAIN s = 1 .. Len(s) /\ Len(s) \in Nat
      /\ Append(s, x)[Len(s) + 1] = x
      /\ \A i \in 1 .. Len(s) : Append(s, x)[i] = s[i]
  OBVIOUS
<1>2. 1 .. Len(s) + 1 = (1 .. Len(s)) \cup {Len(s) + 1} BY <1>1
<1>. QED BY <1>1, <1>2 DEF Range

(* One more span keeps the invariant.                                      *)
LEMMA PlaceLaid ==
    ASSUME NEW t, NEW groups, NEW n \in Nat, DOMAIN t.spans = 1 .. n, SpansSet(t),
           NEW k \in 1 .. n, NEW laid, LaidInv(t, groups, laid, k - 1)
    PROVE  LaidInv(t, groups, Place(t, groups, laid, k), k)
<1>. DEFINE q == t.spans
            V == Vis(t, groups, k - 1)
            span == laid.spans[k]
            vis == SpanVisible(t, q[k], groups)
            new == Place(t, groups, laid, k)
<1>1. /\ DOMAIN laid.spans = 1 .. n
      /\ \A i \in 1 .. n : SameSpan(laid.spans[i], q[i])
      /\ laid.visible \in Seq(Nat)
      /\ Range(laid.visible) = V
      /\ Len(laid.visible) = Cardinality(V)
  BY DEF LaidInv
<1>2. PICK K : laid.spans \in Seq(SpanSet(K)) BY DEF LaidInv
<1>3. PICK m \in Nat : /\ LanesOf(q, LaneOf(laid.spans), laid.ends, m, V)
                       /\ Forward(q) => Packed(q, LaneOf(laid.spans), laid.ends, m, V)
  BY DEF LaidInv, Packing
<1>4. k \in Nat \ {0} /\ k - 1 \in Nat OBVIOUS
<1>5. /\ Vis(t, groups, k) = V \cup (IF vis THEN {k} ELSE {})
      /\ V \in SUBSET (1 .. k - 1)
      /\ IsFiniteSet(V)
      /\ Cardinality(Vis(t, groups, k)) = Cardinality(V) + (IF vis THEN 1 ELSE 0)
  BY <1>4, VisGrows
<1>6. Cardinality(V) \in Nat BY <1>5, FS_CardinalityType
<1>7. SpanVisible(t, span, groups) <=> vis
  BY <1>1 DEF SpanVisible, SameSpan
<1>8. CASE ~vis
  <2>1. new = laid BY <1>7, <1>8 DEF Place
  <2>2. Vis(t, groups, k) = V /\ Cardinality(Vis(t, groups, k)) = Cardinality(V) BY <1>5, <1>6, <1>8
  <2>. HIDE DEF new, V
  <2>3. LaidInv(t, groups, laid, k)
    <3>1. \E X : laid.spans \in Seq(SpanSet(X)) BY <1>2
    <3>2. Packing(q, LaneOf(laid.spans), laid.ends, Vis(t, groups, k)) BY <1>3, <2>2 DEF Packing
    <3>. QED BY <3>1, <3>2, <2>2, <1>1 DEF LaidInv
  <2>. QED BY <2>1, <2>3 DEF new
<1>9. CASE vis
  <2>. DEFINE lanes == DOMAIN laid.ends
              first == CHOOSE l \in lanes : \A j \in lanes :
                          laid.ends[l] < laid.ends[j] \/ (laid.ends[l] = laid.ends[j] /\ l <= j)
              lane == IF lanes # {} /\ Free(laid.ends[first], span.begin) THEN first ELSE Cardinality(lanes)
  <2>1. new = [spans   |-> [laid.spans EXCEPT ![k].lane = lane],
               ends    |-> [l \in lanes \cup {lane} |-> IF l = lane THEN span.end ELSE laid.ends[l]],
               visible |-> Append(laid.visible, k)]
    BY <1>7, <1>9, Zenon DEF Place
  <2>2. laid.ends \in [0 .. m - 1 -> Int] BY <1>3 DEF LanesOf
  <2>3. span.begin = q[k].begin /\ span.end = q[k].end BY <1>1 DEF SameSpan
  <2>4. \A i \in 1 .. n : laid.spans[i] \in SpanSet(K) BY <1>1, <1>2
  <2>5. \A i \in 1 .. n : q[i].begin \in Int /\ q[i].end \in Int
    BY <1>1, <2>4 DEF SameSpan, SpanSet
  <2>6. lanes = 0 .. m - 1 /\ Cardinality(lanes) = m
    <3>1. lanes = 0 .. m - 1 BY <2>2
    <3>. QED BY <3>1, UpTo
  <2>7. \/ lane \in 0 .. m - 1 /\ laid.ends[lane] < q[k].begin
        \/ lane = m /\ \A j \in 0 .. m - 1 : q[k].begin <= laid.ends[j]
    <3>1. CASE m = 0
      <4>1. lanes = {} BY <2>6, <3>1
      <4>2. lane = m /\ \A j \in 0 .. m - 1 : FALSE BY <4>1, <2>6, <3>1
      <4>. HIDE DEF lane
      <4>. QED BY <4>2
    <3>2. CASE m # 0
      <4>1. lanes # {}
        <5>1. 0 \in 0 .. m - 1 BY <3>2
        <5>. HIDE DEF lanes
        <5>. QED BY <5>1, <2>6
      <4>2. first \in 0 .. m - 1 /\ \A j \in 0 .. m - 1 : laid.ends[first] <= laid.ends[j]
        BY <2>2, <3>2, FirstLane, Zenon
      <4>. HIDE DEF first, lanes
      <4>3. CASE Free(laid.ends[first], span.begin)
        <5>1. lane = first BY <4>1, <4>3
        <5>2. laid.ends[first] < q[k].begin BY <4>3, <2>3 DEF Free
        <5>. HIDE DEF lane
        <5>. QED BY <4>2, <5>1, <5>2
      <4>4. CASE ~Free(laid.ends[first], span.begin)
        <5>1. lane = m BY <4>1, <4>4, <2>6
        <5>2. ~(laid.ends[first] < q[k].begin) BY <4>4, <2>3 DEF Free
        <5>3. \A j \in 0 .. m - 1 : laid.ends[j] \in Int BY <2>2
        <5>4. \A j \in 0 .. m - 1 : q[k].begin <= laid.ends[j] BY <4>2, <5>2, <5>3, <2>5
        <5>. HIDE DEF lane
        <5>. QED BY <5>1, <5>4
      <4>. QED BY <4>3, <4>4
    <3>. QED BY <3>1, <3>2
  <2>. HIDE DEF lane, first, lanes
  <2>8. lane \in Nat BY <2>7
  <2>9. /\ new.spans = [laid.spans EXCEPT ![k].lane = lane]
        /\ new.ends = [l \in lanes \cup {lane} |-> IF l = lane THEN q[k].end ELSE laid.ends[l]]
        /\ new.visible = Append(laid.visible, k)
    BY <2>1, <2>3
  <2>. HIDE DEF new, span
  <2>10. laid.spans[k] \in SpanSet(K) BY <2>4
  <2>11. /\ DOMAIN new.spans = 1 .. n
         /\ new.spans[k] = [laid.spans[k] EXCEPT !.lane = lane]
         /\ \A i \in 1 .. n : i # k => new.spans[i] = laid.spans[i]
    BY <2>9, <1>1
  <2>12. new.spans[k] \in SpanSet(K) /\ new.spans[k].lane = lane /\ SameSpan(new.spans[k], laid.spans[k])
    BY <2>8, <2>10, <2>11 DEF SpanSet, SameSpan
  <2>13. new.spans \in Seq(SpanSet(K))
    <3>1. \A i \in 1 .. n : new.spans[i] \in SpanSet(K) BY <2>4, <2>11, <2>12
    <3>2. new.spans = [i \in 1 .. n |-> new.spans[i]] BY <2>9, <1>1
    <3>. QED BY <3>1, <3>2
  <2>14. \A i \in 1 .. n : SameSpan(new.spans[i], q[i])
    <3>1. SameSpan(new.spans[k], q[k])
      <4>1. SameSpan(new.spans[k], laid.spans[k]) /\ SameSpan(laid.spans[k], q[k]) BY <2>12, <1>1
      <4>. QED BY <4>1, Zenon DEF SameSpan
    <3>. QED BY <3>1, <1>1, <2>11
  <2>15. Vis(t, groups, k) = V \cup {k} /\ Cardinality(Vis(t, groups, k)) = Cardinality(V) + 1 BY <1>5, <1>9
  <2>16. /\ new.visible \in Seq(Nat)
         /\ Range(new.visible) = V \cup {k}
         /\ Len(new.visible) = Cardinality(V) + 1
    <3>. HIDE DEF V
    <3>1. new.visible \in Seq(Nat) /\ Len(new.visible) = Cardinality(V) + 1 BY <1>1, <1>4, <2>9
    <3>2. Range(Append(laid.visible, k)) = Range(laid.visible) \cup {k}
      BY <1>1, <1>4, AppendedRange
    <3>. QED BY <3>1, <3>2, <2>9, <1>1
  <2>17. Packing(q, LaneOf(new.spans), new.ends, V \cup {k})
    <3>1. \A i, j \in 1 .. n : i < j => q[i].begin <= q[j].begin BY DEF SpansSet
    <3>2. LaneOf(new.spans)[k] = lane BY <2>11, <2>12 DEF LaneOf
    <3>3. \A i \in V : LaneOf(new.spans)[i] = LaneOf(laid.spans)[i]
      <4>1. \A i \in V : i \in 1 .. n /\ i # k
        <5>1. \A i \in 1 .. k - 1 : i \in 1 .. n /\ i # k OBVIOUS
        <5>. QED BY <5>1, <1>5
      <4>. QED BY <4>1, <2>11, <1>1 DEF LaneOf
    <3>4. new.ends = [j \in DOMAIN laid.ends \cup {lane} |-> IF j = lane THEN q[k].end ELSE laid.ends[j]]
      BY <2>9 DEF lanes
    <3>. HIDE DEF V
    <3>. DEFINE lane1 == LaneOf(laid.spans)
                lane2 == LaneOf(new.spans)
                ends1 == laid.ends
                ends2 == new.ends
    <3>5. /\ DOMAIN q = 1 .. n /\ V \in SUBSET (1 .. k - 1)
          /\ LanesOf(q, lane1, ends1, m, V)
          /\ Forward(q) => Packed(q, lane1, ends1, m, V)
      BY <1>3, <1>5
    <3>6. /\ \A i \in V : lane2[i] = lane1[i]
          /\ lane2[k] = lane
          /\ Continued(ends2, ends1, lane, q[k].end)
      BY <3>2, <3>3, <3>4 DEF Continued
    <3>7. \/ lane \in 0 .. m - 1 /\ ends1[lane] < q[k].begin
          \/ lane = m /\ \A j \in 0 .. m - 1 : q[k].begin <= ends1[j]
      BY <2>7
    <3>. HIDE DEF lane1, lane2, ends1, ends2, q
    <3>8. Packing(q, lane2, ends2, V \cup {k})
      BY <3>1, <3>5, <3>6, <3>7, <2>5, PackStep
    <3>. QED BY <3>8 DEF lane2, ends2
  <2>. HIDE DEF V
  <2>18. \E X : new.spans \in Seq(SpanSet(X)) BY <2>13
  <2>19. LaidInv(t, groups, new, k)
    BY <2>11, <2>14, <2>15, <2>16, <2>17, <2>18 DEF LaidInv
  <2>. QED BY <2>19 DEF new
<1>. QED BY <1>8, <1>9

(* Laying out places every span.                                           *)
LEMMA AllLaid ==
    ASSUME NEW t, NEW groups, NEW n \in Nat, DOMAIN t.spans = 1 .. n, SpansSet(t)
    PROVE  LaidInv(t, groups, Laid(t, groups), n)
<1>1. PICK h : /\ h[0] = Unlaid(t)
               /\ \A k \in 1 .. n : h[k] = Place(t, groups, h[k - 1], k)
               /\ h[n] = Laid(t, groups)
  BY LaidStepwise
<1>2. LaidInv(t, groups, h[0], 0)
  <2>1. /\ h[0].spans = t.spans /\ h[0].visible = <<>> /\ h[0].ends = [k \in {} |-> 0]
    BY <1>1 DEF Unlaid
  <2>2. Vis(t, groups, 0) = {}
    <3>1. 1 .. 0 = {} OBVIOUS
    <3>. QED BY <3>1, Zenon DEF Vis
  <2>3. \E K : h[0].spans \in Seq(SpanSet(K)) BY <2>1 DEF SpansSet
  <2>4. /\ h[0].visible \in Seq(Nat) /\ Range(h[0].visible) = {} /\ Len(h[0].visible) = 0
    BY <2>1 DEF Range
  <2>5. Packing(t.spans, LaneOf(h[0].spans), h[0].ends, {})
    <3>1. 0 .. 0 - 1 = {} OBVIOUS
    <3>2. h[0].ends \in [0 .. 0 - 1 -> Int] BY <2>1, <3>1
    <3>3. LanesOf(t.spans, LaneOf(h[0].spans), h[0].ends, 0, {}) BY <3>1, <3>2 DEF LanesOf
    <3>4. Packed(t.spans, LaneOf(h[0].spans), h[0].ends, 0, {}) BY DEF Packed
    <3>. QED BY <3>3, <3>4 DEF Packing
  <2>6. Cardinality({}) = 0 BY FS_EmptySet
  <2>7. \A i \in DOMAIN t.spans : SameSpan(h[0].spans[i], t.spans[i]) BY <2>1, Zenon DEF SameSpan
  <2>8. DOMAIN h[0].spans = DOMAIN t.spans BY <2>1
  <2>. QED BY <2>2, <2>3, <2>4, <2>5, <2>6, <2>7, <2>8 DEF LaidInv
<1>. DEFINE Bad == {k \in 0 .. n : ~LaidInv(t, groups, h[k], k)}
<1>3. Bad = {}
  <2>. SUFFICES ASSUME Bad # {} PROVE FALSE
    OBVIOUS
  <2>. DEFINE m == Min(Bad)
  <2>1. m \in Bad /\ \A k \in Bad : m <= k
    <3>1. Bad \in SUBSET Nat OBVIOUS
    <3>. HIDE DEF Bad
    <3>. QED BY <3>1, MinExists, Zenon
  <2>. HIDE DEF m
  <2>2. m # 0 BY <2>1, <1>2
  <2>3. m \in 1 .. n /\ m - 1 \in 0 .. n /\ ~(m <= m - 1) BY <2>1, <2>2
  <2>4. m - 1 \notin Bad
    <3>. HIDE DEF Bad
    <3>. QED BY <2>1, <2>3
  <2>5. LaidInv(t, groups, h[m - 1], m - 1) BY <2>3, <2>4, Zenon
  <2>6. LaidInv(t, groups, Place(t, groups, h[m - 1], m), m) BY <2>3, <2>5, PlaceLaid
  <2>. QED BY <2>1, <2>3, <2>6, <1>1, Zenon
<1>4. n \in 0 .. n OBVIOUS
<1>5. LaidInv(t, groups, h[n], n) BY <1>3, <1>4, Zenon
<1>. QED BY <1>1, <1>5

-----------------------------------------------------------------------------
(* What a track that is laid out shows.                                    *)
Visible(t, groups) == {i \in DOMAIN t.spans : SpanVisible(t, t.spans[i], groups)}
LayoutInv(t, groups) ==
    /\ Range(t.visible) = Visible(t, groups)
    /\ Len(t.visible) = Cardinality(Visible(t, groups))
    /\ t.lanes \in Nat
    /\ \E ends : /\ LanesOf(t.spans, LaneOf(t.spans), ends, t.lanes, Visible(t, groups))
                 /\ Forward(t.spans) => Packed(t.spans, LaneOf(t.spans), ends, t.lanes, Visible(t, groups))

(* The layout lays one span after another.                                 *)
LEMMA LayoutLays ==
    ASSUME NEW t, TrackInv(t), NEW groups
    PROVE  TrackInv(Layout(t, groups)) /\ LayoutInv(Layout(t, groups), groups)
<1>. DEFINE laid == Laid(t, groups)
            r == Layout(t, groups)
<1>1. PICK K : t.spans \in Seq(SpanSet(K)) BY DEF TrackInv, SpansSet
<1>2. PICK n \in Nat : DOMAIN t.spans = 1 .. n BY <1>1
<1>3. LaidInv(t, groups, laid, n) BY <1>2, AllLaid DEF TrackInv
<1>4. /\ r.se = t.se /\ r.dispatches = t.dispatches /\ r.events = t.events
      /\ r.spans = laid.spans /\ r.visible = laid.visible /\ r.lanes = Cardinality(DOMAIN laid.ends)
      /\ TrackShape(r)
  <2>1. TrackShape(t) BY DEF TrackInv
  <2>2. r = [t EXCEPT !.spans = laid.spans, !.visible = laid.visible, !.lanes = Cardinality(DOMAIN laid.ends)]
    BY LayoutIsLaid
  <2>. HIDE DEF r, laid
  <2>3. r = [se |-> t.se, dispatches |-> t.dispatches, events |-> t.events, spans |-> laid.spans,
             visible |-> laid.visible, lanes |-> Cardinality(DOMAIN laid.ends)]
    BY <2>1, <2>2 DEF TrackShape
  <2>. QED BY <2>3 DEF TrackShape
<1>. HIDE DEF r, laid
<1>5. /\ DOMAIN r.spans = 1 .. n
      /\ \A i \in 1 .. n : SameSpan(r.spans[i], t.spans[i])
      /\ \E X : r.spans \in Seq(SpanSet(X))
  BY <1>2, <1>3, <1>4 DEF LaidInv
<1>6. SpansSet(r)
  <2>1. \A i, j \in 1 .. n : i < j => t.spans[i].begin <= t.spans[j].begin
    BY <1>2 DEF TrackInv, SpansSet
  <2>2. \A i, j \in 1 .. n : i < j => r.spans[i].begin <= r.spans[j].begin
    BY <2>1, <1>5 DEF SameSpan
  <2>. QED BY <2>2, <1>5 DEF SpansSet
<1>7. SpansComplete(r)
  <2>1. \A i \in 1 .. n : r.spans[i].kind = t.spans[i].kind /\ r.spans[i].index = t.spans[i].index
                         /\ r.spans[i].begin = t.spans[i].begin /\ r.spans[i].end = t.spans[i].end
    BY <1>5 DEF SameSpan
  <2>2. SpansComplete(t) BY DEF TrackInv
  <2>3. \A i \in 1 .. n : Describes(r.dispatches, r.events, r.spans[i])
    <3>1. \A i \in 1 .. n : Describes(t.dispatches, t.events, t.spans[i]) BY <2>2, <1>2 DEF SpansComplete
    <3>. QED BY <3>1, <2>1, <1>4 DEF Describes
  <2>4. \A i, j \in 1 .. n : r.spans[i].kind = r.spans[j].kind /\ r.spans[i].index = r.spans[j].index => i = j
    BY <2>1, <2>2, <1>2 DEF SpansComplete
  <2>5. \A x \in DOMAIN r.dispatches : \E i \in 1 .. n : r.spans[i].kind = "dispatch" /\ r.spans[i].index = x
    BY <2>1, <2>2, <1>2, <1>4 DEF SpansComplete
  <2>6. \A x \in DOMAIN r.events \ Consumed(r.dispatches, r.events) :
           \E i \in 1 .. n : r.spans[i].kind = "event" /\ r.spans[i].index = x
    BY <2>1, <2>2, <1>2, <1>4 DEF SpansComplete
  <2>. QED BY <2>3, <2>4, <2>5, <2>6, <1>5 DEF SpansComplete
<1>8. TrackInv(r) BY <1>4, <1>6, <1>7 DEF TrackInv
<1>9. Visible(r, groups) = Vis(t, groups, n)
  <2>1. \A i \in 1 .. n : SpanVisible(r, r.spans[i], groups) <=> SpanVisible(t, t.spans[i], groups)
    BY <1>4, <1>5 DEF SpanVisible, SameSpan
  <2>. QED BY <2>1, <1>5 DEF Visible, Vis
<1>. DEFINE V == Vis(t, groups, n)
<1>10. PICK m \in Nat : /\ LanesOf(t.spans, LaneOf(laid.spans), laid.ends, m, V)
                        /\ Forward(t.spans) => Packed(t.spans, LaneOf(laid.spans), laid.ends, m, V)
  BY <1>3 DEF LaidInv, Packing
<1>11. r.lanes = m
  <2>1. DOMAIN laid.ends = 0 .. m - 1 BY <1>10 DEF LanesOf
  <2>. QED BY <2>1, <1>4, UpTo
<1>12. V \in SUBSET (1 .. n) BY DEF Vis
<1>. HIDE DEF V
<1>13. /\ \A j \in V : r.spans[j].begin = t.spans[j].begin /\ r.spans[j].end = t.spans[j].end
       /\ \A j \in 1 .. n : r.spans[j].begin = t.spans[j].begin /\ r.spans[j].end = t.spans[j].end
  BY <1>5, <1>12 DEF SameSpan
<1>14. LanesOf(r.spans, LaneOf(r.spans), laid.ends, m, V)
  BY <1>10, <1>13, <1>4 DEF LanesOf
<1>15. Forward(r.spans) => Packed(r.spans, LaneOf(r.spans), laid.ends, m, V)
  <2>1. Forward(r.spans) => Forward(t.spans) BY <1>2, <1>5, <1>13 DEF Forward
  <2>2. \A j \in V : Under(r.spans, V, j) = Under(t.spans, V, j) BY <1>13 DEF Under
  <2>3. ASSUME Packed(t.spans, LaneOf(laid.spans), laid.ends, m, V)
        PROVE  Packed(r.spans, LaneOf(r.spans), laid.ends, m, V)
    BY <2>2, <2>3, <1>13, <1>4 DEF Packed
  <2>. QED BY <2>1, <2>3, <1>10
<1>16. LayoutInv(r, groups)
  <2>1. Range(r.visible) = V /\ Len(r.visible) = Cardinality(V) BY <1>3, <1>4 DEF LaidInv, V
  <2>2. Visible(r, groups) = V BY <1>9 DEF V
  <2>. QED BY <2>1, <2>2, <1>11, <1>14, <1>15 DEF LayoutInv
<1>. QED BY <1>8, <1>16 DEF r

-----------------------------------------------------------------------------
(* The spans of an engine's dispatches and events.                         *)
LEMMA TimedFacts ==
    ASSUME NEW s, Timed(s)
    PROVE  /\ Len(s) \in Nat /\ DOMAIN s = 1 .. Len(s) /\ DOMAIN s \in SUBSET Nat /\ IsFiniteSet(DOMAIN s)
           /\ \A i \in DOMAIN s : s[i].time \in Int /\ s[i].me \in Int
<1>1. Len(s) \in Nat /\ DOMAIN s = 1 .. Len(s) BY DEF Timed
<1>2. IsFiniteSet(1 .. Len(s)) BY <1>1, UpTo, Zenon
<1>. QED BY <1>1, <1>2 DEF Timed

LEMMA EndTimed ==
    ASSUME NEW d, NEW es, Timed(es), d.time \in Int
    PROVE  /\ Ends(d, es) \in SUBSET DOMAIN es
           /\ Ends(d, es) # {} => Min(Ends(d, es)) \in Ends(d, es)
           /\ DispatchEnd(d, es) \in Int
<1>1. Ends(d, es) \in SUBSET DOMAIN es BY DEF Ends
<1>2. Ends(d, es) \in SUBSET Nat BY <1>1, TimedFacts
<1>3. Ends(d, es) # {} => Min(Ends(d, es)) \in Ends(d, es) BY <1>2, MinExists, Zenon
<1>4. DispatchEnd(d, es) \in Int BY <1>1, <1>3, TimedFacts DEF DispatchEnd
<1>. QED BY <1>1, <1>3, <1>4

LEMMA SpansBuilt ==
    ASSUME NEW ds, Timed(ds), NEW es, Timed(es), NEW r, NEW q, q = Spans(ds, es, r)
    PROVE  /\ \E K : q \in Seq(SpanSet(K))
           /\ \A i, j \in DOMAIN q : i < j => q[i].begin <= q[j].begin
           /\ \A i \in DOMAIN q : Describes(ds, es, q[i])
           /\ \A i, j \in DOMAIN q : q[i].kind = q[j].kind /\ q[i].index = q[j].index => i = j
           /\ \A x \in DOMAIN ds : \E i \in DOMAIN q : q[i].kind = "dispatch" /\ q[i].index = x
           /\ \A x \in DOMAIN es \ Consumed(ds, es) :
                 \E i \in DOMAIN q : q[i].kind = "event" /\ q[i].index = x
<1>. DEFINE K == {r.pcs[ds[i].entry_point] : i \in DOMAIN ds} \cup {-1}
            DSpan(i) == [kind |-> "dispatch", index |-> i, begin |-> ds[i].time, end |-> DispatchEnd(ds[i], es),
                         kid |-> r.pcs[ds[i].entry_point], lane |-> 0]
            ESpan(i) == [kind |-> "event", index |-> i, begin |-> es[i].time, end |-> es[i].time,
                         kid |-> -1, lane |-> 0]
            P == DOMAIN es \ Consumed(ds, es)
            points == Ranked([i \in DOMAIN es |-> i], P)
            d == [i \in DOMAIN ds |-> DSpan(i)]
            e == [i \in DOMAIN points |-> ESpan(points[i])]
            s == d \o e
            key == [i \in DOMAIN s |-> s[i].begin]
<1>1. q = Arranged(s, key, DOMAIN s)
  BY Zenon DEF Spans, SortedBy, Mapped, DispatchEnd, Consumed
<1>2. /\ \A i \in DOMAIN ds : DSpan(i) \in SpanSet(K) /\ Describes(ds, es, DSpan(i))
      /\ \A i \in P : ESpan(i) \in SpanSet(K) /\ Describes(ds, es, ESpan(i))
  <2>1. ASSUME NEW i \in DOMAIN ds PROVE DSpan(i) \in SpanSet(K) /\ Describes(ds, es, DSpan(i))
    <3>1. i \in Nat /\ ds[i].time \in Int BY TimedFacts
    <3>2. DispatchEnd(ds[i], es) \in Int BY <3>1, EndTimed
    <3>3. r.pcs[ds[i].entry_point] \in K OBVIOUS
    <3>. HIDE DEF K
    <3>. QED BY <3>1, <3>2, <3>3 DEF SpanSet, Describes
  <2>2. ASSUME NEW i \in P PROVE ESpan(i) \in SpanSet(K) /\ Describes(ds, es, ESpan(i))
    <3>1. i \in Nat /\ es[i].time \in Int BY TimedFacts
    <3>2. -1 \in K OBVIOUS
    <3>. HIDE DEF K
    <3>. QED BY <3>1, <3>2 DEF SpanSet, Describes
  <2>. QED BY <2>1, <2>2
<1>3. PICK n \in Nat : /\ DOMAIN points = 1 .. n
                       /\ \A k \in 1 .. n : points[k] \in P
                       /\ \A i \in P : \E k \in 1 .. n : points[k] = i
                       /\ \A k1, k2 \in 1 .. n : k1 < k2 => points[k1] # points[k2]
  <2>1. P \in SUBSET Nat /\ IsFiniteSet(P)
    <3>1. P \in SUBSET DOMAIN es OBVIOUS
    <3>. QED BY <3>1, TimedFacts, FS_Subset
  <2>. DEFINE id == [i \in DOMAIN es |-> i]
  <2>2. \A i \in P : id[i] \in Int
    <3>1. \A i \in DOMAIN es : i \in Int BY TimedFacts
    <3>. QED BY <3>1
  <2>3. /\ Cardinality(P) \in Nat
        /\ DOMAIN points = 1 .. Cardinality(P)
        /\ \A k \in 1 .. Cardinality(P) : points[k] \in P
        /\ \A i \in P : \E k \in 1 .. Cardinality(P) : points[k] = i
        /\ \A k1, k2 \in 1 .. Cardinality(P) : k1 < k2 => Precedes(id, points[k1], points[k2])
    <3>. HIDE DEF P, id
    <3>. QED BY <2>1, <2>2, RanksInOrder DEF id
  <2>4. \A i \in P : ~Precedes(id, i, i)
    <3>1. \A i \in P : i \in Nat BY <2>1
    <3>. HIDE DEF P
    <3>. QED BY <2>2, <3>1 DEF Precedes
  <2>. HIDE DEF points, P, id
  <2>. QED BY <2>3, <2>4
<1>. HIDE DEF points, P
<1>. DEFINE nd == Len(ds)
<1>4. nd \in Nat /\ DOMAIN ds = 1 .. nd BY TimedFacts
<1>5. /\ d \in Seq(SpanSet(K)) /\ Len(d) = nd /\ \A i \in 1 .. nd : d[i] = DSpan(i)
      /\ e \in Seq(SpanSet(K)) /\ Len(e) = n /\ \A i \in 1 .. n : e[i] = ESpan(points[i])
  <2>. HIDE DEF K, DSpan, ESpan, nd
  <2>1. d \in [1 .. nd -> SpanSet(K)] /\ \A i \in 1 .. nd : d[i] = DSpan(i) BY <1>2, <1>4
  <2>2. e \in [1 .. n -> SpanSet(K)] /\ \A i \in 1 .. n : e[i] = ESpan(points[i]) BY <1>2, <1>3
  <2>. HIDE DEF d, e
  <2>. QED BY <2>1, <2>2, <1>4
<1>. HIDE DEF d, e, K, nd
<1>6. /\ s \in Seq(SpanSet(K)) /\ DOMAIN s = 1 .. nd + n
      /\ \A i \in 1 .. nd : i \in DOMAIN s /\ s[i] = DSpan(i)
      /\ \A i \in 1 .. n : nd + i \in DOMAIN s /\ s[nd + i] = ESpan(points[i])
  <2>. HIDE DEF DSpan, ESpan
  <2>1. s \in Seq(SpanSet(K)) /\ Len(s) = nd + n /\ DOMAIN s = 1 .. nd + n BY <1>4, <1>5
  <2>2. \A i \in 1 .. nd : s[i] = d[i] BY <1>4, <1>5
  <2>3. \A i \in 1 .. n : s[nd + i] = e[i]
    <3>. SUFFICES ASSUME NEW i \in 1 .. n PROVE s[nd + i] = e[i]
      OBVIOUS
    <3>1. nd + i \in 1 .. nd + n /\ nd + i > nd /\ (nd + i) - nd = i BY <1>4
    <3>. QED BY <3>1, <1>4, <1>5
  <2>4. \A i \in 1 .. n : nd + i \in 1 .. nd + n BY <1>4
  <2>5. \A i \in 1 .. nd : i \in 1 .. nd + n BY <1>4
  <2>. HIDE DEF s
  <2>. QED BY <2>1, <2>2, <2>3, <2>4, <2>5, <1>5
<1>. HIDE DEF s
<1>7. \A i \in DOMAIN s : i \in 1 .. nd \/ \E j \in 1 .. n : i = nd + j
  <2>. SUFFICES ASSUME NEW i \in DOMAIN s, i \notin 1 .. nd PROVE \E j \in 1 .. n : i = nd + j
    OBVIOUS
  <2>1. i - nd \in 1 .. n /\ i = nd + (i - nd) BY <1>4, <1>6
  <2>. QED BY <2>1
<1>20. \A i : DSpan(i).kind = "dispatch" /\ DSpan(i).index = i /\ ESpan(i).kind = "event" /\ ESpan(i).index = i
  OBVIOUS
<1>. HIDE DEF DSpan, ESpan
<1>8. ASSUME NEW i \in DOMAIN s PROVE s[i] \in SpanSet(K) /\ Describes(ds, es, s[i])
  <2>1. CASE i \in 1 .. nd
    <3>1. s[i] = DSpan(i) /\ i \in DOMAIN ds BY <2>1, <1>4, <1>6
    <3>. QED BY <3>1, <1>2
  <2>2. CASE \E j \in 1 .. n : i = nd + j
    <3>1. PICK j \in 1 .. n : i = nd + j BY <2>2
    <3>2. s[i] = ESpan(points[j]) /\ points[j] \in P BY <3>1, <1>3, <1>6
    <3>. QED BY <3>2, <1>2
  <2>. QED BY <2>1, <2>2, <1>7
<1>21. /\ \A i \in 1 .. nd : s[i].kind = "dispatch" /\ s[i].index = i
       /\ \A i \in 1 .. n : s[nd + i].kind = "event" /\ s[nd + i].index = points[i]
  BY <1>6, <1>20
<1>9. ASSUME NEW i \in DOMAIN s, NEW j \in DOMAIN s, s[i].kind = s[j].kind, s[i].index = s[j].index
      PROVE  i = j
  <2>1. CASE i \in 1 .. nd /\ j \in 1 .. nd BY <2>1, <1>21, <1>9
  <2>2. CASE i \in 1 .. nd /\ \E y \in 1 .. n : j = nd + y BY <2>2, <1>21, <1>9
  <2>3. CASE j \in 1 .. nd /\ \E y \in 1 .. n : i = nd + y BY <2>3, <1>21, <1>9
  <2>4. CASE (\E y \in 1 .. n : i = nd + y) /\ (\E y \in 1 .. n : j = nd + y)
    <3>1. PICK x \in 1 .. n, y \in 1 .. n : i = nd + x /\ j = nd + y BY <2>4
    <3>2. points[x] = points[y] BY <3>1, <1>21, <1>9
    <3>3. x = y BY <3>2, <1>3
    <3>. QED BY <3>1, <3>3
  <2>. QED BY <2>1, <2>2, <2>3, <2>4, <1>7
<1>10. /\ \A i \in DOMAIN s : key[i] \in Int /\ key[i] = s[i].begin
       /\ DOMAIN s \in SUBSET DOMAIN s
  BY <1>8 DEF SpanSet
<1>. HIDE DEF key
<1>11. /\ q \in Seq(SpanSet(K))
       /\ \A k \in DOMAIN q : \E i \in DOMAIN s : q[k] = s[i]
       /\ \A i \in DOMAIN s : \E k \in DOMAIN q : q[k] = s[i]
       /\ \A k1, k2 \in DOMAIN q : k1 < k2 =>
             \E i, j \in DOMAIN s : q[k1] = s[i] /\ q[k2] = s[j] /\ Precedes(key, i, j)
  <2>. DEFINE S == SpanSet(K)
              Places == DOMAIN s
  <2>1. s \in Seq(S) /\ Places \in SUBSET DOMAIN s /\ \A i \in Places : key[i] \in Int BY <1>6, <1>10
  <2>. HIDE DEF S, Places
  <2>2. /\ Arranged(s, key, Places) \in Seq(S)
        /\ \A k \in DOMAIN Arranged(s, key, Places) : \E i \in Places : Arranged(s, key, Places)[k] = s[i]
        /\ \A i \in Places : \E k \in DOMAIN Arranged(s, key, Places) : Arranged(s, key, Places)[k] = s[i]
        /\ \A k1, k2 \in DOMAIN Arranged(s, key, Places) : k1 < k2 =>
              \E i, j \in Places : /\ Arranged(s, key, Places)[k1] = s[i]
                             /\ Arranged(s, key, Places)[k2] = s[j]
                             /\ Precedes(key, i, j)
    BY <2>1, ArrangedInOrder
  <2>3. q = Arranged(s, key, Places) BY <1>1 DEF Places
  <2>. QED BY <2>2, <2>3 DEF S, Places
<1>12. \A i, j \in DOMAIN s : Precedes(key, i, j) => s[i].begin <= s[j].begin /\ i # j
  <2>1. \A i \in DOMAIN s : i \in Int BY <1>6
  <2>. QED BY <2>1, <1>10 DEF Precedes
<1>13. \A i, j \in DOMAIN q : i < j => q[i].begin <= q[j].begin BY <1>11, <1>12
<1>14. \A i, j \in DOMAIN q : i < j => ~(q[i].kind = q[j].kind /\ q[i].index = q[j].index)
  <2>. SUFFICES ASSUME NEW k1 \in DOMAIN q, NEW k2 \in DOMAIN q, k1 < k2
                PROVE  ~(q[k1].kind = q[k2].kind /\ q[k1].index = q[k2].index)
    OBVIOUS
  <2>1. PICK i \in DOMAIN s, j \in DOMAIN s : q[k1] = s[i] /\ q[k2] = s[j] /\ Precedes(key, i, j) BY <1>11
  <2>2. i # j BY <2>1, <1>12
  <2>. QED BY <2>1, <2>2, <1>9
<1>15. \A i, j \in DOMAIN q : q[i].kind = q[j].kind /\ q[i].index = q[j].index => i = j
  <2>1. \A i, j \in DOMAIN q : i < j \/ j < i \/ i = j BY <1>11
  <2>. QED BY <2>1, <1>14
<1>16. \A i \in DOMAIN q : Describes(ds, es, q[i]) BY <1>8, <1>11
<1>17. ASSUME NEW x \in DOMAIN ds PROVE \E i \in DOMAIN q : q[i].kind = "dispatch" /\ q[i].index = x
  <2>1. x \in DOMAIN s /\ s[x].kind = "dispatch" /\ s[x].index = x BY <1>4, <1>6, <1>21
  <2>. QED BY <2>1, <1>11
<1>18. ASSUME NEW x \in P PROVE \E i \in DOMAIN q : q[i].kind = "event" /\ q[i].index = x
  <2>1. PICK k \in 1 .. n : points[k] = x BY <1>3
  <2>2. nd + k \in DOMAIN s /\ s[nd + k].kind = "event" /\ s[nd + k].index = x BY <2>1, <1>6, <1>21
  <2>. QED BY <2>2, <1>11
<1>19. \E X : q \in Seq(SpanSet(X)) BY <1>11
<1>. QED BY <1>13, <1>15, <1>16, <1>17, <1>18, <1>19 DEF P

-----------------------------------------------------------------------------
(* In a track whose dispatches have ids of their own.                      *)
LEMMA EndsPaired ==
    ASSUME NEW ds, Timed(ds), NEW es, Timed(es), NEW i \in DOMAIN ds, NEW j \in DOMAIN es
    PROVE  j \in Ends(ds[i], es) <=> Paired(ds[i], es[j])
<1>1. ds[i].me \in Int /\ es[j].me \in Int BY TimedFacts
<1>. DEFINE m == ds[i].me
            e == es[j].me
<1>2. e % 2 = m % 2 <=> (e - m) % 2 = 0
  <2>. HIDE DEF m, e
  <2>1. \A x, y \in Int : y % 2 = x % 2 <=> (y - x) % 2 = 0 OBVIOUS
  <2>. QED BY <2>1, <1>1 DEF m, e
<1>3. Queue(es[j]) = Queue(ds[i]) <=> e % 2 = m % 2 /\ es[j].pipe = ds[i].pipe BY DEF Queue
<1>. QED BY <1>2, <1>3 DEF Ends, Paired

LEMMA PartnerUnique ==
    ASSUME NEW t, TrackInv(t), OwnIds(t), NEW i \in DOMAIN t.dispatches
    PROVE  /\ \A j \in DOMAIN t.events : Paired(t.dispatches[i], t.events[j]) =>
                 /\ Ends(t.dispatches[i], t.events) = {j}
                 /\ Min(Ends(t.dispatches[i], t.events)) = j
                 /\ {e \in ToSet(t.events) : Paired(t.dispatches[i], e)} = {t.events[j]}
                 /\ t.dispatches[i].time <= t.events[j].time
           /\ (\A j \in DOMAIN t.events : ~Paired(t.dispatches[i], t.events[j])) =>
                 /\ Ends(t.dispatches[i], t.events) = {}
                 /\ {e \in ToSet(t.events) : Paired(t.dispatches[i], e)} = {}
<1>. DEFINE ds == t.dispatches
            es == t.events
<1>0. Timed(ds) /\ Timed(es) BY DEF TrackInv
<1>1. \A j \in DOMAIN es : j \in Ends(ds[i], es) <=> Paired(ds[i], es[j]) BY <1>0, EndsPaired
<1>2. Ends(ds[i], es) \in SUBSET DOMAIN es BY DEF Ends
<1>3. ASSUME NEW j \in DOMAIN es, Paired(ds[i], es[j])
      PROVE  /\ Ends(ds[i], es) = {j}
             /\ Min(Ends(ds[i], es)) = j
             /\ {e \in ToSet(es) : Paired(ds[i], e)} = {es[j]}
             /\ ds[i].time <= es[j].time
  <2>1. ds[i].time <= es[j].time /\ \A k \in DOMAIN es : Paired(ds[i], es[k]) => k = j
    BY <1>3, Zenon DEF OwnIds
  <2>2. Ends(ds[i], es) = {j} BY <2>1, <1>1, <1>2, <1>3
  <2>3. Min({j}) = j
    <3>1. j \in Nat BY <1>0, TimedFacts
    <3>. QED BY <3>1, MinIs
  <2>4. {e \in ToSet(es) : Paired(ds[i], e)} = {es[j]} BY <2>1, <1>3 DEF ToSet
  <2>. QED BY <2>1, <2>2, <2>3, <2>4
<1>4. ASSUME \A j \in DOMAIN es : ~Paired(ds[i], es[j])
      PROVE  Ends(ds[i], es) = {} /\ {e \in ToSet(es) : Paired(ds[i], e)} = {}
  BY <1>1, <1>2, <1>4 DEF ToSet
<1>. QED BY <1>3, <1>4

(* The partner and the end of a dispatch in the reference.                 *)
LEMMA DispatchEnds ==
    ASSUME NEW t, TrackInv(t), OwnIds(t), NEW i \in DOMAIN t.dispatches,
           NEW P, P = {e \in ToSet(t.events) : Paired(t.dispatches[i], e)}
    PROVE  /\ DispatchEnd(t.dispatches[i], t.events)
                 = (IF P = {} THEN t.dispatches[i].time ELSE (CHOOSE e \in P : TRUE).time)
           /\ t.dispatches[i].time <= DispatchEnd(t.dispatches[i], t.events)
<1>1. t.dispatches[i].time \in Int BY TimedFacts DEF TrackInv
<1>2. CASE \E j \in DOMAIN t.events : Paired(t.dispatches[i], t.events[j])
  <2>1. PICK j \in DOMAIN t.events : Paired(t.dispatches[i], t.events[j]) BY <1>2
  <2>2. /\ Ends(t.dispatches[i], t.events) = {j}
        /\ Min(Ends(t.dispatches[i], t.events)) = j
        /\ P = {t.events[j]}
        /\ t.dispatches[i].time <= t.events[j].time
    BY <2>1, PartnerUnique
  <2>3. (CHOOSE e \in P : TRUE) = t.events[j] BY <2>2
  <2>. QED BY <2>2, <2>3 DEF DispatchEnd
<1>3. CASE \A j \in DOMAIN t.events : ~Paired(t.dispatches[i], t.events[j])
  <2>1. Ends(t.dispatches[i], t.events) = {} /\ P = {} BY <1>3, PartnerUnique
  <2>. QED BY <2>1, <1>1 DEF DispatchEnd
<1>. QED BY <1>2, <1>3

LEMMA ConsumedPaired ==
    ASSUME NEW t, TrackInv(t), OwnIds(t), NEW j \in DOMAIN t.events
    PROVE  j \in Consumed(t.dispatches, t.events) <=> \E d \in ToSet(t.dispatches) : Paired(d, t.events[j])
<1>. DEFINE ds == t.dispatches
            es == t.events
<1>0. Timed(ds) /\ Timed(es) BY DEF TrackInv
<1>1. ASSUME j \in Consumed(ds, es) PROVE \E d \in ToSet(ds) : Paired(d, es[j])
  <2>1. PICK d \in ToSet(ds) : Ends(d, es) # {} /\ j = Min(Ends(d, es)) BY <1>1 DEF Consumed
  <2>2. PICK i \in DOMAIN ds : d = ds[i] BY <2>1 DEF ToSet
  <2>3. d.time \in Int BY <2>2, <1>0, TimedFacts
  <2>4. j \in Ends(ds[i], es) BY <2>1, <2>2, <2>3, <1>0, EndTimed
  <2>. QED BY <2>1, <2>2, <2>4, <1>0, EndsPaired
<1>2. ASSUME NEW d \in ToSet(ds), Paired(d, es[j]) PROVE j \in Consumed(ds, es)
  <2>1. PICK i \in DOMAIN ds : d = ds[i] BY <1>2 DEF ToSet
  <2>2. Ends(d, es) = {j} /\ Min(Ends(d, es)) = j BY <2>1, <1>2, PartnerUnique
  <2>. QED BY <2>2 DEF Consumed
<1>. QED BY <1>1, <1>2

LEMMA OwnForward ==
    ASSUME NEW t, TrackInv(t), OwnIds(t)
    PROVE  Forward(t.spans)
<1>. SUFFICES ASSUME NEW i \in DOMAIN t.spans PROVE t.spans[i].begin <= t.spans[i].end
  BY DEF Forward
<1>1. Describes(t.dispatches, t.events, t.spans[i]) BY DEF TrackInv, SpansComplete
<1>2. CASE t.spans[i].kind = "dispatch"
  <2>1. /\ t.spans[i].index \in DOMAIN t.dispatches
        /\ t.spans[i].begin = t.dispatches[t.spans[i].index].time
        /\ t.spans[i].end = DispatchEnd(t.dispatches[t.spans[i].index], t.events)
    BY <1>1, <1>2 DEF Describes
  <2>. QED BY <2>1, DispatchEnds
<1>3. CASE t.spans[i].kind # "dispatch"
  <2>1. PICK K : t.spans \in Seq(SpanSet(K)) BY DEF TrackInv, SpansSet
  <2>2. t.spans[i] \in SpanSet(K) BY <2>1
  <2>3. t.spans[i].begin \in Int BY <2>2 DEF SpanSet
  <2>4. t.spans[i].end = t.spans[i].begin BY <1>1, <1>3, Zenon DEF Describes
  <2>. QED BY <2>3, <2>4
<1>. QED BY <1>2, <1>3

-----------------------------------------------------------------------------
LEMMA ImageCardinality ==
    ASSUME NEW S, IsFiniteSet(S), NEW f, \A x, y \in S : f[x] = f[y] => x = y
    PROVE  Cardinality({f[x] : x \in S}) = Cardinality(S)
<1>. DEFINE T == {f[x] : x \in S}
            g == [x \in S |-> f[x]]
<1>1. g \in Surjection(S, T) BY DEF Surjection
<1>2. g \in Injection(S, T) BY DEF Injection, IsInjective
<1>. HIDE DEF g, T
<1>3. Cardinality(T) = Cardinality(S) BY <1>1, <1>2, FS_Surjection
<1>. QED BY <1>3 DEF T

(* What LanesExact says of one track that shows these spans.               *)
ShowsExactly(t, shown) ==
    /\ {<<s.kind, s.index, s.begin, s.end>> : s \in shown} = ItemsOf(t)
    /\ Len(t.visible) = Cardinality(shown)
    /\ \A x, y \in shown : x # y /\ x.lane = y.lane => x.end < y.begin \/ y.end < x.begin
    /\ t.lanes = Max({0} \cup {Cardinality({y \in shown : y.begin <= x.begin /\ x.begin <= y.end}) : x \in shown})
    /\ \A x \in shown : x.lane \in 0 .. t.lanes - 1

LEMMA ShownExact ==
    ASSUME NEW t, TrackInv(t), LayoutInv(t, event_groups), OwnIds(t), NEW shown, shown = VisibleSpans(t)
    PROVE  ShowsExactly(t, shown)
<1>. DEFINE q == t.spans
            V == Visible(t, event_groups)
            m == t.lanes
<1>1. /\ shown = {q[i] : i \in V}
      /\ V \in SUBSET DOMAIN q
      /\ Len(t.visible) = Cardinality(V)
      /\ m \in Nat
  <2>1. ToSet(t.visible) = V BY DEF LayoutInv, ToSet, Range
  <2>. QED BY <2>1 DEF LayoutInv, VisibleSpans, Visible
<1>2. Forward(q) BY OwnForward
<1>3. PICK K : q \in Seq(SpanSet(K)) BY DEF TrackInv, SpansSet
<1>4. PICK n \in Nat : DOMAIN q = 1 .. n BY <1>3
<1>5. PICK ends : /\ LanesOf(q, LaneOf(q), ends, m, V)
                  /\ Packed(q, LaneOf(q), ends, m, V)
  BY <1>2 DEF LayoutInv
<1>6. IsFiniteSet(V)
  <2>1. IsFiniteSet(1 .. n) BY UpTo, Zenon
  <2>. QED BY <1>1, <1>4, <2>1, FS_Subset
<1>7. \A i, j \in DOMAIN q : q[i].kind = q[j].kind /\ q[i].index = q[j].index => i = j
  BY DEF TrackInv, SpansComplete
<1>8. \A i, j \in DOMAIN q : q[i] = q[j] => i = j BY <1>7
<1>9. \A i \in DOMAIN q : q[i] \in SpanSet(K) BY <1>3
<1>10. /\ \A j \in V : q[j].lane \in 0 .. m - 1
       /\ \A i, j \in V : i < j /\ q[i].lane = q[j].lane => q[i].end < q[j].begin
       /\ m = 0 \/ \E j \in V : m <= Cardinality(Under(q, V, j))
  BY <1>1, <1>5 DEF LanesOf, Packed, LaneOf
<1>11. {<<s.kind, s.index, s.begin, s.end>> : s \in shown} = ItemsOf(t)
  <2>. DEFINE ds == t.dispatches
              es == t.events
              Item(s) == <<s.kind, s.index, s.begin, s.end>>
              DItem(i) == <<"dispatch", i, ds[i].time, DispatchEnd(ds[i], es)>>
              EItem(j) == <<"event", j, es[j].time, es[j].time>>
              D == {i \in DOMAIN ds : "Dispatch" \in event_groups}
              E == {j \in DOMAIN es \ Consumed(ds, es) : TraceEventGroup(es[j].type) \in event_groups}
  <2>1. ItemsOf(t) = {DItem(i) : i \in D} \cup {EItem(j) : j \in E}
    <3>. DEFINE P(d) == {e \in ToSet(es) : Paired(d, e)}
                EndAt(d) == IF P(d) = {} THEN d.time ELSE (CHOOSE e \in P(d) : TRUE).time
                alone == {j \in DOMAIN es : \A d \in ToSet(ds) : ~Paired(d, es[j])}
    <3>1. ItemsOf(t) = {<<"dispatch", i, ds[i].time, EndAt(ds[i])>> : i \in D}
                         \cup {EItem(j) : j \in {k \in alone : TraceEventGroup(es[k].type) \in event_groups}}
      BY Zenon DEF ItemsOf
    <3>2. alone = DOMAIN es \ Consumed(ds, es) BY ConsumedPaired
    <3>3. ASSUME NEW i \in D PROVE <<"dispatch", i, ds[i].time, EndAt(ds[i])>> = DItem(i)
      <4>1. i \in DOMAIN t.dispatches OBVIOUS
      <4>. DEFINE Q == {e \in ToSet(t.events) : Paired(t.dispatches[i], e)}
      <4>3. EndAt(ds[i]) = (IF Q = {} THEN t.dispatches[i].time ELSE (CHOOSE e \in Q : TRUE).time) BY Zenon
      <4>2. EndAt(ds[i]) = DispatchEnd(ds[i], es)
        <5>. HIDE DEF EndAt
        <5>1. Q = {e \in ToSet(t.events) : Paired(t.dispatches[i], e)} OBVIOUS
        <5>. HIDE DEF Q
        <5>2. DispatchEnd(t.dispatches[i], t.events)
                = (IF Q = {} THEN t.dispatches[i].time ELSE (CHOOSE e \in Q : TRUE).time)
          BY <4>1, <5>1, DispatchEnds
        <5>. QED BY <5>2, <4>3
      <4>. QED BY <4>2, Zenon
    <3>. HIDE DEF EndAt, alone, D, DItem
    <3>4. {<<"dispatch", i, ds[i].time, EndAt(ds[i])>> : i \in D} = {DItem(i) : i \in D} BY <3>3
    <3>. QED BY <3>1, <3>2, <3>4, Zenon
  <2>2. \A i \in V : i \in DOMAIN q /\ Describes(ds, es, q[i]) /\ SpanVisible(t, q[i], event_groups)
    BY Zenon DEF TrackInv, SpansComplete, Visible
  <2>3. ASSUME NEW i \in V PROVE Item(q[i]) \in {DItem(x) : x \in D} \cup {EItem(x) : x \in E}
    <3>1. Describes(ds, es, q[i]) /\ SpanVisible(t, q[i], event_groups) BY <2>2
    <3>2. CASE q[i].kind = "dispatch"
      <4>1. q[i].index \in D BY <3>1, <3>2 DEF Describes, SpanVisible
      <4>2. Item(q[i]) = DItem(q[i].index) BY <3>1, <3>2 DEF Describes
      <4>. QED BY <4>1, <4>2
    <3>3. CASE q[i].kind # "dispatch"
      <4>1. q[i].index \in E BY <3>1, <3>3 DEF Describes, SpanVisible
      <4>2. Item(q[i]) = EItem(q[i].index) BY <3>1, <3>3 DEF Describes
      <4>. QED BY <4>1, <4>2
    <3>. QED BY <3>2, <3>3
  <2>4. ASSUME NEW x \in D PROVE \E i \in V : Item(q[i]) = DItem(x)
    <3>1. PICK i \in DOMAIN q : q[i].kind = "dispatch" /\ q[i].index = x BY DEF TrackInv, SpansComplete
    <3>2. Describes(ds, es, q[i]) BY DEF TrackInv, SpansComplete
    <3>3. i \in V BY <3>1 DEF Visible, SpanVisible
    <3>4. Item(q[i]) = DItem(x) BY <3>1, <3>2 DEF Describes
    <3>. QED BY <3>3, <3>4
  <2>5. ASSUME NEW x \in E PROVE \E i \in V : Item(q[i]) = EItem(x)
    <3>1. PICK i \in DOMAIN q : q[i].kind = "event" /\ q[i].index = x BY DEF TrackInv, SpansComplete
    <3>2. Describes(ds, es, q[i]) BY DEF TrackInv, SpansComplete
    <3>3. i \in V BY <3>1 DEF Visible, SpanVisible
    <3>4. Item(q[i]) = EItem(x) BY <3>1, <3>2 DEF Describes
    <3>. QED BY <3>3, <3>4
  <2>6. {Item(s) : s \in shown} = {Item(q[i]) : i \in V} BY <1>1
  <2>. HIDE DEF Item, DItem, EItem, D, E, V
  <2>7. {Item(q[i]) : i \in V} = {DItem(i) : i \in D} \cup {EItem(j) : j \in E} BY <2>3, <2>4, <2>5
  <2>8. {Item(s) : s \in shown} = ItemsOf(t) BY <2>1, <2>6, <2>7
  <2>. QED BY <2>8 DEF Item
<1>. HIDE DEF V, m
<1>12. Cardinality(shown) = Cardinality(V)
  <2>1. \A i, j \in V : q[i] = q[j] => i = j BY <1>1, <1>8
  <2>. HIDE DEF q
  <2>. QED BY <1>1, <1>6, <2>1, ImageCardinality
<1>13. ASSUME NEW x \in shown, NEW y \in shown, x # y, x.lane = y.lane PROVE x.end < y.begin \/ y.end < x.begin
  <2>1. PICK i \in V, j \in V : x = q[i] /\ y = q[j] BY <1>1
  <2>2. i < j \/ j < i
    <3>1. i # j BY <2>1, <1>13
    <3>2. i \in 1 .. n /\ j \in 1 .. n BY <1>1, <1>4
    <3>. QED BY <3>1, <3>2
  <2>. QED BY <2>1, <2>2, <1>10, <1>13
<1>14. ASSUME NEW j \in V
       PROVE  /\ {y \in shown : y.begin <= q[j].begin /\ q[j].begin <= y.end} = {q[i] : i \in Under(q, V, j)}
              /\ Cardinality({q[i] : i \in Under(q, V, j)}) = Cardinality(Under(q, V, j))
              /\ Cardinality(Under(q, V, j)) \in Nat /\ Cardinality(Under(q, V, j)) <= m
  <2>. DEFINE A == Under(q, V, j)
  <2>1. {y \in shown : y.begin <= q[j].begin /\ q[j].begin <= y.end} = {q[i] : i \in A} BY <1>1 DEF Under
  <2>2. A \in SUBSET V BY DEF Under
  <2>3. IsFiniteSet(A) BY <2>2, <1>6, FS_Subset
  <2>4. Cardinality(A) \in Nat BY <2>3, FS_CardinalityType
  <2>5. \A x, y \in A : q[x] = q[y] => x = y BY <2>2, <1>1, <1>8
  <2>6. \A x, y \in A : q[x].lane = q[y].lane => x = y
    <3>. SUFFICES ASSUME NEW x \in A, NEW y \in A, q[x].lane = q[y].lane, x # y PROVE FALSE
      OBVIOUS
    <3>1. x \in V /\ y \in V /\ x \in 1 .. n /\ y \in 1 .. n /\ j \in 1 .. n BY <2>2, <1>1, <1>4
    <3>2. x < y \/ y < x BY <3>1
    <3>3. q[x].end < q[y].begin \/ q[y].end < q[x].begin BY <3>1, <3>2, <1>10
    <3>4. q[x] \in SpanSet(K) /\ q[y] \in SpanSet(K) /\ q[j] \in SpanSet(K) BY <3>1, <1>4, <1>9
    <3>5. /\ q[x].begin <= q[j].begin /\ q[j].begin <= q[x].end
          /\ q[y].begin <= q[j].begin /\ q[j].begin <= q[y].end
      BY DEF Under
    <3>. QED BY <3>3, <3>4, <3>5 DEF SpanSet
  <2>. HIDE DEF A, q
  <2>7. Cardinality({q[i] : i \in A}) = Cardinality(A) BY <2>3, <2>5, ImageCardinality
  <2>8. Cardinality(A) <= m
    <3>. DEFINE f == [x \in A |-> q[x].lane]
    <3>1. f \in Injection(A, 0 .. m - 1)
      <4>1. \A x \in A : q[x].lane \in 0 .. m - 1 BY <2>2, <1>10
      <4>. QED BY <4>1, <2>6 DEF Injection, IsInjective
    <3>2. IsFiniteSet(0 .. m - 1) /\ Cardinality(0 .. m - 1) = m BY <1>1, UpTo
    <3>. HIDE DEF f
    <3>. QED BY <3>1, <3>2, FS_Injection
  <2>. QED BY <2>1, <2>4, <2>7, <2>8 DEF A
<1>15. m = Max({0} \cup {Cardinality({y \in shown : y.begin <= x.begin /\ x.begin <= y.end}) : x \in shown})
  <2>. DEFINE Over(x) == {y \in shown : y.begin <= x.begin /\ x.begin <= y.end}
              S == {0} \cup {Cardinality(Over(x)) : x \in shown}
  <2>1. \A x \in shown : Cardinality(Over(x)) \in Nat /\ Cardinality(Over(x)) <= m
    <3>. SUFFICES ASSUME NEW x \in shown PROVE Cardinality(Over(x)) \in Nat /\ Cardinality(Over(x)) <= m
      OBVIOUS
    <3>1. PICK j \in V : x = q[j] BY <1>1
    <3>. QED BY <3>1, <1>14
  <2>2. m \in S
    <3>1. CASE m = 0 BY <3>1
    <3>2. CASE m # 0
      <4>1. PICK j \in V : m <= Cardinality(Under(q, V, j)) BY <3>2, <1>10
      <4>2. Cardinality(Over(q[j])) = Cardinality(Under(q, V, j)) BY <1>14
      <4>5. Cardinality(Under(q, V, j)) \in Nat /\ Cardinality(Under(q, V, j)) <= m BY <1>14
      <4>3. m = Cardinality(Over(q[j]))
        <5>. HIDE DEF Over, q
        <5>. QED BY <4>1, <4>2, <4>5, <1>1
      <4>4. q[j] \in shown BY <1>1
      <4>. QED BY <4>3, <4>4
    <3>. QED BY <3>1, <3>2
  <2>. HIDE DEF Over
  <2>3. S \in SUBSET Nat /\ \A y \in S : y <= m BY <2>1, <1>1
  <2>. HIDE DEF S
  <2>4. Max(S) = m BY <2>2, <2>3, MaxIs
  <2>. QED BY <2>4 DEF S, Over
<1>16. \A x \in shown : x.lane \in 0 .. m - 1 BY <1>1, <1>10
<1>17. Len(t.visible) = Cardinality(shown) BY <1>1, <1>12
<1>. QED BY <1>11, <1>13, <1>15, <1>16, <1>17 DEF m, ShowsExactly

(* The tracks of a capture: those of its engines that have records.        *)
LEMMA SortedTimed ==
    ASSUME NEW s, Timed(s)
    PROVE  Timed(SortByTime(s))
<1>. DEFINE key == [i \in DOMAIN s |-> s[i].time]
            q == Arranged(s, key, DOMAIN s)
<1>1. SortByTime(s) = q BY Zenon DEF SortByTime, SortedBy
<1>2. /\ s \in Seq(Range(s))
      /\ \A i \in DOMAIN s : key[i] \in Int
      /\ DOMAIN s \in SUBSET DOMAIN s
  BY DEF Timed
<1>. HIDE DEF key
<1>3. /\ q \in Seq(Range(s))
      /\ \A k \in DOMAIN q : \E i \in DOMAIN s : q[k] = s[i]
  <2>. DEFINE S == Range(s)
              P == DOMAIN s
  <2>1. s \in Seq(S) /\ P \in SUBSET DOMAIN s /\ \A i \in P : key[i] \in Int BY <1>2
  <2>. HIDE DEF S, P
  <2>2. /\ Arranged(s, key, P) \in Seq(S)
        /\ \A k \in DOMAIN Arranged(s, key, P) : \E i \in P : Arranged(s, key, P)[k] = s[i]
        /\ \A i \in P : \E k \in DOMAIN Arranged(s, key, P) : Arranged(s, key, P)[k] = s[i]
        /\ \A k1, k2 \in DOMAIN Arranged(s, key, P) : k1 < k2 =>
              \E i, j \in P : /\ Arranged(s, key, P)[k1] = s[i]
                             /\ Arranged(s, key, P)[k2] = s[j]
                             /\ Precedes(key, i, j)
    BY <2>1, ArrangedInOrder
  <2>. QED BY <2>2 DEF S, P
<1>. HIDE DEF q
<1>4. \A k \in DOMAIN q : q[k].time \in Int /\ q[k].me \in Int BY <1>3 DEF Timed
<1>5. q \in Seq(Range(q))
  <2>1. \A k \in DOMAIN q : q[k] \in Range(q) BY DEF Range
  <2>2. Len(q) \in Nat /\ DOMAIN q = 1 .. Len(q) /\ q = [k \in 1 .. Len(q) |-> q[k]] BY <1>3
  <2>3. q \in [1 .. Len(q) -> Range(q)] BY <2>1, <2>2
  <2>. QED BY <2>2, <2>3
<1>. QED BY <1>1, <1>4, <1>5 DEF Timed

LEMMA TrackBuilt ==
    ASSUME NEW name \in DOMAIN Captures, NEW se, NEW r
    PROVE  TrackInv(AddShaderEngine(Store(Captures[name]), se, r))
<1>. DEFINE c == Captures[name]
            store == Store(c)
            ds == IF se \in DOMAIN store.dispatches THEN store.dispatches[se] ELSE <<>>
            es == IF se \in DOMAIN store.events THEN store.events[se] ELSE <<>>
            t == AddShaderEngine(store, se, r)
<1>1. Timed(<<>>)
  <2>1. Range(<<>>) = {} BY DEF Range
  <2>2. <<>> \in Seq({}) OBVIOUS
  <2>. QED BY <2>1, <2>2 DEF Timed
<1>2. Timed(ds)
  <2>1. DOMAIN store.dispatches = DOMAIN c.dispatches BY DEF Store
  <2>2. se \in DOMAIN c.dispatches => store.dispatches[se] = SortByTime(c.dispatches[se]) BY DEF Store
  <2>3. se \in DOMAIN c.dispatches => Timed(c.dispatches[se]) BY CapturesAssumption DEF CapturesAssumption
  <2>. HIDE DEF store, c
  <2>. QED BY <1>1, <2>1, <2>2, <2>3, SortedTimed
<1>3. Timed(es)
  <2>1. DOMAIN store.events = DOMAIN c.events BY DEF Store
  <2>2. se \in DOMAIN c.events => store.events[se] = SortByTime(c.events[se]) BY DEF Store
  <2>3. se \in DOMAIN c.events => Timed(c.events[se]) BY CapturesAssumption DEF CapturesAssumption
  <2>. HIDE DEF store, c
  <2>. QED BY <1>1, <2>1, <2>2, <2>3, SortedTimed
<1>4. t = [se |-> se, dispatches |-> ds, events |-> es, spans |-> Spans(ds, es, r), visible |-> <<>>, lanes |-> 0]
  BY Zenon DEF AddShaderEngine
<1>. HIDE DEF ds, es, store, c
<1>5. /\ t.dispatches = ds /\ t.events = es /\ t.spans = Spans(ds, es, r)
      /\ TrackShape(t)
  BY <1>4 DEF TrackShape
<1>. HIDE DEF t
<1>. DEFINE q == t.spans
<1>6. q = Spans(ds, es, r) BY <1>5
<1>. HIDE DEF q
<1>7. /\ \E K : q \in Seq(SpanSet(K))
      /\ \A i, j \in DOMAIN q : i < j => q[i].begin <= q[j].begin
      /\ \A i \in DOMAIN q : Describes(ds, es, q[i])
      /\ \A i, j \in DOMAIN q : q[i].kind = q[j].kind /\ q[i].index = q[j].index => i = j
      /\ \A x \in DOMAIN ds : \E i \in DOMAIN q : q[i].kind = "dispatch" /\ q[i].index = x
      /\ \A x \in DOMAIN es \ Consumed(ds, es) :
            \E i \in DOMAIN q : q[i].kind = "event" /\ q[i].index = x
  BY <1>2, <1>3, <1>6, SpansBuilt
<1>8. SpansSet(t) BY <1>7, Zenon DEF SpansSet, q
<1>9. SpansComplete(t) BY <1>7, <1>5, Zenon DEF SpansComplete, q
<1>10. TrackInv(t) BY <1>2, <1>3, <1>5, <1>8, <1>9 DEF TrackInv
<1>. QED BY <1>10 DEF t, store, c

LEMMA TracksBuilt ==
    ASSUME NEW name \in DOMAIN Captures, NEW i \in DOMAIN Opened[name].tracks
    PROVE  TrackInv(Opened[name].tracks[i])
<1>1. PICK r : Opened[name].tracks = BuildTracks(Store(Captures[name]), r) BY Zenon DEF Opened
<1>2. \E se : Opened[name].tracks[i] = AddShaderEngine(Store(Captures[name]), se, r)
  BY <1>1, Zenon DEF BuildTracks
<1>. QED BY <1>2, TrackBuilt

-----------------------------------------------------------------------------
(* Every track holds its engine's spans, laid out by the filter in force.  *)
TracksInv == \A i \in DOMAIN tracks : TrackInv(tracks[i]) /\ LayoutInv(tracks[i], event_groups)

(* Every track of an opened capture is complete and packed.                *)
LEMMA TracksInductive == ViewSpec => []TracksInv
<1>1. ViewInit => TracksInv
  <2>1. DOMAIN <<>> = {} OBVIOUS
  <2>. QED BY <2>1 DEF ViewInit, TracksInv
<1>2. TracksInv /\ [ViewNext]_viewVars => TracksInv'
  <2>. SUFFICES ASSUME TracksInv, [ViewNext]_viewVars PROVE TracksInv'
    OBVIOUS
  <2>1. ASSUME NEW name \in DOMAIN Captures, OpenCapture(name) PROVE TracksInv'
    <3>1. /\ tracks' = [i \in DOMAIN Opened[name].tracks |-> Layout(Opened[name].tracks[i], event_groups)]
          /\ event_groups' = event_groups
      BY <2>1, Zenon DEF OpenCapture, ShowView
    <3>2. \A i \in DOMAIN Opened[name].tracks : TrackInv(Opened[name].tracks[i]) BY TracksBuilt
    <3>. DEFINE built == Opened[name].tracks
    <3>. HIDE DEF built
    <3>3. \A i \in DOMAIN built :
             /\ TrackInv(Layout(built[i], event_groups))
             /\ LayoutInv(Layout(built[i], event_groups), event_groups)
      BY <3>2, LayoutLays DEF built
    <3>. QED BY <3>1, <3>3, Zenon DEF TracksInv, built
  <2>2. ASSUME NEW group \in EventGroups, SetDecoderEventGroups(group) PROVE TracksInv'
    <3>1. tracks' = [i \in DOMAIN tracks |-> Layout(tracks[i], event_groups')]
      BY <2>2, Zenon DEF SetDecoderEventGroups
    <3>2. \A i \in DOMAIN tracks :
             /\ TrackInv(Layout(tracks[i], event_groups'))
             /\ LayoutInv(Layout(tracks[i], event_groups'), event_groups')
      BY LayoutLays DEF TracksInv
    <3>. QED BY <3>1, <3>2, Zenon DEF TracksInv
  <2>3. CASE UNCHANGED viewVars BY <2>3 DEF viewVars, TracksInv
  <2>. QED BY <2>1, <2>2, <2>3 DEF ViewNext
<1>. QED BY <1>1, <1>2, PTL DEF ViewSpec

(* However the events were filtered before, every engine shows exactly its *)
(* own dispatches and lone events of the chosen groups, in lanes in which  *)
(* no two touch and no more of them than there are items at one time       *)
(* (AddShaderEngine and Layout of the global view).                        *)
THEOREM LanesAreExact == ViewSpec => []LanesExact
<1>1. TracksInv => LanesExact
  <2>1. TracksInv => \A t \in {x \in ToSet(tracks) : OwnIds(x)} : ShowsExactly(t, VisibleSpans(t))
    <3>. SUFFICES ASSUME TracksInv, NEW t \in ToSet(tracks), OwnIds(t) PROVE ShowsExactly(t, VisibleSpans(t))
      OBVIOUS
    <3>1. PICK i \in DOMAIN tracks : t = tracks[i] BY DEF ToSet
    <3>2. TrackInv(t) /\ LayoutInv(t, event_groups) BY <3>1 DEF TracksInv
    <3>. QED BY <3>2, ShownExact
  <2>. QED BY <2>1, Zenon DEF LanesExact, ShowsExactly
<1>. QED BY <1>1, TracksInductive, PTL
=============================================================================
