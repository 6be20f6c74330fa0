------------------------- MODULE AggregateTheorems -------------------------
(***************************************************************************)
(* Sums, least and greatest elements of finite sets, as the operators of   *)
(* the community modules compute them: Min and Max choose, and a sum is a  *)
(* fold that takes the elements out in the order CHOOSE gives.  And that   *)
(* ranking by counting sorts.                                              *)
(***************************************************************************)
EXTENDS Ranking, Sequences, FiniteSetsExt, FiniteSetTheorems, WellFoundedInduction, TLAPS

(* Among the subsets of a finite set that something is wrong with, one has *)
(* no proper subset that something is wrong with: how the facts below are  *)
(* proved about every finite set without an induction rule.                *)
LEMMA LeastSubset ==
    ASSUME NEW S, IsFiniteSet(S), NEW Bad \in SUBSET (SUBSET S), Bad # {}
    PROVE  \E T \in Bad : \A U \in Bad : U \subseteq T => U = T
<1>1. Bad \subseteq FiniteSubsetsOf(S)
  BY FS_Subset DEF FiniteSubsetsOf
<1>2. IsWellFoundedOn(StrictSubsetOrdering(S), FiniteSubsetsOf(S))
  BY FS_StrictSubsetOrderingWellFounded
<1>3. PICK T \in Bad : \A U \in Bad : <<U, T>> \notin StrictSubsetOrdering(S)
  BY <1>1, <1>2, WFMin, Zenon
<1>4. ASSUME NEW U \in Bad, U \subseteq T, U # T PROVE <<U, T>> \in StrictSubsetOrdering(S)
  BY <1>4, <1>1 DEF StrictSubsetOrdering, FiniteSubsetsOf
<1>5. \A U \in Bad : U \subseteq T => U = T
  BY <1>3, <1>4
<1> QED BY <1>5

-----------------------------------------------------------------------------
(* The least element of a set of natural numbers.                          *)
LEMMA MinExists ==
    ASSUME NEW S \in SUBSET Nat, S # {}
    PROVE  /\ Min(S) \in S
           /\ \A y \in S : Min(S) <= y
<1>1. PICK x \in S : \A y \in S : <<y, x>> \notin OpToRel(<, Nat)
  BY NatLessThanWellFounded, WFMin, Zenon
<1>2. ASSUME NEW y \in S, y < x PROVE <<y, x>> \in OpToRel(<, Nat)
  <2>1. <<y, x>> \in Nat \X Nat /\ <<y, x>>[1] = y /\ <<y, x>>[2] = x
    OBVIOUS
  <2> QED BY <2>1, <1>2, Zenon DEF OpToRel
<1>3. \A y \in S : ~(y < x)
  BY <1>1, <1>2, Zenon
<1>4. \A y \in S : x <= y
  BY <1>3
<1> QED BY <1>4 DEF Min

(* The element below (above) all the others is the minimum (maximum).      *)
LEMMA MinIs ==
    ASSUME NEW S \in SUBSET Nat, NEW m \in S, \A y \in S : m <= y
    PROVE  Min(S) = m
<1>1. Min(S) \in S /\ \A y \in S : Min(S) <= y
  BY MinExists
<1>2. Min(S) \in Nat /\ m \in Nat /\ m <= Min(S) /\ Min(S) <= m
  BY <1>1
<1> QED BY <1>2

LEMMA MaxIs ==
    ASSUME NEW S \in SUBSET Nat, NEW m \in S, \A y \in S : y <= m
    PROVE  Max(S) = m
<1>1. \E x \in S : \A y \in S : x >= y
  OBVIOUS
<1>2. Max(S) \in S /\ \A y \in S : Max(S) >= y
  BY <1>1 DEF Max
<1>3. Max(S) \in Nat /\ m \in Nat /\ m <= Max(S) /\ Max(S) <= m
  BY <1>2
<1> QED BY <1>3

LEMMA MinOfTwo ==
    ASSUME NEW a \in Nat, NEW b \in Nat
    PROVE  Min({a, b}) = IF a <= b THEN a ELSE b
<1>1. Min({a, b}) \in {a, b} /\ \A y \in {a, b} : Min({a, b}) <= y
  BY MinExists
<1> QED BY <1>1

(* A finite set of integers has a least and a greatest element.            *)
LEMMA FiniteMin ==
    ASSUME NEW S, S \subseteq Int, IsFiniteSet(S), S # {}
    PROVE  Min(S) \in S /\ \A y \in S : Min(S) <= y
<1> DEFINE Bad == {t \in SUBSET S : t # {} /\ \A x \in t : \E y \in t : ~(x <= y)}
<1>1. Bad = {}
  <2> SUFFICES ASSUME Bad # {} PROVE FALSE
    OBVIOUS
  <2>1. PICK t \in Bad : \A U \in Bad : U \subseteq t => U = t
    <3>1. Bad \in SUBSET (SUBSET S) /\ Bad # {} OBVIOUS
    <3> HIDE DEF Bad
    <3>2. IsFiniteSet(S) OBVIOUS
    <3> QED BY ONLY <3>1, <3>2, LeastSubset
  <2>2. PICK x \in t : TRUE BY <2>1
  <2>3. x \in Int /\ t \subseteq Int BY <2>1, <2>2
  <2>4. t \ {x} # {} BY <2>1, <2>2, <2>3
  <2>5. PICK z \in t \ {x} : \A y \in t \ {x} : z <= y
    <3>1. t \ {x} \in SUBSET S /\ t \ {x} \subseteq t /\ t \ {x} # t BY <2>1, <2>2
    <3>2. t \ {x} \notin Bad BY <2>1, <3>1
    <3> QED BY <2>4, <3>1, <3>2
  <2>6. \E w \in {x, z} : w <= x /\ w <= z BY <2>3, <2>5
  <2>7. PICK w \in {x, z} : w <= x /\ w <= z BY <2>6
  <2>8. \A y \in t : w <= y
    <3>1. \A y \in t : y = x \/ z <= y BY <2>5
    <3>2. w \in Int /\ z \in Int BY <2>3, <2>5, <2>7
    <3> QED BY <2>3, <2>7, <3>1, <3>2
  <2>9. w \in t BY <2>2, <2>5, <2>7
  <2> QED BY <2>1, <2>8, <2>9
<1>2. \E x \in S : \A y \in S : x <= y BY <1>1
<1> QED BY <1>2 DEF Min

LEMMA FiniteMax ==
    ASSUME NEW S, S \subseteq Int, IsFiniteSet(S), S # {}
    PROVE  Max(S) \in S /\ \A y \in S : y <= Max(S)
<1> DEFINE M == {-x : x \in S}
<1>1. M \in SUBSET Int /\ M # {}
  <2>1. \A x \in S : -x \in Int OBVIOUS
  <2>2. PICK x \in S : TRUE OBVIOUS
  <2>3. -x \in M OBVIOUS
  <2> QED BY <2>1, <2>3
<1>2. IsFiniteSet(M)
  <2> DEFINE f == [x \in S |-> -x]
  <2>1. M = {f[x] : x \in S} OBVIOUS
  <2> HIDE DEF f, M
  <2>2. f \in Surjection(S, M) BY <2>1 DEF Surjection, f
  <2> QED BY <2>2, FS_Surjection
<1> HIDE DEF M
<1>3. Min(M) \in M /\ \A y \in M : Min(M) <= y BY <1>1, <1>2, FiniteMin
<1>4. PICK x \in S : Min(M) = -x BY <1>3 DEF M
<1>5. \A y \in S : -y \in M /\ -x <= -y BY <1>3, <1>4 DEF M
<1>6. \A y \in S : x >= y BY <1>5
<1>7. Max(S) \in S /\ \A y \in S : Max(S) >= y BY <1>6 DEF Max
<1> QED BY <1>7

-----------------------------------------------------------------------------
(* Sums over a finite set, as the folds of the community modules compute   *)
(* them: element by element, in the order CHOOSE takes them out.           *)
Chosen(s) == CHOOSE x \in s : TRUE
Adds(f, S, g) ==
    g = [s \in SUBSET S |-> IF s = {} THEN 0 ELSE f[Chosen(s)] + g[s \ {Chosen(s)}]]
SumOver(f, S) == (CHOOSE g : Adds(f, S, g))[S]

(* Two functions that add up f agree on the sets both are defined on.      *)
LEMMA AddsUnique ==
    ASSUME NEW f, NEW A, NEW B, NEW g, NEW h, IsFiniteSet(A), Adds(f, A, g), Adds(f, B, h),
           NEW s \in SUBSET (A \cap B)
    PROVE  g[s] = h[s]
<1> DEFINE Bad == {t \in SUBSET A : t \subseteq B /\ g[t] # h[t]}
<1> SUFFICES Bad = {}
  OBVIOUS
<1> SUFFICES ASSUME Bad # {} PROVE FALSE
  OBVIOUS
<1>1. PICK t \in Bad : \A u \in Bad : u \subseteq t => u = t
  <2>1. Bad \in SUBSET (SUBSET A) OBVIOUS
  <2> HIDE DEF Bad
  <2> QED BY <2>1, LeastSubset
<1>2. /\ g[t] = IF t = {} THEN 0 ELSE f[Chosen(t)] + g[t \ {Chosen(t)}]
      /\ h[t] = IF t = {} THEN 0 ELSE f[Chosen(t)] + h[t \ {Chosen(t)}]
  BY <1>1 DEF Adds
<1>3. t # {} BY <1>1, <1>2
<1>4. Chosen(t) \in t BY <1>3 DEF Chosen
<1>5. t \ {Chosen(t)} \notin Bad BY <1>1, <1>4
<1>6. g[t \ {Chosen(t)}] = h[t \ {Chosen(t)}] BY <1>1, <1>5
<1> QED BY <1>1, <1>2, <1>6

(* The recursion over the subsets of a finite set has a solution.          *)
LEMMA AddsExists ==
    ASSUME NEW f, NEW S, IsFiniteSet(S)
    PROVE  \E g : Adds(f, S, g)
<1> DEFINE Bad == {t \in SUBSET S : \A g : ~Adds(f, t, g)}
<1> SUFFICES ASSUME Bad # {} PROVE FALSE
  BY S \in SUBSET S
<1>1. PICK t \in Bad : \A u \in Bad : u \subseteq t => u = t
  <2>1. Bad \in SUBSET (SUBSET S) OBVIOUS
  <2> HIDE DEF Bad
  <2> QED BY <2>1, LeastSubset
<1> DEFINE total == [s \in SUBSET t |-> IF s = {} THEN 0
                                         ELSE f[Chosen(s)] + SumOver(f, s \ {Chosen(s)})]
<1>2. ASSUME NEW u \in SUBSET t, u # t
      PROVE  Adds(f, u, CHOOSE g : Adds(f, u, g))
  BY <1>1, <1>2
<1>3. ASSUME NEW u \in SUBSET t, u # t
      PROVE  SumOver(f, u) = total[u]
  <2> DEFINE g == CHOOSE a : Adds(f, u, a)
  <2>1. Adds(f, u, g) BY <1>2, <1>3
  <2>2. g[u] = IF u = {} THEN 0 ELSE f[Chosen(u)] + g[u \ {Chosen(u)}]
    BY <2>1 DEF Adds
  <2>3. CASE u = {} BY <2>2, <2>3 DEF SumOver
  <2>4. CASE u # {}
    <3> DEFINE v == u \ {Chosen(u)}
                h == CHOOSE a : Adds(f, v, a)
    <3>1. Chosen(u) \in u BY <2>4 DEF Chosen
    <3>2. v \in SUBSET t /\ v # t BY <3>1
    <3>3. Adds(f, v, h) BY <3>2, <1>2
    <3>4. IsFiniteSet(u) BY <1>1, FS_Subset
    <3>5. g[v] = h[v]
      <4> HIDE DEF v, g, h
      <4>1. v \in SUBSET (u \cap v) BY DEF v
      <4> QED BY <2>1, <3>3, <3>4, <4>1, AddsUnique
    <3> QED BY <2>2, <2>4, <3>5 DEF SumOver
  <2> QED BY <2>3, <2>4
<1>4. ASSUME NEW s \in SUBSET t, s # {}
      PROVE  SumOver(f, s \ {Chosen(s)}) = total[s \ {Chosen(s)}]
  <2>1. Chosen(s) \in s BY <1>4 DEF Chosen
  <2>2. s \ {Chosen(s)} \in SUBSET t /\ s \ {Chosen(s)} # t BY <2>1
  <2> HIDE DEF total
  <2> QED BY <2>2, <1>3
<1>5. Adds(f, t, total)
  <2>1. total = [s \in SUBSET t |-> IF s = {} THEN 0
                                    ELSE f[Chosen(s)] + total[s \ {Chosen(s)}]]
    BY <1>4
  <2> HIDE DEF total
  <2> QED BY <2>1 DEF Adds
<1> QED BY <1>1, <1>5
(* A sum is 0 over no element and is unfolded at the chosen one.           *)
LEMMA SumStep ==
    ASSUME NEW f, NEW S, IsFiniteSet(S)
    PROVE  /\ SumOver(f, {}) = 0
           /\ S # {} => SumOver(f, S) = f[Chosen(S)] + SumOver(f, S \ {Chosen(S)})
<1>1. IsFiniteSet({}) BY FS_EmptySet
<1>2. ASSUME NEW T, IsFiniteSet(T) PROVE Adds(f, T, CHOOSE g : Adds(f, T, g))
  BY <1>2, AddsExists
<1>3. SumOver(f, {}) = 0
  <2> DEFINE g == CHOOSE a : Adds(f, {}, a)
  <2>1. Adds(f, {}, g) BY <1>1, <1>2
  <2> HIDE DEF g
  <2>2. g[{}] = 0 BY <2>1 DEF Adds
  <2> QED BY <2>2 DEF g, SumOver
<1>4. ASSUME S # {} PROVE SumOver(f, S) = f[Chosen(S)] + SumOver(f, S \ {Chosen(S)})
  <2> DEFINE R == S \ {Chosen(S)}
              g == CHOOSE a : Adds(f, S, a)
              h == CHOOSE a : Adds(f, R, a)
  <2>1. IsFiniteSet(R) BY FS_Subset
  <2>2. Adds(f, S, g) /\ Adds(f, R, h)
    <3>1. Adds(f, S, g) BY <1>2
    <3>2. Adds(f, R, h) BY <1>2, <2>1
    <3> QED BY <3>1, <3>2
  <2>3. SumOver(f, S) = g[S] /\ SumOver(f, R) = h[R] BY DEF SumOver
  <2> HIDE DEF g, h
  <2>4. g[R] = h[R]
    <3>1. R \in SUBSET (S \cap R) OBVIOUS
    <3> HIDE DEF R
    <3> QED BY <2>2, <3>1, AddsUnique
  <2>5. g[S] = f[Chosen(S)] + g[R] BY <1>4, <2>2 DEF Adds
  <2> QED BY <2>3, <2>4, <2>5
<1> QED BY <1>3, <1>4

(* A sum of natural numbers is a natural number.                           *)
LEMMA SumType ==
    ASSUME NEW f, NEW S, IsFiniteSet(S), \A x \in S : f[x] \in Nat
    PROVE  SumOver(f, S) \in Nat
<1> DEFINE Bad == {t \in SUBSET S : SumOver(f, t) \notin Nat}
<1> SUFFICES ASSUME Bad # {} PROVE FALSE
  BY S \in SUBSET S
<1>1. PICK t \in Bad : \A u \in Bad : u \subseteq t => u = t
  <2>1. Bad \in SUBSET (SUBSET S) OBVIOUS
  <2> HIDE DEF Bad
  <2> QED BY <2>1, LeastSubset
<1>2. IsFiniteSet(t) BY <1>1, FS_Subset
<1>3. t # {}
  <2>1. SumOver(f, {}) = 0 BY <1>2, SumStep
  <2>2. SumOver(f, {}) \in Nat BY <2>1
  <2> QED BY <1>1, <2>2
<1>4. Chosen(t) \in t BY <1>3 DEF Chosen
<1>5. SumOver(f, t \ {Chosen(t)}) \in Nat BY <1>1, <1>4
<1>6. SumOver(f, t) = f[Chosen(t)] + SumOver(f, t \ {Chosen(t)}) BY <1>2, <1>3, SumStep
<1> QED BY <1>1, <1>4, <1>5, <1>6

(* A sum may be unfolded at any element, whatever the order of the fold.   *)
LEMMA SumRemove ==
    ASSUME NEW f, NEW S, IsFiniteSet(S), \A x \in S : f[x] \in Nat, NEW a \in S
    PROVE  SumOver(f, S) = f[a] + SumOver(f, S \ {a})
<1> DEFINE Splits(t) == \A x \in t : SumOver(f, t) = f[x] + SumOver(f, t \ {x})
            Bad == {t \in SUBSET S : ~Splits(t)}
<1> SUFFICES ASSUME Bad # {} PROVE FALSE
  BY S \in SUBSET S
<1>1. PICK t \in Bad : \A u \in Bad : u \subseteq t => u = t
  <2>1. Bad \in SUBSET (SUBSET S) OBVIOUS
  <2> HIDE DEF Bad
  <2> QED BY <2>1, LeastSubset
<1>2. PICK x \in t : SumOver(f, t) # f[x] + SumOver(f, t \ {x})
  BY <1>1
<1>3. ASSUME NEW y \in t PROVE Splits(t \ {y}) /\ IsFiniteSet(t \ {y})
  <2>1. t \ {y} \notin Bad BY <1>1
  <2> QED BY <2>1, <1>1, FS_Subset
<1> DEFINE c == Chosen(t)
<1>4. IsFiniteSet(t) BY <1>1, FS_Subset
<1>5. c \in t BY <1>2 DEF Chosen
<1>6. SumOver(f, t) = f[c] + SumOver(f, t \ {c}) BY <1>4, <1>2, SumStep
<1> HIDE DEF c, Bad
<1>7. c # x BY <1>2, <1>6
<1>8. SumOver(f, t \ {c}) = f[x] + SumOver(f, (t \ {c}) \ {x}) BY <1>3, <1>5, <1>7
<1>9. SumOver(f, t \ {x}) = f[c] + SumOver(f, (t \ {x}) \ {c}) BY <1>3, <1>5, <1>7
<1>10. (t \ {c}) \ {x} = (t \ {x}) \ {c} OBVIOUS
<1>11. SumOver(f, (t \ {c}) \ {x}) \in Nat /\ f[x] \in Nat /\ f[c] \in Nat
  <2>1. t \subseteq S BY <1>1 DEF Bad
  <2>2. IsFiniteSet((t \ {c}) \ {x}) BY <1>4, FS_Subset
  <2> QED BY <2>1, <2>2, <1>5, SumType
<1> QED BY <1>2, <1>6, <1>8, <1>9, <1>10, <1>11

(* A sum over fewer elements is no greater.                                *)
LEMMA SumMonotone ==
    ASSUME NEW f, NEW S, IsFiniteSet(S), \A x \in S : f[x] \in Nat, NEW A \in SUBSET S
    PROVE  SumOver(f, A) <= SumOver(f, S)
<1> DEFINE Bad == {t \in SUBSET S : A \subseteq t /\ ~(SumOver(f, A) <= SumOver(f, t))}
<1> SUFFICES ASSUME Bad # {} PROVE FALSE
  BY S \in SUBSET S
<1>1. PICK t \in Bad : \A u \in Bad : u \subseteq t => u = t
  <2>1. Bad \in SUBSET (SUBSET S) OBVIOUS
  <2> HIDE DEF Bad
  <2> QED BY <2>1, LeastSubset
<1>2. ASSUME NEW u \in SUBSET S PROVE SumOver(f, u) \in Nat /\ IsFiniteSet(u)
  BY FS_Subset, SumType
<1>3. A # t BY <1>1, <1>2
<1>4. PICK x \in t : x \notin A BY <1>1, <1>3
<1>5. SumOver(f, A) <= SumOver(f, t \ {x}) BY <1>1, <1>4
<1>6. SumOver(f, t) = f[x] + SumOver(f, t \ {x}) BY <1>1, <1>2, <1>4, SumRemove
<1>7. f[x] \in Nat /\ SumOver(f, t \ {x}) \in Nat /\ SumOver(f, A) \in Nat
  BY <1>1, <1>2, <1>4
<1> QED BY <1>1, <1>5, <1>6, <1>7

(* A sum of natural numbers is 0 only when each of them is.                *)
LEMMA SumZero ==
    ASSUME NEW f, NEW S, IsFiniteSet(S), \A x \in S : f[x] \in Nat
    PROVE  SumOver(f, S) = 0 <=> \A x \in S : f[x] = 0
<1>1. ASSUME SumOver(f, S) = 0, NEW x \in S PROVE f[x] = 0
  <2>1. SumOver(f, S) = f[x] + SumOver(f, S \ {x}) BY SumRemove
  <2>2. SumOver(f, S \ {x}) \in Nat BY SumType, FS_Subset
  <2> QED BY <1>1, <2>1, <2>2
<1>2. ASSUME \A x \in S : f[x] = 0 PROVE SumOver(f, S) = 0
  <2> DEFINE Bad == {t \in SUBSET S : SumOver(f, t) # 0}
  <2> SUFFICES ASSUME Bad # {} PROVE FALSE
    BY S \in SUBSET S
  <2>1. PICK t \in Bad : \A u \in Bad : u \subseteq t => u = t
    <3>1. Bad \in SUBSET (SUBSET S) OBVIOUS
    <3> HIDE DEF Bad
    <3> QED BY <3>1, LeastSubset
  <2>2. IsFiniteSet(t) BY <2>1, FS_Subset
  <2>3. t # {} BY <2>1, <2>2, SumStep
  <2>4. PICK x \in t : TRUE BY <2>3
  <2>5. SumOver(f, t) = f[x] + SumOver(f, t \ {x}) BY <2>1, <2>2, SumRemove
  <2>6. SumOver(f, t \ {x}) = 0 BY <2>1
  <2> QED BY <1>2, <2>1, <2>4, <2>5, <2>6
<1> QED BY <1>1, <1>2

-----------------------------------------------------------------------------
(* The positions of a set are ranked one to one, in the order of their     *)
(* keys.                                                                   *)
LEMMA RanksInOrder ==
    ASSUME NEW P \in SUBSET Nat, IsFiniteSet(P), NEW key, \A i \in P : key[i] \in Int
    PROVE  /\ Cardinality(P) \in Nat
           /\ DOMAIN Ranked(key, P) = 1 .. Cardinality(P)
           /\ \A k \in 1 .. Cardinality(P) : Ranked(key, P)[k] \in P
           /\ \A i \in P : \E k \in 1 .. Cardinality(P) : Ranked(key, P)[k] = i
           /\ \A a, b \in 1 .. Cardinality(P) :
                  a < b => Precedes(key, Ranked(key, P)[a], Ranked(key, P)[b])
<1> DEFINE n == Cardinality(P)
           Below(i) == {j \in P : Precedes(key, j, i)}
           rank == [i \in P |-> Cardinality(Below(i))]
<1>1. n \in Nat
  BY FS_CardinalityType
<1>2. \A i, j \in P : i = j \/ Precedes(key, i, j) \/ Precedes(key, j, i)
  BY DEF Precedes
<1>3. \A i, j, k \in P : Precedes(key, i, j) /\ Precedes(key, j, k) => Precedes(key, i, k)
  BY DEF Precedes
<1>4. \A i \in P : ~Precedes(key, i, i)
  BY DEF Precedes
<1>5. ASSUME NEW i \in P
      PROVE  IsFiniteSet(Below(i)) /\ rank[i] \in Nat /\ rank[i] + 1 \in 1 .. n
  <2>1. Below(i) \in SUBSET (P \ {i})
    BY <1>4
  <2>2. IsFiniteSet(P \ {i}) /\ Cardinality(P \ {i}) = n - 1
    BY FS_RemoveElement
  <2> HIDE DEF Below, n
  <2>3. IsFiniteSet(Below(i)) /\ rank[i] <= n - 1
    BY <2>1, <2>2, FS_Subset
  <2>4. rank[i] \in Nat
    BY <2>3, FS_CardinalityType
  <2> QED BY <2>3, <2>4, <1>1
<1>6. ASSUME NEW i \in P, NEW j \in P, Precedes(key, i, j)
      PROVE  rank[i] < rank[j]
  <2>1. Below(i) \in SUBSET Below(j)
    BY <1>3, <1>6
  <2>2. i \in Below(j) /\ i \notin Below(i)
    BY <1>4, <1>6
  <2>3. Below(i) # Below(j)
    BY <2>2
  <2> HIDE DEF Below
  <2>4. rank[i] <= rank[j] /\ rank[i] # rank[j]
    BY <1>5, <2>1, <2>3, FS_Subset
  <2> QED BY <1>5, <2>4
<1>7. ASSUME NEW i \in P, NEW j \in P, rank[i] = rank[j]
      PROVE  i = j
  <2>1. rank[i] \in Nat
    BY <1>5
  <2>2. CASE Precedes(key, i, j)
    <3>1. rank[i] < rank[j]
      BY <1>6, <2>2
    <3> HIDE DEF rank
    <3> QED BY <2>1, <3>1, <1>7
  <2>3. CASE Precedes(key, j, i)
    <3>1. rank[j] < rank[i]
      BY <1>6, <2>3
    <3> HIDE DEF rank
    <3> QED BY <2>1, <3>1, <1>7
  <2> QED BY <1>2, <2>2, <2>3
<1>70. \A i \in P : rank[i] \in Nat /\ rank[i] + 1 \in 1 .. n
  BY <1>5
<1>71. \A i, j \in P : rank[i] = rank[j] => i = j
  BY <1>7
<1> HIDE DEF rank, n
<1> DEFINE place == [i \in P |-> rank[i] + 1]
<1>8. place \in Injection(P, 1 .. n)
  BY <1>70, <1>71 DEF Injection, IsInjective
<1>9. place \in Surjection(P, 1 .. n)
  <2>1. IsFiniteSet(1 .. n) /\ Cardinality(1 .. n) = n
    BY <1>1, FS_Interval
  <2> HIDE DEF place
  <2> QED BY <1>8, <2>1, FS_Injection DEF n
<1>10. \A k \in 1 .. n : \E i \in P : rank[i] = k - 1
  <2>1. \A k \in 1 .. n : \E i \in P : place[i] = k
    BY <1>9 DEF Surjection
  <2> HIDE DEF place
  <2>2. \A i \in P : place[i] = rank[i] + 1
    BY DEF place
  <2>3. \A k \in 1 .. n : \A m \in Nat : m + 1 = k => m = k - 1
    BY <1>1
  <2> QED BY <2>1, <2>2, <2>3, <1>70
<1>11. /\ DOMAIN Ranked(key, P) = 1 .. n
       /\ \A k \in 1 .. n : Ranked(key, P)[k] = CHOOSE i \in P : Cardinality(Below(i)) = k - 1
  BY Zenon DEF Ranked, n
<1>12. ASSUME NEW k \in 1 .. n
       PROVE  Ranked(key, P)[k] \in P /\ rank[Ranked(key, P)[k]] = k - 1
  <2>1. \E i \in P : Cardinality(Below(i)) = k - 1
    BY <1>10 DEF rank
  <2>2. (CHOOSE i \in P : Cardinality(Below(i)) = k - 1) \in P
    BY <2>1, Zenon
  <2>3. Cardinality(Below(CHOOSE i \in P : Cardinality(Below(i)) = k - 1)) = k - 1
    BY <2>1, Zenon
  <2> HIDE DEF Below
  <2> QED BY <1>11, <2>2, <2>3 DEF rank
<1>13. ASSUME NEW a \in 1 .. n, NEW b \in 1 .. n, a < b
       PROVE  Precedes(key, Ranked(key, P)[a], Ranked(key, P)[b])
  <2>1. rank[Ranked(key, P)[a]] = a - 1 /\ rank[Ranked(key, P)[b]] = b - 1
    BY <1>12
  <2>2. ~(rank[Ranked(key, P)[b]] <= rank[Ranked(key, P)[a]])
    BY <2>1, <1>13
  <2>3. Ranked(key, P)[a] \in P /\ Ranked(key, P)[b] \in P
    BY <1>12
  <2>4. CASE Ranked(key, P)[a] = Ranked(key, P)[b]
    BY <2>1, <2>4, <1>13, <1>1
  <2>5. CASE Precedes(key, Ranked(key, P)[b], Ranked(key, P)[a])
    <3>1. rank[Ranked(key, P)[b]] < rank[Ranked(key, P)[a]]
      BY <2>3, <2>5, <1>6
    <3> QED BY <3>1, <2>1, <1>13, <1>1
  <2> QED BY <2>3, <2>4, <2>5, <1>2
<1>14. ASSUME NEW i \in P PROVE \E k \in 1 .. n : Ranked(key, P)[k] = i
  <2>1. rank[i] + 1 \in 1 .. n /\ rank[i] \in Nat
    BY <1>5
  <2>2. rank[Ranked(key, P)[rank[i] + 1]] = rank[i] /\ Ranked(key, P)[rank[i] + 1] \in P
    BY <1>12, <2>1
  <2> QED BY <1>7, <2>1, <2>2
<1>15. DOMAIN Ranked(key, P) = 1 .. n
  BY <1>11
<1> QED BY <1>1, <1>12, <1>13, <1>14, <1>15 DEF n

(* Arranging by a key yields the elements at those positions: no other,    *)
(* none left out, none before a smaller one.                               *)
LEMMA ArrangedInOrder ==
    ASSUME NEW S, NEW s \in Seq(S), NEW P \in SUBSET DOMAIN s,
           NEW key, \A i \in P : key[i] \in Int
    PROVE  /\ Arranged(s, key, P) \in Seq(S)
           /\ \A k \in DOMAIN Arranged(s, key, P) :
                  \E i \in P : Arranged(s, key, P)[k] = s[i]
           /\ \A i \in P : \E k \in DOMAIN Arranged(s, key, P) :
                  Arranged(s, key, P)[k] = s[i]
           /\ \A a, b \in DOMAIN Arranged(s, key, P) : a < b =>
                  \E i, j \in P : /\ Arranged(s, key, P)[a] = s[i]
                                 /\ Arranged(s, key, P)[b] = s[j]
                                 /\ Precedes(key, i, j)
<1> DEFINE n == Cardinality(P)
           r == Ranked(key, P)
           t == Arranged(s, key, P)
<1>1. P \in SUBSET Nat /\ IsFiniteSet(P)
  <2>1. DOMAIN s = 1 .. Len(s) /\ Len(s) \in Nat
    OBVIOUS
  <2>2. IsFiniteSet(1 .. Len(s))
    BY <2>1, FS_Interval
  <2> QED BY <2>1, <2>2, FS_Subset
<1>2. /\ n \in Nat
      /\ DOMAIN r = 1 .. n
      /\ \A k \in 1 .. n : r[k] \in P
      /\ \A i \in P : \E k \in 1 .. n : r[k] = i
      /\ \A a, b \in 1 .. n : a < b => Precedes(key, r[a], r[b])
  BY <1>1, RanksInOrder
<1> HIDE DEF n, r
<1>3. t = [k \in 1 .. n |-> s[r[k]]]
  BY <1>2 DEF Arranged, r
<1>4. \A i \in P : s[i] \in S
  OBVIOUS
<1>5. DOMAIN t = 1 .. n /\ \A k \in 1 .. n : t[k] = s[r[k]]
  BY <1>3
<1>6. t \in Seq(S)
  BY <1>2, <1>3, <1>4
<1> HIDE DEF t
<1>7. \A k \in DOMAIN t : \E i \in P : t[k] = s[i]
  BY <1>2, <1>5
<1>8. ASSUME NEW i \in P PROVE \E k \in DOMAIN t : t[k] = s[i]
  <2>1. PICK k \in 1 .. n : r[k] = i
    BY <1>2
  <2>2. k \in DOMAIN t /\ t[k] = s[i]
    BY <2>1, <1>5
  <2> QED BY <2>2
<1>9. ASSUME NEW a \in DOMAIN t, NEW b \in DOMAIN t, a < b
      PROVE  \E i, j \in P : t[a] = s[i] /\ t[b] = s[j] /\ Precedes(key, i, j)
  <2>1. r[a] \in P /\ r[b] \in P /\ Precedes(key, r[a], r[b])
    BY <1>2, <1>5, <1>9
  <2> QED BY <2>1, <1>5
<1> QED BY <1>6, <1>7, <1>8, <1>9 DEF t

(* Nothing that is arranged is left out.                                   *)
LEMMA ArrangedKeepsAll ==
    ASSUME NEW S, NEW s \in Seq(S), NEW P \in SUBSET DOMAIN s,
           NEW key, \A i \in P : key[i] \in Int
    PROVE  \A i \in P : \E k \in DOMAIN Arranged(s, key, P) : Arranged(s, key, P)[k] = s[i]
<1> DEFINE n == Cardinality(P)
           r == Ranked(key, P)
           t == Arranged(s, key, P)
<1>1. P \in SUBSET Nat /\ IsFiniteSet(P)
  <2>1. DOMAIN s = 1 .. Len(s) /\ Len(s) \in Nat
    OBVIOUS
  <2>2. IsFiniteSet(1 .. Len(s))
    BY <2>1, FS_Interval
  <2> QED BY <2>1, <2>2, FS_Subset
<1>2. DOMAIN r = 1 .. n /\ \A i \in P : \E k \in 1 .. n : r[k] = i
  BY <1>1, RanksInOrder
<1>3. DOMAIN t = 1 .. n /\ \A k \in 1 .. n : t[k] = s[r[k]]
  BY <1>2 DEF Arranged
<1> HIDE DEF n, r, t
<1>4. ASSUME NEW i \in P PROVE \E k \in DOMAIN t : t[k] = s[i]
  <2>1. PICK k \in 1 .. n : r[k] = i
    BY <1>2
  <2> QED BY <2>1, <1>3
<1> QED BY <1>4 DEF t

-----------------------------------------------------------------------------
(* The sum of a function is over its domain.                               *)
LEMMA SumIsOver == \A f : SumFunction(f) = SumOver(f, DOMAIN f)
BY DEF SumFunction, SumFunctionOnSet, FoldFunctionOnSet, MapThenFoldSet, Adds, Chosen, SumOver

(* A sum depends only on the values that are added up.                     *)
LEMMA SumAgrees ==
    ASSUME NEW f, NEW g, NEW S, IsFiniteSet(S), \A x \in S : f[x] \in Nat /\ g[x] = f[x]
    PROVE  SumOver(f, S) = SumOver(g, S)
<1> DEFINE Bad == {t \in SUBSET S : SumOver(f, t) # SumOver(g, t)}
<1> SUFFICES ASSUME Bad # {} PROVE FALSE
  BY S \in SUBSET S
<1>1. PICK t \in Bad : \A u \in Bad : u \subseteq t => u = t
  <2>1. Bad \in SUBSET (SUBSET S) OBVIOUS
  <2> HIDE DEF Bad
  <2> QED BY <2>1, LeastSubset
<1>2. IsFiniteSet(t) BY <1>1, FS_Subset
<1>3. t # {}
  <2>1. SumOver(f, {}) = 0 /\ SumOver(g, {}) = 0 BY <1>2, SumStep
  <2> QED BY <1>1, <2>1
<1>4. PICK x \in t : TRUE BY <1>3
<1>5. SumOver(f, t \ {x}) = SumOver(g, t \ {x}) BY <1>1, <1>4
<1>6. SumOver(f, t) = f[x] + SumOver(f, t \ {x}) BY <1>1, <1>2, SumRemove
<1>7. SumOver(g, t) = g[x] + SumOver(g, t \ {x}) BY <1>1, <1>2, SumRemove
<1>8. f[x] = g[x] BY <1>1
<1> QED BY <1>1, <1>5, <1>6, <1>7, <1>8

(* The sums over two sets without a common element add up.                 *)
LEMMA SumUnion ==
    ASSUME NEW f, NEW A, NEW B, IsFiniteSet(A), IsFiniteSet(B), A \cap B = {},
           \A x \in A \cup B : f[x] \in Nat
    PROVE  SumOver(f, A \cup B) = SumOver(f, A) + SumOver(f, B)
<1> DEFINE Bad == {t \in SUBSET B : SumOver(f, A \cup t) # SumOver(f, A) + SumOver(f, t)}
<1> SUFFICES ASSUME Bad # {} PROVE FALSE
  BY B \in SUBSET B
<1>1. PICK t \in Bad : \A u \in Bad : u \subseteq t => u = t
  <2>1. Bad \in SUBSET (SUBSET B) OBVIOUS
  <2> HIDE DEF Bad
  <2> QED BY <2>1, LeastSubset
<1>2. IsFiniteSet(t) /\ IsFiniteSet(A \cup t) BY <1>1, FS_Subset, FS_Union
<1>3. SumOver(f, A) \in Nat BY SumType
<1>4. t # {}
  <2>1. SumOver(f, {}) = 0 BY <1>2, SumStep
  <2>2. A \cup {} = A OBVIOUS
  <2>3. SumOver(f, A \cup {}) = SumOver(f, A) + SumOver(f, {}) BY <1>3, <2>1, <2>2
  <2> QED BY <1>1, <2>3
<1>5. PICK x \in t : TRUE BY <1>4
<1>6. SumOver(f, A \cup (t \ {x})) = SumOver(f, A) + SumOver(f, t \ {x})
  <2>1. t \ {x} \notin Bad BY <1>1, <1>5
  <2> QED BY <2>1, <1>1
<1>7. SumOver(f, t) = f[x] + SumOver(f, t \ {x}) BY <1>1, <1>2, SumRemove
<1>8. SumOver(f, A \cup t) = f[x] + SumOver(f, (A \cup t) \ {x})
  <2>1. \A y \in A \cup t : f[y] \in Nat BY <1>1
  <2>2. x \in A \cup t BY <1>5
  <2> HIDE DEF Bad
  <2> QED BY <1>2, <2>1, <2>2, SumRemove
<1>9. (A \cup t) \ {x} = A \cup (t \ {x}) BY <1>1
<1>10. SumOver(f, t \ {x}) \in Nat /\ f[x] \in Nat
  <2>1. IsFiniteSet(t \ {x}) BY <1>2, FS_Subset
  <2>2. \A y \in t \ {x} : f[y] \in Nat BY <1>1
  <2> QED BY <1>1, <2>1, <2>2, SumType
<1> QED BY <1>1, <1>3, <1>6, <1>7, <1>8, <1>9, <1>10

(* Elements of which nothing is added need not be there.                   *)
LEMMA SumWithout ==
    ASSUME NEW f, NEW S, IsFiniteSet(S), NEW A \in SUBSET S,
           \A x \in A : f[x] \in Nat, \A x \in S \ A : f[x] = 0
    PROVE  SumOver(f, S) = SumOver(f, A)
<1>1. IsFiniteSet(A) /\ IsFiniteSet(S \ A) BY FS_Subset
<1>2. SumOver(f, S \ A) = 0 BY <1>1, SumZero
<1>3. A \cup (S \ A) = S /\ A \cap (S \ A) = {} OBVIOUS
<1>4. SumOver(f, A \cup (S \ A)) = SumOver(f, A) + SumOver(f, S \ A) BY <1>1, <1>3, SumUnion
<1>5. SumOver(f, A) \in Nat BY <1>1, SumType
<1> QED BY <1>2, <1>3, <1>4, <1>5

(* A sum does not change when its elements are given other names.          *)
LEMMA SumRenamed ==
    ASSUME NEW f, NEW g, NEW m, NEW S, IsFiniteSet(S),
           \A x \in S : g[x] \in Nat /\ f[m[x]] = g[x],
           \A x, y \in S : m[x] = m[y] => x = y
    PROVE  SumOver(f, {m[x] : x \in S}) = SumOver(g, S)
<1> DEFINE Image(t) == {m[x] : x \in t}
           Bad == {t \in SUBSET S : SumOver(f, Image(t)) # SumOver(g, t)}
<1> SUFFICES ASSUME Bad # {} PROVE FALSE
  BY S \in SUBSET S
<1>1. PICK t \in Bad : \A u \in Bad : u \subseteq t => u = t
  <2>1. Bad \in SUBSET (SUBSET S) OBVIOUS
  <2> HIDE DEF Bad
  <2> QED BY <2>1, LeastSubset
<1>2. IsFiniteSet(t) BY <1>1, FS_Subset
<1>3. IsFiniteSet(Image(t))
  <2> DEFINE h == [x \in t |-> m[x]]
  <2>1. h \in [t -> Image(t)] /\ \A y \in Image(t) : \E x \in t : h[x] = y OBVIOUS
  <2>2. h \in Surjection(t, Image(t)) BY <2>1 DEF Surjection
  <2> QED BY <1>2, <2>2, FS_Surjection
<1>4. t # {}
  <2>1. SumOver(f, {}) = 0 /\ SumOver(g, {}) = 0 BY <1>2, SumStep
  <2>2. Image({}) = {} OBVIOUS
  <2> QED BY <1>1, <2>1, <2>2
<1>5. PICK x \in t : TRUE BY <1>4
<1>6. SumOver(f, Image(t \ {x})) = SumOver(g, t \ {x}) BY <1>1, <1>5
<1>7. SumOver(g, t) = g[x] + SumOver(g, t \ {x}) BY <1>1, <1>2, SumRemove
<1>8. m[x] \in Image(t) /\ \A y \in Image(t) : f[y] \in Nat BY <1>1, <1>5
<1>9. Image(t) \ {m[x]} = Image(t \ {x}) BY <1>1, <1>5
<1>10. SumOver(f, Image(t)) = f[m[x]] + SumOver(f, Image(t) \ {m[x]})
  <2> HIDE DEF Image
  <2> QED BY <1>3, <1>8, SumRemove
<1>11. f[m[x]] = g[x] BY <1>1, <1>5
<1> QED BY <1>1, <1>6, <1>7, <1>9, <1>10, <1>11

(* Sets that have no element in common.                                    *)
LEMMA CardinalityOfUnion ==
    ASSUME NEW F, NEW S, IsFiniteSet(S), \A x \in S : IsFiniteSet(F[x]),
           \A x, y \in S : x # y => F[x] \cap F[y] = {},
           NEW f, \A x \in S : f[x] = Cardinality(F[x])
    PROVE  IsFiniteSet(UNION {F[x] : x \in S}) /\ Cardinality(UNION {F[x] : x \in S}) = SumOver(f, S)
<1> DEFINE All(t) == UNION {F[x] : x \in t}
           Bad == {t \in SUBSET S : ~(IsFiniteSet(All(t)) /\ Cardinality(All(t)) = SumOver(f, t))}
<1> SUFFICES ASSUME Bad # {} PROVE FALSE
  BY S \in SUBSET S
<1>1. PICK t \in Bad : \A u \in Bad : u \subseteq t => u = t
  <2>1. Bad \in SUBSET (SUBSET S) OBVIOUS
  <2> HIDE DEF Bad
  <2> QED BY <2>1, LeastSubset
<1>2. IsFiniteSet(t) BY <1>1, FS_Subset
<1>3. t # {}
  <2>1. SumOver(f, {}) = 0 BY <1>2, SumStep
  <2>2. All({}) = {} OBVIOUS
  <2>3. IsFiniteSet({}) /\ Cardinality({}) = 0 BY FS_EmptySet
  <2> QED BY <1>1, <2>1, <2>2, <2>3
<1>4. PICK x \in t : TRUE BY <1>3
<1>5. IsFiniteSet(All(t \ {x})) /\ Cardinality(All(t \ {x})) = SumOver(f, t \ {x})
  <2>1. t \ {x} \notin Bad /\ t \ {x} \in SUBSET S
    <3>1. t \in SUBSET S BY <1>1
    <3> HIDE DEF Bad
    <3> QED BY <1>1, <1>4, <3>1
  <2> HIDE DEF All
  <2> QED BY <2>1
<1>6. \A y \in S : f[y] \in Nat BY FS_CardinalityType
<1>7. SumOver(f, t) = f[x] + SumOver(f, t \ {x}) BY <1>1, <1>2, <1>6, SumRemove
<1>8. All(t) = All(t \ {x}) \cup F[x] BY <1>4
<1>9. All(t \ {x}) \cap F[x] = {} BY <1>1, <1>4
<1>10. IsFiniteSet(F[x]) /\ f[x] = Cardinality(F[x]) BY <1>1
<1> HIDE DEF All
<1>11. /\ IsFiniteSet(All(t \ {x}) \cup F[x])
       /\ Cardinality(All(t \ {x}) \cup F[x]) = Cardinality(All(t \ {x})) + Cardinality(F[x])
  <2>1. Cardinality(All(t \ {x}) \cap F[x]) = 0 BY <1>9, FS_EmptySet
  <2>2. Cardinality(All(t \ {x})) \in Nat /\ Cardinality(F[x]) \in Nat BY <1>5, <1>10, FS_CardinalityType
  <2> DEFINE G == F[x]
             R == All(t \ {x})
  <2>3. IsFiniteSet(R) /\ IsFiniteSet(G) BY <1>5, <1>10
  <2>4. R \cap G = {} BY <1>9
  <2> HIDE DEF G, R
  <2>5. IsFiniteSet(R \cup G) /\ Cardinality(R \cup G) = Cardinality(R) + Cardinality(G) - Cardinality(R \cap G)
    BY <2>3, FS_Union
  <2>6. Cardinality(R \cap G) = 0 BY <2>4, FS_EmptySet
  <2> QED BY <2>2, <2>5, <2>6 DEF R, G
<1>12. SumOver(f, t \ {x}) \in Nat
  <2>1. IsFiniteSet(t \ {x}) BY <1>2, FS_Subset
  <2>2. \A y \in t \ {x} : f[y] \in Nat BY <1>1, <1>6
  <2> QED BY <2>1, <2>2, SumType
<1>13. Cardinality(All(t)) = SumOver(f, t) /\ IsFiniteSet(All(t))
  <2>1. Cardinality(F[x]) = f[x] /\ f[x] \in Nat BY <1>1, <1>6, <1>10
  <2> HIDE DEF Bad
  <2> QED BY <1>5, <1>7, <1>8, <1>11, <1>12, <2>1
<1> QED BY <1>1, <1>13 DEF All

-----------------------------------------------------------------------------
(* A fold over 1 to n, as the community modules compute it, exists; step   *)
(* gives what becomes of an element of S at each number.                   *)
Folds(h, b, step, n) ==
    h = [s \in SUBSET (1 .. n) |-> IF s = {} THEN b ELSE step[Max(s)][h[s \ {Max(s)}]]]

LEMMA MaxUpTo ==
    ASSUME NEW n \in Nat, NEW s \in SUBSET (1 .. n), s # {}
    PROVE  Max(s) \in s /\ \A y \in s : y <= Max(s)
<1>0. IsFiniteSet(1 .. n) BY FS_Interval
<1>1. IsFiniteSet(s) BY <1>0, FS_Subset
<1>2. s \subseteq Int OBVIOUS
<1>. QED BY <1>1, <1>2, FiniteMax

LEMMA FoldExists ==
    ASSUME NEW S, NEW b \in S, NEW n \in Nat, NEW step, \A i \in 1 .. n : \A x \in S : step[i][x] \in S
    PROVE  \E h \in [SUBSET (1 .. n) -> S] : Folds(h, b, step, n)
<1>. DEFINE Bad == {k \in 0 .. n : ~\E h \in [SUBSET (1 .. k) -> S] : Folds(h, b, step, k)}
<1>1. Bad = {}
  <2>. SUFFICES ASSUME Bad # {} PROVE FALSE
    OBVIOUS
  <2>. DEFINE m == Min(Bad)
  <2>1. m \in Bad /\ \A k \in Bad : m <= k
    <3>1. Bad \in SUBSET Nat OBVIOUS
    <3>. HIDE DEF Bad
    <3>. QED BY <3>1, MinExists, Zenon
  <2>. HIDE DEF m
  <2>2. CASE m = 0
    <3>. DEFINE h == [s \in SUBSET (1 .. 0) |-> b]
    <3>1. 1 .. 0 = {} OBVIOUS
    <3>2. h \in [SUBSET (1 .. 0) -> S] /\ \A s \in SUBSET (1 .. 0) : s = {} BY <3>1
    <3>3. Folds(h, b, step, 0) BY <3>2, Zenon DEF Folds
    <3>. QED BY <3>2, <3>3, <2>1, <2>2
  <2>3. CASE m # 0
    <3>1. m \in Nat /\ m - 1 \in 0 .. n /\ m - 1 < m /\ m \in 1 .. n BY <2>1, <2>3
    <3>2. m - 1 \notin Bad
      <4>1. ~(m <= m - 1) BY <3>1
      <4>. HIDE DEF Bad
      <4>. QED BY <4>1, <2>1
    <3>3. PICK g \in [SUBSET (1 .. (m - 1)) -> S] : Folds(g, b, step, m - 1) BY <3>1, <3>2, Zenon
    <3>. DEFINE h == [s \in SUBSET (1 .. m) |-> IF m \in s THEN step[m][g[s \ {m}]] ELSE g[s]]
    <3>4. ASSUME NEW s \in SUBSET (1 .. m) PROVE s \ {m} \in SUBSET (1 .. (m - 1))
      BY <3>1
    <3>5. h \in [SUBSET (1 .. m) -> S]
      <4>. SUFFICES ASSUME NEW s \in SUBSET (1 .. m) PROVE h[s] \in S
        BY Zenon
      <4>1. g[s \ {m}] \in S BY <3>3, <3>4
      <4>2. m \notin s => s \ {m} = s OBVIOUS
      <4>3. step[m][g[s \ {m}]] \in S BY <4>1, <3>1
      <4>. QED BY <4>1, <4>2, <4>3
    <3>6. ASSUME NEW s \in SUBSET (1 .. m), m \in s
          PROVE  h[s] = step[Max(s)][h[s \ {Max(s)}]]
      <4>1. Max(s) = m
        <5>1. s \in SUBSET Nat /\ \A y \in s : y <= m BY <3>1
        <5>. QED BY <3>6, <5>1, MaxIs, Zenon
      <4>2. s \ {m} \in SUBSET (1 .. m) /\ m \notin s \ {m} OBVIOUS
      <4>3. h[s \ {m}] = g[s \ {m}] BY <4>2, Zenon
      <4>4. h[s] = step[m][g[s \ {m}]] BY <3>6, Zenon
      <4>. QED BY <4>1, <4>3, <4>4, Zenon
    <3>7. ASSUME NEW s \in SUBSET (1 .. m), m \notin s, s # {}
          PROVE  h[s] = step[Max(s)][h[s \ {Max(s)}]]
      <4>1. s \in SUBSET (1 .. (m - 1)) BY <3>1, <3>7
      <4>2. g[s] = step[Max(s)][g[s \ {Max(s)}]] BY <3>3, <3>7, <4>1, Zenon DEF Folds
      <4>3. m \notin s \ {Max(s)} /\ s \ {Max(s)} \in SUBSET (1 .. m) BY <3>7
      <4>4. h[s \ {Max(s)}] = g[s \ {Max(s)}] BY <4>3, Zenon
      <4>5. h[s] = g[s] BY <3>7, Zenon
      <4>. QED BY <4>2, <4>4, <4>5, Zenon
    <3>8. h[{}] = b
      <4>1. g[{}] = b /\ {} \in SUBSET (1 .. m) /\ m \notin {} BY <3>3, Zenon DEF Folds
      <4>. QED BY <4>1, Zenon
    <3>9. h = [s \in SUBSET (1 .. m) |-> h[s]] BY Zenon
    <3>. HIDE DEF h
    <3>10. \A s \in SUBSET (1 .. m) : h[s] = IF s = {} THEN b ELSE step[Max(s)][h[s \ {Max(s)}]]
      BY <3>6, <3>7, <3>8, Zenon
    <3>11. Folds(h, b, step, m) BY <3>9, <3>10, Zenon DEF Folds
    <3>. QED BY <3>5, <3>11, <2>1, Zenon
  <2>. QED BY <2>2, <2>3
<1>2. n \in 0 .. n OBVIOUS
<1>. HIDE DEF Folds
<1>. QED BY <1>1, <1>2, Zenon

-----------------------------------------------------------------------------
(* What holds of 0, and of the next number up to n when of one, does of    *)
(* all numbers up to n.                                                    *)
LEMMA Climb ==
    ASSUME NEW n \in Nat, NEW A, 0 \in A, \A k \in 1 .. n : k - 1 \in A => k \in A
    PROVE  \A k \in 0 .. n : k \in A
<1>. DEFINE Bad == {k \in 0 .. n : k \notin A}
<1>. SUFFICES ASSUME Bad # {} PROVE FALSE
  OBVIOUS
<1>1. Min(Bad) \in Bad /\ \A k \in Bad : Min(Bad) <= k
  <2>1. Bad \in SUBSET Nat OBVIOUS
  <2>. HIDE DEF Bad
  <2>. QED BY <2>1, MinExists, Zenon
<1>. DEFINE m == Min(Bad)
<1>. HIDE DEF m
<1>2. m \in 0 .. n /\ m \notin A BY <1>1 DEF m
<1>3. m # 0 BY <1>2
<1>4. m \in 1 .. n /\ m - 1 \in 0 .. n BY <1>2, <1>3
<1>5. m - 1 \notin Bad
  <2>1. ~(m <= m - 1) BY <1>2
  <2>. HIDE DEF Bad
  <2>. QED BY <2>1, <1>1 DEF m
<1>. QED BY <1>2, <1>4, <1>5
=============================================================================
