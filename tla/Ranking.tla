------------------------------ MODULE Ranking ------------------------------
(***************************************************************************)
(* Sorting as this code relies on it: the positions of a sequence in the   *)
(* order of their keys, equal keys in the order of the positions.  Also    *)
(* what erase(remove_if) leaves, with the positions themselves as keys.    *)
(* Ranks are counted, so that TLC computes them and proofs can cite them.  *)
(***************************************************************************)
EXTENDS Integers, FiniteSets

Precedes(key, i, j) == key[i] < key[j] \/ (key[i] = key[j] /\ i < j)
Ranked(key, P) ==
    [k \in 1 .. Cardinality(P) |->
        CHOOSE i \in P : Cardinality({j \in P : Precedes(key, j, i)}) = k - 1]

(* The elements of s at the positions P, in the order of their keys.       *)
Arranged(s, key, P) ==
    LET order == Ranked(key, P) IN [k \in DOMAIN order |-> s[order[k]]]
=============================================================================
