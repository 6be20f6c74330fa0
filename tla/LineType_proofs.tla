-------------------------- MODULE LineType_proofs --------------------------
(***************************************************************************)
(* The lock-free attribution of a line is right for every number of        *)
(* building threads and every set of token types.                          *)
(***************************************************************************)
EXTENDS LineType, TLAPS

Pending(t) == \E w \in Writers : step[w] # "idle" /\ tok[w] = t
Waiting(t) == \E w \in Writers : step[w] = "cas0" /\ tok[w] = t

(* The line has the type of one of its tokens once it has one ...          *)
FromToken == type \in seen \cup {0}
(* ... a writer past its first exchange knows that it has one ...          *)
PastFirst == \A w \in Writers : step[w] \in {"test", "cas9"} => type # 0
(* ... and replaces only "immediate", by another of the tokens.            *)
Replaces  == \A w \in Writers : /\ step[w] # "idle" => tok[w] \in seen
                                /\ step[w] = "cas9" => tok[w] # Immed
(* A token whose type the line may still have to take is being attributed. *)
Owed == /\ type = 0 => \A t \in seen : Waiting(t)
        /\ type = Immed => \A t \in seen \ {Immed} : Pending(t)

Protocol == 0 \notin seen => FromToken /\ PastFirst /\ Replaces /\ Owed
IInv == LineTypeOK /\ Protocol

LEMMA InitIInv == LineInit => IInv
  BY DEF LineInit, IInv, LineTypeOK, Protocol, FromToken, PastFirst, Replaces, Owed

LEMMA StartTokenKeeps ==
    ASSUME IInv, NEW w \in Writers, NEW t \in Types, StartToken(w, t)
    PROVE  IInv'
<1>1. LineTypeOK' BY DEF IInv, LineTypeOK, StartToken
<1>2. ASSUME 0 \notin seen' PROVE (FromToken /\ PastFirst /\ Replaces /\ Owed)'
  <2>0. 0 \notin seen /\ FromToken /\ PastFirst /\ Replaces /\ Owed
    BY <1>2 DEF IInv, Protocol, StartToken
  <2>1. FromToken' BY <2>0 DEF FromToken, StartToken
  <2>2. PastFirst' BY <2>0 DEF PastFirst, StartToken, IInv, LineTypeOK
  <2>3. Replaces' BY <2>0 DEF Replaces, StartToken, IInv, LineTypeOK
  <2>4. Waiting(t)' BY DEF Waiting, StartToken, IInv, LineTypeOK
  <2>5. ASSUME NEW u PROVE /\ Waiting(u) => Waiting(u)'
                           /\ Pending(u) => Pending(u)'
    BY DEF Waiting, Pending, StartToken, IInv, LineTypeOK
  <2>6. Pending(t)' BY <2>4 DEF Waiting, Pending
  <2>7. Owed' BY <2>0, <2>4, <2>5, <2>6 DEF Owed, StartToken
  <2>. QED BY <2>1, <2>2, <2>3, <2>7
<1>. QED BY <1>1, <1>2 DEF IInv, Protocol

LEMMA ExchangeUnattributedKeeps ==
    ASSUME IInv, NEW w \in Writers, ExchangeUnattributed(w)
    PROVE  IInv'
<1>1. LineTypeOK' BY DEF IInv, LineTypeOK, ExchangeUnattributed
<1>2. ASSUME 0 \notin seen' PROVE (FromToken /\ PastFirst /\ Replaces /\ Owed)'
  <2>0. 0 \notin seen /\ FromToken /\ PastFirst /\ Replaces /\ Owed
    BY <1>2 DEF IInv, Protocol, ExchangeUnattributed
  <2>a. step[w] = "cas0" /\ tok[w] \in seen /\ tok[w] # 0
    BY <2>0 DEF Replaces, ExchangeUnattributed
  <2>1. FromToken' BY <2>0, <2>a DEF FromToken, ExchangeUnattributed
  <2>2. PastFirst' BY <2>0, <2>a DEF PastFirst, ExchangeUnattributed, IInv, LineTypeOK
  <2>3. Replaces' BY <2>0, <2>a DEF Replaces, ExchangeUnattributed, IInv, LineTypeOK
  <2>4. CASE type = 0
    <3>1. type' = tok[w] /\ type' # 0 /\ seen' = seen
      BY <2>4, <2>a DEF ExchangeUnattributed
    <3>2. ASSUME NEW t \in seen, t # tok[w] PROVE Pending(t)'
      <4>1. PICK v \in Writers : step[v] = "cas0" /\ tok[v] = t
        BY <2>0, <2>4 DEF Owed, Waiting
      <4>2. v # w BY <4>1, <3>2
      <4>. QED BY <4>1, <4>2, <2>4 DEF Pending, ExchangeUnattributed, IInv, LineTypeOK
    <3>. QED BY <3>1, <3>2, <2>1, <2>2, <2>3 DEF Owed
  <2>5. CASE type # 0
    <3>1. type' = type /\ seen' = seen BY <2>5 DEF ExchangeUnattributed
    <3>2. ASSUME NEW t, Pending(t) PROVE Pending(t)'
      BY <3>2, <2>5 DEF Pending, ExchangeUnattributed, IInv, LineTypeOK
    <3>. QED BY <3>1, <3>2, <2>0, <2>1, <2>2, <2>3, <2>5 DEF Owed
  <2>. QED BY <2>1, <2>2, <2>3, <2>4, <2>5
<1>. QED BY <1>1, <1>2 DEF IInv, Protocol

LEMMA TestImmediateKeeps ==
    ASSUME IInv, NEW w \in Writers, TestImmediate(w)
    PROVE  IInv'
<1>1. LineTypeOK' BY DEF IInv, LineTypeOK, TestImmediate
<1>2. ASSUME 0 \notin seen' PROVE (FromToken /\ PastFirst /\ Replaces /\ Owed)'
  <2>0. 0 \notin seen /\ FromToken /\ PastFirst /\ Replaces /\ Owed
    BY <1>2 DEF IInv, Protocol, TestImmediate
  <2>1. FromToken' BY <2>0 DEF FromToken, TestImmediate
  <2>2. PastFirst' BY <2>0 DEF PastFirst, TestImmediate, IInv, LineTypeOK
  <2>3. Replaces' BY <2>0 DEF Replaces, TestImmediate, IInv, LineTypeOK
  <2>4. type # 0 BY <2>0 DEF PastFirst, TestImmediate
  <2>5. ASSUME NEW t, t # Immed, type = Immed, Pending(t) PROVE Pending(t)'
    BY <2>5 DEF Pending, TestImmediate, IInv, LineTypeOK
  <2>6. Owed' BY <2>0, <2>4, <2>5 DEF Owed, TestImmediate
  <2>. QED BY <2>1, <2>2, <2>3, <2>6
<1>. QED BY <1>1, <1>2 DEF IInv, Protocol

LEMMA ExchangeImmediateKeeps ==
    ASSUME IInv, NEW w \in Writers, ExchangeImmediate(w)
    PROVE  IInv'
<1>1. LineTypeOK' BY DEF IInv, LineTypeOK, ExchangeImmediate
<1>2. ASSUME 0 \notin seen' PROVE (FromToken /\ PastFirst /\ Replaces /\ Owed)'
  <2>0. 0 \notin seen /\ FromToken /\ PastFirst /\ Replaces /\ Owed
    BY <1>2 DEF IInv, Protocol, ExchangeImmediate
  <2>a. type # 0 /\ tok[w] \in seen /\ tok[w] # Immed /\ tok[w] # 0
    BY <2>0 DEF PastFirst, Replaces, ExchangeImmediate
  <2>b. type' # 0 /\ type' # Immed
    BY <2>a DEF ExchangeImmediate
  <2>1. FromToken' BY <2>0, <2>a DEF FromToken, ExchangeImmediate
  <2>2. PastFirst' BY <2>b DEF PastFirst
  <2>3. Replaces' BY <2>0 DEF Replaces, ExchangeImmediate, IInv, LineTypeOK
  <2>4. Owed' BY <2>b DEF Owed
  <2>. QED BY <2>1, <2>2, <2>3, <2>4
<1>. QED BY <1>1, <1>2 DEF IInv, Protocol

LEMMA NextIInv == IInv /\ [LineNext]_lineVars => IInv'
<1>. SUFFICES ASSUME IInv, [LineNext]_lineVars PROVE IInv'
  OBVIOUS
<1>1. CASE \E w \in Writers : AttributeStep(w)
  BY <1>1, ExchangeUnattributedKeeps, TestImmediateKeeps, ExchangeImmediateKeeps
     DEF AttributeStep
<1>2. CASE \E w \in Writers : \E t \in Types : StartToken(w, t)
  BY <1>2, StartTokenKeeps
<1>3. CASE Renew
  BY <1>3 DEF Renew, IInv, LineTypeOK, Protocol, FromToken, PastFirst, Replaces, Owed
<1>4. CASE UNCHANGED lineVars
  BY <1>4 DEF lineVars, IInv, LineTypeOK, Protocol, FromToken, PastFirst, Replaces, Owed,
              Waiting, Pending
<1>. QED BY <1>1, <1>2, <1>3, <1>4 DEF LineNext

(* The invariant of the protocol.                                          *)
THEOREM LineInvariance == LineSpec => []IInv
  BY InitIInv, NextIInv, PTL DEF LineSpec

(* When no thread is in the loop, the line has the type of a token, and    *)
(* "immediate" only if all its tokens are: the two exchanges of            *)
(* populateExecMetadata need no lock.                                      *)
THEOREM LineAttribution == LineSpec => []Attributed
<1>1. IInv => Attributed
  BY DEF IInv, Protocol, FromToken, Owed, Waiting, Pending, Attributed
<1>. QED BY <1>1, LineInvariance, PTL

(* A type other than "immediate" stays until the code is loaded again.     *)
THEOREM LineSettled == LineSpec => SettledStays
<1>1. IInv /\ [LineNext]_lineVars =>
        [type \notin {0, Immed} => type' = type \/ (type' = 0 /\ seen' = {})]_lineVars
  BY DEF LineNext, AttributeStep, StartToken, ExchangeUnattributed, TestImmediate,
         ExchangeImmediate, Renew, lineVars
<1>. QED BY <1>1, LineInvariance, PTL DEF LineSpec, SettledStays
=============================================================================
