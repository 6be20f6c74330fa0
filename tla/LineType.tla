------------------------------ MODULE LineType ------------------------------
(***************************************************************************)
(* How the type of one code line is attributed by the threads that build   *)
(* WaveInstance objects: the loop over the tokens in                       *)
(* WaveInstance::populateExecMetadata.  CodeData::Line is shared by all    *)
(* waves of a trace and its `type' is a relaxed atomic.  A token of type t *)
(* executes                                                                *)
(*     if (!CAS(0, t) && type == 9 && t != 9) CAS(9, t)                    *)
(* where 0 is a line nobody attributed and 9 is the "immediate" token type *)
(* that gives way to any other; each of the three accesses is a step.      *)
(***************************************************************************)
EXTENDS Naturals

CONSTANTS Writers,    \* threads that build waves
          Types       \* token types of the line

Immed == 9

VARIABLES type,       \* Line::type
          step,       \* writer |-> where it stands
          tok,        \* writer |-> type of the token it attributes
          seen        \* ghost: types of the tokens attributed so far

lineVars == <<type, step, tok, seen>>

LineTypeOK ==
    /\ type \in Types \cup {0}
    /\ step \in [Writers -> {"idle", "cas0", "test", "cas9"}]
    /\ tok \in [Writers -> Types]
    /\ seen \subseteq Types

LineInit ==
    /\ type = 0
    /\ step = [w \in Writers |-> "idle"]
    /\ tok \in [Writers -> Types]
    /\ seen = {}

(* The loop reaches a token of this line.                                  *)
StartToken(w, t) ==
    /\ step[w] = "idle"
    /\ step' = [step EXCEPT ![w] = "cas0"]
    /\ tok' = [tok EXCEPT ![w] = t]
    /\ seen' = seen \cup {t}
    /\ UNCHANGED type

ExchangeUnattributed(w) ==
    /\ step[w] = "cas0"
    /\ IF type = 0
         THEN /\ type' = tok[w]
              /\ step' = [step EXCEPT ![w] = "idle"]
         ELSE /\ step' = [step EXCEPT ![w] = "test"]
              /\ UNCHANGED type
    /\ UNCHANGED <<tok, seen>>

TestImmediate(w) ==
    /\ step[w] = "test"
    /\ step' = [step EXCEPT ![w] = IF type = Immed /\ tok[w] # Immed THEN "cas9" ELSE "idle"]
    /\ UNCHANGED <<type, tok, seen>>

(* Faulty: the second exchange expects an unattributed line again.         *)
ExchangeImmediateTooLate(w) ==
    /\ step[w] = "cas9"
    /\ type' = IF type = 0 THEN tok[w] ELSE type
    /\ step' = [step EXCEPT ![w] = "idle"]
    /\ UNCHANGED <<tok, seen>>

(* Faulty: a plain store in place of the second exchange.                  *)
StoreImmediate(w) ==
    /\ step[w] = "cas9"
    /\ type' = tok[w]
    /\ step' = [step EXCEPT ![w] = "idle"]
    /\ UNCHANGED <<tok, seen>>

ExchangeImmediate(w) ==
    /\ step[w] = "cas9"
    /\ type' = IF type = Immed THEN tok[w] ELSE type
    /\ step' = [step EXCEPT ![w] = "idle"]
    /\ UNCHANGED <<tok, seen>>

AttributeStep(w) == ExchangeUnattributed(w) \/ TestImmediate(w) \/ ExchangeImmediate(w)

(* The cached code is dropped and loaded again: new Line objects.          *)
Renew ==
    /\ \A w \in Writers : step[w] = "idle"
    /\ type' = 0
    /\ seen' = {}
    /\ UNCHANGED <<step, tok>>

LineNext ==
    \/ \E w \in Writers : AttributeStep(w) \/ \E t \in Types : StartToken(w, t)
    \/ Renew

LineSpec == LineInit /\ [][LineNext]_lineVars

(***************************************************************************)
(* Properties.                                                             *)
(***************************************************************************)

(* Whatever the interleaving of the threads, when they are done the line   *)
(* has the type of one of its tokens, and it is "immediate" only if all    *)
(* its tokens were.  (A token of type 0 can undo an attribution: the first *)
(* exchange then fails on 9, and a second thread resets 9 to 0.)           *)
Attributed ==
    (\A w \in Writers : step[w] = "idle") /\ seen # {} /\ 0 \notin seen =>
        /\ type \in seen
        /\ type = Immed => seen = {Immed}

(* A line whose type is settled keeps it: the colour of an instruction     *)
(* does not depend on how many more waves are loaded.                      *)
SettledStays ==
    [][type \notin {0, Immed} => type' = type \/ (type' = 0 /\ seen' = {})]_lineVars
=============================================================================
