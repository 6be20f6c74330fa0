----------------------------- MODULE TraceClock -----------------------------
(***************************************************************************)
(* The pure parts of placing a trace in time: the order in which records   *)
(* are kept, and which code object occupied a wave slot at a time          *)
(* (ActiveCodeobjIndex).                                                   *)
(***************************************************************************)
EXTENDS Ranking, SequencesExt, FiniteSetsExt

(* A list in the order of a key.                                           *)
SortedBy(Key(_), s) == Arranged(s, [i \in DOMAIN s |-> Key(s[i])], DOMAIN s)

(* Faulty: the records keep the order in which they arrived.               *)
ArrivalOrder(s) == s

SortByTime(s) == SortedBy(LAMBDA r : r.time, s)

(* At equal times the end of a wave comes before the start of the next.    *)
OccupancyKey(r) == 2 * r.time + (IF r.start THEN 1 ELSE 0)
SortOccupancy(s) == SortedBy(OccupancyKey, s)

(* The occupancy of one slot among that of its engine.                     *)
SlotOccupancy(q, slot) ==
    Arranged(q, [i \in DOMAIN q |-> OccupancyKey(q[i])], {i \in DOMAIN q : q[i].slot = slot})

(* The code object that occupies a slot at time t: that of the last start  *)
(* of a known code object up to t, if the next record of the slot is not   *)
(* before t.  o is the occupancy of the slot.                              *)
ActiveCodeobj(o, t) ==
    LET Starts == {i \in DOMAIN o : o[i].start /\ o[i].co # 0 /\ o[i].time <= t}
        last   == Max(Starts)
    IN IF Starts = {} THEN 0
       ELSE IF last < Len(o) /\ t > o[last + 1].time THEN 0
       ELSE o[last].co
=============================================================================
