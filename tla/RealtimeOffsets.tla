-------------------------- MODULE RealtimeOffsets --------------------------
(***************************************************************************)
(* How far the clock of each shader engine is shifted                      *)
(* (realtimeAlignmentOffsets).  An engine samples pairs of its own clock,  *)
(* `time', and the common real-time clock, `rc'; rt is what the engines    *)
(* sampled.  The shifts are computed with doubles and truncated.           *)
(***************************************************************************)
EXTENDS Doubles, SequencesExt

(* The sample with the least, and with the greatest, shader clock; of      *)
(* equal ones the first that arrived.                                      *)
FirstAnchor(q) ==
    q[CHOOSE i \in DOMAIN q : \A j \in DOMAIN q :
        q[i].time < q[j].time \/ (q[i].time = q[j].time /\ i <= j)]
LastAnchor(q) ==
    q[CHOOSE i \in DOMAIN q : \A j \in DOMAIN q :
        q[i].time > q[j].time \/ (q[i].time = q[j].time /\ i <= j)]

(* The engines whose samples span an interval, and the ticks of the two    *)
(* clocks over all of them: rc advances by RealTicks while time advances   *)
(* by ShaderTicks.                                                         *)
Spanning(rt) ==
    {s \in DOMAIN rt : /\ LastAnchor(rt[s]).time > FirstAnchor(rt[s]).time
                       /\ FirstAnchor(rt[s]).time > 0
                       /\ LastAnchor(rt[s]).rc > FirstAnchor(rt[s]).rc}
ShaderTicks(rt) ==
    25 + SumFunction([s \in Spanning(rt) |-> LastAnchor(rt[s]).time - FirstAnchor(rt[s]).time])
RealTicks(rt) ==
    1 + SumFunction([s \in Spanning(rt) |-> LastAnchor(rt[s]).rc - FirstAnchor(rt[s]).rc])

(* k: the real time of a cycle.                                            *)
Rate(rt) == Division(Double(RealTicks(rt)), Double(ShaderTicks(rt)))

(* Faulty: the real time is that of the sample which arrived first.        *)
OriginOfFirstArrived(rt, s) ==
    MinusProduct(Double(rt[s][1].rc), Double(FirstAnchor(rt[s]).time), Rate(rt))

(* The real time at which the clock of engine s was 0.                     *)
Origin(rt, s) ==
    MinusProduct(Double(FirstAnchor(rt[s]).rc), Double(FirstAnchor(rt[s]).time), Rate(rt))
Earliest(rt) == Min({Origin(rt, s) : s \in DOMAIN rt})
FromEarliest(rt, s) == Difference(Origin(rt, s), Earliest(rt))

(* The shifts, in cycles, of the engines with samples; none at all when    *)
(* fewer than two have any.                                                *)
Offsets(samples) ==
    LET sampled == {s \in DOMAIN samples : samples[s] # <<>>}
        rt      == [s \in sampled |-> samples[s]]
    IN IF Cardinality(sampled) < 2 \/ Rate(rt) <= 0
         THEN [s \in {} |-> 0]
         ELSE [s \in sampled |-> Truncate(Division(FromEarliest(rt, s), Rate(rt)))]
=============================================================================
