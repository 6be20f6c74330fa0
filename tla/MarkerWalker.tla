---------------------------- MODULE MarkerWalker ----------------------------
(***************************************************************************)
(* walkMarkerStream: the instrumentation markers that a wave slot wrote    *)
(* into its shader-data stream are turned into spans.  A record enters a   *)
(* scope, exits the innermost one, does both ("transition") or marks a     *)
(* point.  The records of one slot are walked in the order of their times, *)
(* one step per record; the scopes still open at the end are then closed   *)
(* from the inside out with the latest representable time.                 *)
(*                                                                         *)
(* A record carries what the resolver answers for its marker id: "absent"  *)
(* is metadata_available = false, a payload that is not taken for a        *)
(* marker.  The diagnostics of the walk are left out.                      *)
(***************************************************************************)
EXTENDS Integers, SequencesExt

CONSTANTS TimeMax,      \* INT64_MAX
          MarkerIds     \* marker ids

ASSUME TimeMaxIsInt == TimeMax \in Int

Ops == {"enter", "exit", "transition", "point"}
Answers == {"absent", "unknown", "found"}

VARIABLES stream,       \* records: the slot's shader-data records
          next,         \* position of the record to walk
          stack,        \* stack
          spans         \* out_spans

walkVars == <<stream, next, stack, spans>>

MarkerRecord == [time : {t \in Int : t <= TimeMax}, op : Ops, id : MarkerIds,
                 answer : Answers]
Frame == [id : MarkerIds, known : BOOLEAN, enter : Int, depth : Nat]
Span == [id : MarkerIds, known : BOOLEAN, enter : Int, exit : Int, depth : Nat,
         form : {"closed", "point", "open"}]

TimeOrdered(s) == \A i, j \in DOMAIN s : i < j => s[i].time <= s[j].time

WalkTypeOK ==
    /\ stream \in Seq(MarkerRecord)
    /\ next \in 1 .. Len(stream) + 1
    /\ stack \in Seq(Frame)
    /\ spans \in Seq(Span)

(* The walk of the records s begins.                                       *)
Walking(s) ==
    /\ stream = s
    /\ next = 1
    /\ stack = <<>>
    /\ spans = <<>>

-----------------------------------------------------------------------------
(* The frame that record r opens at the given depth, the span that a frame *)
(* leaves when it is closed, and the span of a point.                      *)
FrameOf(r, depth) == [id |-> r.id, known |-> r.answer = "found", enter |-> r.time,
                      depth |-> depth]
Close(f, t, form) == [id |-> f.id, known |-> f.known, enter |-> f.enter, exit |-> t,
                      depth |-> f.depth, form |-> form]
PointSpan(r, depth) == Close(FrameOf(r, depth), r.time, "point")

Reading(op) ==
    /\ next <= Len(stream)
    /\ stream[next].op = op
    /\ next' = next + 1
    /\ UNCHANGED stream

(* A payload that is not taken for a marker, and an exit from nothing,     *)
(* leave no trace.                                                         *)
SkipRecord ==
    /\ \/ Reading("exit") /\ stack = <<>>
       \/ Reading("transition") /\ stack = <<>> /\ stream[next].answer = "absent"
       \/ Reading("enter") /\ stream[next].answer = "absent"
       \/ Reading("point") /\ stream[next].answer = "absent"
    /\ UNCHANGED <<stack, spans>>

Enter ==
    /\ Reading("enter")
    /\ stream[next].answer # "absent"
    /\ stack' = Append(stack, FrameOf(stream[next], Len(stack)))
    /\ UNCHANGED spans

(* Faulty: the outermost scope is closed.                                  *)
ExitOutermost ==
    /\ Reading("exit")
    /\ stack # <<>>
    /\ spans' = Append(spans, Close(Head(stack), stream[next].time, "closed"))
    /\ stack' = Tail(stack)

Exit ==
    /\ Reading("exit")
    /\ stack # <<>>
    /\ spans' = Append(spans, Close(Last(stack), stream[next].time, "closed"))
    /\ stack' = Front(stack)

Transition ==
    LET r == stream[next] IN
    /\ Reading("transition")
    /\ stack # <<>>
    /\ spans' = Append(spans, Close(Last(stack), r.time, "closed"))
    /\ IF r.answer = "absent"
         THEN stack' = Front(stack)
         ELSE stack' = Append(Front(stack), FrameOf(r, Len(stack) - 1))

TransitionFromNothing ==
    LET r == stream[next] IN
    /\ Reading("transition")
    /\ stack = <<>>
    /\ r.answer # "absent"
    /\ stack' = <<FrameOf(r, 0)>>
    /\ UNCHANGED spans

MarkPoint ==
    /\ Reading("point")
    /\ stream[next].answer # "absent"
    /\ spans' = Append(spans, PointSpan(stream[next], Len(stack)))
    /\ UNCHANGED stack

(* The trace ended with scopes still open.                                 *)
CloseOpen ==
    /\ next > Len(stream)
    /\ stack # <<>>
    /\ spans' = Append(spans, Close(Last(stack), TimeMax, "open"))
    /\ stack' = Front(stack)
    /\ UNCHANGED <<stream, next>>

Walked == next > Len(stream) /\ stack = <<>>

WalkStep == SkipRecord \/ Enter \/ Exit \/ Transition
              \/ TransitionFromNothing \/ MarkPoint \/ CloseOpen

(* The walk of one stream after another.                                   *)
WalkInit == stream \in Seq(MarkerRecord) /\ TimeOrdered(stream) /\ Walking(stream)

BeginWalk(s) ==
    /\ Walked
    /\ stream' = s
    /\ next' = 1
    /\ stack' = <<>>
    /\ spans' = <<>>

WalkNext ==
    \/ WalkStep
    \/ BeginWalk(stream') /\ stream' \in Seq(MarkerRecord) /\ TimeOrdered(stream')

WalkSpec == WalkInit /\ [][WalkNext]_walkVars

(***************************************************************************)
(* Properties.                                                             *)
(***************************************************************************)

(* Of two spans in the order they were emitted: at the same depth, or when *)
(* the earlier one is further out, the earlier ends before the later one   *)
(* begins; an earlier span further in lies within the later one or ends    *)
(* before it begins.                                                       *)
Laminar(sp) ==
    \A i, j \in DOMAIN sp : i < j =>
        \/ sp[i].exit <= sp[j].enter
        \/ /\ sp[i].depth > sp[j].depth
           /\ sp[j].enter <= sp[i].enter
           /\ sp[i].exit <= sp[j].exit

(* A span below the top level lies in one of the level above it, or in the *)
(* frame of that level that is still open.                                 *)
HasParent(st, sp, i) ==
    \/ sp[i].depth = 0
    \/ sp[i].depth <= Len(st) /\ st[sp[i].depth].enter <= sp[i].enter
    \/ \E j \in DOMAIN sp : /\ j > i
                            /\ sp[j].depth = sp[i].depth - 1
                            /\ sp[j].enter <= sp[i].enter
                            /\ sp[i].exit <= sp[j].exit

(* Whatever the stream - exits without a scope, transitions from nothing,  *)
(* payloads that are skipped, scopes never closed - the spans of a slot    *)
(* are intervals that nest like calls, at the depths drawn for them.       *)
SpansNest == Laminar(spans) /\ \A i \in DOMAIN spans : HasParent(stack, spans, i)
=============================================================================
