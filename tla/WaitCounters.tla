---------------------------- MODULE WaitCounters ----------------------------
(***************************************************************************)
(* buildWaitcntFromTokens: for the wave that is selected, the connections  *)
(* from each wait instruction to the memory operations it waited for.  The *)
(* program is the wave's code, and the wave executes its lines in any      *)
(* order.  A memory operation is listed under its counter; a wait takes the*)
(* oldest ones of the list, and FLAT operations, which two counters count, *)
(* are in lists of their own.  Operations that complete in any order make  *)
(* their counter parallel, until a wait for 0.                             *)
(*                                                                         *)
(* The lists hold code lines; here they hold slots, that is a place in the *)
(* execution and, for an operation listed twice, which of the two it is.   *)
(* An instruction is its class; a wait has the counters it names as well,  *)
(* and the form and numbers of its text.                                   *)
(***************************************************************************)
EXTENDS Integers, Sequences, FiniteSets, Functions

CONSTANTS Programs,     \* waves to select: [gfxip, code], code a sequence of instructions
          MaxTokens     \* bound: instructions that a wave executes

VARIABLES program,      \* of the wave whose connections are built
          executed,     \* lines of the tokens read so far
          ordering,     \* of each counter: sequential or parallel
          lists,        \* of each counter, and those of FLAT operations
          awaited,      \* counters that the last token, a wait, has still to handle
          mem_unroll    \* the connections

waitVars == <<program, executed, ordering, lists, awaited, mem_unroll>>

Counters == {"lgkm", "vm", "vs", "load", "store", "sample", "ds", "km", "exp", "bvh", "async", "tensor"}
FlatLists == {"flats", "flat_load", "flat_stor", "empty_list"}
ListNames == Counters \cup FlatLists
Slot == [at : Nat \ {0}, slot : {1, 2}]
Connection == [wait : Nat, sources : Seq(Slot)]

NoProgram == [gfxip |-> 0, code |-> <<>>]
Arch == IF program.gfxip = 9 THEN "gfx9" ELSE IF program.gfxip \in {10, 11} THEN "gfx10" ELSE "gfx12"
InstAt(p) == program.code[executed[p]]
IsWait(i) == i.kind = "WAITCNT"

-----------------------------------------------------------------------------
(* Where a class of operations is listed, how often, and which counters it *)
(* makes parallel.                                                         *)
Op(list, slots, parallel) == [list |-> list, slots |-> slots, parallel |-> parallel]
NotMem == Op("empty_list", 0, {})

Gfx9 == [LDS_MSG |-> Op("lgkm", 1, {}),
         SCALAR  |-> Op("lgkm", 1, {"lgkm"}),
         GLOBAL  |-> Op("vm", 1, {}),
         FLAT    |-> Op("flats", 1, {"lgkm", "vm"})]

Gfx10 == [LDS_MSG     |-> Op("lgkm", 1, {}),
          MSG_RTN     |-> Op("lgkm", 2, {}),
          SCALAR      |-> Op("lgkm", 1, {"lgkm"}),
          GLOBAL_LOAD |-> Op("vm", 1, {}),
          GLOBAL_STOR |-> Op("vs", 1, {}),
          FLAT_LOAD   |-> Op("flat_load", 1, {"lgkm", "vm"}),
          FLAT_STOR   |-> Op("flat_stor", 1, {"lgkm", "vs"})]

Gfx12 == [LDS         |-> Op("ds", 1, {}),
          LDS_DIRECT  |-> Op("exp", 1, {}),
          MSG         |-> Op("km", 1, {}),
          MSG_RTN     |-> Op("km", 2, {}),
          SCALAR      |-> Op("km", 1, {"km"}),
          GLOBAL_LOAD |-> Op("load", 1, {}),
          GLOBAL_STOR |-> Op("store", 1, {}),
          FLAT_LOAD   |-> Op("flat_load", 1, {"ds", "load"}),
          FLAT_STOR   |-> Op("flat_stor", 1, {"ds", "store"}),
          BVH         |-> Op("bvh", 1, {}),
          TENSOR      |-> Op("tensor", 1, {}),
          ASYNC       |-> Op("async", 1, {})]

Operations == [gfx9 |-> Gfx9, gfx10 |-> Gfx10, gfx12 |-> Gfx12]
OpOf(i) == IF i.kind \in DOMAIN Operations[Arch] THEN Operations[Arch][i.kind] ELSE NotMem

(* The order in which a wait handles the counters that it names.           *)
Handled == [gfx9  |-> <<"lgkm", "vm">>,
            gfx10 |-> <<"vs", "vm", "lgkm">>,
            gfx12 |-> <<"bvh", "exp", "sample", "km", "store", "load", "tensor", "async", "ds", "idle">>]

(* Faulty: FLAT loads are left to the memory counters.                     *)
FlatsOfMemory(c) ==
    IF Arch = "gfx9" THEN "flats"
    ELSE IF c \in {"vs", "store"} THEN "flat_stor"
    ELSE IF c \in {"vm", "load"} THEN "flat_load"
    ELSE "empty_list"

(* The FLAT operations that a wait on counter c takes, and those that it   *)
(* takes as well if there was anything to take.                            *)
FlatsOf(c) ==
    IF Arch = "gfx9" THEN "flats"
    ELSE IF c \in {"vs", "store"} THEN "flat_stor"
    ELSE IF c \in {"vm", "load", "lgkm", "ds"} THEN "flat_load"
    ELSE "empty_list"
AlsoOf(c) == IF Arch # "gfx9" /\ c \in {"lgkm", "ds"} THEN "flat_stor" ELSE "empty_list"

(* extract_waitcnt: only the number that follows the counter's name is read*)
(* and so that of `s_waitcnt_vscnt null, n' and of the first counter of    *)
(* `s_wait_loadcnt_dscnt n' are 0, and that of the second is n.            *)
Extract(i, c) ==
    CASE i.form = "text" -> i.counts[c]
      [] i.form = "null" -> 0
      [] i.form = "pair" -> IF c = "ds" THEN i.immediate ELSE 0

ProgramsAssumption ==
    /\ NoProgram \notin Programs
    /\ \A p \in Programs :
          /\ DOMAIN p.code \subseteq Nat
          /\ \A l \in DOMAIN p.code : IsWait(p.code[l]) =>
                /\ \A c \in p.code[l].counters \ {"idle"} : Extract(p.code[l], c) \in Nat
                /\ "idle" \in p.code[l].counters => p.code[l].counters = {"idle"}
ASSUME ProgramsAssumption

-----------------------------------------------------------------------------
NoneListed == [l \in ListNames |-> <<>>]
NoProgress ==
    /\ executed = <<>>
    /\ ordering = [c \in Counters |-> "sequential"]
    /\ lists = NoneListed
    /\ awaited = {}
    /\ mem_unroll = <<>>

WaitInit == program = NoProgram /\ NoProgress

(* buildWaitcnt for a wave without connections.                            *)
SelectWave(p) ==
    /\ program = NoProgram
    /\ program' = p
    /\ UNCHANGED <<executed, ordering, lists, awaited, mem_unroll>>

NextToken(line) ==
    /\ program # NoProgram
    /\ awaited = {}
    /\ Len(executed) < MaxTokens
    /\ executed' = Append(executed, line)
    /\ UNCHANGED program

Push(list, op, at) ==
    CASE op.slots = 0 -> list
      [] op.slots = 1 -> Append(list, [at |-> at, slot |-> 1])
      [] op.slots = 2 -> Append(Append(list, [at |-> at, slot |-> 1]), [at |-> at, slot |-> 2])

IssueOp(line) ==
    /\ ~IsWait(program.code[line])
    /\ NextToken(line)
    /\ LET op == OpOf(program.code[line])
       IN  /\ lists' = [lists EXCEPT ![op.list] = Push(@, op, Len(executed) + 1)]
           /\ ordering' = [c \in Counters |-> IF c \in op.parallel THEN "parallel" ELSE ordering[c]]
    /\ UNCHANGED <<awaited, mem_unroll>>

BeginWait(line) ==
    /\ IsWait(program.code[line])
    /\ NextToken(line)
    /\ awaited' = program.code[line].counters \cap Range(Handled[Arch])
    /\ UNCHANGED <<ordering, lists, mem_unroll>>

RankOf(c) == CHOOSE k \in DOMAIN Handled[Arch] : Handled[Arch][k] = c
NextAwaited(c) == c \in awaited /\ \A d \in awaited : RankOf(c) <= RankOf(d)
Wanted(c) == Extract(InstAt(Len(executed)), c)

(* A count of completions says nothing of operations that complete in any  *)
(* order, unless it is 0.                                                  *)
PassCounter(c) ==
    /\ NextAwaited(c) /\ c # "idle"
    /\ Wanted(c) # 0
    /\ ordering[c] = "parallel"
    /\ awaited' = awaited \ {c}
    /\ UNCHANGED <<program, executed, ordering, lists, mem_unroll>>

(* join_and_reset: the oldest of the list, so that n are left.             *)
Taken(list, n) == IF n >= Len(list) THEN <<>> ELSE SubSeq(list, 1, Len(list) - n)

(* Faulty: what a wait takes stays listed.                                 *)
RestListed(list, n) == list

Rest(list, n) == IF n >= Len(list) THEN list ELSE SubSeq(list, Len(list) - n + 1, Len(list))

(* handle_mem_op for the counter with its FLAT operations.  The second call*)
(* for lgkm and ds, made if the first one took anything, finds no more than*)
(* n in the list and takes the FLAT stores only.                           *)
JoinCounter(c) ==
    /\ NextAwaited(c) /\ c # "idle"
    /\ Wanted(c) = 0 \/ ordering[c] = "sequential"
    /\ LET first  == lists[FlatsOf(c)] \o Taken(lists[c], Wanted(c))
           joined == IF first = <<>> THEN {FlatsOf(c)} ELSE {FlatsOf(c), AlsoOf(c)}
       IN  /\ lists' = [l \in ListNames |->
                          IF l = c THEN Rest(lists[c], Wanted(c))
                          ELSE IF l \in joined THEN <<>> ELSE lists[l]]
           /\ mem_unroll' = IF first = <<>> THEN mem_unroll
                            ELSE Append(mem_unroll, [wait |-> Len(executed), sources |-> first \o lists[AlsoOf(c)]])
    /\ ordering' = IF Wanted(c) = 0 THEN [ordering EXCEPT ![c] = "sequential"] ELSE ordering
    /\ awaited' = awaited \ {c}
    /\ UNCHANGED <<program, executed>>

(* s_wait_idle takes what the counters list, but no FLAT operations.       *)
WaitIdle ==
    /\ NextAwaited("idle")
    /\ mem_unroll' = Append(mem_unroll,
           [wait |-> Len(executed),
            sources |-> lists["load"] \o lists["store"] \o lists["sample"] \o lists["ds"] \o lists["km"]
                        \o lists["exp"] \o lists["bvh"] \o lists["tensor"] \o lists["async"]])
    /\ lists' = [l \in ListNames |-> IF l \in Counters THEN <<>> ELSE lists[l]]
    /\ awaited' = awaited \ {"idle"}
    /\ UNCHANGED <<program, executed, ordering>>

(* The connections are those of the wave, and the lists are gone.          *)
EndWaits ==
    /\ program # NoProgram
    /\ awaited = {}
    /\ program' = NoProgram
    /\ executed' = <<>>
    /\ ordering' = [c \in Counters |-> "sequential"]
    /\ lists' = NoneListed
    /\ mem_unroll' = <<>>
    /\ UNCHANGED awaited

ReadToken == \E line \in DOMAIN program.code : IssueOp(line) \/ BeginWait(line)
HandleCounter == (\E c \in awaited : PassCounter(c) \/ JoinCounter(c)) \/ WaitIdle

WaitNext ==
    \/ \E p \in Programs : SelectWave(p)
    \/ ReadToken
    \/ HandleCounter
    \/ EndWaits

WaitSpec == WaitInit /\ [][WaitNext]_waitVars

-----------------------------------------------------------------------------
WaitTypeOK ==
    /\ executed \in Seq(Nat)
    /\ ordering \in [Counters -> {"sequential", "parallel"}]
    /\ lists \in [ListNames -> Seq(Slot)]
    /\ awaited \subseteq Counters \cup {"idle"}
    /\ mem_unroll \in Seq(Connection)

(* However waits on several counters share out the lists, an operation is  *)
(* connected once for each time it counts, and to a later wait: no slot is *)
(* in two connections, twice in one, or connected and still listed.        *)
LinkedOnce ==
    \A e \in DOMAIN mem_unroll : LET s == mem_unroll[e].sources IN
        /\ IsInjective(s)
        /\ \A x \in Range(s) : x.at < mem_unroll[e].wait
        /\ \A f \in DOMAIN mem_unroll \ {e} : Range(s) \cap Range(mem_unroll[f].sources) = {}
        /\ \A l \in ListNames : Range(s) \cap Range(lists[l]) = {}

-----------------------------------------------------------------------------
(***************************************************************************)
(* The reference: what a wait guarantees, read off the execution.          *)
(***************************************************************************)
Waits == {w \in DOMAIN executed : IsWait(InstAt(w))}
Mem == {p \in DOMAIN executed : ~IsWait(InstAt(p))}
Names(w, c) == w \in Waits /\ c \in InstAt(w).counters \cap Range(Handled[Arch])
ForZero(w, c) == Names(w, c) /\ Extract(InstAt(w), c) = 0

SlotsOf(l) == {[at |-> p, slot |-> k] : p \in {q \in Mem : OpOf(InstAt(q)).list = l}, k \in {1, 2}}
Issued(l) == {s \in SlotsOf(l) : s.slot <= OpOf(InstAt(s.at)).slots}

(* Counts of c mean nothing from an unordered operation to a wait for 0.   *)
Unordered(w, c) ==
    \E p \in Mem : /\ p < w
                   /\ c \in OpOf(InstAt(p)).parallel
                   /\ \A z \in p .. w - 1 : ~ForZero(z, c)

Decides(w, c) == ForZero(w, c) \/ (Names(w, c) /\ ~Unordered(w, c))

(* The operations of c that a wait at w may leave running if s may run.    *)
Later(w, c, s) == {t \in Issued(c) : t.at < w /\ (t.at > s.at \/ (t.at = s.at /\ t.slot > s.slot))}

(* The wait at w guarantees the operation in slot s of c.                  *)
Guarantees(w, c, s) ==
    /\ s.at < w
    /\ \/ Names(w, "idle")
       \/ Decides(w, c) /\ Extract(InstAt(w), c) <= Cardinality(Later(w, c, s))

OwnLinks(w, c) ==
    {s \in Issued(c) : Guarantees(w, c, s) /\ \A v \in s.at .. w - 1 : ~Guarantees(v, c, s)}

(* FLAT loads are counted by two counters: waiting for either is enough.   *)
LoadCounters == {"lgkm", "vm", "ds", "load"}
LoadLinks(w) ==
    {s \in Issued("flats") \cup Issued("flat_load") :
        /\ s.at < w
        /\ \E c \in LoadCounters : ForZero(w, c)
        /\ \A v \in s.at .. w - 1 : \A c \in LoadCounters : ~ForZero(v, c)}

(* FLAT stores too, except that a wait on lgkm or ds is enough only if it  *)
(* connects something else, and is then whatever its count.                *)
EndsStores(w) ==
    \/ \E c \in {"vs", "store"} : ForZero(w, c)
    \/ \E c \in {"lgkm", "ds"} :
          /\ Decides(w, c)
          /\ \/ OwnLinks(w, c) # {}
             \/ LoadLinks(w) # {} /\ \A d \in {"vm", "load"} : ~ForZero(w, d)
StoreLinks(w) ==
    {s \in Issued("flat_stor") : s.at < w /\ EndsStores(w) /\ \A v \in s.at .. w - 1 : ~EndsStores(v)}

(* After each token a wait is connected to exactly the operations that it  *)
(* is the first to guarantee, by the counts that are read of its text, and *)
(* only s_wait_idle is shown without any.                                  *)
WaitsExact ==
    awaited = {} =>
      /\ \A w \in Waits :
            UNION {Range(mem_unroll[e].sources) : e \in {f \in DOMAIN mem_unroll : mem_unroll[f].wait = w}}
              = (UNION {OwnLinks(w, c) : c \in Counters}) \cup LoadLinks(w) \cup StoreLinks(w)
      /\ \A e \in DOMAIN mem_unroll :
            \/ mem_unroll[e].sources # <<>>
            \/ Names(mem_unroll[e].wait, "idle")
=============================================================================
