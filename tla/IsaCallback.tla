---------------------------- MODULE IsaCallback ----------------------------
(***************************************************************************)
(* The instruction callback of the trace decoder and the records built     *)
(* from what it answered: TraceDecoderEmitter::isaCallback, handleWave and *)
(* buildDispatches, over one or more loads of the same process.            *)
(*                                                                         *)
(* PCs of code object 0 are relative: they become addresses by adding      *)
(* arch_offset, a static atomic that the first callback for PC 0 computes  *)
(* under isa_mutex (from the symbols, else from the addresses seeded from  *)
(* code.json) and that handleWave adds without the lock.  The threads of   *)
(* one load run concurrently and are joined before the load goes on.       *)
(*                                                                         *)
(* Only code object 0 is kept: the other code objects use absolute PCs and *)
(* the same rows and cache, without arch_offset.  That the decoder hands   *)
(* over the instructions of a wave only after a callback succeeded for     *)
(* each of their PCs is the decoder's contract (external), as the comment  *)
(* in the callback relies on.                                              *)
(***************************************************************************)
EXTENDS Integers, FiniteSets, FiniteSetsExt

CONSTANTS Threads,     \* threads that decode .att files
          Pcs,         \* PCs of code object 0 that waves execute
          Traces,      \* the traces a user may load: records, see below
          MaxLoads,    \* bound: loads of one process
          Int64Max,    \* INT64_MAX
          NoThread     \* value of an unlocked isa_mutex

(* symbols: the symbol addresses of code object 0, code: the addresses     *)
(* that the disassembler can decode, seeded: the addresses of code.json.   *)
ASSUME TracesAssumption ==
    Traces \subseteq [symbols : SUBSET Nat, code : SUBSET Nat, seeded : SUBSET (Nat \ {0})]
ASSUME PcsAssumption == Pcs \subseteq Nat
ASSUME NoThreadAssumption == NoThread \notin Threads
ASSUME Int64MaxAssumption ==
    Int64Max \in Nat /\ \A t \in Traces : \A a \in t.symbols \cup t.seeded : a < Int64Max

VARIABLES trace,       \* the trace being loaded
          loads,       \* loads begun in this process
          arch_offset, \* static std::atomic<uint64_t>, survives the loads
          isa_cache,   \* addresses of code object 0 with a row (memory_size > 0)
          isa_mutex,   \* owner of the mutex
          pc,          \* thread |-> where it stands
          request,     \* thread |-> PC of the callback in progress
          todo,        \* addresses the loop that sets arch_offset still has to visit
          got,         \* thread |-> PCs of the current wave that were answered
          records,     \* <<PC, address>> of the instructions in wave records
          answered,    \* ghost: some callback for code object 0 succeeded in this process
          entry        \* address registered for a dispatch at PC 0, or -1

vars == <<trace, loads, arch_offset, isa_cache, isa_mutex, pc, request, todo, got,
          records, answered, entry>>

ThreadStates == {"idle", "bysymbol", "byrow", "lookup", "emit"}

(* preSeedIsaCacheFromCodeJson: code.json gives rows before any decoding.  *)
FreshEmitter(t) ==
    /\ trace' = t
    /\ isa_cache' = t.seeded
    /\ isa_mutex' = NoThread
    /\ pc' = [th \in Threads |-> "idle"]
    /\ todo' = {}
    /\ got' = [th \in Threads |-> {}]
    /\ records' = {}
    /\ entry' = -1

Init ==
    /\ trace \in Traces
    /\ loads = 1
    /\ arch_offset = 0
    /\ isa_cache = trace.seeded
    /\ isa_mutex = NoThread
    /\ pc = [th \in Threads |-> "idle"]
    /\ request \in [Threads -> Pcs]
    /\ todo = {}
    /\ got = [th \in Threads |-> {}]
    /\ records = {}
    /\ answered = FALSE
    /\ entry = -1

(***************************************************************************)
(* isaCallback, from lock to unlock.  Operators named Unlocked, Always,    *)
(* Unguarded or Relative are faulty variants of the one that follows them  *)
(* and are used by no action.                                              *)
(***************************************************************************)
StartCallbackAlways(th, a) ==
    /\ request' = [request EXCEPT ![th] = a]
    /\ IF a = 0
         THEN /\ pc' = [pc EXCEPT ![th] = "bysymbol"]
              /\ todo' = trace.symbols
         ELSE /\ pc' = [pc EXCEPT ![th] = "lookup"]
              /\ UNCHANGED todo
    /\ UNCHANGED <<trace, loads, arch_offset, isa_cache, got, records, answered, entry>>

StartCallback(th, a) ==
    /\ request' = [request EXCEPT ![th] = a]
    /\ IF a = 0 /\ arch_offset = 0
         THEN /\ pc' = [pc EXCEPT ![th] = "bysymbol"]
              /\ todo' = trace.symbols
         ELSE /\ pc' = [pc EXCEPT ![th] = "lookup"]
              /\ UNCHANGED todo
    /\ UNCHANGED <<trace, loads, arch_offset, isa_cache, got, records, answered, entry>>

EnterUnlocked(th, a) ==
    /\ pc[th] = "idle" /\ entry = -1
    /\ isa_mutex' = th
    /\ StartCallback(th, a)

Enter(th, a) ==
    /\ pc[th] = "idle" /\ entry = -1
    /\ isa_mutex = NoThread
    /\ isa_mutex' = th
    /\ StartCallback(th, a)

(* for (auto& [_, symbol] : symbols) arch_offset = symbol.vaddr, one store *)
(* for each symbol in the order of the addresses.                          *)
NextSymbol(th) ==
    /\ pc[th] = "bysymbol" /\ todo # {}
    /\ arch_offset' = Min(todo)
    /\ todo' = todo \ {Min(todo)}
    /\ UNCHANGED <<trace, loads, isa_cache, isa_mutex, pc, request, got, records, answered, entry>>

(* No symbol gave an address: fall back on the lowest address of the rows, *)
(* through INT64_MAX.                                                      *)
EndSymbols(th) ==
    /\ pc[th] = "bysymbol" /\ todo = {}
    /\ IF arch_offset = 0 /\ isa_cache # {}
         THEN /\ arch_offset' = Int64Max
              /\ todo' = isa_cache
              /\ pc' = [pc EXCEPT ![th] = "byrow"]
         ELSE /\ pc' = [pc EXCEPT ![th] = "lookup"]
              /\ UNCHANGED <<arch_offset, todo>>
    /\ UNCHANGED <<trace, loads, isa_cache, isa_mutex, request, got, records, answered, entry>>

NextRow(th) ==
    /\ pc[th] = "byrow"
    /\ IF todo = {}
         THEN /\ pc' = [pc EXCEPT ![th] = "lookup"]
              /\ UNCHANGED <<arch_offset, todo>>
         ELSE /\ arch_offset' = Min({arch_offset, Min(todo)})
              /\ todo' = todo \ {Min(todo)}
              /\ UNCHANGED pc
    /\ UNCHANGED <<trace, loads, isa_cache, isa_mutex, request, got, records, answered, entry>>

Address(th) == request[th] + arch_offset

Unlock(th) == isa_mutex' = NoThread /\ pc' = [pc EXCEPT ![th] = "idle"]

(* STATUS_SUCCESS: the row was cached, or is disassembled and cached.      *)
Answer(th) ==
    /\ pc[th] = "lookup" /\ arch_offset # 0
    /\ Address(th) \in isa_cache \cup trace.code
    /\ isa_cache' = isa_cache \cup {Address(th)}
    /\ got' = [got EXCEPT ![th] = @ \cup {request[th]}]
    /\ answered' = TRUE
    /\ Unlock(th)
    /\ UNCHANGED <<trace, loads, arch_offset, request, todo, records, entry>>

(* ERROR_OUT_OF_RESOURCES: the text does not fit the decoder's buffer.  A  *)
(* disassembled row is cached all the same and the decoder may ask again.  *)
AskForLargerBuffer(th) ==
    /\ pc[th] = "lookup" /\ arch_offset # 0
    /\ Address(th) \in isa_cache \cup trace.code
    /\ isa_cache' = isa_cache \cup {Address(th)}
    /\ Unlock(th)
    /\ UNCHANGED <<trace, loads, arch_offset, request, todo, got, records, answered, entry>>

(* ERROR or ERROR_INVALID_ARGUMENT: the decoder gives up the current wave. *)
Refuse(th) ==
    /\ pc[th] = "lookup"
    /\ arch_offset = 0 \/ Address(th) \notin isa_cache \cup trace.code
    /\ got' = [got EXCEPT ![th] = {}]
    /\ Unlock(th)
    /\ UNCHANGED <<trace, loads, arch_offset, isa_cache, request, todo, records, answered, entry>>

(***************************************************************************)
(* handleWave: copy the instructions of the wave, adding arch_offset to    *)
(* each PC of code object 0 with an atomic load and no lock.               *)
(***************************************************************************)
BeginWave(th) ==
    /\ pc[th] = "idle" /\ entry = -1
    /\ got[th] # {}
    /\ pc' = [pc EXCEPT ![th] = "emit"]
    /\ UNCHANGED <<trace, loads, arch_offset, isa_cache, isa_mutex, request, todo, got,
                   records, answered, entry>>

CopyInstruction(th, a) ==
    /\ pc[th] = "emit" /\ a \in got[th]
    /\ records' = records \cup {<<a, a + arch_offset>>}
    /\ got' = [got EXCEPT ![th] = @ \ {a}]
    /\ pc' = IF got'[th] = {} THEN [pc EXCEPT ![th] = "idle"] ELSE pc
    /\ UNCHANGED <<trace, loads, arch_offset, isa_cache, isa_mutex, request, todo, answered, entry>>

(***************************************************************************)
(* After the join: buildDispatches rebases the PC of the dispatches, here  *)
(* a kernel entered at PC 0, and registers it.                             *)
(***************************************************************************)
BuildDispatchesRelative ==
    /\ entry = -1
    /\ \A th \in Threads : pc[th] = "idle"
    /\ entry' = 0
    /\ UNCHANGED <<trace, loads, arch_offset, isa_cache, isa_mutex, pc, request, todo, got,
                   records, answered>>

BuildDispatches ==
    /\ entry = -1
    /\ \A th \in Threads : pc[th] = "idle"
    /\ entry' = 0 + arch_offset
    /\ UNCHANGED <<trace, loads, arch_offset, isa_cache, isa_mutex, pc, request, todo, got,
                   records, answered>>

(* Another trace is opened: a new TraceDecoderEmitter, the same process.   *)
LoadTrace(t) ==
    /\ entry # -1 /\ loads < MaxLoads
    /\ loads' = loads + 1
    /\ FreshEmitter(t)
    /\ UNCHANGED <<arch_offset, request, answered>>

CallbackStep(th) == \/ \E a \in Pcs : Enter(th, a)
                    \/ NextSymbol(th) \/ EndSymbols(th) \/ NextRow(th)
                    \/ Answer(th) \/ AskForLargerBuffer(th) \/ Refuse(th)
WaveStep(th) == BeginWave(th) \/ \E a \in Pcs : CopyInstruction(th, a)

Next == \/ \E th \in Threads : CallbackStep(th) \/ WaveStep(th)
        \/ BuildDispatches
        \/ \E t \in Traces : LoadTrace(t)

Spec == Init /\ [][Next]_vars

(***************************************************************************)
(* Properties.                                                             *)
(***************************************************************************)

(* The offset the symbols and code.json of a trace give: the highest       *)
(* symbol, else the lowest seeded row, else none.                          *)
OffsetOf(t) ==
    LET bySymbol == IF t.symbols = {} THEN 0 ELSE Max(t.symbols) IN
    IF bySymbol # 0 \/ t.seeded = {} THEN bySymbol ELSE Min(t.seeded)

(* Every instruction a wave record holds has a row in the ISA cache, the   *)
(* row the decoder was given for it: buildCodeFromISACache numbers rows    *)
(* and finds the line of each instruction, although handleWave adds        *)
(* arch_offset without isa_mutex.                                          *)
InstructionsHaveRows == \A r \in records : r[2] \in isa_cache

(* The kernel entry that buildDispatches registers and the instructions    *)
(* of the waves of the same load are rebased by the same amount, so that a *)
(* wave's instructions are found under the dispatch that ran them.         *)
DispatchAgreesWithWaves ==
    entry # -1 => \A r \in records : r[2] - r[1] = entry

(* Once a callback has answered for code object 0 the offset is settled:   *)
(* no later callback, of any thread, changes it within the load.           *)
OffsetSettled ==
    [][answered /\ loads' = loads => arch_offset' = arch_offset]_vars

(* "The callback resolves PC addresses by disassembling loaded .out code   *)
(* objects via COMGR, or from code.json if provided"                       *)
(* (trace_decoder_emitter.cpp:199-201): the PCs of a trace are rebased to  *)
(* the code object of that trace.                                          *)
RebasedToLoadedTrace ==
    \A r \in records : r[2] = r[1] + OffsetOf(trace)

(* For the first trace of a process that comment holds: whichever thread   *)
(* asks first, no instruction is rebased by an intermediate value of the   *)
(* loops that set arch_offset.                                             *)
FirstTraceRebased == loads = 1 => RebasedToLoadedTrace
=============================================================================
