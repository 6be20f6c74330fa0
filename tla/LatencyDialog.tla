--------------------------- MODULE LatencyDialog ---------------------------
(***************************************************************************)
(* The memory latency dialog (LatencyAnalysisDialog): a modal dialog whose *)
(* analysis runs on a thread of its own, which reads the wave files of an  *)
(* engine with at most MaxThreads tasks, and its counter samples with one  *)
(* more, then goes on to the next engine.  The thread hands its results to *)
(* the dialog in a queued call; the user may leave the dialog at any time. *)
(*                                                                         *)
(* A folder that cannot be parsed (as against one that lacks a file) is    *)
(* not modelled for the two files the dialog itself reads.                 *)
(***************************************************************************)
EXTENDS LevelLatency

CONSTANTS Engines,      \* shader engines, numbers
          Folders,      \* name |-> what the folder holds
          MaxThreads    \* tasks that read wave files at a time

ASSUME ThreadsExist == MaxThreads \in Nat \ {0}

VARIABLES dialog,       \* "none", "shown", "running", "finished", "leaving" or "destroyed"
          folder,       \* the name of the folder it analyses
          thread,       \* where the analysis thread is
          queue,        \* engines still to be analysed
          active,       \* files being read: index |-> "reading", "read" or "failed"
          launched,     \* nextToLaunch
          waves,        \* the files read: index |-> file
          cu,           \* LoadedWaveData::cu
          perf,         \* the task that reads the samples
          acc,          \* accumulated: counter |-> line |-> measures
          posted,       \* the queued call: "none", "finished" or "error"
          memory        \* {} or {what the memory_latency category shows}

taskVars == <<thread, queue, active, launched, waves, cu, perf, acc>>
dialogVars == <<dialog, folder, taskVars, posted, memory>>

Ascending(S) == SetToSortSeq(S, <)
NoLines == [code \in {} |-> 0]
NothingMeasured == [type \in CounterTypes |-> NoLines]

DialogInit ==
    /\ dialog = "none" /\ folder = ""
    /\ thread = "idle" /\ queue = <<>>
    /\ active = <<>> /\ launched = 0 /\ waves = <<>> /\ cu = -1
    /\ perf = "idle"
    /\ acc = NothingMeasured
    /\ posted = "none"
    /\ memory = {}

-----------------------------------------------------------------------------
OpenDialog(f) ==
    /\ dialog = "none"
    /\ dialog' = "shown"
    /\ folder' = f
    /\ UNCHANGED <<taskVars, posted, memory>>

Contents == Folders[folder]

(* The engines that have samples, and of these the ones with wave files.   *)
AvailableSEs(f) == {e \in f.listed : f.perf[e].there}
EnginesWithWaves(f) == {e \in AvailableSEs(f) : f.files[e] # <<>>}

Analysable(f) ==
    /\ f.filenames /\ f.code
    /\ EnginesWithWaves(f) # {}
    /\ f.names \cap CounterTypes # {}

StartAnalysis ==
    /\ dialog = "shown"
    /\ IF Analysable(Contents)
         THEN /\ dialog' = "running"
              /\ thread' = "next engine"
              /\ queue' = Ascending(EnginesWithWaves(Contents))
              /\ acc' = NothingMeasured
         ELSE /\ dialog' = "leaving"
              /\ UNCHANGED <<thread, queue, acc>>
    /\ UNCHANGED <<folder, active, launched, waves, cu, perf, posted, memory>>

-----------------------------------------------------------------------------
(* The analysis thread.                                                    *)
FilesOf(e) == Contents.files[e]

(* The samples and the first batch of wave files are started.              *)
BeginEngine ==
    LET n == Min({MaxThreads, Len(FilesOf(Head(queue)))}) IN
    /\ thread = "next engine" /\ queue # <<>>
    /\ thread' = "load"
    /\ perf' = "reading"
    /\ active' = [i \in 1 .. n |-> "reading"]
    /\ launched' = n
    /\ waves' = [i \in DOMAIN FilesOf(Head(queue)) |-> [simd |-> 0, insts |-> <<>>]]
    /\ cu' = -1
    /\ UNCHANGED <<dialog, folder, queue, acc, posted, memory>>

(* A task reads its file.                                                  *)
ReadWaveFile(i) ==
    /\ i \in DOMAIN active /\ active[i] = "reading"
    /\ active' = [active EXCEPT ![i] = IF FilesOf(Head(queue))[i].ok THEN "read" ELSE "failed"]
    /\ UNCHANGED <<dialog, folder, thread, queue, launched, waves, cu, perf, acc, posted, memory>>

ReadPerfData ==
    /\ perf = "reading"
    /\ perf' = IF Contents.perf[Head(queue)].ok THEN "read" ELSE "failed"
    /\ UNCHANGED <<dialog, folder, thread, queue, active, launched, waves, cu, acc, posted, memory>>

Without(i) == DOMAIN active \ {i}

(* Faulty: a file is stored where the next one to finish goes.             *)
CollectWaveFileAsItComes(i) ==
    LET f == FilesOf(Head(queue))
        more == launched < Len(f)
        slot == Min({launched - Cardinality(DOMAIN active) + 1, Len(f)})
    IN
    /\ thread = "load" /\ i \in DOMAIN active /\ active[i] = "read"
    /\ waves' = [waves EXCEPT ![slot] = [simd |-> f[slot].simd, insts |-> f[i].insts]]
    /\ cu' = f[i].cu
    /\ active' = [j \in Without(i) \cup (IF more THEN {launched + 1} ELSE {}) |->
                    IF j \in DOMAIN active THEN active[j] ELSE "reading"]
    /\ launched' = IF more THEN launched + 1 ELSE launched
    /\ UNCHANGED <<dialog, folder, thread, queue, perf, acc, posted, memory>>

(* The polling loop takes a file that has been read, whichever it finds    *)
(* first, and starts the next one.                                         *)
CollectWaveFile(i) ==
    LET f == FilesOf(Head(queue))
        more == launched < Len(f)
    IN
    /\ thread = "load" /\ i \in DOMAIN active /\ active[i] = "read"
    /\ waves' = [waves EXCEPT ![i] = [simd |-> f[i].simd, insts |-> f[i].insts]]
    /\ cu' = f[i].cu
    /\ active' = [j \in Without(i) \cup (IF more THEN {launched + 1} ELSE {}) |->
                    IF j \in DOMAIN active THEN active[j] ELSE "reading"]
    /\ launched' = IF more THEN launched + 1 ELSE launched
    /\ UNCHANGED <<dialog, folder, thread, queue, perf, acc, posted, memory>>

(* A file that could not be read: get() throws, and the futures that are   *)
(* destroyed on the way out wait for their tasks.                          *)
CollectFailure(i) ==
    /\ thread = "load" /\ i \in DOMAIN active /\ active[i] = "failed"
    /\ thread' = "unwind"
    /\ active' = [j \in Without(i) |-> active[j]]
    /\ UNCHANGED <<dialog, folder, queue, launched, waves, cu, perf, acc, posted, memory>>

WaveFilesLoaded ==
    /\ thread = "load" /\ DOMAIN active = {}
    /\ thread' = "perf"
    /\ UNCHANGED <<dialog, folder, queue, active, launched, waves, cu, perf, acc, posted, memory>>

Grown(old, new) ==
    [code \in DOMAIN old \cup DOMAIN new |->
        IF code \notin DOMAIN new THEN old[code]
        ELSE IF code \notin DOMAIN old THEN new[code]
        ELSE [latencies |-> old[code].latencies \o new[code].latencies,
              issue |-> old[code].issue + new[code].issue,
              stall |-> old[code].stall + new[code].stall]]

(* The samples are there: the engine is analysed for each counter.         *)
AnalyzeEngine ==
    LET New(type) == Analyze(Contents.perf[Head(queue)].samples, cu, waves, type) IN
    /\ thread = "perf" /\ perf = "read"
    /\ acc' = [type \in CounterTypes |->
                IF type \in Contents.names THEN Grown(acc[type], New(type)) ELSE acc[type]]
    /\ queue' = Tail(queue)
    /\ perf' = "idle"
    /\ thread' = "next engine"
    /\ UNCHANGED <<dialog, folder, active, launched, waves, cu, posted, memory>>

PerfDataFails ==
    /\ thread = "perf" /\ perf = "failed"
    /\ thread' = "unwind"
    /\ UNCHANGED <<dialog, folder, queue, active, launched, waves, cu, perf, acc, posted, memory>>

(* The analysis ends with a call queued for the dialog's thread.           *)
PostFinished ==
    /\ thread = "next engine" /\ queue = <<>>
    /\ posted' = "finished"
    /\ thread' = "done"
    /\ UNCHANGED <<dialog, folder, queue, active, launched, waves, cu, perf, acc, memory>>

PostError ==
    /\ thread = "unwind"
    /\ perf # "reading" /\ \A i \in DOMAIN active : active[i] # "reading"
    /\ posted' = "error"
    /\ thread' = "done"
    /\ active' = <<>> /\ perf' = "idle"
    /\ UNCHANGED <<dialog, folder, queue, launched, waves, cu, acc, memory>>

-----------------------------------------------------------------------------
(* The dialog's thread.                                                    *)
Showing == dialog \in {"running", "leaving"}

(* The lines of the listing that were measured, with the last counter that *)
(* measured them.                                                          *)
LastMeasured(code) ==
    LET by == {type \in CounterTypes : code \in DOMAIN acc[type] /\ acc[type][code].latencies # <<>>}
    IN  IF "LDS" \in by THEN {"LDS"} ELSE by
PerLine(known) ==
    LET codes == {code \in known : LastMeasured(code) # {}}
        TypeOf(code) == CHOOSE type \in LastMeasured(code) : TRUE
    IN  [code \in codes |-> [type |-> TypeOf(code)] @@ acc[TypeOf(code)][code]]

AnalysisFinished(known) ==
    /\ Showing /\ posted = "finished"
    /\ posted' = "none"
    /\ memory' = IF DOMAIN PerLine(known) = {} THEN {}
                 ELSE {[from |-> folder, known |-> known, lines |-> PerLine(known)]}
    /\ dialog' = IF dialog = "running" THEN "finished" ELSE dialog
    /\ UNCHANGED <<folder, taskVars>>

ErrorShown ==
    /\ Showing /\ posted = "error"
    /\ posted' = "none"
    /\ dialog' = "leaving"
    /\ UNCHANGED <<folder, taskVars, memory>>

(* The user closes the dialog, before, during or after the analysis.  A    *)
(* call that is already queued may still be made before exec() returns.    *)
LeaveDialog ==
    /\ dialog \in {"shown", "running", "finished"}
    /\ dialog' = "leaving"
    /\ UNCHANGED <<folder, taskVars, posted, memory>>

ExecReturns ==
    /\ dialog = "leaving"
    /\ dialog' = "destroyed"
    /\ UNCHANGED <<folder, taskVars, posted, memory>>

(* Faulty: the destructor does not wait.                                   *)
DestroyAtOnce ==
    /\ dialog = "destroyed"
    /\ dialog' = "none"
    /\ posted' = "none"
    /\ UNCHANGED <<folder, taskVars, memory>>

(* The destructor waits for the analysis; a call still queued is dropped   *)
(* with the object it was queued for, and the thread's variables are gone. *)
Destroy ==
    /\ dialog = "destroyed"
    /\ thread \in {"idle", "done"}
    /\ dialog' = "none" /\ folder' = ""
    /\ posted' = "none"
    /\ thread' = "idle" /\ queue' = <<>>
    /\ active' = <<>> /\ launched' = 0 /\ waves' = <<>> /\ cu' = -1
    /\ perf' = "idle"
    /\ acc' = NothingMeasured
    /\ UNCHANGED memory

Unpublished ==
    \/ StartAnalysis \/ BeginEngine \/ ReadPerfData
    \/ \E i \in DOMAIN active : ReadWaveFile(i) \/ CollectWaveFile(i) \/ CollectFailure(i)
    \/ WaveFilesLoaded \/ AnalyzeEngine \/ PerfDataFails \/ PostFinished \/ PostError
    \/ ErrorShown \/ ExecReturns \/ Destroy

-----------------------------------------------------------------------------
(* What the lines of the listing should show for a folder: the measure of  *)
(* every measurable instruction of every file, engine by engine.           *)
AgreedCu(f) == \A e \in EnginesWithWaves(f) : \A i, j \in DOMAIN f.files[e] : f.files[e][i].cu = f.files[e][j].cu
EngineMeasures(f, e, type, code) ==
    LET issued  == IssueOrder(f.files[e], type)
        samples == PerfSamples(f.perf[e].samples, f.files[e][1].cu)
        own     == SelectSeq([k \in DOMAIN issued |-> k],
                             LAMBDA k : issued[k].code = code /\ Measurable(issued, samples, type, k))
    IN  [j \in DOMAIN own |-> MeasureOf(issued, samples, type, own[j])]
LineMeasures(f, type, code) ==
    LET order == Ascending(EnginesWithWaves(f))
    IN  FlattenSeq([j \in DOMAIN order |-> EngineMeasures(f, order[j], type, code)])

(* What the dialog publishes as memory latency is the whole result: every  *)
(* file of every engine was read, and each line has the measures of all    *)
(* its instructions, whatever order the tasks finished in and whether or   *)
(* not the dialog was left meanwhile.  (Of folders whose files of an       *)
(* engine name one compute unit: the code keeps the unit of the last file  *)
(* collected.)                                                             *)
Complete(m) ==
    LET f == Folders[m.from]
        types == f.names \cap CounterTypes
    IN
    /\ \A e \in EnginesWithWaves(f) :
          f.perf[e].ok /\ \A i \in DOMAIN f.files[e] : f.files[e][i].ok
    /\ AgreedCu(f) =>
          /\ DOMAIN m.lines = {code \in m.known : \E type \in types : LineMeasures(f, type, code) # <<>>}
          /\ \A code \in DOMAIN m.lines :
                m.lines[code].latencies = LineMeasures(f, m.lines[code].type, code)

ResultsComplete == [][\A m \in memory' \ memory : Complete(m)]_memory

(* Nothing of a dialog that is gone is still at work.                      *)
Quiet == thread = "idle" /\ DOMAIN active = {} /\ perf # "reading" /\ posted = "none"

(* An analysis that runs comes to an end, by itself or because the user    *)
(* leaves; a dialog that is left goes away, and neither its thread nor a   *)
(* task nor a queued call outlives it.                                     *)
DialogEnds ==
    /\ [](dialog = "none" => Quiet)
    /\ dialog = "running" ~> dialog # "running"
    /\ dialog = "leaving" ~> dialog = "none"

(* The two threads and the tasks go on as long as they can.  Of the steps  *)
(* that compute a result it is enough to name the control.                 *)
EngineIsAnalyzed == thread = "perf" /\ perf = "read" /\ thread' = "next engine"
PostedCallIsMade == Showing /\ posted # "none" /\ posted' = "none"

DialogFairness ==
    /\ WF_dialogVars(StartAnalysis)
    /\ WF_dialogVars(BeginEngine \/ WaveFilesLoaded \/ PerfDataFails \/ PostFinished \/ PostError
                     \/ \E i \in DOMAIN active : CollectWaveFile(i) \/ CollectFailure(i))
    /\ WF_thread(EngineIsAnalyzed)
    /\ WF_dialogVars(\E i \in DOMAIN active : ReadWaveFile(i))
    /\ WF_dialogVars(ReadPerfData)
    /\ WF_posted(PostedCallIsMade) /\ WF_dialogVars(ExecReturns) /\ WF_dialogVars(Destroy)
=============================================================================
