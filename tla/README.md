# Formal models of ROCprof Compute Viewer

ROCprof Compute Viewer (RCV) shows thread traces of AMD GPUs: one main window on
the user-interface thread, a data layer that decodes a capture into a
`DataStore`, analyses over what was decoded, and threads that the data layer and
the window start for decoding, for building waves, for drawing connections and
for the memory latency dialog. The modules here model the parts where those
threads, the caches, the failing steps of a load and the arithmetic of the
analyses interact, check them with TLC on small instances, and prove most of the
results with TLAPS for all instances.

`PROJECT.json` lists components, runs, mutants, hazards, findings, theorems, and
for each definition the source lines it stands for.

To repeat a run: `tlc -config MC_AttPool.cfg MC_AttPool`; to repeat a proof:
`tlapm Loading_proofs.tla`.

## 1. Inventory

State, operations and interactions of each part, what is hard about it, and what
makes it correct. "UI thread" is the Qt event loop; handlers run one at a time
on it.

| Part | State | Operations | Interacts with | Hard | Correct when |
|---|---|---|---|---|---|
| ATT decoding pool (`parseATTFiles`) | list of files, `inflight_bytes`, semaphore, threads, parse errors | admit a file, decode, report, free, join | decoder library, `DataStore` | byte counter polled while lowered, every exit path, join | within both limits, returns, nothing missing silently |
| ISA callback (`isaCallback`) | `isa_mutex`, static `arch_offset`, ISA cache | compute the offset, disassemble, answer | decoder threads, `handleWave`, `buildDispatches` | unlocked reads of a value that a lock protects, a static that outlives a load | each instruction finds its row |
| Rest of the emitter | code objects, ids of rows | dispatch records, align clocks, resolve markers | `DataStore` | order of the passes | rows and records agree |
| Wave cache (`WaveInstance::Get`) | `reader_cache`, code cache | look up, build, insert, invalidate | `GatherWaves` tasks, hotspot, code lines | lookup and insert are two critical sections | current, one object for a wave, each counted once |
| Code line attribution | `CodeData::Line::type` | exchanges by builders | wave cache | relaxed atomics, three accesses | type of one of the tokens |
| Wave selection and range | `main_wave`, engine, range fields, loaded range | `SetMainWave`, `UpdateWaveViewRange`, `GatherWaves` | selectors, canvas threads | skipped gathering, unbuildable waves | rows contain the wave and are of its engine |
| Connection canvas | arrows, branches, queued calls | build, skip, apply | selection | check against a value a queued call replaces | arrows are of the wave |
| Load session (`LoadInput`) | paths, `data_store`, caches, selectors, change key | open, attach, reload, restore | everything | a dozen early returns after state was changed | what is shown is what is open |
| Input detection | none | path to input | load session | reload detects again | same path, same input |
| Realtime alignment | anchors, offsets, record maps | compute, apply | `DataStore` | apply once, to all or to none; truncation | clocks of engines agree |
| Active code object index | intervals by hardware slot | build, look up | occupancy records, markers | inclusive ends, ties, shifted times | finds the kernel that ran |
| Marker walker, shader data | stack by hardware slot, spans | enter, exit, transition, point | alignment, code objects | orphan exits, missing metadata | spans nest |
| Dispatch resolver | kernel ids by PC and name | register, alias, resolve | emitters, plots, global view | ids from two sources | an id has one kernel |
| Record dispatcher and handlers | store mutexes | append, sort | pool threads | appends of several threads | no record lost, any order gives one result |
| JSON emitter, SPM loading | none shared | translate files to records and tensors | load session | input formats | as specified by the formats |
| Derived counters | definitions, context with its cache, curves | parse, evaluate, hide curves | counter plot | stale cache, errors in the middle, masks | a curve is what its definition means |
| Wait counts | outstanding operations per counter | read a token, take operations at a wait | selected wave | counters that become unordered, operations counted twice | each wait is linked to what it waited for |
| Hidden latency | busy periods by pipe, results by line | merge, sum up, fail | code listing | touching and containing periods, waves that cannot be read | exact, of all waves or of none |
| Memory latency and its dialog | results by line, thread, tasks, queued call | load files, analyse, post, close | annotations | closing during the task, order of completion | complete results or none, nothing outlives the dialog |
| Annotations, code list, hotspots | registry of categories, selector, lines | publish, clear, select, populate | analyses | every analysis makes another part stale | what is shown is current |
| Global view and plots | rows, lanes, curves, filters | build, lay out, filter | dispatch resolver | items that touch, hidden items | no overlap, names and counts agree |
| Flame graphs, other widgets, configuration | widgets | draw, search, scroll | UI thread only | none across threads | look right |

Interactions:

1. `LoadInput` asks the detector for an input, builds a new `DataStore` and runs
   an emitter on it. For ATT captures the emitter starts the pool; pool threads
   call back into `isaCallback` and the record handlers; after the join the
   emitter aligns, sorts and resolves what they stored, without locks.
2. `LoadInputImpl` then rebuilds the selectors. Building them selects a first
   wave, which goes through `SetMainWave` into the wave cache, the canvas
   threads and `GatherWaves`, whose tasks share the wave cache, the lines of the
   code and the hotspot.
3. Canvas threads and the memory latency thread post queued calls to the UI
   thread, which applies them when the event loop next runs.
4. Plots, the global view, hidden latencies and wait counts are computed on the
   UI thread, each to completion, from the store or the selected wave. What they
   find is published as categories that the code listing can show.

## 2. Modules and the code they model

| Module | Models | State |
|---|---|---|
| `AttPool` | `TraceDecoderEmitter::parseATTFiles` | `main`, `worker` are the positions of the loading thread and of each decoding thread; `inflight`, `permits` the two shared counters; `errors` the parse errors by file |
| `IsaCallback` | `isaCallback`, the copy loop of `handleWave`, `buildDispatches` | `arch_offset` (survives `LoadTrace`), `isa_cache`, `isa_mutex`; `records` the instructions in wave records |
| `Ranking` | `std::sort` and `erase(remove_if)`, as the positions of a list in the order of their keys | none: operators |
| `Doubles` | the type `double`: what its operations round to | none: operators |
| `RealtimeOffsets` | `realtimeAlignmentOffsets` | none: operators |
| `TraceClock` | the sorts of the handlers, `ActiveCodeobjIndex` | none: operators |
| `MarkerWalker` | `walkMarkerStream` | the `stream` of one slot, the `stack` of open scopes, the finished `spans` |
| `TraceTimes` | the passes of `TraceDecoderEmitter::run` over the records: dispatch, alignment, completion, markers; contains `MarkerWalker` | the record maps of the store by engine or slot, `phase`, the slot that is walked, the markers |
| `LineType` | the exchanges on `Line::type` in `populateExecMetadata` | `type`, and each thread's `step` |
| `WaveCache` | `WaveInstance::Get`, `GetFromRecord`, `InvalidadeCache`, `DataStore::getWave`, `GatherWaves`; contains `LineType` | `cache`, `futures`, the position of each fetch (`task`), `bins` of the hotspot, `shown` rows |
| `WaveSelection` | `SetMainWave`, `UpdateWaveViewRange`, the canvas' two builds and their queued application | `main`, `se`, `text` and `loaded` ranges, `rows`, `events` posted to the event loop, `arrows`, `branches` |
| `LoadSession` | `LoadInput`, `LoadInputImpl`, `OpenSpmJson`, `ResetSelector` | a `DataStore` is a number and `contents` what was loaded into it; the window's members keep their names |
| `LevelLatency` | `LatencyAnalyzer::analyze` | none: operators, with a reference for each measure |
| `LatencyDialog` | the dialog, its analysis thread, reading tasks and queued call | positions of the dialog and the thread, files being read, what is accumulated, what is posted |
| `LatencyViews` | the annotation registry, the selector, `Populate`, `PublishCategories`, the paths that refresh them; contains `LatencyDialog` | `view`: lines, registry, rows, selection; what was analysed |
| `BusyUnion` | `compute_union` | the two lists, the places in them, the result |
| `HiddenLatency` | `HiddenLatencyAnalysis::analyze`; contains `BusyUnion` | scope, wave, token and step of the analysis, the busy periods, `byLine` |
| `WaitCounters` | `buildWaitcntFromTokens` and the three architectures | the lists of outstanding operations, the order of each counter, the connections |
| `Tensors`, `CounterText`, `CounterContext` | tensors, the parser of derived counters, contexts and evaluation | none: operators |
| `CounterMeaning`, `CounterGrammar` | nothing: what expressions mean and what texts say, the references for the three | none |
| `SpmSeries`, `TraceCounters` | the points of a curve of SPM samples and of trace counters | none: operators |
| `CounterPlot` | `CounterPlotView`: raw and derived curves, the editor's result, hiding | the store, the definitions, the context, the curves |
| `GlobalView` | `DispatchResolver`, `buildDispatches`, `emitOccupancy`, the dispatch plot, rows and lanes of the global view | resolver, curves, rows, tracks, groups of events shown |
| `TraceAnalyses` | the emitter of `TraceTimes`, then the main window over `HiddenLatency`, `CounterPlot`, `WaitCounters` and `GlobalView` | theirs |

`AggregateTheorems` has lemmas about sums, minima and maxima of finite sets and
about `Ranking`. `Loading_proofs` (of `AttPool`, `IsaCallback` and
`LoadSession`), `TraceTimes_proofs` (of `Doubles`,
`RealtimeOffsets`, `TraceClock`, `MarkerWalker` and `TraceTimes`), `Analyses_proofs` (of `WaitCounters` and `LatencyViews`),
`TraceAnalyses_proofs` (of `BusyUnion`, `HiddenLatency` and `GlobalView`),
`LineType_proofs`, `WaveCache_proofs` and `WaveSelection_proofs` hold the
theorems. The `MC_*` modules give constants their values.

How the modules are linked:

* `WaveCache` contains `LineType` and takes its actions: each fetch is one of the
  writers of the line. So the refinement holds by construction; it is no property,
  only a lemma that carries the theorems of `LineType` over.
* `TraceTimes` contains `MarkerWalker` and implements it
  (`ImplementsMarkerWalker`): the walk of each slot is one of its walks, over
  records in the order of their times, and no two overlap.
* `LatencyViews` contains `LatencyDialog`, which uses `LevelLatency`: the dialog
  is modal, so that its steps interleave with those of its own threads only.
* `TraceAnalyses` contains `TraceTimes`, which makes the records of a trace, and
  the four analyses that run to completion on the UI thread once it is loaded. What
  it adds is that none starts while another runs.
* `WaveSelection` takes a fetch as one step that returns a wave or nothing, which
  is what the UI thread sees of `WaveCache`; `LoadSession` takes the pool, the
  callback and the passes over records as the one step `EmitTrace`, justified by
  `ReturnIsComplete`: the load goes on only after every thread ended.

Granularity. An access to a shared atomic, a critical section, and a stretch of
code that touches no shared state are each one step. `LoadInputImpl` is split at
its early returns only, since nothing else runs on the UI thread meanwhile.
Definitions marked as faulty variants (by a comment "Faulty:" and by names such
as `...KeepingBytes`, `JoinNothing`, `FreeAtEnd`, `ArrivalOrder`) are used by no
action: they are the bugs that each property is shown to catch.

Ghost variables, not in the program: `answered` (a callback has succeeded),
`seen` (token types of a line), `overtaken` (a selection was made while arrows
were queued), `before` (what was open when a reload began), `outcome` and `size`
of the pool's files, `raw` (the reported time of a record), `executed` and the
history of `WaitCounters`, `hides` (raw curves that are to be hidden).

Undefined behaviour and ends of the program: gathering with a null `main_wave`
(`gui = "crashed"`), selectors that refer to a destroyed store (`SelectDangling`)
and the exception of the rocpd emitter that nothing catches (`EmitRocpd`) all end
the model's run, `"terminated"`.

## 3. Runs

| Run | Question | Distinct states | Result |
|---|---|---|---|
| `att_pool` | Does the pool stay within both limits, report each missing file and return? | 157 438 | holds |
| `isa_callback` | Is the lazily computed offset settled before anybody uses it? | 11 456 | holds |
| `isa_reload` | Are the PCs of every trace rebased to that trace? | | violated |
| `wave_cache` | Do cache, rows, main wave, hotspot and lines agree after concurrent builds and reloads? | 216 904 | holds |
| `wave_selection` | Are rows, branches and arrows those of the selected wave? | 100 053 | holds, arrows unless overtaken |
| `stale_arrows` | The same for arrows, without the condition | | violated |
| `load_session` | Is what is shown, cached and remembered that of the open store? | 505 211 | holds |
| `load_reload` | Does a reload load what was loaded? | | violated |
| `load_skip` | Is a load skipped only if its input is open? | | violated |
| `latency_views` | Is what the listing shows current, are published latencies complete, does the dialog end? | 75 894 | holds |
| `trace_analyses` | Do records move together, clocks agree, spans nest and markers find their kernel, whatever the order of the records? Are hidden latencies, derived counters, wait connections, kernels and lanes those of their reference definitions? | 120 507 | holds |
| `hidden_docs` | Are cycles hidden whenever another pipe is busy? | | violated |

Deadlock is checked by `trace_analyses` and `hidden_docs` only: the user can always load, edit or analyse.
In the other models the program really stops (the loading thread returns)
or the bounds on loads, stores or queued events end the run,
as do the ends of the program above.

### att_pool

Three files with sizes 0, 2 and 3, budget 2, two slots, at most one INFO record
for a file. The sizes give a file of no bytes (in flight although the counter
does not show it), one that fills the budget and one larger than it. Three files
are needed to have one decoding, one waiting for bytes and one for a permit; all
of the failures of the file system and the decoder are choices. `Returns` is the
liveness property, under weak fairness of the loading thread's step and of each
decoding thread's step: a thread that can run does run, and the decoder returns
from its call. No fairness is put on one outcome against another or on INFO
records.

### isa_callback, isa_reload

Two threads, PCs 0 and 1, two loads out of four traces: symbols at 1 and 3,
`code.json` only (rows 2 and 4), a symbol at address 0 next to seeded rows, and
nothing at all. These are the three ways the offset is found, and the failure. Two
threads suffice to have one inside the loops that set the offset and one in
`handleWave`; two loads to carry it over. `isa_reload` checks over the same
instance that PCs are rebased by the offset of the trace that is loaded; they
are for the first trace (`FirstTraceRebased`) and not for a second one.

### wave_cache

Four waves, two keys shared by two waves each, two slots, two loads, tokens of
types 9 ("immediate"), 5, 9 and 2. With fewer slots than waves a future replaces
an old one, which `TasksBounded` follows (no more tasks than futures, one more only
while the launched one waits to be stored, none outside the preloading); shared keys
make two tasks build the same wave; either key may be
unreadable. Tokens of type 9 on both sides of the others let a late exchange meet a
line that is already settled: `LineSettled`, on every step, says that it does not
undo it, `LineAttributed` what the line has when all are done.

### wave_selection, stale_arrows

Four waves: one cannot be built, one is on another engine, and two of different
engines have equal wait connections. Clocks up to 9, room of 2 after the end.
Cutoffs typed by the user include an inverted range and one that is wider than
the loaded range. At most six queued calls wait, three selections, one more than
the counterexample needs.

In the counterexample a wave with arrows A is shown, B is selected, and A again
(or a wave with equal arrows) before the event loop delivers B's arrows. The
second build is skipped, since A's arrows are still the applied ones, and B's are then
applied. This needs two selections without a return to the posted events
in between: `SetMainWave` blocks the UI thread while it builds, key presses
queue up meanwhile (Down, then Up, in a selector), and window-system events that
wait are handled in one go.

### load_session, load_reload, load_skip

Inputs: a JSON directory, one `.att` file, two files of one capture, two files
of two captures (which opens the chooser), two SPM files, a rocpd file and a
path that nothing recognises. Three stores: one open, one replacing it and failing, and
one opened after that. What the files hold is chosen at each load, so a reload may
fail where the load did not.

### latency_views

Five traces with a folder each: a whole capture, one with a file that cannot be
read, one without samples of the second engine and with unreadable ones of the
first, one whose files disagree about the compute unit, one without counters;
and latencies of all kinds (active, covered by others, only idle). Two engines
with three and one wave files read by two tasks, so that a file waits for a task
to end; the listing is filled at most twice (`MaxPopulates`), which gives a
category that outlives its lines a chance. Times in a folder avoid ties.

`DialogEnds` is checked under weak fairness of starting the analysis, of the
analysis thread, of the reading tasks, of the queued call, of `exec()` returning
once the dialog was left, and of the destructor. All are steps of a thread that can
run; nothing is assumed about the user.

* A `filenames.json` or `code.json` with malformed content throws out of the
  slot that starts the analysis; not modelled.
* The compute unit of an engine is that of the last file collected, which
  depends on the order of completion; `Complete` asks for measures of folders
  whose files agree (`AgreedCu`).
* A queued call may be delivered after the user left and before `exec()`
  returns: the category is then published by a dialog that is no longer shown.
* Latencies are doubled, as the code halves intervals; `computeLatencyStats` is
  left out.
* Loads here succeed (`LoadSession` has the others); waves that are null are
  skipped by the scoped analysis; an exception in its second loop
  (`hidden_latency.cpp:307`) is not modelled.

### trace_analyses, hidden_docs

*Times.* Three engines with one hardware slot each, three files and four traces: two of
two engines whose samples are spread over two files, one of three engines of
which the last reported shader data and no samples, so that nothing may move,
and one with a sample for each engine in which two waves have one id. The order
in which the files deliver their records is free, which is what the pool's
threads produce. `TimeMax` = 1000 stands for the largest 64-bit time. The traces
of the analyses have no records, so that they start at once.

* Doubles have 4096 (`Unit`) least units in 1, 256 (`Significant`) values between two
  powers of two, and multiplication and subtraction are rounded one by one
  (`Fused` = FALSE). In the first trace the exact distance of the two clocks is 60 cycles;
  the rounded one is below and truncated to 59. Clocks then differ by a cycle and what
  rounding adds, so `ClocksAgree` has that sum as its bound: without the second term
  TLC finds it violated. With the mutant it is exceeded by far.
* Records with equal keys keep the order in which they came; `std::sort` may
  exchange them. The results compared do not depend on it.
* An id that two waves share is shifted once for each of them
  (`datastore.cpp:242`). `AlignedTogether` exempts those ids; a hazard records it.
* A wave that starts and ends at one time stays open in the index, since the
  end is sorted first. The index' cache and its clearing, and the look-up of
  codes for JSON captures, are left out.
* Assumptions on the traces: a file reports records of its own engine only and
  the id of a wave contains its engine (`OwnEngineAssumption`), engines are
  numbers (`EnginesAssumption`), marker ids are those of the decoder
  (`MarkerIdsAssumption`), and no two code objects start in a slot at one time
  (`OneStartAssumption`): a hardware slot holds one wave.

*Bounds of the analyses.* 128 traces of three waves on two SIMDs, whose tokens overlap, touch, contain each
other or leave gaps, one of them possibly unreadable, with and without busy
periods of other waves; a plot with four stores (SPM, trace counters, silent,
none) and seven definitions of counters; ten programs of at most five tokens
(`MaxTokens`) for the wait counts, on three architectures; four captures for the
global view (empty, ATT, JSON, broken) with four groups of events to toggle.
`Horizon` = 40 is the last time.

*Hidden latency.* FLAT and LDS count as vector memory, SMEM as scalar ALU; stalls
do not exceed cycles; of two totals the greater one is reported, the second on a
tie. `HiddenExact` compares totals exactly and bounds the parts. `TracesAssumption`
says what a trace is: pairs that differ, clocks from 0 to `Horizon`, tokens
that stall for some of their own cycles.
`README.md:479` and `docs/conceptual/hidden_latency.rst:13` say that idle and stalled
cycles are hidden when another pipe is busy; the code counts the wave's own pipe and
those of higher priority (lines 268-300, with a TODO at 207), and so do the model
and the reference of `HiddenExact`. `OtherPipesHide` states what the documents say, and
`hidden_docs` finds it violated over the same traces.

*Wait counts.* The text of an instruction is given by its class, its slot stands
for its line. What the code does and the reference follows: flat stores alone are
not linked by `lgkmcnt(0)` or a `dscnt` of 0, but with anything else they are, at any
count; `s_wait_idle` leaves the lists and orders of FLAT operations; the number is read where the code reads it, so
`s_waitcnt_vscnt null, n` reads 0; samples are never listed; architectures
before gfx9 take the gfx12 path; a wave that has connections is not analysed
again.

*Derived counters.* The parser reads tokens; the lexer and the axis "All" are left
out. An identifier may contain ':', so `select[A, n:m]` with names is read as one
identifier; `sum[A+B]` and `sum[max(A,B)]` do not parse while `sum[(A+B)]` does; a
comma may trail in reductions and lists of axes. A negative start of a slice is a
conversion of a negative number to `size_t`, which has no defined result; no
text has one. The parser was also compared with the grammar on all sequences
of tokens up to a length that gives 4.3 million of them, outside the runs.
The code's behaviour that the references take as given: a derived counter named
as a raw or built-in one is shadowed; `mean` over a repeated axis divides twice;
raw counters read by a definition that fails are hidden too once anything derived
is visible, and `disabled` is never reset; operations in place keep the left
operand's XCC labels; samples in the last quarter step of the grid are dropped;
points at most four clocks apart are merged; a derived series longer than the
clock is not shown although its raw counters are hidden. Numbers are integers
with floor division. Definitions may be evaluated in any order. Not modelled:
the averaged clock, check boxes of derived curves, the summary table.

*Global view.* PCs are after rebasing. Sorts by time are stable here and need not
be in C++. `KernelsExact` exempts JSON dispatches whose entry point several
kernels share: dispatches without an entry point all get the alias `<<0, 0>>`, of
which the last one wins. A kernel id of -1 ends the dispatch plot ("corrupted").
A lost end leaves 0 as the end inside a row. A start and an end at one time are
sorted end first, which leaves the wave open, so `LanesExact` asks for
well-formed captures, in which also ends carry the kernel of their wave and ids
are unique to a track, as a comment in `event_track.cpp` says. The static
`kernel_names` is never cleared, but every id that is shown was overwritten.
Drawing, grouping by compute unit, and the legacy `occupancy.json` are left out.

### Findings

* `isa_reload`: `arch_offset` is a static that no load resets, so code object 0
  of a second trace is rebased by the first one's offset.
* `stale_arrows`: the arrows of another wave may stay, see above.
* `hidden_docs`: cycles in which a wave idles or stalls while a pipe of lower priority
  is busy are not hidden, though the documents say that another pipe hides them.
* `load_reload`: several picked `.att` files are remembered as the first one's
  path, so a reload (a change of theme) holds one file of them.
* `load_skip`: the change key is not cleared if opening an SPM file fails after
  the store was replaced; opening the earlier SPM file again is then skipped as
  unchanged although the empty store is open.

Found on the way and modelled, though no run asserts the contrary: a `Replace`
that fails after the selectors were rebuilt leaves them with the destroyed store
(`SelectDangling`); a wave that cannot be built is published as null before it is
tested and saving the options then dereferences it (`"crashed"`); a rocpd file
ends the program (`EmitRocpd`). `LineType` shows that a token of type 0 can undo
an attribution, which is why its properties exclude it. Waves with one id are
shifted twice.

## 4. Proofs

`tlapm` checks every module named here to the last leaf; what they state holds
for all values of the constants that satisfy the named assumptions, each written
where the constant is declared. TLC checked the invariants on the runs' instances
before they were proved, and evaluates the assumptions there. 50 theorems are listed in `PROJECT.json`; this
is the argument of each module.

**AggregateTheorems** (lemmas only). Sums, minima and maxima of any finite set
the sorting of any list and folds over one, without an induction rule that takes an operator: if
a statement failed for some subset of a finite set there would be a least such
subset (`LeastSubset`, from the well-foundedness of strict inclusion), and
removing one element of that leads to a contradiction. `Ranked` counts
predecessors; that the counts of different positions differ and fill 1 to n
makes it a permutation in the order of the keys (`RanksInOrder`,
`ArrangedInOrder`).

**Loading_proofs** has three parts. For the pool (`NFilesAssumption`,
`SizesAssumption`, `BudgetAssumption`, `SlotsAssumption`: naturals, at least one
slot), `PoolInv` says which bytes, permits and report each file owns at
each position of its thread.

* `PermitsConserved` follows from counting the running threads; the count moves
  by one when one starts or ends.
* `CounterConserved`: the counter is the sum of the sizes of the files in flight
  (`CounterExact`), which an addition, a subtraction and nothing else changes, so that
  no path leaves bytes behind. That it stays within the budget, or one file has all
  of it (`CounterBounded`), is not inductive: between the poll and the addition the loading
  thread relies on a check that is already past. `Admitted` says that the check still
  holds there, since the other threads only lower the counter.
* `BuffersWithinBudget`: admission keeps the sum of the files in flight in the budget or
  alone above it, and the buffers alive are files in flight.
* `ReturnIsComplete`: a file that is past is decoded or reported, and the join leaves no
  thread.

For the callback (`PcsAssumption`, `TracesAssumption`, `NoThreadAssumption`,
`Int64MaxAssumption`: the unset offset is no PC), `CallbackInvariance` says that a
thread inside owns the mutex (`Locked`), that an offset is searched for only
before the first answer (`SearchedFirst`) and that what was answered has a row
under the offset of this moment (`AnsweredHaveRows`). So the unlocked reads of
`handleWave` and `buildDispatches` find a settled offset:
`InstructionsHaveRows`, `DispatchAgreesWithWaves` and the action property
`OffsetSettled`. `FirstTraceRebased`: in the first load the offset that is found is
that of the loaded object whatever PC was asked first, because a PC that has no
row under the searched offsets ends the search unanswered.

For the load session (`InputsAssumption`, `MaxStoresAssumption`,
`NoneAssumption`: what names nothing is not the name of a file). `SessionInv` says at each
step of a load what every member refers to: what a failing `Replace` keeps for its
restore (`KeptByReplace`), what the step before it has built (`BuildsInput`), and that
the manager, the paths and the caches follow the store (`ManagerFollows`,
`PathsFollow`, `CachesFollow`). The selectors are not among them (see the
hazards).

**LineType_proofs**: a thread past its first exchange knows the line has a type
(`PastFirst`), only `immediate` is replaced (`Replaces`), and a token whose type
the line should still take is being attributed (`Owed`).

**WaveCache_proofs** (`NWavesAssumption`, `SlotsAssumption`, `KeyOfAssumption`,
`TypeOfAssumption`, `MaxLoadsAssumption`, `NoneAssumption`). The invariant joins
what is cached, fetched and shown. The points that none of the properties says
alone: the key of `main_wave` is never built again, since it is cached
(`MainCached`); the UI thread inserts only where nothing is cached
(`FetchCached`); a running task is held by a future or is about to be
(`TasksHeld`), so that counting futures counts tasks (`TasksBounded`); the bins count
the completed rows (`HotspotCounts`). An exchange of a fetch is an exchange of its
writer, all else leaves the line alone (`StepOfLine`; `OnLine` carries the line's own
invariant over). `LineAttributed` and `LineSettled` then follow from the theorems of
`LineType` and from how waves are rebuilt.

**TraceTimes_proofs** (`EnginesAssumption`, `OwnEngineAssumption`,
`RecordingsAssumption`, `MarkerIdsAssumption`, `OneStartAssumption`,
`TimeMaxIsInt`, `DoublesAssumption`: any unit, precision and powers, fused or not).

* `TimesInv`: types; which engine reported which wave, so that an id names waves of
  one engine (`WavesReported`); by how much each engine's records are moved
  (`Placed`). Offsets are not negative since each is a
  distance to the least of a finite set of anchors.
* `AlignedTogether`: the shift of a record is a sum over the engines with one
  non-zero term. Sorting is a permutation and changes no time.
* `ClocksAgree`: what an operation on doubles gives is within half a spacing of the exact
  result (`NearestClose`, `OperationsClose`), and positive if that is
  (`PositiveDouble`, so that the common ratio is). A shift is then a distance to one common
  origin up to the roundings on the way to it (`ShiftClose`) and what truncation cuts
  off; `SampledLag` puts two of them together. The bound names the spacings
  where each rounding takes place, not a constant: it holds for any size of the clocks.
* `SpansNest` of one walk, for every stream and metadata: the open scopes and the
  finished spans nest up to the present time (`Nested`). `ImplementsMarkerWalker`
  needs records in the order of their times (from sorting) and times within
  64 bits, so it is stated under `[]TimesFit`: no time of shader data exceeds
  them. The walk of a trace then inherits `SpansNest`.
* `MarkersOfOccupant`: the occupancy that is stored is, up to its times, what was
  reported, in whatever order it came and however it was shifted (`OccupancyInv`); the
  look-up at the end of a list in order of time finds the last start
  before it, which is one record by `OneStartAssumption`; what is shifted together keeps
  its order.

**Analyses_proofs** has three parts.

* `LinkedOnce`, for any programs and architecture (`ProgramsAssumption`): needs
  that the lists of the counters have no operation in common that counts once
  (`ListsApart`), that what is listed was executed (`ListedBefore`) and that what is linked
  was awaited by that wait (`AwaitedNamed`, `WaitsBefore`).
* `WaitsExact`, for the same programs: the lists are compared with a reference that
  knows only what was executed. `HistoryInv` says that the list of a counter
  holds what was issued and no earlier wait guaranteed (`ListsExact`), in the order
  of issue (`ListsSorted`), so that as many are behind an operation in its list as
  were issued after it; that a counter is parallel when an unordered
  operation was issued since its last wait for 0 (`OrderExact`); and what each
  wait was connected to (`LinksExact`). All of that is stated in the middle of
  a wait too, when only some of its counters are handled: a counter that is
  still awaited counts as not named by that wait. The order in which the
  counters are handled matters for FLAT stores, which a wait on `lgkm` or `ds` takes
  only if it finds something else to take; that is where a first version of the reference
  was wrong. It let a FLAT store wait for a count of 0, but `gfx10.cpp:183-195`
  takes it at any count once something was taken. The proof failed there, TLC
  confirmed the case, and the program with it is now one of the run's. `ProgramsAssumption`
  has that `s_wait_idle` names nothing else, from the early return of
  `classify` (`gfx12.cpp:88-93`).
* `ShownIsCurrent`, for any traces (`TracesAssumption`: three of their fields are
  booleans) and whatever the user, the analyses and the dialog do. Rebuilding the
  rows needs only that a built-in row that is drawn is the one selected
  (`Settled`) and then mirrors the registry; publishing needs only that
  the category of the dialog was made of the lines now listed
  (`MemoryOfLines`). Neither is enough alone for the next action:
  `ViewsInv` adds that no row but that of `nonhidden_latency` is ever disabled
  (`OthersOffered`), or `SelectAnnotation` could choose a disabled row.

**TraceAnalyses_proofs** has three parts as well. `UnionExact`, for any two lists
of periods in order of their beginnings, is not inductive until it is known that no
period still to come begins before the last one of the result (`Ahead`).

`HiddenExact`, for any traces (`TracesAssumption`), compares sums over lines with a
reference in which each pipe works off one cycle of its queue per cycle.
It speaks of the moment when `analyze` has returned; `HiddenInv` says what each of
its phases has achieved until then:

* While the waves are read, a queue holds, at every clock, the work that the
  reference is given of the tokens of these waves (`ReadUpTo`); records of no
  cycles, which the code leaves out, are no work (`BusyWork`).
* `compute_util` makes of a queue the cycles in which the server works
  (`ComputeUtilExact`), in any order of arrival. The link are the end times of
  the jobs, each the maximum of its clock and the end time before it, plus its cycles
  (`EndTimes`): the periods cover the cycles up to each job's end (`BegunFacts`), and what
  the server still has to do at a clock is what the latest end time exceeds it by
  (`LeftIs`), by steps from one clock to the next.
* The three unions begin with lists that show the cycles of their pipes and run
  as in `BusyUnion`, whose invariant is part of this one; when one is
  complete it shows the cycles of both.
* `compute_interval` counts the cycles of a token within a list of periods that
  are apart (`IntervalCounts`), so the latency of a token is the reference's
  (`TokenHidden`).
* Sums over lines grow by one token (`HiddenForOneMore`) and by the pairs
  (`HiddenForBoth`), which needs that no token belongs to two pairs: the pairs of
  `wave_hierarchy` differ.

`LanesExact`, for any captures (`CapturesAssumption`: records come in lists, their clock
and their engine are signed integers), compares what is
drawn with the records; two invariants of every track stand between.

* `TrackInv`: there is one span for each dispatch and one for each event that ends
  none, in order of their beginnings. Which events are consumed by a
  dispatch was decided over sorted lists (`ArrangedInOrder`).
* `LayoutInv`: every lane ends with one of the spans in it, the spans of a lane
  follow one another, and when the last lane was opened a span of each other lane was
  under way: as many lanes as spans at one moment, and never more. The layout is
  a fold; that each of its steps keeps this (`PackStep`, `PlaceLaid`) carries over to
  the whole (`AllLaid`) because otherwise there would be a least number of spans for
  which it fails.
* The second needs that no span ends before it begins. It follows where ids
  are not used twice (`OwnForward`): a dispatch then ends with the one event that has its
  id. Filtering the events lays out again from the same spans, whatever lanes
  they had.

**WaveSelection_proofs** (`FirstAssumption`, `ClockAssumption`: clocks are
naturals below a bound, so that extrema exist; `RoomAssumption`,
`NoneAssumption`). The queued results are, in order, those of the builds that were not
skipped, and the last of them is of the selected wave (`BranchesComing`,
`ArrowsComing`); rows are those of the range that is loaded and of its engine
(`RowsLoaded`, `InLoaded`).

### What is only model-checked

* Liveness: `Returns` and `DialogEnds`; TLAPS does not reason about fairness
  here.
* `DerivedExact`, `CurvesExact`, `RawHidden`: parsing and evaluating counters
  are recursive operators, over which nothing can be proved here.
* `KernelsExact`, `ResultsComplete`: they compare
  folds over whole lists with a reference and need a lemma for each fold; not
  proved yet.
* The five properties that are violated have no theorem, of course.

## 5. Abstracted or left out

* *What is outside.* The decoder library, the file system and Qt's event loop
  are the environment. The decoder calls back from the thread that called it and hands
  over a wave's instructions only after each PC in them was answered; queued calls
  are delivered in the order in which they were posted.
* *Data.* Trace contents are a few records, code is PCs and rows of code object
  0 (other objects take the same path without the offset), texts are tokens.
* *Doubles.* They are rounded as in IEEE 754, to the nearest and of two to the even one,
  with the format as constants (`Doubles` gives those of the program's). Whether the
  compiler contracts `rc - sc * k` to one operation is the constant `Fused`; the theorem
  has both. No infinities and no NaN: no clock reaches them, and the offset fits the
  integer it is cast to. Other doubles (curves, derived counters) are integers.
* *Memory order.* Relaxed atomics are interleavings. `Line::type` is one location
  and the other atomics are counters, so that no reordering of different
  locations is at stake.
* *Parts without a module.* Drawing, layout, search, colours, configuration, flame
  graphs, summary and dialogs other than memory latency: one thread, and what is right
  is how it looks. The translation of input files (`json_emitter`,
  `spm_json`, the lexer of derived counters): correct relative to file
  formats that the repository does not specify. The build without the decoder, and
  command-line overrides. `json/include` is a vendored library.
* *Coverage.* The vendored JSON header alone is 24 766 of 59 311 lines; of the rest,
  most is widgets.

## 6. Plan

Done: the decoding pool and callback, the wave cache with the line attribution, the
selection, the load session, the times of a trace, the views of latencies and
the analyses, all checked by TLC and, but for the list above, proved.

Left to prove, in this order:

1. `KernelsExact`: ids, curves and rows from sorted records, by the least
   counterexample as in `AllLaid`.
2. `ResultsComplete`: an invariant that relates the accumulated measures to the
   engines already analysed.
3. The safety part of `DialogEnds`: without a dialog nothing is at work.
