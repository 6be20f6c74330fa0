---------------------------- MODULE LoadSession ----------------------------
(***************************************************************************)
(* A session of MainWindow: opening an input (LoadInput in Replace mode),  *)
(* attaching or opening an SPM file (OpenSpmJson), and loading again what  *)
(* is open (ResetSelector, called when the theme or the wave-state setting *)
(* changes).  LoadInputImpl is split where it may return early; nothing    *)
(* else runs on the user-interface thread meanwhile.                       *)
(*                                                                         *)
(* A DataStore is a number; what was loaded into it is a record.  0 stands *)
(* for a null pointer.  What the files hold, and so whether a step fails,  *)
(* is chosen by the environment at each load: files change between loads.  *)
(***************************************************************************)
EXTENDS Naturals, FiniteSets

CONSTANTS Inputs,     \* what file and directory pickers return: [path, kind, files]
          Detect,     \* path |-> the input detectInput finds there
          Capture,    \* .att file |-> the (agent, dispatch) in its name
          MaxStores,  \* bound: DataStores made in one session
          None

Kinds == {"json", "att", "spm", "rocpd", "unknown"}
Paths == {i.path : i \in Inputs}
InputFiles == UNION {i.files : i \in Inputs}
Picked == [path : Paths, kind : Kinds, files : SUBSET InputFiles]
Keys == [path : Paths, files : SUBSET InputFiles]
Kept == [data_store : Nat, shaderdata_manager : Nat, current_path : Paths \cup {None},
         ui_dir : Paths \cup {None}, current_spm_path : Paths \cup {None},
         lastPath : Keys \cup {None}]

ASSUME InputsAssumption ==
    /\ Inputs \subseteq Picked
    /\ Detect \in [Paths -> Inputs] /\ \A p \in Paths : Detect[p].path = p
    /\ \A i \in Inputs : i.kind = "att" => i.files \subseteq DOMAIN Capture
ASSUME MaxStoresAssumption == MaxStores \in Nat
ASSUME NoneAssumption == None \notin Paths \cup Picked \cup Keys \cup Kept

VARIABLES gui,        \* where the user-interface thread stands
          mode,       \* LoadMode of the load
          input,      \* input_info of the load
          asked,      \* the capture was chosen in a dialog
          saved,      \* what LoadInput keeps to restore, or None
          result,     \* how the last operation ended
          made,       \* number of DataStores made
          contents,   \* DataStore |-> what was loaded into it
          data_store, shaderdata_manager,
          current_path, ui_dir, current_spm_path,
          lastPath,   \* change-detection key
          main_wave,  \* the DataStore the main wave is from
          caches,     \* the DataStores the cached waves are from
          seSelector, \* the DataStore the selectors refer to
          before      \* ghost: what was open when a reload began, or None

loadVars   == <<mode, input, asked>>
pathVars   == <<current_path, ui_dir, current_spm_path, lastPath>>
waveVars   == <<main_wave, caches, seSelector>>
sessionVars ==
    <<gui, loadVars, saved, result, made, contents, data_store, shaderdata_manager,
      pathVars, waveVars, before>>

Live == ({data_store} \cup (IF saved = None THEN {} ELSE {saved.data_store})) \ {0}
Key(i) == [path |-> i.path, files |-> i.files]
Nothing == [input |-> None, spm |-> None, trace |-> FALSE, shaderdata |-> FALSE, asked |-> FALSE]

SessionInit ==
    /\ gui = "idle" /\ mode = "Reload" /\ input = None /\ asked = FALSE
    /\ saved = None /\ result = "none" /\ before = None
    /\ made = 0 /\ contents = [s \in 1 .. MaxStores |-> Nothing]
    /\ data_store = 0 /\ shaderdata_manager = 0
    /\ current_path = None /\ ui_dir = None /\ current_spm_path = None /\ lastPath = None
    /\ main_wave = 0 /\ caches = {} /\ seSelector = 0

(***************************************************************************)
(* How a load ends.  Operators named ...Keeping... or ...Forgetting... are *)
(* faulty variants of the operator that follows them.                      *)
(***************************************************************************)
RestoreForgettingPath ==
    /\ data_store' = saved.data_store
    /\ shaderdata_manager' = saved.shaderdata_manager
    /\ current_spm_path' = saved.current_spm_path
    /\ lastPath' = saved.lastPath
    /\ UNCHANGED <<current_path, ui_dir>>

Restore ==
    /\ data_store' = saved.data_store
    /\ shaderdata_manager' = saved.shaderdata_manager
    /\ current_path' = saved.current_path
    /\ ui_dir' = saved.ui_dir
    /\ current_spm_path' = saved.current_spm_path
    /\ lastPath' = saved.lastPath

(* An early return with a status other than Success.                       *)
Fail ==
    /\ gui' = "idle" /\ result' = "failed" /\ saved' = None
    /\ IF saved # None THEN Restore
       ELSE UNCHANGED <<data_store, shaderdata_manager, pathVars>>

Succeed(how) == gui' = "idle" /\ result' = how /\ saved' = None

(***************************************************************************)
(* The operations of the user.                                             *)
(***************************************************************************)
OpenKeepingSpm(i) ==
    /\ gui = "idle" /\ i.kind # "spm"
    /\ saved' = [data_store |-> data_store, shaderdata_manager |-> shaderdata_manager,
                 current_path |-> current_path, ui_dir |-> ui_dir,
                 current_spm_path |-> current_spm_path, lastPath |-> lastPath]
    /\ data_store' = 0 /\ lastPath' = None
    /\ input' = i /\ mode' = "Replace" /\ before' = None
    /\ gui' = "choose"
    /\ UNCHANGED <<asked, result, made, contents, shaderdata_manager, current_path, ui_dir,
                   current_spm_path, waveVars>>

(* SetJsonsFolder, OpenAttFiles, OpenRocpd.                                *)
Open(i) ==
    /\ gui = "idle" /\ i.kind # "spm"
    /\ saved' = [data_store |-> data_store, shaderdata_manager |-> shaderdata_manager,
                 current_path |-> current_path, ui_dir |-> ui_dir,
                 current_spm_path |-> current_spm_path, lastPath |-> lastPath]
    /\ data_store' = 0 /\ current_spm_path' = None /\ lastPath' = None
    /\ input' = i /\ mode' = "Replace" /\ before' = None
    /\ gui' = "choose"
    /\ UNCHANGED <<asked, result, made, contents, shaderdata_manager, current_path, ui_dir,
                   waveVars>>

HasLoadedTrace == data_store # 0 /\ contents[data_store].trace

(* OpenSpmJson: counters for the trace that is open ...                    *)
AttachToTrace(i) ==
    /\ gui = "idle" /\ i.kind = "spm" /\ HasLoadedTrace
    /\ \/ /\ contents' = [contents EXCEPT ![data_store].spm = i.path]
          /\ current_spm_path' = i.path
          /\ result' = "attached"
       \/ UNCHANGED <<contents, current_spm_path, result>>
    /\ UNCHANGED <<gui, loadVars, saved, made, data_store, shaderdata_manager, current_path,
                   ui_dir, lastPath, waveVars, before>>

(* ... or an input of its own, loaded with nothing to restore.             *)
OpenSpm(i) ==
    /\ gui = "idle" /\ i.kind = "spm" /\ ~HasLoadedTrace
    /\ input' = i /\ mode' = "Reload" /\ before' = None
    /\ gui' = "choose"
    /\ UNCHANGED <<asked, saved, result, made, contents, data_store, shaderdata_manager,
                   pathVars, waveVars>>

(* The theme or the wave-state setting changed: ResetSelector.             *)
Reload ==
    /\ gui = "idle"
    /\ lastPath' = None
    /\ IF current_path = None
         THEN UNCHANGED <<gui, input, mode, before>>
         ELSE /\ input' = Detect[current_path]
              /\ mode' = "Reload"
              /\ before' = IF result # "failed" /\ data_store # 0
                             THEN contents[data_store] ELSE None
              /\ gui' = "choose"
    /\ UNCHANGED <<asked, saved, result, made, contents, data_store, shaderdata_manager,
                   current_path, ui_dir, current_spm_path, waveVars>>

(* A selector's handler reads the store it refers to and calls SetMainWave *)
(* with the result, which looks the wave up in data_store.                 *)
SelectWave ==
    /\ gui = "idle" /\ seSelector # 0 /\ contents[seSelector].trace
    /\ data_store # 0 /\ contents[data_store].trace
    /\ main_wave' = data_store
    /\ caches' = caches \cup {data_store}
    /\ UNCHANGED <<gui, loadVars, saved, result, made, contents, data_store,
                   shaderdata_manager, pathVars, seSelector, before>>

(* The selectors of a load that failed late refer to a destroyed store: to *)
(* use them is undefined, and ends the program if it does not go well.     *)
SelectDangling ==
    /\ gui = "idle" /\ seSelector \notin Live \cup {0} /\ contents[seSelector].trace
    /\ gui' = "terminated"
    /\ UNCHANGED <<loadVars, saved, result, made, contents, data_store, shaderdata_manager,
                   pathVars, waveVars, before>>

(***************************************************************************)
(* LoadInputImpl.                                                          *)
(***************************************************************************)
Captures == {Capture[f] : f \in input.files}
NeedsChoice == input.kind = "att" /\ Cardinality(Captures) > 1

(* AttSelectorDialog keeps the files of one capture; it may be cancelled.  *)
Choose ==
    /\ gui = "choose"
    /\ asked' = NeedsChoice
    /\ \/ /\ ~NeedsChoice
          /\ gui' = "check" /\ UNCHANGED input
       \/ /\ NeedsChoice
          /\ \E c \in Captures :
               input' = [input EXCEPT !.files = {f \in input.files : Capture[f] = c}]
          /\ gui' = "check"
    /\ UNCHANGED <<mode, saved, result, made, contents, data_store, shaderdata_manager,
                   pathVars, waveVars, before>>

Cancel ==
    /\ gui = "choose" /\ NeedsChoice
    /\ Fail
    /\ UNCHANGED <<loadVars, made, contents, waveVars, before>>

Unchanged ==
    /\ gui = "check" /\ Key(input) = lastPath
    /\ Succeed("skipped")
    /\ UNCHANGED <<loadVars, made, contents, data_store, shaderdata_manager, pathVars,
                   waveVars, before>>

Unrecognized ==
    /\ gui = "check" /\ Key(input) # lastPath /\ input.kind = "unknown"
    /\ Fail
    /\ UNCHANGED <<loadVars, made, contents, waveVars, before>>

BeginKeepingCaches ==
    /\ gui = "check" /\ Key(input) # lastPath /\ input.kind # "unknown"
    /\ current_path' = input.path /\ ui_dir' = input.path
    /\ main_wave' = 0
    /\ shaderdata_manager' = 0
    /\ gui' = "emit"
    /\ UNCHANGED <<loadVars, saved, result, made, contents, data_store, current_spm_path,
                   lastPath, seSelector, before, caches>>

BeginKeepingManager ==
    /\ gui = "check" /\ Key(input) # lastPath /\ input.kind # "unknown"
    /\ current_path' = input.path /\ ui_dir' = input.path
    /\ main_wave' = 0 /\ caches' = {}
    /\ gui' = "emit"
    /\ UNCHANGED <<loadVars, saved, result, made, contents, data_store, shaderdata_manager,
                   current_spm_path, lastPath, seSelector, before>>

(* The paths, the process-wide caches and the non-owning pointer are reset *)
(* before the store that owns its target is replaced.                      *)
Begin ==
    /\ gui = "check" /\ Key(input) # lastPath /\ input.kind # "unknown"
    /\ current_path' = input.path /\ ui_dir' = input.path
    /\ main_wave' = 0 /\ caches' = {}
    /\ shaderdata_manager' = 0
    /\ gui' = "emit"
    /\ UNCHANGED <<loadVars, saved, result, made, contents, data_store, current_spm_path,
                   lastPath, seSelector, before>>

(* data_store = make_unique<DataStore>() and the emitter of the kind.  A   *)
(* store that is not kept for a restore is destroyed; what it held matters *)
(* only while the selectors still list it.                                 *)
NewStore(what) ==
    /\ made < MaxStores
    /\ made' = made + 1
    /\ data_store' = made + 1
    /\ contents' = [s \in 1 .. MaxStores |->
                       IF s = made + 1 THEN what
                       ELSE IF s \in Live /\ saved # None THEN contents[s]
                       ELSE IF s = seSelector THEN [Nothing EXCEPT !.trace = contents[s].trace]
                       ELSE Nothing]

EmitTrace ==
    /\ gui = "emit" /\ input.kind \in {"json", "att"}
    /\ \E trace, shaderdata \in BOOLEAN :
         NewStore([input |-> input, spm |-> None, trace |-> trace, shaderdata |-> shaderdata,
                   asked |-> asked])
    /\ gui' = "attach"
    /\ UNCHANGED <<loadVars, saved, result, shaderdata_manager, pathVars, waveVars, before>>

EmitSpm ==
    /\ gui = "emit" /\ input.kind = "spm"
    /\ NewStore([input |-> input, spm |-> input.path, trace |-> FALSE, shaderdata |-> FALSE,
                 asked |-> FALSE])
    /\ current_spm_path' = input.path
    /\ gui' = "attach"
    /\ UNCHANGED <<loadVars, saved, result, shaderdata_manager, current_path, ui_dir, lastPath,
                   waveVars, before>>

(* The file holds no SPM data: the new store stays empty.  It is opened    *)
(* with nothing saved, so there is nothing to restore.                     *)
EmitSpmFails ==
    /\ gui = "emit" /\ input.kind = "spm"
    /\ NewStore([Nothing EXCEPT !.input = input])
    /\ gui' = "idle" /\ result' = "failed"
    /\ UNCHANGED <<loadVars, saved, shaderdata_manager, pathVars, waveVars, before>>

(* RocpdEmitter::run throws and nothing up to the event loop catches.      *)
EmitRocpd ==
    /\ gui = "emit" /\ input.kind = "rocpd"
    /\ gui' = "terminated"
    /\ UNCHANGED <<loadVars, saved, result, made, contents, data_store, shaderdata_manager,
                   pathVars, waveVars, before>>

(* The SPM file attached to the trace is loaded again, or dropped.         *)
AttachAgain ==
    /\ gui = "attach"
    /\ \/ /\ input.kind = "spm" \/ current_spm_path = None
          /\ UNCHANGED <<contents, current_spm_path>>
       \/ /\ input.kind # "spm" /\ current_spm_path # None
          /\ \/ /\ contents' = [contents EXCEPT ![data_store].spm = current_spm_path]
                /\ UNCHANGED current_spm_path
             \/ current_spm_path' = None /\ UNCHANGED contents
    /\ gui' = "wire"
    /\ UNCHANGED <<loadVars, saved, result, made, data_store, shaderdata_manager, current_path,
                   ui_dir, lastPath, waveVars, before>>

Wire ==
    /\ gui = "wire"
    /\ shaderdata_manager' = IF contents[data_store].shaderdata THEN data_store
                             ELSE shaderdata_manager
    /\ lastPath' = Key(input)
    /\ gui' = "select"
    /\ UNCHANGED <<loadVars, saved, result, made, contents, data_store, current_path, ui_dir,
                   current_spm_path, waveVars, before>>

(* The selectors are built again; the first wave, if there is one, becomes *)
(* the main wave.                                                          *)
BuildSelector ==
    /\ gui = "select"
    /\ seSelector' = data_store
    /\ IF contents[data_store].trace
         THEN main_wave' = data_store /\ caches' = caches \cup {data_store}
         ELSE UNCHANGED <<main_wave, caches>>
    /\ gui' = "plot"
    /\ UNCHANGED <<loadVars, saved, result, made, contents, data_store, shaderdata_manager,
                   pathVars, before>>

Plot ==
    /\ gui = "plot"
    /\ gui' = "validate"
    /\ UNCHANGED <<loadVars, saved, result, made, contents, data_store, shaderdata_manager,
                   pathVars, waveVars, before>>

PlotThrows ==
    /\ gui = "plot"
    /\ Fail
    /\ UNCHANGED <<loadVars, made, contents, waveVars, before>>

Usable == contents[data_store].trace \/ contents[data_store].spm # None

Validate ==
    /\ gui = "validate"
    /\ \/ /\ Usable
          /\ Succeed("loaded")
          /\ UNCHANGED <<data_store, shaderdata_manager, pathVars>>
       \/ ~Usable /\ Fail
    /\ UNCHANGED <<loadVars, made, contents, waveVars, before>>

UserStep ==
    \/ \E i \in Inputs : Open(i) \/ AttachToTrace(i) \/ OpenSpm(i)
    \/ Reload \/ SelectWave \/ SelectDangling

LoadStep ==
    \/ Choose \/ Cancel \/ Unchanged \/ Unrecognized \/ Begin
    \/ EmitTrace \/ EmitSpm \/ EmitSpmFails \/ EmitRocpd
    \/ AttachAgain \/ Wire \/ BuildSelector \/ Plot \/ PlotThrows \/ Validate

SessionNext == UserStep \/ LoadStep

SessionSpec == SessionInit /\ [][SessionNext]_sessionVars

(***************************************************************************)
(* Properties.                                                             *)
(***************************************************************************)
Idle == gui = "idle"
Opened == data_store # 0 /\ contents[data_store].input # None

(* "Clear non-owning pointer before resetting data_store (which owns the   *)
(* memory)": whichever store is kept for a restore, dropped or put back,   *)
(* the pointer is null or into a store that lives, and between loads into  *)
(* the one that is open.                                                   *)
ManagerOwned ==
    /\ shaderdata_manager \in Live \cup {0}
    /\ Idle => shaderdata_manager \in {0, data_store}

(* After an input was loaded, what was cached, selected or offered for     *)
(* selection comes from it and not from an earlier input, and the next     *)
(* ResetSelector detects the input at its path.                            *)
LoadedEverywhere ==
    Idle /\ result = "loaded" =>
        /\ main_wave \in {0, data_store}
        /\ caches \subseteq {data_store}
        /\ seSelector = data_store
        /\ lastPath \in {None, Key(contents[data_store].input)}

(* Whatever failed, was cancelled or was attached before, the paths shown  *)
(* and used for relative files and for the next reload are those of the    *)
(* store that is open.                                                     *)
PathsDescribeStore ==
    Idle /\ Opened =>
        /\ current_path = contents[data_store].input.path
        /\ ui_dir = current_path
        /\ contents[data_store].spm # None => current_spm_path = contents[data_store].spm

(* Counters attached to one trace are not carried over to the next one the *)
(* user opens.                                                             *)
SpmNotCarriedOver ==
    Idle /\ result = "loaded" /\ mode = "Replace" => contents[data_store].spm = None

(* "Remember what we actually loaded so subsequent ResetSelector() calls   *)
(* (e.g. theme reload) can re-detect against it." (mainwindow.cpp:1112):   *)
(* a reload loads the files that were loaded, unless the user was asked.   *)
ReloadsWhatWasLoaded ==
    Idle /\ result = "loaded" /\ before # None /\ ~before.asked /\ ~asked =>
        contents[data_store].input.files = before.input.files

(* "use the existing filenames.json check as the change-detection key"     *)
(* (mainwindow.cpp:1075): a load is skipped only when what it asks for is  *)
(* what is open.                                                           *)
SkippedOnlyIfOpen ==
    Idle /\ result = "skipped" => Key(contents[data_store].input) = lastPath
=============================================================================
