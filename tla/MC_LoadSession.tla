---------------------------- MODULE MC_LoadSession ----------------------------
(* A JSON directory, picks of .att files of one capture and of two, two    *)
(* SPM files, a ROCpd database and a directory with nothing in it.         *)
EXTENDS LoadSession, TLC

MCCapture == ("f1" :> 1) @@ ("f2" :> 1) @@ ("f3" :> 2)
In(p, k, fs) == [path |-> p, kind |-> k, files |-> fs]
Found ==
    { In("json", "json", {"json"}), In("f1", "att", {"f1"}),
      In("spm1", "spm", {"spm1"}), In("spm2", "spm", {"spm2"}),
      In("db", "rocpd", {"db"}), In("none", "unknown", {}) }
MCDetect == [p \in {i.path : i \in Found} |-> CHOOSE i \in Found : i.path = p]
MCInputs == Found \cup {In("f1", "att", {"f1", "f2"}), In("f1", "att", {"f1", "f3"})}
=============================================================================
