-------------------------- MODULE MC_LatencyViews --------------------------
(* Two shader engines with three and one wave files, read by two tasks.    *)
EXTENDS LatencyViews

Vmem(t, st, cy, code) == [timestamp |-> t, level |-> 3, stall |-> st, cycles |-> cy, code |-> code]
Lds(t, st, cy, code)  == [timestamp |-> t, level |-> 5, stall |-> st, cycles |-> cy, code |-> code]
Valu(t)               == [timestamp |-> t, level |-> 2, stall |-> 0, cycles |-> 4, code |-> 7]
Sample(t, vmem, lds)  == [time |-> t, level |-> [VMEM |-> vmem, LDS |-> lds], cu |-> 1, bank |-> 0]
Others(t)             == <<[time |-> t, level |-> [VMEM |-> 9, LDS |-> 9], cu |-> 1, bank |-> 1],
                           [time |-> t, level |-> [VMEM |-> 9, LDS |-> 9], cu |-> 2, bank |-> 0]>>
File(simd, insts)     == [ok |-> TRUE, cu |-> 1, simd |-> simd, insts |-> insts]

(* A sample at the time of an issue, a late sample, samples of other units *)
(* and banks; the last instruction of each kind is never measured.         *)
Files0 == <<File(0, <<Vmem(10, 2, 8, 1), Valu(40), Vmem(60, 0, 4, 1)>>),
            File(1, <<Vmem(30, 0, 4, 3), Lds(35, 1, 5, 2)>>),
            File(2, <<Vmem(120, 0, 4, 1), Lds(125, 3, 2, 2)>>)>>
Samples0 == <<Sample(20, 1, 0), Sample(60, 1, 0)>> \o Others(70) \o <<Sample(110, 0, 0), Sample(150, 0, 0)>>
Files1 == <<File(3, <<Vmem(5, 0, 4, 1), Lds(9, 0, 4, 3), Vmem(90, 0, 4, 3), Lds(95, 0, 4, 2)>>)>>
Samples1 == <<Sample(50, 0, 0), Sample(90, 0, 0)>>

There(samples) == [there |-> TRUE, ok |-> TRUE, samples |-> samples]
NotThere == [There(<<>>) EXCEPT !.there = FALSE]
Folder(files0, perf0, perf1, names) ==
    [filenames |-> TRUE, code |-> TRUE, names |-> names, listed |-> {0, 1},
     files |-> 0 :> files0 @@ 1 :> Files1, perf |-> 0 :> perf0 @@ 1 :> perf1]

Both == {"VMEM", "LDS"}
MCFolders ==
    [whole |-> Folder(Files0, There(Samples0), There(Samples1), Both),
     badfile |-> Folder([Files0 EXCEPT ![2].ok = FALSE], There(Samples0), There(Samples1), Both),
     badperf |-> Folder(Files0, [There(<<>>) EXCEPT !.ok = FALSE], NotThere, Both),
     oddunit |-> Folder([Files0 EXCEPT ![3].cu = -1], There(Samples0), NotThere, {"VMEM"}),
     nocounter |-> Folder(Files0, There(Samples0), There(Samples1), {})]

Trace(sqtt, pcs, auto, latency, pairs, codes, f) ==
    [sqtt |-> sqtt, pcs |-> pcs, auto |-> auto, latency |-> latency, pairs |-> pairs, codes |-> codes,
     folder |-> f]

MCTraces ==
    { Trace(TRUE, FALSE, TRUE, "active", {"p", "q"}, {1, 2, 3}, "whole"),
      Trace(TRUE, FALSE, FALSE, "covered", {"p"}, {1, 2}, "badfile"),
      Trace(FALSE, TRUE, FALSE, "active", {}, {1, 2}, "nocounter"),
      Trace(TRUE, TRUE, TRUE, "active", {"p"}, {4}, "oddunit"),
      Trace(TRUE, FALSE, FALSE, "idle", {"p"}, {1}, "badperf") }
=============================================================================
