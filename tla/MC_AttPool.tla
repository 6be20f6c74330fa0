---------------------------- MODULE MC_AttPool ----------------------------
(* AttPool on three files: sizes below, at and above the budget, and fewer *)
(* slots than files, so that both limits make the loading thread wait.     *)
EXTENDS AttPool

MCSizes == {0, 2, 3}
=============================================================================
