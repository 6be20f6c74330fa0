-------------------------- MODULE MC_WaveSelection --------------------------
(* Two waves and a wave that cannot be built on one shader engine, a wave  *)
(* on another; waves a and d have the same wait connections, and the       *)
(* user may type a range backwards.                                        *)
EXTENDS WaveSelection, TLC

CONSTANTS a, b, c, d

MCSe       == (a :> 0) @@ (b :> 0) @@ (c :> 0) @@ (d :> 1)
MCBegin    == (a :> 0) @@ (b :> 6) @@ (c :> 2) @@ (d :> 1)
MCEnd      == (a :> 3) @@ (b :> 9) @@ (c :> 4) @@ (d :> 2)
MCWaits    == (a :> {1}) @@ (b :> {1, 2}) @@ (c :> {}) @@ (d :> {1})
MCBranches == (a :> {1}) @@ (b :> {2}) @@ (c :> {}) @@ (d :> {3})
MCCutoffs  == {<<5, 3>>, <<1, 20>>}
=============================================================================
