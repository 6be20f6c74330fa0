---------------------------- MODULE MC_WaveCache ----------------------------
(* Four waves that share two keys pairwise, an array of two futures, and a *)
(* line with immediate tokens of one key and two other types of the other. *)
EXTENDS WaveCache

CONSTANTS k1, k2

MCKeyOf == <<k1, k2, k1, k2>>
MCTypeOf == <<9, 5, 9, 2>>
=============================================================================
