---------------------------- MODULE MCMicroOpCache ----------------------------
(* One set of a few ways, of which the two oldest compete for eviction.       *)
EXTENDS MicroOpCache, TLC

CONSTANTS w1, w2, w3, w4, w5

Symmetry == Permutations(Windows)
=============================================================================
