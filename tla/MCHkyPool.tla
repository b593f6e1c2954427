----------------------------- MODULE MCHkyPool ------------------------------
(* HkyPool with the structure sizes of a 64-bit build and the 128-byte pool *)
(* that hky_init_cycle makes for the retired cycles.                        *)
EXTENDS HkyPool, TLC

HeapSymmetry == Permutations(HeapIds)
=============================================================================
