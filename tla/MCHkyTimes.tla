---------------------------- MODULE MCHkyTimes ------------------------------
(* HkyTimes with a ring of three slots and two formatted times.  No two       *)
(* seconds share a millisecond, so that a mixture of two moments shows.      *)
EXTENDS HkyTimes, TLC

UpdaterSymmetry == Permutations(Updaters)

Clock == {[sec |-> 1, msec |-> 10], [sec |-> 1, msec |-> 11], [sec |-> 2, msec |-> 20]}
=============================================================================
