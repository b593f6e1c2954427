----------------------------- MODULE MCHkyTimer -----------------------------
(* HkyTimer with a counter of 12 milliseconds, four events that come and go, *)
(* and crowds of eleven that only go: the deeper cases of both operations.   *)
EXTENDS HkyTimer

CONSTANTS e1, e2, e3, e4, c1, c2, c3, c4, c5, c6, c7, c8, c9, c10, c11

MCActive == {e1, e2, e3, e4}
MCRearmed == {e1}
Members == <<c1, c2, c3, c4, c5, c6, c7, c8, c9, c10, c11>>
MCNodes == MCActive \cup {Members[i] : i \in DOMAIN Members}

Crowd(delays) == [i \in DOMAIN delays |-> [event |-> Members[i], delay |-> delays[i]]]
MCCrowds == {<<>>,
             Crowd(<<0, 0, 0, 0, 0, 0, 0, 0, 0, 0, 0>>),
             Crowd(<<2, 0, 2, 0, 0, 2, 0, 2, 0, 0, 2>>),
             Crowd(<<2, 2, 2, 2, 2, 2, 0, 0, 0, 0, 0>>)}

NodeSymmetry == Permutations(MCActive \ MCRearmed)
=============================================================================
