-------------------------- MODULE MCHkyContainers ---------------------------
(* Two heads and three elements, two of which compare equal; an array and a    *)
(* list in a block of six elements that is full after a few of them, with     *)
(* four more above it.                                                        *)
EXTENDS HkyContainers

Keys == [e1 |-> 1, e2 |-> 1, e3 |-> 0]
=============================================================================
