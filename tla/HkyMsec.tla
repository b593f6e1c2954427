------------------------------ MODULE HkyMsec -------------------------------
(* Time in milliseconds as hky_msec_t keeps it: a counter that wraps, and    *)
(* differences that are read as signed numbers.                              *)
EXTENDS Integers

CONSTANT Half           \* half the range of hky_msec_t

ASSUME HalfAssumption == Half \in Nat \ {0}

Msec == 0..(2 * Half - 1)

Plus(a, d) == IF a + d < 2 * Half THEN a + d ELSE a + d - 2 * Half
Minus(a, b) == IF b <= a THEN a - b ELSE a - b + 2 * Half

(* (hky_msec_int_t) d *)
Signed(d) == IF d < Half THEN d ELSE d - 2 * Half

(* The test of hky_rbtree_insert_timer_value. *)
Earlier(a, b) == Signed(Minus(a, b)) < 0

(* How long from one moment until another; negative when it has passed. *)
Until(a, b) == Signed(Minus(b, a))
=============================================================================
