--------------------------- MODULE HkyTimerQueue ----------------------------
(* What the timers promise, without a tree and without a counter that wraps: *)
(* for each armed event the time that is left, and the one with the least of *)
(* it goes first.                                                            *)
EXTENDS Integers

CONSTANTS Events, Delays, Lazy

VARIABLE left           \* of the armed events

Armed == DOMAIN left

(* It may begin with any timers. *)
Init ==
    /\ Armed \subseteq Events
    /\ \A e \in Armed : left[e] \in Delays

Magnitude(n) == IF n < 0 THEN -n ELSE n

(* A timer that is armed already is left alone when little would change. *)
Add(e, delay) ==
    IF e \in Armed /\ Magnitude(delay - left[e]) < Lazy
      THEN UNCHANGED left
      ELSE left' = [x \in Armed \cup {e} |-> IF x = e THEN delay ELSE left[x]]

Remove(e) ==
    /\ e \in Armed
    /\ left' = [x \in Armed \ {e} |-> left[x]]

Expire(e) ==
    /\ Remove(e)
    /\ left[e] <= 0
    /\ \A x \in Armed : left[e] <= left[x]

Pass == left' = [x \in Armed |-> left[x] - 1]

Next ==
    \/ \E e \in Events, delay \in Delays : Add(e, delay)
    \/ \E e \in Events : Remove(e) \/ Expire(e)
    \/ Pass

Spec == Init /\ [][Next]_left
=============================================================================
