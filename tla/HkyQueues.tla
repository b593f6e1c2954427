----------------------------- MODULE HkyQueues ------------------------------
(* What core/hky_queue.h promises: each head stands for a sequence of          *)
(* elements, and an element is in one of them at most.                        *)
EXTENDS Integers, Sequences, SequencesExt

CONSTANTS Heads, Elements, Key, NULL

VARIABLES
    queues,     \* the elements of each head, from its head to its last
    middle      \* what a question for the middle was answered, no more than that

vars == <<queues, middle>>

Init ==
    /\ queues = [h \in Heads |-> <<>>]
    /\ middle = NULL

Free(x) == \A h \in Heads : x \notin ToSet(queues[h])

(* An element enters at the front, at the back or behind another one.         *)
Insert ==
    /\ \E h \in Heads, x \in Elements : \E i \in 1..(Len(queues[h]) + 1) :
          Free(x) /\ queues' = [queues EXCEPT ![h] = InsertAt(@, i, x)]
    /\ middle' = NULL

TakeOut ==
    /\ \E h \in Heads : \E i \in DOMAIN queues[h] :
          queues' = [queues EXCEPT ![h] = RemoveAt(@, i)]
    /\ middle' = NULL

(* The end of a queue becomes a queue of its own, or an empty one all of       *)
(* another.                                                                   *)
Split ==
    /\ \E h, n \in Heads : \E i \in DOMAIN queues[h] :
          /\ queues[n] = <<>>
          /\ queues' = [queues EXCEPT ![h] = SubSeq(@, 1, i - 1),
                                      ![n] = SubSeq(queues[h], i, Len(queues[h]))]
    /\ middle' = NULL

Precedes(q, x, y) == \E i, j \in DOMAIN q : i < j /\ q[i] = x /\ q[j] = y

(* Sorted by the keys; elements of one key keep their order.                  *)
Ordered(q, old) ==
    \A i, j \in DOMAIN q : i < j =>
       Key[q[i]] < Key[q[j]] \/ (Key[q[i]] = Key[q[j]] /\ Precedes(old, q[i], q[j]))

Sort ==
    /\ \E h \in Heads : \E q \in [DOMAIN queues[h] -> ToSet(queues[h])] :
          /\ ToSet(q) = ToSet(queues[h])
          /\ Ordered(q, queues[h])
          /\ queues' = [queues EXCEPT ![h] = q]
    /\ middle' = NULL

Middle ==
    /\ \E h \in Heads :
          middle' = IF queues[h] = <<>> THEN h
                    ELSE queues[h][(Len(queues[h]) \div 2) + 1]
    /\ UNCHANGED queues

Next == Sort \/ Middle \/ Insert \/ TakeOut \/ Split

Spec == Init /\ [][Next]_vars
=============================================================================
