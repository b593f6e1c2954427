------------------------------ MODULE HkyQueue ------------------------------
(* The queues of core/hky_queue.h and core/hky_queue.c: rings of links through *)
(* a head that is no element.  The macros assign one link after the other.     *)
(* Nothing marks an element that is in no queue; a build with HKY_DEBUG clears *)
(* its links, any other leaves them as they were.                             *)
EXTENDS Integers, Sequences, SequencesExt, FiniteSets

CONSTANTS
    Heads,
    Elements,
    Key             \* what the comparison given to hky_queue_sort looks at

ASSUME QueueAssumption ==
    /\ Heads \cap Elements = {}
    /\ IsFiniteSet(Elements)
    /\ Key \in [Elements -> Int]

VARIABLES
    debug,          \* HKY_DEBUG
    links,          \* prev and next of every head and element
    middle          \* what hky_queue_middle has just returned

queueVars == <<debug, links, middle>>

Nodes == Heads \cup Elements
NULL  == "NULL"

QueueInit(l, q) == [l EXCEPT !.prev[q] = q, !.next[q] = q]

InsertAfter(l, h, x) ==
    [l EXCEPT !.next[x] = l.next[h], !.prev[l.next[h]] = x, !.prev[x] = h, !.next[h] = x]

InsertTail(l, h, x) ==
    [l EXCEPT !.prev[x] = l.prev[h], !.next[l.prev[h]] = x, !.next[x] = h, !.prev[h] = x]

Unlink(l, x) ==
    LET out == [l EXCEPT !.prev[l.next[x]] = l.prev[x], !.next[l.prev[x]] = l.next[x]]
    IN  IF debug THEN [out EXCEPT !.prev[x] = NULL, !.next[x] = NULL] ELSE out

(* hky_queue_split: q and all behind it go to n.                              *)
SplitAt(l, h, q, n) ==
    LET tail == [l EXCEPT !.prev[n] = l.prev[h], !.next[l.prev[h]] = n, !.next[n] = q,
                          !.prev[h] = l.prev[q]]
        front == [tail EXCEPT !.next[tail.prev[h]] = h]
    IN  [front EXCEPT !.prev[q] = n]

(* hky_queue_add of the queue n to h.  Its second assignment is to the first   *)
(* element of h where the first of n would have to follow the last of h.      *)
AddTo(l, h, n) ==
    LET forth == [l EXCEPT !.next[l.prev[h]] = l.next[n]]
        back  == [forth EXCEPT !.prev[forth.next[h]] = forth.prev[h]]
        tail  == [back EXCEPT !.prev[h] = back.prev[n]]
    IN  [tail EXCEPT !.next[tail.prev[h]] = h]

-----------------------------------------------------------------------------
(* A row of elements as one meets it from h on: its elements at 1, 2, ..., and *)
(* h again behind them.                                                       *)
Rows == {q \in SeqOf(Elements, Cardinality(Elements)) : IsInjective(q)}

At(h, q, i) == IF i \in DOMAIN q THEN q[i] ELSE h

Linked(l, h, q) ==
    \A i \in 0..Len(q) :
       l.next[At(h, q, i)] = At(h, q, i + 1) /\ l.prev[At(h, q, i + 1)] = At(h, q, i)

(* The elements of a head, if both directions agree on them.                  *)
QueueOf(l, h) ==
    IF \E q \in Rows : Linked(l, h, q)
    THEN CHOOSE q \in Rows : Linked(l, h, q)
    ELSE <<h>>

Empty(h) == h = links.prev[h]
Queued(h) == ToSet(QueueOf(links, h))
Unqueued == {x \in Elements : \A h \in Heads : x \notin Queued(h)}

(* Mutant: an element is moved before those of its own key.                   *)
BehindEqual(l, h, q, prev) ==
    LET back[i \in 0..Cardinality(Elements)] ==
            IF i = 0 THEN prev
            ELSE LET p == back[i - 1]
                 IN  IF p = h \/ Key[p] < Key[q] THEN p ELSE l.prev[p]
    IN  back[Cardinality(Elements)]

(* Where the inner loop of hky_queue_sort stops: at the first element, going   *)
(* back from prev, that does not belong behind q, or at the head.             *)
Behind(l, h, q, prev) ==
    LET back[i \in 0..Cardinality(Elements)] ==
            IF i = 0 THEN prev
            ELSE LET p == back[i - 1]
                 IN  IF p = h \/ Key[p] <= Key[q] THEN p ELSE l.prev[p]
    IN  back[Cardinality(Elements)]

SortStep(l, h, q) ==
    LET without == Unlink(l, q)
    IN  InsertAfter(without, Behind(without, h, q, l.prev[q]), q)

(* hky_queue_sort takes the elements behind the first in their order: "next"   *)
(* is read before its predecessor is moved.                                   *)
QueueSort(l, h) ==
    LET q == QueueOf(l, h)
        sorted[i \in 1..Len(q)] ==
            IF i = 1 THEN l ELSE SortStep(sorted[i - 1], h, q[i])
    IN  sorted[Len(q)]

(* hky_queue_middle: m goes by single steps, n by double ones until it meets   *)
(* the last element.                                                          *)
QueueMiddle(h) ==
    LET next == links.next
        end  == links.prev[h]
        walk[i \in 0..Cardinality(Elements)] ==
            IF i = 0 THEN [m |-> next[h], n |-> next[h]]
            ELSE LET at == walk[i - 1]
                 IN  IF at.n = end THEN at
                     ELSE [m |-> next[at.m],
                           n |-> IF next[at.n] = end THEN end ELSE next[next[at.n]]]
    IN  walk[Cardinality(Elements)].m

-----------------------------------------------------------------------------
LinksInit ==
    /\ debug \in BOOLEAN
    /\ links = [prev |-> [n \in Nodes |-> IF n \in Heads THEN n ELSE NULL],
                next |-> [n \in Nodes |-> IF n \in Heads THEN n ELSE NULL]]
    /\ middle = NULL

Insert ==
    /\ \E x \in Unqueued :
          \/ \E h \in Heads : links' = InsertTail(links, h, x)
          \/ \E h \in Nodes \ Unqueued : links' = InsertAfter(links, h, x)
    /\ middle' = NULL
    /\ UNCHANGED debug

TakeOut ==
    /\ \E x \in Elements \ Unqueued : links' = Unlink(links, x)
    /\ middle' = NULL
    /\ UNCHANGED debug

Split ==
    /\ \E h, n \in Heads : \E q \in Queued(h) : Empty(n) /\ links' = SplitAt(links, h, q, n)
    /\ middle' = NULL
    /\ UNCHANGED debug

(* The caller gives a queue that is empty one that is not, and starts over with *)
(* the other's head.  Any other hky_queue_add leaves links that are no rings.  *)
Add ==
    /\ \E h, n \in Heads :
          Empty(h) /\ ~Empty(n) /\ links' = QueueInit(AddTo(links, h, n), n)
    /\ middle' = NULL
    /\ UNCHANGED debug

Sort ==
    /\ \E h \in Heads :
          /\ links.next[h] # links.prev[h]
          /\ links' = QueueSort(links, h)
    /\ middle' = NULL
    /\ UNCHANGED debug

Middle ==
    /\ \E h \in Heads : middle' = QueueMiddle(h)
    /\ UNCHANGED <<debug, links>>

LinksNext == Insert \/ TakeOut \/ Split \/ Add \/ Sort \/ Middle

LinksSpec == LinksInit /\ [][LinksNext]_queueVars

Queues == INSTANCE HkyQueues WITH queues <- [h \in Heads |-> QueueOf(links, h)]

(* Queues stand for sequences, read from either end: inserting, removing,      *)
(* splitting, adding, sorting and asking for the middle do to them what they   *)
(* say, elements of one key keep their order, and what was left in the links   *)
(* of an element that is in no queue never matters.                           *)
QueuesRight == Queues!Spec
=============================================================================
