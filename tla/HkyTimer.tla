------------------------------ MODULE HkyTimer ------------------------------
(* The timers (event/hky_event_timer.h): events in a red-black tree, by the  *)
(* moment they are due.  The loop that takes due events from the tree is     *)
(* external; it is in time when no event has been due for more than Late.    *)
EXTENDS HkyRbtree, HkyMsec, Sequences

CONSTANTS
    Delays,             \* milliseconds a caller may ask for
    Active,             \* the events that are added and removed at any time
    Rearmed,            \* those of them that are added while they are armed
    Crowds,             \* sequences of events and delays added at once at the start
    Lazy,               \* HKY_TIMER_LAZY_DELAY
    Late                \* the most the loop is behind

\* All keys stay within half the range of a counter.
ASSUME TimerAssumption ==
    /\ Lazy \in Nat \ {0} /\ Late \in Nat
    /\ Delays \subseteq Nat /\ \A d \in Delays : d + Lazy + Late < Half
    /\ Rearmed \subseteq Active /\ Active \subseteq Nodes
    /\ \A crowd \in Crowds : \A i \in DOMAIN crowd : crowd[i].delay \in Delays

VARIABLES
    tree,               \* hky_event_timer_rbtree
    now,                \* hky_current_msec
    timer_set           \* the events with this bit

vars == <<tree, now, timer_set>>

(* hky_rbtree_insert with the order of hky_rbtree_insert_timer_value *)
Put(t, e, key) == Insert(t, e, key, {x \in Linked(t) : Earlier(key, t.key[x])})

(* The tree after the first n events of a crowd were added at "now". *)
RECURSIVE Crowded(_, _)
Crowded(crowd, n) ==
    IF n = 0 THEN EmptyTree
    ELSE CHOOSE t \in {Put(rest, crowd[n].event, Plus(now, crowd[n].delay)) :
                         rest \in {Crowded(crowd, n - 1)}} : TRUE

Init ==
    /\ now \in Msec
    /\ \E crowd \in Crowds :
         /\ crowd # <<>> => now = 2 * Half - 1
         /\ tree = Crowded(crowd, Len(crowd))
         /\ timer_set = {crowd[i].event : i \in DOMAIN crowd}

Key(e) == tree.key[e]

(* hky_event_del_timer *)
Del(e) ==
    /\ tree' = Delete(tree, e)
    /\ timer_set' = timer_set \ {e}

DelTimer(e) ==
    /\ e \in timer_set
    /\ Del(e)
    /\ UNCHANGED now

Magnitude(n) == IF n >= 0 THEN n ELSE -n

(* Mutant: the difference is not read as a signed number. *)
KeepsUnsigned(e, key) == e \in timer_set /\ Minus(key, Key(e)) < Lazy

(* A timer that would move by less than Lazy stays where it is. *)
Keeps(e, key) == e \in timer_set /\ Magnitude(Signed(Minus(key, Key(e)))) < Lazy

(* hky_event_add_timer *)
AddTimer(e, delay) ==
    LET key == Plus(now, delay)
        cleared == IF e \in timer_set THEN Delete(tree, e) ELSE tree
    IN  /\ timer_set \subseteq Active
        /\ e \in timer_set => e \in Rearmed
        /\ tree' = IF Keeps(e, key) THEN tree ELSE Put(cleared, e, key)
        /\ timer_set' = timer_set \cup {e}
        /\ UNCHANGED now

(* The event loop takes the first event when it is due. *)
ExpireTimer ==
    /\ tree.root # Sentinel
    /\ LET e == MinFrom(tree, tree.root)
       IN  Until(now, Key(e)) <= 0 /\ Del(e)
    /\ UNCHANGED now

PassTime ==
    /\ \A e \in timer_set : Until(now, Key(e)) > -Late
    /\ now' = Plus(now, 1)
    /\ UNCHANGED <<tree, timer_set>>

Next ==
    \/ \E e \in Active, delay \in Delays : AddTimer(e, delay)
    \/ \E e \in Nodes : DelTimer(e)
    \/ ExpireTimer
    \/ PassTime

Spec == Init /\ [][Next]_vars

-----------------------------------------------------------------------------
TypeOK ==
    /\ Linked(tree) = timer_set
    /\ timer_set \subseteq Nodes
    /\ tree.root \in Nodes \cup {Sentinel}
    /\ \A s \in Sides : tree.child[s] \in [timer_set \cup {Sentinel} -> Nodes \cup {Sentinel, NULL}]
    /\ tree.red \in [timer_set \cup {Sentinel} -> BOOLEAN]
    /\ \A e \in timer_set : Key(e) \in Msec
    /\ now \in Msec

(* After every sequence of additions and removals the tree is a red-black    *)
(* tree: black root and sentinel, no red child of a red node, the same number *)
(* of black nodes on every way down, and parents that know their children.   *)
Balanced ==
    /\ TypeOK
    /\ ~tree.red[Sentinel] /\ ~tree.red[tree.root]
    /\ \A e \in timer_set, s \in Sides :
         LET c == tree.child[s][e]
         IN  /\ tree.red[e] => ~tree.red[c]
             /\ c # Sentinel => tree.parent[c] = e
    /\ Cardinality(BlackHeights(tree, tree.root)) = 1

(* hky_rbtree_next leads from the first node through all of them, each once, *)
(* in the order of their wrapped keys.                                       *)
WalkInOrder ==
    tree.root # Sentinel =>
      LET walk == WalkFrom(tree, MinFrom(tree, tree.root), Cardinality(timer_set) + 1)
      IN  /\ Len(walk) = Cardinality(timer_set)
          /\ {walk[i] : i \in DOMAIN walk} = timer_set
          /\ \A i \in 1..(Len(walk) - 1) : Until(Key(walk[i]), Key(walk[i + 1])) >= 0

(* The tree and its wrapped keys do what a table of remaining times does:    *)
(* the event that goes first has the least time left, whatever now is, and    *)
(* the many small moves of an armed timer do not add up.                     *)
Queue == INSTANCE HkyTimerQueue WITH
    Events <- Nodes,
    left <- [e \in timer_set |-> Until(now, Key(e))]
QueueSpec == Queue!Spec

=============================================================================
