------------------------------ MODULE HkyArena ------------------------------
(***************************************************************************)
(* What hky_palloc.h promises its callers, without blocks, bump pointers   *)
(* or slot lists: an arena grants regions of memory that never overlap one *)
(* granted since the last reset, owns heap blocks and file descriptors on  *)
(* the caller's behalf, and gives all of them back, each once, when it is  *)
(* destroyed.  HkyPool implements this module.                             *)
(***************************************************************************)
EXTENDS Naturals, Sequences

CONSTANTS
    Overlaps(_, _),  \* whether two regions share a byte
    Regions,         \* every region an arena can grant
    HeapIds,         \* heap blocks
    Fds              \* file descriptors

VARIABLES
    alive,    \* whether the arena exists
    granted,  \* the regions granted since the last reset, oldest first
    owned,    \* the heap blocks the arena must free
    owed,     \* the descriptors the arena must close
    open      \* the descriptors open in the process

vars == <<alive, granted, owned, owed, open>>

Init ==
    /\ alive = FALSE
    /\ granted = <<>> /\ owned = {} /\ owed = {} /\ open = {}

Create ==
    /\ ~alive /\ alive' = TRUE
    /\ granted' = <<>> /\ owned' = {} /\ owed' = {}
    /\ UNCHANGED open

\* n more regions are granted; they may not touch one that is still granted,
\* nor each other.
Grants(n) ==
    /\ granted' \in Seq(Regions)
    /\ Len(granted') = Len(granted) + n
    /\ \A i \in 1..Len(granted) : granted'[i] = granted[i]
    /\ \A i \in 1..Len(granted'), j \in Len(granted) + 1 .. Len(granted') :
          i # j => ~Overlaps(granted'[i], granted'[j])

Grant ==
    /\ alive
    /\ Grants(1) \/ Grants(2)
    /\ UNCHANGED <<alive, owned, owed, open>>

TakeBlock(h) ==
    /\ alive /\ h \notin owned
    /\ owned' = owned \cup {h}
    /\ UNCHANGED granted \/ Grants(1)
    /\ UNCHANGED <<alive, owed, open>>

FreeBlock(h) ==
    /\ alive /\ h \in owned
    /\ owned' = owned \ {h}
    /\ UNCHANGED <<alive, granted, owed, open>>

OpenFile(fd) ==
    /\ fd \notin open
    /\ open' = open \cup {fd}
    /\ UNCHANGED <<alive, granted, owned, owed>>

Owe(fd) ==
    /\ alive /\ fd \in open \ owed
    /\ owed' = owed \cup {fd}
    /\ Grants(2)
    /\ UNCHANGED <<alive, owned, open>>

Close(fd) ==
    /\ alive /\ fd \in owed
    /\ owed' = owed \ {fd} /\ open' = open \ {fd}
    /\ UNCHANGED <<alive, granted, owned>>

\* A reset frees the heap blocks and forgets the regions; what it owes stays.
Reset ==
    /\ alive
    /\ granted' = <<>> /\ owned' = {}
    /\ UNCHANGED <<alive, owed, open>>

Destroy ==
    /\ alive /\ alive' = FALSE
    /\ granted' = <<>> /\ owned' = {} /\ owed' = {}
    /\ open' = open \ owed

Next ==
    \/ Create \/ Grant \/ Reset \/ Destroy
    \/ \E h \in HeapIds : TakeBlock(h) \/ FreeBlock(h)
    \/ \E fd \in Fds : OpenFile(fd) \/ Owe(fd) \/ Close(fd)

Spec == Init /\ [][Next]_vars
=============================================================================
