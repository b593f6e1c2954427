------------------------------ MODULE HkyArray ------------------------------
(* Arrays (core/hky_array.c) and a list (core/hky_list.c) in one memory pool,  *)
(* between allocations of others.  An array that lies at the end of the pool's *)
(* first block grows where it is; any other moves to a region of twice its     *)
(* size.  Addresses count elements: 0..BlockEnd-1 is the first block, above it *)
(* are regions of other blocks and of the heap.                                *)
EXTENDS Integers, Sequences, SequencesExt

CONSTANTS
    Arrays,         \* the arrays, by name
    Lengths,        \* the numbers of elements to create, or to push at once
    BlockEnd,       \* p->d.end
    MemoryEnd,      \* the bound on all memory
    MaxOthers,      \* the bound on the regions of others
    MaxElements     \* the bound on the elements of an array, and of the list

\* An array of no elements would double to none and be written all the same.
ASSUME ArrayAssumption ==
    /\ Lengths \subseteq Nat \ {0}
    /\ BlockEnd \in Nat /\ MemoryEnd \in Nat /\ BlockEnd < MemoryEnd
    /\ MaxOthers \in Nat /\ MaxElements \in Nat

VARIABLES
    last,       \* p->d.last
    passed,     \* p->current has gone past the first block
    beyond,     \* the first address above the block that was never given out
    cells,      \* what is written in memory
    arrays,     \* the arrays there are
    list,       \* the list: its parts, the elements of a part, how many were pushed
    others      \* regions that belong to somebody else

arrayVars == <<last, passed, beyond, cells, arrays, list, others>>

Nobody == [of |-> "nobody", n |-> 0]
Outside == -2           \* no cell of the pool
Absent == [elts |-> Outside, nelts |-> 0, nalloc |-> 0, header |-> Outside, within |-> Outside]
NoList == [parts |-> <<>>, nalloc |-> 0, pushed |-> 0]

(* hky_palloc as its callers see it: the region is at the end of the first    *)
(* block if it fits and the pool has not passed that block; else above it.    *)
Pool == [last |-> last, beyond |-> beyond]
InBlock(pool, n) == ~passed /\ pool.last + n <= BlockEnd

Palloc(pool, n) ==
    IF InBlock(pool, n)
    THEN {[at |-> pool.last, pool |-> [pool EXCEPT !.last = @ + n]]}
    ELSE IF pool.beyond + n <= MemoryEnd
    THEN {[at |-> pool.beyond, pool |-> [pool EXCEPT !.beyond = @ + n]]}
    ELSE {}

Use(pool) == last' = pool.last /\ beyond' = pool.beyond /\ UNCHANGED passed

(* The owner writes the elements that it was given.                           *)
Write(memory, at, owner, first, n) ==
    [c \in DOMAIN memory |-> IF c \in at..(at + n - 1)
                             THEN [of |-> owner, n |-> first + (c - at)] ELSE memory[c]]

(* What is left in memory that nobody owns any more is of no interest.        *)
Leave(memory, at, n) ==
    [c \in DOMAIN memory |-> IF c \in at..(at + n - 1) THEN Nobody ELSE memory[c]]

Move(memory, to, from, n) ==
    [c \in DOMAIN memory |-> IF c \in to..(to + n - 1) THEN memory[from + (c - to)]
                             ELSE Leave(memory, from, n)[c]]

ArraysInit ==
    /\ last = 0 /\ passed = FALSE /\ beyond = BlockEnd
    /\ cells = [c \in 0..(MemoryEnd - 1) |-> Nobody]
    /\ arrays = [a \in Arrays |-> Absent]
    /\ list = NoList
    /\ others = {}

-----------------------------------------------------------------------------
(* Where the hky_array_t is: in a region of its own, or in a cell of another   *)
(* structure.                                                                 *)
NewArray(at, n, header, within) ==
    [elts |-> at, nelts |-> 0, nalloc |-> n, header |-> header, within |-> within]

(* hky_array_create; without memory for the elements the header is lost.      *)
ArrayCreate(a, n) ==
    /\ arrays[a] = Absent
    /\ \E h \in Palloc(Pool, 1) :
          \/ \E r \in Palloc(h.pool, n) :
                Use(r.pool) /\ arrays' = [arrays EXCEPT ![a] = NewArray(r.at, n, h.at, Outside)]
          \/ ~InBlock(h.pool, n) /\ Use(h.pool) /\ UNCHANGED arrays
    /\ UNCHANGED <<cells, list, others>>

(* hky_array_init of an array that is a member of another structure: one of    *)
(* another's region, with a member behind it as those of hky_cycle_t have, or  *)
(* one outside the pool as hky_old_cycles.                                    *)
Members == {Outside} \cup UNION {{c \in region : c + 1 \in region} : region \in others}

ArrayInit(a, n) ==
    /\ arrays[a] = Absent
    /\ \E r \in Palloc(Pool, n), m \in Members :
          Use(r.pool) /\ arrays' = [arrays EXCEPT ![a] = NewArray(r.at, n, Outside, m)]
    /\ UNCHANGED <<cells, list, others>>

End(array) == array.elts + array.nalloc

(* Mutant: an array with room behind it grows in place wherever it lies.      *)
GrowsWithinBlock(array, n) == End(array) + n <= BlockEnd /\ last + n <= BlockEnd

GrowsInPlace(array, n) == End(array) = last /\ last + n <= BlockEnd

(* The elements of a, appended and written.                                   *)
Push(array, memory, a, n) ==
    /\ arrays' = [arrays EXCEPT ![a] = [array EXCEPT !.nelts = @ + n]]
    /\ cells' = Write(memory, array.elts + array.nelts, a, array.nelts + 1, n)

(* The region that hky_array_push and hky_array_push_n ask for when an array   *)
(* has to move.                                                               *)
GrownTo(array, n) ==
    IF n = 1 THEN 2 * array.nalloc
    ELSE 2 * (IF n >= array.nalloc THEN n ELSE array.nalloc)

(* hky_array_push, and hky_array_push_n with n > 1: in the elements there are, *)
(* in place, or moved.                                                        *)
ArrayPush(a, n) ==
    LET array == arrays[a]
    IN  /\ array # Absent
        /\ array.nelts + n <= MaxElements
        /\ IF array.nelts + n <= array.nalloc
             THEN Push(array, cells, a, n) /\ UNCHANGED <<last, passed, beyond>>
           ELSE IF GrowsInPlace(array, n)
             THEN /\ last' = last + n
                  /\ Push([array EXCEPT !.nalloc = @ + n], cells, a, n)
                  /\ UNCHANGED <<passed, beyond>>
           ELSE \E r \in Palloc(Pool, GrownTo(array, n)) :
                  /\ Use(r.pool)
                  /\ Push([array EXCEPT !.elts = r.at, !.nalloc = GrownTo(array, n)],
                          Move(cells, r.at, array.elts, array.nelts), a, n)
        /\ UNCHANGED <<list, others>>

(* hky_array_destroy gives back what lies at the end of the block: the         *)
(* elements, then the array itself, whose address is compared wherever it is. *)
ArrayDestroy(a) ==
    LET array == arrays[a]
        place == IF array.header # Outside THEN array.header ELSE array.within
        without == IF End(array) = last THEN array.elts ELSE last
    IN  /\ array # Absent
        /\ last' = IF place + 1 = without THEN place ELSE without
        /\ arrays' = [arrays EXCEPT ![a] = Absent]
        /\ cells' = Leave(cells, array.elts, array.nelts)
        /\ UNCHANGED <<passed, beyond, list, others>>

-----------------------------------------------------------------------------
(* hky_list_create: the list with its first part, and the elements of that;    *)
(* without memory for them the list is lost.                                  *)
ListCreate(n) ==
    /\ list = NoList
    /\ \E h \in Palloc(Pool, 1) :
          \/ \E r \in Palloc(h.pool, n) :
                /\ Use(r.pool)
                /\ list' = [parts |-> <<[elts |-> r.at, nelts |-> 0]>>, nalloc |-> n,
                            pushed |-> 0]
          \/ ~InBlock(h.pool, n) /\ Use(h.pool) /\ UNCHANGED list
    /\ UNCHANGED <<cells, arrays, others>>

PushIntoPart(parts) ==
    LET i == Len(parts)
    IN  /\ list' = [list EXCEPT !.parts = [parts EXCEPT ![i].nelts = @ + 1], !.pushed = @ + 1]
        /\ cells' = Write(cells, parts[i].elts + parts[i].nelts, "list", list.pushed + 1, 1)

(* hky_list_push: a part that is full is followed by a new one, linked only    *)
(* when it has its elements; without memory for them the part is lost.        *)
ListPush ==
    /\ list # NoList
    /\ list.pushed < MaxElements
    /\ IF list.parts[Len(list.parts)].nelts # list.nalloc
         THEN PushIntoPart(list.parts) /\ UNCHANGED <<last, passed, beyond>>
         ELSE \E h \in Palloc(Pool, 1) :
                \/ \E r \in Palloc(h.pool, list.nalloc) :
                     Use(r.pool) /\ PushIntoPart(Append(list.parts, [elts |-> r.at, nelts |-> 0]))
                \/ /\ ~InBlock(h.pool, list.nalloc)
                   /\ Use(h.pool) /\ UNCHANGED <<cells, list>>
    /\ UNCHANGED <<arrays, others>>

(* An allocation of somebody else.                                            *)
PallocOther(n) ==
    /\ Cardinality(others) < MaxOthers
    /\ \E r \in Palloc(Pool, n) :
          /\ Use(r.pool)
          /\ others' = others \cup {r.at..(r.at + n - 1)}
          /\ cells' = Write(cells, r.at, "other", 1, n)
    /\ UNCHANGED <<arrays, list>>

(* Allocations that did not fit have made the pool pass its first block.      *)
PassBlock ==
    /\ ~passed
    /\ passed' = TRUE
    /\ UNCHANGED <<last, beyond, cells, arrays, list, others>>

ArraysNext ==
    \/ \E a \in Arrays, n \in Lengths :
          ArrayCreate(a, n) \/ ArrayInit(a, n) \/ ArrayPush(a, n)
    \/ \E a \in Arrays : ArrayDestroy(a)
    \/ \E n \in Lengths : ListCreate(n) \/ PallocOther(n)
    \/ ListPush \/ PassBlock

ArraysSpec == ArraysInit /\ [][ArraysNext]_arrayVars

-----------------------------------------------------------------------------
Holds(at, owner, first, n) ==
    \A i \in 0..(n - 1) : cells[at + i] = [of |-> owner, n |-> first + i]

(* Whatever was pushed is found where the array and the parts of the list say, *)
(* in the order it was pushed, and nobody else's memory is written: growing in *)
(* place, moving, giving memory back and the allocations of others, in any     *)
(* order, and with memory running out in the middle of each.                   *)
ElementsKept ==
    /\ \A a \in Arrays :
          /\ Holds(arrays[a].elts, a, 1, arrays[a].nelts)
          /\ arrays[a].nelts <= arrays[a].nalloc
          /\ arrays[a].elts \in 0..(BlockEnd - 1) => End(arrays[a]) <= last
    /\ \A p \in DOMAIN list.parts :
          /\ Holds(list.parts[p].elts, "list", ((p - 1) * list.nalloc) + 1, list.parts[p].nelts)
          /\ p < Len(list.parts) => list.parts[p].nelts = list.nalloc
          /\ p = Len(list.parts) =>
                list.pushed = ((p - 1) * list.nalloc) + list.parts[p].nelts
    /\ \A region \in others : \A c \in region : cells[c].of = "other"
=============================================================================
