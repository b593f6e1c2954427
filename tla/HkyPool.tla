------------------------------ MODULE HkyPool -------------------------------
(***************************************************************************)
(* The pool allocator, core/hky_palloc.c over unix/hky_alloc.c.            *)
(*                                                                         *)
(* A pool is a chain of equally sized blocks, each with a bump pointer     *)
(* (d.last) and a count of failed searches (d.failed).  Blocks are         *)
(* numbered along d.next and offsets are counted from the block's first    *)
(* byte, so a pointer into the pool is <<block, offset>>.  "live" and      *)
(* "heap" are history: the regions callers hold and the blocks malloc'ed.  *)
(***************************************************************************)
EXTENDS HkyOrder, Sequences

CONSTANTS
    PoolSize,       \* the size a pool, and each further block of it, is made with
    Header,         \* sizeof(hky_pool_t)
    DataHeader,     \* sizeof(hky_pool_data_t)
    LargeHeader,    \* sizeof(hky_pool_large_t)
    CleanupHeader,  \* sizeof(hky_pool_cleanup_t)
    FileData,       \* sizeof(hky_pool_cleanup_file_t)
    PageMax,        \* HKY_MAX_ALLOC_FROM_POOL
    Alignment,      \* HKY_ALIGNMENT, the platform word
    AllocTest,      \* line 60 of hky_alloc.c: "assign" as written, "compare" as meant
    Sizes,          \* the sizes callers ask for
    HeapIds,        \* addresses malloc can return
    Fds,            \* descriptors a caller can hand to a cleanup
    NULL,
    MaxBlocks       \* bound: memalign fails once the pool has this many blocks

AlignUp(m) == ((m + Alignment - 1) \div Alignment) * Alignment

Smaller(a, b) == IF a < b THEN a ELSE b
MaxSmall == Smaller(PoolSize - Header, PageMax)

ASSUME PoolAssumption ==
    /\ Alignment \in {4, 8}
    /\ PoolSize \in Nat /\ PoolSize % Alignment = 0
    /\ Header \in Nat /\ Header <= PoolSize
    /\ DataHeader \in Nat /\ LargeHeader \in Nat
    /\ AlignUp(DataHeader) + LargeHeader <= Header
    /\ PageMax \in Nat
    /\ CleanupHeader \in 0..MaxSmall /\ FileData \in 0..MaxSmall
    /\ AllocTest \in {"assign", "compare"}
    /\ Sizes \subseteq Nat
    /\ NULL \notin HeapIds
    /\ MaxBlocks \in Nat

VARIABLES
    alive,      \* whether the pool exists
    pool,       \* [blocks, current]: the chain and the block searches start at
    large,      \* pool->large, head first: the heap block of each entry, or NULL
    cleanup,    \* pool->cleanup, head first: [handler, fd]
    live,       \* the regions granted since the last reset
    heap,       \* the heap blocks malloc'ed and not yet freed
    lost,       \* those of them nobody holds a pointer to
    openFds,    \* the open descriptors
    badClose    \* whether close() was called on a descriptor that is not open

vars == <<alive, pool, large, cleanup, live, heap, lost, openFds, badClose>>

Block == [last : 0..PoolSize, failed : Nat]
Region == [blk : Nat, lo : Nat, hi : Nat]
Entry == [handler : {"none", "file", "delete"}, fd : Fds]

FreshPool == [blocks |-> <<[last |-> Header, failed |-> 0]>>, current |-> 1]

Init ==
    /\ alive = FALSE
    /\ pool = FreshPool /\ large = <<>> /\ cleanup = <<>>
    /\ live = <<>> /\ heap = {} /\ lost = {} /\ openFds = {} /\ badClose = FALSE

-----------------------------------------------------------------------------
(* hky_palloc_small and hky_palloc_block, as functions of the pool.        *)

Start(b, align) == IF align THEN AlignUp(b.last) ELSE b.last

\* Mutant: asks whether the block has room at all, not room for size bytes.
FitsAnyRoom(b, size, align) == Start(b, align) < PoolSize

\* (size_t)(end - m) >= size: a start past the end wraps to a huge difference.
Fits(b, size, align) ==
    LET m == Start(b, align) IN m > PoolSize \/ PoolSize - m >= size

Candidates(p, size, align) ==
    {j \in p.current .. Len(p.blocks) : Fits(p.blocks[j], size, align)}

\* Mutant: advances d.last by the size and forgets the bytes lost to alignment.
TakeFromPadded(p, j, size, align) ==
    LET m == Start(p.blocks[j], align) IN
    [pool |-> [p EXCEPT !.blocks[j].last = @ + size],
     at   |-> <<[blk |-> j, lo |-> m, hi |-> m + size]>>]

TakeFrom(p, j, size, align) ==
    LET m == Start(p.blocks[j], align) IN
    [pool |-> [p EXCEPT !.blocks[j].last = m + size],
     at   |-> <<[blk |-> j, lo |-> m, hi |-> m + size]>>]

\* Every block searched in vain, the last one excepted, has failed once more;
\* the search will start after the last one that had failed more than 4 times.
Aged(p) ==
    LET searched == p.current .. Len(p.blocks) - 1
        tired    == {i \in searched : p.blocks[i].failed > 4}
    IN [blocks  |-> [i \in 1..Len(p.blocks) |->
                       IF i \in searched THEN [p.blocks[i] EXCEPT !.failed = @ + 1]
                                         ELSE p.blocks[i]],
        current |-> IF tired = {} THEN p.current ELSE LastOf(tired) + 1]

\* Mutant: the new block's d.last stays at the region it has just granted.
TakeNewUnadvanced(p, size) ==
    LET m == AlignUp(DataHeader) IN
    [pool |-> [Aged(p) EXCEPT !.blocks = Append(@, [last |-> m, failed |-> 0])],
     at   |-> <<[blk |-> Len(p.blocks) + 1, lo |-> m, hi |-> m + size]>>]

TakeNew(p, size) ==
    LET m == AlignUp(DataHeader) IN
    [pool |-> [Aged(p) EXCEPT !.blocks = Append(@, [last |-> m + size, failed |-> 0])],
     at   |-> <<[blk |-> Len(p.blocks) + 1, lo |-> m, hi |-> m + size]>>]

Refused(p) == [pool |-> p, at |-> <<>>]

\* Each result: the pool afterwards and the region granted, none if NULL.
SmallAlloc(p, size, align) ==
    LET C == Candidates(p, size, align) IN
    IF C # {} THEN {TakeFrom(p, FirstOf(C), size, align)}
    ELSE {Refused(p)} \cup
         (IF Len(p.blocks) < MaxBlocks THEN {TakeNew(p, size)} ELSE {})

-----------------------------------------------------------------------------
CreatePool ==
    /\ ~alive /\ alive' = TRUE
    /\ pool' = FreshPool /\ large' = <<>> /\ cleanup' = <<>> /\ live' = <<>>
    /\ UNCHANGED <<heap, lost, openFds, badClose>>

\* hky_palloc (align) and hky_pnalloc of a size that fits a block.
PallocSmall(size, align) ==
    /\ alive /\ size <= MaxSmall
    /\ \E r \in SmallAlloc(pool, size, align) :
          /\ pool' = r.pool /\ live' = live \o r.at
    /\ UNCHANGED <<alive, large, cleanup, heap, lost, openFds, badClose>>

\* Puts heap block h on pool->large behind a new header, or frees it again.
LinkLarge(h) ==
    \E r \in SmallAlloc(pool, LargeHeader, TRUE) :
        /\ pool' = r.pool /\ live' = live \o r.at
        /\ IF r.at = <<>> THEN UNCHANGED <<large, heap>>
           ELSE large' = <<h>> \o large /\ heap' = heap \cup {h}

\* Mutant: takes any of the first five slots.
AnySlots == 1..Smaller(5, Len(large))

FreeSlots == {i \in 1..Smaller(5, Len(large)) : large[i] = NULL}

\* hky_palloc_large: hky_alloc, then a free slot among the first five, or a new one.
PallocLarge(size, h) ==
    /\ alive /\ size > MaxSmall /\ h \notin heap
    /\ IF AllocTest = "assign"
       THEN /\ heap' = heap \cup {h} /\ lost' = lost \cup {h}
            /\ UNCHANGED <<pool, large, live>>
       ELSE /\ UNCHANGED lost
            /\ IF FreeSlots # {}
               THEN /\ large' = [large EXCEPT ![FirstOf(FreeSlots)] = h]
                    /\ heap' = heap \cup {h}
                    /\ UNCHANGED <<pool, live>>
               ELSE LinkLarge(h)
    /\ UNCHANGED <<alive, cleanup, openFds, badClose>>

Pmemalign(h) ==
    /\ alive /\ h \notin heap
    /\ LinkLarge(h)
    /\ UNCHANGED <<alive, cleanup, lost, openFds, badClose>>

\* Only the first entry that holds the address is freed; HKY_DECLINED otherwise.
Pfree(h) ==
    LET holders == {i \in DOMAIN large : large[i] = h} IN
    /\ alive /\ holders # {}
    /\ large' = [large EXCEPT ![FirstOf(holders)] = NULL]
    /\ heap' = heap \ {h}
    /\ UNCHANGED <<alive, pool, cleanup, live, lost, openFds, badClose>>

\* hky_pool_cleanup_add(p, sizeof(hky_pool_cleanup_file_t)) and the caller's
\* handler; if the second allocation fails the first stays granted, unlinked.
AddFileCleanup(handler, fd) ==
    /\ alive
    /\ \E r \in SmallAlloc(pool, CleanupHeader, TRUE) :
          IF r.at = <<>> THEN pool' = r.pool /\ UNCHANGED <<live, cleanup>>
          ELSE \E s \in SmallAlloc(r.pool, FileData, TRUE) :
                  /\ pool' = s.pool /\ live' = live \o r.at \o s.at
                  /\ cleanup' = IF s.at = <<>> THEN cleanup
                                ELSE <<[handler |-> handler, fd |-> fd]>> \o cleanup
    /\ UNCHANGED <<alive, large, heap, lost, openFds, badClose>>

Armed == {i \in DOMAIN cleanup : cleanup[i].handler # "none"}
ArmedFds == {cleanup[i].fd : i \in Armed}

\* Mutant: closes the file and leaves the handler in place.
RunCleanupFileArmed(fd) ==
    /\ alive /\ \E i \in Armed : cleanup[i].handler = "file" /\ cleanup[i].fd = fd
    /\ openFds' = openFds \ {fd}
    /\ badClose' = (badClose \/ fd \notin openFds)
    /\ UNCHANGED <<alive, pool, large, cleanup, live, heap, lost>>

\* hky_pool_run_cleanup_file: only handlers that are hky_pool_cleanup_file match.
RunCleanupFile(fd) ==
    LET hits == {i \in Armed : cleanup[i].handler = "file" /\ cleanup[i].fd = fd} IN
    /\ alive /\ hits # {}
    /\ cleanup' = [cleanup EXCEPT ![FirstOf(hits)].handler = "none"]
    /\ openFds' = openFds \ {fd}
    /\ badClose' = (badClose \/ fd \notin openFds)
    /\ UNCHANGED <<alive, pool, large, live, heap, lost>>

Slots == {large[i] : i \in DOMAIN large} \ {NULL}

ResetPool ==
    /\ alive
    /\ pool' = [blocks  |-> [i \in 1..Len(pool.blocks) |-> [last |-> Header, failed |-> 0]],
                current |-> 1]
    /\ large' = <<>> /\ live' = <<>> /\ heap' = heap \ Slots
    /\ UNCHANGED <<alive, cleanup, lost, openFds, badClose>>

DestroyPool ==
    /\ alive /\ alive' = FALSE
    /\ openFds' = openFds \ ArmedFds
    /\ badClose' = (\/ badClose
                    \/ ~(ArmedFds \subseteq openFds)
                    \/ \E i, j \in Armed : i # j /\ cleanup[i].fd = cleanup[j].fd)
    /\ heap' = heap \ Slots
    /\ pool' = FreshPool /\ large' = <<>> /\ cleanup' = <<>> /\ live' = <<>>
    /\ UNCHANGED lost

\* The caller opens a file.
OpenFile(fd) ==
    /\ fd \notin openFds
    /\ openFds' = openFds \cup {fd}
    /\ UNCHANGED <<alive, pool, large, cleanup, live, heap, lost, badClose>>

-----------------------------------------------------------------------------
\* The callers' side: one cleanup per open descriptor, and no reset of a pool
\* with cleanups (no file of the program resets a pool; a reset keeps the list
\* pool->cleanup while it recycles the memory its entries are in).
Next ==
    \/ CreatePool
    \/ \E size \in Sizes, align \in BOOLEAN : PallocSmall(size, align)
    \/ \E size \in Sizes, h \in HeapIds : PallocLarge(size, h)
    \/ \E h \in HeapIds : Pmemalign(h) \/ Pfree(h)
    \/ \E fd \in openFds \ ArmedFds, handler \in {"file", "delete"} :
          AddFileCleanup(handler, fd)
    \/ \E fd \in Fds : OpenFile(fd) \/ RunCleanupFile(fd)
    \/ cleanup = <<>> /\ ResetPool
    \/ DestroyPool

Spec == Init /\ [][Next]_vars

-----------------------------------------------------------------------------
Overlaps(c, d) == c.blk = d.blk /\ c.lo < d.hi /\ d.lo < c.hi

Base(j) == IF j = 1 THEN Header ELSE DataHeader

SafeIn(p, s) ==
    /\ \A i \in DOMAIN s :
          /\ s[i].blk \in DOMAIN p.blocks
          /\ s[i].lo >= Base(s[i].blk)
          /\ s[i].hi <= p.blocks[s[i].blk].last
    /\ \A i, j \in DOMAIN s : i # j => ~Overlaps(s[i], s[j])

TypeOK ==
    /\ alive \in BOOLEAN /\ badClose \in BOOLEAN
    /\ pool \in [blocks : Seq(Block), current : Nat]
    /\ pool.current \in 1..Len(pool.blocks)
    /\ large \in Seq(HeapIds \cup {NULL}) /\ cleanup \in Seq(Entry)
    /\ live \in Seq(Region)
    /\ heap \subseteq HeapIds /\ lost \subseteq HeapIds /\ openFds \subseteq Fds

\* Every region palloc ever handed out, the allocator's own list entries
\* included, lies in its block after the block's header and before the bump
\* pointer, and no two of them share a byte: a caller that stays inside what it
\* asked for never corrupts another caller's data or the pool itself.
MemorySafe == SafeIn(pool, live)

\* The large list names each heap block of the pool once and only blocks that
\* are still malloc'ed, and none is missing from it but those hky_alloc lost:
\* so pool destruction frees each exactly once, whatever hky_pfree and the
\* reuse of slots did before.
LargeOwned ==
    /\ \A i, j \in DOMAIN large : large[i] # NULL /\ large[i] = large[j] => i = j
    /\ heap \ lost = Slots
    /\ Slots \cap lost = {} /\ lost \subseteq heap

\* No cleanup handler closes a descriptor that is already closed, be it by an
\* earlier hky_pool_run_cleanup_file or by another entry for the same number.
NoDoubleClose == ~badClose

\* The search never starts past a block that has not been tried in vain at
\* least six times, although palloc_block moves "current" over all the blocks
\* up to the last tired one.
SkippedAreTired == \A i \in 1 .. pool.current - 1 : pool.blocks[i].failed > 5

\* hky_alloc answers NULL only if malloc did: its own message for that answer
\* is "malloc(%uz) failed", so no malloc'ed block may be without an owner.
NoBlockLost == lost = {}

Arena == INSTANCE HkyArena WITH
    Regions <- Region, granted <- live, owned <- heap \ lost, owed <- ArmedFds, open <- openFds

\* The pool implements the arena its callers rely on.
ArenaSpec == Arena!Spec
=============================================================================
