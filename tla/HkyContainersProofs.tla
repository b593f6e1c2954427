------------------------ MODULE HkyContainersProofs -------------------------
(* HkyArray: arrays and a list keep what was pushed, for any numbers of arrays *)
(* and elements and any sizes of the pool.  Every array, every part of the     *)
(* list and every allocation of others has cells of its own among those that   *)
(* the pool has given out (Layout), so that what one of them writes, moves or  *)
(* gives back leaves the others as they were (Kept).                           *)
(*                                                                             *)
(* HkyQueue: the links of any heads and elements implement the sequences of    *)
(* HkyQueues.  There is a row of elements for each head that its links lead    *)
(* through both ways, and no element is in two of them (Rings); what an        *)
(* operation assigns to links changes the rows as the sequences change.        *)
EXTENDS HkyContainers, HkyOrder, SequenceTheorems, TLAPS

\* A behaviour of the containers is one of either of them, which the other
\* leaves alone.
LEMMA EitherAlone == ContainersSpec => ArraysSpec /\ LinksSpec
  <1>1. ContainersInit => ArraysInit /\ LinksInit BY DEF ContainersInit
  <1>2. [ContainersNext]_vars => [ArraysNext]_arrayVars /\ [LinksNext]_queueVars
    BY Zenon DEF ContainersNext, vars
  <1> QED BY <1>1, <1>2, PTL DEF ContainersSpec, ArraysSpec, LinksSpec

-----------------------------------------------------------------------------
(* Who has which cells.                                                       *)

Pools == [last : 0..BlockEnd, beyond : BlockEnd..MemoryEnd]
Given(pool) == 0..(pool.last - 1) \cup BlockEnd..(pool.beyond - 1)
Cells(at, n) == at..(at + n - 1)
Apart(S, T) == S \cap T = {}

ArrayType == [elts : Int, nelts : Nat, nalloc : Nat, header : Int, within : Int]
PartType == [elts : Nat, nelts : Nat]

Slots(x) == Cells(x.elts, x.nalloc)
Header(x) == {x.header} \ {Outside}
Owned(x) == Slots(x) \cup Header(x)

Shaped(x) ==
    /\ x \in ArrayType /\ x.nelts <= x.nalloc
    /\ Apart(Slots(x), Header(x))
    /\ x = Absent \/ (x.elts \in Nat /\ x.nalloc # 0)

\* An array that begins in the first block lies below its end.
Below(x, pool) == x.elts \in 0..(BlockEnd - 1) => x.elts + x.nalloc <= pool.last

Layout(pool, arrs, parts, n, taken) ==
    /\ pool \in Pools
    /\ \A a \in Arrays :
          Shaped(arrs[a]) /\ Below(arrs[a], pool) /\ Owned(arrs[a]) \subseteq Given(pool)
    /\ \A a, b \in Arrays : a # b => Apart(Owned(arrs[a]), Owned(arrs[b]))
    /\ \A p \in DOMAIN parts :
          /\ Cells(parts[p].elts, n) \subseteq Given(pool)
          /\ \A a \in Arrays : Apart(Cells(parts[p].elts, n), Owned(arrs[a]))
          /\ \A q \in DOMAIN parts :
                p # q => Apart(Cells(parts[p].elts, n), Cells(parts[q].elts, n))
    /\ \A t \in taken :
          /\ t \subseteq Given(pool)
          /\ \A a \in Arrays : Apart(t, Owned(arrs[a]))
          /\ \A p \in DOMAIN parts : Apart(t, Cells(parts[p].elts, n))

Memory == 0..(MemoryEnd - 1)
Whole(memory) == memory = [c \in Memory |-> memory[c]]

\* What is found in these cells.
Found(memory, at, owner, first, n) ==
    \A i \in 0..(n - 1) : memory[at + i] = [of |-> owner, n |-> first + i]

Kept(memory, arrs, parts, n, taken) ==
    /\ Whole(memory)
    /\ \A a \in Arrays : Found(memory, arrs[a].elts, a, 1, arrs[a].nelts)
    /\ \A p \in DOMAIN parts :
          Found(memory, parts[p].elts, "list", ((p - 1) * n) + 1, parts[p].nelts)
    /\ \A t \in taken : \A c \in t : memory[c].of = "other"

\* All parts of a list but the last are full.
Filled(l) ==
    /\ l \in [parts : Seq(PartType), nalloc : Nat, pushed : Nat]
    /\ l.nalloc = 0 <=> l.parts = <<>>
    /\ l.nalloc = 0 => l = NoList
    /\ \A p \in DOMAIN l.parts :
          /\ l.parts[p].nelts <= l.nalloc
          /\ p < Len(l.parts) => l.parts[p].nelts = l.nalloc
          /\ p = Len(l.parts) => l.pushed = ((p - 1) * l.nalloc) + l.parts[p].nelts

\* An array that is a member of a structure of others has a member behind it,
\* and no structure of others goes on beyond the first block.
Lodging(place, taken) == place = Outside \/ \E t \in taken : place \in t /\ place + 1 \in t
Lodged(arrs, taken) ==
    /\ \A a \in Arrays : Lodging(arrs[a].within, taken)
    /\ \A t \in taken : ~(BlockEnd - 1 \in t /\ BlockEnd \in t)

AInv ==
    /\ arrays = [a \in Arrays |-> arrays[a]]
    /\ Layout(Pool, arrays, list.parts, list.nalloc, others)
    /\ Kept(cells, arrays, list.parts, list.nalloc, others)
    /\ Lodged(arrays, others)
    /\ Filled(list)

-----------------------------------------------------------------------------
(* What the pool gives out is new.                                            *)

LEMMA Bounds == BlockEnd \in Nat /\ MemoryEnd \in Nat /\ BlockEnd < MemoryEnd
  BY ArrayAssumption

LEMMA GivenIsMemory ==
    ASSUME NEW pool \in Pools PROVE Given(pool) \subseteq 0..(MemoryEnd - 1)
  BY Bounds DEF Pools, Given

LEMMA FewerCells ==
    ASSUME NEW at \in Int, NEW k \in Int, NEW n \in Int, k <= n
    PROVE  Cells(at, k) \subseteq Cells(at, n)
  BY DEF Cells

\* The cells from "at" on are new, and lie below the end of the first block or
\* above it.
New(pool, at, n, after) ==
    /\ after \in Pools /\ at \in Nat
    /\ Given(pool) \subseteq Given(after) /\ pool.last <= after.last
    /\ Cells(at, n) \subseteq Given(after) /\ Apart(Cells(at, n), Given(pool))
    /\ at \in 0..(BlockEnd - 1) => at + n <= after.last

LEMMA PallocRight ==
    ASSUME NEW pool \in Pools, NEW n \in Nat \ {0}, NEW r \in Palloc(pool, n)
    PROVE  New(pool, r.at, n, r.pool)
  <1>1. pool.last \in 0..BlockEnd /\ pool.beyond \in BlockEnd..MemoryEnd BY DEF Pools
  <1>2. CASE InBlock(pool, n)
    <2>1. r = [at |-> pool.last, pool |-> [pool EXCEPT !.last = @ + n]]
      BY <1>2 DEF Palloc
    <2>2. /\ r.at = pool.last /\ r.pool = [pool EXCEPT !.last = pool.last + n]
          /\ r.pool.last = pool.last + n /\ r.pool.beyond = pool.beyond
      BY <2>1 DEF Pools
    <2>3. pool.last + n <= BlockEnd BY <1>2 DEF InBlock
    <2>4. r.pool \in Pools
      <3>1. pool.last + n \in 0..BlockEnd BY <1>1, <2>3, Bounds
      <3> QED BY <2>2, <3>1 DEF Pools
    <2> QED BY <1>1, <2>2, <2>3, <2>4, Bounds DEF New, Given, Cells, Apart
  <1>3. CASE ~InBlock(pool, n)
    <2>1. /\ r = [at |-> pool.beyond, pool |-> [pool EXCEPT !.beyond = @ + n]]
          /\ pool.beyond + n <= MemoryEnd
      BY <1>3 DEF Palloc
    <2>2. /\ r.at = pool.beyond /\ r.pool = [pool EXCEPT !.beyond = pool.beyond + n]
          /\ r.pool.last = pool.last /\ r.pool.beyond = pool.beyond + n
      BY <2>1 DEF Pools
    <2>3. r.pool \in Pools
      <3>1. pool.beyond + n \in BlockEnd..MemoryEnd BY <1>1, <2>1, Bounds
      <3> QED BY <2>2, <3>1 DEF Pools
    <2> QED BY <1>1, <2>1, <2>2, <2>3, Bounds DEF New, Given, Cells, Apart
  <1> QED BY <1>2, <1>3

-----------------------------------------------------------------------------
(* Cells that change hands.                                                   *)

LEMMA PoolGrew ==
    ASSUME NEW pool, NEW arrs, NEW parts, NEW n, NEW taken,
           Layout(pool, arrs, parts, n, taken),
           NEW after \in Pools, Given(pool) \subseteq Given(after), pool.last <= after.last
    PROVE  Layout(after, arrs, parts, n, taken)
  <1>1. ASSUME NEW a \in Arrays PROVE Below(arrs[a], after)
    <2>1. Below(arrs[a], pool) /\ arrs[a] \in ArrayType BY DEF Layout, Shaped
    <2>2. pool.last \in Int /\ after.last \in Int
      <3>1. pool \in Pools BY DEF Layout
      <3> QED BY <3>1, Bounds DEF Pools
    <2>3. arrs[a].elts + arrs[a].nalloc \in Int BY <2>1 DEF ArrayType
    <2> HIDE DEF Layout
    <2> QED BY <2>1, <2>2, <2>3 DEF Below
  <1> QED BY <1>1, Zenon DEF Layout

\* An array has other cells: some of its own, and new ones.
LEMMA ArrayPlaced ==
    ASSUME NEW pool, NEW arrs, NEW parts, NEW n, NEW taken,
           Layout(pool, arrs, parts, n, taken), arrs = [b \in Arrays |-> arrs[b]],
           NEW after \in Pools, NEW a \in Arrays, NEW x,
           Given(pool) \ Owned(arrs[a]) \subseteq Given(after),
           Shaped(x), Below(x, after), Owned(x) \subseteq Given(after),
           \A c \in Owned(x) : c \in Owned(arrs[a]) \/ c \notin Given(pool)
    PROVE  Layout(after, [arrs EXCEPT ![a] = x], parts, n, taken)
  <1> DEFINE new == [arrs EXCEPT ![a] = x]
  <1>1. new[a] = x /\ \A b \in Arrays : b # a => new[b] = arrs[b] OBVIOUS
  <1> HIDE DEF new
  <1>2. \A S : S \subseteq Given(pool) /\ Apart(S, Owned(arrs[a])) =>
                 S \subseteq Given(after) /\ Apart(S, Owned(x)) /\ Apart(Owned(x), S)
    BY DEF Apart
  <1>3. /\ pool \in Pools
        /\ \A b \in Arrays :
              Shaped(arrs[b]) /\ Below(arrs[b], pool) /\ Owned(arrs[b]) \subseteq Given(pool)
        /\ \A b, c \in Arrays : b # c => Apart(Owned(arrs[b]), Owned(arrs[c]))
        /\ \A p \in DOMAIN parts :
              /\ Cells(parts[p].elts, n) \subseteq Given(pool)
              /\ \A b \in Arrays : Apart(Cells(parts[p].elts, n), Owned(arrs[b]))
              /\ \A q \in DOMAIN parts :
                    p # q => Apart(Cells(parts[p].elts, n), Cells(parts[q].elts, n))
        /\ \A t \in taken :
              /\ t \subseteq Given(pool)
              /\ \A b \in Arrays : Apart(t, Owned(arrs[b]))
              /\ \A p \in DOMAIN parts : Apart(t, Cells(parts[p].elts, n))
    BY Zenon DEF Layout
  <1>4. ASSUME NEW b \in Arrays, b # a
        PROVE  /\ Shaped(new[b]) /\ Below(new[b], after) /\ Owned(new[b]) \subseteq Given(after)
               /\ Apart(Owned(new[b]), Owned(x)) /\ Apart(Owned(x), Owned(new[b]))
    <2> DEFINE y == arrs[b]
    <2>1. new[b] = y BY <1>1, <1>4
    <2>2. /\ Shaped(y) /\ Below(y, pool) /\ Owned(y) \subseteq Given(pool)
          /\ Apart(Owned(y), Owned(arrs[a]))
      BY <1>3, <1>4
    <2> HIDE DEF y
    <2>3. Owned(y) \subseteq Given(after) /\ Apart(Owned(y), Owned(x)) /\ Apart(Owned(x), Owned(y))
      BY <1>2, <2>2
    <2>4. Below(y, after)
      <3> SUFFICES ASSUME y.elts \in 0..(BlockEnd - 1) PROVE y.elts + y.nalloc <= after.last
        BY DEF Below
      <3>1. y.elts + y.nalloc <= pool.last /\ y \in ArrayType /\ y.nalloc # 0
        <4>1. y # Absent BY DEF Absent, Outside
        <4> QED BY <2>2, <4>1 DEF Shaped, Below
      <3>2. pool.last \in 0..BlockEnd /\ after.last \in 0..BlockEnd /\ after.beyond \in Int
        BY <1>3, Bounds DEF Pools
      <3> DEFINE c == y.elts + y.nalloc - 1
      <3>3. y.elts \in Nat /\ y.nalloc \in Nat /\ y.nalloc >= 1 BY <3>1 DEF ArrayType
      <3>4. c \in Cells(y.elts, y.nalloc) /\ c < BlockEnd
        BY <3>1, <3>2, <3>3, Bounds DEF Cells
      <3>5. c \in Given(after) BY <2>3, <3>4 DEF Owned, Slots
      <3> QED BY <3>2, <3>3, <3>4, <3>5, Bounds DEF Given
    <2> QED BY <2>1, <2>2, <2>3, <2>4
  <1>5. /\ \A b \in Arrays :
              Shaped(new[b]) /\ Below(new[b], after) /\ Owned(new[b]) \subseteq Given(after)
        /\ \A b, c \in Arrays : b # c => Apart(Owned(new[b]), Owned(new[c]))
    <2>1. ASSUME NEW b \in Arrays
          PROVE  Shaped(new[b]) /\ Below(new[b], after) /\ Owned(new[b]) \subseteq Given(after)
      <3>1. CASE b = a BY <1>1, <3>1
      <3>2. CASE b # a BY <1>4, <3>2
      <3> QED BY <3>1, <3>2
    <2>2. ASSUME NEW b \in Arrays, NEW c \in Arrays, b # c
          PROVE  Apart(Owned(new[b]), Owned(new[c]))
      <3>1. CASE b = a BY <1>1, <1>4, <2>2, <3>1
      <3>2. CASE c = a BY <1>1, <1>4, <2>2, <3>2
      <3>3. CASE b # a /\ c # a BY <1>1, <1>3, <2>2, <3>3
      <3> QED BY <3>1, <3>2, <3>3
    <2> QED BY <2>1, <2>2
  <1>6. ASSUME NEW S, S \subseteq Given(pool), \A b \in Arrays : Apart(S, Owned(arrs[b]))
        PROVE  S \subseteq Given(after) /\ \A b \in Arrays : Apart(S, Owned(new[b]))
    <2>1. S \subseteq Given(after) /\ Apart(S, Owned(x)) BY <1>2, <1>6
    <2>2. ASSUME NEW b \in Arrays PROVE Apart(S, Owned(new[b]))
      <3>1. CASE b = a BY <1>1, <2>1, <3>1
      <3>2. CASE b # a BY <1>1, <1>6, <3>2
      <3> QED BY <3>1, <3>2
    <2> QED BY <2>1, <2>2
  <1>7. Layout(after, new, parts, n, taken) BY <1>3, <1>5, <1>6, Zenon DEF Layout
  <1> QED BY <1>7 DEF new

\* The list has a part more.
LEMMA PartPlaced ==
    ASSUME NEW pool, NEW arrs, NEW parts \in Seq(PartType), NEW n \in Nat, NEW taken,
           Layout(pool, arrs, parts, n, taken),
           NEW after \in Pools, NEW part \in PartType, New(pool, part.elts, n, after)
    PROVE  Layout(after, arrs, Append(parts, part), n, taken)
  <1> DEFINE m == Len(parts)
             new == Append(parts, part)
             S == Cells(part.elts, n)
  <1>1. /\ m \in Nat /\ DOMAIN parts = 1..m /\ DOMAIN new = 1..(m + 1) /\ new[m + 1] = part
        /\ \A p \in 1..m : new[p] = parts[p]
    BY AppendProperties, LenProperties
  <1>2. S \subseteq Given(after) /\ Apart(S, Given(pool)) BY DEF New
  <1>3. Layout(after, arrs, parts, n, taken) BY PoolGrew DEF New
  <1> HIDE DEF m, new, S
  <1>4. \A T : T \subseteq Given(pool) => Apart(S, T) /\ Apart(T, S) BY <1>2 DEF Apart
  <1>5. /\ \A a \in Arrays : Apart(S, Owned(arrs[a]))
        /\ \A p \in 1..m : /\ Apart(S, Cells(parts[p].elts, n))
                           /\ Apart(Cells(parts[p].elts, n), S)
        /\ \A t \in taken : Apart(t, S)
    BY <1>1, <1>4 DEF Layout
  <1>6. \A p \in 1..(m + 1) : p = m + 1 \/ (p \in 1..m /\ p # m + 1) BY <1>1
  <1>7. ASSUME NEW p \in 1..(m + 1)
        PROVE  /\ Cells(new[p].elts, n) \subseteq Given(after)
               /\ \A a \in Arrays : Apart(Cells(new[p].elts, n), Owned(arrs[a]))
               /\ \A t \in taken : Apart(t, Cells(new[p].elts, n))
    <2>1. CASE p = m + 1 BY <1>1, <1>2, <1>5, <2>1 DEF S
    <2>2. CASE p \in 1..m
      <3>1. new[p] = parts[p] BY <1>1, <2>2
      <3> QED BY <1>1, <1>3, <2>2, <3>1, Zenon DEF Layout
    <2> QED BY <1>6, <2>1, <2>2
  <1>8. ASSUME NEW p \in 1..(m + 1), NEW q \in 1..(m + 1), p # q
        PROVE  Apart(Cells(new[p].elts, n), Cells(new[q].elts, n))
    <2>1. CASE p = m + 1
      <3>1. q \in 1..m BY <1>6, <1>8, <2>1
      <3> QED BY <1>1, <1>5, <2>1, <3>1 DEF S
    <2>2. CASE q = m + 1
      <3>1. p \in 1..m BY <1>6, <1>8, <2>2
      <3> QED BY <1>1, <1>5, <2>2, <3>1 DEF S
    <2>3. CASE p \in 1..m /\ q \in 1..m
      <3>1. new[p] = parts[p] /\ new[q] = parts[q] BY <1>1, <2>3
      <3> QED BY <1>1, <1>3, <1>8, <2>3, <3>1, Zenon DEF Layout
    <2> QED BY <1>6, <2>1, <2>2, <2>3
  <1>9. Layout(after, arrs, new, n, taken) BY <1>1, <1>3, <1>7, <1>8, Zenon DEF Layout
  <1> QED BY <1>9 DEF new

\* Others have cells more.
LEMMA TakenPlaced ==
    ASSUME NEW pool, NEW arrs, NEW parts, NEW n, NEW taken,
           Layout(pool, arrs, parts, n, taken),
           NEW after \in Pools, NEW at, NEW m, New(pool, at, m, after)
    PROVE  Layout(after, arrs, parts, n, taken \cup {Cells(at, m)})
  <1> DEFINE S == Cells(at, m)
  <1>1. S \subseteq Given(after) /\ Apart(S, Given(pool)) BY DEF New
  <1>2. Layout(after, arrs, parts, n, taken) BY PoolGrew DEF New
  <1> HIDE DEF S
  <1>3. \A T : T \subseteq Given(pool) => Apart(S, T) BY <1>1 DEF Apart
  <1>4. /\ \A a \in Arrays : Apart(S, Owned(arrs[a]))
        /\ \A p \in DOMAIN parts : Apart(S, Cells(parts[p].elts, n))
    BY <1>3 DEF Layout
  <1>5. \A t \in taken \cup {S} :
           /\ t \subseteq Given(after)
           /\ \A a \in Arrays : Apart(t, Owned(arrs[a]))
           /\ \A p \in DOMAIN parts : Apart(t, Cells(parts[p].elts, n))
    BY <1>1, <1>2, <1>4 DEF Layout
  <1>6. Layout(after, arrs, parts, n, taken \cup {S}) BY <1>2, <1>5, Zenon DEF Layout
  <1> QED BY <1>6 DEF S

\* One call that asks the pool twice: both regions are new, and apart.
LEMMA NewTwice ==
    ASSUME NEW pool, NEW at, NEW m, NEW first, New(pool, at, m, first),
           NEW to, NEW n, NEW after, New(first, to, n, after), pool \in Pools
    PROVE  /\ New(pool, to, n, after)
           /\ Cells(at, m) \subseteq Given(after) /\ Apart(Cells(to, n), Cells(at, m))
           /\ Given(pool) \subseteq Given(after) /\ pool.last <= after.last
  <1>1. /\ Given(pool) \subseteq Given(first) /\ Given(first) \subseteq Given(after)
        /\ Cells(at, m) \subseteq Given(first) /\ Apart(Cells(to, n), Given(first))
        /\ Cells(to, n) \subseteq Given(after) /\ after \in Pools /\ to \in Nat
        /\ to \in 0..(BlockEnd - 1) => to + n <= after.last
        /\ pool.last <= first.last /\ first.last <= after.last /\ first \in Pools
    BY DEF New
  <1>2. pool.last <= after.last
    <2>1. pool.last \in Int /\ first.last \in Int /\ after.last \in Int
      BY <1>1, Bounds DEF Pools
    <2> QED BY <1>1, <2>1
  <1>3. Apart(Cells(to, n), Given(pool)) /\ Apart(Cells(to, n), Cells(at, m))
    BY <1>1 DEF Apart
  <1>4. Given(pool) \subseteq Given(after) /\ Cells(at, m) \subseteq Given(after) BY <1>1
  <1> QED BY <1>1, <1>2, <1>3, <1>4 DEF New

-----------------------------------------------------------------------------
(* What is in the cells.                                                      *)

SameBut(memory, next, T) == \A c \in Memory : c \notin T => next[c] = memory[c]

LEMMA WriteRight ==
    ASSUME NEW memory, Whole(memory), NEW at \in Int, NEW owner, NEW first \in Int,
           NEW n \in Nat, Cells(at, n) \subseteq Memory
    PROVE  LET next == Write(memory, at, owner, first, n) IN
           /\ Whole(next) /\ SameBut(memory, next, Cells(at, n))
           /\ Found(next, at, owner, first, n)
  <1> DEFINE next == Write(memory, at, owner, first, n)
  <1>1. DOMAIN memory = Memory BY DEF Whole
  <1>2. next = [c \in Memory |-> IF c \in Cells(at, n) THEN [of |-> owner, n |-> first + (c - at)]
                                 ELSE memory[c]]
    BY <1>1 DEF Write, Cells
  <1> HIDE DEF next
  <1>3. Whole(next) /\ SameBut(memory, next, Cells(at, n)) BY <1>2 DEF Whole, SameBut
  <1>4. ASSUME NEW i \in 0..(n - 1) PROVE next[at + i] = [of |-> owner, n |-> first + i]
    <2>1. at + i \in Cells(at, n) /\ (at + i) - at = i BY DEF Cells
    <2>2. at + i \in Memory BY <2>1
    <2> QED BY <1>2, <2>1, <2>2
  <1> QED BY <1>3, <1>4 DEF Found, next

LEMMA LeaveRight ==
    ASSUME NEW memory, Whole(memory), NEW at \in Int, NEW n \in Nat
    PROVE  LET next == Leave(memory, at, n) IN
           Whole(next) /\ SameBut(memory, next, Cells(at, n))
  <1>1. DOMAIN memory = Memory BY DEF Whole
  <1> QED BY <1>1 DEF Leave, Whole, SameBut, Cells

LEMMA MoveRight ==
    ASSUME NEW memory, Whole(memory), NEW to \in Int, NEW from \in Int, NEW n \in Nat,
           Cells(to, n) \subseteq Memory,
           NEW owner, Found(memory, from, owner, 1, n)
    PROVE  LET next == Move(memory, to, from, n) IN
           /\ Whole(next) /\ SameBut(memory, next, Cells(to, n) \cup Cells(from, n))
           /\ Found(next, to, owner, 1, n)
  <1> DEFINE next == Move(memory, to, from, n)
             left == Leave(memory, from, n)
  <1>1. DOMAIN memory = Memory BY DEF Whole
  <1>2. next = [c \in Memory |-> IF c \in Cells(to, n) THEN memory[from + (c - to)] ELSE left[c]]
    BY <1>1 DEF Move, Cells
  <1>3. SameBut(memory, left, Cells(from, n)) BY LeaveRight
  <1> HIDE DEF next, left
  <1>4. Whole(next) BY <1>2 DEF Whole
  <1>5. SameBut(memory, next, Cells(to, n) \cup Cells(from, n)) BY <1>2, <1>3 DEF SameBut
  <1>6. ASSUME NEW i \in 0..(n - 1) PROVE next[to + i] = [of |-> owner, n |-> 1 + i]
    <2>1. to + i \in Cells(to, n) /\ from + ((to + i) - to) = from + i BY DEF Cells
    <2>2. to + i \in Memory BY <2>1
    <2>3. next[to + i] = memory[from + i] BY <1>2, <2>1, <2>2
    <2> QED BY <2>3 DEF Found
  <1> QED BY <1>4, <1>5, <1>6 DEF Found, next

LEMMA FoundStays ==
    ASSUME NEW memory, NEW next, NEW T, SameBut(memory, next, T),
           NEW at \in Int, NEW n \in Nat, NEW m \in Nat, n <= m,
           Cells(at, m) \subseteq Memory, Apart(T, Cells(at, m)),
           NEW owner, NEW first, Found(memory, at, owner, first, n)
    PROVE  Found(next, at, owner, first, n)
  <1> SUFFICES ASSUME NEW i \in 0..(n - 1)
               PROVE  next[at + i] = [of |-> owner, n |-> first + i]
    BY DEF Found
  <1>1. at + i \in Cells(at, m) BY DEF Cells
  <1>2. at + i \in Memory /\ at + i \notin T BY <1>1 DEF Apart
  <1>3. next[at + i] = memory[at + i] BY <1>2 DEF SameBut
  <1> QED BY <1>3 DEF Found

\* What is apart from the cells T is found as before.
Untouched(next, T, arrs, parts, n, taken) ==
    /\ \A a \in Arrays : Apart(T, Owned(arrs[a])) =>
          Found(next, arrs[a].elts, a, 1, arrs[a].nelts)
    /\ \A p \in DOMAIN parts : Apart(T, Cells(parts[p].elts, n)) =>
          Found(next, parts[p].elts, "list", ((p - 1) * n) + 1, parts[p].nelts)
    /\ \A t \in taken : Apart(T, t) => \A c \in t : next[c].of = "other"

LEMMA OthersStay ==
    ASSUME NEW pool, NEW arrs, NEW parts \in Seq(PartType), NEW n \in Nat, NEW taken,
           Layout(pool, arrs, parts, n, taken),
           \A p \in DOMAIN parts : parts[p].nelts <= n,
           NEW memory, Kept(memory, arrs, parts, n, taken),
           NEW next, NEW T, SameBut(memory, next, T)
    PROVE  Untouched(next, T, arrs, parts, n, taken)
  <1>1. Given(pool) \subseteq Memory BY GivenIsMemory DEF Layout, Memory
  <1>2. ASSUME NEW a \in Arrays, Apart(T, Owned(arrs[a]))
        PROVE  Found(next, arrs[a].elts, a, 1, arrs[a].nelts)
    <2> DEFINE x == arrs[a]
    <2>1. Shaped(x) /\ Owned(x) \subseteq Given(pool) BY DEF Layout
    <2>2. Found(memory, x.elts, a, 1, x.nelts) BY DEF Kept
    <2> HIDE DEF x
    <2>3. x.elts \in Int /\ x.nelts \in Nat /\ x.nalloc \in Nat /\ x.nelts <= x.nalloc
      BY <2>1 DEF Shaped, ArrayType
    <2>4. Cells(x.elts, x.nalloc) \subseteq Memory /\ Apart(T, Cells(x.elts, x.nalloc))
      BY <1>1, <1>2, <2>1 DEF Owned, Slots, Apart, x
    <2>5. Found(next, x.elts, a, 1, x.nelts) BY <2>2, <2>3, <2>4, FoundStays
    <2> QED BY <2>5 DEF x
  <1>3. ASSUME NEW p \in DOMAIN parts, Apart(T, Cells(parts[p].elts, n))
        PROVE  Found(next, parts[p].elts, "list", ((p - 1) * n) + 1, parts[p].nelts)
    <2> DEFINE x == parts[p]
               first == ((p - 1) * n) + 1
    <2>1. Cells(x.elts, n) \subseteq Given(pool) /\ x.nelts <= n BY DEF Layout
    <2>2. Found(memory, x.elts, "list", first, x.nelts) BY DEF Kept
    <2>3. x \in PartType
      <3>1. p \in 1..Len(parts) BY LenProperties
      <3> QED BY <3>1, ElementOfSeq
    <2>4. Apart(T, Cells(x.elts, n)) BY <1>3
    <2> HIDE DEF x, first
    <2>5. x.elts \in Int /\ x.nelts \in Nat BY <2>3 DEF PartType
    <2>6. Cells(x.elts, n) \subseteq Memory BY <1>1, <2>1
    <2>7. Found(next, x.elts, "list", first, x.nelts)
      BY <2>1, <2>2, <2>4, <2>5, <2>6, FoundStays
    <2> QED BY <2>7 DEF x, first
  <1>4. ASSUME NEW t \in taken, Apart(T, t), NEW c \in t PROVE next[c].of = "other"
    <2>1. c \in Memory /\ c \notin T /\ memory[c].of = "other"
      BY <1>1, <1>4 DEF Layout, Kept, Apart
    <2> QED BY <2>1 DEF SameBut
  <1> QED BY <1>2, <1>3, <1>4, Zenon DEF Untouched

LEMMA SameTwice ==
    ASSUME NEW memory, NEW next, NEW after, NEW S, NEW T,
           SameBut(memory, next, S), SameBut(next, after, T)
    PROVE  SameBut(memory, after, S \cup T)
  BY DEF SameBut

\* Behind k elements n more are written.
LEMMA FoundMore ==
    ASSUME NEW memory, Whole(memory), NEW at \in Int, NEW owner, NEW first \in Int,
           NEW k \in Nat, NEW n \in Nat, Cells(at, k + n) \subseteq Memory,
           Found(memory, at, owner, first, k)
    PROVE  LET next == Write(memory, at + k, owner, first + k, n) IN
           /\ Whole(next) /\ SameBut(memory, next, Cells(at + k, n))
           /\ Found(next, at, owner, first, k + n)
  <1> DEFINE next == Write(memory, at + k, owner, first + k, n)
  <1>1. Cells(at + k, n) \subseteq Cells(at, k + n) BY DEF Cells
  <1>2. /\ Whole(next) /\ SameBut(memory, next, Cells(at + k, n))
        /\ Found(next, at + k, owner, first + k, n)
    <2>1. at + k \in Int /\ first + k \in Int /\ Cells(at + k, n) \subseteq Memory BY <1>1
    <2> QED BY <2>1, WriteRight
  <1> HIDE DEF next
  <1>3. Found(next, at, owner, first, k)
    <2>1. Cells(at, k) \subseteq Memory /\ Apart(Cells(at + k, n), Cells(at, k))
      BY DEF Cells, Apart
    <2> QED BY <1>2, <2>1, FoundStays
  <1>4. ASSUME NEW i \in 0..(k + n - 1) PROVE next[at + i] = [of |-> owner, n |-> first + i]
    <2>1. CASE i < k
      <3>1. i \in 0..(k - 1) BY <2>1
      <3> QED BY <1>3, <3>1 DEF Found
    <2>2. CASE i >= k
      <3>1. i - k \in 0..(n - 1) /\ (at + k) + (i - k) = at + i
            /\ (first + k) + (i - k) = first + i
        BY <2>2
      <3>2. next[(at + k) + (i - k)] = [of |-> owner, n |-> (first + k) + (i - k)]
        BY <1>2, <3>1 DEF Found
      <3> QED BY <3>1, <3>2
    <2> QED BY <2>1, <2>2
  <1> QED BY <1>2, <1>4 DEF Found, next

-----------------------------------------------------------------------------
(* The steps.                                                                 *)

LEMMA AfterUse == ASSUME NEW pool \in Pools, Use(pool) PROVE Pool' = pool
  BY DEF Use, Pool, Pools

LEMMA Parts ==
    ASSUME AInv
    PROVE  /\ list.parts \in Seq(PartType) /\ list.nalloc \in Nat
           /\ \A p \in DOMAIN list.parts : list.parts[p].nelts <= list.nalloc
           /\ Pool \in Pools /\ Given(Pool) \subseteq Memory
  <1>1. Pool \in Pools BY DEF AInv, Layout
  <1>2. Given(Pool) \subseteq Memory BY <1>1, GivenIsMemory DEF Memory
  <1> QED BY <1>1, <1>2 DEF AInv, Filled

\* An array has changed, and wrote its own cells and new ones.
ArrayChanges(a, x, T) ==
    /\ UNCHANGED <<list, others>>
    /\ arrays' = [arrays EXCEPT ![a] = x]
    /\ Layout(Pool', [arrays EXCEPT ![a] = x], list.parts, list.nalloc, others)
    /\ Whole(cells') /\ SameBut(cells, cells', T)
    /\ \A c \in T : c \in Owned(arrays[a]) \/ c \notin Given(Pool)
    /\ Found(cells', x.elts, a, 1, x.nelts)
    /\ Lodging(x.within, others)

LEMMA ArrayKeeps ==
    ASSUME AInv, NEW a \in Arrays, NEW x, NEW T, ArrayChanges(a, x, T) PROVE AInv'
  <1>0. /\ UNCHANGED <<list, others>>
        /\ arrays' = [arrays EXCEPT ![a] = x]
        /\ Layout(Pool', [arrays EXCEPT ![a] = x], list.parts, list.nalloc, others)
        /\ Whole(cells') /\ SameBut(cells, cells', T)
        /\ \A c \in T : c \in Owned(arrays[a]) \/ c \notin Given(Pool)
        /\ Found(cells', x.elts, a, 1, x.nelts)
        /\ Lodging(x.within, others)
    BY Zenon DEF ArrayChanges
  <1>1. /\ arrays = [b \in Arrays |-> arrays[b]]
        /\ Layout(Pool, arrays, list.parts, list.nalloc, others)
        /\ Kept(cells, arrays, list.parts, list.nalloc, others)
        /\ Lodged(arrays, others) /\ Filled(list)
    BY DEF AInv
  <1>2. arrays'[a] = x /\ (\A b \in Arrays : b # a => arrays'[b] = arrays[b])
        /\ arrays' = [b \in Arrays |-> arrays'[b]]
    BY <1>0, <1>1
  <1>3. \A S : S \subseteq Given(Pool) /\ Apart(S, Owned(arrays[a])) => Apart(T, S)
    BY <1>0 DEF Apart
  <1>4. /\ \A b \in Arrays : b # a => Apart(T, Owned(arrays[b]))
        /\ \A p \in DOMAIN list.parts : Apart(T, Cells(list.parts[p].elts, list.nalloc))
        /\ \A t \in others : Apart(T, t)
    BY <1>1, <1>3 DEF Layout
  <1>5. Untouched(cells', T, arrays, list.parts, list.nalloc, others)
    <2>1. /\ list.parts \in Seq(PartType) /\ list.nalloc \in Nat
          /\ \A p \in DOMAIN list.parts : list.parts[p].nelts <= list.nalloc
      BY Parts
    <2> QED BY <1>0, <1>1, <2>1, OthersStay
  <1>6. \A b \in Arrays : Found(cells', arrays'[b].elts, b, 1, arrays'[b].nelts)
    <2> SUFFICES ASSUME NEW b \in Arrays
                 PROVE  Found(cells', arrays'[b].elts, b, 1, arrays'[b].nelts)
      OBVIOUS
    <2>1. CASE b = a BY <1>0, <1>2, <2>1
    <2>2. CASE b # a
      <3>1. Found(cells', arrays[b].elts, b, 1, arrays[b].nelts)
        BY <1>4, <1>5, <2>2 DEF Untouched
      <3>2. arrays'[b] = arrays[b] BY <1>2, <2>2
      <3> QED BY ONLY <3>1, <3>2
    <2> QED BY <2>1, <2>2
  <1>7. Kept(cells', arrays', list.parts, list.nalloc, others)
    <2>1. Whole(cells') BY <1>0
    <2> QED BY <1>4, <1>5, <1>6, <2>1, Zenon DEF Kept, Untouched
  <1>8. Layout(Pool', arrays', list.parts, list.nalloc, others)
        /\ list' = list /\ others' = others
    BY <1>0
  <1>9. Lodged(arrays', others)
    <2>1. \A b \in Arrays : Lodging(arrays'[b].within, others)
      BY <1>0, <1>1, <1>2 DEF Lodged
    <2> QED BY <1>1, <2>1 DEF Lodged
  <1> QED BY <1>1, <1>2, <1>7, <1>8, <1>9, Zenon DEF AInv

\* An array that is new: nothing is in it.
ArrayAppears(a, at, n, header, within) ==
    /\ UNCHANGED <<cells, list, others>>
    /\ arrays[a] = Absent
    /\ arrays' = [arrays EXCEPT ![a] = NewArray(at, n, header, within)]
    /\ Lodging(within, others)
    /\ New(Pool, at, n, Pool')
    /\ \/ header = Outside
       \/ header \in Given(Pool') /\ header \notin Given(Pool) /\ header \notin Cells(at, n)

LEMMA NewArrayKeeps ==
    ASSUME AInv, NEW a \in Arrays, NEW n \in Nat \ {0}, NEW at, NEW header \in Int,
           NEW within \in Int, ArrayAppears(a, at, n, header, within)
    PROVE  AInv'
  <1>0. /\ UNCHANGED <<cells, list, others>>
        /\ arrays[a] = Absent
        /\ arrays' = [arrays EXCEPT ![a] = NewArray(at, n, header, within)]
        /\ Lodging(within, others)
        /\ New(Pool, at, n, Pool')
        /\ \/ header = Outside
           \/ header \in Given(Pool') /\ header \notin Given(Pool) /\ header \notin Cells(at, n)
    BY Zenon DEF ArrayAppears
  <1> DEFINE x == NewArray(at, n, header, within)
  <1>1. /\ x.elts = at /\ x.nelts = 0 /\ x.nalloc = n /\ x.header = header
        /\ x.within = within
        /\ at \in Nat /\ x \in ArrayType
    BY <1>0 DEF NewArray, ArrayType, New
  <1> HIDE DEF x
  <1>2. /\ Cells(at, n) \subseteq Given(Pool') /\ Apart(Cells(at, n), Given(Pool))
        /\ at \in 0..(BlockEnd - 1) => at + n <= Pool'.last
        /\ Pool' \in Pools /\ Given(Pool) \subseteq Given(Pool')
    BY <1>0, Zenon DEF New
  <1>3. Slots(x) = Cells(at, n) /\ Header(x) = {header} \ {Outside} BY <1>1 DEF Slots, Header
  <1>4. Shaped(x)
    <2>1. Apart(Slots(x), Header(x)) BY <1>0, <1>3 DEF Apart
    <2> QED BY <1>1, <2>1 DEF Shaped
  <1>5. Below(x, Pool') BY <1>1, <1>2 DEF Below
  <1>6. Owned(x) \subseteq Given(Pool') /\ \A c \in Owned(x) : c \notin Given(Pool)
    BY <1>0, <1>2, <1>3 DEF Owned, Apart
  <1>7. Layout(Pool', [arrays EXCEPT ![a] = x], list.parts, list.nalloc, others)
    BY <1>2, <1>4, <1>5, <1>6, ArrayPlaced DEF AInv
  <1>8. Found(cells', x.elts, a, 1, x.nelts)
    <2>1. 0..(x.nelts - 1) = {} BY <1>1
    <2> QED BY <2>1 DEF Found
  <1>9. Whole(cells') /\ SameBut(cells, cells', {}) BY <1>0 DEF AInv, Kept, SameBut
  <1>10. ArrayChanges(a, x, {}) BY <1>0, <1>1, <1>7, <1>8, <1>9, Zenon DEF ArrayChanges, x
  <1> QED BY <1>10, ArrayKeeps

LEMMA ArrayCreateKeeps ==
    ASSUME AInv, NEW a \in Arrays, NEW n \in Lengths, ArrayCreate(a, n) PROVE AInv'
  <1>1. n \in Nat \ {0} /\ 1 \in Nat \ {0} /\ Pool \in Pools BY ArrayAssumption, Parts
  <1>2. UNCHANGED <<cells, list, others>> /\ arrays[a] = Absent BY DEF ArrayCreate
  <1>3. PICK h \in Palloc(Pool, 1) :
          \/ \E r \in Palloc(h.pool, n) :
                Use(r.pool) /\ arrays' = [arrays EXCEPT ![a] = NewArray(r.at, n, h.at, Outside)]
          \/ ~InBlock(h.pool, n) /\ Use(h.pool) /\ UNCHANGED arrays
    BY DEF ArrayCreate
  <1>4. New(Pool, h.at, 1, h.pool) BY <1>1, PallocRight
  <1>5. h.pool \in Pools /\ h.at \in Nat BY <1>4 DEF New
  <1>6. h.at \in Cells(h.at, 1) BY <1>5 DEF Cells
  <1>7. CASE \E r \in Palloc(h.pool, n) :
               Use(r.pool) /\ arrays' = [arrays EXCEPT ![a] = NewArray(r.at, n, h.at, Outside)]
    <2>1. PICK r \in Palloc(h.pool, n) :
            Use(r.pool) /\ arrays' = [arrays EXCEPT ![a] = NewArray(r.at, n, h.at, Outside)]
      BY <1>7
    <2>2. New(h.pool, r.at, n, r.pool) BY <1>1, <1>5, PallocRight
    <2>3. /\ New(Pool, r.at, n, r.pool)
          /\ Cells(h.at, 1) \subseteq Given(r.pool) /\ Apart(Cells(r.at, n), Cells(h.at, 1))
          /\ Given(Pool) \subseteq Given(r.pool)
      BY <1>1, <1>4, <2>2, NewTwice
    <2>4. Pool' = r.pool /\ r.pool \in Pools
      <3>1. r.pool \in Pools BY <2>2 DEF New
      <3> QED BY <2>1, <3>1, AfterUse
    <2>5. h.at \in Given(r.pool) /\ h.at \notin Given(Pool) /\ h.at \notin Cells(r.at, n)
      BY <1>4, <1>6, <2>3 DEF New, Apart
    <2>6. ArrayAppears(a, r.at, n, h.at, Outside)
      BY <1>2, <2>1, <2>3, <2>4, <2>5 DEF ArrayAppears, Lodging
    <2>7. h.at \in Int /\ Outside \in Int BY <1>5 DEF Outside
    <2> QED BY <1>1, <2>6, <2>7, NewArrayKeeps
  <1>8. CASE Use(h.pool) /\ UNCHANGED arrays
    <2>1. Pool' = h.pool BY <1>5, <1>8, AfterUse
    <2>2. Layout(Pool', arrays, list.parts, list.nalloc, others)
      BY <1>4, <1>5, <2>1, PoolGrew DEF AInv, New
    <2> QED BY <1>2, <1>8, <2>2 DEF AInv
  <1> QED BY <1>3, <1>7, <1>8

LEMMA ArrayInitKeeps ==
    ASSUME AInv, NEW a \in Arrays, NEW n \in Lengths, ArrayInit(a, n) PROVE AInv'
  <1>1. n \in Nat \ {0} /\ Pool \in Pools BY ArrayAssumption, Parts
  <1>2. UNCHANGED <<cells, list, others>> /\ arrays[a] = Absent BY DEF ArrayInit
  <1>3. PICK r \in Palloc(Pool, n), m \in Members :
          Use(r.pool) /\ arrays' = [arrays EXCEPT ![a] = NewArray(r.at, n, Outside, m)]
    BY DEF ArrayInit
  <1>4. New(Pool, r.at, n, r.pool) BY <1>1, PallocRight
  <1>5. r.pool \in Pools /\ Given(Pool) \subseteq Given(r.pool) BY <1>4 DEF New
  <1>6. Pool' = r.pool BY <1>3, <1>5, AfterUse
  <1>7. Outside \in Int BY DEF Outside
  <1>8. Lodging(m, others) BY <1>3 DEF Members, Lodging
  <1>9. m \in Int
    <2>1. \A t \in others : t \subseteq Given(Pool) BY DEF AInv, Layout
    <2>2. Given(Pool) \subseteq Memory BY Parts
    <2>3. m = Outside \/ m \in Memory BY <1>3, <2>1, <2>2 DEF Members
    <2> QED BY <1>7, <2>3, Bounds DEF Memory
  <1>10. ArrayAppears(a, r.at, n, Outside, m)
    BY <1>2, <1>3, <1>4, <1>6, <1>8 DEF ArrayAppears
  <1> QED BY <1>1, <1>7, <1>9, <1>10, NewArrayKeeps

\* There is room for n elements behind those of x, which is to be arrays[a], with
\* its elements where the memory has them already.
Room(a, x, memory, T, n) ==
    /\ UNCHANGED <<list, others>>
    /\ Pool' \in Pools /\ Given(Pool) \subseteq Given(Pool')
    /\ Shaped(x) /\ x # Absent /\ x.nelts + n <= x.nalloc
    /\ Below(x, Pool') /\ Owned(x) \subseteq Given(Pool')
    /\ \A c \in Owned(x) \cup T : c \in Owned(arrays[a]) \/ c \notin Given(Pool)
    /\ Whole(memory) /\ SameBut(cells, memory, T)
    /\ Found(memory, x.elts, a, 1, x.nelts)
    /\ Lodging(x.within, others)

LEMMA PushKeeps ==
    ASSUME AInv, NEW a \in Arrays, NEW x, NEW memory, NEW T, NEW n \in Nat,
           Room(a, x, memory, T, n), Push(x, memory, a, n)
    PROVE  AInv'
  <1> DEFINE y == [x EXCEPT !.nelts = @ + n]
             S == Cells(x.elts + x.nelts, n)
  <1>1. /\ UNCHANGED <<list, others>>
        /\ Pool' \in Pools /\ Given(Pool) \subseteq Given(Pool')
        /\ Shaped(x) /\ x # Absent /\ x.nelts + n <= x.nalloc
        /\ Below(x, Pool') /\ Owned(x) \subseteq Given(Pool')
        /\ \A c \in Owned(x) \cup T : c \in Owned(arrays[a]) \/ c \notin Given(Pool)
        /\ Whole(memory) /\ SameBut(cells, memory, T)
        /\ Found(memory, x.elts, a, 1, x.nelts)
        /\ Lodging(x.within, others)
    BY Zenon DEF Room
  <1>2. /\ x.elts \in Nat /\ x.nelts \in Nat /\ x.nalloc \in Nat /\ x.nalloc # 0
        /\ x \in ArrayType /\ Apart(Slots(x), Header(x))
    BY <1>1 DEF Shaped, ArrayType
  <1>3. /\ y.elts = x.elts /\ y.nelts = x.nelts + n /\ y.nalloc = x.nalloc
        /\ y.header = x.header /\ y.within = x.within /\ y \in ArrayType
    BY <1>2 DEF ArrayType
  <1>4. arrays' = [arrays EXCEPT ![a] = y] BY DEF Push
  <1> HIDE DEF y
  <1>5. Slots(y) = Slots(x) /\ Header(y) = Header(x) BY <1>3 DEF Slots, Header
  <1>6. Shaped(y) BY <1>1, <1>2, <1>3, <1>5 DEF Shaped
  <1>7. Below(y, Pool') BY <1>1, <1>3 DEF Below
  <1>8. Owned(y) = Owned(x) BY <1>5 DEF Owned
  <1>9. Layout(Pool', [arrays EXCEPT ![a] = y], list.parts, list.nalloc, others)
    BY <1>1, <1>6, <1>7, <1>8, ArrayPlaced DEF AInv
  <1>10. Given(Pool') \subseteq Memory BY <1>1, GivenIsMemory DEF Memory
  <1>11. Cells(x.elts, x.nelts + n) \subseteq Slots(x) /\ S \subseteq Slots(x)
    <2>1. /\ x.elts \in Int /\ x.nelts \in Nat /\ x.nalloc \in Int /\ n \in Nat
          /\ x.nelts + n <= x.nalloc
      BY <1>1, <1>2
    <2>2. x.nelts + n \in Int BY ONLY <2>1
    <2>3. Cells(x.elts, x.nelts + n) \subseteq Slots(x) BY <2>1, <2>2, FewerCells DEF Slots
    <2>4. S \subseteq Cells(x.elts, x.nelts + n) BY ONLY <2>1 DEF Cells, S
    <2> QED BY <2>3, <2>4
  <1>12. Whole(cells') /\ SameBut(memory, cells', S) /\ Found(cells', x.elts, a, 1, x.nelts + n)
    <2>1. Cells(x.elts, x.nelts + n) \subseteq Memory BY <1>1, <1>10, <1>11 DEF Owned
    <2>2. cells' = Write(memory, x.elts + x.nelts, a, 1 + x.nelts, n)
      <3>1. x.nelts + 1 = 1 + x.nelts BY <1>2
      <3> QED BY <3>1 DEF Push
    <2> QED BY <1>1, <1>2, <2>1, <2>2, FoundMore
  <1>13. SameBut(cells, cells', T \cup S) BY <1>1, <1>12, SameTwice
  <1>14. \A c \in T \cup S : c \in Owned(arrays[a]) \/ c \notin Given(Pool)
    BY <1>1, <1>11 DEF Owned
  <1>15. Found(cells', y.elts, a, 1, y.nelts) BY <1>3, <1>12
  <1>16. ArrayChanges(a, y, T \cup S)
    BY <1>1, <1>3, <1>4, <1>9, <1>12, <1>13, <1>14, <1>15, Zenon DEF ArrayChanges
  <1> QED BY <1>16, ArrayKeeps

\* What is known of an array that there is.
LEMMA ArrayThere ==
    ASSUME AInv, NEW a \in Arrays, arrays[a] # Absent
    PROVE  LET x == arrays[a] IN
           /\ Shaped(x) /\ x \in ArrayType /\ x.elts \in Nat /\ x.nelts \in Nat
           /\ x.nalloc \in Nat \ {0} /\ x.nelts <= x.nalloc
           /\ Below(x, Pool) /\ Owned(x) \subseteq Given(Pool)
           /\ Found(cells, x.elts, a, 1, x.nelts) /\ Whole(cells)
           /\ Lodging(x.within, others)
  <1> DEFINE x == arrays[a]
  <1>1. Shaped(x) /\ Below(x, Pool) /\ Owned(x) \subseteq Given(Pool) /\ x # Absent
    BY DEF AInv, Layout
  <1>2. Found(cells, x.elts, a, 1, x.nelts) /\ Whole(cells) /\ Lodging(x.within, others)
    BY DEF AInv, Kept, Lodged
  <1> HIDE DEF x
  <1>3. /\ x \in ArrayType /\ x.elts \in Nat /\ x.nelts \in Nat
        /\ x.nalloc \in Nat \ {0} /\ x.nelts <= x.nalloc
    BY <1>1 DEF Shaped, ArrayType
  <1> QED BY <1>1, <1>2, <1>3 DEF x

LEMMA ArrayPushKeeps ==
    ASSUME AInv, NEW a \in Arrays, NEW n \in Lengths, ArrayPush(a, n) PROVE AInv'
  <1> DEFINE x == arrays[a]
  <1>1. /\ n \in Nat /\ n >= 1 /\ Pool \in Pools /\ Given(Pool) \subseteq Memory
    BY ArrayAssumption, Parts
  <1>2. /\ x # Absent /\ UNCHANGED <<list, others>>
        /\ IF x.nelts + n <= x.nalloc
             THEN Push(x, cells, a, n) /\ UNCHANGED <<last, passed, beyond>>
           ELSE IF GrowsInPlace(x, n)
             THEN /\ last' = last + n
                  /\ Push([x EXCEPT !.nalloc = @ + n], cells, a, n)
                  /\ UNCHANGED <<passed, beyond>>
           ELSE \E r \in Palloc(Pool, GrownTo(x, n)) :
                  /\ Use(r.pool)
                  /\ Push([x EXCEPT !.elts = r.at, !.nalloc = GrownTo(x, n)],
                          Move(cells, r.at, x.elts, x.nelts), a, n)
    BY Zenon DEF ArrayPush
  <1>3. /\ Shaped(x) /\ x \in ArrayType /\ x.elts \in Nat /\ x.nelts \in Nat
        /\ x.nalloc \in Nat \ {0} /\ x.nelts <= x.nalloc
        /\ Below(x, Pool) /\ Owned(x) \subseteq Given(Pool)
        /\ Found(cells, x.elts, a, 1, x.nelts) /\ Whole(cells)
        /\ Lodging(x.within, others)
    BY <1>2, ArrayThere
  <1>4. SameBut(cells, cells, {}) BY DEF SameBut
  <1> HIDE DEF x
  <1>5. CASE x.nelts + n <= x.nalloc
    <2>1. Push(x, cells, a, n) /\ Pool' = Pool BY <1>2, <1>5 DEF Pool
    <2>2. Room(a, x, cells, {}, n) BY <1>1, <1>2, <1>3, <1>4, <1>5, <2>1 DEF Room, x
    <2> QED BY <1>1, <2>1, <2>2, PushKeeps
  <1>6. CASE ~(x.nelts + n <= x.nalloc) /\ GrowsInPlace(x, n)
    <2> DEFINE y == [x EXCEPT !.nalloc = @ + n]
    <2>1. last' = last + n /\ Push(y, cells, a, n) /\ beyond' = beyond BY <1>2, <1>6
    <2>2. x.elts + x.nalloc = last /\ last + n <= BlockEnd BY <1>6 DEF GrowsInPlace, End
    <2>3. /\ y.elts = x.elts /\ y.nelts = x.nelts /\ y.nalloc = x.nalloc + n
          /\ y.header = x.header /\ y.within = x.within /\ y \in ArrayType
      BY <1>1, <1>3 DEF ArrayType
    <2> HIDE DEF y
    <2>4. last \in 0..BlockEnd /\ beyond \in BlockEnd..MemoryEnd BY <1>1 DEF Pool, Pools
    <2>5. Pool' = [last |-> last + n, beyond |-> beyond] BY <2>1 DEF Pool
    <2>6. Pool' \in Pools
      <3>1. last + n \in 0..BlockEnd BY <1>1, <2>2, <2>4, Bounds
      <3> QED BY <2>4, <2>5, <3>1 DEF Pools
    <2>7. Given(Pool') = Given(Pool) \cup Cells(last, n) /\ Apart(Cells(last, n), Given(Pool))
      <3>1. Pool'.last = last + n /\ Pool'.beyond = beyond /\ Pool.last = last
            /\ Pool.beyond = beyond
        BY <2>5 DEF Pool
      <3> QED BY <1>1, <2>2, <2>4, <3>1, Bounds DEF Given, Cells, Apart
    <2>8. Slots(y) = Slots(x) \cup Cells(last, n) /\ Header(y) = Header(x)
      BY <1>1, <1>3, <2>2, <2>3, <2>4, Bounds DEF Slots, Header, Cells
    <2>9. Apart(Slots(y), Header(y)) BY <1>3, <2>7, <2>8 DEF Apart, Shaped, Owned
    <2>10. y # Absent /\ y.nalloc # 0 /\ y.nelts <= y.nalloc /\ y.nelts + n <= y.nalloc
      BY <1>1, <1>3, <2>3 DEF Absent
    <2>11. Shaped(y) BY <1>3, <2>3, <2>9, <2>10 DEF Shaped
    <2>12. Below(y, Pool')
      <3>1. y.elts + y.nalloc = Pool'.last BY <1>1, <1>3, <2>2, <2>3, <2>5
      <3>2. Pool'.last \in Int BY <2>6, Bounds DEF Pools
      <3> QED BY <3>1, <3>2 DEF Below
    <2>13. Owned(y) = Owned(x) \cup Cells(last, n) BY <2>8 DEF Owned
    <2>14. /\ Owned(y) \subseteq Given(Pool') /\ Given(Pool) \subseteq Given(Pool')
           /\ \A c \in Owned(y) \cup {} : c \in Owned(x) \/ c \notin Given(Pool)
      BY <1>3, <2>7, <2>13 DEF Apart
    <2>15. Found(cells, y.elts, a, 1, y.nelts) BY <1>3, <2>3
    <2>16. Room(a, y, cells, {}, n)
      BY <1>2, <1>3, <1>4, <2>3, <2>6, <2>10, <2>11, <2>12, <2>14, <2>15, Zenon DEF Room, x
    <2> QED BY <1>1, <2>1, <2>16, PushKeeps
  <1>7. CASE ~(x.nelts + n <= x.nalloc) /\ ~GrowsInPlace(x, n)
    <2> DEFINE m == GrownTo(x, n)
    <2>1. PICK r \in Palloc(Pool, m) :
            /\ Use(r.pool)
            /\ Push([x EXCEPT !.elts = r.at, !.nalloc = m],
                    Move(cells, r.at, x.elts, x.nelts), a, n)
      BY <1>2, <1>7
    <2> DEFINE y == [x EXCEPT !.elts = r.at, !.nalloc = m]
               memory == Move(cells, r.at, x.elts, x.nelts)
               T == Cells(r.at, x.nelts) \cup Cells(x.elts, x.nelts)
    <2>2. m \in Nat \ {0} /\ x.nelts + n <= m BY <1>1, <1>3 DEF GrownTo
    <2> HIDE DEF m
    <2>3. New(Pool, r.at, m, r.pool) BY <1>1, <2>2, PallocRight
    <2>4. /\ r.pool \in Pools /\ r.at \in Nat
          /\ Given(Pool) \subseteq Given(r.pool)
          /\ Cells(r.at, m) \subseteq Given(r.pool) /\ Apart(Cells(r.at, m), Given(Pool))
          /\ r.at \in 0..(BlockEnd - 1) => r.at + m <= r.pool.last
      BY <2>3, Zenon DEF New
    <2>5. Pool' = r.pool BY <2>1, <2>4, AfterUse
    <2>6. /\ y.elts = r.at /\ y.nelts = x.nelts /\ y.nalloc = m /\ y.header = x.header
          /\ y.within = x.within /\ y \in ArrayType
      <3>1. x \in ArrayType /\ m \in Nat /\ r.at \in Int BY <1>3, <2>2, <2>4
      <3> QED BY ONLY <3>1 DEF ArrayType, y
    <2>7. Push(y, memory, a, n) BY <2>1
    <2> HIDE DEF y
    <2>8. Slots(y) = Cells(r.at, m) /\ Header(y) = Header(x) BY <2>6 DEF Slots, Header
    <2>9. Apart(Slots(y), Header(y)) BY <1>3, <2>4, <2>8 DEF Apart, Owned
    <2>10. y # Absent /\ y.nelts <= y.nalloc /\ y.nelts + n <= y.nalloc
      BY <1>1, <1>3, <2>2, <2>6 DEF Absent
    <2>11. Shaped(y) BY <2>2, <2>4, <2>6, <2>9, <2>10 DEF Shaped
    <2>12. Below(y, Pool') BY <2>4, <2>5, <2>6 DEF Below
    <2>13. Owned(y) \subseteq Given(Pool') BY <1>3, <2>4, <2>5, <2>8 DEF Owned
    <2>14. Cells(r.at, x.nelts) \subseteq Cells(r.at, m) /\ Cells(x.elts, x.nelts) \subseteq Slots(x)
      <3>1. x.nelts <= m BY <1>1, <1>3, <2>2
      <3>2. x.nelts \in Int /\ m \in Int /\ x.nalloc \in Int /\ r.at \in Int /\ x.elts \in Int
        BY <1>3, <2>2, <2>4
      <3> QED BY <1>3, <3>1, <3>2, FewerCells DEF Slots
    <2>15. \A c \in Owned(y) \cup T : c \in Owned(x) \/ c \notin Given(Pool)
      BY <2>4, <2>8, <2>14 DEF Owned, Apart
    <2>16. Whole(memory) /\ SameBut(cells, memory, T) /\ Found(memory, r.at, a, 1, x.nelts)
      <3>1. Cells(r.at, x.nelts) \subseteq Memory
        <4>1. Given(r.pool) \subseteq Memory BY <2>4, GivenIsMemory DEF Memory
        <4> QED BY <2>4, <2>14, <4>1
      <3>2. r.at \in Int /\ x.elts \in Int BY <1>3, <2>4
      <3> QED BY <1>3, <3>1, <3>2, MoveRight
    <2> HIDE DEF memory, T
    <2>17. Room(a, y, memory, T, n)
      <3>1. Found(memory, y.elts, a, 1, y.nelts) BY <2>6, <2>16
      <3>2. Pool' \in Pools /\ Given(Pool) \subseteq Given(Pool') BY <2>4, <2>5
      <3>3. Lodging(y.within, others) BY <1>3, <2>6
      <3> QED
        BY <1>2, <2>10, <2>11, <2>12, <2>13, <2>15, <2>16, <3>1, <3>2, <3>3, Zenon DEF Room, x
    <2> QED BY <1>1, <2>7, <2>17, PushKeeps
  <1> QED BY <1>5, <1>6, <1>7

LEMMA ArrayDestroyKeeps ==
    ASSUME AInv, NEW a \in Arrays, ArrayDestroy(a) PROVE AInv'
  <1> DEFINE x == arrays[a]
             place == IF x.header # Outside THEN x.header ELSE x.within
             without == IF End(x) = last THEN x.elts ELSE last
             T == Cells(x.elts, x.nelts)
  <1>1. /\ x # Absent
        /\ last' = IF place + 1 = without THEN place ELSE without
        /\ arrays' = [arrays EXCEPT ![a] = Absent]
        /\ cells' = Leave(cells, x.elts, x.nelts)
        /\ beyond' = beyond /\ UNCHANGED <<list, others>>
    BY DEF ArrayDestroy
  <1>2. /\ Shaped(x) /\ x \in ArrayType /\ x.elts \in Nat /\ x.nelts \in Nat
        /\ x.nalloc \in Nat \ {0} /\ x.nelts <= x.nalloc
        /\ Below(x, Pool) /\ Owned(x) \subseteq Given(Pool) /\ Whole(cells)
        /\ Lodging(x.within, others)
    BY <1>1, ArrayThere
  <1> HIDE DEF x
  <1>3. Pool \in Pools BY Parts
  <1>4. last \in 0..BlockEnd /\ beyond \in BlockEnd..MemoryEnd BY <1>3 DEF Pool, Pools
  <1>5. x.header \in Int /\ (x.header # Outside => x.header \in Owned(x))
    BY <1>2 DEF ArrayType, Owned, Header
  <1>6. without \in 0..last /\ \A c \in without..(last - 1) : c \in Slots(x)
    BY <1>2, <1>4, Bounds DEF End, Slots, Cells
  <1> HIDE DEF without
  <1>7. /\ last' \in 0..last
        /\ \A c \in last'..(last - 1) : c \in Owned(x)
    <2>1. CASE x.header # Outside /\ x.header + 1 = without
      <3>1. x.header \in Owned(x) /\ x.header \in Nat
        <4>1. x.header \in Memory BY <1>2, <1>3, <1>5, <2>1, GivenIsMemory DEF Memory
        <4> QED BY <1>5, <2>1, <4>1, Bounds DEF Memory
      <3>2. last' = x.header BY <1>1, <2>1
      <3>3. \A c \in x.header..(last - 1) : c = x.header \/ c \in without..(last - 1)
        BY <1>4, <1>6, <2>1, <3>1, Bounds
      <3>4. x.header \in 0..last BY <1>4, <1>6, <2>1, <3>1, Bounds
      <3> QED BY <1>6, <3>1, <3>2, <3>3, <3>4 DEF Owned
    <2>2. CASE x.header = Outside /\ x.within + 1 = without
      <3>1. x.within \in Int /\ x.within # Outside
        BY <1>2, <1>4, <1>6, <2>2, Bounds DEF ArrayType, Outside
      <3>2. PICK t \in others : x.within \in t /\ x.within + 1 \in t
        BY <1>2, <3>1 DEF Lodging
      <3>3. t \subseteq Given(Pool) /\ Apart(t, Owned(x)) /\ ~(BlockEnd - 1 \in t /\ BlockEnd \in t)
        BY DEF AInv, Layout, Lodged, x
      <3>4. without \in t /\ without \in Given(Pool) /\ without \notin Owned(x)
        BY <2>2, <3>2, <3>3 DEF Apart
      <3>5. without = last
        <4>1. without \notin without..(last - 1) BY <1>6, <3>4 DEF Owned
        <4> QED BY <1>4, <1>6, <4>1, Bounds
      <3>6. without = BlockEnd
        <4>1. Pool.last = last /\ Pool.beyond = beyond BY DEF Pool
        <4> QED BY <1>4, <3>4, <3>5, <4>1, Bounds DEF Given
      <3>7. x.within = BlockEnd - 1 BY <2>2, <3>1, <3>6, Bounds
      <3> QED BY <3>2, <3>3, <3>4, <3>6, <3>7
    <2>3. CASE place + 1 # without BY <1>1, <1>6, <2>3 DEF Owned
    <2> QED BY <2>1, <2>2, <2>3
  <1>8. Pool' = [last |-> last', beyond |-> beyond] BY <1>1 DEF Pool
  <1>9. Pool' \in Pools
    <2>1. last' \in 0..BlockEnd BY <1>4, <1>7, Bounds
    <2> QED BY <1>4, <1>8, <2>1 DEF Pools
  <1>10. Given(Pool) \ Owned(x) \subseteq Given(Pool')
    <2>1. Pool'.last = last' /\ Pool'.beyond = beyond /\ Pool.last = last /\ Pool.beyond = beyond
      BY <1>8 DEF Pool
    <2> QED BY <1>4, <1>7, <2>1, Bounds DEF Given
  <1>11. Absent \in ArrayType /\ Slots(Absent) = {} /\ Header(Absent) = {}
    BY DEF Absent, ArrayType, Outside, Slots, Header, Cells
  <1>12. Shaped(Absent) BY <1>11 DEF Shaped, Apart, Absent
  <1>13. Below(Absent, Pool') BY DEF Below, Absent, Outside
  <1>14. Owned(Absent) = {} BY <1>11 DEF Owned
  <1>15. Layout(Pool', [arrays EXCEPT ![a] = Absent], list.parts, list.nalloc, others)
    BY <1>9, <1>10, <1>12, <1>13, <1>14, ArrayPlaced DEF AInv, x
  <1>16. Whole(cells') /\ SameBut(cells, cells', T) BY <1>1, <1>2, LeaveRight
  <1>17. \A c \in T : c \in Owned(x) BY <1>2 DEF Owned, Slots, Cells
  <1>18. Found(cells', Absent.elts, a, 1, Absent.nelts) /\ Lodging(Absent.within, others)
    BY DEF Found, Absent, Lodging
  <1>19. ArrayChanges(a, Absent, T)
    BY <1>1, <1>15, <1>16, <1>17, <1>18, Zenon DEF ArrayChanges, x
  <1> QED BY <1>19, ArrayKeeps

-----------------------------------------------------------------------------
(* The list.                                                                  *)

\* Where the parts are does not depend on how many elements they have.
LEMMA SamePlaces ==
    ASSUME NEW pool, NEW arrs, NEW parts, NEW n, NEW taken,
           Layout(pool, arrs, parts, n, taken),
           NEW new, DOMAIN new = DOMAIN parts,
           \A p \in DOMAIN parts : new[p].elts = parts[p].elts
    PROVE  Layout(pool, arrs, new, n, taken)
  <1>1. \A p \in DOMAIN new : Cells(new[p].elts, n) = Cells(parts[p].elts, n) OBVIOUS
  <1> QED BY <1>1 DEF Layout

\* The list has changed, and wrote no cells of the arrays and of others.
ListChanges(T) ==
    /\ UNCHANGED <<arrays, others>>
    /\ Layout(Pool', arrays, list'.parts, list'.nalloc, others)
    /\ Whole(cells') /\ SameBut(cells, cells', T)
    /\ \A a \in Arrays : Apart(T, Owned(arrays[a]))
    /\ \A t \in others : Apart(T, t)
    /\ \A p \in DOMAIN list'.parts :
          Found(cells', list'.parts[p].elts, "list", ((p - 1) * list'.nalloc) + 1,
                list'.parts[p].nelts)
    /\ Filled(list')

LEMMA ListKeeps == ASSUME AInv, NEW T, ListChanges(T) PROVE AInv'
  <1>1. /\ UNCHANGED <<arrays, others>>
        /\ Layout(Pool', arrays, list'.parts, list'.nalloc, others)
        /\ Whole(cells') /\ SameBut(cells, cells', T)
        /\ \A a \in Arrays : Apart(T, Owned(arrays[a]))
        /\ \A t \in others : Apart(T, t)
        /\ \A p \in DOMAIN list'.parts :
              Found(cells', list'.parts[p].elts, "list", ((p - 1) * list'.nalloc) + 1,
                    list'.parts[p].nelts)
        /\ Filled(list')
    BY Zenon DEF ListChanges
  <1>2. Untouched(cells', T, arrays, list.parts, list.nalloc, others)
    <2>1. /\ list.parts \in Seq(PartType) /\ list.nalloc \in Nat
          /\ \A p \in DOMAIN list.parts : list.parts[p].nelts <= list.nalloc
      BY Parts
    <2> QED BY <1>1, <2>1, OthersStay DEF AInv
  <1>3. Kept(cells', arrays, list'.parts, list'.nalloc, others)
    BY <1>1, <1>2, Zenon DEF Kept, Untouched
  <1>4. /\ arrays' = [a \in Arrays |-> arrays'[a]] /\ arrays' = arrays /\ others' = others
        /\ Lodged(arrays, others)
    BY <1>1 DEF AInv
  <1> QED BY <1>1, <1>3, <1>4, Zenon DEF AInv

LEMMA ListCreateKeeps ==
    ASSUME AInv, NEW n \in Lengths, ListCreate(n) PROVE AInv'
  <1>1. n \in Nat \ {0} /\ 1 \in Nat \ {0} /\ Pool \in Pools BY ArrayAssumption, Parts
  <1>2. UNCHANGED <<cells, arrays, others>> /\ list = NoList BY DEF ListCreate
  <1>3. PICK h \in Palloc(Pool, 1) :
          \/ \E r \in Palloc(h.pool, n) :
                /\ Use(r.pool)
                /\ list' = [parts |-> <<[elts |-> r.at, nelts |-> 0]>>, nalloc |-> n,
                            pushed |-> 0]
          \/ ~InBlock(h.pool, n) /\ Use(h.pool) /\ UNCHANGED list
    BY DEF ListCreate
  <1>4. New(Pool, h.at, 1, h.pool) BY <1>1, PallocRight
  <1>5. h.pool \in Pools BY <1>4 DEF New
  <1>6. CASE \E r \in Palloc(h.pool, n) :
               /\ Use(r.pool)
               /\ list' = [parts |-> <<[elts |-> r.at, nelts |-> 0]>>, nalloc |-> n, pushed |-> 0]
    <2>1. PICK r \in Palloc(h.pool, n) :
            /\ Use(r.pool)
            /\ list' = [parts |-> <<[elts |-> r.at, nelts |-> 0]>>, nalloc |-> n, pushed |-> 0]
      BY <1>6
    <2>2. New(h.pool, r.at, n, r.pool) BY <1>1, <1>5, PallocRight
    <2>3. New(Pool, r.at, n, r.pool) BY <1>1, <1>4, <2>2, NewTwice
    <2>4. r.pool \in Pools /\ r.at \in Nat BY <2>3 DEF New
    <2>5. Pool' = r.pool BY <2>1, <2>4, AfterUse
    <2> DEFINE part == [elts |-> r.at, nelts |-> 0]
    <2>6. part \in PartType /\ part.elts = r.at /\ part.nelts = 0 BY <2>4 DEF PartType
    <2>7. list'.parts = <<part>> /\ list'.nalloc = n /\ list'.pushed = 0
          /\ list' = [parts |-> <<part>>, nalloc |-> n, pushed |-> 0]
      BY <2>1
    <2> HIDE DEF part
    <2>8. Layout(Pool', arrays, list'.parts, list'.nalloc, others)
      <3>1. Layout(Pool, arrays, <<>>, 0, others) BY <1>2 DEF AInv, NoList
      <3>2. Layout(Pool, arrays, <<>>, n, others) BY <3>1 DEF Layout
      <3>3. <<>> \in Seq(PartType) /\ n \in Nat BY <1>1
      <3>4. Layout(r.pool, arrays, Append(<<>>, part), n, others)
        BY <2>3, <2>4, <2>6, <3>2, <3>3, PartPlaced
      <3>5. Append(<<>>, part) = <<part>> OBVIOUS
      <3> QED BY <2>5, <2>7, <3>4, <3>5
    <2>9. DOMAIN <<part>> = {1} /\ <<part>>[1] = part /\ Len(<<part>>) = 1
          /\ <<part>> \in Seq(PartType) /\ <<part>> # <<>>
      BY <2>6
    <2>10. Filled(list')
      <3>1. list' \in [parts : Seq(PartType), nalloc : Nat, pushed : Nat]
        BY <1>1, <2>7, <2>9
      <3>2. ((1 - 1) * n) + 0 = 0 BY <1>1
      <3>3. ASSUME NEW p \in DOMAIN list'.parts
            PROVE  /\ list'.parts[p].nelts <= list'.nalloc
                   /\ p < Len(list'.parts) => list'.parts[p].nelts = list'.nalloc
                   /\ list'.pushed = ((p - 1) * list'.nalloc) + list'.parts[p].nelts
        <4>1. p = 1 /\ list'.parts[p].nelts = 0 BY <2>6, <2>7, <2>9, <3>3
        <4>2. 0 <= n /\ ~(1 < 1) BY <1>1
        <4> QED BY ONLY <2>7, <2>9, <3>2, <4>1, <4>2
      <3>4. list'.nalloc # 0 /\ list'.parts # <<>> BY <1>1, <2>7, <2>9
      <3> QED BY <3>1, <3>3, <3>4, Zenon DEF Filled
    <2>11. \A p \in DOMAIN list'.parts :
              Found(cells', list'.parts[p].elts, "list", ((p - 1) * list'.nalloc) + 1,
                    list'.parts[p].nelts)
      <3>1. \A p \in DOMAIN list'.parts : list'.parts[p].nelts = 0 BY <2>6, <2>7, <2>9
      <3>2. 0..(0 - 1) = {} OBVIOUS
      <3> QED BY <3>1, <3>2 DEF Found
    <2>12. Whole(cells') /\ SameBut(cells, cells', {}) BY <1>2 DEF AInv, Kept, SameBut
    <2>13. ListChanges({}) BY <1>2, <2>8, <2>10, <2>11, <2>12 DEF ListChanges, Apart
    <2> QED BY <2>13, ListKeeps
  <1>7. CASE Use(h.pool) /\ UNCHANGED list
    <2>1. Pool' = h.pool BY <1>5, <1>7, AfterUse
    <2>2. Layout(Pool', arrays, list.parts, list.nalloc, others)
      BY <1>4, <1>5, <2>1, PoolGrew DEF AInv, New
    <2> QED BY <1>2, <1>7, <2>2 DEF AInv
  <1> QED BY <1>3, <1>6, <1>7

\* The parts ps, all full but the last, with the elements that the list has.
Ready(ps) ==
    /\ ps \in Seq(PartType) /\ Len(ps) >= 1
    /\ list.nalloc \in Nat \ {0}
    /\ UNCHANGED <<arrays, others>>
    /\ Layout(Pool', arrays, ps, list.nalloc, others)
    /\ Kept(cells, arrays, ps, list.nalloc, others)
    /\ \A p \in DOMAIN ps : p < Len(ps) => ps[p].nelts = list.nalloc
    /\ ps[Len(ps)].nelts < list.nalloc
    /\ list.pushed = ((Len(ps) - 1) * list.nalloc) + ps[Len(ps)].nelts

LEMMA PushIntoPartKeeps ==
    ASSUME AInv, NEW ps, Ready(ps), PushIntoPart(ps) PROVE AInv'
  <1> DEFINE k == Len(ps)
             n == list.nalloc
             x == ps[k]
             first == ((k - 1) * n) + 1
             qs == [ps EXCEPT ![k].nelts = @ + 1]
             T == Cells(x.elts + x.nelts, 1)
  <1>1. /\ ps \in Seq(PartType) /\ k >= 1
        /\ n \in Nat \ {0}
        /\ UNCHANGED <<arrays, others>>
        /\ Layout(Pool', arrays, ps, n, others)
        /\ Kept(cells, arrays, ps, n, others)
        /\ \A p \in DOMAIN ps : p < k => ps[p].nelts = n
        /\ x.nelts < n
        /\ list.pushed = ((k - 1) * n) + x.nelts
    BY Zenon DEF Ready
  <1>2. /\ list' = [list EXCEPT !.parts = qs, !.pushed = @ + 1]
        /\ cells' = Write(cells, x.elts + x.nelts, "list", list.pushed + 1, 1)
    BY DEF PushIntoPart
  <1>3. k \in Nat /\ DOMAIN ps = 1..k /\ k \in DOMAIN ps /\ \A p \in DOMAIN ps : ps[p] \in PartType
    <2>1. k \in Nat /\ DOMAIN ps = 1..k BY <1>1, LenProperties
    <2>2. k \in 1..k BY <1>1, <2>1
    <2>3. \A p \in 1..k : ps[p] \in PartType BY <1>1, ElementOfSeq
    <2> QED BY <2>1, <2>2, <2>3
  <1>4. x \in PartType /\ x.elts \in Int /\ x.nelts \in Nat BY <1>3 DEF PartType
  <1>5. list \in [parts : Seq(PartType), nalloc : Nat, pushed : Nat] BY DEF AInv, Filled
  <1>6. /\ DOMAIN qs = 1..k /\ qs[k].nelts = x.nelts + 1 /\ qs[k].elts = x.elts
        /\ \A p \in DOMAIN ps : p # k => qs[p] = ps[p]
    BY <1>3, <1>4 DEF PartType
  <1>7. qs \in Seq(PartType) /\ Len(qs) = k
    <2>1. qs[k] = [elts |-> x.elts, nelts |-> x.nelts + 1] BY <1>3, <1>4 DEF PartType
    <2>2. qs[k] \in PartType BY <1>4, <2>1 DEF PartType
    <2>3. \A p \in 1..k : qs[p] \in PartType BY <1>3, <1>6, <2>2
    <2>4. qs = [p \in 1..k |-> qs[p]] BY <1>3
    <2>5. qs \in [1..k -> PartType] BY <2>3, <2>4
    <2> QED BY <1>3, <2>5, LenProperties
  <1> HIDE DEF qs, x, first
  <1>8. first \in Int /\ list.pushed + 1 = first + x.nelts
    <2>1. (k - 1) * n \in Int BY <1>1, <1>3
    <2> QED BY <1>1, <1>4, <2>1 DEF first
  <1>9. /\ Given(Pool') \subseteq Memory /\ Cells(x.elts, n) \subseteq Given(Pool')
    <2>1. Pool' \in Pools BY <1>1 DEF Layout
    <2> QED BY <1>1, <1>3, <2>1, GivenIsMemory DEF Layout, Memory, x
  <1>10. T \subseteq Cells(x.elts, n) /\ Cells(x.elts, x.nelts + 1) \subseteq Cells(x.elts, n)
    <2>1. n \in Int /\ x.nelts \in Nat /\ x.elts \in Int /\ x.nelts + 1 <= n BY <1>1, <1>4
    <2> QED BY ONLY <2>1 DEF Cells, T
  <1> HIDE DEF T, n, k
  <1>11. Whole(cells') /\ SameBut(cells, cells', T) /\ Found(cells', x.elts, "list", first, x.nelts + 1)
    <2>1. Cells(x.elts, x.nelts + 1) \subseteq Memory BY <1>9, <1>10
    <2>2. Whole(cells) /\ Found(cells, x.elts, "list", first, x.nelts)
      BY <1>1, <1>3 DEF Kept, x, first
    <2>3. cells' = Write(cells, x.elts + x.nelts, "list", first + x.nelts, 1)
      BY <1>2, <1>8
    <2> QED BY <1>4, <1>8, <2>1, <2>2, <2>3, FoundMore DEF T
  <1>12. /\ \A a \in Arrays : Apart(T, Owned(arrays[a]))
         /\ \A t \in others : Apart(T, t)
         /\ \A p \in DOMAIN ps : p # k => Apart(T, Cells(ps[p].elts, n))
    <2>1. /\ \A a \in Arrays : Apart(Cells(x.elts, n), Owned(arrays[a]))
          /\ \A t \in others : Apart(t, Cells(x.elts, n))
          /\ \A p \in DOMAIN ps : k # p => Apart(Cells(x.elts, n), Cells(ps[p].elts, n))
      BY <1>1, <1>3, Zenon DEF Layout, x
    <2> QED BY <1>10, <2>1 DEF Apart
  <1>13. \A p \in DOMAIN ps : ps[p].nelts <= n
    <2> SUFFICES ASSUME NEW p \in DOMAIN ps PROVE ps[p].nelts <= n OBVIOUS
    <2>1. CASE p = k BY <1>1, <1>4, <2>1 DEF x
    <2>2. CASE p # k
      <3>1. p < k BY <1>3, <2>2
      <3> QED BY <1>1, <3>1
    <2> QED BY <2>1, <2>2
  <1>14. Untouched(cells', T, arrays, ps, n, others)
    BY <1>1, <1>11, <1>13, OthersStay
  <1>15. list'.parts = qs /\ list'.nalloc = n /\ list'.pushed = list.pushed + 1
         /\ list' \in [parts : Seq(PartType), nalloc : Nat, pushed : Nat]
    <2>1. list' = [parts |-> qs, nalloc |-> list.nalloc, pushed |-> list.pushed + 1]
      BY <1>2, <1>5
    <2> QED BY <1>5, <1>7, <2>1 DEF n
  <1>16. Layout(Pool', arrays, qs, n, others)
    <2>1. \A p \in DOMAIN ps : qs[p].elts = ps[p].elts BY <1>3, <1>6 DEF x
    <2> QED BY <1>1, <1>3, <1>6, <2>1, SamePlaces
  <1>17. \A p \in DOMAIN qs : Found(cells', qs[p].elts, "list", ((p - 1) * n) + 1, qs[p].nelts)
    <2> SUFFICES ASSUME NEW p \in DOMAIN qs
                 PROVE  Found(cells', qs[p].elts, "list", ((p - 1) * n) + 1, qs[p].nelts)
      OBVIOUS
    <2>1. CASE p = k BY <1>6, <1>11, <2>1 DEF first
    <2>2. CASE p # k
      <3>1. qs[p] = ps[p] /\ p \in DOMAIN ps BY <1>3, <1>6, <2>2
      <3>2. Found(cells', ps[p].elts, "list", ((p - 1) * n) + 1, ps[p].nelts)
        BY <1>12, <1>14, <2>2, <3>1 DEF Untouched
      <3> QED BY <3>1, <3>2
    <2> QED BY <2>1, <2>2
  <1>18. Filled(list')
    <2>1. ASSUME NEW p \in DOMAIN qs
          PROVE  /\ qs[p].nelts <= n
                 /\ p < Len(qs) => qs[p].nelts = n
                 /\ p = Len(qs) => list'.pushed = ((p - 1) * n) + qs[p].nelts
      <3>1. CASE p = k
        <4>1. qs[k].nelts = x.nelts + 1 /\ Len(qs) = k /\ k \in Nat /\ x.nelts \in Nat
              /\ n \in Nat /\ x.nelts < n
          BY <1>1, <1>3, <1>4, <1>6, <1>7
        <4>2. (k - 1) * n \in Int BY <4>1
        <4>3. list.pushed + 1 = ((k - 1) * n) + (x.nelts + 1) BY <1>1, <4>1, <4>2
        <4> QED BY ONLY <1>15, <3>1, <4>1, <4>3
      <3>2. CASE p # k
        <4>1. p < k /\ qs[p] = ps[p] /\ p \in DOMAIN ps BY <1>3, <1>6, <3>2
        <4> QED BY <1>1, <1>7, <1>13, <3>2, <4>1
      <3> QED BY <3>1, <3>2
    <2>2. qs # <<>> /\ n # 0
      <3>1. 1 \in DOMAIN qs BY <1>1, <1>3, <1>6
      <3> QED BY <1>1, <3>1
    <2> QED BY <1>15, <2>1, <2>2, Zenon DEF Filled
  <1>19. ListChanges(T)
    BY <1>1, <1>11, <1>12, <1>15, <1>16, <1>17, <1>18, Zenon DEF ListChanges
  <1> QED BY <1>19, ListKeeps

LEMMA ListPushKeeps == ASSUME AInv, ListPush PROVE AInv'
  <1> DEFINE parts == list.parts
             n == list.nalloc
             k == Len(parts)
  <1>1. /\ list # NoList /\ UNCHANGED <<arrays, others>>
        /\ IF parts[k].nelts # n
             THEN PushIntoPart(parts) /\ UNCHANGED <<last, passed, beyond>>
             ELSE \E h \in Palloc(Pool, 1) :
                    \/ \E r \in Palloc(h.pool, n) :
                         Use(r.pool) /\ PushIntoPart(Append(parts, [elts |-> r.at, nelts |-> 0]))
                    \/ ~InBlock(h.pool, n) /\ Use(h.pool) /\ UNCHANGED <<cells, list>>
    BY DEF ListPush
  <1>2. /\ Layout(Pool, arrays, parts, n, others) /\ Kept(cells, arrays, parts, n, others)
        /\ Pool \in Pools /\ 1 \in Nat \ {0}
    BY Parts DEF AInv
  <1>3. /\ parts \in Seq(PartType) /\ n \in Nat \ {0} /\ parts # <<>>
        /\ \A p \in DOMAIN parts :
              /\ parts[p].nelts <= n
              /\ p < k => parts[p].nelts = n
              /\ p = k => list.pushed = ((p - 1) * n) + parts[p].nelts
    BY <1>1 DEF AInv, Filled
  <1>4. k \in Nat /\ DOMAIN parts = 1..k /\ k >= 1 /\ k \in DOMAIN parts
        /\ parts[k] \in PartType /\ parts[k].nelts \in Nat
    <2>1. k \in Nat /\ DOMAIN parts = 1..k BY <1>3, LenProperties
    <2>2. k # 0 BY <1>3, EmptySeq
    <2>3. k \in 1..k BY <2>1, <2>2
    <2>4. parts[k] \in PartType BY <1>3, <2>3, ElementOfSeq
    <2> QED BY <2>1, <2>2, <2>3, <2>4 DEF PartType
  <1>5. /\ parts[k].nelts <= n /\ list.pushed = ((k - 1) * n) + parts[k].nelts
        /\ \A p \in DOMAIN parts : p < k => parts[p].nelts = n
    BY <1>3, <1>4
  <1> HIDE DEF parts, n, k
  <1>6. CASE parts[k].nelts # n
    <2>1. PushIntoPart(parts) /\ Pool' = Pool BY <1>1, <1>6 DEF Pool
    <2>2. parts[k].nelts < n BY <1>3, <1>4, <1>5, <1>6
    <2>3. Layout(Pool', arrays, parts, n, others) BY <1>2, <2>1
    <2>4. Ready(parts)
      BY <1>1, <1>2, <1>3, <1>4, <1>5, <2>2, <2>3, Zenon DEF Ready, parts, n, k
    <2> QED BY <2>1, <2>4, PushIntoPartKeeps
  <1>7. CASE parts[k].nelts = n
    <2>1. PICK h \in Palloc(Pool, 1) :
            \/ \E r \in Palloc(h.pool, n) :
                 Use(r.pool) /\ PushIntoPart(Append(parts, [elts |-> r.at, nelts |-> 0]))
            \/ ~InBlock(h.pool, n) /\ Use(h.pool) /\ UNCHANGED <<cells, list>>
      BY <1>1, <1>7
    <2>2. New(Pool, h.at, 1, h.pool) BY <1>2, PallocRight
    <2>3. h.pool \in Pools BY <2>2 DEF New
    <2>4. CASE \E r \in Palloc(h.pool, n) :
                 Use(r.pool) /\ PushIntoPart(Append(parts, [elts |-> r.at, nelts |-> 0]))
      <3>1. PICK r \in Palloc(h.pool, n) :
              Use(r.pool) /\ PushIntoPart(Append(parts, [elts |-> r.at, nelts |-> 0]))
        BY <2>4
      <3> DEFINE part == [elts |-> r.at, nelts |-> 0]
                 ps == Append(parts, part)
      <3>2. New(h.pool, r.at, n, r.pool) BY <1>3, <2>3, PallocRight
      <3>3. New(Pool, r.at, n, r.pool) BY <1>2, <2>2, <3>2, NewTwice
      <3>4. r.pool \in Pools /\ r.at \in Nat BY <3>3 DEF New
      <3>5. Pool' = r.pool BY <3>1, <3>4, AfterUse
      <3>6. part \in PartType /\ part.elts = r.at /\ part.nelts = 0 BY <3>4 DEF PartType
      <3>7. PushIntoPart(ps) BY <3>1
      <3> HIDE DEF part
      <3>8. /\ ps \in Seq(PartType) /\ Len(ps) = k + 1 /\ DOMAIN ps = 1..(k + 1)
            /\ ps[k + 1] = part /\ \A p \in 1..k : ps[p] = parts[p]
        BY <1>3, <1>4, <3>6, AppendProperties, LenProperties DEF k
      <3>9. Layout(Pool', arrays, ps, n, others)
        BY <1>2, <1>3, <3>3, <3>4, <3>5, <3>6, PartPlaced
      <3> HIDE DEF ps
      <3>10. \A p \in 1..(k + 1) : p = k + 1 \/ p \in 1..k BY <1>4
      <3>11. \A p \in DOMAIN ps : Found(cells, ps[p].elts, "list", ((p - 1) * n) + 1, ps[p].nelts)
        <4> SUFFICES ASSUME NEW p \in DOMAIN ps
                     PROVE  Found(cells, ps[p].elts, "list", ((p - 1) * n) + 1, ps[p].nelts)
          OBVIOUS
        <4>1. CASE p = k + 1
          <5>1. ps[p].nelts = 0 BY <3>6, <3>8, <4>1
          <5>2. 0..(0 - 1) = {} OBVIOUS
          <5> QED BY <5>1, <5>2 DEF Found
        <4>2. CASE p \in 1..k
          <5>1. ps[p] = parts[p] /\ p \in DOMAIN parts BY <1>4, <3>8, <4>2
          <5>2. Found(cells, parts[p].elts, "list", ((p - 1) * n) + 1, parts[p].nelts)
            BY <1>2, <5>1 DEF Kept
          <5> QED BY <5>1, <5>2
        <4> QED BY <3>8, <3>10, <4>1, <4>2
      <3>12. Kept(cells, arrays, ps, n, others) BY <1>2, <3>11, Zenon DEF Kept
      <3>13. \A p \in DOMAIN ps : p < Len(ps) => ps[p].nelts = n
        <4> SUFFICES ASSUME NEW p \in DOMAIN ps, p < Len(ps) PROVE ps[p].nelts = n OBVIOUS
        <4>1. p \in 1..k /\ ps[p] = parts[p] BY <1>4, <3>8
        <4>2. CASE p = k BY <1>7, <4>1, <4>2
        <4>3. CASE p # k
          <5>1. p < k /\ p \in DOMAIN parts BY <1>4, <4>1, <4>3
          <5> QED BY <1>5, <4>1, <5>1
        <4> QED BY <4>2, <4>3
      <3>14. Len(ps) >= 1 /\ ps[Len(ps)].nelts = 0 /\ ps[Len(ps)].nelts < n
        BY <1>3, <1>4, <3>6, <3>8
      <3>15. list.pushed = ((Len(ps) - 1) * n) + ps[Len(ps)].nelts
        <4>1. k \in Int /\ n \in Int BY <1>3, <1>4
        <4>2. ((k - 1) * n) + n = (((k + 1) - 1) * n) + 0 BY ONLY <4>1
        <4> QED BY <1>5, <1>7, <3>8, <3>14, <4>2
      <3>16. Ready(ps)
        BY <1>1, <1>3, <3>8, <3>9, <3>12, <3>13, <3>14, <3>15, Zenon DEF Ready, n
      <3> QED BY <3>7, <3>16, PushIntoPartKeeps
    <2>5. CASE Use(h.pool) /\ UNCHANGED <<cells, list>>
      <3>1. Pool' = h.pool BY <2>3, <2>5, AfterUse
      <3>2. Layout(Pool', arrays, list.parts, list.nalloc, others)
        BY <1>2, <2>2, <2>3, <3>1, PoolGrew DEF New, parts, n
      <3> QED BY <1>1, <2>5, <3>2 DEF AInv
    <2> QED BY <2>1, <2>4, <2>5
  <1> QED BY <1>6, <1>7

-----------------------------------------------------------------------------
(* Others.                                                                    *)

LEMMA PallocOtherKeeps ==
    ASSUME AInv, NEW n \in Lengths, PallocOther(n) PROVE AInv'
  <1>1. n \in Nat \ {0} /\ Pool \in Pools BY ArrayAssumption, Parts
  <1>2. PICK r \in Palloc(Pool, n) :
          /\ Use(r.pool)
          /\ others' = others \cup {r.at..(r.at + n - 1)}
          /\ cells' = Write(cells, r.at, "other", 1, n)
    BY DEF PallocOther
  <1> DEFINE S == Cells(r.at, n)
  <1>3. others' = others \cup {S} BY <1>2 DEF Cells
  <1>4. New(Pool, r.at, n, r.pool) BY <1>1, PallocRight
  <1>5. /\ r.pool \in Pools /\ r.at \in Nat /\ Given(Pool) \subseteq Given(r.pool)
        /\ S \subseteq Given(r.pool) /\ Apart(S, Given(Pool))
        /\ r.at \in 0..(BlockEnd - 1) => r.at + n <= r.pool.last
    BY <1>4, Zenon DEF New
  <1>6. Pool' = r.pool BY <1>2, <1>5, AfterUse
  <1>7. /\ arrays = [a \in Arrays |-> arrays[a]]
        /\ Layout(Pool, arrays, list.parts, list.nalloc, others)
        /\ Kept(cells, arrays, list.parts, list.nalloc, others)
        /\ Lodged(arrays, others) /\ Filled(list)
    BY DEF AInv
  <1>8. Layout(Pool', arrays, list.parts, list.nalloc, others')
    BY <1>3, <1>4, <1>5, <1>6, <1>7, TakenPlaced
  <1>9. Whole(cells') /\ SameBut(cells, cells', S) /\ Found(cells', r.at, "other", 1, n)
    <2>1. S \subseteq Memory BY <1>5, GivenIsMemory DEF Memory
    <2>2. Whole(cells) /\ r.at \in Int /\ n \in Nat BY <1>1, <1>5, <1>7 DEF Kept
    <2> QED BY <1>2, <2>1, <2>2, WriteRight
  <1>10. \A c \in S : cells'[c].of = "other"
    <2> SUFFICES ASSUME NEW c \in S PROVE cells'[c].of = "other" OBVIOUS
    <2> DEFINE i == c - r.at
    <2>1. i \in 0..(n - 1) /\ r.at + i = c BY <1>1, <1>5 DEF Cells
    <2> HIDE DEF i
    <2>2. cells'[r.at + i] = [of |-> "other", n |-> 1 + i] BY <1>9, <2>1 DEF Found
    <2> QED BY <2>1, <2>2
  <1> HIDE DEF S
  <1>11. Untouched(cells', S, arrays, list.parts, list.nalloc, others)
    <2>1. /\ list.parts \in Seq(PartType) /\ list.nalloc \in Nat
          /\ \A p \in DOMAIN list.parts : list.parts[p].nelts <= list.nalloc
      BY Parts
    <2> QED BY <1>7, <1>9, <2>1, OthersStay
  <1>12. /\ \A a \in Arrays : Apart(S, Owned(arrays[a]))
         /\ \A p \in DOMAIN list.parts : Apart(S, Cells(list.parts[p].elts, list.nalloc))
         /\ \A t \in others : Apart(S, t)
    <2>1. \A U : U \subseteq Given(Pool) => Apart(S, U) BY <1>5 DEF Apart
    <2> QED BY <1>7, <2>1 DEF Layout
  <1>13. Kept(cells', arrays, list.parts, list.nalloc, others')
    <2>1. \A t \in others' : \A c \in t : cells'[c].of = "other"
      BY <1>3, <1>10, <1>11, <1>12 DEF Untouched
    <2> QED BY <1>9, <1>11, <1>12, <2>1, Zenon DEF Kept, Untouched
  <1>14. arrays' = arrays /\ list' = list BY DEF PallocOther
  <1>15. Lodged(arrays, others')
    <2>1. ~(BlockEnd - 1 \in S /\ BlockEnd \in S)
      <3>1. r.pool.last \in 0..BlockEnd BY <1>5 DEF Pools
      <3> QED BY <1>1, <1>5, <3>1, Bounds DEF Cells, S
    <2> QED BY <1>3, <1>7, <2>1 DEF Lodged, Lodging
  <1> QED BY <1>7, <1>8, <1>13, <1>14, <1>15, Zenon DEF AInv

-----------------------------------------------------------------------------
(* The invariant.                                                             *)

LEMMA InitKeeps == ASSUME ArraysInit PROVE AInv
  <1>1. /\ last = 0 /\ beyond = BlockEnd /\ cells = [c \in Memory |-> Nobody]
        /\ arrays = [a \in Arrays |-> Absent] /\ list = NoList /\ others = {}
    BY DEF ArraysInit, Memory
  <1>2. Pool = [last |-> 0, beyond |-> BlockEnd] BY <1>1 DEF Pool
  <1>3. Pool \in Pools
    <2>1. 0 \in 0..BlockEnd /\ BlockEnd \in BlockEnd..MemoryEnd BY Bounds
    <2> QED BY <1>2, <2>1 DEF Pools
  <1>4. Absent \in ArrayType /\ Owned(Absent) = {} /\ Apart(Slots(Absent), Header(Absent))
        /\ Absent.nelts = 0 /\ Absent.nalloc = 0 /\ Absent.elts = -2
    BY DEF Absent, ArrayType, Outside, Owned, Slots, Header, Cells, Apart
  <1>5. Shaped(Absent) /\ Below(Absent, Pool) BY <1>4 DEF Shaped, Below
  <1>6. \A a \in Arrays : arrays[a] = Absent BY <1>1
  <1>7. list.parts = <<>> /\ list.nalloc = 0 /\ list.pushed = 0 /\ DOMAIN list.parts = {}
    BY <1>1 DEF NoList
  <1>8. Layout(Pool, arrays, list.parts, list.nalloc, others)
    BY <1>1, <1>3, <1>4, <1>5, <1>6, <1>7 DEF Layout, Apart
  <1>9. Kept(cells, arrays, list.parts, list.nalloc, others)
    <2>1. Whole(cells) BY <1>1 DEF Whole
    <2>2. 0..(0 - 1) = {} OBVIOUS
    <2>3. \A a \in Arrays : Found(cells, arrays[a].elts, a, 1, arrays[a].nelts)
      BY <1>4, <1>6, <2>2 DEF Found
    <2> QED BY <1>1, <1>7, <2>1, <2>3 DEF Kept
  <1>10. Filled(list)
    <2>1. list \in [parts : Seq(PartType), nalloc : Nat, pushed : Nat]
      BY <1>1 DEF NoList
    <2> QED BY <1>1, <1>7, <2>1 DEF Filled
  <1>11. Lodged(arrays, others) BY <1>1, <1>6 DEF Lodged, Lodging, Absent
  <1> QED BY <1>1, <1>8, <1>9, <1>10, <1>11 DEF AInv

LEMMA StutterKeeps == ASSUME AInv, UNCHANGED arrayVars PROVE AInv'
  <1>1. cells' = cells /\ arrays' = arrays /\ list' = list /\ others' = others /\ Pool' = Pool
    BY DEF arrayVars, Pool
  <1> QED BY <1>1 DEF AInv

LEMMA PassBlockKeeps == ASSUME AInv, PassBlock PROVE AInv'
  <1>1. cells' = cells /\ arrays' = arrays /\ list' = list /\ others' = others /\ Pool' = Pool
    BY DEF PassBlock, Pool
  <1> QED BY <1>1 DEF AInv

LEMMA NextKeeps == ASSUME AInv, ArraysNext PROVE AInv'
  <1>1. ASSUME NEW a \in Arrays, NEW n \in Lengths, ArrayCreate(a, n) PROVE AInv'
    BY <1>1, ArrayCreateKeeps
  <1>2. ASSUME NEW a \in Arrays, NEW n \in Lengths, ArrayInit(a, n) PROVE AInv'
    BY <1>2, ArrayInitKeeps
  <1>3. ASSUME NEW a \in Arrays, NEW n \in Lengths, ArrayPush(a, n) PROVE AInv'
    BY <1>3, ArrayPushKeeps
  <1>4. ASSUME NEW a \in Arrays, ArrayDestroy(a) PROVE AInv' BY <1>4, ArrayDestroyKeeps
  <1>5. ASSUME NEW n \in Lengths, ListCreate(n) PROVE AInv' BY <1>5, ListCreateKeeps
  <1>6. ASSUME NEW n \in Lengths, PallocOther(n) PROVE AInv' BY <1>6, PallocOtherKeeps
  <1>7. CASE ListPush BY <1>7, ListPushKeeps
  <1>8. CASE PassBlock BY <1>8, PassBlockKeeps
  <1> QED BY <1>1, <1>2, <1>3, <1>4, <1>5, <1>6, <1>7, <1>8 DEF ArraysNext

\* What is in the cells is what ElementsKept looks for.
LEMMA KeptIsKept == ASSUME AInv PROVE ElementsKept
  <1>1. ASSUME NEW a \in Arrays
        PROVE  /\ Holds(arrays[a].elts, a, 1, arrays[a].nelts)
               /\ arrays[a].nelts <= arrays[a].nalloc
               /\ arrays[a].elts \in 0..(BlockEnd - 1) => End(arrays[a]) <= last
    <2>1. /\ Found(cells, arrays[a].elts, a, 1, arrays[a].nelts)
          /\ Shaped(arrays[a]) /\ Below(arrays[a], Pool)
      BY DEF AInv, Kept, Layout
    <2>2. Pool.last = last BY DEF Pool
    <2> QED BY <2>1, <2>2 DEF Found, Holds, Shaped, Below, End
  <1>2. ASSUME NEW p \in DOMAIN list.parts
        PROVE  /\ Holds(list.parts[p].elts, "list", ((p - 1) * list.nalloc) + 1,
                        list.parts[p].nelts)
               /\ p < Len(list.parts) => list.parts[p].nelts = list.nalloc
               /\ p = Len(list.parts) =>
                     list.pushed = ((p - 1) * list.nalloc) + list.parts[p].nelts
    <2>1. Found(cells, list.parts[p].elts, "list", ((p - 1) * list.nalloc) + 1,
                list.parts[p].nelts)
      BY DEF AInv, Kept
    <2>2. /\ p < Len(list.parts) => list.parts[p].nelts = list.nalloc
          /\ p = Len(list.parts) =>
                list.pushed = ((p - 1) * list.nalloc) + list.parts[p].nelts
      BY DEF AInv, Filled
    <2> QED BY <2>1, <2>2, Zenon DEF Found, Holds
  <1>3. \A region \in others : \A c \in region : cells[c].of = "other" BY DEF AInv, Kept
  <1> QED BY <1>1, <1>2, <1>3, Zenon DEF ElementsKept

(* Every behaviour keeps the invariant: in each step, an array, the list or    *)
(* another user of the pool writes only cells that are its own, or that nobody *)
(* had (hky_array.c, hky_list.c).                                              *)
THEOREM ArraysInvariance == ContainersSpec => []AInv
  <1>1. ArraysInit => AInv BY InitKeeps
  <1>2. AInv /\ [ArraysNext]_arrayVars => AInv' BY NextKeeps, StutterKeeps
  <1> QED BY <1>1, <1>2, EitherAlone, PTL DEF ArraysSpec

(* What was pushed onto an array or a list is found in it, in its order, and   *)
(* what is others' is theirs, whatever grows in place, moves, is given back or *)
(* runs out of memory, for any sizes of the pool, arrays and elements.         *)
THEOREM ElementsAlwaysKept == ContainersSpec => []ElementsKept
  BY ArraysInvariance, KeptIsKept, PTL

-----------------------------------------------------------------------------
(* Rows of elements.                                                          *)

\* A row has no more elements than there are.
LEMMA RowsAre == Rows = {q \in Seq(Elements) : IsInjective(q)}
  <1>1. ASSUME NEW q \in Rows PROVE q \in Seq(Elements) /\ IsInjective(q)
    BY DEF Rows, SeqOf
  <1>2. ASSUME NEW q \in Seq(Elements), IsInjective(q) PROVE q \in Rows
    <2>1. q \in [1..Len(q) -> Elements] /\ Len(q) \in Nat OBVIOUS
    <2>2. q \in Injection(1..Len(q), Elements) BY <1>2, <2>1 DEF Injection
    <2>3. Cardinality(1..Len(q)) <= Cardinality(Elements)
      BY <2>2, FS_Injection, QueueAssumption
    <2>4. Cardinality(1..Len(q)) = Len(q)
      <3>1. Cardinality(1..Len(q)) = IF 1 > Len(q) THEN 0 ELSE Len(q) - 1 + 1
        BY <2>1, FS_Interval
      <3> QED BY <3>1, <2>1
    <2>5. Cardinality(Elements) \in Nat BY FS_CardinalityType, QueueAssumption
    <2>6. Len(q) \in 0..Cardinality(Elements) BY <2>1, <2>3, <2>4, <2>5
    <2> QED BY <1>2, <2>1, <2>6 DEF Rows, SeqOf
  <1> QED BY <1>1, <1>2

LEMMA RowIs ==
    ASSUME NEW q \in Rows
    PROVE  /\ q \in Seq(Elements) /\ Len(q) \in Nat /\ DOMAIN q = 1..Len(q)
           /\ \A i \in 1..Len(q) : q[i] \in Elements
           /\ \A i, j \in 1..Len(q) : q[i] = q[j] => i = j
  BY RowsAre DEF IsInjective

LEMMA RowFits ==
    ASSUME NEW q \in Rows
    PROVE  Cardinality(Elements) \in Nat /\ Len(q) <= Cardinality(Elements)
  <1>1. Cardinality(Elements) \in Nat BY FS_CardinalityType, QueueAssumption
  <1>2. PICK m \in 0..Cardinality(Elements) : q \in [1..m -> Elements]
    BY DEF Rows, SeqOf
  <1>3. Len(q) = m BY <1>2, <1>1
  <1> QED BY <1>1, <1>3

LEMMA AtIs ==
    ASSUME NEW h \in Heads, NEW q \in Rows
    PROVE  /\ At(h, q, 0) = h /\ At(h, q, Len(q) + 1) = h
           /\ \A i \in 1..Len(q) : At(h, q, i) = q[i] /\ q[i] \in Elements /\ q[i] # h
           /\ \A i \in 0..(Len(q) + 1) : At(h, q, i) \in Nodes
           /\ \A i, j \in 0..Len(q) : At(h, q, i) = At(h, q, j) => i = j
           /\ \A i, j \in 1..(Len(q) + 1) : At(h, q, i) = At(h, q, j) => i = j
  <1>1. At(h, q, 0) = h /\ At(h, q, Len(q) + 1) = h BY RowIs DEF At
  <1>2. \A i \in 1..Len(q) : At(h, q, i) = q[i] /\ q[i] \in Elements /\ q[i] # h
    <2>1. \A i \in 1..Len(q) : At(h, q, i) = q[i] BY RowIs DEF At
    <2>2. h \notin Elements BY QueueAssumption
    <2> QED BY <2>1, <2>2, RowIs
  <1>3. ASSUME NEW i \in 0..(Len(q) + 1) PROVE i \in 1..Len(q) \/ i = 0 \/ i = Len(q) + 1
    BY RowIs
  <1>4. \A i \in 0..(Len(q) + 1) : At(h, q, i) \in Nodes BY <1>1, <1>2, <1>3 DEF Nodes
  <1>5. \A i, j \in 1..Len(q) : q[i] = q[j] => i = j BY RowIs
  <1>6. \A i, j \in 0..Len(q) : At(h, q, i) = At(h, q, j) => i = j
    <2> TAKE i, j \in 0..Len(q)
    <2>1. (i \in 1..Len(q) \/ i = 0) /\ (j \in 1..Len(q) \/ j = 0) BY RowIs
    <2> QED BY <2>1, <1>1, <1>2, <1>5
  <1>7. \A i, j \in 1..(Len(q) + 1) : At(h, q, i) = At(h, q, j) => i = j
    <2> TAKE i, j \in 1..(Len(q) + 1)
    <2>1. (i \in 1..Len(q) \/ i = Len(q) + 1) /\ (j \in 1..Len(q) \/ j = Len(q) + 1)
      BY RowIs
    <2> QED BY <2>1, <1>1, <1>2, <1>5
  <1> QED BY <1>1, <1>2, <1>4, <1>6, <1>7

LEMMA AtAgree ==
    ASSUME NEW l, NEW h \in Heads, NEW q \in Rows, NEW r \in Rows,
           Linked(l, h, q), Linked(l, h, r)
    PROVE  \A i \in Nat : i <= Len(q) + 1 /\ i <= Len(r) + 1 => At(h, q, i) = At(h, r, i)
  <1> DEFINE T == {i \in Nat : i <= Len(q) + 1 /\ i <= Len(r) + 1 =>
                                 At(h, q, i) = At(h, r, i)}
  <1>1. 0 \in T BY AtIs
  <1>2. ASSUME NEW i \in Nat, i \in T PROVE i + 1 \in T
    <2>1. CASE i <= Len(q) /\ i <= Len(r)
      <3>1. l.next[At(h, q, i)] = At(h, q, i + 1) BY <2>1, RowIs DEF Linked
      <3>2. l.next[At(h, r, i)] = At(h, r, i + 1) BY <2>1, RowIs DEF Linked
      <3>3. At(h, q, i) = At(h, r, i) BY <1>2, <2>1, RowIs
      <3> QED BY <3>1, <3>2, <3>3
    <2>2. CASE ~(i <= Len(q) /\ i <= Len(r)) BY <2>2, RowIs
    <2> QED BY <2>1, <2>2
  <1> HIDE DEF T
  <1>3. Nat \subseteq T BY <1>1, <1>2, NatSetInduction
  <1> QED BY <1>3 DEF T

\* Links say which row it is.
LEMMA RowUnique ==
    ASSUME NEW l, NEW h \in Heads, NEW q \in Rows, NEW r \in Rows,
           Linked(l, h, q), Linked(l, h, r)
    PROVE  q = r
  <1>1. ASSUME NEW s \in Rows, NEW t \in Rows, Linked(l, h, s), Linked(l, h, t),
               Len(s) < Len(t)
        PROVE  FALSE
    <2>1. At(h, s, Len(s) + 1) = At(h, t, Len(s) + 1) BY <1>1, AtAgree, RowIs
    <2>2. Len(s) + 1 \in 1..Len(t) BY <1>1, RowIs
    <2> QED BY <2>1, <2>2, AtIs
  <1>2. Len(q) = Len(r)
    <2>1. ~(Len(q) < Len(r)) /\ ~(Len(r) < Len(q)) BY <1>1
    <2> QED BY <2>1, RowIs
  <1>3. \A i \in 1..Len(q) : q[i] = r[i]
    <2> TAKE i \in 1..Len(q)
    <2>1. At(h, q, i) = At(h, r, i) BY <1>2, AtAgree, RowIs
    <2> QED BY <2>1, <1>2, AtIs
  <1> QED BY <1>2, <1>3, RowIs

-----------------------------------------------------------------------------
(* The rings of all heads.                                                    *)

Typed(l) == l = [prev |-> [x \in Nodes |-> l.prev[x]], next |-> [x \in Nodes |-> l.next[x]]]

Disjoint(q, r) == \A i \in 1..Len(q), j \in 1..Len(r) : q[i] # r[j]

Rings(l, qs) ==
    /\ Typed(l)
    /\ qs \in [Heads -> Rows]
    /\ \A h \in Heads : Linked(l, h, qs[h])
    /\ \A g, h \in Heads : g # h => Disjoint(qs[g], qs[h])

\* The nodes of a head's ring.
InRing(h, q, y) == y = h \/ \E i \in 1..Len(q) : y = q[i]

Same(l, m, y) == m.next[y] = l.next[y] /\ m.prev[y] = l.prev[y]

\* What is met on the way from h is in its ring.
LEMMA AtInRing ==
    ASSUME NEW h \in Heads, NEW q \in Rows, NEW i \in 0..(Len(q) + 1)
    PROVE  InRing(h, q, At(h, q, i))
  <1>1. i \in 1..Len(q) \/ i = 0 \/ i = Len(q) + 1 BY RowIs
  <1> QED BY <1>1, AtIs DEF InRing

\* A ring stays as it is if the links of its nodes do.
LEMMA LinkedStays ==
    ASSUME NEW l, NEW m, NEW h \in Heads, NEW q \in Rows, Linked(l, h, q),
           \A y \in Nodes : InRing(h, q, y) => Same(l, m, y)
    PROVE  Linked(m, h, q)
  <1> SUFFICES ASSUME NEW i \in 0..Len(q)
               PROVE  /\ m.next[At(h, q, i)] = At(h, q, i + 1)
                      /\ m.prev[At(h, q, i + 1)] = At(h, q, i)
    BY DEF Linked
  <1>1. i \in 0..(Len(q) + 1) /\ i + 1 \in 0..(Len(q) + 1) BY RowIs
  <1>2. InRing(h, q, At(h, q, i)) /\ InRing(h, q, At(h, q, i + 1)) BY <1>1, AtInRing
  <1>3. At(h, q, i) \in Nodes /\ At(h, q, i + 1) \in Nodes BY <1>1, AtIs
  <1>4. Same(l, m, At(h, q, i)) /\ Same(l, m, At(h, q, i + 1)) BY <1>2, <1>3
  <1>5. l.next[At(h, q, i)] = At(h, q, i + 1) /\ l.prev[At(h, q, i + 1)] = At(h, q, i)
    BY DEF Linked
  <1> QED BY <1>4, <1>5 DEF Same

\* The ring of one head changes; no other head has its old or its new nodes.
LEMMA RingsChange ==
    ASSUME NEW l, NEW qs, Rings(l, qs), NEW m, Typed(m),
           NEW h \in Heads, NEW r \in Rows, Linked(m, h, r),
           \A g \in Heads \ {h} : Disjoint(qs[g], r),
           \A y \in Nodes : ~InRing(h, qs[h], y) /\ ~InRing(h, r, y) => Same(l, m, y)
    PROVE  Rings(m, [qs EXCEPT ![h] = r])
  <1> DEFINE rs == [qs EXCEPT ![h] = r]
  <1>1. qs \in [Heads -> Rows] /\ \A g \in Heads : qs[g] \in Rows BY DEF Rings
  <1>2. rs \in [Heads -> Rows] /\ rs[h] = r /\ \A g \in Heads \ {h} : rs[g] = qs[g] BY <1>1
  <1> HIDE DEF rs
  <1>3. ASSUME NEW g \in Heads \ {h} PROVE Linked(m, g, qs[g])
    <2>1. ASSUME NEW y \in Nodes, InRing(g, qs[g], y) PROVE Same(l, m, y)
      <3>1. Disjoint(qs[g], qs[h]) /\ Disjoint(qs[g], r) BY DEF Rings
      <3>2. qs[g] \in Rows /\ qs[h] \in Rows BY <1>1
      <3>3. ~InRing(h, qs[h], y) /\ ~InRing(h, r, y)
        <4>1. CASE y = g
          <5>1. \A q \in Rows : \A i \in 1..Len(q) : q[i] # g BY AtIs
          <5> QED BY <4>1, <5>1, <3>2 DEF InRing
        <4>2. CASE \E i \in 1..Len(qs[g]) : y = qs[g][i]
          <5>1. y # h BY <4>2, <3>2, AtIs
          <5> QED BY <4>2, <5>1, <3>1 DEF InRing, Disjoint
        <4> QED BY <4>1, <4>2, <2>1 DEF InRing
      <3> QED BY <3>3
    <2>2. Linked(l, g, qs[g]) BY DEF Rings
    <2>3. qs[g] \in Rows BY <1>1
    <2> QED BY <2>1, <2>2, <2>3, LinkedStays
  <1>4. \A g \in Heads : Linked(m, g, rs[g]) BY <1>2, <1>3
  <1>5. ASSUME NEW f \in Heads, NEW g \in Heads, f # g PROVE Disjoint(rs[f], rs[g])
    <2>1. CASE f # h /\ g # h BY <2>1, <1>2, <1>5 DEF Rings
    <2>2. CASE g = h
      <3>1. Disjoint(qs[f], r) BY <2>2, <1>5
      <3> QED BY <3>1, <2>2, <1>2, <1>5
    <2>3. CASE f = h
      <3>1. Disjoint(qs[g], r) BY <2>3, <1>5
      <3> QED BY <3>1, <2>3, <1>2, <1>5 DEF Disjoint
    <2> QED BY <2>1, <2>2, <2>3
  <1> QED BY <1>2, <1>4, <1>5 DEF Rings, rs

-----------------------------------------------------------------------------
(* Inserting and removing.                                                    *)

\* An element more in a row.
LEMMA RowInsert ==
    ASSUME NEW q \in Rows, NEW x \in Elements, \A j \in 1..Len(q) : q[j] # x,
           NEW i \in 1..(Len(q) + 1)
    PROVE  /\ InsertAt(q, i, x) \in Rows /\ Len(InsertAt(q, i, x)) = Len(q) + 1
           /\ \A j \in 1..(Len(q) + 1) :
                 InsertAt(q, i, x)[j] = IF j < i THEN q[j] ELSE IF j = i THEN x ELSE q[j - 1]
  <1> DEFINE r == InsertAt(q, i, x)
             Entry(j) == IF j < i THEN q[j] ELSE IF j = i THEN x ELSE q[j - 1]
  <1>1. q \in Seq(Elements) /\ Len(q) \in Nat /\ i \in Int /\ 1 <= i /\ i <= Len(q) + 1
    BY RowIs
  <1>2. SubSeq(q, 1, i - 1) \in Seq(Elements) /\ Len(SubSeq(q, 1, i - 1)) = i - 1
        /\ \A j \in 1..(i - 1) : SubSeq(q, 1, i - 1)[j] = q[j]
    BY <1>1
  <1>3. SubSeq(q, i, Len(q)) \in Seq(Elements) /\ Len(SubSeq(q, i, Len(q))) = Len(q) - i + 1
        /\ \A j \in 1..(Len(q) - i + 1) : SubSeq(q, i, Len(q))[j] = q[i + j - 1]
    BY <1>1
  <1>4. r = (SubSeq(q, 1, i - 1) \o <<x>>) \o SubSeq(q, i, Len(q)) BY DEF InsertAt
  <1> HIDE DEF r
  <1>5. r \in Seq(Elements) /\ Len(r) = Len(q) + 1
    <2> DEFINE s == SubSeq(q, 1, i - 1)
               t == SubSeq(q, i, Len(q))
    <2> HIDE DEF s, t
    <2>1. s \o <<x>> \in Seq(Elements) /\ Len(s \o <<x>>) = i BY <1>1, <1>2 DEF s
    <2>2. t \in Seq(Elements) /\ Len(t) = Len(q) - i + 1 BY <1>3 DEF t
    <2>3. r = (s \o <<x>>) \o t BY <1>4 DEF s, t
    <2> QED BY <1>1, <2>1, <2>2, <2>3
  <1>6. \A j \in 1..(Len(q) + 1) : r[j] = Entry(j)
    <2> DEFINE s == SubSeq(q, 1, i - 1)
               t == SubSeq(q, i, Len(q))
    <2> HIDE DEF s, t
    <2>1. s \o <<x>> \in Seq(Elements) /\ Len(s \o <<x>>) = i
          /\ \A j \in 1..i : (s \o <<x>>)[j] = IF j < i THEN s[j] ELSE x
      BY <1>1, <1>2 DEF s
    <2>2. r = (s \o <<x>>) \o t BY <1>4 DEF s, t
    <2>3. t \in Seq(Elements) BY <1>3 DEF t
    <2>4. \A j \in 1..(Len(q) + 1) : r[j] = IF j <= i THEN (s \o <<x>>)[j] ELSE t[j - i]
      <3>1. Len(s \o <<x>>) + Len(t) = Len(q) + 1
        <4>1. Len(t) = Len(q) - i + 1 BY ONLY <1>3 DEF t
        <4>2. Len(s \o <<x>>) = i BY <2>1
        <4>3. Len(q) \in Nat /\ i \in Int BY <1>1
        <4> QED BY ONLY <4>1, <4>2, <4>3
      <3> QED BY <2>1, <2>2, <2>3, <3>1, <1>1
    <2> QED BY <2>1, <2>4, <1>1, <1>2, <1>3 DEF s, t
  <1>7. \A j, k \in 1..(Len(q) + 1) : r[j] = r[k] => j = k
    <2>1. \A j, k \in 1..Len(q) : q[j] = q[k] => j = k BY RowIs
    <2> QED BY <1>1, <1>6, <2>1
  <1>8. r \in Rows BY <1>5, <1>7, RowsAre DEF IsInjective
  <1> QED BY <1>5, <1>6, <1>8 DEF r

\* An element less.
LEMMA RowRemove ==
    ASSUME NEW q \in Rows, NEW i \in 1..Len(q)
    PROVE  /\ RemoveAt(q, i) \in Rows /\ Len(RemoveAt(q, i)) = Len(q) - 1
           /\ \A j \in 1..(Len(q) - 1) :
                 RemoveAt(q, i)[j] = IF j < i THEN q[j] ELSE q[j + 1]
  <1> DEFINE r == RemoveAt(q, i)
             s == SubSeq(q, 1, i - 1)
             t == SubSeq(q, i + 1, Len(q))
  <1>1. q \in Seq(Elements) /\ Len(q) \in Nat /\ i \in Int /\ 1 <= i /\ i <= Len(q) BY RowIs
  <1>2. s \in Seq(Elements) /\ Len(s) = i - 1 /\ \A j \in 1..(i - 1) : s[j] = q[j] BY <1>1
  <1>3. t \in Seq(Elements) /\ Len(t) = Len(q) - i
        /\ \A j \in 1..(Len(q) - i) : t[j] = q[i + j]
    BY <1>1
  <1>4. r = s \o t BY DEF RemoveAt
  <1> HIDE DEF r, s, t
  <1>5. r \in Seq(Elements) /\ Len(r) = Len(q) - 1 BY <1>1, <1>2, <1>3, <1>4
  <1>6. \A j \in 1..(Len(q) - 1) : r[j] = IF j < i THEN s[j] ELSE t[j - i + 1]
    BY <1>1, <1>2, <1>3, <1>4
  <1>7. \A j \in 1..(Len(q) - 1) : r[j] = IF j < i THEN q[j] ELSE q[j + 1]
    BY <1>1, <1>2, <1>3, <1>6
  <1>8. \A j, k \in 1..(Len(q) - 1) : r[j] = r[k] => j = k
    <2>1. \A j, k \in 1..Len(q) : q[j] = q[k] => j = k BY RowIs
    <2> QED BY <1>1, <1>7, <2>1
  <1>9. r \in Rows BY <1>5, <1>8, RowsAre DEF IsInjective
  <1> QED BY <1>5, <1>7, <1>9 DEF r

\* The links as two functions.
LEMMA InsertAfterOf ==
    ASSUME NEW P, NEW N, NEW p, NEW x
    PROVE  InsertAfter([prev |-> P, next |-> N], p, x) =
              [prev |-> [[P EXCEPT ![N[p]] = x] EXCEPT ![x] = p],
               next |-> [[N EXCEPT ![x] = N[p]] EXCEPT ![p] = x]]
  <1> DEFINE l == [prev |-> P, next |-> N]
             l1 == [l EXCEPT !.next[x] = N[p]]
             l2 == [l1 EXCEPT !.prev[N[p]] = x]
             l3 == [l2 EXCEPT !.prev[x] = p]
             l4 == [l3 EXCEPT !.next[p] = x]
             N1 == [N EXCEPT ![x] = N[p]]
             P2 == [P EXCEPT ![N[p]] = x]
             P3 == [P2 EXCEPT ![x] = p]
             N4 == [N1 EXCEPT ![p] = x]
  <1>1. l1 = [prev |-> P, next |-> N1] OBVIOUS
  <1>2. l2 = [prev |-> P2, next |-> N1]
    <2> HIDE DEF l1, N1
    <2> QED BY <1>1
  <1>3. l3 = [prev |-> P3, next |-> N1]
    <2> HIDE DEF l2, N1, P2
    <2> QED BY <1>2
  <1>4. l4 = [prev |-> P3, next |-> N4]
    <2> HIDE DEF l3, N1, P3
    <2> QED BY <1>3
  <1>5. InsertAfter(l, p, x) = l4 BY DEF InsertAfter
  <1> QED BY <1>4, <1>5

LEMMA UnlinkOf ==
    ASSUME NEW P, NEW N, NEW x
    PROVE  Unlink([prev |-> P, next |-> N], x) =
              [prev |-> IF debug THEN [[P EXCEPT ![N[x]] = P[x]] EXCEPT ![x] = NULL]
                        ELSE [P EXCEPT ![N[x]] = P[x]],
               next |-> IF debug THEN [[N EXCEPT ![P[x]] = N[x]] EXCEPT ![x] = NULL]
                        ELSE [N EXCEPT ![P[x]] = N[x]]]
  BY DEF Unlink

LEMMA InsertAfterIs ==
    ASSUME NEW l, Typed(l), NEW p \in Nodes, NEW x \in Nodes, l.next[p] \in Nodes
    PROVE  /\ Typed(InsertAfter(l, p, x))
           /\ \A y \in Nodes :
                 /\ InsertAfter(l, p, x).next[y] =
                       IF y = p THEN x ELSE IF y = x THEN l.next[p] ELSE l.next[y]
                 /\ InsertAfter(l, p, x).prev[y] =
                       IF y = x THEN p ELSE IF y = l.next[p] THEN x ELSE l.prev[y]
  <1> DEFINE P == l.prev
             N == l.next
             P2 == [[P EXCEPT ![N[p]] = x] EXCEPT ![x] = p]
             N2 == [[N EXCEPT ![x] = N[p]] EXCEPT ![p] = x]
  <1>1. l = [prev |-> P, next |-> N] /\ P = [y \in Nodes |-> P[y]] /\ N = [y \in Nodes |-> N[y]]
    BY DEF Typed
  <1>2. InsertAfter(l, p, x) = [prev |-> P2, next |-> N2]
    <2> HIDE DEF P, N
    <2> QED BY ONLY <1>1, InsertAfterOf
  <1> HIDE DEF P, N
  <1>3. P2 = [y \in Nodes |-> P2[y]] /\ N2 = [y \in Nodes |-> N2[y]] BY <1>1
  <1>4. N[p] \in Nodes BY DEF N
  <1>5. \A y \in Nodes :
           /\ N2[y] = IF y = p THEN x ELSE IF y = x THEN N[p] ELSE N[y]
           /\ P2[y] = IF y = x THEN p ELSE IF y = N[p] THEN x ELSE P[y]
    BY <1>1, <1>4
  <1> HIDE DEF P2, N2
  <1> QED BY <1>2, <1>3, <1>5 DEF Typed, P, N

\* At the end, hky_queue_insert_tail does what hky_queue_insert_after does.
LEMMA InsertTailIs ==
    ASSUME NEW l, Typed(l), NEW h \in Nodes, NEW x \in Nodes, x # h,
           l.prev[h] \in Nodes, x # l.prev[h], l.next[l.prev[h]] = h
    PROVE  InsertTail(l, h, x) = InsertAfter(l, l.prev[h], x)
  <1> DEFINE P == l.prev
             N == l.next
             p == P[h]
             m == [prev |-> P, next |-> N]
             l1 == [m EXCEPT !.prev[x] = p]
             l2 == [l1 EXCEPT !.next[p] = x]
             l3 == [l2 EXCEPT !.next[x] = h]
             l4 == [l3 EXCEPT !.prev[h] = x]
             P1 == [P EXCEPT ![x] = p]
             P4 == [P1 EXCEPT ![h] = x]
             N2 == [N EXCEPT ![p] = x]
             N3 == [N2 EXCEPT ![x] = h]
             Pa == [[P EXCEPT ![h] = x] EXCEPT ![x] = p]
             Na == [[N EXCEPT ![x] = h] EXCEPT ![p] = x]
  <1>1. l = m /\ P = [y \in Nodes |-> P[y]] /\ N = [y \in Nodes |-> N[y]]
    BY DEF Typed
  <1>2. p \in Nodes /\ x # p /\ N[p] = h OBVIOUS
  <1> HIDE DEF P, N, p
  <1>3. l1 = [prev |-> P1, next |-> N] OBVIOUS
  <1>4. l2 = [prev |-> P1, next |-> N2]
    <2> HIDE DEF l1, P1
    <2> QED BY ONLY <1>3
  <1>5. l3 = [prev |-> P1, next |-> N3]
    <2> HIDE DEF l2, P1, N2
    <2> QED BY ONLY <1>4
  <1>6. l4 = [prev |-> P4, next |-> N3]
    <2> HIDE DEF l3, P1, N3
    <2> QED BY ONLY <1>5
  <1>7. InsertTail(l, h, x) = l4
    <2>1. InsertTail(m, h, x) = l4
      <3>1. m.prev[h] = p BY DEF p
      <3> HIDE DEF m
      <3> QED BY ONLY <3>1 DEF InsertTail, l1, l2, l3, l4
    <2> QED BY ONLY <1>1, <2>1
  <1>8. InsertAfter(l, l.prev[h], x) = [prev |-> Pa, next |-> Na]
    <2>1. InsertAfter(m, p, x) = [prev |-> [[P EXCEPT ![N[p]] = x] EXCEPT ![x] = p],
                                  next |-> [[N EXCEPT ![x] = N[p]] EXCEPT ![p] = x]]
      BY ONLY InsertAfterOf
    <2>2. l.prev[h] = p BY DEF p, P
    <2> QED BY ONLY <1>1, <1>2, <2>1, <2>2
  <1>9. P4 = Pa
    <2>1. P4 = [y \in Nodes |-> P4[y]] /\ Pa = [y \in Nodes |-> Pa[y]] BY ONLY <1>1
    <2>2. \A y \in Nodes : P4[y] = Pa[y] BY ONLY <1>1, x # h
    <2> HIDE DEF P4, Pa
    <2> QED BY ONLY <2>1, <2>2
  <1>10. N3 = Na
    <2>1. N3 = [y \in Nodes |-> N3[y]] /\ Na = [y \in Nodes |-> Na[y]] BY ONLY <1>1
    <2>2. \A y \in Nodes : N3[y] = Na[y] BY ONLY <1>1, <1>2
    <2> HIDE DEF N3, Na
    <2> QED BY ONLY <2>1, <2>2
  <1> QED BY ONLY <1>6, <1>7, <1>8, <1>9, <1>10

LEMMA UnlinkIs ==
    ASSUME NEW l, Typed(l), NEW x \in Nodes, l.next[x] \in Nodes, l.prev[x] \in Nodes
    PROVE  /\ Typed(Unlink(l, x))
           /\ \A y \in Nodes \ {x} :
                 /\ Unlink(l, x).next[y] = IF y = l.prev[x] THEN l.next[x] ELSE l.next[y]
                 /\ Unlink(l, x).prev[y] = IF y = l.next[x] THEN l.prev[x] ELSE l.prev[y]
  <1> DEFINE P == l.prev
             N == l.next
             P2 == [P EXCEPT ![N[x]] = P[x]]
             N2 == [N EXCEPT ![P[x]] = N[x]]
             P3 == IF debug THEN [P2 EXCEPT ![x] = NULL] ELSE P2
             N3 == IF debug THEN [N2 EXCEPT ![x] = NULL] ELSE N2
  <1>1. l = [prev |-> P, next |-> N] /\ P = [y \in Nodes |-> P[y]] /\ N = [y \in Nodes |-> N[y]]
    BY DEF Typed
  <1>2. Unlink(l, x) = [prev |-> P3, next |-> N3]
    <2> HIDE DEF P, N
    <2> QED BY ONLY <1>1, UnlinkOf
  <1> HIDE DEF P, N
  <1>3. P3 = [y \in Nodes |-> P3[y]] /\ N3 = [y \in Nodes |-> N3[y]] BY <1>1
  <1>4. N[x] \in Nodes /\ P[x] \in Nodes BY DEF N, P
  <1>5. \A y \in Nodes \ {x} :
           /\ N3[y] = IF y = P[x] THEN N[x] ELSE N[y]
           /\ P3[y] = IF y = N[x] THEN P[x] ELSE P[y]
    BY <1>1, <1>4
  <1> HIDE DEF P2, N2, P3, N3
  <1> QED BY <1>2, <1>3, <1>5 DEF Typed, P, N

\* Behind the i-1st of a ring, a new element is the i-th.
LEMMA InsertLinks ==
    ASSUME NEW l, Typed(l), NEW h \in Heads, NEW q \in Rows, Linked(l, h, q),
           NEW x \in Elements, \A j \in 1..Len(q) : q[j] # x, NEW i \in 1..(Len(q) + 1)
    PROVE  /\ Typed(InsertAfter(l, At(h, q, i - 1), x))
           /\ Linked(InsertAfter(l, At(h, q, i - 1), x), h, InsertAt(q, i, x))
           /\ \A y \in Nodes : ~InRing(h, q, y) /\ y # x =>
                                  Same(l, InsertAfter(l, At(h, q, i - 1), x), y)
  <1> DEFINE p == At(h, q, i - 1)
             m == InsertAfter(l, p, x)
             r == InsertAt(q, i, x)
             A(j) == At(h, q, j)
  <1>0. Len(q) \in Nat /\ i \in Int /\ 1 <= i /\ i <= Len(q) + 1 BY RowIs
  <1>1. r \in Rows /\ Len(r) = Len(q) + 1
        /\ \A j \in 1..(Len(q) + 1) : r[j] = IF j < i THEN q[j] ELSE IF j = i THEN x ELSE q[j - 1]
    BY RowInsert
  <1>2. /\ A(0) = h /\ A(Len(q) + 1) = h
        /\ \A j \in 1..Len(q) : A(j) = q[j]
        /\ \A j \in 0..(Len(q) + 1) : A(j) \in Nodes /\ InRing(h, q, A(j)) /\ A(j) # x
        /\ \A j, k \in 0..Len(q) : A(j) = A(k) => j = k
        /\ \A j, k \in 1..(Len(q) + 1) : A(j) = A(k) => j = k
    <2>1. \A j \in 0..(Len(q) + 1) : InRing(h, q, A(j)) BY AtInRing
    <2>2. ~InRing(h, q, x) BY QueueAssumption DEF InRing
    <2> QED BY <2>1, <2>2, AtIs
  <1>3. \A j \in 0..(Len(q) + 2) : At(h, r, j) = IF j < i THEN A(j) ELSE IF j = i THEN x ELSE A(j - 1)
    <2> HIDE DEF r, A
    <2> TAKE j \in 0..(Len(q) + 2)
    <2>1. At(h, r, 0) = h /\ At(h, r, Len(q) + 2) = h
          /\ \A k \in 1..(Len(q) + 1) : At(h, r, k) = r[k]
      BY <1>0, <1>1, AtIs
    <2>2. CASE j = 0 BY <2>1, <2>2, <1>0, <1>2
    <2>3. CASE j = Len(q) + 2 BY <2>1, <2>3, <1>0, <1>2
    <2>4. CASE j \in 1..(Len(q) + 1) BY <2>1, <2>4, <1>0, <1>1, <1>2
    <2> QED BY <2>2, <2>3, <2>4, <1>0
  <1>4. p = A(i - 1) /\ p \in Nodes /\ x \in Nodes BY <1>0, <1>2 DEF Nodes
  <1>5. \A j \in 0..Len(q) : l.next[A(j)] = A(j + 1) /\ l.prev[A(j + 1)] = A(j)
    BY DEF Linked
  <1>6. l.next[p] = A(i) /\ A(i) \in Nodes
    <2> HIDE DEF p, A
    <2> QED BY <1>0, <1>2, <1>4, <1>5
  <1>7. /\ Typed(m)
        /\ \A y \in Nodes :
              /\ m.next[y] = IF y = p THEN x ELSE IF y = x THEN A(i) ELSE l.next[y]
              /\ m.prev[y] = IF y = x THEN p ELSE IF y = A(i) THEN x ELSE l.prev[y]
    <2> HIDE DEF p, A
    <2> QED BY <1>4, <1>6, InsertAfterIs
  <1> HIDE DEF p, m, r, A
  <1>8. ASSUME NEW j \in 0..(Len(q) + 1)
        PROVE  m.next[At(h, r, j)] = At(h, r, j + 1) /\ m.prev[At(h, r, j + 1)] = At(h, r, j)
    <2>1. CASE j < i - 1
      <3>1. At(h, r, j) = A(j) /\ At(h, r, j + 1) = A(j + 1) BY <1>0, <1>3, <2>1
      <3>2. A(j) # p /\ A(j) # x /\ A(j + 1) # x /\ A(j + 1) # A(i)
        BY <1>0, <1>2, <1>4, <2>1
      <3> QED BY <1>0, <1>2, <1>5, <1>7, <2>1, <3>1, <3>2
    <2>2. CASE j = i - 1
      <3>1. At(h, r, j) = p /\ At(h, r, j + 1) = x BY <1>0, <1>3, <1>4, <2>2
      <3> QED BY <1>4, <1>7, <3>1
    <2>3. CASE j = i
      <3>1. At(h, r, j) = x /\ At(h, r, j + 1) = A(i) BY <1>0, <1>3, <2>3
      <3>2. x # p /\ x # A(i) BY <1>0, <1>2, <1>4
      <3> QED BY <1>4, <1>6, <1>7, <3>1, <3>2
    <2>4. CASE j > i
      <3>1. At(h, r, j) = A(j - 1) /\ At(h, r, j + 1) = A(j) BY <1>0, <1>3, <2>4
      <3>2. A(j - 1) # p /\ A(j - 1) # x /\ A(j) # x /\ A(j) # A(i)
        BY <1>0, <1>2, <1>4, <2>4
      <3>3. l.next[A(j - 1)] = A(j) /\ l.prev[A(j)] = A(j - 1) BY <1>0, <1>5, <2>4
      <3> QED BY <1>0, <1>2, <1>7, <2>4, <3>1, <3>2, <3>3
    <2> QED BY <1>0, <2>1, <2>2, <2>3, <2>4
  <1>9. Linked(m, h, r) BY <1>1, <1>8 DEF Linked
  <1>10. ASSUME NEW y \in Nodes, ~InRing(h, q, y), y # x PROVE Same(l, m, y)
    <2>1. y # p /\ y # A(i) BY <1>0, <1>2, <1>4, <1>10
    <2> QED BY <1>7, <1>10, <2>1 DEF Same
  <1> QED BY <1>7, <1>9, <1>10 DEF m, p, r

LEMMA RingsInsert ==
    ASSUME NEW l, NEW qs, Rings(l, qs), NEW h \in Heads, NEW x \in Elements,
           \A g \in Heads : \A j \in 1..Len(qs[g]) : qs[g][j] # x,
           NEW i \in 1..(Len(qs[h]) + 1)
    PROVE  Rings(InsertAfter(l, At(h, qs[h], i - 1), x),
                 [qs EXCEPT ![h] = InsertAt(qs[h], i, x)])
  <1> DEFINE q == qs[h]
             m == InsertAfter(l, At(h, q, i - 1), x)
             r == InsertAt(q, i, x)
  <1>1. q \in Rows /\ Typed(l) /\ Linked(l, h, q) BY DEF Rings
  <1>2. /\ Typed(m) /\ Linked(m, h, r)
        /\ \A y \in Nodes : ~InRing(h, q, y) /\ y # x => Same(l, m, y)
    <2> HIDE DEF q
    <2> QED BY <1>1, InsertLinks DEF q
  <1>3. r \in Rows /\ Len(r) = Len(q) + 1
        /\ \A j \in 1..(Len(q) + 1) : r[j] = IF j < i THEN q[j] ELSE IF j = i THEN x ELSE q[j - 1]
    <2> HIDE DEF q
    <2> QED BY <1>1, RowInsert DEF q
  <1> HIDE DEF m, r
  <1>4. ASSUME NEW g \in Heads \ {h} PROVE Disjoint(qs[g], r)
    <2>1. Disjoint(qs[g], q) BY DEF Rings
    <2>2. \A j \in 1..Len(qs[g]) : qs[g][j] # x OBVIOUS
    <2>3. \A k \in 1..Len(r) : r[k] = x \/ \E n \in 1..Len(q) : r[k] = q[n]
      <3> HIDE DEF q
      <3> TAKE k \in 1..Len(r)
      <3>1. Len(q) \in Nat /\ i \in 1..(Len(q) + 1) BY <1>1, RowIs DEF q
      <3>2. CASE k < i BY <1>3, <3>1, <3>2
      <3>3. CASE k = i BY <1>3, <3>1, <3>3
      <3>4. CASE k > i
        <4>1. k - 1 \in 1..Len(q) /\ r[k] = q[k - 1] BY <1>3, <3>1, <3>4
        <4> QED BY <4>1
      <3> QED BY <3>1, <3>2, <3>3, <3>4
    <2> HIDE DEF q
    <2> QED BY <2>1, <2>2, <2>3 DEF Disjoint
  <1>5. InRing(h, r, x)
    <2> HIDE DEF q
    <2>1. Len(q) \in Nat /\ i \in 1..(Len(q) + 1) BY <1>1, RowIs DEF q
    <2> QED BY <1>3, <2>1 DEF InRing
  <1>6. \A y \in Nodes : ~InRing(h, q, y) /\ ~InRing(h, r, y) => Same(l, m, y)
    BY <1>2, <1>5
  <1>7. Rings(m, [qs EXCEPT ![h] = r]) BY <1>2, <1>3, <1>4, <1>6, RingsChange
  <1> QED BY <1>7 DEF m, r

\* The i-th of a ring is taken out.
LEMMA UnlinkLinks ==
    ASSUME NEW l, Typed(l), NEW h \in Heads, NEW q \in Rows, Linked(l, h, q),
           NEW i \in 1..Len(q)
    PROVE  /\ Typed(Unlink(l, q[i]))
           /\ Linked(Unlink(l, q[i]), h, RemoveAt(q, i))
           /\ \A y \in Nodes : ~InRing(h, q, y) => Same(l, Unlink(l, q[i]), y)
  <1> DEFINE x == q[i]
             m == Unlink(l, x)
             r == RemoveAt(q, i)
             A(j) == At(h, q, j)
  <1>0. Len(q) \in Nat /\ i \in Int /\ 1 <= i /\ i <= Len(q) BY RowIs
  <1>1. r \in Rows /\ Len(r) = Len(q) - 1
        /\ \A j \in 1..(Len(q) - 1) : r[j] = IF j < i THEN q[j] ELSE q[j + 1]
    BY RowRemove
  <1>2. /\ A(0) = h /\ A(Len(q) + 1) = h
        /\ \A j \in 1..Len(q) : A(j) = q[j]
        /\ \A j \in 0..(Len(q) + 1) : A(j) \in Nodes /\ InRing(h, q, A(j))
        /\ \A j, k \in 0..Len(q) : A(j) = A(k) => j = k
        /\ \A j, k \in 1..(Len(q) + 1) : A(j) = A(k) => j = k
    <2>1. \A j \in 0..(Len(q) + 1) : InRing(h, q, A(j)) BY AtInRing
    <2> QED BY <2>1, AtIs
  <1>3. \A j \in 0..Len(q) : At(h, r, j) = IF j < i THEN A(j) ELSE A(j + 1)
    <2> HIDE DEF r, A
    <2> TAKE j \in 0..Len(q)
    <2>1. At(h, r, 0) = h /\ At(h, r, Len(q)) = h
          /\ \A k \in 1..(Len(q) - 1) : At(h, r, k) = r[k]
      BY <1>0, <1>1, AtIs
    <2>2. CASE j = 0 BY <2>1, <2>2, <1>0, <1>2
    <2>3. CASE j = Len(q) BY <2>1, <2>3, <1>0, <1>2
    <2>4. CASE j \in 1..(Len(q) - 1) BY <2>1, <2>4, <1>0, <1>1, <1>2
    <2> QED BY <2>2, <2>3, <2>4, <1>0
  <1>4. x = A(i) /\ x \in Nodes BY <1>0, <1>2
  <1>5. \A j \in 0..Len(q) : l.next[A(j)] = A(j + 1) /\ l.prev[A(j + 1)] = A(j)
    BY DEF Linked
  <1>6. l.next[x] = A(i + 1) /\ l.prev[x] = A(i - 1) /\ A(i + 1) \in Nodes /\ A(i - 1) \in Nodes
    <2> HIDE DEF x, A
    <2>1. l.prev[A((i - 1) + 1)] = A(i - 1) BY <1>0, <1>5
    <2> QED BY <1>0, <1>2, <1>4, <1>5, <2>1
  <1>7. /\ Typed(m)
        /\ \A y \in Nodes \ {x} :
              /\ m.next[y] = IF y = A(i - 1) THEN A(i + 1) ELSE l.next[y]
              /\ m.prev[y] = IF y = A(i + 1) THEN A(i - 1) ELSE l.prev[y]
    <2> HIDE DEF x, A
    <2> QED BY <1>4, <1>6, UnlinkIs
  <1> HIDE DEF x, m, r, A
  <1>8. ASSUME NEW j \in 0..(Len(q) - 1)
        PROVE  m.next[At(h, r, j)] = At(h, r, j + 1) /\ m.prev[At(h, r, j + 1)] = At(h, r, j)
    <2>1. CASE j < i - 1
      <3>1. At(h, r, j) = A(j) /\ At(h, r, j + 1) = A(j + 1) BY <1>0, <1>3, <2>1
      <3>2. A(j) # A(i - 1) /\ A(j) # x /\ A(j + 1) # x /\ A(j + 1) # A(i + 1)
        BY <1>0, <1>2, <1>4, <2>1
      <3>3. A(j) \in Nodes \ {x} /\ A(j + 1) \in Nodes \ {x} BY <1>0, <1>2, <2>1, <3>2
      <3>4. l.next[A(j)] = A(j + 1) /\ l.prev[A(j + 1)] = A(j) BY <1>0, <1>5, <2>1
      <3> QED BY <1>7, <3>1, <3>2, <3>3, <3>4
    <2>2. CASE j = i - 1
      <3>1. At(h, r, j) = A(i - 1) /\ At(h, r, j + 1) = A(i + 1) BY <1>0, <1>3, <2>2
      <3>2. A(i - 1) # x /\ A(i + 1) # x BY <1>0, <1>2, <1>4
      <3> QED BY <1>6, <1>7, <3>1, <3>2
    <2>3. CASE j >= i
      <3>1. At(h, r, j) = A(j + 1) /\ At(h, r, j + 1) = A(j + 2) BY <1>0, <1>3, <2>3
      <3>2. A(j + 1) # A(i - 1) /\ A(j + 1) # x /\ A(j + 2) # x /\ A(j + 2) # A(i + 1)
        BY <1>0, <1>2, <1>4, <2>3
      <3>3. l.next[A(j + 1)] = A(j + 2) /\ l.prev[A(j + 2)] = A(j + 1)
        <4>1. j + 1 \in 0..Len(q) /\ (j + 1) + 1 = j + 2 BY <1>0, <2>3
        <4> QED BY <1>5, <4>1
      <3> QED BY <1>0, <1>2, <1>7, <2>3, <3>1, <3>2, <3>3
    <2> QED BY <1>0, <2>1, <2>2, <2>3
  <1>9. Linked(m, h, r) BY <1>1, <1>8 DEF Linked
  <1>10. ASSUME NEW y \in Nodes, ~InRing(h, q, y) PROVE Same(l, m, y)
    <2>1. y # x /\ y # A(i - 1) /\ y # A(i + 1) BY <1>0, <1>2, <1>4, <1>10
    <2> QED BY <1>7, <2>1 DEF Same
  <1> QED BY <1>7, <1>9, <1>10 DEF m, x, r

LEMMA RingsRemove ==
    ASSUME NEW l, NEW qs, Rings(l, qs), NEW h \in Heads, NEW i \in 1..Len(qs[h])
    PROVE  Rings(Unlink(l, qs[h][i]), [qs EXCEPT ![h] = RemoveAt(qs[h], i)])
  <1> DEFINE q == qs[h]
             m == Unlink(l, q[i])
             r == RemoveAt(q, i)
  <1>1. q \in Rows /\ Typed(l) /\ Linked(l, h, q) BY DEF Rings
  <1>2. /\ Typed(m) /\ Linked(m, h, r)
        /\ \A y \in Nodes : ~InRing(h, q, y) => Same(l, m, y)
    <2> HIDE DEF q
    <2> QED BY <1>1, UnlinkLinks DEF q
  <1>3. r \in Rows /\ Len(r) = Len(q) - 1
        /\ \A j \in 1..(Len(q) - 1) : r[j] = IF j < i THEN q[j] ELSE q[j + 1]
    <2> HIDE DEF q
    <2> QED BY <1>1, RowRemove DEF q
  <1> HIDE DEF m, r
  <1>4. ASSUME NEW g \in Heads \ {h} PROVE Disjoint(qs[g], r)
    <2>1. Disjoint(qs[g], q) BY DEF Rings
    <2>2. \A k \in 1..Len(r) : \E n \in 1..Len(q) : r[k] = q[n]
      <3> HIDE DEF q
      <3> TAKE k \in 1..Len(r)
      <3>1. Len(q) \in Nat BY <1>1, RowIs
      <3>2. k \in 1..Len(q) /\ k + 1 \in 1..Len(q) /\ k \in 1..(Len(q) - 1) BY <1>3, <3>1
      <3> QED BY <1>3, <3>2
    <2> HIDE DEF q
    <2> QED BY <2>1, <2>2 DEF Disjoint
  <1>5. \A y \in Nodes : ~InRing(h, q, y) /\ ~InRing(h, r, y) => Same(l, m, y) BY <1>2
  <1>6. Rings(m, [qs EXCEPT ![h] = r]) BY <1>2, <1>3, <1>4, <1>5, RingsChange
  <1> QED BY <1>6 DEF m, r

-----------------------------------------------------------------------------
(* Splitting, and adding to an empty queue.                                   *)

\* The rings of two heads change; between them they keep their elements.
LEMMA RingsChangeTwo ==
    ASSUME NEW l, NEW qs, Rings(l, qs), NEW m, Typed(m),
           NEW h \in Heads, NEW n \in Heads, h # n, NEW r \in Rows, NEW s \in Rows,
           Linked(m, h, r), Linked(m, n, s), Disjoint(r, s),
           \A g \in Heads \ {h, n} : Disjoint(qs[g], r) /\ Disjoint(qs[g], s),
           \A y \in Nodes : ~InRing(h, qs[h], y) /\ ~InRing(n, qs[n], y) => Same(l, m, y)
    PROVE  Rings(m, [qs EXCEPT ![h] = r, ![n] = s])
  <1> DEFINE rs == [qs EXCEPT ![h] = r, ![n] = s]
  <1>1. qs \in [Heads -> Rows] /\ \A g \in Heads : qs[g] \in Rows BY DEF Rings
  <1>2. rs \in [Heads -> Rows] /\ rs[h] = r /\ rs[n] = s
        /\ \A g \in Heads \ {h, n} : rs[g] = qs[g]
    BY <1>1
  <1> HIDE DEF rs
  <1>3. ASSUME NEW g \in Heads \ {h, n} PROVE Linked(m, g, qs[g])
    <2>1. ASSUME NEW y \in Nodes, InRing(g, qs[g], y) PROVE Same(l, m, y)
      <3>1. Disjoint(qs[g], qs[h]) /\ Disjoint(qs[g], qs[n]) BY DEF Rings
      <3>2. qs[g] \in Rows /\ qs[h] \in Rows /\ qs[n] \in Rows BY <1>1
      <3>3. ~InRing(h, qs[h], y) /\ ~InRing(n, qs[n], y)
        <4>1. CASE y = g
          <5>1. \A q \in Rows : \A i \in 1..Len(q) : q[i] # g BY AtIs
          <5> QED BY <4>1, <5>1, <3>2 DEF InRing
        <4>2. CASE \E i \in 1..Len(qs[g]) : y = qs[g][i]
          <5>1. y # h /\ y # n BY <4>2, <3>2, AtIs
          <5> QED BY <4>2, <5>1, <3>1 DEF InRing, Disjoint
        <4> QED BY <4>1, <4>2, <2>1 DEF InRing
      <3> QED BY <3>3
    <2>2. Linked(l, g, qs[g]) BY DEF Rings
    <2>3. qs[g] \in Rows BY <1>1
    <2> QED BY <2>1, <2>2, <2>3, LinkedStays
  <1>4. \A g \in Heads : Linked(m, g, rs[g]) BY <1>2, <1>3
  <1>5. \A f, g \in Heads : f # g => Disjoint(rs[f], rs[g])
    <2>1. \A p, q : Disjoint(p, q) => Disjoint(q, p) BY DEF Disjoint
    <2>2. ASSUME NEW g \in Heads \ {h, n} PROVE Disjoint(rs[g], r) /\ Disjoint(rs[g], s)
      BY <1>2
    <2>3. ASSUME NEW f \in Heads \ {h, n}, NEW g \in Heads \ {h, n}, f # g
          PROVE  Disjoint(rs[f], rs[g])
      BY <1>2, <2>3 DEF Rings
    <2> TAKE f, g \in Heads
    <2>4. CASE f = h BY <1>2, <2>1, <2>2, <2>4
    <2>5. CASE f = n BY <1>2, <2>1, <2>2, <2>5
    <2>6. CASE f \notin {h, n} /\ g \in {h, n} BY <1>2, <2>2, <2>6
    <2>7. CASE f \notin {h, n} /\ g \notin {h, n} BY <2>3, <2>7
    <2> QED BY <2>4, <2>5, <2>6, <2>7
  <1> QED BY <1>2, <1>4, <1>5 DEF Rings, rs

\* A part of a row.
LEMMA RowPart ==
    ASSUME NEW q \in Rows, NEW i \in 1..(Len(q) + 1), NEW k \in 0..Len(q), i <= k + 1
    PROVE  /\ SubSeq(q, i, k) \in Rows /\ Len(SubSeq(q, i, k)) = k - i + 1
           /\ \A j \in 1..(k - i + 1) : SubSeq(q, i, k)[j] = q[i + j - 1]
  <1> DEFINE r == SubSeq(q, i, k)
  <1>1. q \in Seq(Elements) /\ Len(q) \in Nat BY RowIs
  <1>2. r \in Seq(Elements) /\ Len(r) = k - i + 1
        /\ \A j \in 1..(k - i + 1) : r[j] = q[i + j - 1]
    BY <1>1
  <1>3. \A j, n \in 1..Len(q) : q[j] = q[n] => j = n BY RowIs
  <1> HIDE DEF r
  <1>4. \A j, n \in 1..(k - i + 1) : r[j] = r[n] => j = n
    <2> TAKE j, n \in 1..(k - i + 1)
    <2>1. i + j - 1 \in 1..Len(q) /\ i + n - 1 \in 1..Len(q) BY <1>1
    <2>2. q[i + j - 1] = q[i + n - 1] => i + j - 1 = i + n - 1 BY <1>3, <2>1
    <2>3. r[j] = q[i + j - 1] /\ r[n] = q[i + n - 1] BY <1>2
    <2> QED BY <2>2, <2>3
  <1>5. r \in Rows BY <1>2, <1>4, RowsAre DEF IsInjective
  <1> QED BY <1>2, <1>5 DEF r

\* The links as two functions.
LEMMA SplitAtOf ==
    ASSUME NEW P, NEW N, NEW h, NEW x, NEW n, h \in DOMAIN P
    PROVE  SplitAt([prev |-> P, next |-> N], h, x, n) =
              [prev |-> [[[P EXCEPT ![n] = P[h]] EXCEPT ![h] = P[x]] EXCEPT ![x] = n],
               next |-> [[[N EXCEPT ![P[h]] = n] EXCEPT ![n] = x] EXCEPT ![P[x]] = h]]
  <1> DEFINE l == [prev |-> P, next |-> N]
             l1 == [l EXCEPT !.prev[n] = P[h]]
             l2 == [l1 EXCEPT !.next[P[h]] = n]
             l3 == [l2 EXCEPT !.next[n] = x]
             l4 == [l3 EXCEPT !.prev[h] = P[x]]
             l5 == [l4 EXCEPT !.next[P[x]] = h]
             l6 == [l5 EXCEPT !.prev[x] = n]
             P1 == [P EXCEPT ![n] = P[h]]
             N2 == [N EXCEPT ![P[h]] = n]
             N3 == [N2 EXCEPT ![n] = x]
             P4 == [P1 EXCEPT ![h] = P[x]]
             N5 == [N3 EXCEPT ![P[x]] = h]
             P6 == [P4 EXCEPT ![x] = n]
  <1>1. l1 = [prev |-> P1, next |-> N] OBVIOUS
  <1>2. l2 = [prev |-> P1, next |-> N2]
    <2> HIDE DEF l1, P1
    <2> QED BY <1>1
  <1>3. l3 = [prev |-> P1, next |-> N3]
    <2> HIDE DEF l2, P1, N2
    <2> QED BY <1>2
  <1>4. l4 = [prev |-> P4, next |-> N3]
    <2> HIDE DEF l3, P1, N3
    <2> QED BY <1>3
  <1>5. l5 = [prev |-> P4, next |-> N5]
    <2> HIDE DEF l4, P4, N3
    <2> QED BY <1>4
  <1>6. l6 = [prev |-> P6, next |-> N5]
    <2> HIDE DEF l5, P4, N5
    <2> QED BY <1>5
  <1>7. l4.prev[h] = P[x]
    <2>1. l4.prev = P4 BY <1>4
    <2>2. P4[h] = P[x] OBVIOUS
    <2> QED BY <2>1, <2>2
  <1>8. SplitAt(l, h, x, n) = l6
    <2>1. SplitAt(l, h, x, n) = [[l4 EXCEPT !.next[l4.prev[h]] = h] EXCEPT !.prev[x] = n]
      BY DEF SplitAt
    <2> HIDE DEF l4
    <2> QED BY <2>1, <1>7
  <1> QED BY <1>6, <1>8

LEMMA SplitAtIs ==
    ASSUME NEW l, Typed(l), NEW h \in Nodes, NEW x \in Nodes, NEW n \in Nodes, h # n, x # h, x # n,
           l.prev[h] \in Nodes, l.prev[x] \in Nodes,
           l.prev[x] # n, l.prev[h] # n, l.prev[x] # l.prev[h]
    PROVE  /\ Typed(SplitAt(l, h, x, n))
           /\ \A y \in Nodes :
                 /\ SplitAt(l, h, x, n).next[y] =
                       IF y = l.prev[x] THEN h ELSE IF y = n THEN x
                       ELSE IF y = l.prev[h] THEN n ELSE l.next[y]
                 /\ SplitAt(l, h, x, n).prev[y] =
                       IF y = x THEN n ELSE IF y = h THEN l.prev[x]
                       ELSE IF y = n THEN l.prev[h] ELSE l.prev[y]
  <1> DEFINE P == l.prev
             N == l.next
             P2 == [[[P EXCEPT ![n] = P[h]] EXCEPT ![h] = P[x]] EXCEPT ![x] = n]
             N2 == [[[N EXCEPT ![P[h]] = n] EXCEPT ![n] = x] EXCEPT ![P[x]] = h]
  <1>1. l = [prev |-> P, next |-> N] /\ P = [y \in Nodes |-> P[y]] /\ N = [y \in Nodes |-> N[y]]
    BY DEF Typed
  <1>2. SplitAt(l, h, x, n) = [prev |-> P2, next |-> N2]
    <2> HIDE DEF P, N
    <2>1. h \in DOMAIN P BY ONLY <1>1, h \in Nodes
    <2> QED BY ONLY <1>1, <2>1, SplitAtOf
  <1> HIDE DEF P, N
  <1>3. P2 = [y \in Nodes |-> P2[y]] /\ N2 = [y \in Nodes |-> N2[y]] BY <1>1
  <1>4. P[h] \in Nodes /\ P[x] \in Nodes /\ P[x] # n /\ P[h] # n /\ P[x] # P[h] BY DEF P
  <1>5. \A y \in Nodes :
           /\ N2[y] = IF y = P[x] THEN h ELSE IF y = n THEN x ELSE IF y = P[h] THEN n ELSE N[y]
           /\ P2[y] = IF y = x THEN n ELSE IF y = h THEN P[x] ELSE IF y = n THEN P[h] ELSE P[y]
    BY <1>1, <1>4
  <1> HIDE DEF P2, N2
  <1> QED BY <1>2, <1>3, <1>5 DEF Typed, P, N

\* The i-th and those behind it go to another head, which was empty.
LEMMA SplitLinks ==
    ASSUME NEW l, Typed(l), NEW h \in Heads, NEW n \in Heads, h # n,
           NEW q \in Rows, Linked(l, h, q), NEW i \in 1..Len(q)
    PROVE  /\ Typed(SplitAt(l, h, q[i], n))
           /\ Linked(SplitAt(l, h, q[i], n), h, SubSeq(q, 1, i - 1))
           /\ Linked(SplitAt(l, h, q[i], n), n, SubSeq(q, i, Len(q)))
           /\ \A y \in Nodes : ~InRing(h, q, y) /\ y # n => Same(l, SplitAt(l, h, q[i], n), y)
  <1> DEFINE x == q[i]
             m == SplitAt(l, h, x, n)
             r == SubSeq(q, 1, i - 1)
             s == SubSeq(q, i, Len(q))
             A(j) == At(h, q, j)
             K == Len(q) - i + 1
  <1>0. Len(q) \in Nat /\ i \in Int /\ 1 <= i /\ i <= Len(q) BY RowIs
  <1>1. r \in Rows /\ Len(r) = i - 1 /\ \A j \in 1..(i - 1) : r[j] = q[j]
    <2>1. 1 \in 1..(Len(q) + 1) /\ i - 1 \in 0..Len(q) /\ 1 <= (i - 1) + 1 BY <1>0
    <2>2. r \in Rows /\ Len(r) = (i - 1) - 1 + 1 /\ \A j \in 1..((i - 1) - 1 + 1) : r[j] = q[1 + j - 1]
      BY <2>1, RowPart
    <2> QED BY <1>0, <2>2
  <1>2. s \in Rows /\ Len(s) = K /\ \A j \in 1..K : s[j] = q[i + j - 1]
    <2>1. i \in 1..(Len(q) + 1) /\ Len(q) \in 0..Len(q) /\ i <= Len(q) + 1 BY <1>0
    <2> QED BY <2>1, RowPart
  <1>3. /\ A(0) = h /\ A(Len(q) + 1) = h
        /\ \A j \in 1..Len(q) : A(j) = q[j]
        /\ \A j \in 0..(Len(q) + 1) : A(j) \in Nodes /\ InRing(h, q, A(j)) /\ A(j) # n
        /\ \A j, k \in 0..Len(q) : A(j) = A(k) => j = k
        /\ \A j, k \in 1..(Len(q) + 1) : A(j) = A(k) => j = k
    <2>1. \A j \in 0..(Len(q) + 1) : InRing(h, q, A(j)) BY AtInRing
    <2>2. ~InRing(h, q, n)
      <3>1. \A j \in 1..Len(q) : q[j] # n BY AtIs
      <3> QED BY <3>1 DEF InRing
    <2> QED BY <2>1, <2>2, AtIs
  <1> HIDE DEF r, s, A
  <1>4. \A j \in 0..i : At(h, r, j) = IF j = i THEN h ELSE A(j)
    <2>1. At(h, r, 0) = h /\ At(h, r, (i - 1) + 1) = h /\ \A k \in 1..(i - 1) : At(h, r, k) = r[k]
      BY <1>1, AtIs
    <2> TAKE j \in 0..i
    <2>2. CASE j = 0 BY <2>1, <2>2, <1>0, <1>3
    <2>3. CASE j = i BY <2>1, <2>3, <1>0
    <2>4. CASE j \in 1..(i - 1) BY <2>1, <2>4, <1>0, <1>1, <1>3
    <2> QED BY <2>2, <2>3, <2>4, <1>0
  <1>5. \A j \in 0..(K + 1) : At(n, s, j) = IF j \in 1..K THEN A(i + j - 1) ELSE n
    <2>1. At(n, s, 0) = n /\ At(n, s, K + 1) = n /\ \A k \in 1..K : At(n, s, k) = s[k]
      BY <1>2, AtIs
    <2> TAKE j \in 0..(K + 1)
    <2>2. CASE j = 0 BY <2>1, <2>2
    <2>3. CASE j = K + 1 BY <2>1, <2>3, <1>0
    <2>4. CASE j \in 1..K
      <3>1. i + j - 1 \in 1..Len(q) BY <1>0, <2>4
      <3> QED BY <2>1, <2>4, <3>1, <1>2, <1>3
    <2> QED BY <2>2, <2>3, <2>4, <1>0
  <1>6. x = A(i) /\ x \in Nodes /\ h \in Nodes /\ n \in Nodes BY <1>0, <1>3 DEF Nodes
  <1>7. \A j \in 0..Len(q) : l.next[A(j)] = A(j + 1) /\ l.prev[A(j + 1)] = A(j)
    BY DEF Linked, A
  <1>8. l.prev[x] = A(i - 1) /\ l.prev[h] = A(Len(q))
    <2> HIDE DEF x
    <2>1. l.prev[A((i - 1) + 1)] = A(i - 1) BY <1>0, <1>7
    <2>2. l.prev[A(Len(q) + 1)] = A(Len(q)) BY <1>0, <1>7
    <2> QED BY <1>0, <1>3, <1>6, <2>1, <2>2
  <1> HIDE DEF x
  <1>9. /\ x # h /\ x # n /\ A(i - 1) \in Nodes /\ A(Len(q)) \in Nodes
        /\ A(i - 1) # n /\ A(Len(q)) # n /\ A(i - 1) # A(Len(q))
    <2>1. x # h BY <1>0, <1>3, <1>6
    <2> QED BY <2>1, <1>0, <1>3, <1>6
  <1>10. /\ Typed(m)
         /\ \A y \in Nodes :
               /\ m.next[y] = IF y = A(i - 1) THEN h ELSE IF y = n THEN x
                              ELSE IF y = A(Len(q)) THEN n ELSE l.next[y]
               /\ m.prev[y] = IF y = x THEN n ELSE IF y = h THEN A(i - 1)
                              ELSE IF y = n THEN A(Len(q)) ELSE l.prev[y]
    BY <1>6, <1>8, <1>9, SplitAtIs
  <1> HIDE DEF m
  <1>11. Linked(m, h, r)
    <2> SUFFICES ASSUME NEW j \in 0..(i - 1)
                 PROVE  m.next[At(h, r, j)] = At(h, r, j + 1) /\ m.prev[At(h, r, j + 1)] = At(h, r, j)
      BY <1>1 DEF Linked
    <2>1. CASE j = i - 1
      <3>1. At(h, r, j) = A(i - 1) /\ At(h, r, j + 1) = h BY <1>0, <1>4, <2>1
      <3> QED BY <3>1, <1>6, <1>9, <1>10
    <2>2. CASE j < i - 1
      <3>1. At(h, r, j) = A(j) /\ At(h, r, j + 1) = A(j + 1) BY <1>0, <1>4, <2>2
      <3>2. A(j) # A(i - 1) /\ A(j) # A(Len(q)) /\ A(j) # n BY <1>0, <1>3, <2>2
      <3>3. A(j + 1) # x /\ A(j + 1) # h /\ A(j + 1) # n BY <1>0, <1>3, <1>6, <2>2
      <3>4. l.next[A(j)] = A(j + 1) /\ l.prev[A(j + 1)] = A(j)
            /\ A(j) \in Nodes /\ A(j + 1) \in Nodes
        BY <1>0, <1>3, <1>7, <2>2
      <3> QED BY <3>1, <3>2, <3>3, <3>4, <1>10
    <2> QED BY <2>1, <2>2
  <1>12. Linked(m, n, s)
    <2> SUFFICES ASSUME NEW j \in 0..K
                 PROVE  m.next[At(n, s, j)] = At(n, s, j + 1) /\ m.prev[At(n, s, j + 1)] = At(n, s, j)
      BY <1>2 DEF Linked
    <2>1. CASE j = 0
      <3>1. At(n, s, j) = n /\ At(n, s, j + 1) = A(i) BY <1>0, <1>5, <2>1
      <3> QED BY <3>1, <1>6, <1>9, <1>10
    <2>2. CASE j = K /\ j # 0
      <3>1. At(n, s, j) = A(Len(q)) /\ At(n, s, j + 1) = n BY <1>0, <1>5, <2>2
      <3> QED BY <3>1, <1>6, <1>9, <1>10
    <2>3. CASE j # 0 /\ j # K
      <3> DEFINE k == i + j - 1
      <3>1. At(n, s, j) = A(k) /\ At(n, s, j + 1) = A(k + 1)
        <4>1. j \in 1..K /\ j + 1 \in 1..K /\ i + (j + 1) - 1 = k + 1 BY <1>0, <2>3
        <4>2. At(n, s, j + 1) = A(i + (j + 1) - 1) BY <1>0, <1>5, <4>1
        <4> QED BY <1>0, <1>5, <4>1, <4>2
      <3>2. k \in Int /\ i <= k /\ k < Len(q) BY <1>0, <2>3
      <3> HIDE DEF k
      <3>3. A(k) # A(i - 1) /\ A(k) # A(Len(q)) /\ A(k) # n BY <1>0, <1>3, <3>2
      <3>4. A(k + 1) # x /\ A(k + 1) # h /\ A(k + 1) # n BY <1>0, <1>3, <1>6, <3>2
      <3>5. l.next[A(k)] = A(k + 1) /\ l.prev[A(k + 1)] = A(k)
            /\ A(k) \in Nodes /\ A(k + 1) \in Nodes
        BY <1>0, <1>3, <1>7, <3>2
      <3> QED BY <3>1, <3>3, <3>4, <3>5, <1>10
    <2> QED BY <2>1, <2>2, <2>3
  <1>13. ASSUME NEW y \in Nodes, ~InRing(h, q, y), y # n PROVE Same(l, m, y)
    <2>1. y # x /\ y # h /\ y # A(i - 1) /\ y # A(Len(q)) BY <1>0, <1>3, <1>6, <1>13 DEF InRing
    <2> QED BY <1>10, <1>13, <2>1 DEF Same
  <1> QED BY <1>10, <1>11, <1>12, <1>13 DEF m, r, s, x

LEMMA RingsSplit ==
    ASSUME NEW l, NEW qs, Rings(l, qs), NEW h \in Heads, NEW n \in Heads, qs[n] = <<>>,
           NEW i \in 1..Len(qs[h])
    PROVE  h # n /\ Rings(SplitAt(l, h, qs[h][i], n),
                          [qs EXCEPT ![h] = SubSeq(qs[h], 1, i - 1),
                                     ![n] = SubSeq(qs[h], i, Len(qs[h]))])
  <1> DEFINE q == qs[h]
             m == SplitAt(l, h, q[i], n)
             r == SubSeq(q, 1, i - 1)
             s == SubSeq(q, i, Len(q))
  <1>1. q \in Rows /\ Typed(l) /\ Linked(l, h, q) BY DEF Rings
  <1>2. h # n BY Len(qs[n]) = 0
  <1> HIDE DEF q
  <1>3. /\ Typed(m) /\ Linked(m, h, r) /\ Linked(m, n, s)
        /\ \A y \in Nodes : ~InRing(h, q, y) /\ y # n => Same(l, m, y)
    BY <1>1, <1>2, SplitLinks DEF q
  <1>4. Len(q) \in Nat /\ i \in Int /\ 1 <= i /\ i <= Len(q) BY <1>1, RowIs DEF q
  <1>5. r \in Rows /\ Len(r) = i - 1 /\ \A j \in 1..(i - 1) : r[j] = q[j]
    <2>1. 1 \in 1..(Len(q) + 1) /\ i - 1 \in 0..Len(q) /\ 1 <= (i - 1) + 1 BY <1>4
    <2>2. r \in Rows /\ Len(r) = (i - 1) - 1 + 1 /\ \A j \in 1..((i - 1) - 1 + 1) : r[j] = q[1 + j - 1]
      BY <1>1, <2>1, RowPart
    <2> QED BY <1>4, <2>2
  <1>6. s \in Rows /\ Len(s) = Len(q) - i + 1 /\ \A j \in 1..(Len(q) - i + 1) : s[j] = q[i + j - 1]
    <2>1. i \in 1..(Len(q) + 1) /\ Len(q) \in 0..Len(q) /\ i <= Len(q) + 1 BY <1>4
    <2> QED BY <1>1, <2>1, RowPart
  <1> HIDE DEF m, r, s
  <1>7. \A k \in 1..Len(r) : k \in 1..Len(q) /\ r[k] = q[k] BY <1>4, <1>5
  <1>8. \A k \in 1..Len(s) : i + k - 1 \in 1..Len(q) /\ s[k] = q[i + k - 1] BY <1>4, <1>6
  <1>9. Disjoint(r, s)
    <2>1. \A j, k \in 1..Len(q) : q[j] = q[k] => j = k BY <1>1, RowIs
    <2>2. ASSUME NEW j \in 1..Len(r), NEW k \in 1..Len(s) PROVE r[j] # s[k]
      <3>1. j # i + k - 1 BY <1>4, <1>5, <1>6
      <3> QED BY <2>1, <3>1, <1>7, <1>8
    <2> QED BY <2>2 DEF Disjoint
  <1>10. ASSUME NEW g \in Heads \ {h, n} PROVE Disjoint(qs[g], r) /\ Disjoint(qs[g], s)
    <2>1. Disjoint(qs[g], q) BY DEF Rings, q
    <2> QED BY <2>1, <1>7, <1>8 DEF Disjoint
  <1>11. \A y \in Nodes : ~InRing(h, q, y) /\ ~InRing(n, qs[n], y) => Same(l, m, y)
    BY <1>3 DEF InRing
  <1>12. Rings(m, [qs EXCEPT ![h] = r, ![n] = s])
    BY <1>2, <1>3, <1>5, <1>6, <1>9, <1>10, <1>11, RingsChangeTwo DEF q
  <1> QED BY <1>2, <1>12 DEF m, r, s, q

\* The links as two functions.
LEMMA AddToOf ==
    ASSUME NEW P, NEW N, NEW h, NEW n, h # n, NEW x, NEW e, P[h] = h, N[n] = x, P[n] = e,
           h \in DOMAIN P, h \in DOMAIN N, x # h, x # n
    PROVE  QueueInit(AddTo([prev |-> P, next |-> N], h, n), n) =
              [prev |-> [[[P EXCEPT ![x] = h] EXCEPT ![h] = e] EXCEPT ![n] = n],
               next |-> [[[N EXCEPT ![h] = x] EXCEPT ![e] = h] EXCEPT ![n] = n]]
  <1> DEFINE l == [prev |-> P, next |-> N]
             l1 == [l EXCEPT !.next[P[h]] = N[n]]
             l2 == [l1 EXCEPT !.prev[l1.next[h]] = l1.prev[h]]
             l3 == [l2 EXCEPT !.prev[h] = l2.prev[n]]
             l4 == [l3 EXCEPT !.next[l3.prev[h]] = h]
             l5 == [l4 EXCEPT !.prev[n] = n]
             l6 == [l5 EXCEPT !.next[n] = n]
             N1 == [N EXCEPT ![h] = x]
             P2 == [P EXCEPT ![x] = h]
             P3 == [P2 EXCEPT ![h] = e]
             N4 == [N1 EXCEPT ![e] = h]
             P5 == [P3 EXCEPT ![n] = n]
             N6 == [N4 EXCEPT ![n] = n]
  <1>1. l1 = [prev |-> P, next |-> N1]
    <2>1. l1 = [prev |-> P, next |-> [N EXCEPT ![P[h]] = N[n]]] OBVIOUS
    <2> QED BY ONLY <2>1, P[h] = h, N[n] = x
  <1>2. l2 = [prev |-> P2, next |-> N1]
    <2>1. N1[h] = x OBVIOUS
    <2> HIDE DEF l1, N1
    <2>2. l1.next[h] = x /\ l1.prev[h] = h BY ONLY <1>1, <2>1, P[h] = h
    <2> QED BY ONLY <1>1, <2>2
  <1>3. l3 = [prev |-> P3, next |-> N1]
    <2>1. P2[n] = e
      <3>1. P2[n] = P[n] BY ONLY x # n
      <3> QED BY <3>1
    <2> HIDE DEF l2, N1, P2
    <2>2. l2.prev[n] = e BY ONLY <1>2, <2>1
    <2> QED BY ONLY <1>2, <2>2
  <1>4. l4 = [prev |-> P3, next |-> N4]
    <2>1. P3[h] = e BY ONLY h \in DOMAIN P
    <2> HIDE DEF l3, N1, P3
    <2>2. l3.prev[h] = e BY ONLY <1>3, <2>1
    <2> QED BY ONLY <1>3, <2>2
  <1>5. l5 = [prev |-> P5, next |-> N4]
    <2> HIDE DEF l4, N4, P3
    <2> QED BY ONLY <1>4
  <1>6. l6 = [prev |-> P5, next |-> N6]
    <2> HIDE DEF l5, N4, P5
    <2> QED BY ONLY <1>5
  <1>7. AddTo(l, h, n) = l4 BY DEF AddTo
  <1>8. QueueInit(AddTo(l, h, n), n) = l6
    <2> HIDE DEF l4, l
    <2> QED BY <1>7 DEF QueueInit
  <1> QED BY <1>6, <1>8

\* To an empty queue, hky_queue_add brings what a split at the first would.
LEMMA AddToIs ==
    ASSUME NEW l, Typed(l), NEW h \in Nodes, NEW n \in Nodes, h # n, l.prev[h] = h,
           l.next[n] \in Nodes, l.prev[n] \in Nodes, l.prev[l.next[n]] = n,
           l.next[n] # h, l.next[n] # n, l.prev[n] # h, l.prev[n] # n
    PROVE  QueueInit(AddTo(l, h, n), n) = SplitAt(l, n, l.next[n], h)
  <1> DEFINE P == l.prev
             N == l.next
             x == N[n]
             e == P[n]
             P1 == [[[P EXCEPT ![x] = h] EXCEPT ![h] = e] EXCEPT ![n] = n]
             N1 == [[[N EXCEPT ![h] = x] EXCEPT ![e] = h] EXCEPT ![n] = n]
             P2 == [[[P EXCEPT ![h] = P[n]] EXCEPT ![n] = P[x]] EXCEPT ![x] = h]
             N2 == [[[N EXCEPT ![P[n]] = h] EXCEPT ![h] = x] EXCEPT ![P[x]] = n]
  <1>1. l = [prev |-> P, next |-> N] /\ P = [y \in Nodes |-> P[y]] /\ N = [y \in Nodes |-> N[y]]
    BY DEF Typed
  <1>2. /\ P[h] = h /\ x \in Nodes /\ e \in Nodes /\ P[x] = n
        /\ x # h /\ x # n /\ e # h /\ e # n
    OBVIOUS
  <1> HIDE DEF P, N
  <1>3. h \in DOMAIN P /\ n \in DOMAIN P /\ h \in DOMAIN N BY ONLY <1>1, h \in Nodes, n \in Nodes
  <1>4. QueueInit(AddTo(l, h, n), n) = [prev |-> P1, next |-> N1]
    <2>1. x = N[n] /\ e = P[n] OBVIOUS
    <2> HIDE DEF x, e
    <2> QED BY ONLY h # n, <1>1, <1>2, <1>3, <2>1, AddToOf
  <1>5. SplitAt(l, n, x, h) = [prev |-> P2, next |-> N2]
    <2> HIDE DEF x
    <2> QED BY ONLY h # n, <1>1, <1>3, SplitAtOf
  <1>6. P1 = P2
    <2> HIDE DEF x
    <2>1. P1 = [y \in Nodes |-> P1[y]] /\ P2 = [y \in Nodes |-> P2[y]] BY ONLY <1>1
    <2>2. \A y \in Nodes : P1[y] = IF y = n THEN n ELSE IF y = h THEN e ELSE IF y = x THEN h ELSE P[y]
      BY ONLY <1>1, <1>2
    <2>3. \A y \in Nodes : P2[y] = IF y = x THEN h ELSE IF y = n THEN P[x] ELSE IF y = h THEN P[n] ELSE P[y]
      BY ONLY <1>1, <1>2
    <2>4. \A y \in Nodes : P1[y] = P2[y] BY ONLY h # n, <1>2, <2>2, <2>3
    <2> HIDE DEF P1, P2
    <2> QED BY ONLY <2>1, <2>4
  <1>7. N1 = N2
    <2> HIDE DEF x, e
    <2>0. e = P[n] BY DEF e
    <2>1. N1 = [y \in Nodes |-> N1[y]] /\ N2 = [y \in Nodes |-> N2[y]] BY ONLY <1>1
    <2>2. \A y \in Nodes : N1[y] = IF y = n THEN n ELSE IF y = e THEN h ELSE IF y = h THEN x ELSE N[y]
      BY ONLY <1>1, <1>2
    <2>3. \A y \in Nodes : N2[y] = IF y = P[x] THEN n ELSE IF y = h THEN x ELSE IF y = P[n] THEN h ELSE N[y]
      BY ONLY <1>1, <1>2
    <2>4. \A y \in Nodes : N1[y] = N2[y]
      <3> HIDE DEF N1, N2
      <3> QED BY ONLY h # n, <1>2, <2>0, <2>2, <2>3
    <2> HIDE DEF N1, N2
    <2> QED BY ONLY <2>1, <2>4
  <1> HIDE DEF P1, P2, N1, N2
  <1> QED BY <1>4, <1>5, <1>6, <1>7 DEF N

\* What the ends of a ring say of it.
LEMMA RingEnds ==
    ASSUME NEW l, NEW h \in Heads, NEW q \in Rows, Linked(l, h, q)
    PROVE  /\ l.next[h] = At(h, q, 1) /\ l.prev[h] = At(h, q, Len(q))
           /\ q = <<>> <=> l.prev[h] = h
           /\ l.next[h] # l.prev[h] <=> Len(q) >= 2
  <1>1. Len(q) \in Nat /\ (q = <<>> <=> Len(q) = 0) BY RowIs
  <1>2. At(h, q, 0) = h /\ At(h, q, Len(q) + 1) = h BY AtIs
  <1>3. l.next[At(h, q, 0)] = At(h, q, 0 + 1) BY <1>1 DEF Linked
  <1>4. l.prev[At(h, q, Len(q) + 1)] = At(h, q, Len(q)) BY <1>1 DEF Linked
  <1>5. l.next[h] = At(h, q, 1) /\ l.prev[h] = At(h, q, Len(q)) BY <1>2, <1>3, <1>4
  <1>6. At(h, q, Len(q)) = h <=> Len(q) = 0
    <2>1. \A i \in 1..Len(q) : At(h, q, i) # h BY AtIs
    <2> QED BY <1>1, <1>2, <2>1
  <1>7. At(h, q, 1) # At(h, q, Len(q)) <=> Len(q) >= 2
    <2>1. CASE Len(q) = 0 BY <1>2, <2>1
    <2>2. CASE Len(q) = 1 BY <2>2
    <2>3. CASE Len(q) >= 2
      <3>1. 1 \in 1..(Len(q) + 1) /\ Len(q) \in 1..(Len(q) + 1) BY <1>1, <2>3
      <3> QED BY <3>1, <2>3, AtIs
    <2> QED BY <1>1, <2>1, <2>2, <2>3
  <1> QED BY <1>1, <1>5, <1>6, <1>7

LEMMA RingsAdd ==
    ASSUME NEW l, NEW qs, Rings(l, qs), NEW h \in Heads, NEW n \in Heads,
           qs[h] = <<>>, qs[n] # <<>>
    PROVE  h # n /\ Rings(QueueInit(AddTo(l, h, n), n),
                          [qs EXCEPT ![n] = SubSeq(qs[n], 1, 0),
                                     ![h] = SubSeq(qs[n], 1, Len(qs[n]))])
  <1> DEFINE q == qs[n]
  <1>1. q \in Rows /\ qs[h] \in Rows /\ Typed(l) /\ Linked(l, n, q) /\ Linked(l, h, qs[h])
    BY DEF Rings
  <1>2. h # n OBVIOUS
  <1> HIDE DEF q
  <1>3. Len(q) \in Nat /\ Len(q) # 0 BY <1>1, RowIs DEF q
  <1>4. l.prev[h] = h BY <1>1, RingEnds
  <1>5. l.next[n] = q[1] /\ l.prev[n] = q[Len(q)] /\ q[1] \in Elements /\ q[Len(q)] \in Elements
        /\ q[1] # h /\ q[1] # n /\ q[Len(q)] # h /\ q[Len(q)] # n
    <2>1. 1 \in 1..Len(q) /\ Len(q) \in 1..Len(q) BY <1>3
    <2>2. \A i \in 1..Len(q) : At(n, q, i) = q[i] /\ q[i] \in Elements /\ q[i] # n BY <1>1, AtIs
    <2>3. \A i \in 1..Len(q) : q[i] # h BY <1>1, AtIs
    <2> QED BY <1>1, <2>1, <2>2, <2>3, RingEnds
  <1>6. l.prev[q[1]] = n
    <2>1. l.prev[At(n, q, 0 + 1)] = At(n, q, 0) BY <1>1, <1>3 DEF Linked
    <2>2. At(n, q, 1) = q[1] /\ At(n, q, 0) = n BY <1>1, <1>3, AtIs
    <2> QED BY <2>1, <2>2
  <1>7. QueueInit(AddTo(l, h, n), n) = SplitAt(l, n, q[1], h)
    <2>1. h \in Nodes /\ n \in Nodes /\ q[1] \in Nodes /\ q[Len(q)] \in Nodes BY <1>5 DEF Nodes
    <2> QED BY <1>1, <1>2, <1>4, <1>5, <1>6, <2>1, AddToIs
  <1>8. Rings(SplitAt(l, n, q[1], h),
              [qs EXCEPT ![n] = SubSeq(q, 1, 1 - 1), ![h] = SubSeq(q, 1, Len(q))])
    <2>1. 1 \in 1..Len(qs[n]) BY <1>3 DEF q
    <2> QED BY <2>1, RingsSplit DEF q
  <1> QED BY <1>2, <1>7, <1>8 DEF q

\* What is read from links are the rows of their rings.
LEMMA QueueOfIs ==
    ASSUME NEW l, NEW qs, Rings(l, qs)
    PROVE  \A h \in Heads : QueueOf(l, h) = qs[h]
  <1> TAKE h \in Heads
  <1>1. qs[h] \in Rows /\ Linked(l, h, qs[h]) BY DEF Rings
  <1>2. \E q \in Rows : Linked(l, h, q) BY <1>1
  <1>3. QueueOf(l, h) = CHOOSE q \in Rows : Linked(l, h, q) BY <1>2 DEF QueueOf
  <1>4. QueueOf(l, h) \in Rows /\ Linked(l, h, QueueOf(l, h)) BY <1>2, <1>3
  <1> QED BY <1>1, <1>4, RowUnique

Sequences(l) == [h \in Heads |-> QueueOf(l, h)]

LEMMA ReadIs ==
    ASSUME NEW l, NEW qs, Rings(l, qs)
    PROVE  Sequences(l) = qs
  <1>1. qs \in [Heads -> Rows] BY DEF Rings
  <1>2. Sequences(l) = [h \in Heads |-> qs[h]] BY QueueOfIs DEF Sequences
  <1> QED BY <1>1, <1>2

-----------------------------------------------------------------------------
(* Sorting.                                                                   *)

BackStep(l, h, x, p) == IF p = h \/ Key[p] <= Key[x] THEN p ELSE l.prev[p]

BackSteps(f, l, h, x, p, n) ==
    f = [i \in 0..n |-> IF i = 0 THEN p ELSE BackStep(l, h, x, f[i - 1])]

\* The steps of the inner loop of hky_queue_sort are a function.
LEMMA BackExists ==
    ASSUME NEW l, NEW h, NEW x, NEW p, NEW N \in Nat
    PROVE  \E f : BackSteps(f, l, h, x, p, N)
  <1> DEFINE Is(f, n) == BackSteps(f, l, h, x, p, n)
             T == {n \in Nat : \E f : Is(f, n)}
  <1>1. 0 \in T
    <2>1. Is([i \in 0..0 |-> p], 0) BY DEF BackSteps
    <2> QED BY <2>1
  <1>2. ASSUME NEW n \in Nat, n \in T PROVE n + 1 \in T
    <2>1. PICK f : Is(f, n) BY <1>2
    <2> DEFINE g == [i \in 0..(n + 1) |-> IF i = n + 1 THEN BackStep(l, h, x, f[n]) ELSE f[i]]
    <2>2. ASSUME NEW i \in 0..(n + 1)
          PROVE  g[i] = IF i = 0 THEN p ELSE BackStep(l, h, x, g[i - 1])
      <3>1. CASE i = n + 1
        <4>1. g[i] = BackStep(l, h, x, f[n]) /\ g[n] = f[n] /\ i - 1 = n /\ i # 0 BY <3>1
        <4> HIDE DEF g
        <4> QED BY <4>1
      <3>2. CASE i # n + 1
        <4>1. i \in 0..n /\ g[i] = f[i] /\ (i # 0 => g[i - 1] = f[i - 1]) BY <3>2
        <4>2. f[i] = IF i = 0 THEN p ELSE BackStep(l, h, x, f[i - 1]) BY <2>1, <4>1 DEF BackSteps
        <4> HIDE DEF g, Is
        <4> QED BY <4>1, <4>2
      <3> QED BY <3>1, <3>2
    <2>3. g = [i \in 0..(n + 1) |-> g[i]] OBVIOUS
    <2> HIDE DEF g
    <2>4. Is(g, n + 1) BY <2>2, <2>3 DEF BackSteps
    <2> QED BY <2>4
  <1> HIDE DEF T
  <1>3. Nat \subseteq T BY <1>1, <1>2, NatSetInduction
  <1> QED BY <1>3 DEF T

StopsRight(l, h, s, x, k) ==
    \E j \in 0..k : /\ Behind(l, h, x, At(h, s, k)) = At(h, s, j)
                    /\ j = 0 \/ Key[s[j]] <= Key[x]
                    /\ \A i \in (j + 1)..k : Key[s[i]] > Key[x]

\* It stops at the last element, not behind where it starts, that is not greater.
LEMMA BehindIs ==
    ASSUME NEW l, NEW h \in Heads, NEW s \in Rows, Linked(l, h, s), NEW x \in Elements,
           NEW k \in 0..Len(s)
    PROVE  StopsRight(l, h, s, x, k)
  <1> DEFINE N == Cardinality(Elements)
             start == At(h, s, k)
             Is(f) == BackSteps(f, l, h, x, start, N)
             back == CHOOSE f : Is(f)
             Stopped(j) == j = 0 \/ Key[s[j]] <= Key[x]
             Behind1(j) == \A i \in (j + 1)..k : Key[s[i]] > Key[x]
             Good(i, j) == back[i] = At(h, s, j) /\ Behind1(j) /\ (Stopped(j) \/ j = k - i)
             T == {i \in Nat : i <= N => \E j \in 0..k : Good(i, j)}
  <1>1. N \in Nat /\ Len(s) \in Nat /\ Len(s) <= N /\ k \in Nat /\ k <= Len(s) BY RowIs, RowFits
  <1>2. Is(back)
    <2>1. \E f : Is(f)
      <3> HIDE DEF N, start
      <3> QED BY <1>1, BackExists
    <2> HIDE DEF Is
    <2> QED BY <2>1
  <1>3. Behind(l, h, x, start) = back[N] BY DEF Behind, BackStep, BackSteps
  <1> HIDE DEF N, back
  <1>4. back[0] = start /\ \A i \in 1..N : back[i] = BackStep(l, h, x, back[i - 1])
    BY <1>1, <1>2 DEF BackSteps
  <1> HIDE DEF Is
  <1>5. 0 \in T
    <2>1. Good(0, k) BY <1>1, <1>4
    <2> QED BY <1>1, <2>1
  <1>6. ASSUME NEW i \in Nat, i \in T PROVE i + 1 \in T
    <2> SUFFICES ASSUME i + 1 <= N PROVE \E j \in 0..k : Good(i + 1, j) OBVIOUS
    <2>1. PICK j \in 0..k : Good(i, j) BY <1>1, <1>6
    <2>2. back[i + 1] = BackStep(l, h, x, At(h, s, j)) BY <1>1, <1>4, <2>1
    <2>3. CASE Stopped(j)
      <3>1. At(h, s, j) = h \/ Key[At(h, s, j)] <= Key[x] BY <2>3, <1>1, AtIs
      <3>2. back[i + 1] = At(h, s, j) BY <2>2, <3>1 DEF BackStep
      <3> QED BY <2>1, <2>3, <3>2
    <2>4. CASE ~Stopped(j)
      <3>1. j \in 1..Len(s) /\ j - 1 \in 0..k /\ j - 1 = k - (i + 1) BY <1>1, <2>1, <2>4
      <3>2. At(h, s, j) = s[j] /\ At(h, s, j) # h BY <3>1, AtIs
      <3>3. Key[s[j]] \in Int /\ Key[x] \in Int BY <3>1, RowIs, QueueAssumption
      <3>4. ~(Key[s[j]] <= Key[x]) BY <2>4
      <3>5. l.prev[At(h, s, j)] = At(h, s, j - 1)
        <4>1. l.prev[At(h, s, (j - 1) + 1)] = At(h, s, j - 1) BY <1>1, <3>1 DEF Linked
        <4> QED BY <3>1, <4>1
      <3>6. back[i + 1] = At(h, s, j - 1) BY <2>2, <3>2, <3>4, <3>5 DEF BackStep
      <3>7. Behind1(j - 1)
        <4> SUFFICES ASSUME NEW n \in j..k PROVE Key[s[n]] > Key[x] BY <3>1
        <4>1. n = j \/ n \in (j + 1)..k BY <3>1
        <4> QED BY <2>1, <3>3, <3>4, <4>1
      <3> QED BY <3>1, <3>6, <3>7
    <2> QED BY <2>3, <2>4
  <1> HIDE DEF T
  <1>7. Nat \subseteq T BY <1>5, <1>6, NatSetInduction
  <1>8. PICK j \in 0..k : Good(N, j) BY <1>1, <1>7 DEF T
  <1>9. Stopped(j) BY <1>1, <1>8
  <1> QED BY <1>3, <1>8, <1>9 DEF StopsRight

Goes(q, x, y) == Key[x] < Key[y] \/ (Key[x] = Key[y] /\ Queues!Precedes(q, x, y))

\* The first k of q have been sorted: r.
SortedTo(q, r, k) ==
    /\ r \in Rows /\ Len(r) = Len(q)
    /\ \A i \in (k + 1)..Len(q) : r[i] = q[i]
    /\ \A i \in 1..k : \E m \in 1..k : r[i] = q[m]
    /\ \A m \in 1..k : \E i \in 1..k : r[i] = q[m]
    /\ \A i, j \in 1..k : i < j => Goes(q, r[i], r[j])

\* The next element, behind the last of the sorted ones that is not greater.
LEMMA SortedOneMore ==
    ASSUME NEW q \in Rows, NEW r, NEW k \in 1..(Len(q) - 1), SortedTo(q, r, k), NEW j \in 0..k,
           j = 0 \/ Key[r[j]] <= Key[r[k + 1]],
           \A i \in (j + 1)..k : Key[r[i]] > Key[r[k + 1]]
    PROVE  SortedTo(q, InsertAt(RemoveAt(r, k + 1), j + 1, r[k + 1]), k + 1)
  <1> DEFINE x == r[k + 1]
             s == RemoveAt(r, k + 1)
             t == InsertAt(s, j + 1, x)
  <1>1. r \in Rows /\ Len(r) = Len(q) /\ Len(q) \in Nat /\ q \in Seq(Elements)
    BY RowIs DEF SortedTo
  <1>2. k \in Int /\ 1 <= k /\ k < Len(q) /\ j \in Int /\ 0 <= j /\ j <= k BY <1>1
  <1>3. s \in Rows /\ Len(s) = Len(q) - 1
        /\ \A i \in 1..(Len(q) - 1) : s[i] = IF i < k + 1 THEN r[i] ELSE r[i + 1]
    <2>1. k + 1 \in 1..Len(r) BY <1>1, <1>2
    <2> QED BY <1>1, <2>1, RowRemove
  <1>4. x \in Elements /\ \A i, n \in 1..Len(q) : r[i] = r[n] => i = n BY <1>1, <1>2, RowIs
  <1> HIDE DEF x, s
  <1>5. t \in Rows /\ Len(t) = Len(q)
        /\ \A i \in 1..Len(q) : t[i] = IF i < j + 1 THEN s[i] ELSE IF i = j + 1 THEN x ELSE s[i - 1]
    <2>1. \A i \in 1..Len(s) : s[i] # x
      <3> TAKE i \in 1..Len(s)
      <3>1. i \in 1..(Len(q) - 1) BY <1>3
      <3>2. CASE i < k + 1 BY <1>2, <1>3, <1>4, <3>1, <3>2 DEF x
      <3>3. CASE i >= k + 1
        <4>1. s[i] = r[i + 1] /\ i + 1 # k + 1 /\ i + 1 \in 1..Len(q) BY <1>2, <1>3, <3>1, <3>3
        <4> QED BY <1>2, <1>4, <4>1 DEF x
      <3> QED BY <1>2, <3>1, <3>2, <3>3
    <2>2. j + 1 \in 1..(Len(s) + 1) BY <1>2, <1>3
    <2>3. Len(s) + 1 = Len(q) BY <1>1, <1>3
    <2>4. s \in Rows /\ x \in Elements BY <1>3, <1>4
    <2>5. /\ t \in Rows /\ Len(t) = Len(s) + 1
          /\ \A i \in 1..(Len(s) + 1) :
                t[i] = IF i < j + 1 THEN s[i] ELSE IF i = j + 1 THEN x ELSE s[i - 1]
      BY ONLY <2>1, <2>2, <2>4, RowInsert
    <2> QED BY ONLY <2>3, <2>5
  <1> HIDE DEF t
  <1>6. \A i \in 1..Len(q) : t[i] = IF i <= j THEN r[i] ELSE IF i = j + 1 THEN x
                                    ELSE IF i <= k + 1 THEN r[i - 1] ELSE r[i]
    <2> TAKE i \in 1..Len(q)
    <2>1. CASE i <= j
      <3>1. i \in 1..(Len(q) - 1) /\ i < j + 1 /\ i < k + 1 BY <1>2, <2>1
      <3>2. t[i] = s[i] BY <1>5, <3>1
      <3>3. s[i] = r[i] BY <1>3, <3>1
      <3> QED BY <2>1, <3>2, <3>3
    <2>2. CASE i = j + 1 BY <1>2, <1>5, <2>2
    <2>3. CASE i > j + 1
      <3>1. t[i] = s[i - 1] /\ i - 1 \in 1..(Len(q) - 1) BY <1>2, <1>5, <2>3
      <3>2. s[i - 1] = IF i - 1 < k + 1 THEN r[i - 1] ELSE r[(i - 1) + 1] BY <1>3, <3>1
      <3> QED BY <1>2, <2>3, <3>1, <3>2
    <2> QED BY <1>2, <2>1, <2>2, <2>3
  <1>7. x = q[k + 1]
    <2>1. \A i \in (k + 1)..Len(q) : r[i] = q[i] BY DEF SortedTo
    <2> QED BY ONLY <1>1, <1>2, <2>1 DEF x
  <1>8. \A i \in (k + 2)..Len(q) : t[i] = q[i]
    <2> TAKE i \in (k + 2)..Len(q)
    <2>1. \A n \in (k + 1)..Len(q) : r[n] = q[n] BY DEF SortedTo
    <2>2. i \in 1..Len(q) /\ i > k + 1 /\ i \in (k + 1)..Len(q) BY <1>2
    <2>3. t[i] = r[i] BY <1>2, <1>6, <2>2
    <2> QED BY <2>1, <2>2, <2>3
  <1>9. ASSUME NEW i \in 1..(k + 1) PROVE \E m \in 1..(k + 1) : t[i] = q[m]
    <2>1. i \in 1..Len(q) BY <1>2
    <2>2. ASSUME NEW n \in 1..k PROVE \E m \in 1..(k + 1) : r[n] = q[m]
      <3>1. PICK m \in 1..k : r[n] = q[m] BY DEF SortedTo
      <3> QED BY <1>2, <3>1
    <2>3. t[i] = x \/ \E n \in 1..k : t[i] = r[n]
      <3>1. CASE i <= j BY <1>2, <1>6, <2>1, <3>1
      <3>2. CASE i = j + 1 BY <1>2, <1>6, <2>1, <3>2
      <3>3. CASE i > j + 1
        <4>1. i - 1 \in 1..k /\ t[i] = r[i - 1] BY <1>2, <1>6, <2>1, <3>3
        <4> QED BY <4>1
      <3> QED BY <1>2, <3>1, <3>2, <3>3
    <2> QED BY <1>2, <1>7, <2>2, <2>3
  <1>10. ASSUME NEW m \in 1..(k + 1) PROVE \E i \in 1..(k + 1) : t[i] = q[m]
    <2>1. CASE m = k + 1
      <3>1. t[j + 1] = x /\ j + 1 \in 1..(k + 1) BY <1>2, <1>6
      <3> QED BY <1>7, <2>1, <3>1
    <2>2. CASE m # k + 1
      <3>1. m \in 1..k BY <1>2, <2>2
      <3>2. PICK n \in 1..k : r[n] = q[m] BY <3>1 DEF SortedTo
      <3>3. CASE n <= j BY <1>2, <1>6, <3>2, <3>3
      <3>4. CASE n > j
        <4>1. n + 1 \in 1..(k + 1) /\ t[n + 1] = r[(n + 1) - 1] BY <1>2, <1>6, <3>4
        <4>2. (n + 1) - 1 = n BY <3>4
        <4> QED BY <3>2, <4>1, <4>2
      <3> QED BY <1>2, <3>3, <3>4
    <2> QED BY <2>1, <2>2
  <1>11. /\ \A i \in 1..Len(q) : Key[r[i]] \in Int
         /\ Key[x] \in Int
    BY <1>1, <1>4, RowIs, QueueAssumption
  <1>12. \A i, n \in 1..k : i < n => Goes(q, r[i], r[n]) BY DEF SortedTo
  <1>13. ASSUME NEW i \in 1..j PROVE Goes(q, r[i], x)
    <2>1. Key[r[i]] <= Key[r[j]]
      <3>1. CASE i = j BY <1>2, <1>11, <3>1
      <3>2. CASE i # j
        <4>1. i < j /\ i \in 1..k /\ j \in 1..k BY <1>2, <3>2
        <4>2. Goes(q, r[i], r[j]) BY <1>12, <4>1
        <4>3. Key[r[i]] \in Int /\ Key[r[j]] \in Int BY <1>2, <1>11, <4>1
        <4> QED BY <4>2, <4>3 DEF Goes
      <3> QED BY <3>1, <3>2
    <2>2. Key[r[j]] <= Key[x] BY <1>2 DEF x
    <2>3. Queues!Precedes(q, r[i], x)
      <3>0. \A n \in 1..k : \E m \in 1..k : r[n] = q[m] BY DEF SortedTo
      <3>1. PICK m \in 1..k : r[i] = q[m]
        <4>1. i \in 1..k BY <1>2
        <4> QED BY <3>0, <4>1
      <3>2. m \in DOMAIN q /\ k + 1 \in DOMAIN q /\ m < k + 1 BY <1>1, <1>2
      <3> QED BY <1>7, <3>1, <3>2 DEF Queues!Precedes
    <2>4. Key[r[i]] \in Int /\ Key[r[j]] \in Int BY <1>2, <1>11
    <2> QED BY <1>11, <2>1, <2>2, <2>3, <2>4 DEF Goes
  <1>14. ASSUME NEW i \in (j + 1)..k PROVE Goes(q, x, r[i])
    <2>1. Key[r[i]] > Key[x] /\ Key[r[i]] \in Int BY <1>2, <1>11 DEF x
    <2> QED BY <1>11, <2>1 DEF Goes
  <1>15. ASSUME NEW i \in 1..(k + 1), NEW n \in 1..(k + 1), i < n PROVE Goes(q, t[i], t[n])
    <2>0. i \in 1..Len(q) /\ n \in 1..Len(q) BY <1>2
    <2>1. CASE n <= j
      <3>1. t[i] = r[i] /\ t[n] = r[n] /\ i \in 1..k /\ n \in 1..k BY <1>2, <1>6, <1>15, <2>0, <2>1
      <3> QED BY <1>12, <1>15, <3>1
    <2>2. CASE n = j + 1
      <3>1. t[i] = r[i] /\ t[n] = x /\ i \in 1..j BY <1>2, <1>6, <1>15, <2>0, <2>2
      <3> QED BY <1>13, <3>1
    <2>3. CASE n > j + 1
      <3>1. t[n] = r[n - 1] /\ n - 1 \in (j + 1)..k /\ n - 1 \in 1..k
        BY <1>2, <1>6, <2>0, <2>3
      <3>2. CASE i = j + 1
        <4>1. t[i] = x BY <1>2, <1>6, <2>0, <3>2
        <4> QED BY <1>14, <3>1, <4>1
      <3>3. CASE i <= j
        <4>1. t[i] = r[i] /\ i \in 1..k /\ i < n - 1 BY <1>2, <1>6, <2>0, <2>3, <3>3
        <4> QED BY <1>12, <3>1, <4>1
      <3>4. CASE i > j + 1
        <4>1. t[i] = r[i - 1] /\ i - 1 \in 1..k /\ i - 1 < n - 1
          BY <1>2, <1>6, <1>15, <2>0, <3>4
        <4> QED BY <1>12, <3>1, <4>1
      <3> QED BY <1>2, <3>2, <3>3, <3>4
    <2> QED BY <1>2, <2>1, <2>2, <2>3
  <1>16. SortedTo(q, t, k + 1)
    <2>1. (k + 1) + 1 = k + 2 BY <1>2
    <2> QED BY <2>1, <1>5, <1>8, <1>9, <1>10, <1>15 DEF SortedTo
  <1> QED BY <1>16 DEF t, s, x

\* One turn of hky_queue_sort.
LEMMA SortTurn ==
    ASSUME NEW l, NEW qs, NEW h \in Heads, NEW q \in Rows, NEW r,
           Rings(l, [qs EXCEPT ![h] = r]), qs \in [Heads -> Rows],
           NEW k \in 1..(Len(q) - 1), SortedTo(q, r, k)
    PROVE  \E t : Rings(SortStep(l, h, q[k + 1]), [qs EXCEPT ![h] = t]) /\ SortedTo(q, t, k + 1)
  <1> DEFINE x == q[k + 1]
             s == RemoveAt(r, k + 1)
             rs == [qs EXCEPT ![h] = r]
             ss == [qs EXCEPT ![h] = s]
             without == Unlink(l, x)
  <1>1. Len(q) \in Nat /\ r \in Rows /\ Len(r) = Len(q) /\ x = r[k + 1] BY RowIs DEF SortedTo
  <1>2. k \in Int /\ 1 <= k /\ k < Len(q) /\ k + 1 \in 1..Len(r) BY <1>1
  <1>3. x \in Elements /\ \A i, n \in 1..Len(q) : r[i] = r[n] => i = n BY <1>1, <1>2, RowIs
  <1>4. s \in Rows /\ Len(s) = Len(q) - 1
        /\ \A i \in 1..(Len(q) - 1) : s[i] = IF i < k + 1 THEN r[i] ELSE r[i + 1]
    BY <1>1, <1>2, RowRemove
  <1> HIDE DEF x, s
  <1>5. rs[h] = r /\ [rs EXCEPT ![h] = s] = ss /\ ss[h] = s OBVIOUS
  <1>6. Rings(without, ss)
    <2>1. Rings(Unlink(l, rs[h][k + 1]), [rs EXCEPT ![h] = RemoveAt(rs[h], k + 1)])
      <3> HIDE DEF rs
      <3> QED BY <1>2, <1>5, RingsRemove DEF rs
    <2> HIDE DEF rs, ss
    <2> QED BY <1>1, <1>5, <2>1 DEF s
  <1>7. l.prev[x] = At(h, s, k)
    <2>1. Linked(l, h, r) BY <1>5 DEF Rings
    <2>2. l.prev[At(h, r, k + 1)] = At(h, r, k) BY <1>1, <1>2, <2>1 DEF Linked
    <2>3. At(h, r, k + 1) = x /\ At(h, r, k) = r[k] BY <1>1, <1>2, AtIs
    <2>4. At(h, s, k) = s[k] /\ s[k] = r[k]
      <3>1. k \in 1..Len(s) /\ k \in 1..(Len(q) - 1) /\ k < k + 1 BY <1>1, <1>2, <1>4
      <3> QED BY <1>4, <3>1, AtIs
    <2> QED BY <2>2, <2>3, <2>4
  <1> HIDE DEF without
  <1>8. PICK j \in 0..k : /\ Behind(without, h, x, At(h, s, k)) = At(h, s, j)
                          /\ j = 0 \/ Key[s[j]] <= Key[x]
                          /\ \A i \in (j + 1)..k : Key[s[i]] > Key[x]
    <2>1. Linked(without, h, s) BY <1>5, <1>6 DEF Rings
    <2>2. k \in 0..Len(s) BY <1>1, <1>2, <1>4
    <2>3. StopsRight(without, h, s, x, k) BY <1>3, <1>4, <2>1, <2>2, BehindIs
    <2> QED BY <2>3, Zenon DEF StopsRight
  <1> DEFINE t == InsertAt(s, j + 1, x)
  <1>9. SortStep(l, h, x) = InsertAfter(without, At(h, s, (j + 1) - 1), x)
    <2>1. (j + 1) - 1 = j OBVIOUS
    <2> QED BY <1>7, <1>8, <2>1 DEF SortStep, without
  <1>10. \A g \in Heads : \A i \in 1..Len(ss[g]) : ss[g][i] # x
    <2> TAKE g \in Heads
    <2>1. CASE g = h
      <3> SUFFICES ASSUME NEW i \in 1..Len(s) PROVE s[i] # x BY <1>5, <2>1
      <3>1. i \in 1..(Len(q) - 1) BY <1>4
      <3>2. CASE i < k + 1 BY <1>1, <1>2, <1>3, <1>4, <3>1, <3>2
      <3>3. CASE i >= k + 1
        <4>1. s[i] = r[i + 1] /\ i + 1 # k + 1 /\ i + 1 \in 1..Len(q) BY <1>2, <1>4, <3>1, <3>3
        <4> QED BY <1>1, <1>2, <1>3, <4>1
      <3> QED BY <1>2, <3>1, <3>2, <3>3
    <2>2. CASE g # h
      <3>1. Disjoint(rs[g], rs[h]) BY <2>2 DEF Rings
      <3>2. ss[g] = rs[g] BY <2>2
      <3> HIDE DEF rs, ss
      <3> QED BY <1>1, <1>2, <1>5, <3>1, <3>2 DEF Disjoint
    <2> QED BY <2>1, <2>2
  <1>11. Rings(SortStep(l, h, x), [qs EXCEPT ![h] = t])
    <2>1. j + 1 \in 1..(Len(ss[h]) + 1) BY <1>1, <1>2, <1>4, <1>5
    <2>2. [ss EXCEPT ![h] = t] = [qs EXCEPT ![h] = t] OBVIOUS
    <2> HIDE DEF ss
    <2>3. Rings(InsertAfter(without, At(h, ss[h], (j + 1) - 1), x),
                [ss EXCEPT ![h] = InsertAt(ss[h], j + 1, x)])
      BY <1>3, <1>6, <1>10, <2>1, RingsInsert
    <2> QED BY <1>5, <1>9, <2>2, <2>3
  <1>12. SortedTo(q, t, k + 1)
    <2>1. \A i \in 1..k : s[i] = r[i] BY <1>1, <1>2, <1>4
    <2>2. j = 0 \/ Key[r[j]] <= Key[r[k + 1]] BY <1>1, <1>2, <1>8, <2>1
    <2>3. \A i \in (j + 1)..k : Key[r[i]] > Key[r[k + 1]]
      <3> TAKE i \in (j + 1)..k
      <3>1. s[i] = r[i] /\ Key[s[i]] > Key[x] BY <1>2, <1>8, <2>1
      <3> QED BY <1>1, <3>1
    <2>4. SortedTo(q, InsertAt(RemoveAt(r, k + 1), j + 1, r[k + 1]), k + 1)
      BY <2>2, <2>3, SortedOneMore
    <2> QED BY <1>1, <2>4 DEF s
  <1> QED BY <1>11, <1>12 DEF x

SortSteps(f, l, h, q) ==
    f = [i \in 1..Len(q) |-> IF i = 1 THEN l ELSE SortStep(f[i - 1], h, q[i])]

\* The turns of hky_queue_sort are a function.
LEMMA SortExists ==
    ASSUME NEW l, NEW h, NEW q, Len(q) \in Nat
    PROVE  \E f : SortSteps(f, l, h, q)
  <1> DEFINE Is(f, n) == f = [i \in 1..n |-> IF i = 1 THEN l ELSE SortStep(f[i - 1], h, q[i])]
             T == {n \in Nat : \E f : Is(f, n)}
  <1>1. 0 \in T
    <2>1. Is([i \in 1..0 |-> l], 0) OBVIOUS
    <2> QED BY <2>1
  <1>2. ASSUME NEW n \in Nat, n \in T PROVE n + 1 \in T
    <2>1. PICK f : Is(f, n) BY <1>2
    <2> DEFINE z == IF n = 0 THEN l ELSE SortStep(f[n], h, q[n + 1])
               g == [i \in 1..(n + 1) |-> IF i = n + 1 THEN z ELSE f[i]]
    <2>2. ASSUME NEW i \in 1..(n + 1)
          PROVE  g[i] = IF i = 1 THEN l ELSE SortStep(g[i - 1], h, q[i])
      <3>1. CASE i = n + 1
        <4>1. g[i] = z /\ (n # 0 => g[n] = f[n]) /\ i - 1 = n /\ (i = 1 <=> n = 0) BY <3>1
        <4> HIDE DEF g
        <4> QED BY <3>1, <4>1
      <3>2. CASE i # n + 1
        <4>1. i \in 1..n /\ g[i] = f[i] /\ (i # 1 => g[i - 1] = f[i - 1]) BY <3>2
        <4>2. f[i] = IF i = 1 THEN l ELSE SortStep(f[i - 1], h, q[i]) BY <2>1, <4>1
        <4> HIDE DEF g, Is
        <4> QED BY <4>1, <4>2
      <3> QED BY <3>1, <3>2
    <2>3. g = [i \in 1..(n + 1) |-> g[i]] OBVIOUS
    <2> HIDE DEF g
    <2>4. Is(g, n + 1) BY <2>2, <2>3
    <2> QED BY <2>4
  <1> HIDE DEF T
  <1>3. Nat \subseteq T BY <1>1, <1>2, NatSetInduction
  <1>4. \E f : Is(f, Len(q))
    <2>1. Len(q) \in T BY <1>3
    <2> HIDE DEF Is
    <2> QED BY <2>1 DEF T
  <1> QED BY <1>4 DEF SortSteps

\* hky_queue_sort of a queue of two elements at least.
LEMMA RingsSort ==
    ASSUME NEW qs, Rings(links, qs), NEW h \in Heads, Len(qs[h]) >= 2
    PROVE  \E t : /\ Rings(QueueSort(links, h), [qs EXCEPT ![h] = t])
                  /\ SortedTo(qs[h], t, Len(qs[h]))
  <1> DEFINE q == qs[h]
             sorted == CHOOSE f : SortSteps(f, links, h, q)
             Done(k) == \E t : Rings(sorted[k], [qs EXCEPT ![h] = t]) /\ SortedTo(q, t, k)
             T == {k \in Nat : k + 1 \in 1..Len(q) => Done(k + 1)}
  <1>1. q \in Rows /\ Len(q) \in Nat /\ Len(q) >= 2 /\ qs \in [Heads -> Rows]
    BY RowIs DEF Rings
  <1>2. QueueSort(links, h) = sorted[Len(q)]
    <2>1. QueueSort(links, h) = (CHOOSE f : SortSteps(f, links, h, QueueOf(links, h)))
                                   [Len(QueueOf(links, h))]
      BY DEF QueueSort, SortSteps
    <2>2. QueueOf(links, h) = q BY QueueOfIs
    <2> QED BY ONLY <2>1, <2>2
  <1> HIDE DEF q
  <1>3. SortSteps(sorted, links, h, q) BY <1>1, SortExists
  <1> HIDE DEF sorted
  <1>4. sorted[1] = links /\ \A i \in 2..Len(q) : sorted[i] = SortStep(sorted[i - 1], h, q[i])
    BY <1>1, <1>3 DEF SortSteps
  <1>5. 0 \in T
    <2>1. [qs EXCEPT ![h] = q] = qs BY <1>1 DEF q
    <2>2. SortedTo(q, q, 1) BY <1>1 DEF SortedTo
    <2>3. Done(1) BY <1>4, <2>1, <2>2
    <2> QED BY <2>3
  <1>6. ASSUME NEW k \in Nat, k \in T PROVE k + 1 \in T
    <2> DEFINE n == k + 1
    <2> HIDE DEF Done
    <2> SUFFICES ASSUME n + 1 \in 1..Len(q) PROVE Done(n + 1) OBVIOUS
    <2>1. n \in 1..(Len(q) - 1) /\ n \in 1..Len(q) /\ n + 1 \in 2..Len(q) /\ (n + 1) - 1 = n
      BY <1>1
    <2>2. Done(n) BY <1>6, <2>1
    <2> HIDE DEF n
    <2>3. PICK r : Rings(sorted[n], [qs EXCEPT ![h] = r]) /\ SortedTo(q, r, n)
      BY <2>2 DEF Done
    <2>4. sorted[n + 1] = SortStep(sorted[n], h, q[n + 1]) BY <1>4, <2>1
    <2>5. \E t : /\ Rings(SortStep(sorted[n], h, q[n + 1]), [qs EXCEPT ![h] = t])
                 /\ SortedTo(q, t, n + 1)
      BY <1>1, <2>1, <2>3, SortTurn
    <2> QED BY <2>4, <2>5 DEF Done
  <1> HIDE DEF T, Done
  <1>7. Nat \subseteq T BY <1>5, <1>6, NatSetInduction
  <1>8. Done(Len(q))
    <2>1. Len(q) - 1 \in Nat /\ (Len(q) - 1) + 1 = Len(q) /\ Len(q) \in 1..Len(q) BY <1>1
    <2>2. Len(q) - 1 \in T BY <1>7, <2>1
    <2> QED BY <2>1, <2>2 DEF T
  <1> QED BY <1>2, <1>8 DEF Done, q

-----------------------------------------------------------------------------
(* The middle.                                                                *)

WalkStep(next, end, at) ==
    IF at.n = end THEN at
    ELSE [m |-> next[at.m], n |-> IF next[at.n] = end THEN end ELSE next[next[at.n]]]

WalkSteps(f, next, end, h, n) ==
    f = [i \in 0..n |-> IF i = 0 THEN [m |-> next[h], n |-> next[h]]
                        ELSE WalkStep(next, end, f[i - 1])]

\* The turns of hky_queue_middle are a function.
LEMMA WalkExists ==
    ASSUME NEW next, NEW end, NEW h, NEW N \in Nat
    PROVE  \E f : WalkSteps(f, next, end, h, N)
  <1> DEFINE Is(f, n) == WalkSteps(f, next, end, h, n)
             T == {n \in Nat : \E f : Is(f, n)}
             start == [m |-> next[h], n |-> next[h]]
  <1>1. 0 \in T
    <2>1. Is([i \in 0..0 |-> start], 0) BY DEF WalkSteps
    <2> QED BY <2>1
  <1>2. ASSUME NEW n \in Nat, n \in T PROVE n + 1 \in T
    <2>1. PICK f : Is(f, n) BY <1>2
    <2> DEFINE g == [i \in 0..(n + 1) |-> IF i = n + 1 THEN WalkStep(next, end, f[n]) ELSE f[i]]
    <2>2. ASSUME NEW i \in 0..(n + 1)
          PROVE  g[i] = IF i = 0 THEN start ELSE WalkStep(next, end, g[i - 1])
      <3> HIDE DEF start
      <3>1. CASE i = n + 1
        <4>1. g[i] = WalkStep(next, end, f[n]) /\ g[n] = f[n] /\ i - 1 = n /\ i # 0 BY <3>1
        <4> HIDE DEF g
        <4> QED BY <4>1
      <3>2. CASE i # n + 1
        <4>1. i \in 0..n /\ g[i] = f[i] /\ (i # 0 => g[i - 1] = f[i - 1]) BY <3>2
        <4>2. f[i] = IF i = 0 THEN start ELSE WalkStep(next, end, f[i - 1])
          BY <2>1, <4>1 DEF WalkSteps, start
        <4> HIDE DEF g, Is
        <4> QED BY <4>1, <4>2
      <3> QED BY <3>1, <3>2
    <2>3. g = [i \in 0..(n + 1) |-> g[i]] OBVIOUS
    <2> HIDE DEF g
    <2>4. Is(g, n + 1) BY <2>2, <2>3 DEF WalkSteps
    <2> QED BY <2>4
  <1> HIDE DEF T
  <1>3. Nat \subseteq T BY <1>1, <1>2, NatSetInduction
  <1> QED BY <1>3 DEF T

\* While n goes two by two to the last, m goes half as far.
LEMMA MiddleIs ==
    ASSUME NEW h \in Heads, NEW q \in Rows, Linked(links, h, q)
    PROVE  QueueMiddle(h) = IF q = <<>> THEN h ELSE q[(Len(q) \div 2) + 1]
  <1> DEFINE N == Cardinality(Elements)
             next == links.next
             end == links.prev[h]
             walk == CHOOSE f : WalkSteps(f, next, end, h, N)
             A(i) == At(h, q, i)
             L == Len(q)
             K == L \div 2
  <1>1. N \in Nat /\ L \in Nat /\ L <= N /\ (q = <<>> <=> L = 0) BY RowIs, RowFits
  <1>2. K \in Nat /\ 2 * K <= L /\ L <= 2 * K + 1 BY <1>1
  <1>3. QueueMiddle(h) = walk[N].m BY DEF QueueMiddle, WalkSteps, WalkStep
  <1>4. next[h] = A(1) /\ end = A(L) BY RingEnds
  <1>5. /\ A(0) = h /\ A(L + 1) = h /\ \A i \in 1..L : A(i) = q[i]
        /\ \A i, j \in 1..(L + 1) : A(i) = A(j) => i = j
    BY AtIs
  <1>6. \A i \in 0..L : next[A(i)] = A(i + 1) BY DEF Linked
  <1> HIDE DEF N, next, end, A, L, K
  <1>7. WalkSteps(walk, next, end, h, N) BY <1>1, WalkExists
  <1> HIDE DEF walk
  <1>8. /\ walk[0] = [m |-> A(1), n |-> A(1)]
        /\ \A i \in Nat : i + 1 <= N => walk[i + 1] = WalkStep(next, end, walk[i])
    <2>1. walk[0] = [m |-> next[h], n |-> next[h]] BY <1>1, <1>7 DEF WalkSteps
    <2>2. \A i \in 1..N : walk[i] = WalkStep(next, end, walk[i - 1])
      BY <1>1, <1>7 DEF WalkSteps
    <2>3. ASSUME NEW i \in Nat, i + 1 <= N PROVE i + 1 \in 1..N /\ (i + 1) - 1 = i BY <1>1, <2>3
    <2> QED BY <1>4, <2>1, <2>2, <2>3
  <1>9. CASE L = 0
    <2> DEFINE T == {i \in Nat : i <= N => walk[i] = [m |-> h, n |-> h]}
    <2>1. A(1) = h /\ end = h BY <1>4, <1>5, <1>9
    <2>2. 0 \in T BY <1>8, <2>1
    <2>3. ASSUME NEW i \in Nat, i \in T PROVE i + 1 \in T
      <3> SUFFICES ASSUME i + 1 <= N PROVE walk[i + 1] = [m |-> h, n |-> h] OBVIOUS
      <3>1. walk[i] = [m |-> h, n |-> h] BY <1>1, <2>3
      <3>2. walk[i + 1] = WalkStep(next, end, walk[i]) BY <1>8
      <3> QED BY <2>1, <3>1, <3>2 DEF WalkStep
    <2> HIDE DEF T
    <2>4. Nat \subseteq T BY <2>2, <2>3, NatSetInduction
    <2>5. walk[N] = [m |-> h, n |-> h] BY <1>1, <2>4 DEF T
    <2> QED BY <1>1, <1>3, <1>9, <2>5
  <1>10. CASE L # 0
    <2> DEFINE M(i) == IF i < K THEN 1 + i ELSE 1 + K
               E(i) == IF 1 + 2 * i < L THEN 1 + 2 * i ELSE L
               Good(i) == walk[i] = [m |-> A(M(i)), n |-> A(E(i))]
               T == {i \in Nat : i <= N => Good(i)}
    <2>1. 0 \in T
      <3>1. M(0) = 1 /\ E(0) = 1 BY <1>1, <1>2, <1>10
      <3> HIDE DEF M, E
      <3> QED BY <1>8, <3>1
    <2>2. ASSUME NEW i \in Nat, i \in T PROVE i + 1 \in T
      <3> SUFFICES ASSUME i + 1 <= N PROVE Good(i + 1) OBVIOUS
      <3>1. walk[i] = [m |-> A(M(i)), n |-> A(E(i))] BY <1>1, <2>2
      <3>2. walk[i + 1] = WalkStep(next, end, walk[i]) BY <1>8
      <3>3. CASE 1 + 2 * i >= L
        <4>1. E(i) = L /\ E(i + 1) = L /\ M(i) = M(i + 1) BY <1>1, <1>2, <3>3
        <4> HIDE DEF M, E
        <4> QED BY <1>4, <3>1, <3>2, <4>1 DEF WalkStep
      <3>4. CASE 1 + 2 * i < L
        <4>1. /\ M(i) = 1 + i /\ M(i + 1) = 2 + i /\ E(i) = 1 + 2 * i
              /\ E(i + 1) = IF 2 + 2 * i = L THEN L ELSE 3 + 2 * i
              /\ 1 + i \in 0..L /\ 1 + 2 * i \in 0..L /\ 2 + 2 * i \in 0..L
              /\ 1 + 2 * i \in 1..(L + 1) /\ 2 + 2 * i \in 1..(L + 1) /\ L \in 1..(L + 1)
              /\ 1 + 2 * i # L
          BY <1>1, <1>2, <1>10, <3>4
        <4> HIDE DEF M, E
        <4>2. A(E(i)) # end BY <1>4, <1>5, <4>1
        <4>3. next[A(M(i))] = A(M(i + 1))
          <5>1. next[A(1 + i)] = A((1 + i) + 1) /\ (1 + i) + 1 = 2 + i BY <1>6, <4>1
          <5> QED BY <4>1, <5>1
        <4>4. next[A(E(i))] = A(2 + 2 * i)
          <5>1. next[A(1 + 2 * i)] = A((1 + 2 * i) + 1) /\ (1 + 2 * i) + 1 = 2 + 2 * i
            BY <1>6, <4>1
          <5> QED BY <4>1, <5>1
        <4>5. next[A(2 + 2 * i)] = A(3 + 2 * i)
          <5>1. next[A(2 + 2 * i)] = A((2 + 2 * i) + 1) /\ (2 + 2 * i) + 1 = 3 + 2 * i
            BY <1>6, <4>1
          <5> QED BY <5>1
        <4>6. A(2 + 2 * i) = end <=> 2 + 2 * i = L BY <1>4, <1>5, <4>1
        <4>7. A(E(i + 1)) = IF A(2 + 2 * i) = end THEN end ELSE A(3 + 2 * i)
          BY <1>4, <4>1, <4>6
        <4>8. walk[i + 1] = [m |-> A(M(i + 1)),
                             n |-> IF A(2 + 2 * i) = end THEN end ELSE A(3 + 2 * i)]
          BY ONLY <3>1, <3>2, <4>2, <4>3, <4>4, <4>5 DEF WalkStep
        <4> QED BY <4>7, <4>8
      <3> QED BY <1>1, <3>3, <3>4
    <2> HIDE DEF T, Good
    <2>3. Nat \subseteq T BY <2>1, <2>2, NatSetInduction
    <2>4. Good(N) BY <1>1, <2>3 DEF T
    <2>5. M(N) = K + 1 /\ K + 1 \in 1..L BY <1>1, <1>2, <1>10
    <2>6. walk[N].m = A(K + 1) BY <2>4, <2>5 DEF Good
    <2> QED BY <1>1, <1>3, <1>5, <1>10, <2>5, <2>6 DEF K, L
  <1> QED BY <1>9, <1>10

-----------------------------------------------------------------------------
(* The links implement the sequences.                                         *)

LInv == \E qs : Rings(links, qs)

LEMMA LinksStart == LinksInit => LInv /\ Queues!Init
  <1> SUFFICES ASSUME LinksInit PROVE LInv /\ Queues!Init OBVIOUS
  <1> DEFINE qs == [h \in Heads |-> <<>>]
  <1>1. <<>> \in Rows /\ Len(<<>>) = 0 BY RowsAre DEF IsInjective
  <1>2. Typed(links) /\ \A h \in Heads : links.next[h] = h /\ links.prev[h] = h
    BY DEF LinksInit, Typed, Nodes
  <1>3. \A h \in Heads : Linked(links, h, <<>>) BY <1>1, <1>2 DEF Linked, At
  <1>4. qs \in [Heads -> Rows] /\ \A h \in Heads : qs[h] = <<>> BY <1>1
  <1> HIDE DEF qs
  <1>5. Rings(links, qs) BY <1>1, <1>2, <1>3, <1>4 DEF Rings, Disjoint
  <1>6. Sequences(links) = [h \in Heads |-> <<>>] BY <1>5, ReadIs DEF qs
  <1> QED BY <1>5, <1>6 DEF LInv, Queues!Init, LinksInit, Sequences

\* The heads' elements, and those that are in no queue.
LEMMA QueuedIs ==
    ASSUME NEW qs, Rings(links, qs)
    PROVE  /\ \A h \in Heads : Queued(h) = {qs[h][i] : i \in 1..Len(qs[h])}
           /\ \A x \in Elements : x \in Unqueued <=>
                 \A h \in Heads : \A i \in 1..Len(qs[h]) : qs[h][i] # x
           /\ \A h \in Heads : Empty(h) <=> qs[h] = <<>>
  <1>1. \A h \in Heads : qs[h] \in Rows /\ Linked(links, h, qs[h]) BY DEF Rings
  <1>2. \A h \in Heads : Queued(h) = {qs[h][i] : i \in 1..Len(qs[h])}
    <2> TAKE h \in Heads
    <2>1. Queued(h) = {qs[h][i] : i \in DOMAIN qs[h]} BY QueueOfIs DEF Queued, ToSet
    <2>2. DOMAIN qs[h] = 1..Len(qs[h]) BY <1>1, RowIs
    <2> QED BY <2>1, <2>2
  <1>3. \A x \in Elements : x \in Unqueued <=> \A h \in Heads : x \notin Queued(h) BY DEF Unqueued
  <1>4. \A h \in Heads : Empty(h) <=> qs[h] = <<>> BY <1>1, RingEnds DEF Empty
  <1>5. \A x \in Elements : x \in Unqueued <=>
           \A h \in Heads : \A i \in 1..Len(qs[h]) : qs[h][i] # x
    BY <1>2, <1>3
  <1> QED BY <1>2, <1>4, <1>5

\* The operators of sequences, as HkyQueues has them.
LEMMA SameOperators ==
    /\ \A s : Queues!ToSet(s) = ToSet(s)
    /\ \A s, i, e : Queues!InsertAt(s, i, e) = InsertAt(s, i, e)
    /\ \A s, i : Queues!RemoveAt(s, i) = RemoveAt(s, i)
  BY DEF Queues!ToSet, ToSet, Queues!InsertAt, InsertAt, Queues!RemoveAt, RemoveAt

LEMMA ReadNext == [h \in Heads |-> QueueOf(links, h)]' = Sequences(links')
  BY DEF Sequences

\* A step of the links is one of the sequences.
LEMMA InsertStep ==
    ASSUME NEW qs, Rings(links, qs), Insert
    PROVE  LInv' /\ Queues!Insert
  <1>2. \A h \in Heads : qs[h] \in Rows /\ Linked(links, h, qs[h]) /\ Len(qs[h]) \in Nat
    BY RowIs DEF Rings
  <1>3. PICK x \in Unqueued : \/ \E h \in Heads : links' = InsertTail(links, h, x)
                              \/ \E p \in Nodes \ Unqueued : links' = InsertAfter(links, p, x)
    BY Zenon DEF Insert
  <1>4. x \in Elements BY DEF Unqueued
  <1>5. \A g \in Heads : \A j \in 1..Len(qs[g]) : qs[g][j] # x BY <1>4, QueuedIs
  <1>6. \E h \in Heads : \E i \in 1..(Len(qs[h]) + 1) :
           links' = InsertAfter(links, At(h, qs[h], i - 1), x)
    <2>1. CASE \E h \in Heads : links' = InsertTail(links, h, x)
      <3>1. PICK h \in Heads : links' = InsertTail(links, h, x) BY <2>1
      <3> DEFINE q == qs[h]
                 p == At(h, q, Len(q))
      <3>2. q \in Rows /\ Linked(links, h, q) /\ Len(q) \in Nat BY <1>2
      <3> HIDE DEF q
      <3>3. links.prev[h] = p BY <3>2, RingEnds
      <3>4. links.next[p] = h
        <4>1. links.next[At(h, q, Len(q))] = At(h, q, Len(q) + 1) BY <3>2 DEF Linked
        <4> QED BY <3>2, <4>1, AtIs
      <3>5. p \in Nodes /\ h \in Nodes /\ x \in Nodes BY <1>4, <3>2, AtIs DEF Nodes
      <3>6. x # h BY <1>4, QueueAssumption
      <3>7. x # p
        <4>1. InRing(h, q, p) BY <3>2, AtInRing
        <4> QED BY <1>5, <3>6, <4>1 DEF InRing, q
      <3>8. InsertTail(links, h, x) = InsertAfter(links, links.prev[h], x)
        <4>1. Typed(links) BY DEF Rings
        <4> HIDE DEF p
        <4> QED BY <3>3, <3>4, <3>5, <3>6, <3>7, <4>1, InsertTailIs
      <3>9. Len(q) + 1 \in 1..(Len(q) + 1) /\ (Len(q) + 1) - 1 = Len(q) BY <3>2
      <3> QED BY <3>1, <3>3, <3>8, <3>9 DEF q
    <2>2. CASE \E p \in Nodes \ Unqueued : links' = InsertAfter(links, p, x)
      <3>1. PICK p \in Nodes \ Unqueued : links' = InsertAfter(links, p, x) BY <2>2
      <3>2. CASE p \in Heads
        <4>1. At(p, qs[p], 1 - 1) = p BY <1>2, <3>2, AtIs
        <4>2. 1 \in 1..(Len(qs[p]) + 1) BY <1>2, <3>2
        <4> QED BY <3>1, <3>2, <4>1, <4>2
      <3>3. CASE p \notin Heads
        <4>1. p \in Elements BY <3>3 DEF Nodes
        <4>2. PICK h \in Heads : \E i \in 1..Len(qs[h]) : qs[h][i] = p BY <4>1, QueuedIs
        <4>3. PICK i \in 1..Len(qs[h]) : qs[h][i] = p BY <4>2
        <4>4. i + 1 \in 1..(Len(qs[h]) + 1) /\ (i + 1) - 1 = i BY <1>2
        <4>5. At(h, qs[h], i) = p BY <1>2, <4>3, AtIs
        <4> QED BY <3>1, <4>4, <4>5
      <3> QED BY <3>2, <3>3
    <2> QED BY <1>3, <2>1, <2>2
  <1>7. PICK h \in Heads : \E i \in 1..(Len(qs[h]) + 1) :
           links' = InsertAfter(links, At(h, qs[h], i - 1), x)
    BY <1>6
  <1>8. PICK i \in 1..(Len(qs[h]) + 1) : links' = InsertAfter(links, At(h, qs[h], i - 1), x)
    BY <1>7
  <1> DEFINE rs == [qs EXCEPT ![h] = InsertAt(qs[h], i, x)]
  <1>9. Rings(links', rs) BY <1>4, <1>5, <1>8, RingsInsert
  <1>10. LInv' BY <1>9 DEF LInv
  <1>11. Queues!Insert
    <2>1. Sequences(links) = qs /\ Sequences(links') = rs BY <1>9, ReadIs
    <2>2. \A g \in Heads : x \notin ToSet(qs[g])
      <3> TAKE g \in Heads
      <3>1. DOMAIN qs[g] = 1..Len(qs[g]) BY <1>2, RowIs
      <3> QED BY <1>5, <3>1 DEF ToSet
    <2>3. middle' = NULL BY DEF Insert
    <2> HIDE DEF rs
    <2>4. rs = [qs EXCEPT ![h] = InsertAt(@, i, x)] BY DEF rs
    <2> DEFINE Allowed(S, T) ==
                  /\ \E g \in Heads, y \in Elements : \E k \in 1..(Len(S[g]) + 1) :
                        /\ \A f \in Heads : y \notin Queues!ToSet(S[f])
                        /\ T = [S EXCEPT ![g] = Queues!InsertAt(@, k, y)]
                  /\ middle' = NULL
    <2>5. Allowed(Sequences(links), Sequences(links')) => Queues!Insert
      BY ReadNext, Zenon DEF Queues!Insert, Queues!Free, Sequences
    <2>6. Allowed(qs, rs) BY <1>4, <2>2, <2>3, <2>4, SameOperators
    <2> HIDE DEF Allowed
    <2> QED BY <2>1, <2>5, <2>6
  <1> QED BY <1>10, <1>11

LEMMA TakeOutStep ==
    ASSUME NEW qs, Rings(links, qs), TakeOut
    PROVE  LInv' /\ Queues!TakeOut
  <1>1. \A h \in Heads : qs[h] \in Rows /\ DOMAIN qs[h] = 1..Len(qs[h]) BY RowIs DEF Rings
  <1>2. PICK x \in Elements \ Unqueued : links' = Unlink(links, x) BY DEF TakeOut
  <1>3. PICK h \in Heads : \E i \in 1..Len(qs[h]) : qs[h][i] = x BY <1>2, QueuedIs
  <1>4. PICK i \in 1..Len(qs[h]) : qs[h][i] = x BY <1>3
  <1> DEFINE rs == [qs EXCEPT ![h] = RemoveAt(qs[h], i)]
  <1>5. Rings(links', rs) BY <1>2, <1>4, RingsRemove
  <1>6. LInv' BY <1>5 DEF LInv
  <1>7. Queues!TakeOut
    <2>1. Sequences(links) = qs /\ Sequences(links') = rs BY <1>5, ReadIs
    <2>2. middle' = NULL BY DEF TakeOut
    <2>3. i \in DOMAIN qs[h] BY <1>1
    <2> HIDE DEF rs
    <2>4. rs = [qs EXCEPT ![h] = RemoveAt(@, i)] BY DEF rs
    <2> DEFINE Allowed(S, T) ==
                  /\ \E g \in Heads : \E k \in DOMAIN S[g] :
                        T = [S EXCEPT ![g] = Queues!RemoveAt(@, k)]
                  /\ middle' = NULL
    <2>5. Allowed(Sequences(links), Sequences(links')) => Queues!TakeOut
      BY ReadNext, Zenon DEF Queues!TakeOut, Sequences
    <2>6. Allowed(qs, rs) BY <2>2, <2>3, <2>4, SameOperators
    <2> HIDE DEF Allowed
    <2> QED BY <2>1, <2>5, <2>6
  <1> QED BY <1>6, <1>7

LEMMA SplitStep ==
    ASSUME NEW qs, Rings(links, qs), Split
    PROVE  LInv' /\ Queues!Split
  <1>1. \A h \in Heads : qs[h] \in Rows /\ DOMAIN qs[h] = 1..Len(qs[h]) BY RowIs DEF Rings
  <1>2. PICK h \in Heads, n \in Heads :
           \E x \in Queued(h) : Empty(n) /\ links' = SplitAt(links, h, x, n)
    BY DEF Split
  <1>3. PICK x \in Queued(h) : Empty(n) /\ links' = SplitAt(links, h, x, n) BY <1>2
  <1>4. qs[n] = <<>> BY <1>3, QueuedIs
  <1>5. PICK i \in 1..Len(qs[h]) : qs[h][i] = x
    <2>1. x \in {qs[h][i] : i \in 1..Len(qs[h])} BY <1>3, QueuedIs
    <2> QED BY <2>1
  <1> DEFINE rs == [qs EXCEPT ![h] = SubSeq(qs[h], 1, i - 1),
                              ![n] = SubSeq(qs[h], i, Len(qs[h]))]
  <1>6. h # n /\ Rings(links', rs) BY <1>3, <1>4, <1>5, RingsSplit
  <1>7. LInv' BY <1>6 DEF LInv
  <1>8. Queues!Split
    <2>1. Sequences(links) = qs /\ Sequences(links') = rs BY <1>6, ReadIs
    <2>2. middle' = NULL BY DEF Split
    <2>3. i \in DOMAIN qs[h] BY <1>1
    <2> DEFINE Allowed(S, T) ==
                  /\ \E g, f \in Heads : \E k \in DOMAIN S[g] :
                        /\ S[f] = <<>>
                        /\ T = [S EXCEPT ![g] = SubSeq(@, 1, k - 1),
                                         ![f] = SubSeq(S[g], k, Len(S[g]))]
                  /\ middle' = NULL
    <2>4. Allowed(Sequences(links), Sequences(links')) => Queues!Split
      BY ReadNext, Zenon DEF Queues!Split, Sequences
    <2>5. Allowed(qs, rs) BY <1>4, <2>2, <2>3
    <2> HIDE DEF Allowed, rs
    <2> QED BY <2>1, <2>4, <2>5
  <1> QED BY <1>7, <1>8

\* Adding to an empty queue is splitting the other in front of its first.
LEMMA AddStep ==
    ASSUME NEW qs, Rings(links, qs), Add
    PROVE  LInv' /\ Queues!Split
  <1>1. \A h \in Heads : qs[h] \in Rows /\ DOMAIN qs[h] = 1..Len(qs[h]) /\ Len(qs[h]) \in Nat
                         /\ (qs[h] = <<>> <=> Len(qs[h]) = 0)
    BY RowIs DEF Rings
  <1>2. PICK h \in Heads, n \in Heads :
           Empty(h) /\ ~Empty(n) /\ links' = QueueInit(AddTo(links, h, n), n)
    BY DEF Add
  <1>3. qs[h] = <<>> /\ qs[n] # <<>> BY <1>2, QueuedIs
  <1> DEFINE rs == [qs EXCEPT ![n] = SubSeq(qs[n], 1, 0),
                              ![h] = SubSeq(qs[n], 1, Len(qs[n]))]
  <1>6. h # n /\ Rings(links', rs) BY <1>2, <1>3, RingsAdd
  <1>7. LInv' BY <1>6 DEF LInv
  <1>8. Queues!Split
    <2>1. Sequences(links) = qs /\ Sequences(links') = rs BY <1>6, ReadIs
    <2>2. middle' = NULL BY DEF Add
    <2>3. 1 \in DOMAIN qs[n] /\ 1 - 1 = 0 BY <1>1, <1>3
    <2> DEFINE Allowed(S, T) ==
                  /\ \E g, f \in Heads : \E k \in DOMAIN S[g] :
                        /\ S[f] = <<>>
                        /\ T = [S EXCEPT ![g] = SubSeq(@, 1, k - 1),
                                         ![f] = SubSeq(S[g], k, Len(S[g]))]
                  /\ middle' = NULL
    <2>4. Allowed(Sequences(links), Sequences(links')) => Queues!Split
      BY ReadNext, Zenon DEF Queues!Split, Sequences
    <2>5. Allowed(qs, rs) BY <1>3, <2>2, <2>3
    <2> HIDE DEF Allowed, rs
    <2> QED BY <2>1, <2>4, <2>5
  <1> QED BY <1>7, <1>8

LEMMA SortStepIs ==
    ASSUME NEW qs, Rings(links, qs), Sort
    PROVE  LInv' /\ Queues!Sort
  <1>1. \A h \in Heads : qs[h] \in Rows /\ Linked(links, h, qs[h]) BY DEF Rings
  <1>2. PICK h \in Heads : links.next[h] # links.prev[h] /\ links' = QueueSort(links, h)
    BY DEF Sort
  <1> DEFINE q == qs[h]
  <1>3. q \in Rows /\ DOMAIN q = 1..Len(q) /\ Len(q) \in Nat BY <1>1, RowIs
  <1>4. Len(q) >= 2 BY <1>1, <1>2, RingEnds
  <1>5. PICK t : Rings(links', [qs EXCEPT ![h] = t]) /\ SortedTo(q, t, Len(q))
    BY <1>2, <1>4, RingsSort
  <1> DEFINE rs == [qs EXCEPT ![h] = t]
  <1>6. Rings(links', rs) BY <1>5
  <1>7. LInv' BY <1>6 DEF LInv
  <1>8. Queues!Sort
    <2>1. Sequences(links) = qs /\ Sequences(links') = rs BY <1>6, ReadIs
    <2>2. middle' = NULL BY DEF Sort
    <2> HIDE DEF q
    <2>3. t \in Rows /\ Len(t) = Len(q) BY <1>5 DEF SortedTo
    <2>4. t \in Seq(Elements) /\ DOMAIN t = 1..Len(q) BY <2>3, RowIs
    <2>5. \A i \in DOMAIN q : \E m \in DOMAIN q : t[i] = q[m] BY <1>3, <1>5 DEF SortedTo
    <2>6. \A m \in DOMAIN q : \E i \in DOMAIN q : t[i] = q[m] BY <1>3, <1>5 DEF SortedTo
    <2>7. \A i, j \in DOMAIN q : i < j => Goes(q, t[i], t[j]) BY <1>3, <1>5 DEF SortedTo
    <2>8. ToSet(t) = ToSet(q) BY <1>3, <2>4, <2>5, <2>6 DEF ToSet
    <2>9. t \in [DOMAIN q -> ToSet(q)]
      <3>1. t = [i \in 1..Len(q) |-> t[i]] BY <2>4
      <3>2. \A i \in 1..Len(q) : t[i] \in ToSet(q) BY <1>3, <2>5 DEF ToSet
      <3> QED BY <1>3, <3>1, <3>2
    <2>10. Queues!Ordered(t, q) BY <1>3, <2>4, <2>7, Zenon DEF Queues!Ordered, Goes
    <2> DEFINE Allowed(S, T) ==
                  /\ \E g \in Heads : \E r \in [DOMAIN S[g] -> Queues!ToSet(S[g])] :
                        /\ Queues!ToSet(r) = Queues!ToSet(S[g])
                        /\ Queues!Ordered(r, S[g])
                        /\ T = [S EXCEPT ![g] = r]
                  /\ middle' = NULL
    <2>11. Allowed(Sequences(links), Sequences(links')) => Queues!Sort
      BY ReadNext, Zenon DEF Queues!Sort, Sequences
    <2>12. Allowed(qs, rs)
      <3>1. /\ t \in [DOMAIN q -> Queues!ToSet(q)] /\ Queues!ToSet(t) = Queues!ToSet(q)
            /\ Queues!Ordered(t, q)
        BY <2>8, <2>9, <2>10, SameOperators
      <3> QED BY <2>2, <3>1, Zenon DEF q
    <2> HIDE DEF Allowed, rs
    <2> QED BY <2>1, <2>11, <2>12
  <1> QED BY <1>7, <1>8

LEMMA MiddleStep ==
    ASSUME NEW qs, Rings(links, qs), Middle
    PROVE  LInv' /\ Queues!Middle
  <1>1. \A h \in Heads : qs[h] \in Rows /\ Linked(links, h, qs[h]) BY DEF Rings
  <1>2. PICK h \in Heads : middle' = QueueMiddle(h) BY DEF Middle
  <1>3. links' = links BY DEF Middle
  <1>4. middle' = IF qs[h] = <<>> THEN h ELSE qs[h][(Len(qs[h]) \div 2) + 1]
    BY <1>1, <1>2, MiddleIs
  <1>5. LInv' BY <1>3 DEF LInv
  <1>6. Queues!Middle
    <2>1. Sequences(links) = qs /\ Sequences(links') = qs BY <1>3, ReadIs
    <2> DEFINE Allowed(S, T) ==
                  /\ \E g \in Heads :
                        middle' = IF S[g] = <<>> THEN g ELSE S[g][(Len(S[g]) \div 2) + 1]
                  /\ T = S
    <2>2. Allowed(Sequences(links), Sequences(links')) => Queues!Middle
      BY ReadNext, Zenon DEF Queues!Middle, Sequences
    <2>3. Allowed(qs, qs) BY <1>4
    <2> HIDE DEF Allowed
    <2> QED BY <2>1, <2>2, <2>3
  <1> QED BY <1>5, <1>6

\* The links of every head stay a ring of rows that share no element, and each
\* operation of core/hky_queue.h does to them what it promises.
THEOREM LinksImplementSequences == ContainersSpec => []LInv /\ QueuesRight
  <1>1. LinksInit => LInv /\ Queues!Init BY LinksStart
  <1>2. LInv /\ [LinksNext]_queueVars => LInv' /\ [Queues!Next]_Queues!vars
    <2> SUFFICES ASSUME LInv, [LinksNext]_queueVars PROVE LInv' /\ [Queues!Next]_Queues!vars
      OBVIOUS
    <2>1. PICK qs : Rings(links, qs) BY DEF LInv
    <2>2. CASE Insert BY <2>1, <2>2, InsertStep DEF Queues!Next
    <2>3. CASE TakeOut BY <2>1, <2>3, TakeOutStep DEF Queues!Next
    <2>4. CASE Split BY <2>1, <2>4, SplitStep DEF Queues!Next
    <2>5. CASE Add BY <2>1, <2>5, AddStep DEF Queues!Next
    <2>6. CASE Sort BY <2>1, <2>6, SortStepIs DEF Queues!Next
    <2>7. CASE Middle BY <2>1, <2>7, MiddleStep DEF Queues!Next
    <2>8. CASE UNCHANGED queueVars
      <3>1. links' = links /\ middle' = middle BY <2>8 DEF queueVars
      <3>2. [h \in Heads |-> QueueOf(links, h)]' = [h \in Heads |-> QueueOf(links, h)]
        BY <3>1
      <3> QED BY <2>1, <3>1, <3>2 DEF Queues!vars, LInv
    <2> QED BY <2>2, <2>3, <2>4, <2>5, <2>6, <2>7, <2>8 DEF LinksNext
  <1> QED BY <1>1, <1>2, EitherAlone, PTL DEF LinksSpec, QueuesRight, Queues!Spec
=============================================================================
