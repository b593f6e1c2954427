--------------------------- MODULE HkyPoolProofs ----------------------------
(***************************************************************************)
(* Memory safety of the pool for every pool size, request size and number  *)
(* of blocks.  The inductive invariant adds to MemorySafe that each bump   *)
(* pointer lies between its block's header and its end: the bump pointer   *)
(* only grows, so a new region starts where every older one has ended.     *)
(***************************************************************************)
EXTENDS HkyPool, SequenceTheorems

GoodPool(p) ==
    /\ p \in [blocks : Seq(Block), current : Nat]
    /\ p.current \in 1..Len(p.blocks)
    /\ \A j \in 1..Len(p.blocks) : p.blocks[j].last >= Base(j)

PoolInv == TypeOK /\ GoodPool(pool) /\ MemorySafe

-----------------------------------------------------------------------------
\* Aligning moves up, and never over the end of a block: the size of a block
\* is a multiple of the alignment, which is what the unsigned comparison of
\* palloc_small relies on.
LEMMA AlignUpFacts ==
    ASSUME NEW m \in Nat
    PROVE  AlignUp(m) \in Nat /\ m <= AlignUp(m) /\ (m <= PoolSize => AlignUp(m) <= PoolSize)
  <1>1. CASE Alignment = 4
    <2>1. PoolSize \in Nat /\ PoolSize % 4 = 0 BY <1>1, PoolAssumption
    <2>2. AlignUp(m) = ((m + 3) \div 4) * 4 BY <1>1 DEF AlignUp
    <2> QED BY <2>1, <2>2
  <1>2. CASE Alignment = 8
    <2>1. PoolSize \in Nat /\ PoolSize % 8 = 0 BY <1>2, PoolAssumption
    <2>2. AlignUp(m) = ((m + 7) \div 8) * 8 BY <1>2 DEF AlignUp
    <2> QED BY <2>1, <2>2
  <1> QED BY <1>1, <1>2, PoolAssumption

LEMMA SizeFacts ==
    /\ MaxSmall \in Nat
    /\ DataHeader <= Header
    /\ \A size \in Nat : size <= MaxSmall => AlignUp(DataHeader) + size <= PoolSize
    /\ AlignUp(DataHeader) + LargeHeader <= PoolSize
  <1>1. AlignUp(DataHeader) \in Nat /\ DataHeader <= AlignUp(DataHeader)
    BY AlignUpFacts, PoolAssumption
  <1> QED BY <1>1, PoolAssumption DEF MaxSmall, Smaller

LEMMA GoodPoolFacts ==
    ASSUME NEW p, GoodPool(p)
    PROVE  /\ p.blocks \in Seq(Block) /\ p.current \in Nat
           /\ Len(p.blocks) \in Nat /\ DOMAIN p.blocks = 1..Len(p.blocks)
           /\ \A i \in 1..Len(p.blocks) :
                 /\ p.blocks[i] \in Block
                 /\ p.blocks[i].last \in Nat /\ p.blocks[i].last <= PoolSize
                 /\ p.blocks[i].failed \in Nat
                 /\ p.blocks[i].last >= Base(i)
  <1>1. p.blocks \in Seq(Block) /\ p.current \in Nat BY DEF GoodPool
  <1>2. Len(p.blocks) \in Nat /\ DOMAIN p.blocks = 1..Len(p.blocks)
        /\ \A i \in 1..Len(p.blocks) : p.blocks[i] \in Block
    BY <1>1
  <1>3. \A b \in Block : b.last \in Nat /\ b.last <= PoolSize /\ b.failed \in Nat
    BY PoolAssumption DEF Block
  <1> QED BY <1>1, <1>2, <1>3 DEF GoodPool

LEMMA LeqTrans == \A x, y, z \in Nat : x <= y /\ y <= z => x <= z
OBVIOUS

\* A region that starts at or after the old bump pointer of its block, or lies
\* in a block the pool did not have, is safe to add.
LEMMA AppendSafe ==
    ASSUME NEW p, GoodPool(p), NEW q, GoodPool(q),
           NEW s \in Seq(Region), SafeIn(p, s), NEW c \in Region,
           Len(p.blocks) <= Len(q.blocks),
           \A i \in 1..Len(p.blocks) : p.blocks[i].last <= q.blocks[i].last,
           c.blk \in 1..Len(q.blocks), c.lo >= Base(c.blk),
           c.hi <= q.blocks[c.blk].last,
           c.blk \in 1..Len(p.blocks) => c.lo >= p.blocks[c.blk].last
    PROVE  s \o <<c>> \in Seq(Region) /\ SafeIn(q, s \o <<c>>)
  <1> DEFINE t == s \o <<c>>
  <1>1. /\ t \in Seq(Region) /\ Len(t) = Len(s) + 1 /\ Len(s) \in Nat
        /\ \A i \in 1..Len(s) : t[i] = s[i]
        /\ t[Len(s) + 1] = c
    OBVIOUS
  <1>2. /\ p.blocks \in Seq(Block) /\ q.blocks \in Seq(Block)
        /\ \A i \in 1..Len(p.blocks) : p.blocks[i].last \in Nat
        /\ \A i \in 1..Len(q.blocks) : q.blocks[i].last \in Nat
        /\ DOMAIN p.blocks = 1..Len(p.blocks) /\ DOMAIN q.blocks = 1..Len(q.blocks)
        /\ Len(p.blocks) \in Nat /\ Len(q.blocks) \in Nat
    BY GoodPoolFacts
  <1>3. \A i \in 1..Len(s) : s[i] \in Region OBVIOUS
  <1>4. \A i \in 1..Len(s) :
           /\ s[i].blk \in 1..Len(p.blocks) /\ s[i].lo >= Base(s[i].blk)
           /\ s[i].hi <= p.blocks[s[i].blk].last
    BY <1>2 DEF SafeIn
  <1>5. \A i \in 1..Len(s) : s[i].hi <= q.blocks[s[i].blk].last
    <2> TAKE i \in 1..Len(s)
    <2> DEFINE b == s[i].blk
    <2>1. b \in 1..Len(p.blocks) /\ b \in 1..Len(q.blocks) BY <1>2, <1>4
    <2>2. /\ p.blocks[b].last \in Nat /\ q.blocks[b].last \in Nat
          /\ p.blocks[b].last <= q.blocks[b].last
      BY <2>1, <1>2
    <2>3. s[i].hi \in Nat BY <1>3 DEF Region
    <2>4. s[i].hi <= p.blocks[b].last BY <1>4
    <2> HIDE DEF b
    <2>5. s[i].hi <= q.blocks[b].last BY <2>2, <2>3, <2>4, LeqTrans
    <2> QED BY <2>5 DEF b
  <1>6. \A i \in 1..Len(s) : ~Overlaps(s[i], c) /\ ~Overlaps(c, s[i])
    <2> TAKE i \in 1..Len(s)
    <2>1. CASE s[i].blk # c.blk BY <2>1 DEF Overlaps
    <2>2. CASE s[i].blk = c.blk
      <3>1. s[i].hi <= p.blocks[c.blk].last /\ c.lo >= p.blocks[c.blk].last
            /\ c.blk \in 1..Len(p.blocks)
        BY <1>4, <2>2
      <3>2. p.blocks[c.blk].last \in Nat BY <3>1, <1>2
      <3>3. s[i].hi \in Nat /\ c.lo \in Nat BY <1>3 DEF Region
      <3>4. s[i].hi <= c.lo BY <3>1, <3>2, <3>3
      <3> QED BY <3>3, <3>4 DEF Overlaps
    <2> QED BY <2>1, <2>2
  <1>7. \A i, j \in 1..Len(s) : i # j => ~Overlaps(s[i], s[j])
    BY DEF SafeIn
  <1>8. \A i \in DOMAIN t :
           /\ t[i].blk \in DOMAIN q.blocks /\ t[i].lo >= Base(t[i].blk)
           /\ t[i].hi <= q.blocks[t[i].blk].last
    <2> TAKE i \in DOMAIN t
    <2>1. CASE i \in 1..Len(s)
      <3>1. t[i] = s[i] BY <1>1, <2>1
      <3> QED BY <2>1, <3>1, <1>2, <1>4, <1>5
    <2>2. CASE i = Len(s) + 1
      <3>1. t[i] = c BY <1>1, <2>2
      <3> QED BY <3>1, <1>2
    <2> QED BY <2>1, <2>2, <1>1
  <1>9. \A i, j \in DOMAIN t : i # j => ~Overlaps(t[i], t[j])
    <2> SUFFICES ASSUME NEW i \in DOMAIN t, NEW j \in DOMAIN t, i # j
                 PROVE  ~Overlaps(t[i], t[j])
      OBVIOUS
    <2>0. i \in 1..(Len(s) + 1) /\ j \in 1..(Len(s) + 1) BY <1>1
    <2>1. CASE i \in 1..Len(s) /\ j \in 1..Len(s) BY <2>1, <1>1, <1>7
    <2>2. CASE i \in 1..Len(s) /\ j = Len(s) + 1 BY <2>2, <1>1, <1>6
    <2>3. CASE i = Len(s) + 1 /\ j \in 1..Len(s) BY <2>3, <1>1, <1>6
    <2> QED BY <2>0, <2>1, <2>2, <2>3, <1>1
  <1> QED BY <1>1, <1>8, <1>9 DEF SafeIn

-----------------------------------------------------------------------------
\* palloc_block's walk changes no bump pointer and leaves "current" on a block.
LEMMA AgedGood ==
    ASSUME NEW p, GoodPool(p)
    PROVE  /\ Aged(p) \in [blocks : Seq(Block), current : Nat]
           /\ Len(Aged(p).blocks) = Len(p.blocks)
           /\ Aged(p).current \in 1..Len(p.blocks)
           /\ \A i \in 1..Len(p.blocks) : Aged(p).blocks[i].last = p.blocks[i].last
  <1> DEFINE searched == p.current .. Len(p.blocks) - 1
             tired == {i \in searched : p.blocks[i].failed > 4}
             old(i) == [p.blocks[i] EXCEPT !.failed = @ + 1]
             e(i) == IF i \in searched THEN old(i) ELSE p.blocks[i]
             bs == [i \in 1..Len(p.blocks) |-> e(i)]
             cur == IF tired = {} THEN p.current ELSE LastOf(tired) + 1
  <1>1. Aged(p) = [blocks |-> bs, current |-> cur] BY DEF Aged
  <1>2. \A i \in 1..Len(p.blocks) : e(i) \in Block /\ e(i).last = p.blocks[i].last
    <2> TAKE i \in 1..Len(p.blocks)
    <2>1. p.blocks[i] \in Block BY GoodPoolFacts
    <2>2. old(i) \in Block /\ old(i).last = p.blocks[i].last BY <2>1 DEF Block
    <2> QED BY <2>1, <2>2
  <1>3. bs \in Seq(Block) /\ Len(bs) = Len(p.blocks)
    <2>1. Len(p.blocks) \in Nat BY GoodPoolFacts
    <2> HIDE DEF e
    <2> QED BY <1>2, <2>1
  <1>4. cur \in 1..Len(p.blocks)
    <2>1. p.current \in 1..Len(p.blocks) /\ Len(p.blocks) \in Nat
      BY GoodPoolFacts DEF GoodPool
    <2>2. CASE tired # {}
      <3>1. tired \in SUBSET (0 .. Len(p.blocks)) BY <2>1
      <3>2. LastOf(tired) \in tired BY <3>1, <2>1, <2>2, LastOfIn
      <3> QED BY <3>2, <2>1, <2>2
    <2> QED BY <2>1, <2>2
  <1> HIDE DEF cur, e
  <1> QED BY <1>1, <1>2, <1>3, <1>4, GoodPoolFacts

\* One small allocation, by whichever of its outcomes, keeps the pool well
\* formed and every region safe.  The size fits a fresh block: palloc_block
\* does not check it.
LEMMA SmallAllocSafe ==
    ASSUME NEW p, GoodPool(p), NEW s \in Seq(Region), SafeIn(p, s),
           NEW size \in Nat, AlignUp(DataHeader) + size <= PoolSize,
           NEW align \in BOOLEAN, NEW r \in SmallAlloc(p, size, align)
    PROVE  GoodPool(r.pool) /\ s \o r.at \in Seq(Region) /\ SafeIn(r.pool, s \o r.at)
  <1> DEFINE C == Candidates(p, size, align)
  <1>0. /\ AlignUp(DataHeader) \in Nat /\ DataHeader <= AlignUp(DataHeader)
        /\ DataHeader \in Nat /\ PoolSize \in Nat
    BY AlignUpFacts, PoolAssumption
  <1>1. CASE C # {}
    <2> DEFINE j == FirstOf(C)
               b == p.blocks[j]
               m == Start(b, align)
               c == [blk |-> j, lo |-> m, hi |-> m + size]
               n == [b EXCEPT !.last = m + size]
               q == [p EXCEPT !.blocks = [p.blocks EXCEPT ![j] = n]]
    <2>1. r = [pool |-> q, at |-> <<c>>]
      BY <1>1 DEF SmallAlloc, TakeFrom
    <2>2. j \in C
      <3>1. C \in SUBSET Nat BY GoodPoolFacts DEF Candidates
      <3> QED BY <3>1, <1>1, FirstOfIn
    <2>3. j \in 1..Len(p.blocks) /\ j \in Nat /\ (m > PoolSize \/ PoolSize - m >= size)
      BY <2>2, GoodPoolFacts DEF Candidates, Fits, GoodPool
    <2>4. b \in Block /\ b.last \in Nat /\ b.last <= PoolSize /\ b.last >= Base(j)
      BY <2>3, GoodPoolFacts
    <2>5. m \in Nat /\ m >= b.last /\ m <= PoolSize
      <3>1. CASE align
        <4>1. m = AlignUp(b.last) BY <3>1 DEF Start
        <4> HIDE DEF m, b
        <4> QED BY <4>1, <2>4, AlignUpFacts
      <3>2. CASE ~align
        <4>1. m = b.last BY <3>2 DEF Start
        <4> QED BY <4>1, <2>4
      <3> QED BY <3>1, <3>2
    <2>6. m + size \in Nat /\ m + size <= PoolSize /\ m + size >= b.last
      BY <2>3, <2>5, <2>4, <1>0
    <2>7. n \in Block /\ n.last = m + size
      BY <2>4, <2>6, <1>0 DEF Block
    <2>8. /\ q.blocks = [p.blocks EXCEPT ![j] = n] /\ q.current = p.current
          /\ q \in [blocks : Seq(Block), current : Nat]
          /\ Len(q.blocks) = Len(p.blocks)
          /\ \A i \in 1..Len(p.blocks) : q.blocks[i] = IF i = j THEN n ELSE p.blocks[i]
      <3>1. p \in [blocks : Seq(Block), current : Nat] BY DEF GoodPool
      <3>2. q.blocks = [p.blocks EXCEPT ![j] = n] /\ q.current = p.current BY <3>1
      <3>3. /\ [p.blocks EXCEPT ![j] = n] \in Seq(Block)
            /\ Len([p.blocks EXCEPT ![j] = n]) = Len(p.blocks)
            /\ \A i \in 1..Len(p.blocks) :
                  [p.blocks EXCEPT ![j] = n][i] = IF i = j THEN n ELSE p.blocks[i]
        BY <2>3, <2>7, GoodPoolFacts, ExceptSeq
      <3> QED BY <3>1, <3>2, <3>3
    <2>9. Base(j) \in Nat BY PoolAssumption DEF Base
    <2>10. GoodPool(q)
      <3>1. ASSUME NEW i \in 1..Len(q.blocks) PROVE q.blocks[i].last >= Base(i)
        <4>1. CASE i = j BY <4>1, <2>3, <2>4, <2>6, <2>7, <2>8, <2>9
        <4>2. CASE i # j BY <4>2, <2>8, GoodPoolFacts
        <4> QED BY <4>1, <4>2
      <3> QED BY <3>1, <2>8 DEF GoodPool
    <2>11. \A i \in 1..Len(p.blocks) : p.blocks[i].last <= q.blocks[i].last
      <3> TAKE i \in 1..Len(p.blocks)
      <3>1. CASE i = j BY <3>1, <2>3, <2>6, <2>7, <2>8
      <3>2. CASE i # j BY <3>2, <2>8, GoodPoolFacts
      <3> QED BY <3>1, <3>2
    <2>12. c \in Region /\ c.blk = j /\ c.lo = m /\ c.hi = m + size
      BY <2>3, <2>5, <2>6 DEF Region
    <2>13. c.lo >= Base(c.blk) /\ c.hi <= q.blocks[c.blk].last /\ c.lo >= p.blocks[c.blk].last
      BY <2>12, <2>4, <2>5, <2>6, <2>7, <2>8, <2>3, <2>9
    <2> HIDE DEF q, c
    <2>14. /\ Len(p.blocks) <= Len(q.blocks) /\ c.blk \in 1..Len(q.blocks)
           /\ c.blk \in 1..Len(p.blocks) => c.lo >= p.blocks[c.blk].last
      BY <2>3, <2>8, <2>12, <2>13, GoodPoolFacts
    <2>15. s \o <<c>> \in Seq(Region) /\ SafeIn(q, s \o <<c>>)
      BY <2>10, <2>11, <2>12, <2>13, <2>14, AppendSafe
    <2> QED BY <2>1, <2>10, <2>15
  <1>2. CASE r = Refused(p)
    BY <1>2 DEF Refused
  <1>3. CASE C = {} /\ r = TakeNew(p, size)
    <2> DEFINE m == AlignUp(DataHeader)
               c == [blk |-> Len(p.blocks) + 1, lo |-> m, hi |-> m + size]
               n == [last |-> m + size, failed |-> 0]
               a == Aged(p)
               q == [a EXCEPT !.blocks = Append(a.blocks, n)]
    <2>1. r = [pool |-> q, at |-> <<c>>]
      BY <1>3 DEF TakeNew
    <2>2. /\ a.blocks \in Seq(Block) /\ a.current \in 1..Len(p.blocks) /\ a.current \in Nat
          /\ a \in [blocks : Seq(Block), current : Nat]
          /\ Len(a.blocks) = Len(p.blocks) /\ Len(p.blocks) \in Nat
          /\ \A i \in 1..Len(p.blocks) : a.blocks[i].last = p.blocks[i].last
      BY AgedGood, GoodPoolFacts
    <2>3. n \in Block /\ n.last = m + size BY <1>0 DEF Block
    <2> HIDE DEF a
    <2>4. /\ q.blocks = Append(a.blocks, n) /\ q.current = a.current
          /\ q \in [blocks : Seq(Block), current : Nat]
          /\ Len(q.blocks) = Len(p.blocks) + 1
          /\ \A i \in 1..Len(p.blocks) : q.blocks[i] = a.blocks[i]
          /\ q.blocks[Len(p.blocks) + 1] = n
      <3>1. q.blocks = Append(a.blocks, n) /\ q.current = a.current BY <2>2
      <3>2. /\ Append(a.blocks, n) \in Seq(Block)
            /\ Len(Append(a.blocks, n)) = Len(p.blocks) + 1
            /\ \A i \in 1..Len(p.blocks) : Append(a.blocks, n)[i] = a.blocks[i]
            /\ Append(a.blocks, n)[Len(p.blocks) + 1] = n
        <4>1. a.blocks \in Seq(Block) /\ n \in Block /\ Len(a.blocks) = Len(p.blocks)
          BY <2>2, <2>3
        <4> DEFINE w == Append(a.blocks, n)
        <4> HIDE DEF n
        <4>2. /\ w \in Seq(Block) /\ Len(w) = Len(a.blocks) + 1
              /\ \A i \in 1..Len(a.blocks) : w[i] = a.blocks[i]
              /\ w[Len(a.blocks) + 1] = n
          <5> HIDE DEF a
          <5> QED BY <4>1, AppendProperties
        <4> HIDE DEF w
        <4>3. /\ w \in Seq(Block) /\ Len(w) = Len(p.blocks) + 1
              /\ \A i \in 1..Len(p.blocks) : w[i] = a.blocks[i]
              /\ w[Len(p.blocks) + 1] = n
          BY <4>1, <4>2
        <4> QED BY <4>3 DEF w
      <3>3. q \in [blocks : Seq(Block), current : Nat]
        <4>1. a \in [blocks : Seq(Block), current : Nat] /\ Append(a.blocks, n) \in Seq(Block)
          BY <2>2, <3>2
        <4> HIDE DEF n
        <4> QED BY <4>1
      <3> HIDE DEF q, n
      <3> QED BY <3>1, <3>2, <3>3
    <2>5. \A i \in 1..Len(p.blocks) : q.blocks[i].last = p.blocks[i].last
      BY <2>2, <2>4
    <2>6. Len(p.blocks) >= 1 BY <2>2
    <2>7. GoodPool(q)
      <3>1. ASSUME NEW i \in 1..Len(q.blocks) PROVE q.blocks[i].last >= Base(i)
        <4>1. CASE i \in 1..Len(p.blocks) BY <4>1, <2>5, GoodPoolFacts
        <4>2. CASE i = Len(p.blocks) + 1
          BY <4>2, <2>3, <2>4, <2>6, <1>0, <2>2 DEF Base
        <4> QED BY <4>1, <4>2, <2>4, <2>2
      <3> QED BY <3>1, <2>2, <2>4 DEF GoodPool
    <2>8. c \in Region /\ c.blk = Len(p.blocks) + 1 /\ c.lo = m /\ c.hi = m + size
      BY <2>2, <1>0 DEF Region
    <2> HIDE DEF q, c
    <2>9. c.lo >= Base(c.blk) /\ c.hi <= q.blocks[c.blk].last
      BY <2>2, <2>3, <2>4, <2>6, <2>8, <1>0 DEF Base
    <2>10. \A i \in 1..Len(p.blocks) : p.blocks[i].last <= q.blocks[i].last
      BY <2>5, GoodPoolFacts
    <2>11. /\ Len(p.blocks) <= Len(q.blocks) /\ c.blk \in 1..Len(q.blocks)
           /\ c.blk \notin 1..Len(p.blocks)
      BY <2>2, <2>4, <2>8
    <2>12. s \o <<c>> \in Seq(Region) /\ SafeIn(q, s \o <<c>>)
      BY <2>7, <2>8, <2>9, <2>10, <2>11, AppendSafe
    <2> QED BY <2>1, <2>7, <2>12
  <1> QED BY <1>1, <1>2, <1>3 DEF SmallAlloc

-----------------------------------------------------------------------------
LEMMA FreshPoolGood == GoodPool(FreshPool) /\ SafeIn(FreshPool, <<>>)
  <1> DEFINE b == [last |-> Header, failed |-> 0]
  <1>1. b \in Block /\ b.last = Header BY PoolAssumption DEF Block
  <1>2. FreshPool.blocks = <<b>> /\ FreshPool.current = 1
        /\ FreshPool = [blocks |-> <<b>>, current |-> 1]
    BY DEF FreshPool
  <1> HIDE DEF b
  <1>3. FreshPool \in [blocks : Seq(Block), current : Nat] /\ Len(FreshPool.blocks) = 1
    BY <1>1, <1>2
  <1>4. Base(1) = Header BY DEF Base
  <1> QED BY <1>1, <1>2, <1>3, <1>4, PoolAssumption DEF GoodPool, SafeIn

LEMMA InitInv == Init => PoolInv
  <1> SUFFICES ASSUME Init PROVE PoolInv OBVIOUS
  <1>1. GoodPool(pool) /\ MemorySafe BY FreshPoolGood DEF Init, MemorySafe
  <1>2. pool \in [blocks : Seq(Block), current : Nat] /\ pool.current \in 1..Len(pool.blocks)
    BY <1>1 DEF GoodPool
  <1>3. /\ large \in Seq(HeapIds \cup {NULL}) /\ cleanup \in Seq(Entry)
        /\ live \in Seq(Region)
    BY DEF Init
  <1> QED BY <1>1, <1>2, <1>3 DEF Init, PoolInv, TypeOK

\* The part of the invariant that is about memory, after any single grant.
LEMMA GrantStep ==
    ASSUME PoolInv, NEW size \in Nat, AlignUp(DataHeader) + size <= PoolSize,
           NEW align \in BOOLEAN, NEW r \in SmallAlloc(pool, size, align)
    PROVE  /\ GoodPool(r.pool) /\ live \o r.at \in Seq(Region)
           /\ SafeIn(r.pool, live \o r.at)
  BY SmallAllocSafe DEF PoolInv, TypeOK, MemorySafe

LEMMA LinkLargeStep ==
    ASSUME PoolInv, NEW h \in HeapIds, LinkLarge(h)
    PROVE  /\ GoodPool(pool') /\ live' \in Seq(Region) /\ SafeIn(pool', live')
           /\ large' \in Seq(HeapIds \cup {NULL}) /\ heap' \subseteq HeapIds
  <1>1. PICK r \in SmallAlloc(pool, LargeHeader, TRUE) :
           /\ pool' = r.pool /\ live' = live \o r.at
           /\ IF r.at = <<>> THEN UNCHANGED <<large, heap>>
              ELSE large' = <<h>> \o large /\ heap' = heap \cup {h}
    BY DEF LinkLarge
  <1>2. GoodPool(pool') /\ live' \in Seq(Region) /\ SafeIn(pool', live')
    BY <1>1, GrantStep, SizeFacts, PoolAssumption
  <1>3. large \in Seq(HeapIds \cup {NULL}) /\ heap \subseteq HeapIds
    BY DEF PoolInv, TypeOK
  <1>4. <<h>> \o large \in Seq(HeapIds \cup {NULL})
    BY <1>3
  <1> QED BY <1>1, <1>2, <1>3, <1>4

\* What remains to be said once the memory of the next state is known good.
LEMMA Assemble ==
    ASSUME GoodPool(pool'), live' \in Seq(Region), SafeIn(pool', live'),
           large' \in Seq(HeapIds \cup {NULL}), cleanup' \in Seq(Entry),
           heap' \subseteq HeapIds, lost' \subseteq HeapIds, openFds' \subseteq Fds,
           alive' \in BOOLEAN, badClose' \in BOOLEAN
    PROVE  PoolInv'
  BY DEF PoolInv, TypeOK, MemorySafe, GoodPool

LEMMA NextInv == PoolInv /\ [Next]_vars => PoolInv'
  <1> SUFFICES ASSUME PoolInv, [Next]_vars PROVE PoolInv' OBVIOUS
  <1>0. /\ GoodPool(pool) /\ live \in Seq(Region) /\ SafeIn(pool, live)
        /\ large \in Seq(HeapIds \cup {NULL}) /\ cleanup \in Seq(Entry)
        /\ heap \subseteq HeapIds /\ lost \subseteq HeapIds /\ openFds \subseteq Fds
        /\ alive \in BOOLEAN /\ badClose \in BOOLEAN
    BY DEF PoolInv, TypeOK, MemorySafe
  <1> DEFINE Empty == /\ <<>> \in Seq(Region) /\ <<>> \in Seq(Entry)
                      /\ <<>> \in Seq(HeapIds \cup {NULL})
  <1>e. Empty OBVIOUS
  <1>1. ASSUME CreatePool PROVE PoolInv'
    BY <1>0, <1>1, <1>e, FreshPoolGood, Assemble DEF CreatePool
  <1>2. ASSUME NEW size \in Sizes, NEW align \in BOOLEAN, PallocSmall(size, align)
        PROVE  PoolInv'
    <2>1. PICK r \in SmallAlloc(pool, size, align) : pool' = r.pool /\ live' = live \o r.at
      BY <1>2 DEF PallocSmall
    <2>2. size \in Nat /\ AlignUp(DataHeader) + size <= PoolSize
      BY <1>2, SizeFacts, PoolAssumption DEF PallocSmall
    <2>3. GoodPool(pool') /\ live' \in Seq(Region) /\ SafeIn(pool', live')
      BY <2>1, <2>2, GrantStep
    <2> QED BY <1>0, <1>2, <2>3, Assemble DEF PallocSmall
  <1>3. ASSUME NEW size \in Sizes, NEW h \in HeapIds, PallocLarge(size, h)
        PROVE  PoolInv'
    <2>1. /\ GoodPool(pool') /\ live' \in Seq(Region) /\ SafeIn(pool', live')
          /\ large' \in Seq(HeapIds \cup {NULL}) /\ heap' \subseteq HeapIds
      <3>1. CASE UNCHANGED <<pool, live, large>> /\ heap' = heap \cup {h}
        BY <3>1, <1>0
      <3>2. CASE /\ UNCHANGED <<pool, live>> /\ heap' = heap \cup {h} /\ FreeSlots # {}
                 /\ large' = [large EXCEPT ![FirstOf(FreeSlots)] = h]
        <4>1. FreeSlots \in SUBSET Nat /\ FreeSlots \subseteq 1..Len(large)
          BY <1>0 DEF FreeSlots, Smaller
        <4>2. FirstOf(FreeSlots) \in 1..Len(large) BY <4>1, <3>2, FirstOfIn
        <4>3. [large EXCEPT ![FirstOf(FreeSlots)] = h] \in Seq(HeapIds \cup {NULL})
          BY <1>0, <4>2, ExceptSeq
        <4> QED BY <3>2, <4>3, <1>0
      <3>3. CASE LinkLarge(h) BY <3>3, LinkLargeStep
      <3> QED BY <1>3, <3>1, <3>2, <3>3 DEF PallocLarge
    <2>2. /\ UNCHANGED <<alive, cleanup, openFds, badClose>> /\ lost' \subseteq HeapIds
      BY <1>3, <1>0 DEF PallocLarge
    <2> QED BY <1>0, <2>1, <2>2, Assemble
  <1>4. ASSUME NEW h \in HeapIds, Pmemalign(h) PROVE PoolInv'
    <2>1. LinkLarge(h) BY <1>4 DEF Pmemalign
    <2> QED BY <2>1, <1>0, <1>4, LinkLargeStep, Assemble DEF Pmemalign
  <1>5. ASSUME NEW h \in HeapIds, Pfree(h) PROVE PoolInv'
    <2> DEFINE holders == {i \in DOMAIN large : large[i] = h}
    <2>1. holders \in SUBSET Nat /\ holders \subseteq 1..Len(large) BY <1>0
    <2>2. FirstOf(holders) \in 1..Len(large) BY <2>1, <1>5, FirstOfIn DEF Pfree
    <2>3. large' \in Seq(HeapIds \cup {NULL})
      <3>1. large' = [large EXCEPT ![FirstOf(holders)] = NULL] BY <1>5 DEF Pfree
      <3> QED BY <3>1, <2>2, <1>0, ExceptSeq
    <2> QED BY <1>0, <1>5, <2>3, Assemble DEF Pfree
  <1>6. ASSUME NEW fd \in openFds \ ArmedFds, NEW handler \in {"file", "delete"},
               AddFileCleanup(handler, fd)
        PROVE  PoolInv'
    <2>1. PICK r \in SmallAlloc(pool, CleanupHeader, TRUE) :
             IF r.at = <<>> THEN pool' = r.pool /\ UNCHANGED <<live, cleanup>>
             ELSE \E s \in SmallAlloc(r.pool, FileData, TRUE) :
                     /\ pool' = s.pool /\ live' = live \o r.at \o s.at
                     /\ cleanup' = IF s.at = <<>> THEN cleanup
                                   ELSE <<[handler |-> handler, fd |-> fd]>> \o cleanup
      BY <1>6 DEF AddFileCleanup
    <2>2. /\ CleanupHeader \in Nat /\ AlignUp(DataHeader) + CleanupHeader <= PoolSize
          /\ FileData \in Nat /\ AlignUp(DataHeader) + FileData <= PoolSize
      BY SizeFacts, PoolAssumption
    <2>3. GoodPool(r.pool) /\ live \o r.at \in Seq(Region) /\ SafeIn(r.pool, live \o r.at)
      BY <2>2, GrantStep
    <2>4. [handler |-> handler, fd |-> fd] \in Entry BY <1>0 DEF Entry
    <2>5. <<[handler |-> handler, fd |-> fd]>> \o cleanup \in Seq(Entry) BY <1>0, <2>4
    <2>6. GoodPool(pool') /\ live' \in Seq(Region) /\ SafeIn(pool', live')
          /\ cleanup' \in Seq(Entry)
      <3>1. CASE r.at = <<>>
        <4>1. live \o r.at = live BY <3>1, <1>0
        <4> QED BY <3>1, <4>1, <2>1, <2>3, <1>0
      <3>2. CASE r.at # <<>>
        <4>1. PICK s \in SmallAlloc(r.pool, FileData, TRUE) :
                 /\ pool' = s.pool /\ live' = live \o r.at \o s.at
                 /\ cleanup' = IF s.at = <<>> THEN cleanup
                               ELSE <<[handler |-> handler, fd |-> fd]>> \o cleanup
          BY <3>2, <2>1
        <4> DEFINE l == live \o r.at
        <4>2. l \in Seq(Region) /\ SafeIn(r.pool, l) BY <2>3
        <4> HIDE DEF l
        <4>3. GoodPool(s.pool) /\ l \o s.at \in Seq(Region) /\ SafeIn(s.pool, l \o s.at)
          BY <2>2, <2>3, <4>2, SmallAllocSafe
        <4> QED BY <4>1, <4>3, <2>5, <1>0 DEF l
      <3> QED BY <3>1, <3>2
    <2> QED BY <1>0, <1>6, <2>6, Assemble DEF AddFileCleanup
  <1>7. ASSUME NEW fd \in Fds, OpenFile(fd) PROVE PoolInv'
    BY <1>0, <1>7, Assemble DEF OpenFile
  <1>8. ASSUME NEW fd \in Fds, RunCleanupFile(fd) PROVE PoolInv'
    <2> DEFINE hits == {i \in Armed : cleanup[i].handler = "file" /\ cleanup[i].fd = fd}
               k == FirstOf(hits)
    <2>1. hits \in SUBSET Nat /\ hits \subseteq 1..Len(cleanup) BY <1>0 DEF Armed
    <2>2. k \in 1..Len(cleanup) BY <2>1, <1>8, FirstOfIn DEF RunCleanupFile
    <2>3. cleanup' = [cleanup EXCEPT ![k] = [cleanup[k] EXCEPT !.handler = "none"]]
      BY <1>8 DEF RunCleanupFile
    <2> HIDE DEF k
    <2>4. cleanup[k] \in Entry BY <1>0, <2>2
    <2>5. [cleanup[k] EXCEPT !.handler = "none"] \in Entry BY <2>4 DEF Entry
    <2>6. cleanup' \in Seq(Entry) BY <1>0, <2>2, <2>3, <2>5, ExceptSeq
    <2>7. openFds' \subseteq Fds /\ badClose' \in BOOLEAN
      BY <1>0, <1>8 DEF RunCleanupFile
    <2> QED BY <1>0, <1>8, <2>6, <2>7, Assemble DEF RunCleanupFile
  <1>9. ASSUME ResetPool PROVE PoolInv'
    <2> DEFINE b == [last |-> Header, failed |-> 0]
               n == Len(pool.blocks)
               bs == [i \in 1..n |-> b]
    <2>1. b \in Block /\ b.last = Header BY PoolAssumption DEF Block
    <2>2. n \in Nat /\ 1 \in 1..n BY <1>0, GoodPoolFacts DEF GoodPool
    <2>3. pool' = [blocks |-> bs, current |-> 1] BY <1>9 DEF ResetPool
    <2> HIDE DEF b, n
    <2>4. bs \in Seq(Block) /\ Len(bs) = n /\ \A i \in 1..n : bs[i] = b BY <2>1, <2>2
    <2> HIDE DEF bs
    <2>5. GoodPool(pool')
      <3>1. \A i \in 1..n : Header >= Base(i) BY SizeFacts, PoolAssumption DEF Base
      <3> QED BY <2>1, <2>2, <2>3, <2>4, <3>1 DEF GoodPool
    <2>6. live' = <<>> /\ large' = <<>> /\ heap' \subseteq heap BY <1>9 DEF ResetPool
    <2>7. SafeIn(pool', live') BY <2>6 DEF SafeIn
    <2> QED BY <1>0, <1>9, <1>e, <2>5, <2>6, <2>7, Assemble DEF ResetPool
  <1>10. ASSUME DestroyPool PROVE PoolInv'
    <2>1. badClose' \in BOOLEAN BY <1>0, <1>10 DEF DestroyPool
    <2> QED BY <1>0, <1>10, <1>e, <2>1, FreshPoolGood, Assemble DEF DestroyPool
  <1>11. CASE UNCHANGED vars
    BY <1>0, <1>11, Assemble DEF vars
  <1> QED
    BY <1>1, <1>2, <1>3, <1>4, <1>5, <1>6, <1>7, <1>8, <1>9, <1>10, <1>11 DEF Next

LEMMA PoolInvariant == Spec => []PoolInv
  BY InitInv, NextInv, PTL DEF Spec

\* The pool's data structure is well formed in every reachable state: the chain
\* is never empty, every bump pointer is inside its block and "current" is in it.
THEOREM TypeCorrect == Spec => []TypeOK
  <1>1. PoolInv => TypeOK BY DEF PoolInv
  <1> QED BY <1>1, PoolInvariant, PTL

\* No two regions that hky_palloc, hky_pnalloc, hky_pmemalign's header or
\* hky_pool_cleanup_add hand out overlap, and none leaves its block.
THEOREM MemorySafety == Spec => []MemorySafe
  <1>1. PoolInv => MemorySafe BY DEF PoolInv
  <1> QED BY <1>1, PoolInvariant, PTL

-----------------------------------------------------------------------------
(* The large list.  LargeOwned is inductive together with the types.       *)

SlotsOf(l) == {l[i] : i \in DOMAIN l} \ {NULL}
Distinct(l) == \A i, j \in DOMAIN l : l[i] # NULL /\ l[i] = l[j] => i = j

LEMMA SlotSet ==
    ASSUME NEW l \in Seq(HeapIds \cup {NULL}), Distinct(l),
           NEW k \in 1..Len(l), NEW v \in HeapIds \cup {NULL}, v \notin SlotsOf(l)
    PROVE  /\ Distinct([l EXCEPT ![k] = v])
           /\ SlotsOf([l EXCEPT ![k] = v]) = (SlotsOf(l) \ {l[k]}) \cup ({v} \ {NULL})
  <1> DEFINE m == [l EXCEPT ![k] = v]
  <1>1. /\ DOMAIN m = 1..Len(l) /\ DOMAIN l = 1..Len(l)
        /\ \A i \in 1..Len(l) : m[i] = IF i = k THEN v ELSE l[i]
    OBVIOUS
  <1> HIDE DEF m
  <1>2. Distinct(m) BY <1>1 DEF Distinct, SlotsOf
  <1>3. \A x : x \in SlotsOf(m) <=> x \in (SlotsOf(l) \ {l[k]}) \cup ({v} \ {NULL})
    BY <1>1 DEF Distinct, SlotsOf
  <1> QED BY <1>2, <1>3 DEF m

LEMMA SlotCons ==
    ASSUME NEW l \in Seq(HeapIds \cup {NULL}), Distinct(l),
           NEW h \in HeapIds, h \notin SlotsOf(l)
    PROVE  Distinct(<<h>> \o l) /\ SlotsOf(<<h>> \o l) = SlotsOf(l) \cup {h}
  <1> DEFINE m == <<h>> \o l
  <1>1. /\ Len(l) \in Nat /\ DOMAIN l = 1..Len(l) /\ DOMAIN m = 1..(Len(l) + 1)
        /\ m[1] = h /\ \A i \in 1..Len(l) : m[i + 1] = l[i]
    OBVIOUS
  <1>2. \A i \in 2..(Len(l) + 1) : i - 1 \in 1..Len(l) /\ m[i] = l[i - 1]
    BY <1>1
  <1> HIDE DEF m
  <1>3. Distinct(m)
    <2> SUFFICES ASSUME NEW i \in DOMAIN m, NEW j \in DOMAIN m, m[i] # NULL, m[i] = m[j]
                 PROVE  i = j
      BY DEF Distinct
    <2>1. CASE i = 1 /\ j # 1 BY <2>1, <1>1, <1>2 DEF SlotsOf
    <2>2. CASE i # 1 /\ j = 1 BY <2>2, <1>1, <1>2 DEF SlotsOf
    <2>3. CASE i # 1 /\ j # 1
      <3>1. i - 1 = j - 1 BY SMTT(30), <2>3, <1>1, <1>2 DEF Distinct
      <3> QED BY <3>1, <1>1
    <2> QED BY <2>1, <2>2, <2>3
  <1>4. ASSUME NEW x \in SlotsOf(m) PROVE x \in SlotsOf(l) \cup {h}
    BY <1>1, <1>2 DEF SlotsOf
  <1>5. ASSUME NEW x \in SlotsOf(l) PROVE x \in SlotsOf(m)
    <2>1. PICK i \in 1..Len(l) : l[i] = x BY <1>1 DEF SlotsOf
    <2>2. m[i + 1] = x /\ i + 1 \in DOMAIN m BY <2>1, <1>1
    <2> QED BY <2>2 DEF SlotsOf
  <1>6. h \in SlotsOf(m)
    <2>1. 1 \in DOMAIN m BY <1>1
    <2> QED BY <2>1, <1>1, PoolAssumption DEF SlotsOf
  <1> QED BY <1>3, <1>4, <1>5, <1>6 DEF m

\* What is left to show of a step that changes one slot of the list.
LEMMA Relink ==
    ASSUME LargeOwned, lost' = lost, Distinct(large'),
           NEW h, h \notin lost,
           \/ Slots' = Slots \cup {h} /\ heap' = heap \cup {h}
           \/ Slots' = Slots \ {h} /\ heap' = heap \ {h}
    PROVE  LargeOwned'
  <1>1. heap \ lost = Slots /\ Slots \cap lost = {} /\ lost \subseteq heap
    BY DEF LargeOwned
  <1>2. heap' \ lost' = Slots' /\ Slots' \cap lost' = {} /\ lost' \subseteq heap'
    BY <1>1
  <1>3. \A i, j \in DOMAIN large' : large'[i] # NULL /\ large'[i] = large'[j] => i = j
    BY DEF Distinct
  <1> QED BY <1>2, <1>3 DEF LargeOwned

LEMMA LinkLargeOwned ==
    ASSUME PoolInv, LargeOwned, NEW h \in HeapIds, h \notin heap, LinkLarge(h), lost' = lost
    PROVE  LargeOwned'
  <1>1. \/ UNCHANGED <<large, heap>>
        \/ large' = <<h>> \o large /\ heap' = heap \cup {h}
    BY DEF LinkLarge
  <1>2. large \in Seq(HeapIds \cup {NULL}) BY DEF PoolInv, TypeOK
  <1>3. CASE UNCHANGED <<large, heap>> BY <1>3 DEF LargeOwned, Slots
  <1>4. CASE large' = <<h>> \o large /\ heap' = heap \cup {h}
    <2>1. Distinct(large) /\ h \notin SlotsOf(large)
      BY DEF LargeOwned, Distinct, Slots, SlotsOf
    <2>2. Distinct(large') /\ SlotsOf(large') = SlotsOf(large) \cup {h}
      BY <1>2, <1>4, <2>1, SlotCons
    <2>3. Slots' = Slots \cup {h} BY <2>2 DEF Slots, SlotsOf
    <2>4. h \notin lost BY DEF LargeOwned
    <2> QED BY <1>4, <2>2, <2>3, <2>4, Relink
  <1> QED BY <1>1, <1>3, <1>4

\* A pool that does not exist has no large list, so creating one forgets none.
LargeInv == LargeOwned /\ (~alive => large = <<>>)

LEMMA LargeInvStep == PoolInv /\ LargeInv /\ [Next]_vars => LargeInv'
  <1> SUFFICES ASSUME PoolInv, LargeInv, [Next]_vars PROVE LargeInv' OBVIOUS
  <1>0. /\ large \in Seq(HeapIds \cup {NULL}) /\ DOMAIN large = 1..Len(large)
        /\ LargeOwned /\ Distinct(large) /\ Slots = SlotsOf(large)
    BY DEF PoolInv, TypeOK, LargeInv, LargeOwned, Distinct, Slots, SlotsOf
  <1>1. CASE UNCHANGED <<alive, large, heap, lost>>
    BY <1>1, <1>0 DEF LargeInv, LargeOwned, Slots
  <1>2. ASSUME large' = <<>>, heap' = heap \ Slots, lost' = lost PROVE LargeInv'
    <2>1. Slots' = {} BY <1>2 DEF Slots
    <2> QED BY <1>2, <2>1, <1>0 DEF LargeInv, LargeOwned
  <1>3. ASSUME CreatePool PROVE LargeInv'
    <2>1. Slots = {} BY <1>3 DEF CreatePool, LargeInv, Slots
    <2> QED BY <1>2, <1>3, <2>1 DEF CreatePool
  <1>4. ASSUME NEW size \in Sizes, NEW h \in HeapIds, PallocLarge(size, h) PROVE LargeInv'
    <2>0. alive /\ alive' = alive /\ h \notin heap BY <1>4 DEF PallocLarge
    <2>1. CASE UNCHANGED <<pool, large, live>> /\ heap' = heap \cup {h} /\ lost' = lost \cup {h}
      BY <2>0, <2>1, <1>0 DEF LargeInv, LargeOwned, Slots
    <2>2. CASE /\ FreeSlots # {} /\ UNCHANGED <<lost, pool, live>> /\ heap' = heap \cup {h}
               /\ large' = [large EXCEPT ![FirstOf(FreeSlots)] = h]
      <3> DEFINE k == FirstOf(FreeSlots)
      <3>1. FreeSlots \in SUBSET Nat BY DEF FreeSlots, Smaller
      <3>2. k \in FreeSlots BY <3>1, <2>2, FirstOfIn
      <3>3. k \in 1..Len(large) /\ large[k] = NULL
        BY <3>2, <1>0 DEF FreeSlots, Smaller
      <3> HIDE DEF k
      <3>4. h \notin SlotsOf(large) BY <2>0, <1>0 DEF LargeOwned
      <3>5. Distinct(large') /\ SlotsOf(large') = SlotsOf(large) \cup {h}
        <4>1. h # NULL /\ NULL \notin SlotsOf(large) BY PoolAssumption DEF SlotsOf
        <4>2. large' = [large EXCEPT ![k] = h] BY <2>2 DEF k
        <4>3. /\ Distinct([large EXCEPT ![k] = h])
              /\ SlotsOf([large EXCEPT ![k] = h])
                   = (SlotsOf(large) \ {large[k]}) \cup ({h} \ {NULL})
          <5>1. /\ large \in Seq(HeapIds \cup {NULL}) /\ Distinct(large)
                /\ k \in 1..Len(large) /\ h \in HeapIds \cup {NULL}
                /\ h \notin SlotsOf(large)
            BY <3>3, <3>4, <1>0
          <5> QED BY ZenonT(30), <5>1, SlotSet
        <4>4. (SlotsOf(large) \ {large[k]}) \cup ({h} \ {NULL}) = SlotsOf(large) \cup {h}
          BY <4>1, <3>3
        <4> QED BY <4>2, <4>3, <4>4
      <3>6. Slots' = Slots \cup {h} BY <3>5, <1>0 DEF Slots, SlotsOf
      <3>7. h \notin lost BY <2>0, <1>0 DEF LargeOwned
      <3> QED BY <2>0, <2>2, <3>5, <3>6, <3>7, <1>0, Relink DEF LargeInv
    <2>3. CASE LinkLarge(h) /\ UNCHANGED lost
      BY <2>0, <2>3, <1>0, LinkLargeOwned DEF LargeInv
    <2> QED BY <1>4, <2>1, <2>2, <2>3 DEF PallocLarge
  <1>5. ASSUME NEW h \in HeapIds, Pmemalign(h) PROVE LargeInv'
    BY <1>5, <1>0, LinkLargeOwned DEF Pmemalign, LargeInv
  <1>6. ASSUME NEW h \in HeapIds, Pfree(h) PROVE LargeInv'
    <2> DEFINE holders == {i \in DOMAIN large : large[i] = h}
               k == FirstOf(holders)
    <2>1. k \in 1..Len(large) /\ large[k] = h
      <3>1. holders \in SUBSET Nat BY <1>0
      <3> QED BY <3>1, <1>0, <1>6, FirstOfIn DEF Pfree
    <2>2. large' = [large EXCEPT ![k] = NULL] BY <1>6 DEF Pfree
    <2> HIDE DEF k
    <2>3. Distinct(large') /\ SlotsOf(large') = SlotsOf(large) \ {h}
      <3>1. NULL \notin SlotsOf(large) BY DEF SlotsOf
      <3>2. /\ Distinct([large EXCEPT ![k] = NULL])
            /\ SlotsOf([large EXCEPT ![k] = NULL])
                 = (SlotsOf(large) \ {large[k]}) \cup ({NULL} \ {NULL})
        <4>1. /\ large \in Seq(HeapIds \cup {NULL}) /\ Distinct(large)
              /\ k \in 1..Len(large) /\ NULL \in HeapIds \cup {NULL}
              /\ NULL \notin SlotsOf(large)
          BY <3>1, <2>1, <1>0
        <4> QED BY ZenonT(30), <4>1, SlotSet
      <3>3. (SlotsOf(large) \ {large[k]}) \cup ({NULL} \ {NULL}) = SlotsOf(large) \ {h}
        BY <2>1
      <3> QED BY <2>2, <3>2, <3>3
    <2>4. h \in SlotsOf(large) BY <2>1, <1>0, PoolAssumption DEF SlotsOf
    <2>5. Slots' = Slots \ {h} BY <2>3, <1>0 DEF Slots, SlotsOf
    <2>6. h \notin lost BY <2>4, <1>0 DEF LargeOwned
    <2>7. lost' = lost /\ heap' = heap \ {h} /\ alive' = alive /\ alive
      BY <1>6 DEF Pfree
    <2> QED BY <2>3, <2>5, <2>6, <2>7, <1>0, Relink DEF LargeInv
  <1>7. ASSUME ResetPool \/ DestroyPool PROVE LargeInv'
    BY <1>2, <1>7 DEF ResetPool, DestroyPool
  <1>8. ASSUME NEW size \in Sizes, NEW align \in BOOLEAN, PallocSmall(size, align)
        PROVE  LargeInv'
    BY <1>1, <1>8 DEF PallocSmall
  <1>9. ASSUME NEW fd \in openFds \ ArmedFds, NEW handler \in {"file", "delete"},
               AddFileCleanup(handler, fd)
        PROVE  LargeInv'
    BY <1>1, <1>9 DEF AddFileCleanup
  <1>10. ASSUME NEW fd \in Fds, OpenFile(fd) \/ RunCleanupFile(fd) PROVE LargeInv'
    BY <1>1, <1>10 DEF OpenFile, RunCleanupFile
  <1>11. CASE UNCHANGED vars BY <1>1, <1>11 DEF vars
  <1> QED
    BY <1>3, <1>4, <1>5, <1>6, <1>7, <1>8, <1>9, <1>10, <1>11 DEF Next

\* The large list names every heap block of the pool exactly once, so that
\* neither hky_pfree, nor the reuse of its slot, nor hky_destroy_pool frees a
\* block twice or leaves one behind - those lost by hky_alloc excepted.
THEOREM LargeBlocksOwned == Spec => []LargeOwned
  <1>1. Init => LargeInv BY DEF Init, LargeInv, LargeOwned, Slots
  <1>2. LargeInv => LargeOwned BY DEF LargeInv
  <1> QED BY <1>1, <1>2, LargeInvStep, PoolInvariant, PTL DEF Spec
-----------------------------------------------------------------------------
(* What holds of the pool because of what has happened to it: which blocks *)
(* the search has left behind, and which descriptors its cleanups close.   *)

(* The counts fall along the blocks that are still searched, because every *)
(* failed search counts for all of them but the last and a new block comes *)
(* last.  So when a block is tired, those in front of it are more so, and  *)
(* moving "current" behind it skips no other.                              *)
Falling(p) == \A i, j \in p.current .. Len(p.blocks) :
                 i <= j => p.blocks[i].failed >= p.blocks[j].failed
SkippedTired(p) == \A i \in 1 .. p.current - 1 : p.blocks[i].failed > 5
Ageing(p) == Falling(p) /\ SkippedTired(p)

\* Counts and "current" after the walk of palloc_block.
LEMMA AgedCounts ==
    ASSUME NEW p, GoodPool(p)
    PROVE  /\ \A i \in 1..Len(p.blocks) : Aged(p).blocks[i].failed =
                 IF i \in p.current .. Len(p.blocks) - 1
                 THEN p.blocks[i].failed + 1 ELSE p.blocks[i].failed
           /\ \/ Aged(p).current = p.current
              \/ /\ Aged(p).current - 1 \in p.current .. Len(p.blocks) - 1
                 /\ p.blocks[Aged(p).current - 1].failed > 4
  <1> DEFINE searched == p.current .. Len(p.blocks) - 1
             tired == {i \in searched : p.blocks[i].failed > 4}
             old(i) == [p.blocks[i] EXCEPT !.failed = @ + 1]
             e(i) == IF i \in searched THEN old(i) ELSE p.blocks[i]
             bs == [i \in 1..Len(p.blocks) |-> e(i)]
             cur == IF tired = {} THEN p.current ELSE LastOf(tired) + 1
  <1>1. Aged(p) = [blocks |-> bs, current |-> cur] BY DEF Aged
  <1>2. p.current \in 1..Len(p.blocks) /\ Len(p.blocks) \in Nat
    BY GoodPoolFacts DEF GoodPool
  <1>3. \A i \in 1..Len(p.blocks) :
           bs[i].failed = IF i \in searched THEN p.blocks[i].failed + 1 ELSE p.blocks[i].failed
    <2> TAKE i \in 1..Len(p.blocks)
    <2>1. p.blocks[i] \in Block BY GoodPoolFacts
    <2>2. old(i).failed = p.blocks[i].failed + 1 BY <2>1 DEF Block
    <2>3. e(i).failed = IF i \in searched THEN p.blocks[i].failed + 1 ELSE p.blocks[i].failed
      BY <2>2
    <2>4. bs[i] = e(i)
      <3> HIDE DEF e
      <3> QED OBVIOUS
    <2> HIDE DEF e, searched, bs
    <2> QED BY <2>3, <2>4
  <1>4. tired # {} => LastOf(tired) \in tired
    <2>1. tired \in SUBSET (0 .. Len(p.blocks)) BY <1>2
    <2> QED BY <2>1, <1>2, LastOfIn
  <1>5. cur = p.current \/ (cur - 1 \in searched /\ p.blocks[cur - 1].failed > 4)
    <2>1. CASE tired # {}
      <3> DEFINE t == LastOf(tired)
      <3>1. t \in searched /\ p.blocks[t].failed > 4 BY <1>4, <2>1
      <3>2. cur = t + 1 BY <2>1
      <3> HIDE DEF t, cur
      <3>3. cur - 1 = t BY <1>2, <3>1, <3>2
      <3> QED BY <3>1, <3>3
    <2>2. CASE tired = {} BY <2>2
    <2> QED BY <2>1, <2>2
  <1> HIDE DEF bs, cur
  <1> QED BY <1>1, <1>3, <1>5

LEMMA SmallAllocAgeing ==
    ASSUME NEW p, GoodPool(p), Ageing(p), NEW size \in Nat, NEW align \in BOOLEAN,
           NEW r \in SmallAlloc(p, size, align)
    PROVE  Ageing(r.pool)
  <1> DEFINE C == Candidates(p, size, align)
             L == Len(p.blocks)
  <1>1. /\ p \in [blocks : Seq(Block), current : Nat] /\ p.current \in 1..L /\ L \in Nat
        /\ p.blocks \in Seq(Block) /\ \A i \in 1..L : p.blocks[i].failed \in Nat
    BY GoodPoolFacts DEF GoodPool
  <1>2. CASE C # {}
    <2> DEFINE j == FirstOf(C)
               n == [p.blocks[j] EXCEPT !.last = Start(p.blocks[j], align) + size]
               q == [p EXCEPT !.blocks = [p.blocks EXCEPT ![j] = n]]
    <2>1. r.pool = q BY <1>2 DEF SmallAlloc, TakeFrom
    <2>2. j \in 1..L
      <3>1. C \in SUBSET Nat BY GoodPoolFacts DEF Candidates
      <3>2. j \in C BY <3>1, <1>2, FirstOfIn
      <3> QED BY <3>2, <1>1 DEF Candidates
    <2>3. n.failed = p.blocks[j].failed
      <3>1. p.blocks[j] \in Block BY <2>2, GoodPoolFacts
      <3> QED BY <3>1 DEF Block
    <2> HIDE DEF n, j
    <2>4. q.current = p.current /\ Len(q.blocks) = L
          /\ \A i \in 1..L : q.blocks[i].failed = p.blocks[i].failed
      BY <1>1, <2>2, <2>3
    <2> HIDE DEF q
    <2> QED BY <1>1, <2>1, <2>4 DEF Ageing, Falling, SkippedTired
  <1>3. CASE r = Refused(p)
    BY <1>3 DEF Refused
  <1>4. CASE C = {} /\ r = TakeNew(p, size)
    <2> DEFINE a == Aged(p)
               n == [last |-> AlignUp(DataHeader) + size, failed |-> 0]
               q == [a EXCEPT !.blocks = Append(a.blocks, n)]
    <2>1. r.pool = q BY <1>4 DEF TakeNew
    <2>2. /\ a \in [blocks : Seq(Block), current : Nat] /\ Len(a.blocks) = L
          /\ a.current \in 1..L
      BY AgedGood
    <2>3. /\ \A i \in 1..L : a.blocks[i].failed =
                IF i \in p.current .. L - 1 THEN p.blocks[i].failed + 1 ELSE p.blocks[i].failed
          /\ \/ a.current = p.current
             \/ a.current - 1 \in p.current .. L - 1 /\ p.blocks[a.current - 1].failed > 4
      BY AgedCounts
    <2> HIDE DEF a
    <2>4. /\ q.current = a.current /\ Len(q.blocks) = L + 1
          /\ \A i \in 1..L : q.blocks[i] = a.blocks[i]
          /\ q.blocks[L + 1] = n
      <3>1. q.current = a.current /\ q.blocks = Append(a.blocks, n) BY <2>2
      <3> HIDE DEF n, q
      <3> QED BY <2>2, <3>1
    <2>5. n.failed = 0 OBVIOUS
    <2> HIDE DEF q, n, L
    <2> DEFINE f(i) == p.blocks[i].failed
               g(i) == a.blocks[i].failed
    <2>c. ASSUME NEW i \in 1..L
          PROVE  /\ f(i) \in Nat /\ g(i) \in Nat
                 /\ i \in p.current .. L - 1 => g(i) = f(i) + 1
                 /\ ~(i \in p.current .. L - 1) => g(i) = f(i)
      <3>1. f(i) \in Nat BY <1>1
      <3>2. CASE i \in p.current .. L - 1 BY <3>1, <3>2, <2>3
      <3>3. CASE ~(i \in p.current .. L - 1) BY <3>1, <3>3, <2>3
      <3> QED BY <3>1, <3>2, <3>3
    <2>d. p.current \in 1..L /\ L \in Nat /\ a.current \in 1..L
      BY <1>1, <2>2
    <2> HIDE DEF f, g
    <2>h. \A i \in 1..L : q.blocks[i].failed = g(i) BY <2>4 DEF g
    <2>i. q.blocks[L + 1].failed = 0 BY <2>4, <2>5
    <2>j. \A i, j \in p.current .. L : i <= j => f(i) >= f(j)
      BY DEF Ageing, Falling, f, L
    <2>k. \A i \in 1 .. p.current - 1 : f(i) > 5
      BY DEF Ageing, SkippedTired, f
    <2>l. \/ a.current = p.current
          \/ a.current - 1 \in p.current .. L - 1 /\ f(a.current - 1) > 4
      BY <2>3 DEF f
    <2>6. Falling(q)
      <3> SUFFICES ASSUME NEW i \in a.current .. L + 1, NEW j \in a.current .. L + 1, i <= j
                   PROVE  q.blocks[i].failed >= q.blocks[j].failed
        BY <2>4 DEF Falling
      <3>1. i \in p.current .. L + 1 /\ j \in p.current .. L + 1
        BY <2>d, <2>l
      <3>2. CASE j = L + 1
        <4>1. CASE i = L + 1 BY <4>1, <3>2, <2>i
        <4>2. CASE i \in 1..L BY <4>2, <3>2, <2>c, <2>h, <2>i
        <4> QED BY <4>1, <4>2, <3>1, <2>d
      <3>3. CASE j # L + 1
        <4>1. i \in p.current .. L /\ j \in p.current .. L /\ i \in 1..L /\ j \in 1..L
          BY <2>d, <3>1, <3>3
        <4>2. f(i) >= f(j) /\ (j \in p.current .. L - 1 => i \in p.current .. L - 1)
          BY <4>1, <2>d, <2>j
        <4>3. g(i) >= g(j) BY <4>1, <4>2, <2>c
        <4> QED BY <4>1, <4>3, <2>h
      <3> QED BY <3>2, <3>3
    <2>7. SkippedTired(q)
      <3> SUFFICES ASSUME NEW i \in 1 .. a.current - 1 PROVE g(i) > 5
        BY <2>4, <2>d, <2>h DEF SkippedTired
      <3>1. i \in 1..L BY <2>d
      <3>2. CASE i < p.current
        <4>1. f(i) > 5 BY <3>2, <2>d, <2>k
        <4> QED BY <3>1, <3>2, <4>1, <2>d, <2>c
      <3>3. CASE ~(i < p.current)
        <4> DEFINE t == a.current - 1
        <4>1. t \in p.current .. L - 1 /\ f(t) > 4 /\ i <= t BY <2>l, <2>d, <3>3
        <4> HIDE DEF t
        <4>2. i \in p.current .. L - 1 /\ t \in p.current .. L /\ i \in p.current .. L
          BY <4>1, <2>d, <3>1, <3>3
        <4>3. f(i) >= f(t) /\ f(t) \in Nat
          <5>1. t \in 1..L BY <4>2, <2>d
          <5> QED BY <4>1, <4>2, <2>j, <5>1, <2>c
        <4> QED BY <3>1, <4>1, <4>2, <4>3, <2>c
      <3> QED BY <3>2, <3>3
    <2> QED BY <2>1, <2>6, <2>7 DEF Ageing
  <1> QED BY <1>2, <1>3, <1>4 DEF SmallAlloc

LEMMA FreshPoolAgeing == Ageing(FreshPool)
  <1>1. FreshPool.current = 1 /\ Len(FreshPool.blocks) = 1 BY DEF FreshPool
  <1>2. FreshPool.blocks[1].failed = 0 BY DEF FreshPool
  <1> QED BY <1>1, <1>2 DEF Ageing, Falling, SkippedTired

LEMMA AgeingStep == PoolInv /\ Ageing(pool) /\ [Next]_vars => Ageing(pool)'
  <1> SUFFICES ASSUME PoolInv, Ageing(pool), [Next]_vars PROVE Ageing(pool') OBVIOUS
  <1>0. /\ GoodPool(pool) /\ TRUE \in BOOLEAN
        /\ LargeHeader \in Nat /\ CleanupHeader \in Nat /\ FileData \in Nat
    BY SizeFacts, PoolAssumption DEF PoolInv
  <1>1. CASE UNCHANGED pool BY <1>1
  <1>2. ASSUME NEW size \in Nat, NEW align \in BOOLEAN,
               NEW r \in SmallAlloc(pool, size, align), pool' = r.pool
        PROVE  Ageing(pool')
    BY <1>0, <1>2, SmallAllocAgeing
  <1>3. ASSUME NEW h \in HeapIds, LinkLarge(h) PROVE Ageing(pool')
    BY <1>0, <1>2, <1>3 DEF LinkLarge
  <1>4. ASSUME CreatePool \/ DestroyPool PROVE Ageing(pool')
    BY <1>4, FreshPoolAgeing DEF CreatePool, DestroyPool
  <1>5. ASSUME NEW size \in Sizes, NEW align \in BOOLEAN, PallocSmall(size, align)
        PROVE  Ageing(pool')
    BY <1>2, <1>5, PoolAssumption DEF PallocSmall
  <1>6. ASSUME NEW size \in Sizes, NEW h \in HeapIds, PallocLarge(size, h)
        PROVE  Ageing(pool')
    BY <1>1, <1>3, <1>6 DEF PallocLarge
  <1>7. ASSUME NEW h \in HeapIds, Pmemalign(h) \/ Pfree(h) PROVE Ageing(pool')
    BY <1>1, <1>3, <1>7 DEF Pmemalign, Pfree
  <1>8. ASSUME NEW fd \in openFds \ ArmedFds, NEW handler \in {"file", "delete"},
               AddFileCleanup(handler, fd)
        PROVE  Ageing(pool')
    <2>1. PICK r \in SmallAlloc(pool, CleanupHeader, TRUE) :
             \/ pool' = r.pool
             \/ r.at # <<>> /\ \E s \in SmallAlloc(r.pool, FileData, TRUE) : pool' = s.pool
      BY <1>8 DEF AddFileCleanup
    <2>2. CASE pool' = r.pool BY <1>0, <1>2, <2>2
    <2>3. CASE \E s \in SmallAlloc(r.pool, FileData, TRUE) : pool' = s.pool
      <3>1. PICK s \in SmallAlloc(r.pool, FileData, TRUE) : pool' = s.pool BY <2>3
      <3>2. Ageing(r.pool) BY <1>0, SmallAllocAgeing
      <3>3. GoodPool(r.pool)
        <4>1. AlignUp(DataHeader) + CleanupHeader <= PoolSize BY SizeFacts, PoolAssumption
        <4> QED BY <1>0, <4>1, GrantStep
      <3> QED BY <1>0, <3>1, <3>2, <3>3, SmallAllocAgeing
    <2> QED BY <2>1, <2>2, <2>3
  <1>9. ASSUME NEW fd \in Fds, OpenFile(fd) \/ RunCleanupFile(fd) PROVE Ageing(pool')
    BY <1>1, <1>9 DEF OpenFile, RunCleanupFile
  <1>10. ASSUME ResetPool PROVE Ageing(pool')
    <2> DEFINE b == [last |-> Header, failed |-> 0]
               n == Len(pool.blocks)
               bs == [i \in 1..n |-> b]
    <2>1. pool' = [blocks |-> bs, current |-> 1] BY <1>10 DEF ResetPool
    <2>2. n \in Nat BY <1>0, GoodPoolFacts
    <2>3. b.failed = 0 OBVIOUS
    <2> HIDE DEF b, n
    <2>4. Len(bs) = n /\ \A i \in 1..n : bs[i] = b BY <2>2
    <2> HIDE DEF bs
    <2>5. /\ pool'.current = 1 /\ Len(pool'.blocks) = n
          /\ \A i \in 1..n : pool'.blocks[i].failed = 0
      BY <2>1, <2>3, <2>4
    <2> QED BY <2>2, <2>5 DEF Ageing, Falling, SkippedTired
  <1>11. CASE UNCHANGED vars BY <1>1, <1>11 DEF vars
  <1> QED
    BY <1>4, <1>5, <1>6, <1>7, <1>8, <1>9, <1>10, <1>11 DEF Next

\* palloc_block moves "current" over many blocks at once, but over none that
\* has not been searched in vain at least six times.
THEOREM SearchFair == Spec => []SkippedAreTired
  <1>1. Init => Ageing(pool) BY FreshPoolAgeing DEF Init
  <1>2. Ageing(pool) => SkippedAreTired BY DEF Ageing, SkippedTired, SkippedAreTired
  <1> QED BY <1>1, <1>2, AgeingStep, PoolInvariant, PTL DEF Spec

-----------------------------------------------------------------------------
(* Cleanups: the descriptor of an armed entry is open and no other entry's.*)
CleanupInv ==
    /\ ~badClose /\ ArmedFds \subseteq openFds
    /\ \A i, j \in Armed : cleanup[i].fd = cleanup[j].fd => i = j
    /\ ~alive => cleanup = <<>>

LEMMA CleanupStep == PoolInv /\ CleanupInv /\ [Next]_vars => CleanupInv'
  <1> SUFFICES ASSUME PoolInv, CleanupInv, [Next]_vars PROVE CleanupInv' OBVIOUS
  <1>0. cleanup \in Seq(Entry) /\ DOMAIN cleanup = 1..Len(cleanup) /\ Len(cleanup) \in Nat
    BY DEF PoolInv, TypeOK
  <1>1. CASE UNCHANGED <<alive, cleanup, openFds, badClose>>
    BY <1>1 DEF CleanupInv, Armed, ArmedFds
  <1>2. ASSUME CreatePool PROVE CleanupInv'
    BY <1>2 DEF CreatePool, CleanupInv, Armed, ArmedFds
  <1>3. ASSUME NEW fd \in openFds \ ArmedFds, NEW handler \in {"file", "delete"},
               AddFileCleanup(handler, fd)
        PROVE  CleanupInv'
    <2> DEFINE e == [handler |-> handler, fd |-> fd]
               m == <<e>> \o cleanup
    <2>1. alive /\ alive' /\ openFds' = openFds /\ badClose' = badClose
          /\ (cleanup' = cleanup \/ cleanup' = m)
      BY <1>3 DEF AddFileCleanup
    <2>2. CASE cleanup' = cleanup
      BY <2>1, <2>2 DEF CleanupInv, Armed, ArmedFds
    <2>3. CASE cleanup' = m
      <3>1. e.fd = fd /\ e.handler # "none" OBVIOUS
      <3> HIDE DEF e
      <3>2. /\ DOMAIN m = 1..(Len(cleanup) + 1) /\ m[1] = e
            /\ \A i \in 2..(Len(cleanup) + 1) : i - 1 \in 1..Len(cleanup) /\ m[i] = cleanup[i - 1]
        BY <1>0
      <3> HIDE DEF m
      <3>3. \A i \in Armed' : i = 1 \/ (i \in 2..(Len(cleanup) + 1) /\ i - 1 \in Armed)
        BY <1>0, <2>3, <3>2 DEF Armed
      <3>4. \A i \in Armed' : cleanup'[i].fd = IF i = 1 THEN fd ELSE cleanup[i - 1].fd
        BY <2>3, <3>1, <3>2, <3>3
      <3>5. \A k \in Armed : cleanup[k].fd \in ArmedFds BY DEF ArmedFds
      <3>6. ArmedFds' \subseteq openFds'
        BY <2>1, <3>3, <3>4, <3>5 DEF ArmedFds, CleanupInv
      <3>7. ASSUME NEW i \in Armed', NEW j \in Armed', cleanup'[i].fd = cleanup'[j].fd
            PROVE  i = j
        <4>1. CASE i = 1 /\ j # 1 BY <4>1, <3>3, <3>4, <3>5, <3>7
        <4>2. CASE i # 1 /\ j = 1 BY <4>2, <3>3, <3>4, <3>5, <3>7
        <4>3. CASE i # 1 /\ j # 1
          <5>1. i - 1 \in Armed /\ j - 1 \in Armed /\ cleanup[i - 1].fd = cleanup[j - 1].fd
            BY <4>3, <3>3, <3>4, <3>7
          <5>2. i - 1 = j - 1 BY <5>1 DEF CleanupInv
          <5>3. i \in Int /\ j \in Int BY <3>3
          <5> QED BY <5>2, <5>3
        <4> QED BY <4>1, <4>2, <4>3
      <3> QED BY <2>1, <3>6, <3>7 DEF CleanupInv
    <2> QED BY <2>1, <2>2, <2>3
  <1>4. ASSUME NEW fd \in Fds, OpenFile(fd) PROVE CleanupInv'
    BY <1>4 DEF OpenFile, CleanupInv, Armed, ArmedFds
  <1>5. ASSUME NEW fd \in Fds, RunCleanupFile(fd) PROVE CleanupInv'
    <2> DEFINE hits == {i \in Armed : cleanup[i].handler = "file" /\ cleanup[i].fd = fd}
               k == FirstOf(hits)
    <2>1. k \in Armed /\ cleanup[k].fd = fd
      <3>1. hits \in SUBSET Nat BY <1>0 DEF Armed
      <3> QED BY <3>1, <1>5, FirstOfIn DEF RunCleanupFile
    <2>2. /\ cleanup' = [cleanup EXCEPT ![k] = [cleanup[k] EXCEPT !.handler = "none"]]
          /\ openFds' = openFds \ {fd} /\ alive /\ alive' = alive
          /\ badClose' = (badClose \/ fd \notin openFds)
      BY <1>5 DEF RunCleanupFile
    <2> HIDE DEF k
    <2>3. k \in 1..Len(cleanup) /\ cleanup[k] \in Entry BY <1>0, <2>1 DEF Armed
    <2>4. DOMAIN cleanup' = 1..Len(cleanup)
          /\ cleanup'[k].handler = "none"
          /\ \A i \in 1..Len(cleanup) : i # k => cleanup'[i] = cleanup[i]
      BY <1>0, <2>2, <2>3 DEF Entry
    <2>5. \A i : i \in Armed' <=> i \in Armed \ {k} BY <1>0, <2>4 DEF Armed
    <2>6. \A i \in Armed' : i \in Armed /\ i # k /\ cleanup'[i] = cleanup[i] /\ cleanup[i].fd # fd
      BY <1>0, <2>1, <2>4, <2>5 DEF CleanupInv, Armed
    <2>7. fd \in openFds BY <2>1 DEF CleanupInv, ArmedFds
    <2>8. ~badClose' BY <2>2, <2>7 DEF CleanupInv
    <2>9. ArmedFds' \subseteq openFds'
      BY <2>2, <2>6 DEF ArmedFds, CleanupInv
    <2>10. \A i, j \in Armed' : cleanup'[i].fd = cleanup'[j].fd => i = j
      BY <2>6 DEF CleanupInv
    <2> QED BY <2>2, <2>8, <2>9, <2>10 DEF CleanupInv
  <1>6. ASSUME ResetPool, cleanup = <<>> PROVE CleanupInv'
    BY <1>1, <1>6 DEF ResetPool
  <1>7. ASSUME DestroyPool PROVE CleanupInv'
    <2>1. ~badClose' BY <1>7 DEF DestroyPool, CleanupInv
    <2>2. cleanup' = <<>> /\ Armed' = {} BY <1>7 DEF DestroyPool, Armed
    <2> QED BY <2>1, <2>2 DEF CleanupInv, ArmedFds
  <1>8. ASSUME NEW size \in Sizes, NEW align \in BOOLEAN, PallocSmall(size, align)
        PROVE  CleanupInv'
    BY <1>1, <1>8 DEF PallocSmall
  <1>9. ASSUME NEW size \in Sizes, NEW h \in HeapIds, PallocLarge(size, h)
        PROVE  CleanupInv'
    BY <1>1, <1>9 DEF PallocLarge
  <1>10. ASSUME NEW h \in HeapIds, Pmemalign(h) \/ Pfree(h) PROVE CleanupInv'
    BY <1>1, <1>10 DEF Pmemalign, Pfree
  <1>11. CASE UNCHANGED vars BY <1>1, <1>11 DEF vars
  <1> QED
    BY <1>2, <1>3, <1>4, <1>5, <1>6, <1>7, <1>8, <1>9, <1>10, <1>11 DEF Next

\* As long as callers give each descriptor to one cleanup at a time, no
\* handler closes one twice, in whatever order files are closed early by
\* hky_pool_run_cleanup_file, opened again and given to the pool once more.
THEOREM ClosedOnce == Spec => []NoDoubleClose
  <1>1. Init => CleanupInv BY DEF Init, CleanupInv, Armed, ArmedFds
  <1>2. CleanupInv => NoDoubleClose BY DEF CleanupInv, NoDoubleClose
  <1> QED BY <1>1, <1>2, CleanupStep, PoolInvariant, PTL DEF Spec

-----------------------------------------------------------------------------
(***************************************************************************)
(* The pool implements the arena, for every size and number of its blocks: *)
(* each call of hky_palloc.c is one step of HkyArena or none.  Memory      *)
(* safety lets the arena grant what the pool does, LargeOwned makes the    *)
(* blocks of the large list the blocks the arena owns, and the cleanup     *)
(* invariant makes one armed entry the debt of one descriptor.             *)
(***************************************************************************)
LEMMA OneRegion ==
    ASSUME NEW p, NEW size, NEW align, NEW r \in SmallAlloc(p, size, align)
    PROVE  r.at = <<>> \/ \E c : r.at = <<c>>
  BY DEF SmallAlloc, TakeFrom, TakeNew, Refused

\* Regions put behind the others are a grant if the result is safe.
LEMMA GrantOne ==
    ASSUME live \in Seq(Region), live' \in Seq(Region), MemorySafe', NEW c,
           live' = live \o <<c>>
    PROVE  Arena!Grants(1)
  <1>1. Len(live') = Len(live) + 1 /\ Len(live) \in Nat /\ DOMAIN live' = 1..Len(live')
        /\ \A i \in 1..Len(live) : live'[i] = live[i]
    OBVIOUS
  <1>2. \A i, j \in DOMAIN live' : i # j => ~Overlaps(live'[i], live'[j])
    BY DEF MemorySafe, SafeIn
  <1>3. \A i \in 1..Len(live'), j \in Len(live) + 1 .. Len(live') :
           i # j => ~Overlaps(live'[i], live'[j])
    BY <1>1, <1>2
  <1> QED BY <1>1, <1>3 DEF Arena!Grants

LEMMA GrantTwo ==
    ASSUME live \in Seq(Region), live' \in Seq(Region), MemorySafe', NEW c, NEW d,
           live' = live \o <<c>> \o <<d>>
    PROVE  Arena!Grants(2)
  <1>1. Len(live') = Len(live) + 2 /\ Len(live) \in Nat /\ DOMAIN live' = 1..Len(live')
        /\ \A i \in 1..Len(live) : live'[i] = live[i]
    OBVIOUS
  <1>2. \A i, j \in DOMAIN live' : i # j => ~Overlaps(live'[i], live'[j])
    BY DEF MemorySafe, SafeIn
  <1>3. \A i \in 1..Len(live'), j \in Len(live) + 1 .. Len(live') :
           i # j => ~Overlaps(live'[i], live'[j])
    <2>1. \A j \in Len(live) + 1 .. Len(live') : j \in 1..Len(live') BY <1>1
    <2> QED BY <1>1, <1>2, <2>1
  <1> QED BY <1>1, <1>3 DEF Arena!Grants

\* One entry more, one debt more; one entry disarmed, one debt less.
LEMMA OneDebtMore ==
    ASSUME cleanup \in Seq(Entry), NEW fd \in Fds, NEW handler \in {"file", "delete"},
           cleanup' = <<[handler |-> handler, fd |-> fd]>> \o cleanup
    PROVE  ArmedFds' = ArmedFds \cup {fd}
  <1> DEFINE e == [handler |-> handler, fd |-> fd]
             m == <<e>> \o cleanup
  <1>1. e.fd = fd /\ e.handler # "none" OBVIOUS
  <1>2. Len(cleanup) \in Nat /\ DOMAIN cleanup = 1..Len(cleanup) OBVIOUS
  <1>3. /\ DOMAIN m = 1..(Len(cleanup) + 1) /\ m[1] = e
        /\ \A i \in 1..Len(cleanup) : m[i + 1] = cleanup[i]
        /\ \A i \in 2..(Len(cleanup) + 1) : i - 1 \in 1..Len(cleanup) /\ m[i] = cleanup[i - 1]
    <2> HIDE DEF e
    <2> QED BY <1>2
  <1>4. cleanup' = m OBVIOUS
  <1> HIDE DEF e, m
  <1>5. ASSUME NEW x \in ArmedFds' PROVE x \in ArmedFds \cup {fd}
    <2>1. PICK i \in DOMAIN m : m[i].handler # "none" /\ m[i].fd = x
      BY <1>4 DEF Armed, ArmedFds
    <2>2. CASE i = 1 BY <2>1, <2>2, <1>1, <1>3
    <2>3. CASE i # 1
      <3>1. i - 1 \in 1..Len(cleanup) /\ m[i] = cleanup[i - 1] BY <2>3, <1>2, <1>3
      <3> QED BY <3>1, <2>1, <1>2 DEF Armed, ArmedFds
    <2> QED BY <2>2, <2>3
  <1>6. ASSUME NEW x \in ArmedFds PROVE x \in ArmedFds'
    <2>1. PICK i \in 1..Len(cleanup) : cleanup[i].handler # "none" /\ cleanup[i].fd = x
      BY <1>2 DEF Armed, ArmedFds
    <2>2. i + 1 \in DOMAIN m /\ m[i + 1] = cleanup[i] BY <2>1, <1>2, <1>3
    <2> QED BY <2>1, <2>2, <1>4 DEF Armed, ArmedFds
  <1>7. fd \in ArmedFds'
    <2>1. 1 \in DOMAIN m BY <1>2, <1>3
    <2> QED BY <2>1, <1>1, <1>3, <1>4 DEF Armed, ArmedFds
  <1> QED BY <1>5, <1>6, <1>7

LEMMA OneDebtLess ==
    ASSUME PoolInv, CleanupInv, NEW fd \in Fds, RunCleanupFile(fd)
    PROVE  fd \in ArmedFds /\ ArmedFds' = ArmedFds \ {fd}
  <1> DEFINE hits == {i \in Armed : cleanup[i].handler = "file" /\ cleanup[i].fd = fd}
             k == FirstOf(hits)
  <1>0. cleanup \in Seq(Entry) /\ DOMAIN cleanup = 1..Len(cleanup) BY DEF PoolInv, TypeOK
  <1>1. k \in Armed /\ cleanup[k].fd = fd
    <2>1. hits \in SUBSET Nat BY <1>0 DEF Armed
    <2> QED BY <2>1, FirstOfIn DEF RunCleanupFile
  <1>2. cleanup' = [cleanup EXCEPT ![k] = [cleanup[k] EXCEPT !.handler = "none"]]
    BY DEF RunCleanupFile
  <1> HIDE DEF k
  <1>3. k \in 1..Len(cleanup) /\ cleanup[k] \in Entry BY <1>0, <1>1 DEF Armed
  <1>4. /\ DOMAIN cleanup' = 1..Len(cleanup) /\ cleanup'[k].handler = "none"
        /\ \A i \in 1..Len(cleanup) : i # k => cleanup'[i] = cleanup[i]
    BY <1>0, <1>2, <1>3 DEF Entry
  <1>5. \A i : i \in Armed' <=> i \in Armed \ {k} BY <1>0, <1>4 DEF Armed
  <1>6. \A i \in Armed \ {k} : cleanup'[i] = cleanup[i] /\ cleanup[i].fd # fd
    BY <1>0, <1>1, <1>4 DEF CleanupInv, Armed
  <1>7. ASSUME NEW x PROVE x \in ArmedFds' <=> x \in ArmedFds \ {fd}
    <2>1. x \in ArmedFds' <=> \E i \in Armed \ {k} : cleanup[i].fd = x
      BY <1>5, <1>6 DEF ArmedFds
    <2>2. x \in ArmedFds <=> \E i \in Armed : cleanup[i].fd = x BY DEF ArmedFds
    <2> QED BY <2>1, <2>2, <1>1, <1>6
  <1>8. fd \in ArmedFds BY <1>1 DEF ArmedFds
  <1> QED BY <1>7, <1>8

LEMMA InitRefines == Init => Arena!Init
  BY DEF Init, Arena!Init, ArmedFds, Armed

AllInv == PoolInv /\ LargeInv /\ CleanupInv

LEMMA NextRefines == AllInv /\ AllInv' /\ [Next]_vars => [Arena!Next]_(Arena!vars)
  <1> SUFFICES ASSUME AllInv, AllInv', [Next]_vars
               PROVE  Arena!Next \/ UNCHANGED Arena!vars
    OBVIOUS
  <1>0. /\ live \in Seq(Region) /\ live' \in Seq(Region) /\ MemorySafe'
        /\ cleanup \in Seq(Entry) /\ openFds \subseteq Fds
        /\ lost \subseteq heap /\ heap \ lost = Slots
    BY DEF AllInv, PoolInv, TypeOK, LargeInv, LargeOwned
  <1>1. CASE UNCHANGED <<alive, cleanup, live, openFds>> /\ heap' \ lost' = heap \ lost
    BY <1>1 DEF Arena!vars, ArmedFds, Armed
  <1>2. ASSUME CreatePool PROVE Arena!Next
    <2>1. heap \ lost = {} BY <1>0, <1>2 DEF CreatePool, AllInv, LargeInv, Slots
    <2>2. ArmedFds' = {} BY <1>2 DEF CreatePool, ArmedFds, Armed
    <2>3. Arena!Create BY <1>2, <2>1, <2>2 DEF CreatePool, Arena!Create
    <2> QED BY <2>3 DEF Arena!Next
  <1>3. ASSUME NEW size \in Sizes, NEW align \in BOOLEAN, PallocSmall(size, align)
        PROVE  Arena!Next \/ UNCHANGED Arena!vars
    <2>1. PICK r \in SmallAlloc(pool, size, align) : live' = live \o r.at
      BY <1>3 DEF PallocSmall
    <2>2. alive /\ UNCHANGED <<alive, large, cleanup, heap, lost, openFds, badClose>>
      BY <1>3 DEF PallocSmall
    <2>3. CASE r.at = <<>>
      <3>1. live' = live BY <2>1, <2>3, <1>0
      <3> QED BY <3>1, <2>2, <1>1
    <2>4. CASE \E c : r.at = <<c>>
      <3>1. Arena!Grants(1) BY <2>1, <2>4, <1>0, GrantOne
      <3>2. Arena!Grant BY <3>1, <2>2 DEF Arena!Grant, ArmedFds, Armed
      <3> QED BY <3>2 DEF Arena!Next
    <2> QED BY <2>3, <2>4, OneRegion
  <1>4. ASSUME NEW h \in HeapIds, h \notin heap, alive, LinkLarge(h),
               UNCHANGED <<alive, cleanup, lost, openFds>>
        PROVE  Arena!Next \/ UNCHANGED Arena!vars
    <2>1. PICK r \in SmallAlloc(pool, LargeHeader, TRUE) :
             /\ live' = live \o r.at
             /\ IF r.at = <<>> THEN UNCHANGED <<large, heap>>
                ELSE large' = <<h>> \o large /\ heap' = heap \cup {h}
      BY <1>4 DEF LinkLarge
    <2>2. CASE r.at = <<>>
      <3>1. live' = live BY <2>1, <2>2, <1>0
      <3> QED BY <3>1, <2>1, <2>2, <1>4, <1>1
    <2>3. CASE \E c : r.at = <<c>>
      <3>1. Arena!Grants(1) BY <2>1, <2>3, <1>0, GrantOne
      <3>2. heap' \ lost' = (heap \ lost) \cup {h} BY <2>1, <2>3, <1>0, <1>4
      <3>3. Arena!TakeBlock(h)
        BY <3>1, <3>2, <1>4 DEF Arena!TakeBlock, ArmedFds, Armed
      <3> QED BY <3>3 DEF Arena!Next
    <2> QED BY <2>2, <2>3, OneRegion
  <1>5. ASSUME NEW size \in Sizes, NEW h \in HeapIds, PallocLarge(size, h)
        PROVE  Arena!Next \/ UNCHANGED Arena!vars
    <2>1. alive /\ h \notin heap /\ UNCHANGED <<alive, cleanup, openFds>>
      BY <1>5 DEF PallocLarge
    <2>2. CASE heap' = heap \cup {h} /\ lost' = lost \cup {h} /\ live' = live
      <3>1. heap' \ lost' = heap \ lost BY <2>1, <2>2
      <3> QED BY <3>1, <2>1, <2>2, <1>1
    <2>3. CASE heap' = heap \cup {h} /\ lost' = lost /\ live' = live
      <3>1. heap' \ lost' = (heap \ lost) \cup {h} BY <2>1, <2>3, <1>0
      <3>2. Arena!TakeBlock(h)
        BY <3>1, <2>1, <2>3 DEF Arena!TakeBlock, ArmedFds, Armed
      <3> QED BY <3>2 DEF Arena!Next
    <2>4. CASE LinkLarge(h) /\ lost' = lost BY <2>1, <2>4, <1>4
    <2> QED BY <1>5, <2>2, <2>3, <2>4 DEF PallocLarge
  <1>6. ASSUME NEW h \in HeapIds, Pmemalign(h) PROVE Arena!Next \/ UNCHANGED Arena!vars
    BY <1>4, <1>6 DEF Pmemalign
  <1>7. ASSUME NEW h \in HeapIds, Pfree(h) PROVE Arena!Next
    <2>1. h \in Slots BY <1>7, PoolAssumption DEF Pfree, Slots
    <2>2. heap' \ lost' = (heap \ lost) \ {h} BY <1>7 DEF Pfree
    <2>3. Arena!FreeBlock(h)
      BY <1>0, <1>7, <2>1, <2>2 DEF Pfree, Arena!FreeBlock, ArmedFds, Armed
    <2> QED BY <2>3 DEF Arena!Next
  <1>8. ASSUME NEW fd \in openFds \ ArmedFds, NEW handler \in {"file", "delete"},
               AddFileCleanup(handler, fd)
        PROVE  Arena!Next \/ UNCHANGED Arena!vars
    <2>0. alive /\ UNCHANGED <<alive, large, heap, lost, openFds, badClose>> /\ fd \in Fds
      BY <1>0, <1>8 DEF AddFileCleanup
    <2>1. PICK r \in SmallAlloc(pool, CleanupHeader, TRUE) :
             IF r.at = <<>> THEN pool' = r.pool /\ UNCHANGED <<live, cleanup>>
             ELSE \E s \in SmallAlloc(r.pool, FileData, TRUE) :
                     /\ pool' = s.pool /\ live' = live \o r.at \o s.at
                     /\ cleanup' = IF s.at = <<>> THEN cleanup
                                   ELSE <<[handler |-> handler, fd |-> fd]>> \o cleanup
      BY <1>8 DEF AddFileCleanup
    <2>2. CASE r.at = <<>> BY <2>0, <2>1, <2>2, <1>1
    <2>3. ASSUME NEW c, r.at = <<c>> PROVE Arena!Next
      <3>0. \A x \in SmallAlloc(r.pool, FileData, TRUE) : x.at = <<>> \/ \E d : x.at = <<d>>
        <4> DEFINE p == r.pool
        <4>1. \A x \in SmallAlloc(p, FileData, TRUE) : x.at = <<>> \/ \E d : x.at = <<d>>
          <5> HIDE DEF p
          <5> QED BY Zenon, OneRegion
        <4> QED BY <4>1
      <3>1. PICK s \in SmallAlloc(r.pool, FileData, TRUE) :
               /\ live' = live \o r.at \o s.at
               /\ cleanup' = IF s.at = <<>> THEN cleanup
                             ELSE <<[handler |-> handler, fd |-> fd]>> \o cleanup
        <4>1. r.at # <<>> BY <2>3
        <4> QED BY <2>1, <4>1
      <3>2. CASE s.at = <<>>
        <4>1. live' = live \o <<c>> \o <<>> BY <3>1, <3>2, <2>3
        <4> DEFINE l == live \o <<c>>
        <4>2. l \o <<>> = l
          <5>1. Len(l) = Len(live) + 1 /\ l = [i \in 1..Len(l) |-> l[i]] BY <1>0
          <5> QED BY <5>1, <1>0
        <4>3. live' = live \o <<c>> BY <4>1, <4>2
        <4>4. Arena!Grants(1) BY <4>3, <1>0, GrantOne
        <4>5. cleanup' = cleanup BY <3>1, <3>2
        <4>6. Arena!Grant BY <4>4, <4>5, <2>0 DEF Arena!Grant, ArmedFds, Armed
        <4> QED BY <4>6 DEF Arena!Next
      <3>3. ASSUME NEW d, s.at = <<d>> PROVE Arena!Next
        <4>1. live' = live \o <<c>> \o <<d>> BY <3>1, <3>3, <2>3
        <4>2. Arena!Grants(2) BY <4>1, <1>0, GrantTwo
        <4>3. cleanup' = <<[handler |-> handler, fd |-> fd]>> \o cleanup BY <3>1, <3>3
        <4>4. ArmedFds' = ArmedFds \cup {fd} BY <4>3, <2>0, <1>0, OneDebtMore
        <4>5. Arena!Owe(fd) BY <4>2, <4>4, <2>0, <1>8 DEF Arena!Owe
        <4> QED BY <4>5, <2>0 DEF Arena!Next
      <3>4. s.at = <<>> \/ \E d : s.at = <<d>> BY <3>0
      <3> QED BY <3>2, <3>3, <3>4
    <2>4. r.at = <<>> \/ \E c : r.at = <<c>> BY OneRegion
    <2> QED BY <2>2, <2>3, <2>4
  <1>9. ASSUME NEW fd \in Fds, OpenFile(fd) PROVE Arena!Next
    <2>1. Arena!OpenFile(fd) BY <1>9 DEF OpenFile, Arena!OpenFile, ArmedFds, Armed
    <2> QED BY <2>1 DEF Arena!Next
  <1>10. ASSUME NEW fd \in Fds, RunCleanupFile(fd) PROVE Arena!Next
    <2>1. fd \in ArmedFds /\ ArmedFds' = ArmedFds \ {fd}
      BY <1>10, OneDebtLess DEF AllInv
    <2>2. Arena!Close(fd) BY <1>10, <2>1 DEF RunCleanupFile, Arena!Close
    <2> QED BY <2>2 DEF Arena!Next
  <1>11. ASSUME ResetPool PROVE Arena!Next
    <2>1. heap' \ lost' = {} BY <1>0, <1>11 DEF ResetPool
    <2>2. Arena!Reset BY <1>11, <2>1 DEF ResetPool, Arena!Reset, ArmedFds, Armed
    <2> QED BY <2>2 DEF Arena!Next
  <1>12. ASSUME DestroyPool PROVE Arena!Next
    <2>1. heap' \ lost' = {} BY <1>0, <1>12 DEF DestroyPool
    <2>2. ArmedFds' = {} BY <1>12 DEF DestroyPool, ArmedFds, Armed
    <2>3. alive
      BY <1>12 DEF DestroyPool
    <2>4. Arena!Destroy BY <1>12, <2>1, <2>2, <2>3 DEF DestroyPool, Arena!Destroy
    <2> QED BY <2>4 DEF Arena!Next
  <1>13. CASE UNCHANGED vars BY <1>1, <1>13 DEF vars
  <1> QED
    BY <1>2, <1>3, <1>5, <1>6, <1>7, <1>8, <1>9, <1>10, <1>11, <1>12, <1>13 DEF Next

\* Whatever hky_palloc.c does to blocks, slots and entries, its callers see an
\* arena: regions apart from each other, and every heap block and descriptor
\* given back once.
THEOREM ImplementsArena == Spec => ArenaSpec
  <1>1. Init => LargeInv BY DEF Init, LargeInv, LargeOwned, Slots
  <1>2. Init => CleanupInv BY DEF Init, CleanupInv, Armed, ArmedFds
  <1>3. Spec => []AllInv
    <2>1. AllInv <=> PoolInv /\ LargeInv /\ CleanupInv BY DEF AllInv
    <2> QED
      BY <1>1, <1>2, <2>1, LargeInvStep, CleanupStep, PoolInvariant, PTL DEF Spec
  <1> QED
    BY <1>3, InitRefines, NextRefines, PTL DEF Spec, ArenaSpec, Arena!Spec
=============================================================================
