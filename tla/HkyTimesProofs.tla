--------------------------- MODULE HkyTimesProofs ----------------------------
(***************************************************************************)
(* The ring of cached times is safe for every number of slots (two or     *)
(* more), of formatted times, of updaters and of readers, and whatever the *)
(* clock answers.                                                          *)
(*                                                                         *)
(* The inductive invariant says where the holder of the lock is in its     *)
(* work and what the published pointers and the slot it fills look like    *)
(* there; that a slot that nobody has cleared holds a moment the clock     *)
(* showed; and how far the ring has gone past each reader.                 *)
(***************************************************************************)
EXTENDS HkyTimes, TLAPS

\* The steps from slot i forward to slot s.
Away(s, i) == IF s >= i THEN s - i ELSE s - i + Slots

Inside == {"clock", "test", "time", "render", "publish", "unlock"}

\* All that is published is the slot of the last update, and it agrees.
Settled ==
    /\ \A x \in Pointers : pointer[x] = slot
    /\ \A x, y \in 1..Texts : text[x][slot] = text[y][slot]
    /\ \A x \in 1..Texts : time[slot].sec \in {0, text[x][slot]}

Filled(u) ==
    /\ time[slot].sec \in {0, tv[u].sec}
    /\ \A x \in 1..Texts : text[x][slot] = tv[u].sec

UpdaterInv(u) ==
    /\ pc[u] \in Inside <=> lock = u
    /\ pc[u] \in {"test", "time", "render", "publish"} => tv[u] \in Moments
    /\ pc[u] \in {"clock", "test", "unlock"} => Settled
    /\ pc[u] \in {"time", "render"} => \A x \in Pointers : Away(slot, pointer[x]) = 1
    /\ pc[u] = "time" => k[u] = 0
    /\ pc[u] = "render" =>
          /\ time[slot].sec \in {0, tv[u].sec}
          /\ \A x \in 1..k[u] : text[x][slot] = tv[u].sec
    /\ pc[u] = "publish" =>
          /\ Filled(u)
          /\ \A x \in Pointers : Away(slot, pointer[x]) = IF x < k[u] THEN 0 ELSE 1

TimeInv == \A i \in Ring : time[i].sec = 0 \/ time[i] \in Moments

InTime(me) == me.at # "rest" /\ me.lag < Slots - 1

\* The slot of a reader that is in time is not the one being filled, and what
\* it has read of it so far still fits the rest.
ReaderInv(r) ==
    LET me == reader[r] IN
    InTime(me) =>
      /\ Away(slot, me.idx) \in {me.lag, me.lag + 1}
      /\ me.idx = slot => \A u \in Updaters : pc[u] \notin {"time", "render"}
      /\ me.at = "second" /\ me.what = 0 =>
            \/ me.first = 0
            \/ /\ [sec |-> me.first, msec |-> time[me.idx].msec] \in Moments
               /\ time[me.idx].sec \in {0, me.first}
      /\ me.at = "second" /\ me.what # 0 => me.first = text[me.what][me.idx]
      /\ me.at = "done" /\ me.what = 0 =>
            me.first = 0 \/ [sec |-> me.first, msec |-> me.second] \in Moments
      /\ me.at = "done" /\ me.what # 0 => me.first = me.second

IInv ==
    /\ TypeOK
    /\ lock = NULL => Settled
    /\ \A u \in Updaters : UpdaterInv(u)
    /\ TimeInv
    /\ \A r \in Readers : ReaderInv(r)

LEMMA MomentFacts ==
    ASSUME NEW m \in [sec : Nat, msec : Nat]
    PROVE  /\ [m EXCEPT !.sec = 0] \in [sec : Nat, msec : Nat]
           /\ \A n \in [sec : Nat, msec : Nat] : m.sec = n.sec /\ m.msec = n.msec => m = n
OBVIOUS

LEMMA AwayFacts ==
    ASSUME NEW s \in Ring, NEW i \in Ring
    PROVE  /\ Away(s, i) \in Ring
           /\ Away(s, i) = 0 <=> i = s
BY TimesAssumption DEF Away, Ring

\* One step of the ring: the new slot is the next one of everything that was
\* published, and everything is one step further away, unless it is met.
LEMMA NextSlotFacts ==
    ASSUME slot \in Ring
    PROVE  /\ NextSlot \in Ring /\ NextSlot # slot
           /\ Away(NextSlot, slot) = 1
           /\ \A i \in Ring : Away(slot, i) < Slots - 1 =>
                 Away(NextSlot, i) = Away(slot, i) + 1
BY TimesAssumption DEF Away, Ring, NextSlot

LEMMA InitInv == Init => IInv
<1> SUFFICES ASSUME Init PROVE IInv
  OBVIOUS
<1> USE TimesAssumption DEF Init
<1>1. 1 \in Ring /\ Away(1, 1) = 0
  BY DEF Ring, Away
<1>2. PICK now \in Moments :
         /\ time = [i \in Ring |-> IF i = 1 THEN now ELSE [sec |-> 0, msec |-> 0]]
         /\ text = [x \in 1..Texts |-> [i \in Ring |-> IF i = 1 THEN now.sec ELSE 0]]
  OBVIOUS
<1>3. now \in [sec : Nat, msec : Nat]
  OBVIOUS
<1>4. TypeOK
  <2>1. time \in [Ring -> [sec : Nat, msec : Nat]]
    BY <1>2, <1>3
  <2>2. text \in [1..Texts -> [Ring -> Nat]]
    BY <1>2, <1>3
  <2>3. Resting \in Reader
    BY DEF Resting, Reader, Pointers, Ring
  <2>4. /\ slot \in Ring /\ pointer \in [Pointers -> Ring] /\ k \in [Updaters -> 0..Texts]
        /\ tp \in [Updaters -> Ring]
    BY <1>1 DEF Ring
  <2> QED
    BY <2>1, <2>2, <2>3, <2>4 DEF TypeOK
<1>5. Settled
  BY <1>1, <1>2, <1>3 DEF Settled, Pointers
<1>6. \A u \in Updaters : UpdaterInv(u)
  BY DEF UpdaterInv, Inside
<1>7. TimeInv
  BY <1>2 DEF TimeInv
<1>8. \A r \in Readers : ReaderInv(r)
  BY DEF ReaderInv, Resting, InTime
<1> QED
  BY <1>4, <1>5, <1>6, <1>7, <1>8 DEF IInv

LEMMA TypeStep == IInv /\ [Next]_vars => TypeOK'
<1> SUFFICES ASSUME IInv, [Next]_vars PROVE TypeOK'
  OBVIOUS
<1> USE TimesAssumption DEF TypeOK
<1>0. TypeOK /\ \A u \in Updaters : pc[u] \in {"test", "time", "render"} =>
         tv[u] \in [sec : Nat, msec : Nat]
  BY DEF IInv, UpdaterInv
<1> USE <1>0
<1>00. ASSUME NEW u \in Updaters, LoadTime(u) PROVE TypeOK'
  <2>1. pointer[0] \in Ring
    BY DEF Pointers
  <2> QED
    BY <1>00, <2>1 DEF LoadTime
<1>1. ASSUME NEW u \in Updaters, ClearSecond(u) PROVE TypeOK'
  <2>1. tp[u] \in Ring /\ 0 \in Ring
    BY DEF Ring
  <2>2. [time[tp[u]] EXCEPT !.sec = 0] \in [sec : Nat, msec : Nat]
    <3>1. time[tp[u]] \in [sec : Nat, msec : Nat]
      BY <2>1
    <3> QED
      BY <3>1, MomentFacts
  <2>3. time' \in [Ring -> [sec : Nat, msec : Nat]]
    BY <1>1, <2>2 DEF ClearSecond
  <2>4. tp' \in [Updaters -> Ring]
    BY <1>1, <2>1 DEF ClearSecond
  <2>5. pc' \in [Updaters -> {"idle", "clear", "enter", "clock", "test", "time", "render",
                            "publish", "unlock"}]
    BY <1>1 DEF ClearSecond
  <2> QED
    BY <1>1, <2>3, <2>4, <2>5 DEF ClearSecond
<1>2. ASSUME NEW u \in Updaters, Enter(u) PROVE TypeOK'
  BY <1>2 DEF Enter, LockIsFree
<1>3. ASSUME NEW u \in Updaters, ReadClock(u) PROVE TypeOK'
  <2>1. PICK now \in Moments : tv' = [tv EXCEPT ![u] = now]
    BY <1>3 DEF ReadClock
  <2>2. tv' \in [Updaters -> Moments \cup {NULL}]
    BY <2>1
  <2>3. pc' \in [Updaters -> {"idle", "clear", "enter", "clock", "test", "time", "render",
                            "publish", "unlock"}]
    BY <1>3 DEF ReadClock
  <2> QED
    BY <1>3, <2>2, <2>3 DEF ReadClock
<1>4. ASSUME NEW u \in Updaters, SameSecond(u) PROVE TypeOK'
  BY <1>4 DEF SameSecond
<1>5. ASSUME NEW u \in Updaters, NextSecond(u) PROVE TypeOK'
  <2>1. slot' \in Ring
    BY <1>5, NextSlotFacts DEF NextSecond
  <2>2. reader' \in [Readers -> Reader]
    <3>1. ASSUME NEW r \in Readers, reader[r] \in Reader
          PROVE  [reader[r] EXCEPT !.lag = IF @ < Slots THEN @ + 1 ELSE @] \in Reader
      <4>1. reader[r].lag \in Nat /\ reader[r].lag + 1 \in Nat
        BY <3>1 DEF Reader
      <4>2. CASE reader[r].lag < Slots
        BY <3>1, <4>1, <4>2 DEF Reader
      <4>3. CASE ~(reader[r].lag < Slots)
        BY <3>1, <4>1, <4>3 DEF Reader
      <4> QED
        BY <4>2, <4>3
    <3> QED
      BY <1>5, <3>1 DEF NextSecond
  <2> QED
    BY <1>5, <2>1, <2>2 DEF NextSecond
<1>6. ASSUME NEW u \in Updaters, FillTime(u) PROVE TypeOK'
  BY <1>6 DEF FillTime
<1>7. ASSUME NEW u \in Updaters, Render(u) PROVE TypeOK'
  <2>1. CASE k[u] = Texts
    <3>1. k' = [k EXCEPT ![u] = 0] /\ pc' = [pc EXCEPT ![u] = "publish"]
      BY <1>7, <2>1 DEF Render
    <3>2. k' \in [Updaters -> 0..Texts]
      BY <3>1
    <3> QED
      BY <1>7, <2>1, <3>1, <3>2 DEF Render
  <2>2. CASE k[u] # Texts
    <3>1. k[u] + 1 \in 1..Texts /\ tv[u].sec \in Nat
      BY SMTT(30), <1>7, <2>2 DEF Render
    <3>2. text' = [text EXCEPT ![k[u] + 1] = [text[k[u] + 1] EXCEPT ![slot] = tv[u].sec]]
      BY <1>7, <2>2 DEF Render
    <3>3. text' \in [1..Texts -> [Ring -> Nat]]
      BY <3>1, <3>2
    <3>4. k' = [k EXCEPT ![u] = k[u] + 1] /\ pc' = pc
      BY <1>7, <2>2 DEF Render
    <3>5. k' \in [Updaters -> 0..Texts]
      BY <3>1, <3>4
    <3> QED
      BY <1>7, <3>3, <3>4, <3>5 DEF Render
  <2> QED
    BY <2>1, <2>2
<1>8. ASSUME NEW u \in Updaters, Publish(u) PROVE TypeOK'
  <2>1. k' \in [Updaters -> 0..Texts]
    <3>1. CASE k[u] = Texts
      BY <1>8, <3>1 DEF Publish
    <3>2. CASE k[u] # Texts
      <4>1. k' = [k EXCEPT ![u] = k[u] + 1]
        BY <1>8, <3>2 DEF Publish
      <4> QED
        BY <3>2, <4>1
    <3> QED
      BY <3>1, <3>2
  <2>2. pointer' \in [Pointers -> Ring]
    BY <1>8 DEF Publish, Pointers
  <2>3. pc' \in [Updaters -> {"idle", "clear", "enter", "clock", "test", "time", "render",
                            "publish", "unlock"}]
    BY <1>8 DEF Publish
  <2> QED
    BY <1>8, <2>1, <2>2, <2>3 DEF Publish
<1>9. ASSUME NEW u \in Updaters, Unlock(u) PROVE TypeOK'
  BY <1>9 DEF Unlock
<1>10. ASSUME NEW r \in Readers, NEW x \in Pointers, Take(r, x) PROVE TypeOK'
  <2>1. [Resting EXCEPT !.at = "first", !.what = x, !.idx = pointer[x]] \in Reader
    BY DEF Resting, Reader
  <2>2. reader' \in [Readers -> Reader]
    BY <1>10, <2>1 DEF Take
  <2> QED
    BY <1>10, <2>2 DEF Take, updater
<1>11. ASSUME NEW r \in Readers, ReadFirst(r) PROVE TypeOK'
  <2> DEFINE me == reader[r]
             got == IF me.what = 0 THEN time[me.idx].sec ELSE text[me.what][me.idx]
  <2>1. me \in Reader /\ got \in Nat
    BY SMTT(30) DEF Reader, Pointers
  <2>2. reader' = [reader EXCEPT ![r] = [me EXCEPT !.at = "second", !.first = got]]
    BY <1>11 DEF ReadFirst
  <2>3. reader' \in [Readers -> Reader]
    BY <2>1, <2>2 DEF Reader
  <2> QED
    BY <1>11, <2>3 DEF ReadFirst, updater
<1>12. ASSUME NEW r \in Readers, ReadSecond(r) PROVE TypeOK'
  <2> DEFINE me == reader[r]
             got == IF me.what = 0 THEN time[me.idx].msec ELSE text[me.what][me.idx]
  <2>1. me \in Reader /\ got \in Nat
    BY SMTT(30) DEF Reader, Pointers
  <2>2. reader' = [reader EXCEPT ![r] = [me EXCEPT !.at = "done", !.second = got]]
    BY <1>12 DEF ReadSecond
  <2>3. reader' \in [Readers -> Reader]
    BY <2>1, <2>2 DEF Reader
  <2> QED
    BY <1>12, <2>3 DEF ReadSecond, updater
<1>13. ASSUME NEW r \in Readers, Rest(r) PROVE TypeOK'
  <2>1. Resting \in Reader
    BY DEF Resting, Reader, Pointers, Ring
  <2>2. reader' \in [Readers -> Reader]
    BY <1>13, <2>1 DEF Rest
  <2> QED
    BY <1>13, <2>2 DEF Rest, updater
<1>14. CASE UNCHANGED vars
  BY <1>14 DEF vars, updater
<1> QED
  BY <1>00, <1>1, <1>2, <1>3, <1>4, <1>5, <1>6, <1>7, <1>8, <1>9, <1>10, <1>11, <1>12,
     <1>13, <1>14 DEF Next

-----------------------------------------------------------------------------
(* What each action preserves.                                             *)

\* Only one updater is past the lock.
LEMMA Exclusion ==
    ASSUME IInv, NEW u \in Updaters, pc[u] \in Inside
    PROVE  lock = u /\ \A w \in Updaters : w # u => pc[w] \notin Inside
BY DEF IInv, UpdaterInv

\* A reader whose record, slots and times did not change is where it was.
LEMMA ReaderKept ==
    ASSUME IInv, TypeOK', NEW r \in Readers,
           reader'[r] = reader[r], slot' = slot, text' = text, time' = time,
           \A u \in Updaters :
               pc'[u] \in {"time", "render"} => pc[u] \in {"time", "render"}
    PROVE  ReaderInv(r)'
BY DEF IInv, ReaderInv, InTime, Away

\* Nor does a reader's own step disturb anything else.
LEMMA OthersKept ==
    ASSUME IInv, UNCHANGED <<lock, slot, time, text, pointer, updater>>
    PROVE  /\ (lock = NULL => Settled)'
           /\ (\A u \in Updaters : UpdaterInv(u))'
           /\ TimeInv'
BY DEF IInv, updater, Settled, UpdaterInv, TimeInv, Filled, Away

\* Every published pointer leads to the slot or to the one before it.
LEMMA PointersNear ==
    ASSUME IInv, NEW x \in Pointers
    PROVE  /\ Away(slot, pointer[x]) \in {0, 1}
           /\ pointer[x] = slot => \A u \in Updaters : pc[u] \notin {"time", "render"}
<1>0. slot \in Ring /\ pointer[x] \in Ring
  BY DEF IInv, TypeOK
<1>1. CASE \E u \in Updaters : pc[u] \in {"time", "render", "publish"}
  <2>1. PICK u \in Updaters : pc[u] \in {"time", "render", "publish"}
    BY <1>1
  <2>2. \A w \in Updaters : w # u => pc[w] \notin {"time", "render"}
    BY <2>1, Exclusion DEF Inside
  <2>3. UpdaterInv(u)
    BY DEF IInv
  <2>4. CASE pc[u] = "publish"
    BY <2>2, <2>3, <2>4 DEF UpdaterInv
  <2>5. CASE pc[u] \in {"time", "render"}
    <3>1. Away(slot, pointer[x]) = 1
      BY <2>3, <2>5 DEF UpdaterInv
    <3> QED
      BY <1>0, <3>1, AwayFacts
  <2> QED
    BY <2>1, <2>4, <2>5
<1>2. CASE ~\E u \in Updaters : pc[u] \in {"time", "render", "publish"}
  <2>1. Settled
    <3>1. lock \in Updaters \cup {NULL}
      BY DEF IInv, TypeOK
    <3>2. CASE lock \in Updaters
      BY <1>2, <3>2 DEF IInv, UpdaterInv, Inside
    <3> QED
      BY <3>1, <3>2 DEF IInv
  <2> QED
    BY <1>0, <1>2, <2>1, AwayFacts DEF Settled
<1> QED
  BY <1>1, <1>2

LEMMA ReaderSteps ==
    ASSUME IInv, TypeOK', NEW r \in Readers,
           ReadFirst(r) \/ ReadSecond(r) \/ Rest(r) \/ \E x \in Pointers : Take(r, x)
    PROVE  IInv'
<1> USE DEF TypeOK
<1>0. TypeOK /\ UNCHANGED <<lock, slot, time, text, pointer, updater>> /\ UNCHANGED pc
  BY DEF ReadFirst, ReadSecond, Rest, Take, IInv, updater
<1>1. \A q \in Readers : q # r => ReaderInv(q)'
  <2>1. \A q \in Readers : q # r => reader'[q] = reader[q]
    BY <1>0 DEF ReadFirst, ReadSecond, Rest, Take
  <2> QED
    BY <1>0, <2>1, ReaderKept
<1>2. ReaderInv(r)'
  <2> DEFINE me == reader[r]
  <2>0. ReaderInv(r) /\ TimeInv /\ me \in Reader
    BY <1>0 DEF IInv
  <2>1. CASE ReadFirst(r)
    <3>1. reader'[r] = [me EXCEPT !.at = "second",
                          !.first = IF me.what = 0 THEN time[me.idx].sec
                                    ELSE text[me.what][me.idx]]
      BY <1>0, <2>1 DEF ReadFirst
    <3>2. time[me.idx].sec = 0 \/ time[me.idx] \in Moments
      BY <1>0, <2>0 DEF TimeInv, Reader
    <3>3. time[me.idx] = [sec |-> time[me.idx].sec, msec |-> time[me.idx].msec]
      BY <1>0, <2>0 DEF Reader
    <3>4. me.at = "first"
      BY <2>1 DEF ReadFirst
    <3> QED
      BY <1>0, <2>0, <3>1, <3>2, <3>3, <3>4 DEF ReaderInv, InTime, Away, Reader
  <2>2. CASE ReadSecond(r)
    <3>1. reader'[r] = [me EXCEPT !.at = "done",
                          !.second = IF me.what = 0 THEN time[me.idx].msec
                                     ELSE text[me.what][me.idx]]
      BY <1>0, <2>2 DEF ReadSecond
    <3>2. me.at = "second"
      BY <2>2 DEF ReadSecond
    <3> QED
      BY <1>0, <2>0, <3>1, <3>2 DEF ReaderInv, InTime, Away, Reader
  <2>3. CASE Rest(r)
    <3>1. reader'[r] = Resting
      BY <1>0, <2>3 DEF Rest
    <3> QED
      BY <3>1 DEF ReaderInv, InTime, Resting
  <2>4. ASSUME NEW x \in Pointers, Take(r, x) PROVE ReaderInv(r)'
    <3>1. reader'[r] = [Resting EXCEPT !.at = "first", !.what = x, !.idx = pointer[x]]
      BY <1>0, <2>4 DEF Take
    <3>2. reader'[r].at = "first" /\ reader'[r].idx = pointer[x] /\ reader'[r].lag = 0
      BY <3>1 DEF Resting
    <3> QED
      BY <1>0, <3>2, PointersNear DEF ReaderInv, InTime, Away
  <2> QED
    BY <2>1, <2>2, <2>3, <2>4
<1> QED
  BY <1>0, <1>1, <1>2, OthersKept DEF IInv

\* Actions that move an updater only: to a pointer, into the lock, at the clock,
\* and out.
LEMMA QuietSteps ==
    ASSUME IInv, TypeOK', NEW u \in Updaters,
           LoadTime(u) \/ Enter(u) \/ ReadClock(u) \/ Unlock(u)
    PROVE  IInv'
<1> USE TimesAssumption DEF TypeOK
<1>0. TypeOK /\ UNCHANGED <<slot, time, text, pointer, reader>>
  BY DEF LoadTime, Enter, ReadClock, Unlock, IInv
<1>1. \A w \in Updaters : w # u => pc'[w] = pc[w] /\ tv'[w] = tv[w] /\ k'[w] = k[w]
  BY <1>0 DEF LoadTime, Enter, ReadClock, Unlock
<1>2. Settled' <=> Settled
  BY <1>0 DEF Settled
<1>3. CASE Enter(u)
  <2>1. CASE lock = NULL
    <3>1. lock' = u /\ pc' = [pc EXCEPT ![u] = "clock"] /\ Settled
      BY <1>3, <2>1 DEF Enter, LockIsFree, IInv
    <3>2. \A w \in Updaters : pc[w] \notin Inside
      BY <2>1 DEF IInv, UpdaterInv
    <3>3. \A w \in Updaters : UpdaterInv(w)'
      BY <1>0, <1>1, <1>2, <3>1, <3>2 DEF UpdaterInv, Inside
    <3>4. \A r \in Readers : ReaderInv(r)'
      BY <1>0, <3>1, ReaderKept
    <3> QED
      BY <1>0, <3>1, <3>3, <3>4 DEF IInv, TimeInv
  <2>2. CASE lock # NULL
    <3>1. lock' = lock /\ pc' = [pc EXCEPT ![u] = "idle"] /\ pc[u] \notin Inside
      BY <1>3, <2>2 DEF Enter, LockIsFree, Inside
    <3>2. tv' = tv /\ k' = k
      BY <1>3 DEF Enter
    <3>3. \A w \in Updaters : UpdaterInv(w)'
      BY <1>0, <1>1, <1>2, <3>1, <3>2 DEF IInv, UpdaterInv, Inside, Filled, Away
    <3>4. \A r \in Readers : ReaderInv(r)'
      BY <1>0, <3>1, ReaderKept
    <3> QED
      BY <1>0, <1>2, <3>1, <3>3, <3>4 DEF IInv, TimeInv
  <2> QED
    BY <2>1, <2>2
<1>4. CASE ReadClock(u)
  <2>1. lock' = lock /\ pc[u] = "clock" /\ pc' = [pc EXCEPT ![u] = "test"]
    BY <1>4 DEF ReadClock
  <2>2. tv'[u] \in Moments /\ k' = k
    BY <1>0, <1>4 DEF ReadClock
  <2>3. \A w \in Updaters : UpdaterInv(w)'
    BY <1>0, <1>1, <1>2, <2>1, <2>2 DEF IInv, UpdaterInv, Inside, Filled, Away
  <2>4. \A r \in Readers : ReaderInv(r)'
    BY <1>0, <2>1, ReaderKept
  <2> QED
    BY <1>0, <1>2, <2>1, <2>3, <2>4 DEF IInv, TimeInv
<1>5. CASE Unlock(u)
  <2>1. lock' = NULL /\ pc[u] = "unlock" /\ pc' = [pc EXCEPT ![u] = "idle"]
    BY <1>5 DEF Unlock
  <2>2. Settled /\ \A w \in Updaters : w # u => pc[w] \notin Inside
    BY <2>1, Exclusion DEF IInv, UpdaterInv, Inside
  <2>3. \A w \in Updaters : UpdaterInv(w)'
    BY <1>0, <1>1, <1>2, <2>1, <2>2 DEF UpdaterInv, Inside
  <2>4. \A r \in Readers : ReaderInv(r)'
    BY <1>0, <2>1, ReaderKept
  <2> QED
    BY <1>0, <1>2, <2>2, <2>3, <2>4 DEF IInv, TimeInv
<1>6. CASE LoadTime(u)
  <2>1. UNCHANGED <<lock, tv, k>> /\ pc[u] = "idle" /\ pc' = [pc EXCEPT ![u] = "clear"]
    BY <1>6 DEF LoadTime
  <2>2. \A w \in Updaters : UpdaterInv(w)'
    BY <1>0, <1>1, <1>2, <2>1 DEF IInv, UpdaterInv, Inside, Filled, Away
  <2>3. \A r \in Readers : ReaderInv(r)'
    BY <1>0, <2>1, ReaderKept
  <2> QED
    BY <1>0, <1>2, <2>1, <2>2, <2>3 DEF IInv, TimeInv
<1> QED
  BY <1>3, <1>4, <1>5, <1>6

\* The one step of hky_init_cycle that takes no lock only ever clears a second,
\* in whichever slot its pointer, by then perhaps an old one, leads to.
LEMMA ClearSecondStep ==
    ASSUME IInv, TypeOK', NEW u \in Updaters, ClearSecond(u)
    PROVE  IInv'
<1> USE TimesAssumption DEF TypeOK
<1>0. TypeOK /\ pc[u] = "clear" /\ pc' = [pc EXCEPT ![u] = "enter"]
      /\ UNCHANGED <<lock, slot, text, pointer, tv, k, reader>>
  BY DEF ClearSecond, IInv
<1>1. slot \in Ring
  BY <1>0
<1>2. \A i \in Ring : time'[i] = time[i] \/ time'[i] = [time[i] EXCEPT !.sec = 0]
  BY <1>0, <1>1 DEF ClearSecond
<1>3. ASSUME NEW i \in Ring
      PROVE  time'[i].sec \in {0, time[i].sec} /\ time'[i].msec = time[i].msec
  <2>1. time[i] \in [sec : Nat, msec : Nat]
    BY <1>0
  <2> QED
    BY <1>2, <2>1
<1>4. Settled => Settled'
  BY <1>0, <1>3 DEF Settled
<1>6. \A w \in Updaters : UpdaterInv(w)'
  <2> SUFFICES ASSUME NEW w \in Updaters PROVE UpdaterInv(w)'
    OBVIOUS
  <2>3. UpdaterInv(w)
    BY DEF IInv
  <2>4. pc'[w] = pc[w] \/ (pc[w] = "clear" /\ pc'[w] = "enter")
    BY <1>0
  <2>0. UpdaterInv(w) /\ (pc'[w] = pc[w] \/ (pc[w] = "clear" /\ pc'[w] = "enter"))
    BY <2>3, <2>4
  <2>1. pc'[w] \in Inside <=> lock' = w
    BY <1>0, <2>0 DEF UpdaterInv, Inside
  <2>2. pc[w] \in {"render", "publish"} => time'[slot].sec \in {0, tv[w].sec}
    BY <1>1, <1>3, <2>0 DEF UpdaterInv, Filled
  <2> QED
    BY <1>0, <1>4, <2>0, <2>1, <2>2 DEF UpdaterInv, Filled, Away
<1>7. TimeInv'
  BY <1>0, <1>2, <1>3 DEF IInv, TimeInv
<1>8. \A r \in Readers : ReaderInv(r)'
  <2> SUFFICES ASSUME NEW r \in Readers PROVE ReaderInv(r)'
    OBVIOUS
  <2>1. ReaderInv(r) /\ reader[r] \in Reader /\ reader'[r] = reader[r]
    BY <1>0 DEF IInv
  <2>2. reader[r].idx \in Ring
    BY <2>1 DEF Reader
  <2> QED
    BY <1>0, <1>3, <2>1, <2>2 DEF ReaderInv, InTime, Away
<1> QED
  BY <1>0, <1>4, <1>6, <1>7, <1>8 DEF IInv

LEMMA SameSecondStep ==
    ASSUME IInv, TypeOK', NEW u \in Updaters, SameSecond(u)
    PROVE  IInv'
<1> USE TimesAssumption DEF TypeOK
<1>0. TypeOK /\ pc[u] = "test" /\ pc' = [pc EXCEPT ![u] = "unlock"]
      /\ UNCHANGED <<lock, slot, text, pointer, tv, k, reader>> /\ slot \in Ring
  BY DEF SameSecond, IInv
<1>1. tv[u] \in Moments /\ Settled /\ lock = u
      /\ \A w \in Updaters : w # u => pc[w] \notin Inside
  BY <1>0, Exclusion DEF IInv, UpdaterInv, Inside
<1>2. tv[u] \in [sec : Nat \ {0}, msec : Nat]
  BY <1>1
<1>3. time'[slot] = tv[u] /\ \A i \in Ring : i # slot => time'[i] = time[i]
  <2>1. time'[slot] = [time[slot] EXCEPT !.msec = tv[u].msec] /\ time[slot].sec = tv[u].sec
    BY <1>0 DEF SameSecond
  <2>2. time[slot] \in [sec : Nat, msec : Nat]
    BY <1>0
  <2>3. time'[slot].sec = tv[u].sec /\ time'[slot].msec = tv[u].msec
        /\ time'[slot] \in [sec : Nat, msec : Nat]
    BY <1>2, <2>1, <2>2
  <2>4. tv[u] \in [sec : Nat, msec : Nat]
    BY <1>2
  <2>5. time'[slot] = tv[u]
    BY <2>3, <2>4, MomentFacts
  <2> QED
    BY <1>0, <2>5 DEF SameSecond
<1>4. time[slot].sec = tv[u].sec
  BY DEF SameSecond
<1>5. Settled'
  BY <1>0, <1>1, <1>3, <1>4 DEF Settled
<1>6. \A w \in Updaters : UpdaterInv(w)'
  BY <1>0, <1>1, <1>5 DEF UpdaterInv, Inside
<1>7. TimeInv'
  BY <1>0, <1>1, <1>3 DEF IInv, TimeInv
<1>8. \A r \in Readers : ReaderInv(r)'
  <2> SUFFICES ASSUME NEW r \in Readers PROVE ReaderInv(r)'
    OBVIOUS
  <2> DEFINE me == reader[r]
  <2>1. ReaderInv(r) /\ me \in Reader /\ reader'[r] = me
    BY <1>0 DEF IInv
  <2>2. \A w \in Updaters : pc'[w] \notin {"time", "render"}
    BY <1>0, <1>1 DEF Inside
  <2>3. CASE me.idx = slot
    <3>1. ASSUME me.first = tv[u].sec
          PROVE  [sec |-> me.first, msec |-> time'[slot].msec] \in Moments
      BY <1>1, <1>2, <1>3, <3>1
    <3> QED
      BY <1>0, <1>2, <1>3, <1>4, <2>1, <2>2, <2>3, <3>1 DEF ReaderInv, InTime, Away
  <2>4. CASE me.idx # slot
    BY <1>0, <1>3, <2>1, <2>2, <2>4 DEF ReaderInv, InTime, Away, Reader
  <2> QED
    BY <2>3, <2>4
<1> QED
  BY <1>0, <1>5, <1>6, <1>7, <1>8 DEF IInv

\* The ring turns: everything published was the slot and is now one behind.
LEMMA NextSecondStep ==
    ASSUME IInv, TypeOK', NEW u \in Updaters, NextSecond(u)
    PROVE  IInv'
<1> USE TimesAssumption DEF TypeOK
<1>0. TypeOK /\ pc[u] = "test" /\ pc' = [pc EXCEPT ![u] = "time"]
      /\ UNCHANGED <<lock, time, text, pointer, tv>> /\ slot \in Ring /\ slot' = NextSlot
  BY DEF NextSecond, IInv
<1>1. tv[u] \in Moments /\ Settled /\ lock = u /\ u # NULL
      /\ \A w \in Updaters : w # u => pc[w] \notin Inside
  BY <1>0, Exclusion DEF IInv, UpdaterInv, Inside
<1>2. \A x \in Pointers : Away(slot', pointer'[x]) = 1
  BY <1>0, <1>1, NextSlotFacts DEF Settled
<1>3. \A w \in Updaters : UpdaterInv(w)'
  <2>1. pc'[u] = "time" /\ k'[u] = 0
    BY <1>0 DEF NextSecond
  <2>2. UpdaterInv(u)'
    BY <1>0, <1>1, <1>2, <2>1 DEF UpdaterInv, Inside, Away
  <2>3. \A w \in Updaters : w # u => UpdaterInv(w)'
    BY <1>0, <1>1 DEF UpdaterInv, Inside
  <2> QED
    BY <2>2, <2>3
<1>4. TimeInv'
  BY <1>0 DEF IInv, TimeInv
<1>5. \A r \in Readers : ReaderInv(r)'
  <2> SUFFICES ASSUME NEW r \in Readers, InTime(reader'[r]) PROVE ReaderInv(r)'
    BY DEF ReaderInv
  <2> DEFINE me == reader[r]
  <2>1. ReaderInv(r) /\ me \in Reader
    BY <1>0 DEF IInv
  <2>2. reader'[r] = [me EXCEPT !.lag = IF me.lag < Slots THEN me.lag + 1 ELSE me.lag]
    BY <1>0 DEF NextSecond
  <2>3. me.lag \in Nat /\ me.idx \in Ring
    BY <2>1 DEF Reader
  <2>4. reader'[r].lag = me.lag + 1 /\ InTime(me)
    <3>1. reader'[r].lag = IF me.lag < Slots THEN me.lag + 1 ELSE me.lag
      BY <2>1, <2>2 DEF Reader
    <3>2. reader'[r].at = me.at
      BY <2>1, <2>2 DEF Reader
    <3>3. reader'[r].lag < Slots - 1 /\ me.at # "rest"
      BY <3>2 DEF InTime
    <3> QED
      BY <2>3, <3>1, <3>3 DEF InTime
  <2>5. /\ reader'[r].at = me.at /\ reader'[r].what = me.what /\ reader'[r].idx = me.idx
        /\ reader'[r].first = me.first /\ reader'[r].second = me.second
    BY <2>1, <2>2 DEF Reader
  <2>6. Away(slot, me.idx) \in {me.lag, me.lag + 1} /\ Away(slot, me.idx) < Slots - 1
    BY <2>1, <2>2, <2>3, <2>4 DEF ReaderInv, InTime
  <2>7. Away(slot', me.idx) = Away(slot, me.idx) + 1
    BY <1>0, <2>3, <2>6, NextSlotFacts
  <2>8. Away(slot, me.idx) \in Nat
    BY <2>3, <2>6
  <2>9. Away(slot', reader'[r].idx) \in {reader'[r].lag, reader'[r].lag + 1}
    BY <2>3, <2>4, <2>5, <2>6, <2>7
  <2>10. me.idx # slot'
    BY <1>0, <2>3, <2>7, <2>8, AwayFacts
  <2> QED
    BY <1>0, <2>1, <2>4, <2>5, <2>9, <2>10 DEF ReaderInv, InTime, Away
<1> QED
  BY <1>0, <1>1, <1>3, <1>4, <1>5 DEF IInv

\* The slot that is filled is the slot of no reader that is in time.
LEMMA FilledApart ==
    ASSUME IInv, NEW u \in Updaters, pc[u] \in {"time", "render"}
    PROVE  /\ \A x \in Pointers : pointer[x] # slot
           /\ \A r \in Readers : InTime(reader[r]) => reader[r].idx # slot
<1>1. slot \in Ring /\ \A x \in Pointers : Away(slot, pointer[x]) = 1
  BY DEF IInv, TypeOK, UpdaterInv
<1>2. \A x \in Pointers : pointer[x] # slot
  BY <1>1, AwayFacts
<1> QED
  BY <1>2 DEF IInv, ReaderInv

LEMMA FillTimeStep ==
    ASSUME IInv, TypeOK', NEW u \in Updaters, FillTime(u)
    PROVE  IInv'
<1> USE TimesAssumption DEF TypeOK
<1>0. TypeOK /\ pc[u] = "time" /\ pc' = [pc EXCEPT ![u] = "render"]
      /\ UNCHANGED <<lock, slot, text, pointer, tv, k, reader>> /\ slot \in Ring
      /\ time' = [time EXCEPT ![slot] = tv[u]]
  BY DEF FillTime, IInv
<1>1. tv[u] \in Moments /\ lock = u /\ u # NULL
      /\ (\A x \in Pointers : Away(slot, pointer[x]) = 1)
      /\ \A w \in Updaters : w # u => pc[w] \notin Inside
  BY <1>0, Exclusion DEF IInv, UpdaterInv, Inside
<1>2. k[u] = 0
  BY <1>0 DEF IInv, UpdaterInv
<1>3. \A w \in Updaters : UpdaterInv(w)'
  BY <1>0, <1>1, <1>2 DEF UpdaterInv, Inside, Away
<1>4. TimeInv'
  BY <1>0, <1>1 DEF IInv, TimeInv
<1>5. \A r \in Readers : ReaderInv(r)'
  <2> SUFFICES ASSUME NEW r \in Readers, InTime(reader[r]) PROVE ReaderInv(r)'
    BY <1>0 DEF ReaderInv
  <2>1. ReaderInv(r) /\ reader[r].idx # slot /\ reader[r] \in Reader
    BY <1>0, FilledApart DEF IInv
  <2>2. time'[reader[r].idx] = time[reader[r].idx]
    BY <1>0, <2>1 DEF Reader
  <2> QED
    BY <1>0, <2>1, <2>2 DEF ReaderInv, InTime, Away
<1> QED
  BY <1>0, <1>1, <1>3, <1>4, <1>5 DEF IInv

LEMMA RenderStep ==
    ASSUME IInv, TypeOK', NEW u \in Updaters, Render(u)
    PROVE  IInv'
<1> USE TimesAssumption DEF TypeOK
<1>0. TypeOK /\ pc[u] = "render" /\ UNCHANGED <<lock, slot, time, pointer, tv, reader>>
      /\ slot \in Ring /\ k[u] \in 0..Texts
  BY DEF Render, IInv
<1>1. tv[u] \in Moments /\ lock = u /\ u # NULL
      /\ time[slot].sec \in {0, tv[u].sec}
      /\ (\A x \in 1..k[u] : text[x][slot] = tv[u].sec)
      /\ (\A x \in Pointers : Away(slot, pointer[x]) = 1)
      /\ \A w \in Updaters : w # u => pc[w] \notin Inside
  BY <1>0, Exclusion DEF IInv, UpdaterInv, Inside
<1>2. \A w \in Updaters : w # u => pc'[w] \notin Inside
  BY <1>0, <1>1 DEF Render
<1>3. TimeInv'
  BY <1>0 DEF IInv, TimeInv
<1>4. CASE k[u] = Texts
  <2>1. pc' = [pc EXCEPT ![u] = "publish"] /\ k' = [k EXCEPT ![u] = 0] /\ text' = text
    BY <1>4 DEF Render
  <2>2. \A x \in Pointers : ~(x < 0)
    BY DEF Pointers
  <2>3. pc'[u] = "publish" /\ k'[u] = 0
    BY <1>0, <2>1
  <2>4. UpdaterInv(u)'
    BY <1>0, <1>1, <1>4, <2>1, <2>2, <2>3 DEF UpdaterInv, Inside, Filled, Away
  <2>5. \A w \in Updaters : w # u => UpdaterInv(w)'
    BY <1>0, <1>1, <1>2 DEF UpdaterInv, Inside
  <2>6. \A r \in Readers : ReaderInv(r)'
    BY <1>0, <2>1, ReaderKept
  <2> QED
    BY <1>0, <1>1, <1>3, <2>4, <2>5, <2>6 DEF IInv
<1>5. CASE k[u] # Texts
  <2>1. pc' = pc /\ k' = [k EXCEPT ![u] = k[u] + 1]
        /\ text' = [text EXCEPT ![k[u] + 1][slot] = tv[u].sec]
    BY <1>5 DEF Render
  <2>2. k[u] + 1 \in 1..Texts /\ k'[u] = k[u] + 1
    BY <1>0, <1>5, <2>1
  <2>3. \A x \in 1..Texts : text'[x][slot] = IF x = k[u] + 1 THEN tv[u].sec ELSE text[x][slot]
    BY <1>0, <2>1, <2>2
  <2>4. \A x \in 1..k'[u] : text'[x][slot] = tv[u].sec
    <3> SUFFICES ASSUME NEW x \in 1..k'[u] PROVE text'[x][slot] = tv[u].sec
      OBVIOUS
    <3>1. x \in 1..Texts /\ (x = k[u] + 1 \/ x \in 1..k[u])
      <4>1. k[u] \in Nat /\ Texts \in Nat
        BY <1>0
      <4>2. x \in 1..(k[u] + 1) /\ k[u] + 1 \in 1..Texts
        BY <2>2
      <4> HIDE DEF TypeOK
      <4> QED
        BY ONLY <4>1, <4>2
    <3>2. \A y \in 1..k[u] : text[y][slot] = tv[u].sec
      BY <1>1
    <3> QED
      BY <2>3, <3>1, <3>2
  <2>5. UpdaterInv(u)'
    BY <1>0, <1>1, <2>1, <2>4 DEF UpdaterInv, Inside, Away
  <2>6. \A w \in Updaters : w # u => UpdaterInv(w)'
    BY <1>0, <1>1, <1>2 DEF UpdaterInv, Inside
  <2>7. \A r \in Readers : ReaderInv(r)'
    <3> SUFFICES ASSUME NEW r \in Readers, InTime(reader[r]) PROVE ReaderInv(r)'
      BY <1>0 DEF ReaderInv
    <3>1. ReaderInv(r) /\ reader[r].idx # slot /\ reader[r] \in Reader
      BY <1>0, FilledApart DEF IInv
    <3>2. \A x \in 1..Texts : text'[x][reader[r].idx] = text[x][reader[r].idx]
      BY <1>0, <2>1, <2>2, <3>1 DEF Reader
    <3>3. reader[r].what # 0 => reader[r].what \in 1..Texts
      <4>1. reader[r].what \in 0..Texts
        BY <3>1 DEF Reader, Pointers
      <4> QED
        BY <4>1
    <3> QED
      BY <1>0, <2>1, <3>1, <3>2, <3>3 DEF ReaderInv, InTime, Away
  <2> QED
    BY <1>0, <1>1, <1>3, <2>5, <2>6, <2>7 DEF IInv
<1> QED
  BY <1>4, <1>5

LEMMA PublishStep ==
    ASSUME IInv, TypeOK', NEW u \in Updaters, Publish(u)
    PROVE  IInv'
<1> USE TimesAssumption DEF TypeOK
<1>0. TypeOK /\ pc[u] = "publish" /\ UNCHANGED <<lock, slot, time, text, tv, reader>>
      /\ slot \in Ring /\ k[u] \in Pointers /\ pointer' = [pointer EXCEPT ![k[u]] = slot]
  BY DEF Publish, IInv, Pointers
<1>1. tv[u] \in Moments /\ lock = u /\ u # NULL /\ Filled(u)
      /\ (\A x \in Pointers : Away(slot, pointer[x]) = IF x < k[u] THEN 0 ELSE 1)
      /\ \A w \in Updaters : w # u => pc[w] \notin Inside
  BY <1>0, Exclusion DEF IInv, UpdaterInv, Inside
<1>2. \A w \in Updaters : w # u => pc'[w] \notin Inside
  BY <1>0, <1>1 DEF Publish
<1>3. \A x \in Pointers : Away(slot, pointer'[x]) = IF x < k[u] + 1 THEN 0 ELSE 1
  <2> SUFFICES ASSUME NEW x \in Pointers
               PROVE  Away(slot, pointer'[x]) = IF x < k[u] + 1 THEN 0 ELSE 1
    OBVIOUS
  <2>1. Away(slot, slot) = 0
    BY <1>0, AwayFacts
  <2>2. k[u] \in Nat /\ x \in Nat
    BY <1>0 DEF Pointers
  <2>3. CASE x = k[u]
    BY <1>0, <2>1, <2>2, <2>3
  <2>4. CASE x # k[u]
    <3>1. pointer'[x] = pointer[x]
      BY <1>0, <2>4
    <3> QED
      BY <1>1, <2>2, <2>4, <3>1
  <2> QED
    BY <2>3, <2>4
<1>4. TimeInv'
  BY <1>0 DEF IInv, TimeInv
<1>5. \A w \in Updaters : w # u => UpdaterInv(w)'
  BY <1>0, <1>1, <1>2 DEF UpdaterInv, Inside
<1>6. pc'[u] \in {"unlock", "publish"}
  BY <1>0 DEF Publish
<1>7. \A r \in Readers : ReaderInv(r)'
  BY <1>0, <1>2, <1>6, ReaderKept DEF Inside
<1>8. CASE k[u] = Texts
  <2>1. pc'[u] = "unlock"
    BY <1>0, <1>8 DEF Publish
  <2>2. \A x \in Pointers : pointer'[x] = slot
    BY <1>0, <1>3, <1>8, AwayFacts DEF Pointers
  <2>3. Settled'
    BY <1>0, <1>1, <2>2 DEF Settled, Filled
  <2>4. UpdaterInv(u)'
    BY <1>0, <1>1, <2>1, <2>3 DEF UpdaterInv, Inside
  <2> QED
    BY <1>0, <1>1, <1>4, <1>5, <1>7, <2>4 DEF IInv
<1>9. CASE k[u] # Texts
  <2>1. pc'[u] = "publish" /\ k'[u] = k[u] + 1
    BY <1>0, <1>9 DEF Publish
  <2>2. UpdaterInv(u)'
    BY <1>0, <1>1, <1>3, <2>1 DEF UpdaterInv, Inside, Filled, Away
  <2> QED
    BY <1>0, <1>1, <1>4, <1>5, <1>7, <2>2 DEF IInv
<1> QED
  BY <1>8, <1>9

-----------------------------------------------------------------------------
LEMMA NextInv == IInv /\ [Next]_vars => IInv'
<1> SUFFICES ASSUME IInv, [Next]_vars PROVE IInv'
  OBVIOUS
<1>0. TypeOK'
  BY TypeStep
<1>1. ASSUME NEW u \in Updaters,
             \/ LoadTime(u) \/ ClearSecond(u) \/ Enter(u) \/ ReadClock(u) \/ SameSecond(u)
             \/ NextSecond(u) \/ FillTime(u) \/ Render(u) \/ Publish(u) \/ Unlock(u)
      PROVE  IInv'
  BY <1>0, <1>1, ClearSecondStep, QuietSteps, SameSecondStep, NextSecondStep, FillTimeStep,
     RenderStep, PublishStep
<1>2. ASSUME NEW r \in Readers,
             \/ ReadFirst(r) \/ ReadSecond(r) \/ Rest(r)
             \/ \E x \in Pointers : Take(r, x)
      PROVE  IInv'
  BY <1>0, <1>2, ReaderSteps
<1>3. CASE UNCHANGED vars
  <2>1. UNCHANGED <<lock, slot, time, text, pointer, updater, pc, reader>>
    BY <1>3 DEF vars, updater
  <2>2. \A r \in Readers : ReaderInv(r)'
    BY <1>0, <2>1, ReaderKept
  <2> QED
    BY <1>0, <2>1, <2>2, OthersKept DEF IInv
<1> QED
  BY <1>1, <1>2, <1>3 DEF Next

LEMMA Inductive == Spec => []IInv
BY InitInv, NextInv, PTL DEF Spec

\* Whatever the clock answers, slot and pointers stay in the ring and every
\* variable in its range (hky_times.c:77).
THEOREM TypeCorrect == Spec => []TypeOK
<1>1. IInv => TypeOK
  BY DEF IInv
<1> QED
  BY <1>1, Inductive, PTL

\* No slot that a published pointer leads to is being filled, for every number
\* of slots from two, of texts, updaters and readers (hky_times.c:77-139).
THEOREM StablePublication == Spec => []PublishedStable
<1>1. IInv => PublishedStable
  BY FilledApart DEF PublishedStable
<1> QED
  BY <1>1, Inductive, PTL

\* With the lock free, all that is published shows one second, that of the last
\* update (hky_times.c:59-141 and hky_cycle.c:40).
THEOREM TimesAgree == Spec => []CachedTimesAgree
<1>1. IInv => CachedTimesAgree
  BY DEF IInv, CachedTimesAgree, Settled
<1> QED
  BY <1>1, Inductive, PTL

\* A reader that the ring has not nearly lapped reads no mixture of two moments
\* although it takes no lock (hky_times.h:41-42).
THEOREM ReadersRight == Spec => []ReadRight
<1>1. IInv => ReadRight
  BY DEF IInv, ReadRight, ReaderInv, InTime
<1> QED
  BY <1>1, Inductive, PTL
=============================================================================
