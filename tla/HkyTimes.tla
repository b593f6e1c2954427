------------------------------ MODULE HkyTimes ------------------------------
(***************************************************************************)
(* The cached time, hky_time_update of core/hky_times.c, run by several    *)
(* contexts (its lock allows for threads and for a signal handler that     *)
(* interrupts it) while others read what it publishes.  A reader           *)
(* takes no lock: it follows a pointer into a ring of slots and reads at   *)
(* its leisure, so a slot must not change under it for as long as the ring *)
(* promises.                                                               *)
(***************************************************************************)
EXTENDS Naturals

CONSTANTS
    Slots,      \* HKY_TIME_SLOTS
    Texts,      \* the number of formatted times: http, err_log, http_log, iso8601, syslog
    Updaters,   \* contexts that call hky_time_update
    Readers,
    Moments,    \* what gettimeofday may answer, in any order: [sec, msec]
    NULL

ASSUME TimesAssumption ==
    /\ Slots \in Nat /\ Slots >= 2
    /\ Texts \in Nat
    /\ Moments \subseteq [sec : Nat \ {0}, msec : Nat]
    /\ NULL \notin Updaters /\ NULL \notin Moments

VARIABLES
    lock,      \* hky_time_lock: its holder, or NULL
    slot,      \* the slot of the last update that began to fill one
    time,      \* cached_time[]: [sec, msec]
    text,      \* the second each formatted time of each slot shows
    pointer,   \* what is published: 0 is hky_cached_time, 1..Texts the formatted times
    pc, tv, k, \* of each updater: where it is, its struct timeval, its position
    tp,        \* of each updater: the slot hky_init_cycle will clear, or 0
    reader     \* of each reader: [at, what, idx, first, second], and how often the
               \* slot has changed since it took its pointer (lag)

updater == <<pc, tv, k, tp>>
vars == <<lock, slot, time, text, pointer, updater, reader>>

Ring == 0 .. Slots - 1
Pointers == 0 .. Texts

Resting == [at |-> "rest", what |-> 0, idx |-> 0, first |-> 0, second |-> 0, lag |-> 0]

\* The state hky_time_init leaves behind, its first update included.
Init ==
    /\ lock = NULL /\ slot = 1
    /\ \E now \in Moments :
          /\ time = [i \in Ring |-> IF i = 1 THEN now ELSE [sec |-> 0, msec |-> 0]]
          /\ text = [x \in 1..Texts |-> [i \in Ring |-> IF i = 1 THEN now.sec ELSE 0]]
    /\ pointer = [x \in Pointers |-> 1]
    /\ pc = [u \in Updaters |-> "idle"] /\ tv = [u \in Updaters |-> NULL]
    /\ k = [u \in Updaters |-> 0] /\ tp = [u \in Updaters |-> 0]
    /\ reader = [r \in Readers |-> Resting]

-----------------------------------------------------------------------------
\* hky_init_cycle clears the second of the published time, so that the update
\* it then asks for renders all of them anew.  It takes no lock, and others may
\* publish, and the ring may come round, between the load of the pointer and
\* the store.
LoadTime(u) ==
    /\ pc[u] = "idle" /\ pc' = [pc EXCEPT ![u] = "clear"]
    /\ tp' = [tp EXCEPT ![u] = pointer[0]]
    /\ UNCHANGED <<lock, slot, time, text, pointer, tv, k, reader>>

ClearSecond(u) ==
    /\ pc[u] = "clear" /\ pc' = [pc EXCEPT ![u] = "enter"]
    /\ time' = [time EXCEPT ![tp[u]].sec = 0] /\ tp' = [tp EXCEPT ![u] = 0]
    /\ UNCHANGED <<lock, slot, text, pointer, tv, k, reader>>

\* Mutant: the lock is not looked at.
NoLock == TRUE

LockIsFree == lock = NULL

\* hky_trylock: who does not get the lock returns at once.
Enter(u) ==
    /\ pc[u] \in {"idle", "enter"}
    /\ IF LockIsFree THEN lock' = u /\ pc' = [pc EXCEPT ![u] = "clock"]
       ELSE UNCHANGED lock /\ pc' = [pc EXCEPT ![u] = "idle"]
    /\ UNCHANGED <<slot, time, text, pointer, tv, k, tp, reader>>

\* gettimeofday; the clock may have jumped, backwards too.  hky_current_msec,
\* which is stored here, is nobody's business in this module.
ReadClock(u) ==
    /\ pc[u] = "clock" /\ pc' = [pc EXCEPT ![u] = "test"]
    /\ \E now \in Moments : tv' = [tv EXCEPT ![u] = now]
    /\ UNCHANGED <<lock, slot, time, text, pointer, k, tp, reader>>

SameSecond(u) ==
    /\ pc[u] = "test" /\ time[slot].sec = tv[u].sec
    /\ time' = [time EXCEPT ![slot].msec = tv[u].msec]
    /\ pc' = [pc EXCEPT ![u] = "unlock"]
    /\ UNCHANGED <<lock, slot, text, pointer, tv, k, tp, reader>>

\* Mutants: a wrap one slot too early, no step at all.
SlotEarlyWrap == IF slot >= Slots - 2 THEN 0 ELSE slot + 1
SlotStays == slot

NextSlot == IF slot = Slots - 1 THEN 0 ELSE slot + 1

NextSecond(u) ==
    /\ pc[u] = "test" /\ time[slot].sec # tv[u].sec
    /\ slot' = NextSlot
    /\ pc' = [pc EXCEPT ![u] = "time"] /\ k' = [k EXCEPT ![u] = 0]
    /\ reader' = [r \in Readers |->
                    [reader[r] EXCEPT !.lag = IF @ < Slots THEN @ + 1 ELSE @]]
    /\ UNCHANGED <<lock, time, text, pointer, tv, tp>>

FillTime(u) ==
    /\ pc[u] = "time" /\ pc' = [pc EXCEPT ![u] = "render"]
    /\ time' = [time EXCEPT ![slot] = tv[u]]
    /\ UNCHANGED <<lock, slot, text, pointer, tv, k, tp, reader>>

\* hky_gmtime or hky_localtime and hky_sprintf into the next text of the slot.
Render(u) ==
    /\ pc[u] = "render"
    /\ IF k[u] = Texts
       THEN /\ pc' = [pc EXCEPT ![u] = "publish"] /\ k' = [k EXCEPT ![u] = 0]
            /\ UNCHANGED text
       ELSE /\ k' = [k EXCEPT ![u] = @ + 1] /\ UNCHANGED pc
            /\ text' = [text EXCEPT ![k[u] + 1][slot] = tv[u].sec]
    /\ UNCHANGED <<lock, slot, time, pointer, tv, tp, reader>>

\* After the memory barrier: one pointer after the other.
Publish(u) ==
    /\ pc[u] = "publish"
    /\ pointer' = [pointer EXCEPT ![k[u]] = slot]
    /\ IF k[u] = Texts THEN pc' = [pc EXCEPT ![u] = "unlock"] /\ UNCHANGED k
       ELSE k' = [k EXCEPT ![u] = @ + 1] /\ UNCHANGED pc
    /\ UNCHANGED <<lock, slot, time, text, tv, tp, reader>>

Unlock(u) ==
    /\ pc[u] = "unlock" /\ pc' = [pc EXCEPT ![u] = "idle"]
    /\ lock' = NULL /\ tv' = [tv EXCEPT ![u] = NULL] /\ k' = [k EXCEPT ![u] = 0]
    /\ UNCHANGED <<slot, time, text, pointer, tp, reader>>

-----------------------------------------------------------------------------
\* A reader takes a pointer, then reads what it points to in two parts: the
\* second and the millisecond, or the two halves of a text.
Take(r, x) ==
    /\ reader[r].at = "rest"
    /\ reader' = [reader EXCEPT ![r] =
                    [Resting EXCEPT !.at = "first", !.what = x, !.idx = pointer[x]]]
    /\ UNCHANGED <<lock, slot, time, text, pointer, updater>>

ReadFirst(r) ==
    LET me == reader[r] IN
    /\ me.at = "first"
    /\ reader' = [reader EXCEPT ![r].at = "second",
                    ![r].first = IF me.what = 0 THEN time[me.idx].sec
                                 ELSE text[me.what][me.idx]]
    /\ UNCHANGED <<lock, slot, time, text, pointer, updater>>

ReadSecond(r) ==
    LET me == reader[r] IN
    /\ me.at = "second"
    /\ reader' = [reader EXCEPT ![r].at = "done",
                    ![r].second = IF me.what = 0 THEN time[me.idx].msec
                                  ELSE text[me.what][me.idx]]
    /\ UNCHANGED <<lock, slot, time, text, pointer, updater>>

Rest(r) ==
    /\ reader[r].at = "done"
    /\ reader' = [reader EXCEPT ![r] = Resting]
    /\ UNCHANGED <<lock, slot, time, text, pointer, updater>>

Next ==
    \/ \E u \in Updaters :
          \/ LoadTime(u) \/ ClearSecond(u)
          \/ Enter(u) \/ ReadClock(u) \/ SameSecond(u) \/ NextSecond(u)
          \/ FillTime(u) \/ Render(u) \/ Publish(u) \/ Unlock(u)
    \/ \E r \in Readers :
          \/ ReadFirst(r) \/ ReadSecond(r) \/ Rest(r)
          \/ \E x \in Pointers : Take(r, x)

Spec == Init /\ [][Next]_vars

-----------------------------------------------------------------------------
Reader ==
    [at : {"rest", "first", "second", "done"}, what : Pointers, idx : Ring,
     first : Nat, second : Nat, lag : Nat]

TypeOK ==
    /\ lock \in Updaters \cup {NULL} /\ slot \in Ring
    /\ time \in [Ring -> [sec : Nat, msec : Nat]]
    /\ text \in [1..Texts -> [Ring -> Nat]]
    /\ pointer \in [Pointers -> Ring]
    /\ pc \in [Updaters -> {"idle", "clear", "enter", "clock", "test", "time", "render",
                           "publish", "unlock"}]
    /\ tv \in [Updaters -> Moments \cup {NULL}] /\ k \in [Updaters -> 0..Texts]
    /\ tp \in [Updaters -> Ring]
    /\ reader \in [Readers -> Reader]

\* A slot is filled only while no pointer leads to it: what is published does
\* not change but for the millisecond, whoever is interrupted where, and for
\* the second that hky_init_cycle clears without the lock (ClearSecond).
PublishedStable ==
    \A u \in Updaters : pc[u] \in {"time", "render"} =>
        \A x \in Pointers : pointer[x] # slot

\* Between updates all cached times show the same second, the one of the last
\* update; but that of hky_cached_time may be cleared, by a hky_init_cycle whose
\* own update is still to come or has found the lock taken.
CachedTimesAgree ==
    lock = NULL =>
        /\ \A x \in Pointers : pointer[x] = slot
        /\ \A x, y \in 1..Texts : text[x][slot] = text[y][slot]
        /\ \A x \in 1..Texts : time[slot].sec \in {0, text[x][slot]}

\* A reader that is done before the ring has come round once less one slot has
\* read a moment the clock showed, or one and the same text.  It may find the
\* second cleared by hky_init_cycle instead, whatever the millisecond is then.
ReadRight ==
    \A r \in Readers :
        LET me == reader[r] IN
        me.at = "done" /\ me.lag < Slots - 1 =>
            IF me.what = 0 THEN me.first = 0 \/ [sec |-> me.first, msec |-> me.second] \in Moments
            ELSE me.first = me.second
=============================================================================
