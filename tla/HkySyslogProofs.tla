-------------------------- MODULE HkySyslogProofs ---------------------------
(***************************************************************************)
(* Nested log calls keep off the peers that are in use, and every socket    *)
(* of a peer has an owner; a message reaches the logs whose directives ask  *)
(* for it and no other.  For any configurations, levels and numbers of      *)
(* cycles, sockets and cleanups.                                            *)
(*                                                                          *)
(* IInv says that every chain ends, who is in which peer and who has which  *)
(* socket.  Meant says what the chains are: in some order, the higher the   *)
(* sooner, the logs of the directives in some other order (Chain); and that *)
(* a call at the k-th log has been at the k - 1 before it (Seen).           *)
(***************************************************************************)
EXTENDS HkySyslog, SequenceTheorems

\* A sequence, whatever is in it.
IsSeq(s) == s \in Seq({s[n] : n \in DOMAIN s})

-----------------------------------------------------------------------------
(* Types.  A chain has no cycle: every set of its logs has one that leads    *)
(* out of the set.  So a loop over it ends, and an insertion finds its place. *)

Acyclic(logs) ==
    \A S \in SUBSET DOMAIN logs : S # {} => \E l \in S : logs[l].next \notin S

IsLog(l) ==
    l = [log_level |-> l.log_level, file |-> l.file, peer |-> l.peer, next |-> l.next,
         disk_full_time |-> l.disk_full_time]

GoodLogs(logs, peers) ==
    /\ IsSeq(logs) /\ Len(logs) >= 1 /\ Acyclic(logs)
    /\ \A l \in DOMAIN logs :
         /\ IsLog(logs[l])
         /\ logs[l].next \in 0..Len(logs) /\ logs[l].peer \in 0..Len(peers)

IsPeer(p) ==
    /\ p = [server |-> p.server, fd |-> p.fd, busy |-> p.busy]
    /\ p.fd \in Fds \cup {-1}

GoodCycle(c) ==
    /\ c = [conf |-> c.conf, logs |-> c.logs, peers |-> c.peers, cleanups |-> c.cleanups]
    /\ IsSeq(c.peers) /\ \A k \in DOMAIN c.peers : IsPeer(c.peers[k])
    /\ c.cleanups \in Seq(DOMAIN c.peers)
    /\ GoodLogs(c.logs, c.peers)

CyclesGood(cs) ==
    IsSeq(cs) /\ \A c \in DOMAIN cs : cs[c] = Gone \/ GoodCycle(cs[c])
LiveIn(cs, c) == c \in DOMAIN cs /\ GoodCycle(cs[c])
Live(c) == LiveIn(cycles, c)

Steps == {"walk", "told", "connect", "failed", "send", "close", "sent"}

IsCall(c) ==
    c = [cycle |-> c.cycle, level |-> c.level, at |-> c.at, step |-> c.step, fd |-> c.fd,
         reached |-> c.reached, wrote_stderr |-> c.wrote_stderr]

Writes(c) == c.step \notin {"walk", "told"}

GoodCall(cs, c) ==
    /\ IsCall(c) /\ c.step \in Steps
    /\ LiveIn(cs, c.cycle)
    /\ c.at \in 0..Len(cs[c.cycle].logs)
    /\ Writes(c) => c.at # 0 /\ cs[c.cycle].logs[c.at].peer # 0

\* Where a reload is, and which cycles it may not destroy.
ReloadRight ==
    /\ Live(hky_cycle)
    /\ reload.phase \in {"none", "conf", "made", "failed", "done"}
    /\ reload = [phase |-> reload.phase, cycle |-> reload.cycle, left |-> reload.left]
    /\ IF reload.phase = "none" THEN reload = NoReload
       ELSE Live(reload.cycle) /\ reload.cycle # hky_cycle

DyingRight ==
    /\ dying = [cycle |-> dying.cycle, left |-> dying.left, run |-> dying.run]
    /\ dying # NotDying =>
         /\ Live(dying.cycle)
         /\ dying.left \in Seq(DOMAIN cycles[dying.cycle].peers)
         /\ dying.run \subseteq DOMAIN cycles[dying.cycle].peers
         /\ reload.phase \in {"none", "failed", "done"}
         /\ dying.cycle = hky_cycle <=> reload.phase = "done"

TypeInv ==
    /\ CyclesGood(cycles) /\ ReloadRight /\ DyingRight
    /\ DOMAIN sockets \subseteq Fds
    /\ IsSeq(stack) /\ \A n \in DOMAIN stack : GoodCall(cycles, stack[n])

-----------------------------------------------------------------------------
(* Who is in which peer.  A busy peer is one a call is writing to, or one    *)
(* whose cleanup has run, and never both.                                   *)

Peers == UNION {{c} \X DOMAIN cycles[c].peers : c \in DOMAIN cycles}
PeerAt(p) == cycles[p[1]].peers[p[2]]
BusyPeers == {p \in Peers : PeerAt(p).busy}
CleanedPeers == {dying.cycle} \X dying.run
Writers == {n \in DOMAIN stack : InWriter(n)}

Guarded ==
    /\ \A m, n \in Writers : PeerOf(m) = PeerOf(n) => m = n
    /\ \A n \in Writers : PeerOf(n) \in BusyPeers \ CleanedPeers
    /\ CleanedPeers \subseteq BusyPeers
    /\ BusyPeers \subseteq CleanedPeers \cup {PeerOf(n) : n \in Writers}

-----------------------------------------------------------------------------
(* Who has which socket.                                                    *)

Cleanable ==
    {p \in Peers : p[2] \in ToSet(IF p[1] = dying.cycle THEN dying.left
                                  ELSE cycles[p[1]].cleanups)}
Failed == {n \in Writers : stack[n].step = "failed"}
Unconnected == {n \in Writers : stack[n].step \in {"connect", "failed"}}

Owned ==
    /\ \A fd \in DOMAIN sockets :
         \/ sockets[fd] \in Cleanable /\ PeerAt(sockets[fd]).fd = fd
         \/ \E n \in Failed : stack[n].fd = fd /\ PeerOf(n) = sockets[fd]
    /\ \A p \in Peers \ CleanedPeers :
         PeerAt(p).fd # -1 => PeerAt(p).fd \in DOMAIN sockets /\ sockets[PeerAt(p).fd] = p
    /\ \A n \in Failed : stack[n].fd \in DOMAIN sockets /\ sockets[stack[n].fd] = PeerOf(n)
    /\ \A n \in Unconnected : PeerAt(PeerOf(n)).fd = -1
    /\ dying # NotDying => stack = <<>>

IInv == TypeInv /\ Guarded /\ (~doubled => Owned)

-----------------------------------------------------------------------------
(* Sequences and records of whatever.                                       *)

LEMMA SeqParts ==
    ASSUME NEW s, IsSeq(s)
    PROVE  Len(s) \in Nat /\ DOMAIN s = 1..Len(s)
  BY DEF IsSeq

LEMMA SeqAppend ==
    ASSUME NEW s, IsSeq(s), NEW x
    PROVE  LET t == Append(s, x) IN
           /\ IsSeq(t) /\ Len(t) = Len(s) + 1 /\ DOMAIN t = DOMAIN s \cup {Len(s) + 1}
           /\ Len(s) + 1 \notin DOMAIN s
           /\ t[Len(s) + 1] = x /\ \A n \in DOMAIN s : t[n] = s[n]
  <1> DEFINE t == Append(s, x)
             S == {s[n] : n \in DOMAIN s} \cup {x}
  <1>1. s \in Seq(S) /\ x \in S BY DEF IsSeq
  <1>2. t \in Seq(S) /\ Len(t) = Len(s) + 1 BY <1>1
  <1>3. t[Len(s) + 1] = x /\ \A n \in 1..Len(s) : t[n] = s[n] BY <1>1
  <1>4. t \in Seq({t[n] : n \in DOMAIN t}) BY <1>2
  <1> QED BY <1>1, <1>2, <1>3, <1>4, SeqParts DEF IsSeq

LEMMA SeqExcept ==
    ASSUME NEW s, IsSeq(s), NEW k \in DOMAIN s, NEW x
    PROVE  LET t == [s EXCEPT ![k] = x] IN
           /\ IsSeq(t) /\ Len(t) = Len(s) /\ DOMAIN t = DOMAIN s /\ t[k] = x
           /\ \A n \in DOMAIN s : n # k => t[n] = s[n]
  <1> DEFINE t == [s EXCEPT ![k] = x]
             S == {s[n] : n \in DOMAIN s} \cup {x}
  <1>1. s \in Seq(S) /\ x \in S BY DEF IsSeq
  <1>2. t \in Seq(S) /\ Len(t) = Len(s) BY <1>1, ExceptSeq
  <1>4. t \in Seq({t[n] : n \in DOMAIN t})
    <2> HIDE DEF t
    <2> QED BY <1>2
  <1>5. DOMAIN t = DOMAIN s OBVIOUS
  <1>6. \A n \in DOMAIN s : n # k => t[n] = s[n] OBVIOUS
  <1> QED BY <1>2, <1>4, <1>5, <1>6 DEF IsSeq

LEMMA SeqTyped ==
    ASSUME NEW s, NEW S, s \in Seq(S)
    PROVE  IsSeq(s)
  BY DEF IsSeq

-----------------------------------------------------------------------------
(* The chain of logs.                                                       *)

\* The places a chain is made of: the links of logs beside those of bits.
LEMMA VisitedClosed ==
    ASSUME NEW logs, IsSeq(logs), Len(logs) >= 1, NEW passed,
           \A l \in DOMAIN logs : logs[l].next \in 0..Len(logs)
    PROVE  LET V == Visited(logs, passed) IN
           /\ 1 \in V /\ V \subseteq DOMAIN logs
           /\ \A p \in V \cap passed : logs[p].next \in V \cup {0}
  <1> DEFINE V == Visited(logs, passed)
             Closed(S) == 1 \in S /\ \A p \in S \cap passed : logs[p].next \in S \cup {0}
  <1>1. DOMAIN logs = 1..Len(logs) /\ Len(logs) \in Nat BY SeqParts
  <1>2. 1 \in V BY <1>1 DEF Visited
  <1>3. ASSUME NEW p \in V \cap passed, logs[p].next # 0 PROVE logs[p].next \in V
    <2>1. p \in DOMAIN logs /\ logs[p].next \in DOMAIN logs BY <1>1, <1>3 DEF Visited
    <2>2. ASSUME NEW S \in SUBSET DOMAIN logs, Closed(S) PROVE logs[p].next \in S
      <3>1. p \in S BY <2>2 DEF Visited
      <3> QED BY <3>1, <2>2, <1>3
    <2> QED BY <2>1, <2>2 DEF Visited
  <1>4. V \subseteq DOMAIN logs BY DEF Visited
  <1> QED BY <1>2, <1>3, <1>4

\* The loop of hky_log_insert finds a place, and among the logs it comes to.
LEMMA BeforeIn ==
    ASSUME NEW logs, IsSeq(logs), Len(logs) >= 1, Acyclic(logs), NEW i,
           \A l \in DOMAIN logs : logs[l].next \in 0..Len(logs)
    PROVE  /\ Before(logs, i) \in Visited(logs, {p \in DOMAIN logs : ~Fits(logs, i, p)})
           /\ Fits(logs, i, Before(logs, i))
  <1> DEFINE passed == {p \in DOMAIN logs : ~Fits(logs, i, p)}
             V == Visited(logs, passed)
  <1>1. 1 \in V /\ V \subseteq DOMAIN logs /\ \A p \in V \cap passed : logs[p].next \in V \cup {0}
    BY VisitedClosed
  <1>2. PICK l \in V : logs[l].next \notin V
    <2> HIDE DEF V
    <2> QED BY <1>1 DEF Acyclic
  <1>3. Fits(logs, i, l)
    <2>1. CASE logs[l].next = 0 BY <2>1 DEF Fits
    <2>2. CASE logs[l].next # 0 BY <2>2, <1>1, <1>2
    <2> QED BY <2>1, <2>2
  <1> HIDE DEF V
  <1>4. Before(logs, i) = CHOOSE p \in V : Fits(logs, i, p) BY DEF Before, V
  <1>5. Before(logs, i) \in V /\ Fits(logs, i, Before(logs, i)) BY <1>4, <1>2, <1>3
  <1> QED BY <1>5 DEF V

\* A new log behind b takes over where b led to.
LEMMA AcyclicInsert ==
    ASSUME NEW old, Acyclic(old), NEW new, NEW b \in DOMAIN old, NEW i, i \notin DOMAIN old,
           DOMAIN new = DOMAIN old \cup {i}, \A l \in DOMAIN old : old[l].next # i,
           new[i].next = old[b].next, new[b].next = i,
           \A l \in DOMAIN old \ {b} : new[l].next = old[l].next
    PROVE  Acyclic(new)
  <1> SUFFICES ASSUME NEW S \in SUBSET DOMAIN new, S # {}
               PROVE  \E l \in S : new[l].next \notin S
    BY DEF Acyclic
  <1>1. CASE S \ {i} = {}
    <2>1. S = {i} BY <1>1
    <2> QED BY <2>1
  <1>2. CASE S \ {i} # {}
    <2>1. PICK l \in S \ {i} : old[l].next \notin S \ {i} BY <1>2 DEF Acyclic
    <2>2. old[l].next \notin S BY <2>1
    <2>3. CASE l # b BY <2>1, <2>2, <2>3
    <2>4. CASE l = b /\ i \in S BY <2>2, <2>4
    <2>5. CASE l = b /\ i \notin S BY <2>5
    <2> QED BY <2>3, <2>4, <2>5
  <1> QED BY <1>1, <1>2

\* A log with another link, and one with another time.
Relinked(l, x) == [l EXCEPT !.next = x]
Filled(l, x) == [l EXCEPT !.disk_full_time = x]
SameSay(k, l) == k.log_level = l.log_level /\ k.file = l.file /\ k.peer = l.peer

LEMMA LogFields ==
    ASSUME NEW l, IsLog(l), NEW x
    PROVE  /\ IsLog(Relinked(l, x)) /\ Relinked(l, x).next = x /\ SameSay(Relinked(l, x), l)
           /\ IsLog(Filled(l, x)) /\ Filled(l, x).next = l.next /\ SameSay(Filled(l, x), l)
  <1>1. Relinked(l, x) = [log_level |-> l.log_level, file |-> l.file, peer |-> l.peer,
                          next |-> x, disk_full_time |-> l.disk_full_time]
    BY DEF IsLog, Relinked
  <1>2. Filled(l, x) = [log_level |-> l.log_level, file |-> l.file, peer |-> l.peer,
                        next |-> l.next, disk_full_time |-> x]
    BY DEF IsLog, Filled
  <1> QED BY <1>1, <1>2 DEF IsLog, SameSay

\* The place that hky_log_insert takes for x is behind b.
FitsBehind(logs, x, b) ==
    logs[b].next = 0 \/ x.log_level > logs[logs[b].next].log_level

\* The loop gets from the head to b over logs that x does not fit behind.
GetsTo(logs, x, b) ==
    \A S \in SUBSET DOMAIN logs :
        1 \in S /\ (\A p \in S : ~FitsBehind(logs, x, p) => logs[p].next \in S) => b \in S

\* The three ways in which a log gets into a chain: into the head that is not in
\* use, by changing places with the head, and behind another one.
IntoHead(logs, x, new) ==
    /\ logs[1].log_level = 0 /\ Len(new) = Len(logs) /\ new[1] = x
    /\ \A l \in DOMAIN logs \ {1} : new[l] = logs[l]
BeforeHead(logs, x, new) ==
    /\ logs[1].log_level # 0 /\ x.log_level > logs[1].log_level /\ Len(new) = Len(logs) + 1
    /\ new[1] = Relinked(x, Len(logs) + 1) /\ new[Len(logs) + 1] = logs[1]
    /\ \A l \in DOMAIN logs \ {1} : new[l] = logs[l]
Behind(logs, x, new, b) ==
    /\ logs[1].log_level # 0 /\ ~(x.log_level > logs[1].log_level) /\ Len(new) = Len(logs) + 1
    /\ b \in DOMAIN logs /\ FitsBehind(logs, x, b) /\ GetsTo(logs, x, b)
    /\ new[Len(logs) + 1] = Relinked(x, logs[b].next) /\ new[b] = Relinked(logs[b], Len(logs) + 1)
    /\ \A l \in DOMAIN logs \ {b} : new[l] = logs[l]

LEMMA AddLogIs ==
    ASSUME NEW logs, IsSeq(logs), Len(logs) >= 1, Acyclic(logs),
           \A l \in DOMAIN logs : logs[l].next \in 0..Len(logs), NEW x, x.next = 0
    PROVE  LET new == AddLog(logs, x) IN
           /\ IsSeq(new)
           /\ IntoHead(logs, x, new) \/ BeforeHead(logs, x, new) \/ \E b : Behind(logs, x, new, b)
  <1> DEFINE n == Len(logs)
             app == Append(logs, x)
             i == n + 1
  <1>1. IsSeq(logs) /\ n \in Nat /\ n >= 1 /\ DOMAIN logs = 1..n BY SeqParts
  <1>2. /\ IsSeq(app) /\ Len(app) = i /\ DOMAIN app = DOMAIN logs \cup {i}
        /\ i \notin DOMAIN logs /\ app[i] = x /\ \A l \in DOMAIN logs : app[l] = logs[l]
    BY <1>1, SeqAppend
  <1>3. DOMAIN app = 1..i BY <1>1, <1>2
  <1>4. app[1] = logs[1] /\ 1 \in DOMAIN logs BY <1>1, <1>2
  <1>5. CASE logs[1].log_level = 0
    <2> DEFINE new == [logs EXCEPT ![1] = x]
    <2>1. /\ IsSeq(new) /\ Len(new) = n /\ DOMAIN new = DOMAIN logs /\ new[1] = x
          /\ \A l \in DOMAIN logs : l # 1 => new[l] = logs[l]
      BY <1>1, <1>4, SeqExcept
    <2>2. AddLog(logs, x) = new BY <1>5 DEF AddLog
    <2> HIDE DEF new
    <2>3. IntoHead(logs, x, new) BY <1>5, <2>1 DEF IntoHead
    <2> QED BY <2>1, <2>2, <2>3
  <1>6. CASE logs[1].log_level # 0 /\ x.log_level > logs[1].log_level
    <2> DEFINE head == Relinked(app[i], i)
               one == [app EXCEPT ![1] = head]
               new == [one EXCEPT ![i] = app[1]]
    <2>1. 1 \in DOMAIN app /\ i \in DOMAIN app /\ 1 # i BY <1>1, <1>3
    <2>2. head = Relinked(x, i) BY <1>2
    <2>3. AddLog(logs, x) = new
      <3>1. logs[1].log_level # 0 /\ app[i].log_level > app[1].log_level BY <1>2, <1>4, <1>6
      <3> QED BY <3>1 DEF AddLog, LogInsert, Relinked
    <2> HIDE DEF head
    <2>4. /\ IsSeq(one) /\ Len(one) = i /\ DOMAIN one = DOMAIN app /\ one[1] = head
          /\ \A l \in DOMAIN app : l # 1 => one[l] = app[l]
      <3>1. IsSeq(app) /\ 1 \in DOMAIN app /\ Len(app) = i BY <1>2, <2>1
      <3> HIDE DEF app, i
      <3>2. /\ IsSeq(one) /\ Len(one) = Len(app) /\ DOMAIN one = DOMAIN app /\ one[1] = head
            /\ \A l \in DOMAIN app : l # 1 => one[l] = app[l]
        BY <3>1, SeqExcept
      <3> QED BY <3>1, <3>2
    <2> HIDE DEF one
    <2>5. /\ IsSeq(new) /\ Len(new) = i /\ DOMAIN new = DOMAIN app /\ new[i] = logs[1]
          /\ \A l \in DOMAIN app : l # i => new[l] = one[l]
      <3>1. i \in DOMAIN one /\ app[1] = logs[1] BY <2>1, <2>4, <1>4
      <3> HIDE DEF app, i
      <3> QED BY <3>1, <2>4, SeqExcept
    <2> HIDE DEF new
    <2>6. new[1] = head /\ \A l \in DOMAIN logs \ {1} : new[l] = logs[l]
      BY <2>1, <2>4, <2>5, <1>1, <1>2
    <2>7. BeforeHead(logs, x, new) BY <1>6, <2>2, <2>5, <2>6 DEF BeforeHead
    <2> QED BY <2>3, <2>5, <2>7
  <1>7. CASE logs[1].log_level # 0 /\ ~(x.log_level > logs[1].log_level)
    <2> DEFINE b == Before(app, i)
               added == Relinked(app[i], app[b].next)
               one == [app EXCEPT ![i] = added]
               behind == Relinked(one[b], i)
               new == [one EXCEPT ![b] = behind]
               passed == {p \in DOMAIN app : ~Fits(app, i, p)}
    <2>1. AddLog(logs, x) = new
      <3>1. ~(logs[1].log_level = 0) /\ ~(app[i].log_level > app[1].log_level)
        BY <1>2, <1>4, <1>7
      <3> QED BY <3>1 DEF AddLog, LogInsert, Relinked
    <2>2. b \in Visited(app, passed) /\ Fits(app, i, b)
      <3>1. Acyclic(app)
        <4> SUFFICES ASSUME NEW S \in SUBSET DOMAIN app, S # {}
                     PROVE  \E l \in S : app[l].next \notin S
          BY DEF Acyclic
        <4>1. CASE i \in S
          <5>1. 0 \notin S BY <1>3, <1>1
          <5> QED BY <4>1, <5>1, <1>2
        <4>2. CASE i \notin S
          <5>1. S \in SUBSET DOMAIN logs BY <4>2, <1>2
          <5>2. PICK l \in S : logs[l].next \notin S BY <5>1 DEF Acyclic
          <5> QED BY <5>1, <5>2, <1>2
        <4> QED BY <4>1, <4>2
      <3>2. \A l \in DOMAIN app : app[l].next \in 0..Len(app)
        <4> SUFFICES ASSUME NEW l \in DOMAIN app PROVE app[l].next \in 0..i BY <1>2
        <4>1. CASE l = i BY <4>1, <1>1, <1>2
        <4>2. CASE l # i
          <5>1. app[l].next \in 0..n BY <4>2, <1>2
          <5> QED BY <5>1, <1>1
        <4> QED BY <4>1, <4>2
      <3>3. Len(app) >= 1 BY <1>1, <1>2
      <3> HIDE DEF app, i
      <3> QED BY <3>1, <3>2, <3>3, <1>2, BeforeIn
    <2> HIDE DEF b
    <2>3. ASSUME NEW p \in DOMAIN logs PROVE Fits(app, i, p) <=> FitsBehind(logs, x, p)
      <3>1. app[p] = logs[p] /\ app[i] = x BY <1>2
      <3>2. logs[p].next # 0 => app[logs[p].next] = logs[logs[p].next]
        <4>1. logs[p].next \in 0..n OBVIOUS
        <4> QED BY <4>1, <1>1, <1>2
      <3> HIDE DEF app, i
      <3> QED BY <3>1, <3>2 DEF Fits, FitsBehind
    <2>4. ASSUME NEW S \in SUBSET DOMAIN logs, 1 \in S,
                 \A p \in S : ~FitsBehind(logs, x, p) => logs[p].next \in S
          PROVE  b \in S
      <3>1. S \in SUBSET DOMAIN app BY <1>2
      <3>2. \A p \in S \cap passed : app[p].next \in S \cup {0}
        <4> TAKE p \in S \cap passed
        <4>1. p \in DOMAIN logs /\ ~FitsBehind(logs, x, p) BY <2>3
        <4> QED BY <4>1, <2>4, <1>2
      <3> HIDE DEF app, passed
      <3> QED BY <3>1, <3>2, <2>2, <2>4 DEF Visited
    <2>5. b \in DOMAIN logs
      <3>1. \A p \in DOMAIN logs : ~FitsBehind(logs, x, p) => logs[p].next \in DOMAIN logs
        <4> TAKE p \in DOMAIN logs
        <4>1. ~FitsBehind(logs, x, p) => logs[p].next # 0 BY DEF FitsBehind
        <4> QED BY <4>1, <1>1
      <3> QED BY <2>4, <3>1, <1>4
    <2>6. b \in DOMAIN app /\ i \in DOMAIN app /\ b # i /\ app[b] = logs[b] BY <2>5, <1>1, <1>2
    <2>7. added = Relinked(x, logs[b].next) BY <1>2, <2>6
    <2> HIDE DEF added
    <2>8. /\ IsSeq(one) /\ Len(one) = i /\ DOMAIN one = DOMAIN app /\ one[i] = added
          /\ \A l \in DOMAIN app : l # i => one[l] = app[l]
      BY <1>2, <2>6, SeqExcept
    <2> HIDE DEF one
    <2>9. behind = Relinked(logs[b], i)
      <3>1. one[b] = logs[b] BY <2>6, <2>8
      <3> QED BY <3>1
    <2> HIDE DEF behind
    <2>10. /\ IsSeq(new) /\ Len(new) = i /\ DOMAIN new = DOMAIN app /\ new[b] = behind
           /\ \A l \in DOMAIN app : l # b => new[l] = one[l]
      BY <2>6, <2>8, SeqExcept
    <2> HIDE DEF new
    <2>11. new[i] = added /\ \A l \in DOMAIN logs \ {b} : new[l] = logs[l]
      BY <2>6, <2>8, <2>10, <1>2
    <2>12. FitsBehind(logs, x, b) BY <2>2, <2>3, <2>5
    <2>13. GetsTo(logs, x, b) BY <2>4 DEF GetsTo
    <2>14. Behind(logs, x, new, b)
      BY <1>7, <2>5, <2>7, <2>9, <2>10, <2>11, <2>12, <2>13 DEF Behind
    <2> QED BY <2>1, <2>10, <2>14
  <1> QED BY <1>5, <1>6, <1>7

\* An insertion into a sound chain, by hky_log_insert as by a directive.
LEMMA AddLogGood ==
    ASSUME NEW logs, NEW who, GoodLogs(logs, who), Len(who) \in Nat,
           NEW x, IsLog(x), x.next = 0, x.peer \in 0..Len(who)
    PROVE  GoodLogs(AddLog(logs, x), who)
  <1> DEFINE n == Len(logs)
             i == n + 1
             new == AddLog(logs, x)
  <1>1. IsSeq(logs) /\ n \in Nat /\ n >= 1 /\ DOMAIN logs = 1..n BY SeqParts DEF GoodLogs
  <1>2. Acyclic(logs) BY DEF GoodLogs
  <1>3. \A l \in DOMAIN logs : IsLog(logs[l]) /\ logs[l].next \in 0..n /\ logs[l].peer \in 0..Len(who)
    BY DEF GoodLogs
  <1>4. i \notin DOMAIN logs /\ DOMAIN logs \cup {i} = 1..i /\ 1 \in DOMAIN logs BY <1>1
  <1>5. \A l \in DOMAIN logs : logs[l].next # i BY <1>1, <1>3
  <1>6. /\ IsSeq(new)
        /\ IntoHead(logs, x, new) \/ BeforeHead(logs, x, new) \/ \E b : Behind(logs, x, new, b)
    BY <1>1, <1>2, <1>3, AddLogIs
  <1> HIDE DEF new
  <1>7. DOMAIN new = 1..Len(new) BY <1>6, SeqParts
  <1>8. CASE IntoHead(logs, x, new)
    <2>1. Len(new) = n /\ new[1] = x /\ \A l \in DOMAIN logs \ {1} : new[l] = logs[l]
      BY <1>8 DEF IntoHead
    <2>2. DOMAIN new = DOMAIN logs BY <2>1, <1>1, <1>7
    <2>3. Acyclic(new)
      <3> SUFFICES ASSUME NEW S \in SUBSET DOMAIN new, S # {}
                   PROVE  \E l \in S : new[l].next \notin S
        BY DEF Acyclic
      <3>1. CASE 1 \in S
        <4>1. 0 \notin S BY <1>1, <2>2
        <4> QED BY <3>1, <4>1, <2>1
      <3>2. CASE 1 \notin S
        <4>1. PICK l \in S : logs[l].next \notin S BY <1>2, <2>2 DEF Acyclic
        <4> QED BY <4>1, <3>2, <2>1, <2>2
      <3> QED BY <3>1, <3>2
    <2>4. \A l \in DOMAIN new : IsLog(new[l]) /\ new[l].next \in 0..n /\ new[l].peer \in 0..Len(who)
      BY <1>1, <1>3, <2>1, <2>2
    <2> QED BY <1>1, <1>6, <2>1, <2>3, <2>4 DEF GoodLogs, new
  <1>9. CASE BeforeHead(logs, x, new)
    <2>1. /\ Len(new) = i /\ new[1] = Relinked(x, i) /\ new[i] = logs[1]
          /\ \A l \in DOMAIN logs \ {1} : new[l] = logs[l]
      BY <1>9 DEF BeforeHead
    <2>2. DOMAIN new = DOMAIN logs \cup {i} BY <2>1, <1>4, <1>7
    <2>3. IsLog(new[1]) /\ new[1].next = i /\ new[1].peer = x.peer
      BY <2>1, LogFields DEF SameSay
    <2>4. Acyclic(new)
      <3>1. new[i].next = logs[1].next BY <2>1
      <3>2. \A l \in DOMAIN logs \ {1} : new[l].next = logs[l].next BY <2>1
      <3> QED BY <3>1, <3>2, <2>2, <2>3, <1>2, <1>4, <1>5, AcyclicInsert
    <2>5. ASSUME NEW l \in DOMAIN new
          PROVE  IsLog(new[l]) /\ new[l].next \in 0..i /\ new[l].peer \in 0..Len(who)
      <3>1. CASE l = i BY <3>1, <2>1, <1>1, <1>3, <1>4
      <3>2. CASE l = 1 BY <3>2, <2>3, <1>1
      <3>3. CASE l # i /\ l # 1 BY <3>3, <2>1, <2>2, <1>1, <1>3
      <3> QED BY <3>1, <3>2, <3>3
    <2> QED BY <1>1, <1>6, <2>1, <2>4, <2>5 DEF GoodLogs, new
  <1>10. ASSUME NEW b, Behind(logs, x, new, b) PROVE GoodLogs(new, who)
    <2>1. /\ Len(new) = i /\ b \in DOMAIN logs /\ new[i] = Relinked(x, logs[b].next)
          /\ new[b] = Relinked(logs[b], i) /\ \A l \in DOMAIN logs \ {b} : new[l] = logs[l]
      BY <1>10 DEF Behind
    <2>2. DOMAIN new = DOMAIN logs \cup {i} BY <2>1, <1>4, <1>7
    <2>3. IsLog(new[i]) /\ new[i].next = logs[b].next /\ new[i].peer = x.peer
      BY <2>1, LogFields DEF SameSay
    <2>4. IsLog(new[b]) /\ new[b].next = i /\ new[b].peer = logs[b].peer
      BY <2>1, <1>3, LogFields DEF SameSay
    <2>5. Acyclic(new)
      <3>1. \A l \in DOMAIN logs \ {b} : new[l].next = logs[l].next BY <2>1
      <3> QED BY <3>1, <2>1, <2>2, <2>3, <2>4, <1>2, <1>4, <1>5, AcyclicInsert
    <2>6. ASSUME NEW l \in DOMAIN new
          PROVE  IsLog(new[l]) /\ new[l].next \in 0..i /\ new[l].peer \in 0..Len(who)
      <3>1. CASE l = i
        <4>1. logs[b].next \in 0..n BY <2>1, <1>3
        <4> QED BY <3>1, <4>1, <2>3, <1>1
      <3>2. CASE l = b BY <3>2, <2>1, <2>4, <1>1, <1>3
      <3>3. CASE l # i /\ l # b
        <4>1. l \in DOMAIN logs /\ new[l] = logs[l] BY <3>3, <2>1, <2>2
        <4> QED BY <4>1, <1>1, <1>3
      <3> QED BY <3>1, <3>2, <3>3
    <2> QED BY <1>1, <1>6, <2>1, <2>5, <2>6 DEF GoodLogs
  <1> QED BY <1>6, <1>8, <1>9, <1>10 DEF new

-----------------------------------------------------------------------------
(* Fields of records, and what is left alone when one is set.               *)

LEMMA PeerFields ==
    ASSUME NEW p, IsPeer(p)
    PROVE  /\ \A f \in Fds \cup {-1} :
                /\ IsPeer([p EXCEPT !.fd = f]) /\ [p EXCEPT !.fd = f].fd = f
                /\ [p EXCEPT !.fd = f].busy = p.busy
           /\ \A b \in BOOLEAN :
                /\ IsPeer([p EXCEPT !.busy = b]) /\ [p EXCEPT !.busy = b].busy = b
                /\ [p EXCEPT !.busy = b].fd = p.fd
  <1>1. ASSUME NEW f \in Fds \cup {-1}
        PROVE  /\ IsPeer([p EXCEPT !.fd = f]) /\ [p EXCEPT !.fd = f].fd = f
               /\ [p EXCEPT !.fd = f].busy = p.busy
    <2>1. [p EXCEPT !.fd = f] = [server |-> p.server, fd |-> f, busy |-> p.busy] BY DEF IsPeer
    <2> QED BY <2>1 DEF IsPeer
  <1>2. ASSUME NEW b \in BOOLEAN
        PROVE  /\ IsPeer([p EXCEPT !.busy = b]) /\ [p EXCEPT !.busy = b].busy = b
               /\ [p EXCEPT !.busy = b].fd = p.fd
    <2>1. [p EXCEPT !.busy = b] = [server |-> p.server, fd |-> p.fd, busy |-> b] BY DEF IsPeer
    <2> QED BY <2>1 DEF IsPeer
  <1> QED BY <1>1, <1>2

LEMMA CycleFields ==
    ASSUME NEW c, GoodCycle(c), NEW x
    PROVE  /\ [c EXCEPT !.peers = x] =
                [conf |-> c.conf, logs |-> c.logs, peers |-> x, cleanups |-> c.cleanups]
           /\ [c EXCEPT !.logs = x] =
                [conf |-> c.conf, logs |-> x, peers |-> c.peers, cleanups |-> c.cleanups]
           /\ [c EXCEPT !.cleanups = x] =
                [conf |-> c.conf, logs |-> c.logs, peers |-> c.peers, cleanups |-> x]
  BY DEF GoodCycle

LEMMA CallAt ==
    ASSUME NEW c, IsCall(c), NEW x, NEW d, d = [c EXCEPT !.at = x]
    PROVE  /\ IsCall(d) /\ d.cycle = c.cycle /\ d.level = c.level /\ d.at = x
           /\ d.step = c.step /\ d.fd = c.fd /\ d.reached = c.reached /\ d.wrote_stderr = c.wrote_stderr
  <1>1. d = [cycle |-> c.cycle, level |-> c.level, at |-> x, step |-> c.step, fd |-> c.fd,
             reached |-> c.reached, wrote_stderr |-> c.wrote_stderr]
    BY DEF IsCall
  <1> QED BY <1>1 DEF IsCall

LEMMA CallStep ==
    ASSUME NEW c, IsCall(c), NEW x, NEW d, d = [c EXCEPT !.step = x]
    PROVE  /\ IsCall(d) /\ d.cycle = c.cycle /\ d.level = c.level /\ d.at = c.at
           /\ d.step = x /\ d.fd = c.fd /\ d.reached = c.reached /\ d.wrote_stderr = c.wrote_stderr
  <1>1. d = [cycle |-> c.cycle, level |-> c.level, at |-> c.at, step |-> x, fd |-> c.fd,
             reached |-> c.reached, wrote_stderr |-> c.wrote_stderr]
    BY DEF IsCall
  <1> QED BY <1>1 DEF IsCall

LEMMA CallFd ==
    ASSUME NEW c, IsCall(c), NEW x, NEW d, d = [c EXCEPT !.fd = x]
    PROVE  /\ IsCall(d) /\ d.cycle = c.cycle /\ d.level = c.level /\ d.at = c.at
           /\ d.step = c.step /\ d.fd = x /\ d.reached = c.reached /\ d.wrote_stderr = c.wrote_stderr
  <1>1. d = [cycle |-> c.cycle, level |-> c.level, at |-> c.at, step |-> c.step, fd |-> x,
             reached |-> c.reached, wrote_stderr |-> c.wrote_stderr]
    BY DEF IsCall
  <1> QED BY <1>1 DEF IsCall

LEMMA CallReached ==
    ASSUME NEW c, IsCall(c), NEW x, NEW d, d = [c EXCEPT !.reached = x]
    PROVE  /\ IsCall(d) /\ d.cycle = c.cycle /\ d.level = c.level /\ d.at = c.at
           /\ d.step = c.step /\ d.fd = c.fd /\ d.reached = x /\ d.wrote_stderr = c.wrote_stderr
  <1>1. d = [cycle |-> c.cycle, level |-> c.level, at |-> c.at, step |-> c.step, fd |-> c.fd,
             reached |-> x, wrote_stderr |-> c.wrote_stderr]
    BY DEF IsCall
  <1> QED BY <1>1 DEF IsCall

LEMMA CallWrote ==
    ASSUME NEW c, IsCall(c), NEW x, NEW d, d = [c EXCEPT !.wrote_stderr = x]
    PROVE  /\ IsCall(d) /\ d.cycle = c.cycle /\ d.level = c.level /\ d.at = c.at
           /\ d.step = c.step /\ d.fd = c.fd /\ d.reached = c.reached /\ d.wrote_stderr = x
  <1>1. d = [cycle |-> c.cycle, level |-> c.level, at |-> c.at, step |-> c.step, fd |-> c.fd,
             reached |-> c.reached, wrote_stderr |-> x]
    BY DEF IsCall
  <1> QED BY <1>1 DEF IsCall

StepFd(c, s, f) == [c EXCEPT !.step = s, !.fd = f]
StepWrote(c, s, w) == [c EXCEPT !.step = s, !.wrote_stderr = w]
Further(c, a, s, f, r) == [c EXCEPT !.at = a, !.step = s, !.fd = f, !.reached = r]

LEMMA CallFields ==
    ASSUME NEW c, IsCall(c), NEW a, NEW s, NEW f, NEW r, NEW w
    PROVE  /\ LET d == StepFd(c, s, f) IN
              /\ IsCall(d) /\ d.cycle = c.cycle /\ d.level = c.level /\ d.at = c.at
              /\ d.step = s /\ d.fd = f /\ d.reached = c.reached /\ d.wrote_stderr = c.wrote_stderr
           /\ LET d == StepWrote(c, s, w) IN
              /\ IsCall(d) /\ d.cycle = c.cycle /\ d.level = c.level /\ d.at = c.at
              /\ d.step = s /\ d.fd = c.fd /\ d.reached = c.reached /\ d.wrote_stderr = w
           /\ LET d == Further(c, a, s, f, r) IN
              /\ IsCall(d) /\ d.cycle = c.cycle /\ d.level = c.level /\ d.at = a
              /\ d.step = s /\ d.fd = f /\ d.reached = r /\ d.wrote_stderr = c.wrote_stderr
  <1> DEFINE c1 == [c EXCEPT !.step = s]
             c2 == [c1 EXCEPT !.fd = f]
             c3 == [c1 EXCEPT !.wrote_stderr = w]
             d1 == [c EXCEPT !.at = a]
             d2 == [d1 EXCEPT !.step = s]
             d3 == [d2 EXCEPT !.fd = f]
             d4 == [d3 EXCEPT !.reached = r]
  <1>1. StepFd(c, s, f) = c2 /\ StepWrote(c, s, w) = c3 /\ Further(c, a, s, f, r) = d4
    BY Zenon DEF StepFd, StepWrote, Further
  <1>2. /\ IsCall(c1) /\ c1.cycle = c.cycle /\ c1.level = c.level /\ c1.at = c.at
        /\ c1.step = s /\ c1.fd = c.fd /\ c1.reached = c.reached /\ c1.wrote_stderr = c.wrote_stderr
    <2>1. c1 = [c EXCEPT !.step = s] OBVIOUS
    <2> HIDE DEF c1
    <2> QED BY <2>1, CallStep
  <1>3. /\ IsCall(d1) /\ d1.cycle = c.cycle /\ d1.level = c.level /\ d1.at = a
        /\ d1.step = c.step /\ d1.fd = c.fd /\ d1.reached = c.reached /\ d1.wrote_stderr = c.wrote_stderr
    <2>1. d1 = [c EXCEPT !.at = a] OBVIOUS
    <2> HIDE DEF d1
    <2> QED BY <2>1, CallAt
  <1>4. /\ IsCall(c2) /\ c2.cycle = c.cycle /\ c2.level = c.level /\ c2.at = c.at
        /\ c2.step = s /\ c2.fd = f /\ c2.reached = c.reached /\ c2.wrote_stderr = c.wrote_stderr
    <2> HIDE DEF c1
    <2> QED BY <1>2, CallFd
  <1>5. /\ IsCall(c3) /\ c3.cycle = c.cycle /\ c3.level = c.level /\ c3.at = c.at
        /\ c3.step = s /\ c3.fd = c.fd /\ c3.reached = c.reached /\ c3.wrote_stderr = w
    <2> HIDE DEF c1
    <2> QED BY <1>2, CallWrote
  <1>6. /\ IsCall(d2) /\ d2.cycle = c.cycle /\ d2.level = c.level /\ d2.at = a
        /\ d2.step = s /\ d2.fd = c.fd /\ d2.reached = c.reached /\ d2.wrote_stderr = c.wrote_stderr
    <2> HIDE DEF d1
    <2> QED BY <1>3, CallStep
  <1>7. /\ IsCall(d3) /\ d3.cycle = c.cycle /\ d3.level = c.level /\ d3.at = a
        /\ d3.step = s /\ d3.fd = f /\ d3.reached = c.reached /\ d3.wrote_stderr = c.wrote_stderr
    <2> HIDE DEF d2
    <2> QED BY <1>6, CallFd
  <1>8. /\ IsCall(d4) /\ d4.cycle = c.cycle /\ d4.level = c.level /\ d4.at = a
        /\ d4.step = s /\ d4.fd = f /\ d4.reached = r /\ d4.wrote_stderr = c.wrote_stderr
    <2> HIDE DEF d3
    <2> QED BY <1>7, CallReached
  <1> HIDE DEF c1, c2, c3, d1, d2, d3, d4
  <1> QED BY <1>1, <1>4, <1>5, <1>8

\* The same chain of logs, and the same peers, as far as calls can tell.
Alike(a, b) ==
    /\ GoodCycle(b) /\ b.conf = a.conf
    /\ Len(b.logs) = Len(a.logs) /\ DOMAIN b.peers = DOMAIN a.peers
    /\ \A l \in DOMAIN a.logs : SameSay(b.logs[l], a.logs[l]) /\ b.logs[l].next = a.logs[l].next

SameLogs(cs, ds) ==
    /\ DOMAIN ds = DOMAIN cs
    /\ \A c \in DOMAIN cs : cs[c] = Gone => ds[c] = Gone
    /\ \A c \in DOMAIN cs : GoodCycle(cs[c]) => Alike(cs[c], ds[c])

LEMMA CallKept ==
    ASSUME NEW cs, NEW ds, SameLogs(cs, ds), NEW c, GoodCall(cs, c)
    PROVE  GoodCall(ds, c)
  <1>1. c.cycle \in DOMAIN cs /\ GoodCycle(cs[c.cycle]) BY DEF GoodCall, LiveIn
  <1>2. /\ c.cycle \in DOMAIN ds /\ GoodCycle(ds[c.cycle])
        /\ Len(ds[c.cycle].logs) = Len(cs[c.cycle].logs)
        /\ \A l \in DOMAIN cs[c.cycle].logs : ds[c.cycle].logs[l].peer = cs[c.cycle].logs[l].peer
    BY <1>1 DEF SameLogs, Alike, SameSay
  <1>3. DOMAIN cs[c.cycle].logs = 1..Len(cs[c.cycle].logs) /\ Len(cs[c.cycle].logs) \in Nat
    BY <1>1, SeqParts DEF GoodCycle, GoodLogs
  <1>4. IsCall(c) /\ c.step \in Steps /\ c.at \in 0..Len(ds[c.cycle].logs) BY <1>2 DEF GoodCall
  <1>5. Writes(c) => c.at # 0 /\ ds[c.cycle].logs[c.at].peer # 0
    BY <1>2, <1>3, <1>4 DEF GoodCall
  <1> QED BY <1>2, <1>4, <1>5 DEF GoodCall, LiveIn

\* A change of one peer.
WithPeer(cs, c, k, p) ==
    [cs EXCEPT ![c] = [cs[c] EXCEPT !.peers = [cs[c].peers EXCEPT ![k] = p]]]

LEMMA PeerChanged ==
    ASSUME NEW cs, CyclesGood(cs), NEW c, LiveIn(cs, c), NEW k \in DOMAIN cs[c].peers,
           NEW p, IsPeer(p)
    PROVE  LET ds == WithPeer(cs, c, k, p) IN
           /\ CyclesGood(ds) /\ SameLogs(cs, ds)
           /\ \A d \in DOMAIN cs : ds[d].cleanups = cs[d].cleanups
           /\ \A d \in DOMAIN cs : DOMAIN ds[d].peers = DOMAIN cs[d].peers
           /\ ds[c].peers[k] = p
           /\ \A d \in DOMAIN cs : \A j \in DOMAIN cs[d].peers :
                <<d, j>> # <<c, k>> => ds[d].peers[j] = cs[d].peers[j]
  <1> DEFINE ps == [cs[c].peers EXCEPT ![k] = p]
             new == [cs[c] EXCEPT !.peers = ps]
             ds == WithPeer(cs, c, k, p)
  <1>1. c \in DOMAIN cs /\ GoodCycle(cs[c]) /\ IsSeq(cs) BY DEF LiveIn, CyclesGood
  <1>2. /\ IsSeq(cs[c].peers) /\ \A j \in DOMAIN cs[c].peers : IsPeer(cs[c].peers[j])
        /\ cs[c].cleanups \in Seq(DOMAIN cs[c].peers) /\ GoodLogs(cs[c].logs, cs[c].peers)
    BY <1>1 DEF GoodCycle
  <1>3. /\ IsSeq(ps) /\ Len(ps) = Len(cs[c].peers) /\ DOMAIN ps = DOMAIN cs[c].peers /\ ps[k] = p
        /\ \A j \in DOMAIN cs[c].peers : j # k => ps[j] = cs[c].peers[j]
    BY <1>2, SeqExcept
  <1> HIDE DEF ps
  <1>4. new = [conf |-> cs[c].conf, logs |-> cs[c].logs, peers |-> ps, cleanups |-> cs[c].cleanups]
    BY <1>1, CycleFields
  <1>5. GoodCycle(new)
    <2>1. GoodLogs(new.logs, new.peers) BY <1>2, <1>3, <1>4 DEF GoodLogs
    <2>2. \A j \in DOMAIN new.peers : IsPeer(new.peers[j]) BY <1>2, <1>3, <1>4
    <2> QED BY <1>2, <1>3, <1>4, <2>1, <2>2 DEF GoodCycle
  <1>6. /\ IsSeq(ds) /\ DOMAIN ds = DOMAIN cs /\ ds[c] = new
        /\ \A d \in DOMAIN cs : d # c => ds[d] = cs[d]
    <2>1. ds = [cs EXCEPT ![c] = new] BY DEF WithPeer, ps
    <2> HIDE DEF ds, new
    <2> QED BY <1>1, <2>1, SeqExcept
  <1>7. /\ new.conf = cs[c].conf /\ new.logs = cs[c].logs /\ new.peers = ps
        /\ new.cleanups = cs[c].cleanups /\ new # Gone
    <2>1. Len(cs[c].logs) >= 1 BY <1>2 DEF GoodLogs
    <2> QED BY <1>4, <2>1 DEF Gone
  <1> HIDE DEF ds, new
  <1>8. CyclesGood(ds) BY <1>5, <1>6 DEF CyclesGood
  <1>9. SameLogs(cs, ds)
    <2>1. cs[c] # Gone
      <3>1. Len(cs[c].logs) >= 1 BY <1>2 DEF GoodLogs
      <3> QED BY <3>1 DEF Gone
    <2>2. ASSUME NEW d \in DOMAIN cs, GoodCycle(cs[d]) PROVE Alike(cs[d], ds[d])
      <3>1. CASE d = c BY <3>1, <1>3, <1>5, <1>6, <1>7 DEF Alike, SameSay
      <3>2. CASE d # c BY <3>2, <2>2, <1>6 DEF Alike, SameSay
      <3> QED BY <3>1, <3>2
    <2>3. \A d \in DOMAIN cs : cs[d] = Gone => ds[d] = Gone BY <1>6, <2>1
    <2> QED BY <1>6, <2>2, <2>3 DEF SameLogs
  <1>10. \A d \in DOMAIN cs : ds[d].cleanups = cs[d].cleanups BY <1>6, <1>7
  <1>11. \A d \in DOMAIN cs : DOMAIN ds[d].peers = DOMAIN cs[d].peers BY <1>3, <1>6, <1>7
  <1>12. ds[c].peers[k] = p BY <1>3, <1>6, <1>7
  <1>13. ASSUME NEW d \in DOMAIN cs, NEW j \in DOMAIN cs[d].peers, <<d, j>> # <<c, k>>
         PROVE  ds[d].peers[j] = cs[d].peers[j]
    <2>1. CASE d = c BY <2>1, <1>13, <1>3, <1>6, <1>7
    <2>2. CASE d # c BY <2>2, <1>6
    <2> QED BY <2>1, <2>2
  <1> QED BY <1>8, <1>9, <1>10, <1>11, <1>12, <1>13 DEF ds

-----------------------------------------------------------------------------
(* A step of the innermost call: it becomes c, and a call for the complaint  *)
(* it makes may come on top of it.                                          *)

Moves(c) ==
    \/ stack' = Replace(c)
    \/ \E d \in {hky_cycle, call.cycle}, level \in 1..(DEBUG - 1) :
         stack' = Append(Replace(c), NewCall(d, level))

LEMMA Severities ==
    EMERG \in 1..(DEBUG - 1) /\ ALERT \in 1..(DEBUG - 1) /\ ERR \in 1..(DEBUG - 1)
  BY DEF EMERG, ALERT, ERR, DEBUG

LEMMA ComplainMoves ==
    ASSUME NEW c, NEW level \in 1..(DEBUG - 1), stack' = Complain(c, level)
    PROVE  Moves(c)
  BY DEF Complain, LogError, Moves

LEMMA NoCleanupMoves ==
    ASSUME NEW c, stack' = LogError(Replace(c), call.cycle, EMERG)
    PROVE  Moves(c)
  BY Severities DEF LogError, Moves

LEMMA TopCall ==
    ASSUME TypeInv, stack # <<>>
    PROVE  /\ Len(stack) \in DOMAIN stack /\ DOMAIN stack = 1..Len(stack) /\ Len(stack) \in Nat
           /\ GoodCall(cycles, call)
  <1>1. IsSeq(stack) BY DEF TypeInv
  <1>2. DOMAIN stack = 1..Len(stack) /\ Len(stack) \in Nat BY <1>1, SeqParts
  <1>3. Len(stack) # 0 BY <1>1 DEF IsSeq
  <1>4. Len(stack) \in DOMAIN stack BY <1>2, <1>3
  <1> QED BY <1>2, <1>4 DEF TypeInv, call

LEMMA MovedStack ==
    ASSUME TypeInv, stack # <<>>, NEW c, Moves(c)
    PROVE  /\ IsSeq(stack') /\ stack' # <<>> /\ DOMAIN stack \subseteq DOMAIN stack'
           /\ stack'[Len(stack)] = c
           /\ \A m \in DOMAIN stack : m # Len(stack) => stack'[m] = stack[m]
           /\ \A m \in DOMAIN stack' \ DOMAIN stack :
                \E d \in {hky_cycle, call.cycle}, level \in 1..(DEBUG - 1) :
                   stack'[m] = NewCall(d, level)
  <1> DEFINE n == Len(stack)
             rep == Replace(c)
  <1>1. IsSeq(stack) /\ n \in DOMAIN stack BY TopCall DEF TypeInv
  <1>2. /\ IsSeq(rep) /\ Len(rep) = n /\ DOMAIN rep = DOMAIN stack /\ rep[n] = c
        /\ \A m \in DOMAIN stack : m # n => rep[m] = stack[m]
    BY <1>1, SeqExcept DEF Replace
  <1> HIDE DEF rep
  <1>3. CASE stack' = rep
    <2>1. rep # <<>> BY <1>1, <1>2
    <2> QED BY <1>2, <1>3, <2>1
  <1>4. CASE \E d \in {hky_cycle, call.cycle}, level \in 1..(DEBUG - 1) :
               stack' = Append(rep, NewCall(d, level))
    <2>1. PICK d \in {hky_cycle, call.cycle}, level \in 1..(DEBUG - 1) :
             stack' = Append(rep, NewCall(d, level))
      BY <1>4
    <2> DEFINE top == NewCall(d, level)
    <2> HIDE DEF top
    <2>2. stack' = Append(rep, top) BY <2>1 DEF top
    <2>3. /\ IsSeq(stack') /\ Len(stack') = n + 1 /\ DOMAIN stack' = DOMAIN rep \cup {n + 1}
          /\ stack'[n + 1] = top /\ \A m \in DOMAIN rep : stack'[m] = rep[m]
      BY <2>2, <1>2, SeqAppend
    <2>4. stack' # <<>> BY <2>3
    <2>5. \A m \in DOMAIN stack' \ DOMAIN stack : stack'[m] = NewCall(d, level)
      BY <2>3, <1>2 DEF top
    <2> QED BY <1>1, <1>2, <2>3, <2>4, <2>5
  <1> QED BY <1>3, <1>4 DEF Moves, rep

LEMMA NewCallGood ==
    ASSUME NEW cs, NEW c, LiveIn(cs, c), NEW level
    PROVE  LET d == NewCall(c, level) IN
           GoodCall(cs, d) /\ ~Writes(d) /\ d.cycle = c
  <1>1. Len(cs[c].logs) >= 1 /\ Len(cs[c].logs) \in Nat BY SeqParts DEF LiveIn, GoodCycle, GoodLogs
  <1>2. 1 \in 0..Len(cs[c].logs) BY <1>1
  <1> QED BY <1>2 DEF NewCall, GoodCall, IsCall, Steps, Writes

\* What a step of a call must see to for the types.
LEMMA MoveTypes ==
    ASSUME TypeInv, stack # <<>>, NEW c, Moves(c), GoodCall(cycles, c),
           CyclesGood(cycles'), SameLogs(cycles, cycles'), DOMAIN sockets' \subseteq Fds,
           UNCHANGED <<hky_cycle, reload, dying>>
    PROVE  TypeInv'
  <1>1. \A d : Live(d) => Live(d)' /\ DOMAIN cycles'[d].peers = DOMAIN cycles[d].peers
    BY DEF SameLogs, Alike, Live, LiveIn
  <1>2. ReloadRight' BY <1>1 DEF TypeInv, ReloadRight
  <1>3. DyingRight' BY <1>1 DEF TypeInv, DyingRight
  <1>4. IsSeq(stack') BY MovedStack
  <1>5. ASSUME NEW m \in DOMAIN stack' PROVE GoodCall(cycles', stack'[m])
    <2>1. CASE m = Len(stack) BY <2>1, MovedStack, CallKept
    <2>2. CASE m \in DOMAIN stack /\ m # Len(stack)
      <3>1. stack'[m] = stack[m] /\ GoodCall(cycles, stack[m]) BY <2>2, MovedStack DEF TypeInv
      <3> QED BY <3>1, CallKept
    <2>3. CASE m \notin DOMAIN stack
      <3>1. PICK d \in {hky_cycle, call.cycle}, level \in 1..(DEBUG - 1) :
                 stack'[m] = NewCall(d, level)
        BY <2>3, MovedStack
      <3>2. Live(hky_cycle) /\ Live(call.cycle)
        BY TopCall DEF TypeInv, ReloadRight, GoodCall, Live
      <3>3. LiveIn(cycles', d) BY <1>1, <3>1, <3>2 DEF Live
      <3> QED BY <3>1, <3>3, NewCallGood
    <2> QED BY <2>1, <2>2, <2>3
  <1> QED BY <1>2, <1>3, <1>4, <1>5 DEF TypeInv

LEMMA SameLogsSame ==
    ASSUME NEW cs PROVE SameLogs(cs, cs)
  BY DEF SameLogs, Alike, SameSay

-----------------------------------------------------------------------------
(* The ways in which a call changes the cycles.                             *)

LEMMA PeerField ==
    ASSUME NEW field, NEW value, SetPeer(field, value)
    PROVE  cycles' = WithPeer(cycles, call.cycle, log.peer, [peer EXCEPT ![field] = value])
  BY DEF SetPeer, WithPeer, peer

LEMMA CleanupChange ==
    ASSUME NEW c, NEW k
    PROVE  CleanedUp(c, k) = WithPeer(cycles, c, k, [cycles[c].peers[k] EXCEPT !.busy = TRUE])
  BY DEF CleanedUp, WithPeer

\* The two changes of InitPeer, one after the other.
WithCleanup(cs, c, k) == [cs EXCEPT ![c] = [cs[c] EXCEPT !.cleanups = <<k>> \o cs[c].cleanups]]

LEMMA TwoChanges ==
    ASSUME InitPeer
    PROVE  LET one == WithCleanup(cycles, call.cycle, log.peer) IN
           cycles' = WithPeer(one, call.cycle, log.peer,
                              [one[call.cycle].peers[log.peer] EXCEPT !.fd = FirstOf(FreeFds)])
  BY Zenon DEF InitPeer, WithCleanup, WithPeer

WithLog(cs, c, l, x) ==
    [cs EXCEPT ![c] = [cs[c] EXCEPT !.logs = [cs[c].logs EXCEPT ![l] = x]]]

LEMMA FullDisk ==
    ASSUME WriteFile(TRUE)
    PROVE  cycles' = WithLog(cycles, call.cycle, call.at, [log EXCEPT !.disk_full_time = hky_time])
  BY DEF WriteFile, WithLog, log

WithCycle(cs, c, new) == [cs EXCEPT ![c] = new]

\* One cycle is changed, to one with the same logs as far as calls can tell.
LEMMA CycleReplaced ==
    ASSUME NEW cs, CyclesGood(cs), NEW c, LiveIn(cs, c), NEW new,
           Alike(cs[c], new), NEW ds, ds = WithCycle(cs, c, new)
    PROVE  /\ CyclesGood(ds) /\ SameLogs(cs, ds) /\ ds[c] = new
           /\ \A d \in DOMAIN cs : d # c => ds[d] = cs[d]
  <1>1. c \in DOMAIN cs /\ GoodCycle(cs[c]) /\ IsSeq(cs) BY DEF LiveIn, CyclesGood
  <1>2. /\ IsSeq(ds) /\ DOMAIN ds = DOMAIN cs /\ ds[c] = new
        /\ \A d \in DOMAIN cs : d # c => ds[d] = cs[d]
    BY <1>1, SeqExcept DEF WithCycle
  <1>3. cs[c] # Gone
    <2>1. Len(cs[c].logs) >= 1 BY <1>1 DEF GoodCycle, GoodLogs
    <2> QED BY <2>1 DEF Gone
  <1>4. CyclesGood(ds) BY <1>2 DEF CyclesGood, Alike
  <1>5. SameLogs(cs, ds)
    <2>1. ASSUME NEW d \in DOMAIN cs, GoodCycle(cs[d]) PROVE Alike(cs[d], ds[d])
      <3>1. CASE d = c BY <3>1, <1>2
      <3>2. CASE d # c BY <3>2, <2>1, <1>2 DEF Alike, SameSay
      <3> QED BY <3>1, <3>2
    <2>2. \A d \in DOMAIN cs : cs[d] = Gone => ds[d] = Gone BY <1>2, <1>3
    <2> QED BY <1>2, <2>1, <2>2 DEF SameLogs
  <1> QED BY <1>2, <1>4, <1>5

LEMMA CleanupAdded ==
    ASSUME NEW cs, CyclesGood(cs), NEW c, LiveIn(cs, c), NEW k \in DOMAIN cs[c].peers
    PROVE  LET ds == WithCleanup(cs, c, k) IN
           /\ CyclesGood(ds) /\ SameLogs(cs, ds)
           /\ \A d \in DOMAIN cs : ds[d].peers = cs[d].peers
           /\ ToSet(ds[c].cleanups) = ToSet(cs[c].cleanups) \cup {k}
           /\ \A d \in DOMAIN cs : d # c => ds[d].cleanups = cs[d].cleanups
  <1> DEFINE more == <<k>> \o cs[c].cleanups
             new == [cs[c] EXCEPT !.cleanups = more]
             ds == WithCleanup(cs, c, k)
  <1>1. GoodCycle(cs[c]) BY DEF LiveIn
  <1>2. /\ IsSeq(cs[c].peers) /\ \A j \in DOMAIN cs[c].peers : IsPeer(cs[c].peers[j])
        /\ cs[c].cleanups \in Seq(DOMAIN cs[c].peers) /\ GoodLogs(cs[c].logs, cs[c].peers)
    BY <1>1 DEF GoodCycle
  <1>3. /\ more \in Seq(DOMAIN cs[c].peers) /\ Len(more) = Len(cs[c].cleanups) + 1
        /\ more[1] = k /\ \A i \in 1..Len(cs[c].cleanups) : more[i + 1] = cs[c].cleanups[i]
    <2> DEFINE cl == cs[c].cleanups
               S == DOMAIN cs[c].peers
    <2>1. cl \in Seq(S) /\ <<k>> \in Seq(S) /\ Len(<<k>>) = 1 /\ <<k>>[1] = k
      <3>1. k \in S /\ cl \in Seq(S) BY <1>2
      <3> HIDE DEF S
      <3> QED BY <3>1
    <2> HIDE DEF cl, S
    <2>2. Len(cl) \in Nat BY <2>1
    <2>3. /\ <<k>> \o cl \in Seq(S) /\ Len(<<k>> \o cl) = Len(cl) + 1
          /\ (<<k>> \o cl)[1] = k /\ \A i \in 1..Len(cl) : (<<k>> \o cl)[i + 1] = cl[i]
      BY <2>1, <2>2, ConcatProperties
    <2> QED BY <2>3 DEF cl, S
  <1>4. ToSet(more) = ToSet(cs[c].cleanups) \cup {k}
    <2>1. DOMAIN more = 1..(Len(cs[c].cleanups) + 1) /\ Len(cs[c].cleanups) \in Nat
          /\ DOMAIN cs[c].cleanups = 1..Len(cs[c].cleanups)
      BY <1>2, <1>3
    <2> HIDE DEF more
    <2>2. ASSUME NEW y \in ToSet(more) PROVE y \in ToSet(cs[c].cleanups) \cup {k}
      <3>1. PICK i \in DOMAIN more : y = more[i] BY DEF ToSet
      <3>2. CASE i = 1 BY <3>1, <3>2, <1>3
      <3>3. CASE i # 1
        <4>1. i - 1 \in 1..Len(cs[c].cleanups) BY <3>3, <2>1
        <4>2. more[(i - 1) + 1] = cs[c].cleanups[i - 1] BY <4>1, <1>3
        <4>3. (i - 1) + 1 = i BY <2>1
        <4> QED BY <3>1, <4>1, <4>2, <4>3, <2>1 DEF ToSet
      <3> QED BY <3>2, <3>3
    <2>3. ASSUME NEW y \in ToSet(cs[c].cleanups) \cup {k} PROVE y \in ToSet(more)
      <3>1. CASE y = k
        <4>1. 1 \in DOMAIN more BY <2>1
        <4> QED BY <3>1, <4>1, <1>3 DEF ToSet
      <3>2. CASE y \in ToSet(cs[c].cleanups)
        <4>1. PICK i \in 1..Len(cs[c].cleanups) : y = cs[c].cleanups[i] BY <3>2, <2>1 DEF ToSet
        <4>2. i + 1 \in DOMAIN more /\ more[i + 1] = y BY <4>1, <2>1, <1>3
        <4> QED BY <4>2 DEF ToSet
      <3> QED BY <3>1, <3>2
    <2> QED BY <2>2, <2>3
  <1> HIDE DEF more
  <1>5. new = [conf |-> cs[c].conf, logs |-> cs[c].logs, peers |-> cs[c].peers, cleanups |-> more]
    BY <1>1, CycleFields
  <1>6. GoodCycle(new) BY <1>2, <1>3, <1>5 DEF GoodCycle
  <1>7. /\ new.conf = cs[c].conf /\ new.logs = cs[c].logs /\ new.peers = cs[c].peers
        /\ new.cleanups = more
    BY <1>5
  <1>8. ds = WithCycle(cs, c, new) BY DEF WithCleanup, WithCycle, more
  <1> HIDE DEF new, ds
  <1>9. /\ CyclesGood(ds) /\ SameLogs(cs, ds) /\ ds[c] = new
        /\ \A d \in DOMAIN cs : d # c => ds[d] = cs[d]
    <2>1. Alike(cs[c], new) BY <1>6, <1>7 DEF Alike, SameSay
    <2> QED BY <1>8, <2>1, CycleReplaced
  <1>10. \A d \in DOMAIN cs : ds[d].peers = cs[d].peers BY <1>7, <1>9
  <1>11. \A d \in DOMAIN cs : d # c => ds[d].cleanups = cs[d].cleanups BY <1>9
  <1>12. ToSet(ds[c].cleanups) = ToSet(cs[c].cleanups) \cup {k} BY <1>4, <1>7, <1>9
  <1> QED BY <1>9, <1>10, <1>11, <1>12 DEF ds

LEMMA LogChanged ==
    ASSUME NEW cs, CyclesGood(cs), NEW c, LiveIn(cs, c), NEW l \in DOMAIN cs[c].logs, NEW x,
           IsLog(x), x.next = cs[c].logs[l].next, SameSay(x, cs[c].logs[l])
    PROVE  LET ds == WithLog(cs, c, l, x) IN
           /\ CyclesGood(ds) /\ SameLogs(cs, ds)
           /\ \A d \in DOMAIN cs : ds[d].peers = cs[d].peers /\ ds[d].cleanups = cs[d].cleanups
  <1> DEFINE logs == cs[c].logs
             ls == [logs EXCEPT ![l] = x]
             new == [cs[c] EXCEPT !.logs = ls]
             ds == WithLog(cs, c, l, x)
  <1>1. GoodCycle(cs[c]) BY DEF LiveIn
  <1>2. /\ IsSeq(cs[c].peers) /\ \A j \in DOMAIN cs[c].peers : IsPeer(cs[c].peers[j])
        /\ cs[c].cleanups \in Seq(DOMAIN cs[c].peers) /\ GoodLogs(logs, cs[c].peers)
    BY <1>1 DEF GoodCycle
  <1>3. IsSeq(logs) /\ Len(logs) >= 1 /\ Acyclic(logs) BY <1>2 DEF GoodLogs
  <1>4. /\ IsSeq(ls) /\ Len(ls) = Len(logs) /\ DOMAIN ls = DOMAIN logs /\ ls[l] = x
        /\ \A j \in DOMAIN logs : j # l => ls[j] = logs[j]
    BY <1>3, SeqExcept
  <1> HIDE DEF ls
  <1>5. \A j \in DOMAIN logs : ls[j].next = logs[j].next /\ SameSay(ls[j], logs[j])
    BY <1>4 DEF SameSay
  <1>6. GoodLogs(ls, cs[c].peers)
    <2>1. Acyclic(ls)
      <3> SUFFICES ASSUME NEW S \in SUBSET DOMAIN ls, S # {}
                   PROVE  \E j \in S : ls[j].next \notin S
        BY DEF Acyclic
      <3>1. PICK j \in S : logs[j].next \notin S BY <1>3, <1>4 DEF Acyclic
      <3> QED BY <3>1, <1>4, <1>5
    <2>2. ASSUME NEW j \in DOMAIN ls
          PROVE  /\ IsLog(ls[j]) /\ ls[j].next \in 0..Len(ls)
                 /\ ls[j].peer \in 0..Len(cs[c].peers)
      <3>1. IsLog(logs[j]) /\ logs[j].next \in 0..Len(logs) /\ logs[j].peer \in 0..Len(cs[c].peers)
        BY <1>2, <1>4 DEF GoodLogs
      <3> QED BY <3>1, <1>4, <1>5 DEF SameSay
    <2>3. Len(ls) >= 1 BY <1>3, <1>4
    <2> QED BY <1>4, <2>1, <2>2, <2>3 DEF GoodLogs
  <1>7. new = [conf |-> cs[c].conf, logs |-> ls, peers |-> cs[c].peers, cleanups |-> cs[c].cleanups]
    BY <1>1, CycleFields
  <1>8. GoodCycle(new) BY <1>2, <1>6, <1>7 DEF GoodCycle
  <1>9. /\ new.conf = cs[c].conf /\ new.logs = ls /\ new.peers = cs[c].peers
        /\ new.cleanups = cs[c].cleanups
    BY <1>7
  <1>10. ds = WithCycle(cs, c, new) BY DEF WithLog, WithCycle, ls
  <1> HIDE DEF new, ds
  <1>11. /\ CyclesGood(ds) /\ SameLogs(cs, ds) /\ ds[c] = new
         /\ \A d \in DOMAIN cs : d # c => ds[d] = cs[d]
    <2>1. Alike(cs[c], new) BY <1>4, <1>5, <1>8, <1>9 DEF Alike
    <2> QED BY <2>1, <1>10, CycleReplaced
  <1>12. \A d \in DOMAIN cs : ds[d].peers = cs[d].peers /\ ds[d].cleanups = cs[d].cleanups
    BY <1>9, <1>11
  <1> QED BY <1>11, <1>12 DEF ds

-----------------------------------------------------------------------------
(* The four kinds of steps of a call: outside the peers, into one, inside it, *)
(* and out of it.                                                           *)

LEMMA TopFacts ==
    ASSUME TypeInv, stack # <<>>
    PROVE  /\ IsCall(call) /\ call.step \in Steps /\ LiveIn(cycles, call.cycle)
           /\ CyclesGood(cycles) /\ call.at \in 0..Len(cycles[call.cycle].logs)
           /\ Writes(call) => call.at # 0 /\ log.peer # 0
           /\ call.at # 0 =>
                /\ call.at \in DOMAIN cycles[call.cycle].logs /\ IsLog(log)
                /\ log.next \in 0..Len(cycles[call.cycle].logs)
                /\ log.peer # 0 => log.peer \in DOMAIN cycles[call.cycle].peers /\ IsPeer(peer)
  <1>1. GoodCall(cycles, call) /\ CyclesGood(cycles) BY TopCall DEF TypeInv
  <1>2. GoodCycle(cycles[call.cycle]) BY <1>1 DEF GoodCall, LiveIn
  <1>3. /\ IsSeq(cycles[call.cycle].peers) /\ IsSeq(cycles[call.cycle].logs)
        /\ \A k \in DOMAIN cycles[call.cycle].peers : IsPeer(cycles[call.cycle].peers[k])
        /\ \A l \in DOMAIN cycles[call.cycle].logs :
             LET x == cycles[call.cycle].logs[l] IN
             /\ IsLog(x) /\ x.next \in 0..Len(cycles[call.cycle].logs)
             /\ x.peer \in 0..Len(cycles[call.cycle].peers)
    BY <1>2 DEF GoodCycle, GoodLogs
  <1>4. /\ DOMAIN cycles[call.cycle].peers = 1..Len(cycles[call.cycle].peers)
        /\ DOMAIN cycles[call.cycle].logs = 1..Len(cycles[call.cycle].logs)
        /\ Len(cycles[call.cycle].logs) \in Nat /\ Len(cycles[call.cycle].peers) \in Nat
    BY <1>3, SeqParts
  <1>5. call.at \in 0..Len(cycles[call.cycle].logs) BY <1>1 DEF GoodCall
  <1>6. ASSUME call.at # 0
        PROVE  /\ call.at \in DOMAIN cycles[call.cycle].logs /\ IsLog(log)
               /\ log.next \in 0..Len(cycles[call.cycle].logs)
               /\ log.peer # 0 => log.peer \in DOMAIN cycles[call.cycle].peers /\ IsPeer(peer)
    <2>1. call.at \in DOMAIN cycles[call.cycle].logs BY <1>4, <1>5, <1>6
    <2>2. /\ IsLog(log) /\ log.next \in 0..Len(cycles[call.cycle].logs)
          /\ log.peer \in 0..Len(cycles[call.cycle].peers)
      BY <2>1, <1>3 DEF log
    <2>3. log.peer # 0 => log.peer \in DOMAIN cycles[call.cycle].peers BY <2>2, <1>4
    <2>4. log.peer # 0 => IsPeer(peer) BY <2>3, <1>3 DEF peer
    <2> QED BY <2>1, <2>2, <2>3, <2>4
  <1>7. Writes(call) => call.at # 0 /\ log.peer # 0 BY <1>1 DEF GoodCall, log
  <1> QED BY <1>1, <1>5, <1>6, <1>7 DEF GoodCall

\* What all steps have in common but the return from a call.
Stays(c) ==
    /\ stack # <<>> /\ Moves(c) /\ GoodCall(cycles, c) /\ c.cycle = call.cycle
    /\ CyclesGood(cycles') /\ SameLogs(cycles, cycles')
    /\ UNCHANGED <<hky_cycle, reload, dying, doubled>>

SamePeers == \A d \in DOMAIN cycles :
    cycles'[d].peers = cycles[d].peers /\ cycles'[d].cleanups = cycles[d].cleanups

LEMMA OnwardGood ==
    ASSUME TypeInv, stack # <<>>, call.at # 0
    PROVE  GoodCall(cycles, Onward) /\ ~Writes(Onward) /\ Onward.cycle = call.cycle
  <1> DEFINE r == Append(call.reached, Target(log))
             nx == log.next
  <1>1. Onward = Further(call, nx, "walk", -1, r) BY DEF Onward, Further
  <1>2. IsCall(call) /\ nx \in 0..Len(cycles[call.cycle].logs) /\ LiveIn(cycles, call.cycle)
    BY TopFacts
  <1> HIDE DEF r, nx
  <1>3. IsCall(Onward) /\ Onward.cycle = call.cycle /\ Onward.at = nx /\ Onward.step = "walk"
    BY <1>1, <1>2, CallFields
  <1> QED BY <1>2, <1>3 DEF GoodCall, Writes, Steps

\* A step that is not about a peer.
LEMMA QuietStep ==
    ASSUME TypeInv, SkipFullDisk \/ WriteFile(TRUE) \/ WriteFile(FALSE) \/ EndWalk \/ WriterBusy
    PROVE  \E c : Stays(c) /\ ~Writes(call) /\ ~Writes(c) /\ SamePeers /\ sockets' = sockets
  <1>1. stack # <<>> /\ call.step = "walk" /\ sockets' = sockets
        /\ UNCHANGED <<hky_cycle, reload, dying, doubled>>
    BY DEF SkipFullDisk, WriteFile, EndWalk, WriterBusy, Walking
  <1>2. ~Writes(call) BY <1>1 DEF Writes
  <1>3. Taken => call.at # 0 BY DEF Taken
  <1>4. CyclesGood(cycles) BY DEF TypeInv
  <1>5. cycles' = cycles => CyclesGood(cycles') /\ SameLogs(cycles, cycles') /\ SamePeers
    BY <1>4, SameLogsSame DEF SamePeers
  <1>6. CASE SkipFullDisk \/ WriterBusy
    <2>1. Moves(Onward) /\ Taken /\ cycles' = cycles BY <1>6 DEF SkipFullDisk, WriterBusy, Moves
    <2> QED BY <2>1, <1>1, <1>2, <1>3, <1>5, OnwardGood DEF Stays
  <1>7. CASE WriteFile(TRUE) \/ WriteFile(FALSE)
    <2> DEFINE w == Onward.wrote_stderr \/ log.file = Stderr
               c == [Onward EXCEPT !.wrote_stderr = w]
    <2>1. Taken /\ stack' = Replace(c) BY <1>7 DEF WriteFile
    <2>2. GoodCall(cycles, Onward) /\ ~Writes(Onward) /\ Onward.cycle = call.cycle
      BY <2>1, <1>1, <1>3, OnwardGood
    <2> HIDE DEF w
    <2>3. IsCall(c) /\ c.cycle = Onward.cycle /\ c.at = Onward.at /\ c.step = Onward.step
      BY <2>2, CallWrote DEF GoodCall
    <2> HIDE DEF c
    <2>4. GoodCall(cycles, c) /\ ~Writes(c) /\ c.cycle = call.cycle
      BY <2>2, <2>3 DEF GoodCall, Writes
    <2>5. CyclesGood(cycles') /\ SameLogs(cycles, cycles') /\ SamePeers
      <3>1. CASE WriteFile(FALSE)
        <4>1. cycles' = cycles BY <3>1 DEF WriteFile
        <4> QED BY <4>1, <1>5
      <3>2. CASE WriteFile(TRUE)
        <4> DEFINE x == [log EXCEPT !.disk_full_time = hky_time]
        <4>1. cycles' = WithLog(cycles, call.cycle, call.at, x) BY <3>2, FullDisk
        <4>2. /\ LiveIn(cycles, call.cycle) /\ call.at \in DOMAIN cycles[call.cycle].logs
              /\ IsLog(log)
          BY <1>1, <1>3, <2>1, TopFacts
        <4>3. /\ IsLog(x) /\ x.next = cycles[call.cycle].logs[call.at].next
              /\ SameSay(x, cycles[call.cycle].logs[call.at])
          BY <4>2, LogFields DEF log, Filled
        <4> HIDE DEF x
        <4> QED BY <1>4, <4>1, <4>2, <4>3, LogChanged DEF SamePeers
      <3> QED BY <1>7, <3>1, <3>2
    <2>6. Moves(c) BY <2>1 DEF Moves, c
    <2> QED BY <1>1, <1>2, <2>4, <2>5, <2>6 DEF Stays
  <1>8. CASE EndWalk
    <2> DEFINE w == call.wrote_stderr \/ call.level <= WARN
               c == [call EXCEPT !.step = "told", !.wrote_stderr = w]
    <2>1. Moves(c) /\ cycles' = cycles BY <1>8 DEF EndWalk, Moves
    <2>2. IsCall(call) /\ GoodCall(cycles, call) BY <1>1, TopCall DEF GoodCall
    <2>5. c = StepWrote(call, "told", w) BY DEF StepWrote
    <2> HIDE DEF w, c
    <2>3. IsCall(c) /\ c.cycle = call.cycle /\ c.at = call.at /\ c.step = "told"
      BY <2>2, <2>5, CallFields
    <2>4. GoodCall(cycles, c) /\ ~Writes(c) BY <2>2, <2>3 DEF GoodCall, Writes, Steps
    <2> QED BY <1>1, <1>2, <1>5, <2>1, <2>3, <2>4 DEF Stays
  <1> QED BY <1>6, <1>7, <1>8

-----------------------------------------------------------------------------
(* Peers and writers before and after a step.                               *)

LEMMA PeersIn ==
    ASSUME NEW p
    PROVE  p \in Peers <=> \E c \in DOMAIN cycles : \E k \in DOMAIN cycles[c].peers : p = <<c, k>>
  BY DEF Peers

LEMMA PeersSame ==
    ASSUME CyclesGood(cycles), SameLogs(cycles, cycles')
    PROVE  Peers' = Peers
  <1>1. ASSUME NEW c \in DOMAIN cycles PROVE DOMAIN cycles'[c].peers = DOMAIN cycles[c].peers
    <2>1. CASE cycles[c] = Gone BY <2>1 DEF SameLogs
    <2>2. CASE GoodCycle(cycles[c]) BY <2>2 DEF SameLogs, Alike
    <2> QED BY <2>1, <2>2 DEF CyclesGood
  <1>2. DOMAIN cycles' = DOMAIN cycles BY DEF SameLogs
  <1> QED BY <1>1, <1>2 DEF Peers

LEMMA PeersChanged ==
    ASSUME CyclesGood(cycles), NEW c, Live(c), NEW k \in DOMAIN cycles[c].peers,
           NEW p, IsPeer(p), cycles' = WithPeer(cycles, c, k, p)
    PROVE  /\ CyclesGood(cycles') /\ SameLogs(cycles, cycles')
           /\ \A d \in DOMAIN cycles : cycles'[d].cleanups = cycles[d].cleanups
           /\ Peers' = Peers /\ <<c, k>> \in Peers
           /\ cycles'[c].peers[k] = p
           /\ \A q \in Peers : q # <<c, k>> => PeerAt(q)' = PeerAt(q)
  <1> DEFINE ds == WithPeer(cycles, c, k, p)
  <1>1. /\ CyclesGood(ds) /\ SameLogs(cycles, ds)
        /\ \A d \in DOMAIN cycles : ds[d].cleanups = cycles[d].cleanups
        /\ ds[c].peers[k] = p
        /\ \A d \in DOMAIN cycles : \A j \in DOMAIN cycles[d].peers :
             <<d, j>> # <<c, k>> => ds[d].peers[j] = cycles[d].peers[j]
    BY PeerChanged DEF Live
  <1>2. ds = cycles' OBVIOUS
  <1> HIDE DEF ds
  <1>3. Peers' = Peers BY <1>1, <1>2, PeersSame
  <1>4. <<c, k>> \in Peers BY PeersIn DEF Live, LiveIn
  <1>5. ASSUME NEW q \in Peers, q # <<c, k>> PROVE PeerAt(q)' = PeerAt(q)
    <2>0. PICK d \in DOMAIN cycles : \E j \in DOMAIN cycles[d].peers : q = <<d, j>> BY PeersIn
    <2>1. PICK j \in DOMAIN cycles[d].peers : q = <<d, j>> BY <2>0
    <2>2. ds[d].peers[j] = cycles[d].peers[j] BY <1>1, <1>5, <2>1
    <2> QED BY <2>1, <2>2, <1>2 DEF PeerAt
  <1> QED BY <1>1, <1>2, <1>3, <1>4, <1>5

LEMMA TopPeer ==
    ASSUME TypeInv, stack # <<>>, call.at # 0, log.peer # 0
    PROVE  /\ id \in Peers /\ PeerAt(id) = peer /\ IsPeer(peer) /\ Live(call.cycle)
           /\ log.peer \in DOMAIN cycles[call.cycle].peers
  <1>1. log.peer \in DOMAIN cycles[call.cycle].peers /\ IsPeer(peer) /\ Live(call.cycle)
    BY TopFacts DEF Live
  <1>2. id \in Peers BY <1>1, PeersIn DEF id, Live, LiveIn
  <1>3. PeerAt(id) = peer BY DEF PeerAt, id, peer
  <1> QED BY <1>1, <1>2, <1>3

LEMMA WriterPeer ==
    ASSUME TypeInv, NEW n \in Writers
    PROVE  PeerOf(n) \in Peers
  <1>1. GoodCall(cycles, stack[n]) /\ Writes(stack[n]) BY DEF TypeInv, Writers, InWriter, Writes
  <1> DEFINE c == stack[n].cycle
             l == stack[n].at
  <1>2. LiveIn(cycles, c) /\ l \in 0..Len(cycles[c].logs) /\ l # 0 /\ cycles[c].logs[l].peer # 0
    BY <1>1 DEF GoodCall
  <1>3. /\ IsSeq(cycles[c].logs) /\ IsSeq(cycles[c].peers)
        /\ \A j \in DOMAIN cycles[c].logs : cycles[c].logs[j].peer \in 0..Len(cycles[c].peers)
    BY <1>2 DEF LiveIn, GoodCycle, GoodLogs
  <1> DEFINE logs == cycles[c].logs
             who == cycles[c].peers
  <1>4. /\ DOMAIN logs = 1..Len(logs) /\ Len(logs) \in Nat
        /\ DOMAIN who = 1..Len(who) /\ Len(who) \in Nat
    BY <1>3, SeqParts, Zenon
  <1>5. /\ l \in 0..Len(logs) /\ l # 0 /\ logs[l].peer # 0
        /\ \A j \in DOMAIN logs : logs[j].peer \in 0..Len(who)
    BY <1>2, <1>3, Zenon
  <1>6. logs[l].peer \in DOMAIN who
    <2> HIDE DEF logs, who, l
    <2> QED BY <1>4, <1>5
  <1> QED BY <1>2, <1>6, PeersIn DEF PeerOf, LiveIn

\* The peer of a call stays what it is while others work.
LEMMA PeerOfKept ==
    ASSUME TypeInv, SameLogs(cycles, cycles'), NEW n \in DOMAIN stack, NEW m,
           stack[n].at # 0, stack'[m].cycle = stack[n].cycle, stack'[m].at = stack[n].at
    PROVE  PeerOf(m)' = PeerOf(n)
  <1> DEFINE c == stack[n].cycle
             l == stack[n].at
  <1>1. LiveIn(cycles, c) /\ l \in 0..Len(cycles[c].logs) BY DEF TypeInv, GoodCall
  <1>2. IsSeq(cycles[c].logs) BY <1>1 DEF LiveIn, GoodCycle, GoodLogs
  <1>3. l \in DOMAIN cycles[c].logs BY <1>1, <1>2, SeqParts
  <1>4. cycles'[c].logs[l].peer = cycles[c].logs[l].peer BY <1>1, <1>3 DEF SameLogs, Alike, SameSay, LiveIn
  <1> QED BY <1>4 DEF PeerOf

LEMMA WritersMoved ==
    ASSUME TypeInv, NEW c, Stays(c), Writes(c) => c.at = call.at, NEW n, n = Len(stack)
    PROVE  /\ Writers' = (Writers \ {n}) \cup {m \in {n} : Writes(c)}
           /\ \A m \in Writers \ {n} : PeerOf(m)' = PeerOf(m) /\ stack'[m] = stack[m]
           /\ stack'[n] = c /\ n \in DOMAIN stack
           /\ Writes(c) => PeerOf(n)' = id
           /\ n \in Writers <=> Writes(call)
           /\ n \in Writers => PeerOf(n) = id
  <1>1. /\ stack # <<>> /\ Moves(c) /\ c.cycle = call.cycle /\ SameLogs(cycles, cycles')
        /\ GoodCall(cycles, c)
    BY DEF Stays
  <1>2. n \in DOMAIN stack /\ stack[n] = call BY <1>1, TopCall DEF call
  <1>3. /\ DOMAIN stack \subseteq DOMAIN stack' /\ stack'[n] = c
        /\ \A m \in DOMAIN stack : m # n => stack'[m] = stack[m]
        /\ \A m \in DOMAIN stack' \ DOMAIN stack : ~Writes(stack'[m])
    <2>1. \A d, level : ~Writes(NewCall(d, level)) BY DEF NewCall, Writes
    <2> QED BY <1>1, <2>1, MovedStack
  <1>4. Writers = {m \in DOMAIN stack : Writes(stack[m])} BY DEF Writers, InWriter, Writes
  <1>5. Writers' = {m \in DOMAIN stack' : Writes(stack'[m])} BY DEF Writers, InWriter, Writes
  <1>6. Writers' = (Writers \ {n}) \cup {m \in {n} : Writes(c)} BY <1>2, <1>3, <1>4, <1>5
  <1>7. ASSUME NEW m \in Writers \ {n} PROVE PeerOf(m)' = PeerOf(m) /\ stack'[m] = stack[m]
    <2>1. m \in DOMAIN stack /\ stack'[m] = stack[m] /\ Writes(stack[m]) BY <1>3, <1>4
    <2>2. stack[m].at # 0 BY <2>1 DEF TypeInv, GoodCall
    <2> QED BY <1>1, <2>1, <2>2, PeerOfKept
  <1>8. ASSUME Writes(c) PROVE PeerOf(n)' = id
    <2>1. c.at = call.at /\ call.at # 0 BY <1>1, <1>8 DEF GoodCall
    <2>2. PeerOf(n)' = PeerOf(n)
      <3>1. /\ stack[n].at # 0 /\ stack'[n].cycle = stack[n].cycle /\ stack'[n].at = stack[n].at
            /\ n \in DOMAIN stack
        BY <1>1, <1>2, <1>3, <2>1
      <3> QED BY <1>1, <3>1, PeerOfKept
    <2>3. PeerOf(n) = id BY <1>2 DEF PeerOf, id, log
    <2> QED BY <2>2, <2>3
  <1>9. n \in Writers <=> Writes(call) BY <1>2, <1>4
  <1>10. PeerOf(n) = id BY <1>2 DEF PeerOf, id, log
  <1> QED BY <1>2, <1>3, <1>6, <1>7, <1>8, <1>9, <1>10

\* What a step inside a peer keeps.
Inside(c) == Stays(c) /\ Writes(call) /\ Writes(c) /\ c.at = call.at

LEMMA InsideCall ==
    ASSUME TypeInv, stack # <<>>, Writes(call), NEW s \in Steps \ {"walk", "told"}
    PROVE  /\ \A c : c = [call EXCEPT !.step = s] =>
                GoodCall(cycles, c) /\ Writes(c) /\ c.cycle = call.cycle /\ c.at = call.at
                /\ c.step = s
           /\ \A c, f : c = StepFd(call, s, f) =>
                GoodCall(cycles, c) /\ Writes(c) /\ c.cycle = call.cycle /\ c.at = call.at
                /\ c.step = s /\ c.fd = f
  <1>1. GoodCall(cycles, call) BY TopCall
  <1>2. ASSUME NEW c, c = [call EXCEPT !.step = s]
        PROVE  IsCall(c) /\ c.cycle = call.cycle /\ c.at = call.at /\ c.step = s
    <2>1. IsCall(call) BY <1>1 DEF GoodCall
    <2>2. c = [cycle |-> call.cycle, level |-> call.level, at |-> call.at, step |-> s,
               fd |-> call.fd, reached |-> call.reached, wrote_stderr |-> call.wrote_stderr]
      BY <2>1, <1>2 DEF IsCall
    <2> QED BY <2>2 DEF IsCall
  <1>3. ASSUME NEW f, NEW c, c = StepFd(call, s, f)
        PROVE  IsCall(c) /\ c.cycle = call.cycle /\ c.at = call.at /\ c.step = s /\ c.fd = f
    <2>1. IsCall(call) BY <1>1 DEF GoodCall
    <2> QED BY <2>1, <1>3, CallFields
  <1>4. ASSUME NEW c, IsCall(c), c.cycle = call.cycle, c.at = call.at, c.step = s
        PROVE  GoodCall(cycles, c) /\ Writes(c)
    BY <1>1, <1>4 DEF GoodCall, Writes
  <1> QED BY <1>2, <1>3, <1>4

\* Into a peer.
LEMMA EnterStep ==
    ASSUME TypeInv, SyslogWriter, NEW p, p = id
    PROVE  \E c : /\ Stays(c) /\ ~Writes(call) /\ Writes(c) /\ c.at = call.at
                  /\ c.step # "failed"
                  /\ c.step = "connect" => PeerAt(p).fd = -1
                  /\ p \in Peers /\ ~PeerAt(p).busy /\ Peers' = Peers
                  /\ PeerAt(p)'.busy = TRUE /\ PeerAt(p)'.fd = PeerAt(p).fd
                  /\ \A q \in Peers : q # p => PeerAt(q)' = PeerAt(q)
                  /\ \A d \in DOMAIN cycles : cycles'[d].cleanups = cycles[d].cleanups
                  /\ sockets' = sockets
  <1> DEFINE s == IF peer.fd = -1 THEN "connect" ELSE "send"
             c == [call EXCEPT !.step = s]
             new == [peer EXCEPT !.busy = TRUE]
  <1>1. /\ stack # <<>> /\ call.step = "walk" /\ Taken /\ log.peer # 0 /\ ~peer.busy
        /\ sockets' = sockets /\ UNCHANGED <<hky_cycle, reload, dying, doubled>>
        /\ stack' = Replace(c) /\ SetPeer("busy", TRUE)
    BY DEF SyslogWriter, Walking, Busy
  <1>2. call.at # 0 BY <1>1 DEF Taken
  <1>3. /\ p \in Peers /\ PeerAt(p) = peer /\ IsPeer(peer) /\ Live(call.cycle)
        /\ log.peer \in DOMAIN cycles[call.cycle].peers /\ p = <<call.cycle, log.peer>>
    BY <1>1, <1>2, TopPeer DEF id, PeerAt
  <1>4. cycles' = WithPeer(cycles, call.cycle, log.peer, new) BY <1>1, PeerField
  <1>5. IsPeer(new) /\ new.busy = TRUE /\ new.fd = peer.fd BY <1>3, PeerFields
  <1> HIDE DEF new
  <1>6. CyclesGood(cycles) /\ GoodCall(cycles, call) BY <1>1, TopCall DEF TypeInv
  <1> DEFINE cc == call.cycle
             k == log.peer
  <1>7. /\ CyclesGood(cycles') /\ SameLogs(cycles, cycles')
        /\ \A d \in DOMAIN cycles : cycles'[d].cleanups = cycles[d].cleanups
        /\ Peers' = Peers /\ cycles'[cc].peers[k] = new
        /\ \A q \in Peers : q # <<cc, k>> => PeerAt(q)' = PeerAt(q)
    <2> HIDE DEF cc, k
    <2>1. Live(cc) /\ k \in DOMAIN cycles[cc].peers /\ cycles' = WithPeer(cycles, cc, k, new)
      BY <1>3, <1>4 DEF cc, k
    <2> QED BY <2>1, <1>5, <1>6, PeersChanged
  <1>8. PeerAt(p)' = new BY <1>3, <1>7 DEF PeerAt
  <1>9. IsCall(c) /\ c.cycle = call.cycle /\ c.at = call.at /\ c.step = s
    <2> HIDE DEF s
    <2> QED BY <1>6, CallStep DEF GoodCall
  <1>10. s \in {"connect", "send"} /\ (s = "connect" => peer.fd = -1) OBVIOUS
  <1>11. Moves(c) BY <1>1 DEF Moves
  <1> HIDE DEF c, s
  <1>12. GoodCall(cycles, c) /\ Writes(c)
    BY <1>1, <1>2, <1>6, <1>9, <1>10 DEF GoodCall, Writes, Steps, log
  <1>13. Stays(c) BY <1>1, <1>7, <1>9, <1>11, <1>12 DEF Stays
  <1>14. ~Writes(call) BY <1>1 DEF Writes
  <1>15. PeerAt(p)'.busy = TRUE /\ PeerAt(p)'.fd = PeerAt(p).fd BY <1>3, <1>5, <1>8
  <1>16. \A q \in Peers : q # p => PeerAt(q)' = PeerAt(q) BY <1>3, <1>7
  <1>17. c.step # "failed" /\ (c.step = "connect" => PeerAt(p).fd = -1) BY <1>3, <1>9, <1>10
  <1>18. ~PeerAt(p).busy BY <1>1, <1>3
  <1> QED BY <1>1, <1>3, <1>7, <1>9, <1>12, <1>13, <1>14, <1>15, <1>16, <1>17, <1>18

\* Out of a peer.
LEMMA LeaveStep ==
    ASSUME TypeInv, WriterDone, NEW p, p = id
    PROVE  \E c : /\ Stays(c) /\ Writes(call) /\ ~Writes(c) /\ call.step = "sent"
                  /\ p \in Peers /\ Peers' = Peers
                  /\ PeerAt(p)'.busy = FALSE /\ PeerAt(p)'.fd = PeerAt(p).fd
                  /\ \A q \in Peers : q # p => PeerAt(q)' = PeerAt(q)
                  /\ \A d \in DOMAIN cycles : cycles'[d].cleanups = cycles[d].cleanups
                  /\ sockets' = sockets
  <1> DEFINE new == [peer EXCEPT !.busy = FALSE]
  <1>1. /\ stack # <<>> /\ call.step = "sent"
        /\ sockets' = sockets /\ UNCHANGED <<hky_cycle, reload, dying, doubled>>
        /\ stack' = Replace(Onward) /\ SetPeer("busy", FALSE)
    BY DEF WriterDone, At
  <1>2. Writes(call) BY <1>1 DEF Writes
  <1>3. call.at # 0 /\ log.peer # 0 BY <1>1, <1>2, TopFacts
  <1>4. /\ p \in Peers /\ PeerAt(p) = peer /\ IsPeer(peer) /\ Live(call.cycle)
        /\ log.peer \in DOMAIN cycles[call.cycle].peers /\ p = <<call.cycle, log.peer>>
    BY <1>1, <1>3, TopPeer DEF id, PeerAt
  <1>5. cycles' = WithPeer(cycles, call.cycle, log.peer, new) BY <1>1, PeerField
  <1>6. IsPeer(new) /\ new.busy = FALSE /\ new.fd = peer.fd BY <1>4, PeerFields
  <1> HIDE DEF new
  <1>7. CyclesGood(cycles) BY DEF TypeInv
  <1> DEFINE cc == call.cycle
             k == log.peer
  <1>8. /\ CyclesGood(cycles') /\ SameLogs(cycles, cycles')
        /\ \A d \in DOMAIN cycles : cycles'[d].cleanups = cycles[d].cleanups
        /\ Peers' = Peers /\ cycles'[cc].peers[k] = new
        /\ \A q \in Peers : q # <<cc, k>> => PeerAt(q)' = PeerAt(q)
    <2> HIDE DEF cc, k
    <2>1. Live(cc) /\ k \in DOMAIN cycles[cc].peers /\ cycles' = WithPeer(cycles, cc, k, new)
      BY <1>4, <1>5 DEF cc, k
    <2> QED BY <2>1, <1>6, <1>7, PeersChanged
  <1>9. PeerAt(p)' = new BY <1>4, <1>8 DEF PeerAt
  <1>10. GoodCall(cycles, Onward) /\ ~Writes(Onward) /\ Onward.cycle = call.cycle
    BY <1>1, <1>3, OnwardGood
  <1>11. Stays(Onward) BY <1>1, <1>8, <1>10 DEF Stays, Moves
  <1>12. PeerAt(p)'.busy = FALSE /\ PeerAt(p)'.fd = PeerAt(p).fd BY <1>4, <1>6, <1>9
  <1>13. \A q \in Peers : q # p => PeerAt(q)' = PeerAt(q) BY <1>4, <1>8
  <1> QED BY <1>1, <1>2, <1>4, <1>8, <1>10, <1>11, <1>12, <1>13

\* Inside a peer, nothing changes but what the call does next.
LEMMA BareStep ==
    ASSUME TypeInv, SocketFails \/ Send \/ SendFails(ALERT) \/ SendFails(ERR)
    PROVE  \E c : /\ Inside(c) /\ c.step \in {"sent", "close"}
                  /\ call.step \in {"connect", "send"}
                  /\ cycles' = cycles /\ sockets' = sockets
  <1>1. /\ stack # <<>> /\ call.step \in {"connect", "send"} /\ cycles' = cycles
        /\ sockets' = sockets /\ UNCHANGED <<hky_cycle, reload, dying, doubled>>
    BY DEF SocketFails, Send, SendFails, At
  <1>2. \E t \in {"sent", "close"} : Moves([call EXCEPT !.step = t])
    <2>1. CASE SocketFails
      <3> DEFINE d == [call EXCEPT !.step = "sent"]
      <3>1. stack' = Complain(d, ALERT) BY <2>1 DEF SocketFails
      <3> HIDE DEF d
      <3>2. Moves(d) BY <3>1, Severities, ComplainMoves
      <3> QED BY <3>2 DEF d
    <2>2. CASE Send BY <2>2 DEF Send, Moves
    <2>3. CASE \E level \in {ALERT, ERR} : SendFails(level)
      <3>1. PICK level \in {ALERT, ERR} : SendFails(level) BY <2>3
      <3> DEFINE t == IF peer.server = "unix" THEN "close" ELSE "sent"
                 d == [call EXCEPT !.step = t]
      <3>2. stack' = Complain(d, level) BY <3>1 DEF SendFails
      <3>3. t \in {"sent", "close"} OBVIOUS
      <3> HIDE DEF d, t
      <3>4. Moves(d) BY <3>2, Severities, ComplainMoves
      <3> QED BY <3>3, <3>4 DEF d
    <2> QED BY <2>1, <2>2, <2>3
  <1>3. PICK t \in {"sent", "close"} : Moves([call EXCEPT !.step = t]) BY <1>2
  <1> DEFINE d == [call EXCEPT !.step = t]
  <1>4. Moves(d) BY <1>3
  <1>5. Writes(call) BY <1>1 DEF Writes
  <1>6. t \in Steps \ {"walk", "told"} BY DEF Steps
  <1>7. GoodCall(cycles, d) /\ Writes(d) /\ d.cycle = call.cycle /\ d.at = call.at /\ d.step = t
    BY <1>1, <1>5, <1>6, InsideCall
  <1> HIDE DEF d
  <1>8. Stays(d) BY <1>1, <1>4, <1>7, SameLogsSame DEF Stays, TypeInv
  <1> QED BY <1>1, <1>5, <1>7, <1>8 DEF Inside

\* A socket is opened, but connecting it fails or there is no memory for the cleanup.
LEMMA OpenStep ==
    ASSUME TypeInv, ConnectFails \/ NoCleanup
    PROVE  \E c : \E f \in Fds \ DOMAIN sockets :
             /\ Inside(c) /\ call.step = "connect" /\ c.step = "failed" /\ c.fd = f
             /\ cycles' = cycles /\ sockets' = Opened(f)
  <1> DEFINE f == FirstOf(FreeFds)
             c == StepFd(call, "failed", f)
  <1>1. /\ stack # <<>> /\ call.step = "connect" /\ cycles' = cycles /\ FreeFds # {}
        /\ sockets' = Opened(f) /\ UNCHANGED <<hky_cycle, reload, dying, doubled>>
    BY DEF ConnectFails, NoCleanup, At
  <1>2. f \in Fds \ DOMAIN sockets
    <2>1. FreeFds \in SUBSET Nat BY SyslogAssumption DEF FreeFds
    <2>2. f \in FreeFds BY <1>1, <2>1, FirstOfIn
    <2> QED BY <2>2 DEF FreeFds
  <1>3. Moves(c)
    <2>1. stack' = Complain(c, ALERT) \/ stack' = LogError(Replace(c), call.cycle, EMERG)
      BY DEF ConnectFails, NoCleanup, StepFd
    <2> HIDE DEF c
    <2> QED BY <2>1, Severities, ComplainMoves, NoCleanupMoves
  <1>4. Writes(call) BY <1>1 DEF Writes
  <1>5. "failed" \in Steps \ {"walk", "told"} BY DEF Steps
  <1>6. GoodCall(cycles, c) /\ Writes(c) /\ c.cycle = call.cycle /\ c.at = call.at
        /\ c.step = "failed" /\ c.fd = f
    BY <1>1, <1>4, <1>5, InsideCall
  <1> HIDE DEF c, f
  <1>7. Stays(c) BY <1>1, <1>3, <1>6, SameLogsSame DEF Stays, TypeInv
  <1> QED BY <1>1, <1>2, <1>4, <1>6, <1>7 DEF Inside

LEMMA CloseStep ==
    ASSUME TypeInv, CloseFailed
    PROVE  \E c : /\ Inside(c) /\ call.step = "failed" /\ c.step = "sent"
                  /\ cycles' = cycles /\ Close(call.fd)
  <1> DEFINE c == [call EXCEPT !.step = "sent"]
  <1>1. /\ stack # <<>> /\ call.step = "failed" /\ cycles' = cycles /\ Moves(c)
        /\ Close(call.fd) /\ UNCHANGED <<hky_cycle, reload, dying, doubled>>
    BY DEF CloseFailed, At, Moves
  <1>2. Writes(call) BY <1>1 DEF Writes
  <1>3. "sent" \in Steps \ {"walk", "told"} BY DEF Steps
  <1>4. GoodCall(cycles, c) /\ Writes(c) /\ c.cycle = call.cycle /\ c.at = call.at /\ c.step = "sent"
    BY <1>1, <1>2, <1>3, InsideCall
  <1> HIDE DEF c
  <1>5. Stays(c) BY <1>1, <1>4, SameLogsSame DEF Stays, TypeInv
  <1> QED BY <1>1, <1>2, <1>4, <1>5 DEF Inside

\* The peer is connected, and has one cleanup more.
LEMMA ConnectStep ==
    ASSUME TypeInv, InitPeer, NEW p, p = id
    PROVE  \E c : \E f \in Fds \ DOMAIN sockets :
             /\ Inside(c) /\ call.step = "connect" /\ c.step = "send"
             /\ sockets' = Opened(f) /\ p \in Peers /\ Peers' = Peers
             /\ PeerAt(p)'.fd = f /\ PeerAt(p)'.busy = PeerAt(p).busy
             /\ \A q \in Peers : q # p => PeerAt(q)' = PeerAt(q)
             /\ ToSet(cycles'[p[1]].cleanups) = ToSet(cycles[p[1]].cleanups) \cup {p[2]}
             /\ \A d \in DOMAIN cycles : d # p[1] => cycles'[d].cleanups = cycles[d].cleanups
  <1> DEFINE f == FirstOf(FreeFds)
             c == [call EXCEPT !.step = "send"]
             cc == call.cycle
             k == log.peer
             one == WithCleanup(cycles, cc, k)
             new == [one[cc].peers[k] EXCEPT !.fd = f]
  <1>1. /\ stack # <<>> /\ call.step = "connect" /\ FreeFds # {}
        /\ sockets' = Opened(f) /\ UNCHANGED <<hky_cycle, reload, dying, doubled>> /\ Moves(c)
    BY DEF InitPeer, At, Moves
  <1>2. f \in Fds \ DOMAIN sockets
    <2>1. FreeFds \in SUBSET Nat BY SyslogAssumption DEF FreeFds
    <2>2. f \in FreeFds BY <1>1, <2>1, FirstOfIn
    <2> QED BY <2>2 DEF FreeFds
  <1>3. Writes(call) BY <1>1 DEF Writes
  <1>4. "send" \in Steps \ {"walk", "told"} BY DEF Steps
  <1>5. GoodCall(cycles, c) /\ Writes(c) /\ c.cycle = call.cycle /\ c.at = call.at /\ c.step = "send"
    BY <1>1, <1>3, <1>4, InsideCall
  <1>6. call.at # 0 /\ k # 0 BY <1>1, <1>3, TopFacts
  <1>7. /\ p \in Peers /\ PeerAt(p) = peer /\ IsPeer(peer) /\ Live(cc)
        /\ k \in DOMAIN cycles[cc].peers /\ p = <<cc, k>> /\ peer = cycles[cc].peers[k]
    BY <1>1, <1>6, TopPeer DEF id, peer
  <1>8. cycles' = WithPeer(one, cc, k, new) BY TwoChanges
  <1>9. CyclesGood(cycles) BY DEF TypeInv
  <1> HIDE DEF c, f, cc, k
  <1>10. /\ CyclesGood(one) /\ SameLogs(cycles, one)
         /\ \A d \in DOMAIN cycles : one[d].peers = cycles[d].peers
         /\ ToSet(one[cc].cleanups) = ToSet(cycles[cc].cleanups) \cup {k}
         /\ \A d \in DOMAIN cycles : d # cc => one[d].cleanups = cycles[d].cleanups
    BY <1>7, <1>9, CleanupAdded DEF Live
  <1>11. cc \in DOMAIN cycles /\ GoodCycle(cycles[cc]) BY <1>7 DEF Live, LiveIn
  <1>12. DOMAIN one = DOMAIN cycles /\ LiveIn(one, cc) BY <1>10, <1>11 DEF SameLogs, Alike, LiveIn
  <1>13. one[cc].peers[k] = peer BY <1>7, <1>10, <1>11
  <1>14. IsPeer(new) /\ new.fd = f /\ new.busy = peer.busy
    <2>1. new = [peer EXCEPT !.fd = f] BY <1>13
    <2>2. f \in Fds \cup {-1} BY <1>2
    <2> HIDE DEF new
    <2> QED BY <1>7, <2>1, <2>2, PeerFields
  <1> HIDE DEF one, new
  <1>15. k \in DOMAIN one[cc].peers BY <1>7, <1>10, <1>11
  <1>16. LET ds == WithPeer(one, cc, k, new) IN
         /\ CyclesGood(ds) /\ SameLogs(one, ds)
         /\ \A d \in DOMAIN one : ds[d].cleanups = one[d].cleanups
         /\ ds[cc].peers[k] = new
         /\ \A d \in DOMAIN one : \A j \in DOMAIN one[d].peers :
              <<d, j>> # <<cc, k>> => ds[d].peers[j] = one[d].peers[j]
    BY <1>10, <1>12, <1>14, <1>15, PeerChanged
  <1>17. /\ CyclesGood(cycles') /\ SameLogs(one, cycles')
         /\ \A d \in DOMAIN one : cycles'[d].cleanups = one[d].cleanups
         /\ cycles'[cc].peers[k] = new
         /\ \A d \in DOMAIN one : \A j \in DOMAIN one[d].peers :
              <<d, j>> # <<cc, k>> => cycles'[d].peers[j] = one[d].peers[j]
    BY <1>8, <1>16
  <1>18. SameLogs(cycles, cycles')
    <2>1. DOMAIN cycles' = DOMAIN cycles BY <1>12, <1>17 DEF SameLogs
    <2>2. \A d \in DOMAIN cycles : cycles[d] = Gone => cycles'[d] = Gone
      BY <1>10, <1>12, <1>17 DEF SameLogs
    <2>3. ASSUME NEW d \in DOMAIN cycles, GoodCycle(cycles[d]) PROVE Alike(cycles[d], cycles'[d])
      <3>1. Alike(cycles[d], one[d]) BY <2>3, <1>10 DEF SameLogs
      <3>2. Alike(one[d], cycles'[d]) BY <3>1, <1>12, <1>17 DEF SameLogs, Alike
      <3>3. DOMAIN one[d].logs = DOMAIN cycles[d].logs
        <4>1. IsSeq(one[d].logs) /\ IsSeq(cycles[d].logs) BY <2>3, <3>1 DEF Alike, GoodCycle, GoodLogs
        <4> QED BY <4>1, <3>1, SeqParts DEF Alike
      <3> QED BY <3>1, <3>2, <3>3 DEF Alike, SameSay
    <2> QED BY <2>1, <2>2, <2>3 DEF SameLogs
  <1>19. Peers' = Peers BY <1>9, <1>18, PeersSame
  <1>20. PeerAt(p)' = new BY <1>7, <1>17 DEF PeerAt
  <1>21. ASSUME NEW q \in Peers, q # p PROVE PeerAt(q)' = PeerAt(q)
    <2>1. PICK d \in DOMAIN cycles : \E j \in DOMAIN cycles[d].peers : q = <<d, j>> BY PeersIn
    <2>2. PICK j \in DOMAIN cycles[d].peers : q = <<d, j>> BY <2>1
    <2>3. one[d].peers = cycles[d].peers /\ d \in DOMAIN one BY <1>10, <1>12
    <2>4. cycles'[d].peers[j] = one[d].peers[j] BY <1>7, <1>17, <1>21, <2>2, <2>3
    <2> QED BY <2>2, <2>3, <2>4 DEF PeerAt
  <1>22. /\ ToSet(cycles'[p[1]].cleanups) = ToSet(cycles[p[1]].cleanups) \cup {p[2]}
         /\ \A d \in DOMAIN cycles : d # p[1] => cycles'[d].cleanups = cycles[d].cleanups
    BY <1>7, <1>10, <1>11, <1>12, <1>17
  <1>23. Inside(c) BY <1>1, <1>3, <1>5, <1>17, <1>18 DEF Inside, Stays
  <1>24. PeerAt(p)'.fd = f /\ PeerAt(p)'.busy = PeerAt(p).busy BY <1>7, <1>14, <1>20
  <1> QED BY <1>1, <1>2, <1>5, <1>7, <1>19, <1>21, <1>22, <1>23, <1>24

\* The socket of a peer on this host is given up after an error.
LEMMA ForgetStep ==
    ASSUME TypeInv, CloseUnix, NEW p, p = id
    PROVE  \E c : /\ Inside(c) /\ call.step = "close" /\ c.step = "sent"
                  /\ Close(PeerAt(p).fd) /\ p \in Peers /\ Peers' = Peers
                  /\ PeerAt(p)'.fd = -1 /\ PeerAt(p)'.busy = PeerAt(p).busy
                  /\ \A q \in Peers : q # p => PeerAt(q)' = PeerAt(q)
                  /\ \A d \in DOMAIN cycles : cycles'[d].cleanups = cycles[d].cleanups
  <1> DEFINE c == [call EXCEPT !.step = "sent"]
             new == [peer EXCEPT !.fd = -1]
             cc == call.cycle
             k == log.peer
  <1>1. /\ stack # <<>> /\ call.step = "close" /\ Close(peer.fd) /\ SetPeer("fd", -1)
        /\ UNCHANGED <<hky_cycle, reload, dying, doubled>>
        /\ stack' = Replace(c) \/ stack' = Complain(c, ALERT)
    BY DEF CloseUnix, At, Forgotten
  <1>2. Writes(call) BY <1>1 DEF Writes
  <1>3. "sent" \in Steps \ {"walk", "told"} BY DEF Steps
  <1>4. GoodCall(cycles, c) /\ Writes(c) /\ c.cycle = call.cycle /\ c.at = call.at /\ c.step = "sent"
    BY <1>1, <1>2, <1>3, InsideCall
  <1>5. call.at # 0 /\ k # 0 BY <1>1, <1>2, TopFacts
  <1>6. /\ p \in Peers /\ PeerAt(p) = peer /\ IsPeer(peer) /\ Live(cc)
        /\ k \in DOMAIN cycles[cc].peers /\ p = <<cc, k>>
    BY <1>1, <1>5, TopPeer DEF id
  <1>7. cycles' = WithPeer(cycles, cc, k, new) BY <1>1, PeerField
  <1>8. IsPeer(new) /\ new.fd = -1 /\ new.busy = peer.busy BY <1>6, PeerFields
  <1>9. CyclesGood(cycles) BY DEF TypeInv
  <1> HIDE DEF c, new, cc, k
  <1>10. /\ CyclesGood(cycles') /\ SameLogs(cycles, cycles')
         /\ \A d \in DOMAIN cycles : cycles'[d].cleanups = cycles[d].cleanups
         /\ Peers' = Peers /\ cycles'[cc].peers[k] = new
         /\ \A q \in Peers : q # <<cc, k>> => PeerAt(q)' = PeerAt(q)
    BY <1>6, <1>7, <1>8, <1>9, PeersChanged
  <1>11. PeerAt(p)' = new BY <1>6, <1>10 DEF PeerAt
  <1>12. Moves(c) BY <1>1, Severities, ComplainMoves DEF Moves
  <1>13. Inside(c) BY <1>1, <1>2, <1>4, <1>10, <1>12 DEF Inside, Stays
  <1>14. PeerAt(p)'.fd = -1 /\ PeerAt(p)'.busy = PeerAt(p).busy BY <1>6, <1>8, <1>11
  <1>15. Close(PeerAt(p).fd) BY <1>1, <1>6
  <1>16. \A q \in Peers : q # p => PeerAt(q)' = PeerAt(q) BY <1>6, <1>10
  <1> QED BY <1>1, <1>4, <1>6, <1>10, <1>13, <1>14, <1>15, <1>16

\* The innermost call is over.
LEMMA ReturnStep ==
    ASSUME TypeInv, Return
    PROVE  /\ IsSeq(stack') /\ DOMAIN stack' \subseteq DOMAIN stack /\ stack # <<>>
           /\ \A m \in DOMAIN stack' : stack'[m] = stack[m]
           /\ Writers' = Writers /\ \A m \in Writers : PeerOf(m)' = PeerOf(m)
           /\ UNCHANGED <<cycles, hky_cycle, reload, dying, sockets, doubled>>
  <1> DEFINE n == Len(stack)
             S == {stack[m] : m \in DOMAIN stack}
  <1>1. /\ stack # <<>> /\ call.step = "told" /\ stack' = SubSeq(stack, 1, n - 1)
        /\ UNCHANGED <<cycles, hky_cycle, reload, dying, sockets, doubled>>
    BY DEF Return, At
  <1>2. stack \in Seq(S) /\ n \in DOMAIN stack /\ DOMAIN stack = 1..n /\ n \in Nat
    BY <1>1, TopCall DEF TypeInv, IsSeq
  <1>3. /\ stack' \in Seq(S) /\ DOMAIN stack' = 1..(n - 1)
        /\ \A m \in 1..(n - 1) : stack'[m] = stack[m]
    <2> HIDE DEF S
    <2>1. n - 1 \in Nat /\ n - 1 <= n BY <1>2
    <2> QED BY <1>1, <1>2, <2>1
  <1>4. IsSeq(stack') BY <1>3, SeqTyped
  <1>5. \A m \in DOMAIN stack' : m \in DOMAIN stack /\ stack'[m] = stack[m] /\ m # n
    <2> HIDE DEF n, S
    <2> SUFFICES ASSUME NEW m \in 1..(n - 1) PROVE m \in 1..n /\ m # n BY <1>2, <1>3
    <2> QED BY <1>2
  <1>6. \A m \in DOMAIN stack : m # n => m \in DOMAIN stack' BY <1>2, <1>3
  <1>7. stack[n].step = "told" BY <1>1 DEF call
  <1>8. Writers' = Writers BY <1>5, <1>6, <1>7 DEF Writers, InWriter
  <1>9. ASSUME NEW m \in Writers PROVE PeerOf(m)' = PeerOf(m)
    <2>1. m \in DOMAIN stack' BY <1>8, <1>9 DEF Writers
    <2> QED BY <1>1, <1>5, <2>1 DEF PeerOf
  <1> QED BY <1>1, <1>4, <1>5, <1>8, <1>9

-----------------------------------------------------------------------------
(* The invariant holds on over the steps of calls.                          *)

LEMMA QuietStays ==
    ASSUME TypeInv, LogStep, ~Return
    PROVE  \E c : Stays(c) /\ DOMAIN sockets' \subseteq Fds
  <1>0. DOMAIN sockets \subseteq Fds BY DEF TypeInv
  <1>1. CASE SkipFullDisk \/ (\E full \in BOOLEAN : WriteFile(full)) \/ EndWalk \/ WriterBusy
    BY <1>0, <1>1, QuietStep
  <1>2. CASE SyslogWriter
    <2> SUFFICES ASSUME NEW who, who = id PROVE \E c : Stays(c) /\ DOMAIN sockets' \subseteq Fds
      OBVIOUS
    <2> QED BY <1>0, <1>2, EnterStep
  <1>3. CASE WriterDone
    <2> SUFFICES ASSUME NEW who, who = id PROVE \E c : Stays(c) /\ DOMAIN sockets' \subseteq Fds
      OBVIOUS
    <2> QED BY <1>0, <1>3, LeaveStep
  <1>4. CASE SocketFails \/ Send \/ (\E level \in {ALERT, ERR} : SendFails(level))
    BY <1>0, <1>4, BareStep DEF Inside
  <1>5. CASE ConnectFails \/ NoCleanup BY <1>0, <1>5, OpenStep DEF Inside, Opened
  <1>6. CASE CloseFailed BY <1>0, <1>6, CloseStep DEF Inside, Close
  <1>7. CASE InitPeer
    <2> SUFFICES ASSUME NEW who, who = id PROVE \E c : Stays(c) /\ DOMAIN sockets' \subseteq Fds
      OBVIOUS
    <2>1. PICK c : \E f \in Fds \ DOMAIN sockets : Inside(c) /\ sockets' = Opened(f)
      BY <1>7, ConnectStep
    <2>2. DOMAIN sockets' \subseteq Fds BY <1>0, <2>1 DEF Opened
    <2> QED BY <2>1, <2>2 DEF Inside
  <1>8. CASE CloseUnix
    <2> SUFFICES ASSUME NEW who, who = id PROVE \E c : Stays(c) /\ DOMAIN sockets' \subseteq Fds
      OBVIOUS
    <2>1. PICK c : Inside(c) BY <1>8, ForgetStep
    <2>2. DOMAIN sockets' \subseteq Fds BY <1>0, <1>8 DEF CloseUnix, Close
    <2> QED BY <2>1, <2>2 DEF Inside
  <1> QED BY <1>1, <1>2, <1>3, <1>4, <1>5, <1>6, <1>7, <1>8 DEF LogStep

LEMMA LogTypes ==
    ASSUME TypeInv, LogStep
    PROVE  TypeInv'
  <1>1. CASE ~Return
    <2>1. PICK c : Stays(c) /\ DOMAIN sockets' \subseteq Fds BY <1>1, QuietStays
    <2> QED BY <2>1, MoveTypes DEF Stays
  <1>2. CASE Return
    <2>1. /\ IsSeq(stack') /\ \A m \in DOMAIN stack' : m \in DOMAIN stack /\ stack'[m] = stack[m]
          /\ UNCHANGED <<cycles, hky_cycle, reload, dying, sockets>>
      BY <1>2, ReturnStep
    <2> QED BY <2>1 DEF TypeInv, ReloadRight, DyingRight, Live
  <1> QED BY <1>1, <1>2

\* If nobody enters or leaves a peer, all stay as they are guarded.
LEMMA GuardKept ==
    ASSUME Guarded, Writers' = Writers, \A n \in Writers : PeerOf(n)' = PeerOf(n),
           BusyPeers' = BusyPeers, dying' = dying
    PROVE  Guarded'
  BY DEF Guarded, CleanedPeers

LEMMA LogGuarded ==
    ASSUME TypeInv, Guarded, LogStep
    PROVE  Guarded'
  <1>0. CyclesGood(cycles) BY DEF TypeInv
  <1>1. CASE Return
    <2>1. /\ Writers' = Writers /\ \A m \in Writers : PeerOf(m)' = PeerOf(m)
          /\ UNCHANGED <<cycles, dying>>
      BY <1>1, ReturnStep
    <2>2. BusyPeers' = BusyPeers BY <2>1 DEF BusyPeers, Peers, PeerAt
    <2> QED BY <2>1, <2>2, GuardKept
  <1>2. CASE SkipFullDisk \/ (\E full \in BOOLEAN : WriteFile(full)) \/ EndWalk \/ WriterBusy
    <2>1. PICK c : Stays(c) /\ ~Writes(call) /\ ~Writes(c) /\ SamePeers BY <1>2, QuietStep
    <2>2. SameLogs(cycles, cycles') /\ dying' = dying BY <2>1 DEF Stays
    <2>3. Peers' = Peers BY <1>0, <2>2, PeersSame
    <2>4. \A q \in Peers : PeerAt(q)' = PeerAt(q) BY <2>1, PeersIn DEF SamePeers, PeerAt
    <2>5. BusyPeers' = BusyPeers BY <2>3, <2>4 DEF BusyPeers
    <2> SUFFICES ASSUME NEW top, top = Len(stack) PROVE Guarded' OBVIOUS
    <2>6. Writers' = Writers /\ \A m \in Writers : PeerOf(m)' = PeerOf(m)
      BY <2>1, WritersMoved
    <2> QED BY <2>2, <2>5, <2>6, GuardKept
  <1>3. CASE SyslogWriter
    <2> SUFFICES ASSUME NEW top, top = Len(stack), NEW who, who = id PROVE Guarded' OBVIOUS
    <2>1. PICK c : /\ Stays(c) /\ ~Writes(call) /\ Writes(c) /\ c.at = call.at
                   /\ who \in Peers /\ ~PeerAt(who).busy /\ Peers' = Peers
                   /\ PeerAt(who)'.busy = TRUE
                   /\ \A q \in Peers : q # who => PeerAt(q)' = PeerAt(q)
      BY <1>3, EnterStep
    <2>2. /\ Writers' = Writers \cup {top} /\ top \notin Writers
          /\ \A m \in Writers : PeerOf(m)' = PeerOf(m)
          /\ PeerOf(top)' = who
      BY <2>1, WritersMoved
    <2>3. BusyPeers' = BusyPeers \cup {who} /\ who \notin BusyPeers BY <2>1 DEF BusyPeers
    <2>4. CleanedPeers' = CleanedPeers BY <2>1 DEF Stays, CleanedPeers
    <2> QED BY <2>2, <2>3, <2>4 DEF Guarded
  <1>4. CASE WriterDone
    <2> SUFFICES ASSUME NEW top, top = Len(stack), NEW who, who = id PROVE Guarded' OBVIOUS
    <2>1. PICK c : /\ Stays(c) /\ Writes(call) /\ ~Writes(c)
                   /\ who \in Peers /\ Peers' = Peers /\ PeerAt(who)'.busy = FALSE
                   /\ \A q \in Peers : q # who => PeerAt(q)' = PeerAt(q)
      BY <1>4, LeaveStep
    <2>2. /\ Writers' = Writers \ {top} /\ top \in Writers /\ PeerOf(top) = who
          /\ \A m \in Writers \ {top} : PeerOf(m)' = PeerOf(m)
      BY <2>1, WritersMoved
    <2>3. BusyPeers' = BusyPeers \ {who} BY <2>1 DEF BusyPeers
    <2>4. CleanedPeers' = CleanedPeers BY <2>1 DEF Stays, CleanedPeers
    <2> QED BY <2>2, <2>3, <2>4 DEF Guarded
  <1>5. CASE \/ SocketFails \/ Send \/ ConnectFails \/ NoCleanup \/ CloseFailed \/ InitPeer
             \/ CloseUnix \/ (\E level \in {ALERT, ERR} : SendFails(level))
    <2> SUFFICES ASSUME NEW top, top = Len(stack), NEW who, who = id PROVE Guarded' OBVIOUS
    <2>1. \E c : /\ Inside(c) /\ Peers' = Peers
                 /\ \A q \in Peers : PeerAt(q)'.busy = PeerAt(q).busy
      <3>1. CASE cycles' = cycles
        <4>1. \E c : Inside(c)
          BY <1>5, BareStep, OpenStep, CloseStep, ConnectStep, ForgetStep
        <4> QED BY <3>1, <4>1 DEF Peers, PeerAt
      <3>2. CASE InitPeer BY <3>2, ConnectStep
      <3>3. CASE CloseUnix BY <3>3, ForgetStep
      <3> QED BY <1>5, <3>1, <3>2, <3>3, BareStep, OpenStep, CloseStep
    <2>2. PICK c : /\ Inside(c) /\ Peers' = Peers
                   /\ \A q \in Peers : PeerAt(q)'.busy = PeerAt(q).busy
      BY <2>1
    <2>3. Stays(c) /\ Writes(call) /\ Writes(c) /\ c.at = call.at BY <2>2 DEF Inside
    <2>4. Writers' = Writers /\ \A m \in Writers : PeerOf(m)' = PeerOf(m)
      BY <2>3, WritersMoved
    <2>5. BusyPeers' = BusyPeers BY <2>2 DEF BusyPeers
    <2> QED BY <2>3, <2>4, <2>5, GuardKept DEF Stays
  <1> QED BY <1>1, <1>2, <1>3, <1>4, <1>5 DEF LogStep

\* No pool is being destroyed while a call is in progress.
LEMMA AtWork ==
    ASSUME TypeInv, Owned, stack # <<>>, Peers' = Peers, dying' = dying
    PROVE  /\ dying = NotDying /\ CleanedPeers = {} /\ CleanedPeers' = {}
           /\ Cleanable = {p \in Peers : p[2] \in ToSet(cycles[p[1]].cleanups)}
           /\ Cleanable' = {p \in Peers : p[2] \in ToSet(cycles'[p[1]].cleanups)}
  <1>1. dying = NotDying BY DEF Owned
  <1>2. CleanedPeers = {} /\ CleanedPeers' = {} BY <1>1 DEF CleanedPeers, NotDying
  <1>3. \A p \in Peers : p[1] # 0
    <2>1. 0 \notin DOMAIN cycles BY SeqParts DEF TypeInv, CyclesGood
    <2> QED BY <2>1, PeersIn
  <1> QED BY <1>1, <1>2, <1>3 DEF Cleanable, NotDying

\* A step that opens no socket and closes none.
LEMMA SocketsKept ==
    ASSUME Owned, Peers' = Peers, sockets' = sockets, Cleanable' = Cleanable,
           CleanedPeers' = CleanedPeers, dying = NotDying, dying' = dying,
           \A q \in Peers : PeerAt(q)'.fd = PeerAt(q).fd, Cleanable \subseteq Peers,
           Failed' = Failed,
           \A n \in Failed : PeerOf(n)' = PeerOf(n) /\ stack'[n].fd = stack[n].fd,
           \A n \in Unconnected' : \E q \in Peers : PeerOf(n)' = q /\ PeerAt(q).fd = -1
    PROVE  Owned'
  <1>2. ASSUME NEW fd \in DOMAIN sockets'
        PROVE  (\/ sockets[fd] \in Cleanable /\ PeerAt(sockets[fd]).fd = fd
                \/ \E n \in Failed : stack[n].fd = fd /\ PeerOf(n) = sockets[fd])'
    <2> SUFFICES ASSUME NEW q, q = sockets[fd]
                 PROVE  \/ q \in Cleanable' /\ PeerAt(q)'.fd = fd
                        \/ \E n \in Failed' : stack'[n].fd = fd /\ PeerOf(n)' = q
      OBVIOUS
    <2> QED BY DEF Owned
  <1>3. ASSUME NEW p \in Peers', p \notin CleanedPeers', PeerAt(p)'.fd # -1
        PROVE  PeerAt(p)'.fd \in DOMAIN sockets' /\ sockets'[PeerAt(p)'.fd] = p
    BY <1>3 DEF Owned
  <1>4. ASSUME NEW n \in Failed'
        PROVE  stack'[n].fd \in DOMAIN sockets' /\ sockets'[stack'[n].fd] = PeerOf(n)'
    BY DEF Owned
  <1>5. ASSUME NEW n \in Unconnected' PROVE PeerAt(PeerOf(n))'.fd = -1
    <2>1. PICK q \in Peers : PeerOf(n)' = q /\ PeerAt(q).fd = -1 OBVIOUS
    <2>2. PeerAt(q)'.fd = -1 BY <2>1
    <2>3. PeerAt(PeerOf(n))' = PeerAt(q)' BY <2>1 DEF PeerAt
    <2> QED BY <2>2, <2>3
  <1> QED BY <1>2, <1>3, <1>4, <1>5 DEF Owned

\* The same for the steps of a call, with what became of its place.
LEMMA QuietOwned ==
    ASSUME TypeInv, Owned, NEW c, Stays(c), Writes(c) => c.at = call.at,
           Peers' = Peers, sockets' = sockets,
           \A d \in DOMAIN cycles : cycles'[d].cleanups = cycles[d].cleanups,
           \A q \in Peers : PeerAt(q)'.fd = PeerAt(q).fd,
           Writes(call) => call.step # "failed", Writes(c) => c.step # "failed",
           NEW p, p = id, Writes(c) /\ c.step = "connect" => p \in Peers /\ PeerAt(p).fd = -1
    PROVE  Owned'
  <1> SUFFICES ASSUME NEW n, n = Len(stack) PROVE Owned' OBVIOUS
  <1>1. /\ Writers' = (Writers \ {n}) \cup {m \in {n} : Writes(c)}
        /\ \A m \in Writers \ {n} : PeerOf(m)' = PeerOf(m) /\ stack'[m] = stack[m]
        /\ stack'[n] = c /\ (Writes(c) => PeerOf(n)' = p) /\ (n \in Writers => Writes(call))
    BY WritersMoved
  <1>2. stack # <<>> /\ dying' = dying /\ SameLogs(cycles, cycles') BY DEF Stays
  <1>3. /\ dying = NotDying /\ CleanedPeers = {} /\ CleanedPeers' = {}
        /\ Cleanable = {q \in Peers : q[2] \in ToSet(cycles[q[1]].cleanups)}
        /\ Cleanable' = {q \in Peers : q[2] \in ToSet(cycles'[q[1]].cleanups)}
    BY <1>2, AtWork
  <1>4. Cleanable' = Cleanable
    <2>1. \A q \in Peers : q[1] \in DOMAIN cycles BY PeersIn
    <2> QED BY <1>3, <2>1
  <1>5. stack[n] = call BY DEF call
  <1>6. Failed' = Failed
    <2>1. n \notin Failed BY <1>1, <1>5 DEF Failed
    <2>2. n \notin Failed' BY <1>1 DEF Failed
    <2> QED BY <1>1, <2>1, <2>2 DEF Failed
  <1>7. ASSUME NEW m \in Failed PROVE PeerOf(m)' = PeerOf(m) /\ stack'[m].fd = stack[m].fd
    <2>1. m \in Writers \ {n} BY <1>1, <1>5, <1>7 DEF Failed
    <2> QED BY <1>1, <2>1
  <1>8. ASSUME NEW m \in Unconnected'
        PROVE  \E q \in Peers : PeerOf(m)' = q /\ PeerAt(q).fd = -1
    <2>1. CASE m # n
      <3>1. m \in Writers /\ m \in Unconnected BY <1>1, <1>8, <2>1 DEF Unconnected
      <3>2. PeerOf(m) \in Peers BY <3>1, WriterPeer
      <3>3. PeerAt(PeerOf(m)).fd = -1 BY <3>1 DEF Owned
      <3> QED BY <1>1, <2>1, <3>1, <3>2, <3>3
    <2>2. CASE m = n
      <3>1. Writes(c) /\ c.step = "connect" BY <1>1, <1>8, <2>2 DEF Unconnected
      <3> QED BY <3>1, <1>1, <2>2
    <2> QED BY <2>1, <2>2
  <1>9. Cleanable \subseteq Peers BY <1>3
  <1> QED BY <1>2, <1>3, <1>4, <1>6, <1>7, <1>8, <1>9, SocketsKept

LEMMA OpenOwned ==
    ASSUME TypeInv, Owned, ConnectFails \/ NoCleanup
    PROVE  Owned'
  <1> SUFFICES ASSUME NEW n, n = Len(stack), NEW p, p = id PROVE Owned' OBVIOUS
  <1>2. PICK c, f :
             /\ f \in Fds \ DOMAIN sockets
             /\ Inside(c) /\ call.step = "connect" /\ c.step = "failed" /\ c.fd = f
             /\ cycles' = cycles /\ sockets' = Opened(f)
    BY OpenStep
  <1>3. Stays(c) /\ Writes(call) /\ Writes(c) /\ c.at = call.at BY <1>2 DEF Inside
  <1>4. /\ Writers' = Writers /\ n \in Writers /\ PeerOf(n) = p
        /\ \A m \in Writers : PeerOf(m)' = PeerOf(m)
        /\ stack'[n] = c /\ \A m \in Writers \ {n} : stack'[m] = stack[m]
    BY <1>3, WritersMoved
  <1>5. Peers' = Peers /\ \A q : PeerAt(q)' = PeerAt(q) BY <1>2 DEF Peers, PeerAt
  <1>6. stack # <<>> /\ dying' = dying BY <1>3 DEF Stays
  <1>7. /\ dying = NotDying /\ CleanedPeers = {} /\ CleanedPeers' = {}
        /\ Cleanable = {q \in Peers : q[2] \in ToSet(cycles[q[1]].cleanups)}
        /\ Cleanable' = {q \in Peers : q[2] \in ToSet(cycles'[q[1]].cleanups)}
    BY <1>5, <1>6, AtWork
  <1>8. Cleanable' = Cleanable BY <1>2, <1>7
  <1>9. stack[n] = call BY DEF call
  <1>10. Failed' = Failed \cup {n} /\ n \notin Failed BY <1>2, <1>4, <1>9 DEF Failed
  <1>11. Unconnected' = Unconnected BY <1>2, <1>4, <1>9 DEF Unconnected
  <1>12. /\ DOMAIN sockets' = DOMAIN sockets \cup {f} /\ sockets'[f] = p
         /\ \A fd \in DOMAIN sockets : sockets'[fd] = sockets[fd]
    BY <1>2 DEF Opened
  <1>13. ASSUME NEW fd \in DOMAIN sockets'
         PROVE  (\/ sockets[fd] \in Cleanable /\ PeerAt(sockets[fd]).fd = fd
                 \/ \E m \in Failed : stack[m].fd = fd /\ PeerOf(m) = sockets[fd])'
    <2> SUFFICES ASSUME NEW q, q = sockets'[fd]
                 PROVE  \/ q \in Cleanable' /\ PeerAt(q)'.fd = fd
                        \/ \E m \in Failed' : stack'[m].fd = fd /\ PeerOf(m)' = q
      BY DEF PeerAt
    <2>1. CASE fd = f BY <2>1, <1>2, <1>4, <1>10, <1>12
    <2>2. CASE fd \in DOMAIN sockets
      <3>1. \/ q \in Cleanable /\ PeerAt(q).fd = fd
            \/ \E m \in Failed : stack[m].fd = fd /\ PeerOf(m) = q
        BY <2>2, <1>12 DEF Owned
      <3>2. \A m \in Failed : stack'[m] = stack[m] /\ PeerOf(m)' = PeerOf(m)
        BY <1>4, <1>10 DEF Failed
      <3> QED BY <3>1, <3>2, <1>5, <1>8, <1>10
    <2> QED BY <2>1, <2>2, <1>12
  <1>14. ASSUME NEW q \in Peers', q \notin CleanedPeers', PeerAt(q)'.fd # -1
         PROVE  PeerAt(q)'.fd \in DOMAIN sockets' /\ sockets'[PeerAt(q)'.fd] = q
    BY <1>14, <1>5, <1>7, <1>12 DEF Owned
  <1>15. ASSUME NEW m \in Failed'
         PROVE  stack'[m].fd \in DOMAIN sockets' /\ sockets'[stack'[m].fd] = PeerOf(m)'
    <2>1. CASE m = n BY <2>1, <1>2, <1>4, <1>12
    <2>2. CASE m # n
      <3>1. m \in Failed /\ stack'[m] = stack[m] /\ PeerOf(m)' = PeerOf(m)
        BY <2>2, <1>4, <1>10 DEF Failed
      <3> QED BY <3>1, <1>12 DEF Owned
    <2> QED BY <2>1, <2>2
  <1>16. ASSUME NEW m \in Unconnected' PROVE PeerAt(PeerOf(m))'.fd = -1
    <2>1. m \in Unconnected /\ PeerOf(m)' = PeerOf(m) BY <1>4, <1>11 DEF Unconnected
    <2>2. PeerAt(PeerOf(m)).fd = -1 BY <2>1 DEF Owned
    <2> QED BY <2>1, <2>2, <1>2 DEF PeerAt
  <1> QED BY <1>6, <1>7, <1>13, <1>14, <1>15, <1>16 DEF Owned

LEMMA CloseOwned ==
    ASSUME TypeInv, Guarded, Owned, CloseFailed
    PROVE  Owned'
  <1> SUFFICES ASSUME NEW n, n = Len(stack), NEW p, p = id, NEW f, f = call.fd PROVE Owned'
    OBVIOUS
  <1>1. PICK c : /\ Inside(c) /\ call.step = "failed" /\ c.step = "sent"
                 /\ cycles' = cycles /\ Close(f)
    BY CloseStep
  <1>2. Stays(c) /\ Writes(call) /\ Writes(c) /\ c.at = call.at BY <1>1 DEF Inside
  <1>3. /\ Writers' = Writers /\ n \in Writers /\ PeerOf(n) = p
        /\ \A m \in Writers : PeerOf(m)' = PeerOf(m)
        /\ stack'[n] = c /\ \A m \in Writers \ {n} : stack'[m] = stack[m]
    BY <1>2, WritersMoved
  <1>4. Peers' = Peers /\ \A q : PeerAt(q)' = PeerAt(q) BY <1>1 DEF Peers, PeerAt
  <1>5. stack # <<>> /\ dying' = dying BY <1>2 DEF Stays
  <1>6. /\ dying = NotDying /\ CleanedPeers = {} /\ CleanedPeers' = {}
        /\ Cleanable = {q \in Peers : q[2] \in ToSet(cycles[q[1]].cleanups)}
        /\ Cleanable' = {q \in Peers : q[2] \in ToSet(cycles'[q[1]].cleanups)}
    BY <1>4, <1>5, AtWork
  <1>7. Cleanable' = Cleanable BY <1>1, <1>6
  <1>8. stack[n] = call BY DEF call
  <1>9. Failed' = Failed \ {n} /\ n \in Failed BY <1>1, <1>3, <1>8 DEF Failed
  <1>10. Unconnected' \subseteq Unconnected /\ n \in Unconnected
    BY <1>1, <1>3, <1>8 DEF Unconnected
  <1>11. /\ DOMAIN sockets' = DOMAIN sockets \ {f}
         /\ \A fd \in DOMAIN sockets' : sockets'[fd] = sockets[fd]
    BY <1>1 DEF Close
  <1>12. f \in DOMAIN sockets /\ sockets[f] = p /\ PeerAt(p).fd = -1 /\ stack[n].fd = f
    BY <1>3, <1>8, <1>9, <1>10 DEF Owned
  <1>13. ASSUME NEW fd \in DOMAIN sockets'
         PROVE  (\/ sockets[fd] \in Cleanable /\ PeerAt(sockets[fd]).fd = fd
                 \/ \E m \in Failed : stack[m].fd = fd /\ PeerOf(m) = sockets[fd])'
    <2> SUFFICES ASSUME NEW q, q = sockets'[fd]
                 PROVE  \/ q \in Cleanable' /\ PeerAt(q)'.fd = fd
                        \/ \E m \in Failed' : stack'[m].fd = fd /\ PeerOf(m)' = q
      BY DEF PeerAt
    <2>1. \/ q \in Cleanable /\ PeerAt(q).fd = fd
          \/ \E m \in Failed : stack[m].fd = fd /\ PeerOf(m) = q
      BY <1>11 DEF Owned
    <2>2. \A m \in Failed : stack[m].fd = fd =>
            m # n /\ stack'[m] = stack[m] /\ PeerOf(m)' = PeerOf(m)
      BY <1>3, <1>11, <1>12 DEF Failed
    <2> QED BY <2>1, <2>2, <1>4, <1>7, <1>9
  <1>14. ASSUME NEW q \in Peers', q \notin CleanedPeers', PeerAt(q)'.fd # -1
         PROVE  PeerAt(q)'.fd \in DOMAIN sockets' /\ sockets'[PeerAt(q)'.fd] = q
    <2>1. PeerAt(q).fd \in DOMAIN sockets /\ sockets[PeerAt(q).fd] = q
      BY <1>14, <1>4, <1>6 DEF Owned
    <2>2. PeerAt(q).fd # f BY <2>1, <1>12, <1>14, <1>4
    <2> QED BY <2>1, <2>2, <1>4, <1>11
  <1>15. ASSUME NEW m \in Failed'
         PROVE  stack'[m].fd \in DOMAIN sockets' /\ sockets'[stack'[m].fd] = PeerOf(m)'
    <2>1. m \in Failed \ {n} /\ stack'[m] = stack[m] /\ PeerOf(m)' = PeerOf(m)
      BY <1>3, <1>9 DEF Failed
    <2>2. stack[m].fd \in DOMAIN sockets /\ sockets[stack[m].fd] = PeerOf(m) BY <2>1 DEF Owned
    <2>3. PeerOf(m) # p BY <2>1, <1>3 DEF Guarded, Failed
    <2>4. stack[m].fd # f BY <2>2, <2>3, <1>12
    <2> QED BY <2>1, <2>2, <2>4, <1>11
  <1>16. ASSUME NEW m \in Unconnected' PROVE PeerAt(PeerOf(m))'.fd = -1
    <2>1. m \in Unconnected /\ PeerOf(m)' = PeerOf(m) BY <1>3, <1>10 DEF Unconnected
    <2>2. PeerAt(PeerOf(m)).fd = -1 BY <2>1 DEF Owned
    <2> QED BY <2>1, <2>2, <1>1 DEF PeerAt
  <1> QED BY <1>5, <1>6, <1>13, <1>14, <1>15, <1>16 DEF Owned

LEMMA ConnectOwned ==
    ASSUME TypeInv, Guarded, Owned, InitPeer
    PROVE  Owned'
  <1> SUFFICES ASSUME NEW n, n = Len(stack), NEW p, p = id PROVE Owned' OBVIOUS
  <1>1. PICK c, f :
             /\ f \in Fds \ DOMAIN sockets
             /\ Inside(c) /\ call.step = "connect" /\ c.step = "send"
             /\ sockets' = Opened(f) /\ p \in Peers /\ Peers' = Peers
             /\ PeerAt(p)'.fd = f
             /\ \A q \in Peers : q # p => PeerAt(q)' = PeerAt(q)
             /\ ToSet(cycles'[p[1]].cleanups) = ToSet(cycles[p[1]].cleanups) \cup {p[2]}
             /\ \A d \in DOMAIN cycles : d # p[1] => cycles'[d].cleanups = cycles[d].cleanups
    BY ConnectStep
  <1>2. Stays(c) /\ Writes(call) /\ Writes(c) /\ c.at = call.at BY <1>1 DEF Inside
  <1>3. /\ Writers' = Writers /\ n \in Writers /\ PeerOf(n) = p
        /\ \A m \in Writers : PeerOf(m)' = PeerOf(m)
        /\ stack'[n] = c /\ \A m \in Writers \ {n} : stack'[m] = stack[m]
    BY <1>2, WritersMoved
  <1>4. stack # <<>> /\ dying' = dying BY <1>2 DEF Stays
  <1>5. /\ dying = NotDying /\ CleanedPeers = {} /\ CleanedPeers' = {}
        /\ Cleanable = {q \in Peers : q[2] \in ToSet(cycles[q[1]].cleanups)}
        /\ Cleanable' = {q \in Peers : q[2] \in ToSet(cycles'[q[1]].cleanups)}
    BY <1>1, <1>4, AtWork
  <1>6. Cleanable \subseteq Cleanable' /\ p \in Cleanable' /\ Cleanable \subseteq Peers
    <2>1. \A q \in Peers : q[1] \in DOMAIN cycles BY PeersIn
    <2>2. \A q \in Peers : q[2] \in ToSet(cycles[q[1]].cleanups)
                             => q[2] \in ToSet(cycles'[q[1]].cleanups)
      BY <2>1, <1>1
    <2>3. p[2] \in ToSet(cycles'[p[1]].cleanups) BY <1>1
    <2> QED BY <2>2, <2>3, <1>1, <1>5
  <1>7. stack[n] = call BY DEF call
  <1>8. Failed' = Failed /\ n \notin Failed BY <1>1, <1>3, <1>7 DEF Failed
  <1>9. Unconnected' = Unconnected \ {n} /\ n \in Unconnected
    BY <1>1, <1>3, <1>7 DEF Unconnected
  <1>10. PeerAt(p).fd = -1 BY <1>3, <1>9 DEF Owned
  <1>11. /\ DOMAIN sockets' = DOMAIN sockets \cup {f} /\ sockets'[f] = p
         /\ \A fd \in DOMAIN sockets : sockets'[fd] = sockets[fd]
    BY <1>1 DEF Opened
  <1>12. -1 \notin DOMAIN sockets BY SyslogAssumption DEF TypeInv
  <1>13. ASSUME NEW fd \in DOMAIN sockets'
         PROVE  (\/ sockets[fd] \in Cleanable /\ PeerAt(sockets[fd]).fd = fd
                 \/ \E m \in Failed : stack[m].fd = fd /\ PeerOf(m) = sockets[fd])'
    <2> SUFFICES ASSUME NEW q, q = sockets'[fd]
                 PROVE  \/ q \in Cleanable' /\ PeerAt(q)'.fd = fd
                        \/ \E m \in Failed' : stack'[m].fd = fd /\ PeerOf(m)' = q
      BY DEF PeerAt
    <2>1. CASE fd = f BY <2>1, <1>1, <1>6, <1>11
    <2>2. CASE fd \in DOMAIN sockets
      <3>1. \/ q \in Cleanable /\ PeerAt(q).fd = fd
            \/ \E m \in Failed : stack[m].fd = fd /\ PeerOf(m) = q
        BY <2>2, <1>11 DEF Owned
      <3>2. CASE q \in Cleanable /\ PeerAt(q).fd = fd
        <4>1. q # p BY <3>2, <2>2, <1>10, <1>12
        <4> QED BY <3>2, <4>1, <1>1, <1>6
      <3>3. CASE \E m \in Failed : stack[m].fd = fd /\ PeerOf(m) = q
        <4>1. \A m \in Failed : stack'[m] = stack[m] /\ PeerOf(m)' = PeerOf(m)
          BY <1>3, <1>8 DEF Failed
        <4> QED BY <3>3, <4>1, <1>8
      <3> QED BY <3>1, <3>2, <3>3
    <2> QED BY <2>1, <2>2, <1>11
  <1>14. ASSUME NEW q \in Peers', q \notin CleanedPeers', PeerAt(q)'.fd # -1
         PROVE  PeerAt(q)'.fd \in DOMAIN sockets' /\ sockets'[PeerAt(q)'.fd] = q
    <2>1. CASE q = p BY <2>1, <1>1, <1>11
    <2>2. CASE q # p
      <3>1. PeerAt(q)' = PeerAt(q) /\ q \in Peers BY <2>2, <1>1
      <3>2. PeerAt(q).fd \in DOMAIN sockets /\ sockets[PeerAt(q).fd] = q
        BY <3>1, <1>14, <1>5 DEF Owned
      <3> QED BY <3>1, <3>2, <1>11
    <2> QED BY <2>1, <2>2
  <1>15. ASSUME NEW m \in Failed'
         PROVE  stack'[m].fd \in DOMAIN sockets' /\ sockets'[stack'[m].fd] = PeerOf(m)'
    <2>1. m \in Failed /\ stack'[m] = stack[m] /\ PeerOf(m)' = PeerOf(m)
      BY <1>3, <1>8 DEF Failed
    <2> QED BY <2>1, <1>11 DEF Owned
  <1>16. ASSUME NEW m \in Unconnected' PROVE PeerAt(PeerOf(m))'.fd = -1
    <2> SUFFICES ASSUME NEW q, q = PeerOf(m)' PROVE PeerAt(q)'.fd = -1
      BY DEF PeerAt
    <2>1. m \in Unconnected \ {n} /\ m \in Writers /\ q = PeerOf(m)
      BY <1>3, <1>9 DEF Unconnected
    <2>2. q # p BY <2>1, <1>3 DEF Guarded
    <2>3. PeerAt(q).fd = -1 BY <2>1 DEF Owned
    <2>4. q \in Peers BY <2>1, WriterPeer
    <2> QED BY <2>2, <2>3, <2>4, <1>1
  <1> QED BY <1>4, <1>5, <1>13, <1>14, <1>15, <1>16 DEF Owned

LEMMA ForgetOwned ==
    ASSUME TypeInv, Guarded, Owned, CloseUnix
    PROVE  Owned'
  <1> SUFFICES ASSUME NEW n, n = Len(stack), NEW p, p = id, NEW f, f = PeerAt(p).fd
               PROVE  Owned'
    OBVIOUS
  <1>1. PICK c :
             /\ Inside(c) /\ call.step = "close" /\ c.step = "sent"
             /\ Close(f) /\ p \in Peers /\ Peers' = Peers /\ PeerAt(p)'.fd = -1
             /\ \A q \in Peers : q # p => PeerAt(q)' = PeerAt(q)
             /\ \A d \in DOMAIN cycles : cycles'[d].cleanups = cycles[d].cleanups
    BY ForgetStep
  <1>2. Stays(c) /\ Writes(call) /\ Writes(c) /\ c.at = call.at BY <1>1 DEF Inside
  <1>3. /\ Writers' = Writers /\ n \in Writers /\ PeerOf(n) = p
        /\ \A m \in Writers : PeerOf(m)' = PeerOf(m)
        /\ stack'[n] = c /\ \A m \in Writers \ {n} : stack'[m] = stack[m]
    BY <1>2, WritersMoved
  <1>4. stack # <<>> /\ dying' = dying BY <1>2 DEF Stays
  <1>5. /\ dying = NotDying /\ CleanedPeers = {} /\ CleanedPeers' = {}
        /\ Cleanable = {q \in Peers : q[2] \in ToSet(cycles[q[1]].cleanups)}
        /\ Cleanable' = {q \in Peers : q[2] \in ToSet(cycles'[q[1]].cleanups)}
    BY <1>1, <1>4, AtWork
  <1>6. Cleanable' = Cleanable /\ Cleanable \subseteq Peers
    <2>1. \A q \in Peers : q[1] \in DOMAIN cycles BY PeersIn
    <2> QED BY <2>1, <1>1, <1>5
  <1>7. stack[n] = call BY DEF call
  <1>8. Failed' = Failed /\ n \notin Failed BY <1>1, <1>3, <1>7 DEF Failed
  <1>9. Unconnected' = Unconnected BY <1>1, <1>3, <1>7 DEF Unconnected
  <1>10. f # -1 => f \in DOMAIN sockets /\ sockets[f] = p BY <1>1, <1>5 DEF Owned
  <1>11. /\ DOMAIN sockets' = DOMAIN sockets \ {f}
         /\ \A fd \in DOMAIN sockets' : sockets'[fd] = sockets[fd]
    BY <1>1 DEF Close
  <1>12. -1 \notin DOMAIN sockets BY SyslogAssumption DEF TypeInv
  <1>13. ASSUME NEW fd \in DOMAIN sockets'
         PROVE  (\/ sockets[fd] \in Cleanable /\ PeerAt(sockets[fd]).fd = fd
                 \/ \E m \in Failed : stack[m].fd = fd /\ PeerOf(m) = sockets[fd])'
    <2> SUFFICES ASSUME NEW q, q = sockets'[fd]
                 PROVE  \/ q \in Cleanable' /\ PeerAt(q)'.fd = fd
                        \/ \E m \in Failed' : stack'[m].fd = fd /\ PeerOf(m)' = q
      BY DEF PeerAt
    <2>1. \/ q \in Cleanable /\ PeerAt(q).fd = fd
          \/ \E m \in Failed : stack[m].fd = fd /\ PeerOf(m) = q
      BY <1>11 DEF Owned
    <2>2. CASE q \in Cleanable /\ PeerAt(q).fd = fd
      <3>1. q # p BY <2>2, <1>11
      <3> QED BY <2>2, <3>1, <1>1, <1>6
    <2>3. CASE \E m \in Failed : stack[m].fd = fd /\ PeerOf(m) = q
      <3>1. \A m \in Failed : stack'[m] = stack[m] /\ PeerOf(m)' = PeerOf(m)
        BY <1>3, <1>8 DEF Failed
      <3> QED BY <2>3, <3>1, <1>8
    <2> QED BY <2>1, <2>2, <2>3
  <1>14. ASSUME NEW q \in Peers', q \notin CleanedPeers', PeerAt(q)'.fd # -1
         PROVE  PeerAt(q)'.fd \in DOMAIN sockets' /\ sockets'[PeerAt(q)'.fd] = q
    <2>1. q # p /\ q \in Peers /\ PeerAt(q)' = PeerAt(q) BY <1>14, <1>1
    <2>2. PeerAt(q).fd \in DOMAIN sockets /\ sockets[PeerAt(q).fd] = q
      BY <2>1, <1>14, <1>5 DEF Owned
    <2>3. PeerAt(q).fd # f BY <2>1, <2>2, <1>10, <1>14
    <2> QED BY <2>1, <2>2, <2>3, <1>11
  <1>15. ASSUME NEW m \in Failed'
         PROVE  stack'[m].fd \in DOMAIN sockets' /\ sockets'[stack'[m].fd] = PeerOf(m)'
    <2>1. m \in Failed /\ m # n /\ stack'[m] = stack[m] /\ PeerOf(m)' = PeerOf(m)
      BY <1>3, <1>8 DEF Failed
    <2>2. stack[m].fd \in DOMAIN sockets /\ sockets[stack[m].fd] = PeerOf(m) BY <2>1 DEF Owned
    <2>3. PeerOf(m) # p BY <2>1, <1>3 DEF Guarded, Failed
    <2>4. stack[m].fd # f BY <2>2, <2>3, <1>10, <1>12
    <2> QED BY <2>1, <2>2, <2>4, <1>11
  <1>16. ASSUME NEW m \in Unconnected' PROVE PeerAt(PeerOf(m))'.fd = -1
    <2> SUFFICES ASSUME NEW q, q = PeerOf(m)' PROVE PeerAt(q)'.fd = -1
      BY DEF PeerAt
    <2>1. m \in Unconnected /\ m \in Writers /\ q = PeerOf(m) BY <1>3, <1>9 DEF Unconnected
    <2>2. PeerAt(q).fd = -1 BY <2>1 DEF Owned
    <2>3. q \in Peers BY <2>1, WriterPeer
    <2> QED BY <2>2, <2>3, <1>1
  <1> QED BY <1>4, <1>5, <1>13, <1>14, <1>15, <1>16 DEF Owned

LEMMA LogOwned ==
    ASSUME TypeInv, Guarded, Owned, LogStep
    PROVE  Owned'
  <1> SUFFICES ASSUME NEW p, p = id PROVE Owned' OBVIOUS
  <1>0. CyclesGood(cycles) BY DEF TypeInv
  <1>1. CASE SkipFullDisk \/ (\E full \in BOOLEAN : WriteFile(full)) \/ EndWalk \/ WriterBusy
    <2>1. PICK c : /\ Stays(c) /\ ~Writes(call) /\ ~Writes(c) /\ SamePeers /\ sockets' = sockets
      BY <1>1, QuietStep
    <2>2. Peers' = Peers BY <1>0, <2>1, PeersSame DEF Stays
    <2>3. \A q \in Peers : PeerAt(q)'.fd = PeerAt(q).fd
      BY <2>1, PeersIn DEF SamePeers, PeerAt
    <2>4. \A d \in DOMAIN cycles : cycles'[d].cleanups = cycles[d].cleanups
      BY <2>1 DEF SamePeers
    <2> QED BY <2>1, <2>2, <2>3, <2>4, QuietOwned
  <1>2. CASE Return
    <2>1. /\ DOMAIN stack' \subseteq DOMAIN stack /\ stack # <<>>
          /\ \A m \in DOMAIN stack' : stack'[m] = stack[m]
          /\ Writers' = Writers /\ \A m \in Writers : PeerOf(m)' = PeerOf(m)
          /\ UNCHANGED <<cycles, dying, sockets>>
      BY <1>2, ReturnStep
    <2>2. \A m \in Writers : stack'[m] = stack[m]
      <3>1. Writers' \subseteq DOMAIN stack' BY DEF Writers
      <3> QED BY <2>1, <3>1
    <2>3. Peers' = Peers /\ (\A q : PeerAt(q)' = PeerAt(q)) /\ Cleanable' = Cleanable
          /\ CleanedPeers' = CleanedPeers
      BY <2>1 DEF Peers, PeerAt, Cleanable, CleanedPeers
    <2>4. Failed' = Failed /\ Unconnected' = Unconnected
      BY <2>1, <2>2 DEF Failed, Unconnected
    <2>5. dying = NotDying /\ Cleanable \subseteq Peers BY <2>1 DEF Owned, Cleanable
    <2>6. ASSUME NEW m \in Unconnected'
          PROVE  \E q \in Peers : PeerOf(m)' = q /\ PeerAt(q).fd = -1
      <3>1. m \in Writers /\ m \in Unconnected /\ PeerOf(m)' = PeerOf(m)
        BY <2>1, <2>4 DEF Unconnected
      <3>2. PeerOf(m) \in Peers /\ PeerAt(PeerOf(m)).fd = -1 BY <3>1, WriterPeer DEF Owned
      <3> QED BY <3>1, <3>2
    <2>7. \A m \in Failed : PeerOf(m)' = PeerOf(m) /\ stack'[m].fd = stack[m].fd
      BY <2>1, <2>2 DEF Failed
    <2> QED BY <2>1, <2>3, <2>4, <2>5, <2>6, <2>7, SocketsKept
  <1>3. CASE SyslogWriter
    <2>1. PICK c : /\ Stays(c) /\ ~Writes(call) /\ Writes(c) /\ c.at = call.at
                   /\ c.step # "failed" /\ (c.step = "connect" => PeerAt(p).fd = -1)
                   /\ p \in Peers /\ Peers' = Peers /\ PeerAt(p)'.fd = PeerAt(p).fd
                   /\ \A q \in Peers : q # p => PeerAt(q)' = PeerAt(q)
                   /\ \A d \in DOMAIN cycles : cycles'[d].cleanups = cycles[d].cleanups
                   /\ sockets' = sockets
      BY <1>3, EnterStep
    <2>2. \A q \in Peers : PeerAt(q)'.fd = PeerAt(q).fd BY <2>1
    <2> QED BY <2>1, <2>2, QuietOwned
  <1>4. CASE WriterDone
    <2>1. PICK c : /\ Stays(c) /\ ~Writes(c) /\ call.step = "sent"
                   /\ p \in Peers /\ Peers' = Peers /\ PeerAt(p)'.fd = PeerAt(p).fd
                   /\ \A q \in Peers : q # p => PeerAt(q)' = PeerAt(q)
                   /\ \A d \in DOMAIN cycles : cycles'[d].cleanups = cycles[d].cleanups
                   /\ sockets' = sockets
      BY <1>4, LeaveStep
    <2>2. \A q \in Peers : PeerAt(q)'.fd = PeerAt(q).fd BY <2>1
    <2> QED BY <2>1, <2>2, QuietOwned
  <1>5. CASE SocketFails \/ Send \/ (\E level \in {ALERT, ERR} : SendFails(level))
    <2>1. PICK c : /\ Inside(c) /\ c.step \in {"sent", "close"}
                   /\ call.step \in {"connect", "send"}
                   /\ cycles' = cycles /\ sockets' = sockets
      BY <1>5, BareStep
    <2>2. Peers' = Peers /\ \A q : PeerAt(q)' = PeerAt(q) BY <2>1 DEF Peers, PeerAt
    <2>3. Stays(c) /\ c.at = call.at BY <2>1 DEF Inside
    <2> QED BY <2>1, <2>2, <2>3, QuietOwned
  <1> QED BY <1>1, <1>2, <1>3, <1>4, <1>5, OpenOwned, CloseOwned, ConnectOwned, ForgetOwned
          DEF LogStep

-----------------------------------------------------------------------------
(* The steps between the calls.                                             *)

\* The stack is empty, or a call of another part is the only one.
LEMMA FirstCall ==
    ASSUME stack = <<>>, NEW c, NEW level, LiveIn(cycles', c),
           stack' = stack \/ stack' = LogError(stack, c, level)
    PROVE  /\ IsSeq(stack') /\ \A n \in DOMAIN stack' : GoodCall(cycles', stack'[n])
           /\ Writers' = {}
  <1>1. CASE stack' = <<>> BY <1>1 DEF IsSeq, Writers
  <1>2. CASE stack' = Append(<<>>, NewCall(c, level))
    <2> DEFINE d == NewCall(c, level)
    <2>1. GoodCall(cycles', d) /\ ~Writes(d) BY NewCallGood
    <2> HIDE DEF d
    <2>2. stack' = Append(<<>>, d) BY <1>2 DEF d
    <2>3. IsSeq(<<>>) /\ Len(<<>>) = 0 /\ DOMAIN <<>> = {} BY DEF IsSeq
    <2>4. IsSeq(stack') /\ DOMAIN stack' = {1} /\ stack'[1] = d
      <3> DEFINE e == <<>>
      <3>1. stack' = Append(e, d) /\ IsSeq(e) /\ Len(e) = 0 /\ DOMAIN e = {} BY <2>2, <2>3
      <3> HIDE DEF e
      <3>2. /\ IsSeq(stack') /\ DOMAIN stack' = DOMAIN e \cup {Len(e) + 1}
            /\ stack'[Len(e) + 1] = d
        BY <3>1, SeqAppend
      <3> QED BY <3>1, <3>2
    <2> QED BY <2>1, <2>4 DEF Writers, InWriter, Writes
  <1> QED BY <1>1, <1>2 DEF LogError

\* What Owned says while no call is in progress.
Calm ==
    /\ \A fd \in DOMAIN sockets : \E p \in Cleanable : sockets[fd] = p /\ PeerAt(p).fd = fd
    /\ \A p \in Peers \ CleanedPeers :
         PeerAt(p).fd # -1 => PeerAt(p).fd \in DOMAIN sockets /\ sockets[PeerAt(p).fd] = p

LEMMA NoCalls ==
    ASSUME Guarded, stack = <<>>
    PROVE  BusyPeers = CleanedPeers /\ (Owned => Calm)
  <1>1. Writers = {} BY DEF Writers
  <1>2. Failed = {} BY <1>1 DEF Failed
  <1>3. BusyPeers = CleanedPeers BY <1>1 DEF Guarded
  <1> QED BY <1>2, <1>3 DEF Owned, Calm

LEMMA NoCallsNext ==
    ASSUME Writers' = {}, BusyPeers' = CleanedPeers'
    PROVE  Guarded' /\ (Calm' /\ (dying' # NotDying => stack' = <<>>) => Owned')
  <1>1. Guarded' BY DEF Guarded
  <1>2. ASSUME Calm', dying' # NotDying => stack' = <<>> PROVE Owned'
    <2>1. Failed' = {} /\ Unconnected' = {} BY DEF Failed, Unconnected
    <2>2. \A fd \in DOMAIN sockets' :
            (sockets[fd] \in Cleanable /\ PeerAt(sockets[fd]).fd = fd)'
      BY <1>2 DEF Calm, PeerAt
    <2> QED BY <1>2, <2>1, <2>2 DEF Owned, Calm
  <1> QED BY <1>1, <1>2

\* A step of a reload that destroys nothing.
LEMMA ReloadKept ==
    ASSUME TypeInv, Guarded, Idle, dying' = dying, Writers' = {}, sockets' = sockets,
           \A q \in Peers : /\ q \in Peers' /\ PeerAt(q)' = PeerAt(q)
                            /\ cycles'[q[1]].cleanups = cycles[q[1]].cleanups,
           \A q \in Peers' \ Peers : PeerAt(q)'.fd = -1 /\ ~PeerAt(q)'.busy
    PROVE  Guarded' /\ (Owned => Owned')
  <1>1. stack = <<>> /\ dying = NotDying BY DEF Idle
  <1>2. CleanedPeers = {} /\ CleanedPeers' = {} BY <1>1 DEF CleanedPeers, NotDying
  <1>3. BusyPeers = {} /\ (Owned => Calm) BY <1>1, <1>2, NoCalls
  <1>4. BusyPeers' = {} BY <1>3 DEF BusyPeers
  <1>5. ASSUME Calm PROVE Calm'
    <2>1. Cleanable \subseteq Cleanable'
      <3>1. Cleanable \subseteq Peers BY DEF Cleanable
      <3> QED BY <3>1 DEF Cleanable
    <2>2. ASSUME NEW fd \in DOMAIN sockets'
          PROVE  \E p \in Cleanable' : sockets'[fd] = p /\ PeerAt(p)'.fd = fd
      <3>1. PICK p \in Cleanable : sockets[fd] = p /\ PeerAt(p).fd = fd BY <1>5 DEF Calm
      <3>2. p \in Peers BY DEF Cleanable
      <3> QED BY <3>1, <3>2, <2>1
    <2>3. ASSUME NEW p \in Peers', PeerAt(p)'.fd # -1
          PROVE  PeerAt(p)'.fd \in DOMAIN sockets' /\ sockets'[PeerAt(p)'.fd] = p
      <3>1. p \in Peers /\ PeerAt(p)' = PeerAt(p) BY <2>3
      <3> QED BY <3>1, <2>3, <1>2, <1>5 DEF Calm
    <2> QED BY <2>2, <2>3 DEF Calm
  <1> QED BY <1>1, <1>2, <1>3, <1>4, <1>5, NoCallsNext

\* A pool begins to be destroyed.
LEMMA DestroyKept ==
    ASSUME TypeInv, Guarded, Idle, NEW c, Live(c), dying' = Destroying(c),
           UNCHANGED <<cycles, sockets, stack>>
    PROVE  Guarded' /\ (Owned => Owned')
  <1>1. stack = <<>> /\ dying = NotDying BY DEF Idle
  <1>2. CleanedPeers = {} /\ CleanedPeers' = {} BY <1>1 DEF CleanedPeers, NotDying, Destroying
  <1>3. BusyPeers = {} /\ (Owned => Calm) BY <1>1, <1>2, NoCalls
  <1>4. Peers' = Peers /\ (\A q : PeerAt(q)' = PeerAt(q)) /\ BusyPeers' = {}
    BY <1>3 DEF Peers, PeerAt, BusyPeers
  <1>5. Cleanable' = Cleanable
    <2>1. \A p \in Peers : p[1] # 0
      <3>1. 0 \notin DOMAIN cycles BY SeqParts DEF TypeInv, CyclesGood
      <3> QED BY <3>1, PeersIn
    <2> QED BY <1>1, <1>4, <2>1 DEF Cleanable, Destroying, NotDying
  <1>6. Calm => Calm' BY <1>2, <1>4, <1>5 DEF Calm
  <1>7. Writers' = {} BY <1>1 DEF Writers
  <1> QED BY <1>1, <1>2, <1>3, <1>4, <1>6, <1>7, NoCallsNext

\* Types in a step of a reload that destroys nothing.
LEMMA ReloadTypes ==
    ASSUME TypeInv, Idle, dying' = dying, sockets' = sockets, CyclesGood(cycles'), ReloadRight',
           IsSeq(stack'), \A n \in DOMAIN stack' : GoodCall(cycles', stack'[n])
    PROVE  TypeInv'
  <1>1. dying' = NotDying BY DEF Idle
  <1>2. DyingRight' BY <1>1 DEF DyingRight, NotDying
  <1> QED BY <1>2 DEF TypeInv

\* What others say and do while the cycles stay as they are.
LEMMA OthersStep ==
    ASSUME TypeInv, Guarded,
           \/ \E c \in DOMAIN cycles, level \in Levels : Message(c, level)
           \/ Tick \/ Fail \/ Retire
    PROVE  TypeInv' /\ Guarded' /\ (Owned => Owned') /\ doubled' = doubled
  <1>1. Idle /\ stack = <<>> /\ UNCHANGED <<cycles, dying, sockets, doubled>>
    BY DEF Message, Tick, Fail, Retire, Idle
  <1>2. Peers' = Peers /\ \A q : PeerAt(q)' = PeerAt(q) BY <1>1 DEF Peers, PeerAt
  <1>3. CyclesGood(cycles) /\ ReloadRight BY DEF TypeInv
  <1>4. ReloadRight'
    <2>1. \A c : Live(c)' <=> Live(c) BY <1>1 DEF Live
    <2>2. CASE \/ \E c \in DOMAIN cycles, level \in Levels : Message(c, level)
               \/ Tick
      <3>1. UNCHANGED <<hky_cycle, reload>> BY <2>2 DEF Message, Tick
      <3> QED BY <1>3, <2>1, <3>1 DEF ReloadRight
    <2>3. CASE Fail
      <3> DEFINE r == [reload EXCEPT !.phase = "failed"]
      <3>1. reload' = r /\ hky_cycle' = hky_cycle /\ reload.phase \in {"conf", "made"}
        BY <2>3 DEF Fail
      <3>2. reload = [phase |-> reload.phase, cycle |-> reload.cycle, left |-> reload.left]
        BY <1>3 DEF ReloadRight
      <3>3. r = [phase |-> "failed", cycle |-> reload.cycle, left |-> reload.left] BY <3>2
      <3> HIDE DEF r
      <3>4. r.phase = "failed" /\ r.cycle = reload.cycle /\ r.left = reload.left BY <3>3
      <3>5. Live(reload.cycle) /\ reload.cycle # hky_cycle /\ Live(hky_cycle)
        BY <1>3, <3>1 DEF ReloadRight
      <3> QED BY <2>1, <3>1, <3>3, <3>4, <3>5 DEF ReloadRight
    <2>4. CASE Retire
      <3>1. hky_cycle' = reload.cycle /\ reload' = NoReload /\ reload.phase = "made"
        BY <2>4 DEF Retire
      <3>2. Live(reload.cycle) BY <1>3, <3>1 DEF ReloadRight
      <3> QED BY <2>1, <3>1, <3>2 DEF ReloadRight, NoReload
    <2> QED BY <2>2, <2>3, <2>4
  <1>5. /\ IsSeq(stack') /\ \A n \in DOMAIN stack' : GoodCall(cycles', stack'[n])
        /\ Writers' = {}
    <2>1. CASE Fail
      <3>1. LiveIn(cycles', hky_cycle) BY <1>1, <1>3 DEF ReloadRight, Live
      <3> QED BY <2>1, <3>1, <1>1, FirstCall DEF Fail
    <2>2. CASE \E c \in DOMAIN cycles, level \in Levels : Message(c, level)
      <3>1. PICK c \in DOMAIN cycles, level \in Levels : Message(c, level) BY <2>2
      <3>2. LiveIn(cycles', c) BY <3>1, <1>1, <1>3 DEF Message, Speaking, CyclesGood, LiveIn
      <3> QED BY <3>1, <3>2, <1>1, FirstCall DEF Message
    <2>3. CASE Tick \/ Retire
      <3>1. stack' = stack BY <2>3 DEF Tick, Retire
      <3>2. LiveIn(cycles', hky_cycle) BY <1>1, <1>3 DEF ReloadRight, Live
      <3> QED BY <3>1, <3>2, <1>1, FirstCall
    <2> QED BY <2>1, <2>2, <2>3
  <1>6. TypeInv' BY <1>1, <1>3, <1>4, <1>5, ReloadTypes
  <1>7. Guarded' /\ (Owned => Owned') BY <1>1, <1>2, <1>5, ReloadKept
  <1> QED BY <1>1, <1>6, <1>7

LEMMA OneLog ==
    ASSUME NEW l, IsLog(l), l.next = 0, l.peer = 0, NEW conf
    PROVE  LET c == [conf |-> conf, logs |-> <<l>>, peers |-> <<>>, cleanups |-> <<>>] IN
           GoodCycle(c) /\ DOMAIN c.peers = {}
  <1> DEFINE logs == <<l>>
             c == [conf |-> conf, logs |-> logs, peers |-> <<>>, cleanups |-> <<>>]
  <1>1. DOMAIN <<>> = {} /\ <<>> \in Seq(DOMAIN <<>>) /\ IsSeq(<<>>) /\ Len(<<>>) = 0 BY DEF IsSeq
  <1>2. IsSeq(logs) /\ Len(logs) = 1 /\ DOMAIN logs = {1} /\ logs[1] = l BY DEF IsSeq
  <1> HIDE DEF logs
  <1>3. Acyclic(logs)
    <2> SUFFICES ASSUME NEW S \in SUBSET DOMAIN logs, S # {}
                 PROVE  \E j \in S : logs[j].next \notin S
      BY DEF Acyclic
    <2>1. 1 \in S /\ 0 \notin S BY <1>2
    <2> QED BY <2>1, <1>2
  <1>4. GoodLogs(logs, <<>>) BY <1>1, <1>2, <1>3 DEF GoodLogs
  <1>5. GoodCycle(c) BY <1>1, <1>4 DEF GoodCycle
  <1> QED BY <1>1, <1>5 DEF logs

LEMMA NewLogs ==
    ASSUME NEW k, NEW level, NEW name
    PROVE  /\ IsLog(NewLog) /\ NewLog.next = 0 /\ NewLog.peer = 0
           /\ IsLog(PeerLog(k, level)) /\ PeerLog(k, level).next = 0 /\ PeerLog(k, level).peer = k
           /\ IsLog(FileLog(name, level)) /\ FileLog(name, level).next = 0
           /\ FileLog(name, level).peer = 0
  <1>1. NewLog = [log_level |-> 0, file |-> NoFile, peer |-> 0, next |-> 0,
                  disk_full_time |-> 0]
    BY DEF NewLog
  <1>2. PeerLog(k, level) = [log_level |-> level, file |-> NoFile, peer |-> k, next |-> 0,
                             disk_full_time |-> 0]
    <2> DEFINE one == [NewLog EXCEPT !.peer = k]
               two == [one EXCEPT !.log_level = level]
    <2>1. PeerLog(k, level) = two BY Zenon DEF PeerLog
    <2>2. one = [log_level |-> 0, file |-> NoFile, peer |-> k, next |-> 0, disk_full_time |-> 0]
      BY <1>1
    <2> HIDE DEF one
    <2>3. two = [log_level |-> level, file |-> NoFile, peer |-> k, next |-> 0,
                 disk_full_time |-> 0]
      BY <2>2
    <2> HIDE DEF two
    <2> QED BY <2>1, <2>3
  <1>3. FileLog(name, level) = [log_level |-> level, file |-> name, peer |-> 0, next |-> 0,
                                disk_full_time |-> 0]
    <2> DEFINE one == [NewLog EXCEPT !.file = name]
               two == [one EXCEPT !.log_level = level]
    <2>1. FileLog(name, level) = two BY Zenon DEF FileLog
    <2>2. one = [log_level |-> 0, file |-> name, peer |-> 0, next |-> 0, disk_full_time |-> 0]
      BY <1>1
    <2> HIDE DEF one
    <2>3. two = [log_level |-> level, file |-> name, peer |-> 0, next |-> 0,
                 disk_full_time |-> 0]
      BY <2>2
    <2> HIDE DEF two
    <2> QED BY <2>1, <2>3
  <1>4. ASSUME NEW l, NEW w, NEW f, NEW p,
               l = [log_level |-> w, file |-> f, peer |-> p, next |-> 0, disk_full_time |-> 0]
        PROVE  IsLog(l) /\ l.next = 0 /\ l.peer = p
    <2>1. l.log_level = w /\ l.file = f /\ l.peer = p /\ l.next = 0 /\ l.disk_full_time = 0
      BY <1>4
    <2> QED BY <1>4, <2>1 DEF IsLog
  <1> QED BY <1>1, <1>2, <1>3, <1>4

\* What a directive may do to the cycle that is being loaded.
Grows(c, e) ==
    /\ GoodCycle(e) /\ e.cleanups = c.cleanups
    /\ \A k \in DOMAIN c.peers : k \in DOMAIN e.peers /\ e.peers[k] = c.peers[k]
    /\ \A k \in DOMAIN e.peers \ DOMAIN c.peers : e.peers[k].fd = -1 /\ ~e.peers[k].busy

LEMMA LogsGrow ==
    ASSUME NEW c, GoodCycle(c), NEW logs, GoodLogs(logs, c.peers)
    PROVE  Grows(c, [c EXCEPT !.logs = logs])
  <1> DEFINE e == [c EXCEPT !.logs = logs]
  <1>1. e = [conf |-> c.conf, logs |-> logs, peers |-> c.peers, cleanups |-> c.cleanups]
    BY CycleFields
  <1> HIDE DEF e
  <1>2. e.conf = c.conf /\ e.logs = logs /\ e.peers = c.peers /\ e.cleanups = c.cleanups BY <1>1
  <1>3. GoodCycle(e) BY <1>1, <1>2 DEF GoodCycle
  <1> QED BY <1>2, <1>3 DEF Grows, e

LEMMA SetLogGrows ==
    ASSUME NEW c, GoodCycle(c), NEW directive
    PROVE  Grows(c, SetLog(c, directive))
  <1> DEFINE level == SetLevels(directive.words)
  <1>1. /\ IsSeq(c.peers) /\ GoodLogs(c.logs, c.peers) /\ c.cleanups \in Seq(DOMAIN c.peers)
        /\ \A k \in DOMAIN c.peers : IsPeer(c.peers[k])
    BY DEF GoodCycle
  <1>2. Len(c.peers) \in Nat /\ DOMAIN c.peers = 1..Len(c.peers) BY <1>1, SeqParts
  <1>3. CASE directive.to # "syslog"
    <2> DEFINE x == FileLog(directive.file, level)
               logs == AddLog(c.logs, x)
    <2>1. SetLog(c, directive) = [c EXCEPT !.logs = logs] BY <1>3 DEF SetLog
    <2>2. IsLog(x) /\ x.next = 0 /\ x.peer \in 0..Len(c.peers) BY <1>2, NewLogs
    <2> HIDE DEF x
    <2>3. GoodLogs(logs, c.peers) BY <1>1, <1>2, <2>2, AddLogGood
    <2> HIDE DEF logs
    <2> QED BY <2>1, <2>3, LogsGrow
  <1>4. CASE directive.to = "syslog"
    <2> DEFINE new == SyslogPeer(directive.args)
               k == Len(c.peers) + 1
               x == PeerLog(k, level)
               peers == Append(c.peers, new)
               logs == AddLog(c.logs, x)
               e == SetLog(c, directive)
    <2>1. e = [conf |-> c.conf, logs |-> logs, peers |-> peers, cleanups |-> c.cleanups]
      <3>1. c = [conf |-> c.conf, logs |-> c.logs, peers |-> c.peers, cleanups |-> c.cleanups]
        BY DEF GoodCycle
      <3>2. e = [c EXCEPT !.peers = peers, !.logs = logs] BY <1>4, Zenon DEF SetLog
      <3> HIDE DEF e, peers, logs
      <3> QED BY <3>1, <3>2
    <2>2. IsPeer(new) /\ new.fd = -1 /\ ~new.busy BY DEF SyslogPeer, IsPeer
    <2> HIDE DEF new
    <2>3. /\ IsSeq(peers) /\ Len(peers) = k /\ DOMAIN peers = DOMAIN c.peers \cup {k}
          /\ k \notin DOMAIN c.peers /\ peers[k] = new
          /\ \A j \in DOMAIN c.peers : peers[j] = c.peers[j]
      BY <1>1, SeqAppend
    <2> HIDE DEF peers
    <2>4. IsLog(x) /\ x.next = 0 /\ x.peer \in 0..Len(peers)
      <3>1. k \in 0..k BY <1>2
      <3> QED BY <3>1, <2>3, NewLogs
    <2>5. GoodLogs(c.logs, peers)
      <3>1. Len(peers) = Len(c.peers) + 1 BY <2>3
      <3> QED BY <1>1, <1>2, <3>1 DEF GoodLogs
    <2> HIDE DEF x
    <2>6. GoodLogs(logs, peers)
      <3>1. Len(peers) \in Nat BY <1>2, <2>3
      <3> QED BY <2>4, <2>5, <3>1, AddLogGood
    <2> HIDE DEF logs, e, k
    <2>7. e.conf = c.conf /\ e.logs = logs /\ e.peers = peers /\ e.cleanups = c.cleanups BY <2>1
    <2>8. GoodCycle(e)
      <3>1. e.cleanups \in Seq(DOMAIN e.peers)
        <4>1. DOMAIN c.peers \subseteq DOMAIN peers BY <2>3
        <4> QED BY <1>1, <2>7, <4>1
      <3>2. \A j \in DOMAIN e.peers : IsPeer(e.peers[j]) BY <1>1, <2>2, <2>3, <2>7
      <3> QED BY <2>1, <2>3, <2>6, <2>7, <3>1, <3>2 DEF GoodCycle
    <2>9. Grows(c, e) BY <2>2, <2>3, <2>7, <2>8 DEF Grows
    <2> QED BY <2>9 DEF e
  <1> QED BY <1>3, <1>4

LEMMA OpenDefaultGrows ==
    ASSUME NEW c, GoodCycle(c)
    PROVE  Grows(c, [c EXCEPT !.logs = LogOpenDefault(c.logs)])
  <1> DEFINE x == FileLog(DefaultFile, ERR)
             logs == LogOpenDefault(c.logs)
  <1>1. IsSeq(c.peers) /\ GoodLogs(c.logs, c.peers) BY DEF GoodCycle
  <1>2. Len(c.peers) \in Nat BY <1>1, SeqParts
  <1>3. logs = c.logs \/ logs = AddLog(c.logs, x) BY DEF LogOpenDefault
  <1>4. IsLog(x) /\ x.next = 0 /\ x.peer \in 0..Len(c.peers) BY <1>2, NewLogs
  <1> HIDE DEF x, logs
  <1>5. GoodLogs(logs, c.peers) BY <1>1, <1>2, <1>3, <1>4, AddLogGood
  <1>6. Grows(c, [c EXCEPT !.logs = logs]) BY <1>5, LogsGrow
  <1> QED BY <1>6 DEF logs

LEMMA PeersInNext ==
    ASSUME NEW p
    PROVE  p \in Peers' <=> \E c \in DOMAIN cycles' : \E k \in DOMAIN cycles'[c].peers : p = <<c, k>>
  BY DEF Peers

LEMMA CycleSet ==
    ASSUME NEW cs, CyclesGood(cs), NEW c \in DOMAIN cs, NEW new, new = Gone \/ GoodCycle(new),
           NEW ds, ds = WithCycle(cs, c, new)
    PROVE  /\ CyclesGood(ds) /\ DOMAIN ds = DOMAIN cs /\ ds[c] = new
           /\ \A d \in DOMAIN cs : d # c => ds[d] = cs[d]
  <1>1. /\ IsSeq(ds) /\ DOMAIN ds = DOMAIN cs /\ ds[c] = new
        /\ \A d \in DOMAIN cs : d # c => ds[d] = cs[d]
    BY SeqExcept DEF WithCycle, CyclesGood
  <1> QED BY <1>1 DEF CyclesGood

\* The cycle that is being loaded grows.
LEMMA LoadStep ==
    ASSUME TypeInv, Guarded, ErrorLog \/ OpenLogs
    PROVE  TypeInv' /\ Guarded' /\ (Owned => Owned') /\ doubled' = doubled
  <1> SUFFICES ASSUME NEW c, c = reload.cycle
               PROVE  TypeInv' /\ Guarded' /\ (Owned => Owned') /\ doubled' = doubled
    OBVIOUS
  <1>1. /\ Idle /\ stack = <<>> /\ reload.phase = "conf"
        /\ UNCHANGED <<hky_cycle, dying, sockets, stack, doubled>>
    BY DEF ErrorLog, OpenLogs, Idle
  <1>2. CyclesGood(cycles) /\ ReloadRight BY DEF TypeInv
  <1>3. /\ c \in DOMAIN cycles /\ GoodCycle(cycles[c]) /\ c # hky_cycle /\ Live(hky_cycle)
        /\ reload = [phase |-> reload.phase, cycle |-> reload.cycle, left |-> reload.left]
    BY <1>1, <1>2 DEF ReloadRight, Live, LiveIn
  <1>4. \E e : Grows(cycles[c], e) /\ cycles' = WithCycle(cycles, c, e)
    <2>1. CASE ErrorLog
      <3>1. cycles' = WithCycle(cycles, c, SetLog(cycles[c], Head(reload.left)))
        BY <2>1 DEF ErrorLog, WithCycle
      <3> QED BY <3>1, <1>3, SetLogGrows
    <2>2. CASE OpenLogs
      <3>1. cycles' = WithCycle(cycles, c, [cycles[c] EXCEPT !.logs = LogOpenDefault(cycles[c].logs)])
        BY <2>2, Zenon DEF OpenLogs, WithCycle
      <3> QED BY <3>1, <1>3, OpenDefaultGrows
    <2> QED BY <2>1, <2>2
  <1>5. PICK e : Grows(cycles[c], e) /\ cycles' = WithCycle(cycles, c, e) BY <1>4
  <1>6. /\ CyclesGood(cycles') /\ DOMAIN cycles' = DOMAIN cycles /\ cycles'[c] = e
        /\ \A d \in DOMAIN cycles : d # c => cycles'[d] = cycles[d]
    BY <1>2, <1>3, <1>5, CycleSet DEF Grows
  <1>7. ReloadRight'
    <2>1. \A d : Live(d) => Live(d)' BY <1>5, <1>6 DEF Live, LiveIn, Grows
    <2>2. reload'.phase \in {"conf", "made"} /\ reload'.cycle = c
          /\ reload' = [phase |-> reload'.phase, cycle |-> reload'.cycle, left |-> reload'.left]
      <3>1. CASE ErrorLog
        <4> DEFINE left == Tail(reload.left)
        <4>1. reload' = [phase |-> "conf", cycle |-> c, left |-> left]
          BY <3>1, <1>1, <1>3 DEF ErrorLog
        <4> HIDE DEF left
        <4> QED BY <4>1
      <3>2. CASE OpenLogs
        <4>1. reload' = [phase |-> "made", cycle |-> c, left |-> reload.left]
          BY <3>2, <1>1, <1>3 DEF OpenLogs
        <4> QED BY <4>1
      <3> QED BY <3>1, <3>2
    <2>3. Live(c) BY <1>3 DEF Live, LiveIn
    <2> QED BY <2>1, <2>2, <2>3, <1>1, <1>3 DEF ReloadRight
  <1>8. IsSeq(stack') /\ Writers' = {} /\ \A n \in DOMAIN stack' : GoodCall(cycles', stack'[n])
    <2>1. LiveIn(cycles', hky_cycle) BY <1>3, <1>6 DEF Live, LiveIn
    <2> QED BY <2>1, <1>1, FirstCall
  <1>9. TypeInv' BY <1>1, <1>6, <1>7, <1>8, ReloadTypes
  <1>10. ASSUME NEW q \in Peers
         PROVE  /\ q \in Peers' /\ PeerAt(q)' = PeerAt(q)
                /\ cycles'[q[1]].cleanups = cycles[q[1]].cleanups
    <2>1. PICK d \in DOMAIN cycles : \E k \in DOMAIN cycles[d].peers : q = <<d, k>> BY PeersIn
    <2>2. PICK k \in DOMAIN cycles[d].peers : q = <<d, k>> BY <2>1
    <2>3. /\ k \in DOMAIN cycles'[d].peers /\ cycles'[d].peers[k] = cycles[d].peers[k]
          /\ cycles'[d].cleanups = cycles[d].cleanups
      BY <1>5, <1>6 DEF Grows
    <2>4. q \in Peers' BY <2>2, <2>3, <1>6, PeersInNext
    <2> QED BY <2>2, <2>3, <2>4 DEF PeerAt
  <1>11. ASSUME NEW q \in Peers' \ Peers PROVE PeerAt(q)'.fd = -1 /\ ~PeerAt(q)'.busy
    <2>1. PICK d \in DOMAIN cycles' : \E k \in DOMAIN cycles'[d].peers : q = <<d, k>>
      BY PeersInNext
    <2>2. PICK k \in DOMAIN cycles'[d].peers : q = <<d, k>> BY <2>1
    <2>3. k \notin DOMAIN cycles[d].peers BY <2>2, <1>6, <1>11, PeersIn
    <2>4. d = c BY <2>3, <1>6
    <2>5. e.peers[k].fd = -1 /\ ~e.peers[k].busy BY <2>3, <2>4, <1>5, <1>6 DEF Grows
    <2>6. PeerAt(q)' = e.peers[k] BY <2>2, <2>4, <1>6 DEF PeerAt
    <2> QED BY <2>5, <2>6
  <1>12. Guarded' /\ (Owned => Owned') BY <1>1, <1>8, <1>10, <1>11, ReloadKept
  <1> QED BY <1>1, <1>9, <1>12

\* A reload begins: a cycle with no peers.
LEMMA BeginStep ==
    ASSUME TypeInv, Guarded, NEW conf, Begin(conf)
    PROVE  TypeInv' /\ Guarded' /\ (Owned => Owned') /\ doubled' = doubled
  <1> DEFINE new == [conf |-> conf, logs |-> <<NewLog>>, peers |-> <<>>, cleanups |-> <<>>]
  <1>1. GoodCycle(new) /\ DOMAIN new.peers = {} BY NewLogs, OneLog
  <1> SUFFICES ASSUME NEW n, n = Len(cycles) + 1
               PROVE  TypeInv' /\ Guarded' /\ (Owned => Owned') /\ doubled' = doubled
    OBVIOUS
  <1>2. /\ Idle /\ stack = <<>> /\ cycles' = Append(cycles, new)
        /\ reload' = [phase |-> "conf", cycle |-> n, left |-> conf]
        /\ UNCHANGED <<hky_cycle, dying, sockets, stack, doubled>>
    BY DEF Begin, Idle
  <1> HIDE DEF new
  <1>3. CyclesGood(cycles) /\ Live(hky_cycle) BY DEF TypeInv, ReloadRight
  <1>4. /\ IsSeq(cycles') /\ DOMAIN cycles' = DOMAIN cycles \cup {n} /\ n \notin DOMAIN cycles
        /\ cycles'[n] = new /\ \A c \in DOMAIN cycles : cycles'[c] = cycles[c]
    BY <1>2, <1>3, SeqAppend DEF CyclesGood
  <1>5. CyclesGood(cycles') BY <1>1, <1>3, <1>4 DEF CyclesGood
  <1>6. Live(hky_cycle)' /\ Live(n)' /\ n # hky_cycle BY <1>1, <1>2, <1>3, <1>4 DEF Live, LiveIn
  <1>7. ReloadRight'
    <2>1. reload'.phase = "conf" /\ reload'.cycle = n /\ reload'.left = conf BY <1>2
    <2> QED BY <2>1, <1>2, <1>6 DEF ReloadRight
  <1>8. IsSeq(stack') /\ Writers' = {} /\ \A m \in DOMAIN stack' : GoodCall(cycles', stack'[m])
    <2>1. LiveIn(cycles', hky_cycle) BY <1>2, <1>6 DEF Live
    <2> QED BY <2>1, <1>2, FirstCall
  <1>9. TypeInv' BY <1>2, <1>5, <1>7, <1>8, ReloadTypes
  <1>10. ASSUME NEW q \in Peers
         PROVE  /\ q \in Peers' /\ PeerAt(q)' = PeerAt(q)
                /\ cycles'[q[1]].cleanups = cycles[q[1]].cleanups
    <2>1. PICK d \in DOMAIN cycles : \E k \in DOMAIN cycles[d].peers : q = <<d, k>> BY PeersIn
    <2>2. cycles'[d] = cycles[d] /\ d \in DOMAIN cycles' BY <1>4
    <2>3. q \in Peers' BY <2>1, <2>2, PeersInNext
    <2> QED BY <2>1, <2>2, <2>3 DEF PeerAt
  <1>11. Peers' \subseteq Peers
    <2> SUFFICES ASSUME NEW q \in Peers' PROVE q \in Peers OBVIOUS
    <2>1. PICK d \in DOMAIN cycles' : \E k \in DOMAIN cycles'[d].peers : q = <<d, k>>
      BY PeersInNext
    <2>2. d # n BY <2>1, <1>1, <1>4
    <2>3. d \in DOMAIN cycles /\ cycles'[d] = cycles[d] BY <2>2, <1>4
    <2> QED BY <2>1, <2>3, PeersIn
  <1>12. Guarded' /\ (Owned => Owned') BY <1>2, <1>8, <1>10, <1>11, ReloadKept
  <1> QED BY <1>2, <1>9, <1>12

\* Destroying a pool begins: that of a reload that failed, or an old one.
LEMMA DestroyStep ==
    ASSUME TypeInv, Guarded, DestroyNew \/ DestroyOld \/ \E c \in DOMAIN cycles : CleanOld(c)
    PROVE  TypeInv' /\ Guarded' /\ (Owned => Owned') /\ doubled' = doubled
  <1>1. /\ Idle /\ stack = <<>> /\ UNCHANGED <<cycles, hky_cycle, sockets, stack, doubled>>
    BY DEF DestroyNew, DestroyOld, CleanOld, Idle
  <1>2. CyclesGood(cycles) /\ ReloadRight BY DEF TypeInv
  <1>3. \E c : /\ Live(c) /\ dying' = Destroying(c) /\ ReloadRight'
               /\ reload'.phase \in {"none", "failed", "done"}
               /\ c = hky_cycle <=> reload'.phase = "done"
    <2>1. \A c : Live(c)' <=> Live(c) BY <1>1 DEF Live
    <2>2. CASE DestroyNew
      <3>1. dying' = Destroying(reload.cycle) /\ reload' = reload /\ reload.phase = "failed"
        BY <2>2 DEF DestroyNew
      <3>2. Live(reload.cycle) /\ reload.cycle # hky_cycle BY <1>2, <3>1 DEF ReloadRight
      <3>3. ReloadRight' BY <1>1, <1>2, <2>1, <3>1 DEF ReloadRight
      <3> QED BY <3>1, <3>2, <3>3
    <2>3. CASE DestroyOld
      <3> DEFINE r == [reload EXCEPT !.phase = "done"]
      <3>1. dying' = Destroying(hky_cycle) /\ reload' = r /\ reload.phase = "made"
        BY <2>3 DEF DestroyOld
      <3>2. reload = [phase |-> reload.phase, cycle |-> reload.cycle, left |-> reload.left]
        BY <1>2 DEF ReloadRight
      <3>3. r = [phase |-> "done", cycle |-> reload.cycle, left |-> reload.left] BY <3>2
      <3> HIDE DEF r
      <3>4. r.phase = "done" /\ r.cycle = reload.cycle /\ r.left = reload.left BY <3>3
      <3>5. Live(reload.cycle) /\ reload.cycle # hky_cycle /\ Live(hky_cycle)
        BY <1>2, <3>1 DEF ReloadRight
      <3>6. ReloadRight' BY <1>1, <2>1, <3>1, <3>3, <3>4, <3>5 DEF ReloadRight
      <3> QED BY <3>1, <3>4, <3>5, <3>6
    <2>4. CASE \E c \in DOMAIN cycles : CleanOld(c)
      <3>1. PICK c \in DOMAIN cycles : CleanOld(c) BY <2>4
      <3>2. /\ dying' = Destroying(c) /\ reload' = reload /\ reload = NoReload
            /\ c # hky_cycle /\ cycles[c] # Gone
        BY <3>1 DEF CleanOld
      <3>3. Live(c) BY <1>2, <3>2 DEF CyclesGood, Live, LiveIn
      <3>4. ReloadRight' BY <1>1, <1>2, <2>1, <3>2 DEF ReloadRight
      <3>5. reload'.phase = "none" BY <3>2 DEF NoReload
      <3> QED BY <3>2, <3>3, <3>4, <3>5
    <2> QED BY <2>2, <2>3, <2>4
  <1>4. PICK c : /\ Live(c) /\ dying' = Destroying(c) /\ ReloadRight'
                 /\ reload'.phase \in {"none", "failed", "done"}
                 /\ c = hky_cycle <=> reload'.phase = "done"
    BY <1>3
  <1>5. /\ dying' = [cycle |-> c, left |-> cycles[c].cleanups, run |-> {}]
        /\ cycles[c].cleanups \in Seq(DOMAIN cycles[c].peers)
    BY <1>4 DEF Destroying, Live, LiveIn, GoodCycle
  <1>6. DyingRight'
    <2>1. Live(c)' BY <1>1, <1>4 DEF Live
    <2>2. dying'.cycle = c /\ dying'.left = cycles[c].cleanups /\ dying'.run = {} BY <1>5
    <2> QED BY <2>1, <2>2, <1>1, <1>4, <1>5 DEF DyingRight
  <1>7. TypeInv' BY <1>1, <1>4, <1>6 DEF TypeInv
  <1>8. Guarded' /\ (Owned => Owned') BY <1>1, <1>4, DestroyKept
  <1> QED BY <1>1, <1>7, <1>8

LEMMA HeadTail ==
    ASSUME NEW S, NEW s \in Seq(S), s # <<>>
    PROVE  Head(s) \in S /\ Tail(s) \in Seq(S) /\ ToSet(s) \subseteq ToSet(Tail(s)) \cup {Head(s)}
  <1>1. Head(s) \in S /\ Tail(s) \in Seq(S) OBVIOUS
  <1>2. ASSUME NEW x \in ToSet(s), x # Head(s) PROVE x \in ToSet(Tail(s))
    <2>1. PICK n \in DOMAIN s : x = s[n] BY DEF ToSet
    <2>2. DOMAIN s = 1..Len(s) /\ Len(s) \in Nat /\ n # 1 BY <1>2, <2>1
    <2>3. DOMAIN Tail(s) = 1..(Len(s) - 1) /\ Tail(s)[n - 1] = s[(n - 1) + 1] BY <2>2
    <2>4. n - 1 \in DOMAIN Tail(s) /\ (n - 1) + 1 = n BY <2>2, <2>3
    <2> QED BY <2>1, <2>3, <2>4 DEF ToSet
  <1> QED BY <1>1, <1>2

\* hky_syslog_cleanup.
LEMMA CleanupStep ==
    ASSUME TypeInv, Guarded, SyslogCleanup
    PROVE  TypeInv' /\ Guarded' /\ (~doubled' => ~doubled /\ (Owned => Owned'))
  <1> SUFFICES ASSUME NEW c, c = dying.cycle, NEW k, k = Head(dying.left),
                      NEW p, p = <<c, k>>, NEW fd, fd = PeerAt(p).fd
               PROVE  TypeInv' /\ Guarded' /\ (~doubled' => ~doubled /\ (Owned => Owned'))
    BY Zenon
  <1> DEFINE d == [dying EXCEPT !.left = Tail(dying.left), !.run = dying.run \cup {k}]
             new == [cycles[c].peers[k] EXCEPT !.busy = TRUE]
             left == Tail(dying.left)
             run == dying.run \cup {k}
  <1>1. /\ stack = <<>> /\ dying.left # <<>> /\ cycles' = CleanedUp(c, k) /\ dying' = d
        /\ Close(fd) /\ doubled' = (doubled \/ (fd # -1 /\ k \in dying.run))
        /\ stack' = IF fd = -1 \/ fd \in DOMAIN sockets THEN stack
                    ELSE LogError(stack, hky_cycle, ALERT)
        /\ UNCHANGED <<hky_cycle, reload>>
    <2>1. fd = cycles[dying.cycle].peers[k].fd BY DEF PeerAt
    <2> QED BY <2>1, Zenon DEF SyslogCleanup
  <1>2. dying # NotDying BY <1>1 DEF NotDying
  <1>3. /\ dying = [cycle |-> dying.cycle, left |-> dying.left, run |-> dying.run]
        /\ Live(c) /\ dying.left \in Seq(DOMAIN cycles[c].peers)
        /\ dying.run \subseteq DOMAIN cycles[c].peers
        /\ reload.phase \in {"none", "failed", "done"}
        /\ c = hky_cycle <=> reload.phase = "done"
        /\ CyclesGood(cycles) /\ ReloadRight
    BY <1>2 DEF TypeInv, DyingRight
  <1>4. /\ k \in DOMAIN cycles[c].peers /\ left \in Seq(DOMAIN cycles[c].peers)
        /\ ToSet(dying.left) \subseteq ToSet(left) \cup {k}
    BY <1>1, <1>3, HeadTail
  <1>5. dying' = [cycle |-> c, left |-> left, run |-> run] BY <1>1, <1>3
  <1> HIDE DEF d, left, run
  <1>6. cycles' = WithPeer(cycles, c, k, new) BY <1>1, CleanupChange
  <1>7. IsPeer(cycles[c].peers[k]) /\ IsPeer(new) /\ new.busy = TRUE
    BY <1>3, <1>4, PeerFields DEF Live, LiveIn, GoodCycle
  <1> HIDE DEF new
  <1>8. /\ CyclesGood(cycles') /\ SameLogs(cycles, cycles')
        /\ \A e \in DOMAIN cycles : cycles'[e].cleanups = cycles[e].cleanups
        /\ Peers' = Peers /\ p \in Peers /\ cycles'[c].peers[k] = new
        /\ \A q \in Peers : q # p => PeerAt(q)' = PeerAt(q)
    BY <1>3, <1>4, <1>6, <1>7, PeersChanged
  <1>9. \A e : Live(e) => Live(e)' /\ DOMAIN cycles'[e].peers = DOMAIN cycles[e].peers
    BY <1>8 DEF SameLogs, Alike, Live, LiveIn
  <1>10. ReloadRight' BY <1>1, <1>3, <1>9 DEF ReloadRight
  <1>11. dying'.cycle = c /\ dying'.left = left /\ dying'.run = run BY <1>5
  <1>12. DyingRight'
    <2>1. run \subseteq DOMAIN cycles'[c].peers BY <1>3, <1>4, <1>9 DEF run
    <2>2. left \in Seq(DOMAIN cycles'[c].peers) BY <1>3, <1>4, <1>9
    <2> QED BY <2>1, <2>2, <1>1, <1>3, <1>5, <1>9, <1>11 DEF DyingRight
  <1>13. /\ IsSeq(stack') /\ \A n \in DOMAIN stack' : GoodCall(cycles', stack'[n])
         /\ Writers' = {}
    <2>1. LiveIn(cycles', hky_cycle) BY <1>1, <1>3, <1>9 DEF ReloadRight, Live
    <2> QED BY <2>1, <1>1, FirstCall
  <1>14. DOMAIN sockets' = DOMAIN sockets \ {fd}
         /\ \A f \in DOMAIN sockets' : sockets'[f] = sockets[f]
    BY <1>1 DEF Close
  <1>15. TypeInv' BY <1>8, <1>10, <1>12, <1>13, <1>14 DEF TypeInv
  <1>16. CleanedPeers' = CleanedPeers \cup {p} BY <1>11 DEF CleanedPeers, run
  <1>17. BusyPeers' = BusyPeers \cup {p}
    <2>1. PeerAt(p)' = new BY <1>8 DEF PeerAt
    <2>2. PeerAt(p)'.busy BY <2>1, <1>7
    <2> QED BY <2>2, <1>8 DEF BusyPeers
  <1>18. BusyPeers = CleanedPeers /\ (Owned => Calm) BY <1>1, NoCalls
  <1>19. ASSUME ~doubled', Owned PROVE Calm' /\ stack' = <<>>
    <2>1. fd = -1 \/ p \notin CleanedPeers BY <1>1, <1>19 DEF CleanedPeers
    <2>2. fd # -1 => fd \in DOMAIN sockets /\ sockets[fd] = p
      BY <2>1, <1>8, <1>18, <1>19 DEF Calm
    <2>3. ASSUME NEW f \in DOMAIN sockets'
          PROVE  \E q \in Cleanable' : sockets'[f] = q /\ PeerAt(q)'.fd = f
      <3>1. PICK q \in Cleanable : sockets[f] = q /\ PeerAt(q).fd = f
        BY <1>14, <1>18, <1>19 DEF Calm
      <3>2. q # p /\ q \in Peers BY <3>1, <1>14 DEF Cleanable
      <3>3. q \in Cleanable'
        <4>1. PICK e \in DOMAIN cycles : \E j \in DOMAIN cycles[e].peers : q = <<e, j>>
          BY <3>2, PeersIn
        <4>2. PICK j \in DOMAIN cycles[e].peers : q = <<e, j>> BY <4>1
        <4>3. CASE e = c
          <5>1. j # k /\ j \in ToSet(dying.left) BY <4>2, <4>3, <3>2 DEF Cleanable
          <5>2. j \in ToSet(left) BY <5>1, <1>4
          <5> QED BY <5>2, <4>2, <4>3, <3>2, <1>8, <1>11 DEF Cleanable
        <4>4. CASE e # c
          <5>1. j \in ToSet(cycles'[e].cleanups) BY <4>2, <4>4, <1>8 DEF Cleanable
          <5> QED BY <5>1, <4>2, <4>4, <3>2, <1>8, <1>11 DEF Cleanable
        <4> QED BY <4>3, <4>4
      <3> QED BY <3>1, <3>2, <3>3, <1>8, <1>14
    <2>4. ASSUME NEW q \in Peers', q \notin CleanedPeers', PeerAt(q)'.fd # -1
          PROVE  PeerAt(q)'.fd \in DOMAIN sockets' /\ sockets'[PeerAt(q)'.fd] = q
      <3>1. q # p /\ q \in Peers /\ q \notin CleanedPeers /\ PeerAt(q)' = PeerAt(q)
        BY <2>4, <1>8, <1>16
      <3>2. PeerAt(q).fd \in DOMAIN sockets /\ sockets[PeerAt(q).fd] = q
        BY <2>4, <3>1, <1>18, <1>19 DEF Calm
      <3>3. PeerAt(q).fd # fd BY <2>2, <2>4, <3>1, <3>2
      <3> QED BY <3>1, <3>2, <3>3, <1>14
    <2> QED BY <2>2, <2>3, <2>4, <1>1 DEF Calm
  <1>20. Guarded' BY <1>13, <1>16, <1>17, <1>18, NoCallsNext
  <1>21. ASSUME ~doubled' PROVE ~doubled /\ (Owned => Owned')
    <2>1. ~doubled BY <1>1, <1>21
    <2> QED BY <2>1, <1>13, <1>16, <1>17, <1>18, <1>19, <1>21, NoCallsNext
  <1> QED BY <1>15, <1>20, <1>21

\* The pool is gone, and its peers with it.
LEMMA FreeStep ==
    ASSUME TypeInv, Guarded, FreePool
    PROVE  TypeInv' /\ Guarded' /\ (Owned => Owned') /\ doubled' = doubled
  <1> SUFFICES ASSUME NEW c, c = dying.cycle
               PROVE  TypeInv' /\ Guarded' /\ (Owned => Owned') /\ doubled' = doubled
    OBVIOUS
  <1>1. /\ stack = <<>> /\ dying # NotDying /\ dying.left = <<>>
        /\ cycles' = WithCycle(cycles, c, Gone) /\ dying' = NotDying /\ reload' = NoReload
        /\ hky_cycle' = IF reload.phase = "done" THEN reload.cycle ELSE hky_cycle
        /\ UNCHANGED <<sockets, stack, doubled>>
    BY DEF FreePool, WithCycle
  <1>2. /\ Live(c) /\ CyclesGood(cycles) /\ ReloadRight
        /\ c = hky_cycle <=> reload.phase = "done"
    BY <1>1 DEF TypeInv, DyingRight
  <1>3. c \in DOMAIN cycles BY <1>2 DEF Live, LiveIn
  <1>4. /\ CyclesGood(cycles') /\ DOMAIN cycles' = DOMAIN cycles /\ cycles'[c] = Gone
        /\ \A d \in DOMAIN cycles : d # c => cycles'[d] = cycles[d]
    BY <1>1, <1>2, <1>3, CycleSet
  <1>5. Live(hky_cycle)'
    <2>1. CASE reload.phase = "done"
      <3>1. Live(reload.cycle) /\ reload.cycle # hky_cycle BY <2>1, <1>2 DEF ReloadRight
      <3> QED BY <2>1, <3>1, <1>1, <1>2, <1>4 DEF Live, LiveIn
    <2>2. CASE reload.phase # "done"
      <3>1. Live(hky_cycle) /\ hky_cycle # c BY <2>2, <1>2 DEF ReloadRight
      <3> QED BY <2>2, <3>1, <1>1, <1>4 DEF Live, LiveIn
    <2> QED BY <2>1, <2>2
  <1>6. ReloadRight' BY <1>1, <1>5 DEF ReloadRight, NoReload
  <1>7. DyingRight' BY <1>1 DEF DyingRight, NotDying
  <1>8. /\ IsSeq(stack') /\ \A n \in DOMAIN stack' : GoodCall(cycles', stack'[n])
        /\ Writers' = {}
    <2> SUFFICES ASSUME NEW h, h = hky_cycle'
                 PROVE  /\ IsSeq(stack') /\ \A n \in DOMAIN stack' : GoodCall(cycles', stack'[n])
                        /\ Writers' = {}
      OBVIOUS
    <2>1. LiveIn(cycles', h) BY <1>5 DEF Live
    <2> QED BY <2>1, <1>1, FirstCall
  <1>9. TypeInv' BY <1>1, <1>4, <1>6, <1>7, <1>8 DEF TypeInv
  <1>10. ASSUME NEW q
         PROVE  /\ q \in Peers' <=> q \in Peers /\ q[1] # c
                /\ q \in Peers' => PeerAt(q)' = PeerAt(q)
    <2>1. DOMAIN Gone.peers = {} BY DEF Gone
    <2>2. ASSUME q \in Peers'
          PROVE  q \in Peers /\ q[1] # c /\ PeerAt(q)' = PeerAt(q)
      <3>1. PICK d \in DOMAIN cycles' : \E k \in DOMAIN cycles'[d].peers : q = <<d, k>>
        BY <2>2, PeersInNext
      <3>2. d # c BY <3>1, <2>1, <1>4
      <3>3. d \in DOMAIN cycles /\ cycles'[d] = cycles[d] BY <3>2, <1>4
      <3> QED BY <3>1, <3>2, <3>3, PeersIn DEF PeerAt
    <2>3. ASSUME q \in Peers, q[1] # c PROVE q \in Peers'
      <3>1. PICK d \in DOMAIN cycles : \E k \in DOMAIN cycles[d].peers : q = <<d, k>>
        BY <2>3, PeersIn
      <3>2. d # c BY <3>1, <2>3
      <3>3. d \in DOMAIN cycles' /\ cycles'[d] = cycles[d] BY <3>2, <1>4
      <3> QED BY <3>1, <3>3, PeersInNext
    <2> QED BY <2>2, <2>3
  <1>11. BusyPeers = CleanedPeers /\ (Owned => Calm) BY <1>1, NoCalls
  <1>12. CleanedPeers' = {} BY <1>1 DEF CleanedPeers, NotDying
  <1>13. \A q \in CleanedPeers : q[1] = c BY DEF CleanedPeers
  <1>14. BusyPeers' = {}
    <2> SUFFICES ASSUME NEW q \in BusyPeers' PROVE FALSE OBVIOUS
    <2>1. q \in Peers' /\ PeerAt(q)'.busy BY DEF BusyPeers
    <2>2. q \in BusyPeers BY <2>1, <1>10 DEF BusyPeers
    <2> QED BY <2>1, <2>2, <1>10, <1>11, <1>13
  <1>15. ASSUME Calm PROVE Calm'
    <2>1. ASSUME NEW f \in DOMAIN sockets'
          PROVE  \E q \in Cleanable' : sockets'[f] = q /\ PeerAt(q)'.fd = f
      <3>1. PICK q \in Cleanable : sockets[f] = q /\ PeerAt(q).fd = f BY <1>1, <1>15 DEF Calm
      <3>2. q \in Peers /\ q[1] # c
        <4>1. ToSet(dying.left) = {} BY <1>1 DEF ToSet
        <4> QED BY <4>1 DEF Cleanable
      <3>3. q[2] \in ToSet(cycles[q[1]].cleanups) BY <3>2 DEF Cleanable
      <3>4. cycles'[q[1]] = cycles[q[1]] /\ q[1] # 0
        <4>1. q[1] \in DOMAIN cycles BY <3>2, PeersIn
        <4>2. 0 \notin DOMAIN cycles BY <1>2, SeqParts DEF CyclesGood
        <4> QED BY <4>1, <4>2, <3>2, <1>4
      <3>5. q \in Cleanable' BY <3>2, <3>3, <3>4, <1>1, <1>10 DEF Cleanable, NotDying
      <3> QED BY <3>1, <3>2, <3>5, <1>1, <1>10
    <2>2. ASSUME NEW q \in Peers', PeerAt(q)'.fd # -1
          PROVE  PeerAt(q)'.fd \in DOMAIN sockets' /\ sockets'[PeerAt(q)'.fd] = q
      <3>1. q \in Peers \ CleanedPeers /\ PeerAt(q)' = PeerAt(q) BY <1>10, <1>13
      <3> QED BY <3>1, <2>2, <1>1, <1>15 DEF Calm
    <2> QED BY <2>1, <2>2 DEF Calm
  <1> QED BY <1>1, <1>8, <1>9, <1>11, <1>12, <1>14, <1>15, NoCallsNext

-----------------------------------------------------------------------------
LEMMA InitInv ==
    ASSUME Init
    PROVE  IInv
  <1>1. PICK name : cycles = <<LogInit(name)>> BY DEF Init
  <1> DEFINE l == FileLog(name, NOTICE)
             conf == <<FileDirective(name, <<"notice">>)>>
             c == LogInit(name)
  <1>2. c = [conf |-> conf, logs |-> <<l>>, peers |-> <<>>, cleanups |-> <<>>] BY DEF LogInit
  <1>3. IsLog(l) /\ l.next = 0 /\ l.peer = 0 BY NewLogs
  <1> HIDE DEF l, conf, c
  <1>4. GoodCycle(c) /\ DOMAIN c.peers = {} BY <1>2, <1>3, OneLog
  <1>5. IsSeq(cycles) /\ DOMAIN cycles = {1} /\ cycles[1] = c BY <1>1 DEF IsSeq, c
  <1>6. CyclesGood(cycles) BY <1>4, <1>5 DEF CyclesGood
  <1>7. /\ hky_cycle = 1 /\ reload = NoReload /\ dying = NotDying /\ stack = <<>>
        /\ DOMAIN sockets = {}
    BY DEF Init
  <1>8. ReloadRight BY <1>4, <1>5, <1>7 DEF ReloadRight, Live, LiveIn, NoReload
  <1>9. DyingRight BY <1>7 DEF DyingRight, NotDying
  <1>10. IsSeq(stack) BY <1>7 DEF IsSeq
  <1>11. TypeInv BY <1>6, <1>7, <1>8, <1>9, <1>10 DEF TypeInv
  <1>12. Peers = {} BY <1>4, <1>5, PeersIn
  <1>13. Writers = {} BY <1>7 DEF Writers
  <1>14. Guarded BY <1>7, <1>12, <1>13 DEF Guarded, BusyPeers, CleanedPeers, NotDying
  <1>15. Owned BY <1>7, <1>12, <1>13 DEF Owned, Failed, Unconnected
  <1> QED BY <1>11, <1>14, <1>15 DEF IInv

LEMMA Inductive ==
    ASSUME IInv, [Next]_vars
    PROVE  IInv'
  <1>1. TypeInv /\ Guarded /\ (~doubled => Owned) BY DEF IInv
  <1>2. CASE LogStep
    <2>1. TypeInv' BY <1>1, <1>2, LogTypes
    <2>2. Guarded' BY <1>1, <1>2, LogGuarded
    <2>3. doubled' = doubled
      BY <1>2 DEF LogStep, SkipFullDisk, WriteFile, EndWalk, Return, WriterBusy, SyslogWriter,
                  WriterDone, SocketFails, ConnectFails, NoCleanup, CloseFailed, InitPeer, Send,
                  CloseUnix, SendFails
    <2>4. Owned => Owned' BY <1>1, <1>2, LogOwned
    <2> QED BY <1>1, <2>1, <2>2, <2>3, <2>4 DEF IInv
  <1>3. CASE \/ \E c \in DOMAIN cycles, level \in Levels : Message(c, level)
             \/ Tick \/ Fail \/ Retire
    BY <1>1, <1>3, OthersStep DEF IInv
  <1>4. CASE (\E conf \in Confs : Begin(conf)) \/ ErrorLog \/ OpenLogs
    BY <1>1, <1>4, BeginStep, LoadStep DEF IInv
  <1>5. CASE DestroyNew \/ DestroyOld \/ \E c \in DOMAIN cycles : CleanOld(c)
    BY <1>1, <1>5, DestroyStep DEF IInv
  <1>6. CASE SyslogCleanup BY <1>1, <1>6, CleanupStep DEF IInv
  <1>7. CASE FreePool BY <1>1, <1>7, FreeStep DEF IInv
  <1>8. CASE UNCHANGED vars
    <2>1. TypeInv' BY <1>1, <1>8
      DEF vars, TypeInv, ReloadRight, DyingRight, Live
    <2>2. Peers' = Peers /\ Writers' = Writers /\ Failed' = Failed /\ Unconnected' = Unconnected
          /\ CleanedPeers' = CleanedPeers /\ Cleanable' = Cleanable /\ BusyPeers' = BusyPeers
      BY <1>8 DEF vars, Peers, PeerAt, Writers, InWriter, Failed, Unconnected, CleanedPeers,
                  Cleanable, BusyPeers
    <2>3. \A n : PeerOf(n)' = PeerOf(n) BY <1>8 DEF vars, PeerOf
    <2>4. Guarded' BY <1>1, <2>2, <2>3 DEF Guarded
    <2>5. Owned => Owned' BY <1>8, <2>2, <2>3 DEF vars, Owned, PeerAt
    <2> QED BY <1>1, <1>8, <2>1, <2>4, <2>5 DEF IInv, vars
  <1> QED BY <1>2, <1>3, <1>4, <1>5, <1>6, <1>7, <1>8 DEF Next

-----------------------------------------------------------------------------
(* What the words of a directive come to.                                    *)

LevelSteps(f, words) ==
    f = [n \in 0..Len(words) |-> IF n = 0 THEN 0 ELSE SetLevel(f[n - 1], words[n])]

\* The turns of hky_log_set_levels are a function.
LEMMA LevelsExist ==
    ASSUME NEW words, Len(words) \in Nat
    PROVE  \E f : LevelSteps(f, words)
  <1> DEFINE Is(f, n) == f = [i \in 0..n |-> IF i = 0 THEN 0 ELSE SetLevel(f[i - 1], words[i])]
             T == {n \in Nat : \E f : Is(f, n)}
  <1>1. 0 \in T
    <2> DEFINE g == [i \in 0..0 |-> 0]
    <2>1. g = [i \in 0..0 |-> IF i = 0 THEN 0 ELSE SetLevel(g[i - 1], words[i])] OBVIOUS
    <2> HIDE DEF g
    <2>2. Is(g, 0) BY ONLY <2>1
    <2> QED BY <2>2
  <1>2. ASSUME NEW n \in Nat, n \in T PROVE n + 1 \in T
    <2>1. PICK f : Is(f, n) BY <1>2
    <2> DEFINE z == SetLevel(f[n], words[n + 1])
               g == [i \in 0..(n + 1) |-> IF i = n + 1 THEN z ELSE f[i]]
    <2>2. ASSUME NEW i \in 0..(n + 1)
          PROVE  g[i] = IF i = 0 THEN 0 ELSE SetLevel(g[i - 1], words[i])
      <3>1. CASE i = n + 1
        <4>1. g[i] = z /\ g[n] = f[n] /\ i - 1 = n /\ i # 0 BY <3>1
        <4> HIDE DEF g
        <4> QED BY <3>1, <4>1
      <3>2. CASE i # n + 1
        <4>1. i \in 0..n /\ g[i] = f[i] /\ (i # 0 => g[i - 1] = f[i - 1]) BY <3>2
        <4>2. f[i] = IF i = 0 THEN 0 ELSE SetLevel(f[i - 1], words[i]) BY <2>1, <4>1
        <4> HIDE DEF g, Is
        <4> QED BY <4>1, <4>2
      <3> QED BY <3>1, <3>2
    <2>3. g = [i \in 0..(n + 1) |-> g[i]] OBVIOUS
    <2> HIDE DEF g
    <2>4. Is(g, n + 1) BY <2>2, <2>3
    <2> QED BY <2>4
  <1> HIDE DEF T
  <1>3. Nat \subseteq T BY <1>1, <1>2, NatSetInduction
  <1>4. \E f : Is(f, Len(words))
    <2>1. Len(words) \in T BY <1>3
    <2> HIDE DEF Is
    <2> QED BY <2>1 DEF T
  <1> QED BY <1>4 DEF LevelSteps

IsDebug(word) == \E n \in DOMAIN DebugNames : DebugNames[n] = word

\* After n words: they are refused, there were none, one plain level stands alone,
\* or there were kinds of debug messages only.
LevelAfter(words, n, v) ==
    \/ v = Invalid
    \/ n = 0 /\ v = 0
    \/ n = 1 /\ v \in 1..(DEBUG - 1) /\ words[1] = LevelNames[v]
    \/ /\ n >= 1 /\ \A i \in 1..n : IsDebug(words[i])
       /\ \E k \in Nat : k >= 1 /\ v = 16 * k

LEMMA DebugBitsAre ==
    ASSUME NEW n \in DOMAIN DebugNames
    PROVE  \E k \in Nat : k >= 1 /\ DebugBit(n) = 16 * k
  <1>1. n \in 1..7 BY DEF DebugNames
  <1>2. DebugBit(n) \in {16 * 1, 16 * 2, 16 * 4, 16 * 8, 16 * 16, 16 * 32, 16 * 64}
    BY <1>1 DEF DebugBit, DebugBits
  <1> QED BY <1>2

\* The kinds of words that the loop tells apart.
LEMMA PlainWord ==
    ASSUME NEW v, NEW word, v # Invalid, v = 0,
           NEW plain, plain = {n \in 1..(DEBUG - 1) : LevelNames[n] = word}, plain # {}
    PROVE  SetLevel(v, word) = FirstOf(plain)
  <1>1. {n \in 1..(DEBUG - 1) : LevelNames[n] = word} = plain OBVIOUS
  <1>2. {n \in DOMAIN DebugNames : DebugNames[n] = word} = {}
    <2>1. PICK n \in 1..7 : LevelNames[n] = word BY DEF DEBUG
    <2>2. word \in {"emerg", "alert", "crit", "error", "warn", "notice", "info"}
      BY <2>1 DEF LevelNames
    <2> QED BY <2>2 DEF DebugNames
  <1> QED BY <1>1, <1>2, Zenon DEF SetLevel

LEMMA OneWord ==
    ASSUME NEW words, NEW n \in Nat, NEW v, LevelAfter(words, n, v)
    PROVE  LevelAfter(words, n + 1, SetLevel(v, words[n + 1]))
  <1> DEFINE word == words[n + 1]
             plain == {i \in 1..(DEBUG - 1) : LevelNames[i] = word}
             bits == {i \in DOMAIN DebugNames : DebugNames[i] = word}
             w == SetLevel(v, word)
  <1> HIDE DEF word
  <1>1. CASE v = Invalid
    <2>1. v # 0 /\ v % DebugBit(1) # 0 BY <1>1 DEF Invalid, DebugBit, DebugBits
    <2>2. w = Invalid BY <1>1, <2>1, Zenon DEF SetLevel
    <2> QED BY <2>2 DEF LevelAfter, word
  <1>2. CASE v # Invalid /\ plain # {} /\ v = 0
    <2>1. plain \in SUBSET Nat BY DEF DEBUG
    <2>2. FirstOf(plain) \in plain
      <3> HIDE DEF plain
      <3> QED BY <1>2, <2>1, FirstOfIn
    <2>3. w = FirstOf(plain)
      <3>1. plain = {i \in 1..(DEBUG - 1) : LevelNames[i] = word} OBVIOUS
      <3> HIDE DEF plain
      <3> QED BY <3>1, <1>2, PlainWord
    <2>4. n = 0 BY <1>2 DEF LevelAfter, Invalid, DEBUG
    <2>5. w \in 1..(DEBUG - 1) /\ LevelNames[w] = word BY <2>2, <2>3
    <2> HIDE DEF w
    <2> QED BY <2>4, <2>5 DEF LevelAfter, word, w
  <1>3. CASE v # Invalid /\ ~(plain # {} /\ v = 0) /\ bits # {} /\ v % DebugBit(1) = 0
    <2> DEFINE i == FirstOf(bits)
    <2>1. bits \in SUBSET Nat BY DEF DebugNames
    <2>2. i \in bits
      <3> HIDE DEF bits
      <3> QED BY <1>3, <2>1, FirstOfIn
    <2>3. w = IF HasBit(v, i) THEN v ELSE v + DebugBit(i) BY <1>3, Zenon DEF SetLevel
    <2>4. PICK b \in Nat : b >= 1 /\ DebugBit(i) = 16 * b BY <2>2, DebugBitsAre
    <2>5. IsDebug(word) BY <2>2 DEF IsDebug
    <2>6. v = 0 \/ \E k \in Nat : k >= 1 /\ v = 16 * k
      <3>1. DebugBit(1) = 16 BY DEF DebugBit, DebugBits
      <3>2. ~(v \in 1..(DEBUG - 1)) BY <3>1, <1>3 DEF DEBUG
      <3> QED BY <1>3, <3>2 DEF LevelAfter
    <2>7. \A j \in 1..n : IsDebug(words[j])
      <3>1. ~(v \in 1..(DEBUG - 1)) BY <2>6 DEF DEBUG
      <3> QED BY <1>3, <3>1 DEF LevelAfter
    <2>8. \E k \in Nat : k >= 1 /\ w = 16 * k
      <3>1. CASE v = 0
        <4>1. ~HasBit(v, i)
          <5>1. 0 \div DebugBit(i) = 0 BY <2>4
          <5> QED BY <3>1, <5>1 DEF HasBit
        <4> QED BY <3>1, <4>1, <2>3, <2>4
      <3>2. CASE v # 0
        <4>1. PICK k \in Nat : k >= 1 /\ v = 16 * k BY <3>2, <2>6
        <4>2. w = 16 * k \/ w = 16 * (k + b) BY <4>1, <2>3, <2>4
        <4>3. k + b \in Nat /\ k + b >= 1 BY <4>1
        <4> HIDE DEF w
        <4> QED BY <4>1, <4>2, <4>3
      <3> QED BY <3>1, <3>2
    <2>9. \A j \in 1..(n + 1) : IsDebug(words[j]) BY <2>5, <2>7 DEF word
    <2> HIDE DEF w
    <2> QED BY <2>8, <2>9 DEF LevelAfter, w, word
  <1>4. CASE v # Invalid /\ ~(plain # {} /\ v = 0) /\ ~(bits # {} /\ v % DebugBit(1) = 0)
    <2>1. w = Invalid BY <1>4, Zenon DEF SetLevel
    <2> QED BY <2>1 DEF LevelAfter, word
  <1> QED BY <1>1, <1>2, <1>3, <1>4

LEMMA LevelsAfter ==
    ASSUME NEW words, IsSeq(words), words # <<>>
    PROVE  LevelAfter(words, Len(words), SetLevels(words))
  <1> DEFINE level == CHOOSE f : LevelSteps(f, words)
             T == {n \in Nat : n <= Len(words) => LevelAfter(words, n, level[n])}
  <1>1. Len(words) \in Nat BY SeqParts
  <1>2. SetLevels(words) = level[Len(words)]
    <2>1. SetLevels(words) = IF words = <<>> THEN ERR ELSE level[Len(words)]
      BY DEF SetLevels, LevelSteps
    <2> QED BY <2>1
  <1>3. LevelSteps(level, words) BY <1>1, LevelsExist
  <1> HIDE DEF level
  <1>4. level[0] = 0 /\ \A n \in 1..Len(words) : level[n] = SetLevel(level[n - 1], words[n])
    BY <1>1, <1>3 DEF LevelSteps
  <1>5. 0 \in T BY <1>4 DEF LevelAfter
  <1>6. ASSUME NEW n \in Nat, n \in T PROVE n + 1 \in T
    <2> SUFFICES ASSUME n + 1 <= Len(words) PROVE LevelAfter(words, n + 1, level[n + 1])
      OBVIOUS
    <2>1. n <= Len(words) /\ n + 1 \in 1..Len(words) /\ (n + 1) - 1 = n BY <1>1
    <2>2. LevelAfter(words, n, level[n]) BY <2>1, <1>6
    <2>3. level[n + 1] = SetLevel(level[n], words[n + 1]) BY <2>1, <1>4
    <2> QED BY <2>2, <2>3, OneWord
  <1> HIDE DEF T
  <1>7. Nat \subseteq T BY <1>5, <1>6, NatSetInduction
  <1>8. LevelAfter(words, Len(words), level[Len(words)])
    <2>1. Len(words) \in T BY <1>1, <1>7
    <2> QED BY <2>1, <1>1 DEF T
  <1> QED BY <1>2, <1>8

\* A log of a directive wants the messages its words ask for, by their meaning.
LEMMA LevelsMeant ==
    ASSUME NEW d, IsSeq(d.words), SetLevels(d.words) # Invalid
    PROVE  /\ SetLevels(d.words) \in Nat \ {0}
           /\ \A level \in 1..(DEBUG - 1) : Wants(d, level) <=> SetLevels(d.words) >= level
  <1> DEFINE words == d.words
             v == SetLevels(words)
             plain == {n \in DOMAIN LevelNames : LevelNames[n] \in ToSet(words)}
  <1>1. Len(words) \in Nat /\ DOMAIN words = 1..Len(words) BY SeqParts
  <1>2. CASE words = <<>>
    <2>1. v = 4 BY <1>2 DEF SetLevels, ERR
    <2>2. \A level : Wants(d, level) <=> level <= ERR
      <3>1. plain = {} BY <1>2 DEF ToSet
      <3> HIDE DEF v
      <3> QED BY <3>1, <1>2, Zenon DEF Wants
    <2> HIDE DEF v
    <2> QED BY <2>1, <2>2 DEF ERR, DEBUG, v
  <1>3. CASE words # <<>>
    <2>1. LevelAfter(words, Len(words), v) /\ Len(words) # 0
      <3>1. Len(words) # 0 BY <1>3 DEF IsSeq
      <3> QED BY <3>1, <1>3, LevelsAfter
    <2>2. \A level : Wants(d, level) <=> (plain # {} => \A n \in plain : level <= n)
      BY <1>3, Zenon DEF Wants
    <2> HIDE DEF v
    <2>3. CASE Len(words) = 1 /\ v \in 1..(DEBUG - 1) /\ words[1] = LevelNames[v]
      <3>1. ToSet(words) = {LevelNames[v]} BY <2>3, <1>1 DEF ToSet
      <3>2. plain = {v} BY <2>3, <3>1 DEF LevelNames, DEBUG
      <3> HIDE DEF plain
      <3> QED BY <2>2, <2>3, <3>2 DEF v, DEBUG
    <2>4. CASE /\ \A i \in 1..Len(words) : IsDebug(words[i])
               /\ \E k \in Nat : k >= 1 /\ v = 16 * k
      <3>1. plain = {}
        <4> SUFFICES ASSUME NEW n \in DOMAIN LevelNames, LevelNames[n] \in ToSet(words)
                     PROVE  FALSE
          OBVIOUS
        <4>1. IsDebug(LevelNames[n]) BY <1>1, <2>4 DEF ToSet
        <4> QED BY <4>1 DEF IsDebug, DebugNames, LevelNames
      <3>2. v \in Nat /\ v >= 16 BY <2>4
      <3> HIDE DEF plain
      <3> QED BY <2>2, <3>1, <3>2 DEF v, DEBUG
    <2>5. v # Invalid BY DEF v
    <2> QED BY <2>1, <2>3, <2>4, <2>5 DEF LevelAfter
  <1> QED BY <1>2, <1>3

-----------------------------------------------------------------------------
(* The chain in its order.                                                   *)

\* The positions 1..m in some order.
Order(s, m) ==
    /\ s \in [1..m -> 1..m]
    /\ \A j, k \in 1..m : s[j] = s[k] => j = k
    /\ \A l \in 1..m : \E k \in 1..m : s[k] = l

\* The position m + 1 is put at place p of an order.
Put(s, p, m) ==
    [j \in 1..(m + 1) |-> IF j < p THEN s[j] ELSE IF j = p THEN m + 1 ELSE s[j - 1]]

\* The logs in the order in which a loop comes to them: the higher the sooner.
Linked(logs, s, m) ==
    /\ Order(s, m) /\ Len(logs) = m /\ s[1] = 1
    /\ \A k \in 1..m : logs[s[k]].next = IF k = m THEN 0 ELSE s[k + 1]
    /\ \A j, k \in 1..m : j <= k => logs[s[k]].log_level <= logs[s[j]].log_level

\* They are those of the first m directives, each with what its directive says.
Asking(logs, s, all, q, m) ==
    /\ Order(q, m)
    /\ \A k \in 1..m :
         /\ logs[s[k]].log_level = SetLevels(all[q[k]].words)
         /\ Target(logs[s[k]]) = TargetOf(all, q[k])

Chain(logs, all, m) ==
    IF m = 0 THEN Len(logs) = 1 /\ SameSay(logs[1], NewLog) /\ logs[1].next = 0
    ELSE \E s, q : Linked(logs, s, m) /\ Asking(logs, s, all, q, m)

LEMMA PutParts ==
    ASSUME NEW m \in Nat, NEW s, NEW p \in 1..(m + 1)
    PROVE  /\ \A j \in 1..(p - 1) : Put(s, p, m)[j] = s[j]
           /\ Put(s, p, m)[p] = m + 1
           /\ \A j \in (p + 1)..(m + 1) : Put(s, p, m)[j] = s[j - 1]
  <1>1. ASSUME NEW j \in 1..(m + 1)
        PROVE  Put(s, p, m)[j] = IF j < p THEN s[j] ELSE IF j = p THEN m + 1 ELSE s[j - 1]
    BY DEF Put
  <1>2. ASSUME NEW j \in 1..(p - 1) PROVE Put(s, p, m)[j] = s[j]
    <2>1. j \in 1..(m + 1) /\ j < p OBVIOUS
    <2> QED BY <2>1, <1>1
  <1>3. Put(s, p, m)[p] = m + 1
    <2>1. ~(p < p) OBVIOUS
    <2> QED BY <2>1, <1>1
  <1>4. ASSUME NEW j \in (p + 1)..(m + 1) PROVE Put(s, p, m)[j] = s[j - 1]
    <2>1. j \in 1..(m + 1) /\ ~(j < p) /\ j # p OBVIOUS
    <2> QED BY <2>1, <1>1
  <1> QED BY <1>2, <1>3, <1>4

LEMMA PutOrder ==
    ASSUME NEW m \in Nat, NEW s, Order(s, m), NEW p \in 1..(m + 1)
    PROVE  Order(Put(s, p, m), m + 1)
  <1> DEFINE t == Put(s, p, m)
  <1>1. /\ \A j \in 1..(p - 1) : t[j] = s[j]
        /\ t[p] = m + 1
        /\ \A j \in (p + 1)..(m + 1) : t[j] = s[j - 1]
    BY PutParts
  <1>2. t = [j \in 1..(m + 1) |-> t[j]] BY DEF Put
  <1> HIDE DEF t
  <1>3. /\ \A j \in 1..m : s[j] \in 1..m
        /\ \A j, k \in 1..m : s[j] = s[k] => j = k
        /\ \A l \in 1..m : \E k \in 1..m : s[k] = l
    BY DEF Order
  <1>4. ASSUME NEW j \in 1..(m + 1)
        PROVE  \/ j < p /\ j \in 1..m /\ t[j] = s[j]
               \/ j = p /\ t[j] = m + 1
               \/ j > p /\ j - 1 \in 1..m /\ t[j] = s[j - 1]
    BY <1>1
  <1>5. ASSUME NEW j \in 1..(m + 1) PROVE t[j] \in 1..(m + 1)
    <2>1. \A i \in 1..m : s[i] \in 1..(m + 1) BY <1>3
    <2> QED BY <2>1, <1>4
  <1>6. ASSUME NEW j \in 1..(m + 1), NEW k \in 1..(m + 1), t[j] = t[k] PROVE j = k
    <2> DEFINE u(i) == IF i < p THEN i ELSE i - 1
    <2>1. \A i \in 1..m : s[i] # m + 1 BY <1>3
    <2>2. \A i, h \in 1..m : s[i] = s[h] => i = h BY <1>3
    <2>3. \A i \in 1..(m + 1) : i # p => u(i) \in 1..m /\ t[i] = s[u(i)] BY <1>4
    <2>4. \A i, h \in 1..(m + 1) : i # p /\ h # p /\ u(i) = u(h) => i = h OBVIOUS
    <2> HIDE DEF u
    <2>5. CASE j = p
      <3>1. t[k] = m + 1 BY <2>5, <1>1, <1>6
      <3> QED BY <3>1, <2>1, <2>3, <2>5
    <2>6. CASE k = p
      <3>1. t[j] = m + 1 BY <2>6, <1>1, <1>6
      <3> QED BY <3>1, <2>1, <2>3, <2>6
    <2>7. CASE j # p /\ k # p
      <3>1. u(j) = u(k) BY <2>2, <2>3, <2>7, <1>6
      <3> QED BY <3>1, <2>4, <2>7
    <2> QED BY <2>5, <2>6, <2>7
  <1>7. ASSUME NEW l \in 1..(m + 1) PROVE \E k \in 1..(m + 1) : t[k] = l
    <2>1. CASE l = m + 1 BY <2>1, <1>1
    <2>2. CASE l # m + 1
      <3>1. PICK k \in 1..m : s[k] = l BY <2>2, <1>3
      <3>2. CASE k < p
        <4>1. t[k] = l /\ k \in 1..(m + 1) BY <3>1, <3>2, <1>1
        <4> QED BY <4>1
      <3>3. CASE k >= p
        <4>1. k + 1 \in (p + 1)..(m + 1) /\ (k + 1) - 1 = k BY <3>3
        <4>2. t[k + 1] = l BY <4>1, <3>1, <1>1
        <4> QED BY <4>1, <4>2
      <3> QED BY <3>2, <3>3
    <2> QED BY <2>1, <2>2
  <1>8. t \in [1..(m + 1) -> 1..(m + 1)]
    <2>1. [j \in 1..(m + 1) |-> t[j]] \in [1..(m + 1) -> 1..(m + 1)] BY <1>5
    <2> QED BY <2>1, <1>2
  <1> QED BY <1>6, <1>7, <1>8 DEF Order, t

\* A chain that is one longer: the new log has place p, and its directive too.
LEMMA ChainPut ==
    ASSUME NEW m \in Nat, m # 0, NEW logs, NEW s, Linked(logs, s, m), NEW all, NEW q,
           Asking(logs, s, all, q, m), \A l \in 1..m : logs[l].log_level \in Int,
           NEW x, x.log_level = SetLevels(all[m + 1].words), x.log_level \in Int,
           Target(x) = TargetOf(all, m + 1),
           NEW new, Len(new) = m + 1, NEW p \in 1..(m + 1),
           NEW t, Order(t, m + 1), t[1] = 1,
           \A k \in 1..(m + 1) : new[t[k]].next = IF k = m + 1 THEN 0 ELSE t[k + 1],
           \A k \in 1..(p - 1) : SameSay(new[t[k]], logs[s[k]]),
           SameSay(new[t[p]], x),
           \A k \in (p + 1)..(m + 1) : SameSay(new[t[k]], logs[s[k - 1]]),
           \A k \in 1..(p - 1) : logs[s[k]].log_level >= x.log_level,
           \A k \in p..m : logs[s[k]].log_level <= x.log_level
    PROVE  Chain(new, all, m + 1)
  <1> DEFINE r == Put(q, p, m)
  <1>1. /\ \A j \in 1..(p - 1) : r[j] = q[j]
        /\ r[p] = m + 1
        /\ \A j \in (p + 1)..(m + 1) : r[j] = q[j - 1]
    BY PutParts
  <1>2. Order(r, m + 1) BY PutOrder DEF Asking
  <1> HIDE DEF r
  <1>3. /\ \A j \in 1..m : s[j] \in 1..m
        /\ \A j, k \in 1..m : j <= k => logs[s[k]].log_level <= logs[s[j]].log_level
    BY DEF Linked, Order
  <1> DEFINE lv(k) == logs[s[k]].log_level
             nv(k) == new[t[k]].log_level
  <1>4. \A k \in 1..m : lv(k) \in Int BY <1>3
  <1>5. /\ \A k \in 1..(p - 1) : nv(k) = lv(k) /\ lv(k) >= x.log_level
        /\ nv(p) = x.log_level
        /\ \A k \in (p + 1)..(m + 1) : nv(k) = lv(k - 1)
        /\ \A k \in p..m : lv(k) <= x.log_level
    BY DEF SameSay
  <1>6. \A j, k \in 1..m : j <= k => lv(k) <= lv(j) BY <1>3
  <1>7. ASSUME NEW j \in 1..(m + 1), NEW k \in 1..(m + 1), j <= k PROVE nv(k) <= nv(j)
    <2> HIDE DEF lv, nv
    <2>1. CASE k < p
      <3>1. k \in 1..(p - 1) /\ j \in 1..(p - 1) /\ j \in 1..m /\ k \in 1..m BY <2>1, <1>7
      <3> QED BY <3>1, <1>5, <1>6, <1>7
    <2>2. CASE k = p
      <3>1. CASE j = p BY <2>2, <3>1, <1>5
      <3>2. CASE j # p
        <4>1. j \in 1..(p - 1) BY <3>2, <2>2, <1>7
        <4> QED BY <4>1, <2>2, <1>5
      <3> QED BY <3>1, <3>2
    <2>3. CASE k > p
      <3>1. k \in (p + 1)..(m + 1) /\ k - 1 \in p..m /\ k - 1 \in 1..m BY <2>3
      <3>2. nv(k) = lv(k - 1) /\ lv(k - 1) <= x.log_level BY <3>1, <1>5
      <3>3. CASE j < p
        <4>1. j \in 1..(p - 1) /\ j \in 1..m /\ j <= k - 1 BY <3>3, <2>3
        <4> QED BY <4>1, <3>1, <3>2, <1>5, <1>6
      <3>4. CASE j = p BY <3>4, <3>2, <1>5
      <3>5. CASE j > p
        <4>1. j \in (p + 1)..(m + 1) /\ j - 1 \in 1..m /\ j - 1 <= k - 1 BY <3>5, <1>7
        <4> QED BY <4>1, <3>1, <3>2, <1>5, <1>6
      <3> QED BY <3>3, <3>4, <3>5
    <2> QED BY <2>1, <2>2, <2>3
  <1>8. Linked(new, t, m + 1) BY <1>7 DEF Linked
  <1>9. \A k \in 1..m : /\ logs[s[k]].log_level = SetLevels(all[q[k]].words)
                        /\ Target(logs[s[k]]) = TargetOf(all, q[k])
    BY DEF Asking
  <1>10. ASSUME NEW k \in 1..(m + 1)
         PROVE  /\ new[t[k]].log_level = SetLevels(all[r[k]].words)
                /\ Target(new[t[k]]) = TargetOf(all, r[k])
    <2>1. \A a, b : SameSay(a, b) => a.log_level = b.log_level /\ Target(a) = Target(b)
      BY DEF SameSay, Target
    <2>2. CASE k < p
      <3>1. k \in 1..(p - 1) /\ k \in 1..m BY <2>2
      <3>2. r[k] = q[k] /\ SameSay(new[t[k]], logs[s[k]]) BY <3>1, <1>1
      <3> QED BY <3>1, <3>2, <2>1, <1>9
    <2>3. CASE k = p
      <3>1. r[k] = m + 1 /\ SameSay(new[t[k]], x) BY <2>3, <1>1
      <3> QED BY <3>1, <2>1
    <2>4. CASE k > p
      <3>1. k \in (p + 1)..(m + 1) /\ k - 1 \in 1..m BY <2>4
      <3>2. r[k] = q[k - 1] /\ SameSay(new[t[k]], logs[s[k - 1]]) BY <3>1, <1>1
      <3>3. /\ new[t[k]].log_level = logs[s[k - 1]].log_level
            /\ Target(new[t[k]]) = Target(logs[s[k - 1]])
        BY ONLY <3>2, <2>1
      <3>4. /\ logs[s[k - 1]].log_level = SetLevels(all[q[k - 1]].words)
            /\ Target(logs[s[k - 1]]) = TargetOf(all, q[k - 1])
        BY ONLY <3>1, <1>9
      <3> QED BY ONLY <3>2, <3>3, <3>4
    <2> QED BY <2>2, <2>3, <2>4
  <1>11. Asking(new, t, all, r, m + 1) BY <1>2, <1>10 DEF Asking
  <1>12. m + 1 # 0 OBVIOUS
  <1> QED BY <1>8, <1>11, <1>12 DEF Chain

\* An order of one.
LEMMA OneOrder ==
    ASSUME NEW s, s = [k \in 1..1 |-> 1]
    PROVE  Order(s, 1) /\ s[1] = 1
  <1>1. 1..1 = {1} OBVIOUS
  <1>2. s[1] = 1 /\ s = [k \in {1} |-> 1] BY <1>1
  <1>3. s \in [{1} -> {1}] BY <1>2
  <1> QED BY <1>1, <1>2, <1>3 DEF Order

LEMMA FirstChain ==
    ASSUME NEW new, Len(new) = 1, NEW x, new[1] = x, x.next = 0, NEW all,
           x.log_level = SetLevels(all[1].words), x.log_level \in Int,
           Target(x) = TargetOf(all, 1)
    PROVE  Chain(new, all, 1)
  <1> DEFINE s == [k \in 1..1 |-> 1]
  <1>1. Order(s, 1) /\ s[1] = 1 BY OneOrder
  <1> HIDE DEF s
  <1>2. \A k \in 1..1 : k = 1 OBVIOUS
  <1>3. Linked(new, s, 1) BY <1>1, <1>2 DEF Linked
  <1>4. Asking(new, s, all, s, 1) BY <1>1, <1>2 DEF Asking
  <1> QED BY <1>3, <1>4 DEF Chain

\* A new log of a higher level than the head.
LEMMA ChainBefore ==
    ASSUME NEW logs, NEW m \in Nat, m # 0, DOMAIN logs = 1..m, NEW s, Linked(logs, s, m),
           NEW all, NEW q, Asking(logs, s, all, q, m), \A l \in 1..m : logs[l].log_level \in Int,
           \A l \in 1..m : IsLog(logs[l]),
           NEW x, IsLog(x), x.log_level = SetLevels(all[m + 1].words), x.log_level \in Int,
           Target(x) = TargetOf(all, m + 1),
           NEW new, BeforeHead(logs, x, new)
    PROVE  Chain(new, all, m + 1)
  <1> DEFINE t == Put(s, 2, m)
  <1>1. /\ x.log_level > logs[1].log_level /\ Len(logs) = m /\ Len(new) = m + 1
        /\ new[1] = Relinked(x, m + 1) /\ new[m + 1] = logs[1]
        /\ \A l \in DOMAIN logs \ {1} : new[l] = logs[l]
    BY DEF BeforeHead, Linked
  <1>2. /\ Order(s, m) /\ s[1] = 1
        /\ \A k \in 1..m : logs[s[k]].next = IF k = m THEN 0 ELSE s[k + 1]
        /\ \A j, k \in 1..m : j <= k => logs[s[k]].log_level <= logs[s[j]].log_level
    BY DEF Linked
  <1>3. Order(t, m + 1)
    <2>1. 2 \in 1..(m + 1) OBVIOUS
    <2> QED BY <2>1, <1>2, PutOrder
  <1>4. /\ \A j \in 1..1 : t[j] = s[j]
        /\ t[2] = m + 1
        /\ \A j \in 3..(m + 1) : t[j] = s[j - 1]
    <2>1. 2 \in 1..(m + 1) /\ 2 - 1 = 1 /\ 2 + 1 = 3 OBVIOUS
    <2> QED BY <2>1, PutParts
  <1> HIDE DEF t
  <1>5. t[1] = 1 BY <1>2, <1>4
  <1>6. new[1].next = m + 1 /\ SameSay(new[1], x) BY <1>1, LogFields
  <1>7. \A k \in 2..m : s[k] \in DOMAIN logs \ {1}
    <2> TAKE k \in 2..m
    <2>1. k \in 1..m /\ 1 \in 1..m /\ k # 1 OBVIOUS
    <2>2. s[k] \in 1..m /\ s[k] # s[1] BY <2>1, <1>2 DEF Order
    <2> QED BY <2>2, <1>2
  <1>8. ASSUME NEW k \in 1..(m + 1) PROVE new[t[k]].next = IF k = m + 1 THEN 0 ELSE t[k + 1]
    <2>1. CASE k = 1 BY <2>1, <1>4, <1>5, <1>6
    <2>2. CASE k = 2
      <3>1. 1 \in 1..m OBVIOUS
      <3>2. new[t[k]].next = IF m = 1 THEN 0 ELSE s[2] BY <2>2, <3>1, <1>1, <1>2, <1>4
      <3>3. CASE m = 1 BY <3>2, <3>3, <2>2
      <3>4. CASE m # 1
        <4>1. 3 \in 3..(m + 1) BY <3>4
        <4>2. t[3] = s[2] BY <4>1, <1>4
        <4>3. k # m + 1 /\ k + 1 = 3 BY <3>4, <2>2
        <4> QED BY <3>2, <3>4, <4>2, <4>3
      <3> QED BY <3>3, <3>4
    <2>3. CASE k > 2
      <3>1. k \in 3..(m + 1) /\ k - 1 \in 2..m /\ k - 1 \in 1..m /\ (k - 1) + 1 = k BY <2>3
      <3>2. new[t[k]].next = IF k - 1 = m THEN 0 ELSE s[k]
        <4>1. new[t[k]] = logs[s[k - 1]] BY <3>1, <1>1, <1>4, <1>7
        <4>2. logs[s[k - 1]].next = IF k - 1 = m THEN 0 ELSE s[(k - 1) + 1] BY <3>1, <1>2
        <4> QED BY <4>1, <4>2, <3>1
      <3>3. CASE k = m + 1
        <4>1. k - 1 = m BY <3>3
        <4> QED BY <3>2, <3>3, <4>1
      <3>4. CASE k # m + 1
        <4>1. k - 1 # m /\ k + 1 \in 3..(m + 1) /\ (k + 1) - 1 = k BY <3>1, <3>4
        <4>2. t[k + 1] = s[k] BY <4>1, <1>4
        <4> QED BY <3>2, <3>4, <4>1, <4>2
      <3> QED BY <3>3, <3>4
    <2> QED BY <2>1, <2>2, <2>3
  <1>9. ASSUME NEW k \in 2..(m + 1) PROVE SameSay(new[t[k]], logs[s[k - 1]])
    <2>1. CASE k = 2
      <3>1. k - 1 = 1 BY <2>1
      <3> QED BY <2>1, <3>1, <1>1, <1>2, <1>4 DEF SameSay
    <2>2. CASE k # 2
      <3>1. k \in 3..(m + 1) /\ k - 1 \in 2..m BY <2>2
      <3>2. new[t[k]] = logs[s[k - 1]] BY <3>1, <1>1, <1>4, <1>7
      <3> QED BY <3>2 DEF SameSay
    <2> QED BY <2>1, <2>2
  <1>10. ASSUME NEW k \in 1..m PROVE logs[s[k]].log_level <= x.log_level
    <2>1. 1 \in 1..m /\ 1 <= k OBVIOUS
    <2>2. s[k] \in 1..m BY ONLY <1>2, k \in 1..m DEF Order
    <2>3. logs[s[k]].log_level <= logs[1].log_level BY <2>1, <2>2, <1>2
    <2> QED BY <2>2, <2>3, <1>1
  <1>11. /\ 1 \in 1..(m + 1) /\ 1 + 1 = 2
         /\ SameSay(new[t[1]], x) /\ \A k \in 1..(1 - 1) : FALSE
    BY <1>5, <1>6
  <1>12. Len(new) = m + 1 BY <1>1
  <1> QED BY <1>3, <1>5, <1>8, <1>9, <1>10, <1>11, <1>12, ChainPut

\* A new log that goes behind another.
LEMMA ChainBehind ==
    ASSUME NEW logs, NEW m \in Nat, m # 0, DOMAIN logs = 1..m, NEW s, Linked(logs, s, m),
           NEW all, NEW q, Asking(logs, s, all, q, m), \A l \in 1..m : logs[l].log_level \in Int,
           \A l \in 1..m : IsLog(logs[l]),
           NEW x, IsLog(x), x.log_level = SetLevels(all[m + 1].words), x.log_level \in Int,
           Target(x) = TargetOf(all, m + 1),
           NEW new, NEW b, Behind(logs, x, new, b)
    PROVE  Chain(new, all, m + 1)
  <1>1. /\ ~(x.log_level > logs[1].log_level) /\ Len(logs) = m /\ Len(new) = m + 1
        /\ b \in 1..m /\ FitsBehind(logs, x, b) /\ GetsTo(logs, x, b)
        /\ new[m + 1] = Relinked(x, logs[b].next) /\ new[b] = Relinked(logs[b], m + 1)
        /\ \A l \in 1..m \ {b} : new[l] = logs[l]
    BY DEF Behind, Linked
  <1>2. /\ Order(s, m) /\ s[1] = 1
        /\ \A k \in 1..m : logs[s[k]].next = IF k = m THEN 0 ELSE s[k + 1]
        /\ \A j, k \in 1..m : j <= k => logs[s[k]].log_level <= logs[s[j]].log_level
    BY DEF Linked
  <1>3. /\ \A k \in 1..m : s[k] \in 1..m
        /\ \A j, k \in 1..m : s[j] = s[k] => j = k
        /\ \A l \in 1..m : \E k \in 1..m : s[k] = l
    BY <1>2 DEF Order
  <1>4. PICK i \in 1..m : s[i] = b BY <1>1, <1>3
  <1> DEFINE p == i + 1
             t == Put(s, p, m)
  <1>5. p \in 1..(m + 1) /\ p - 1 = i BY <1>4
  <1>6. Order(t, m + 1) BY <1>2, <1>5, PutOrder
  <1>7. /\ \A j \in 1..i : t[j] = s[j]
        /\ t[i + 1] = m + 1
        /\ \A j \in (p + 1)..(m + 1) : t[j] = s[j - 1]
    BY <1>5, PutParts
  <1> HIDE DEF t
  <1>8. t[1] = 1
    <2>1. 1 \in 1..i OBVIOUS
    <2> QED BY <2>1, <1>2, <1>7
  <1>9. /\ new[b].next = m + 1 /\ SameSay(new[b], logs[b])
        /\ new[m + 1].next = logs[b].next /\ SameSay(new[m + 1], x)
    BY <1>1, LogFields
  \* No log before b is one that x fits behind.
  <1>10. ASSUME NEW j \in 1..m, j < i, FitsBehind(logs, x, s[j]) PROVE FALSE
    <2> DEFINE S == {s[k] : k \in 1..j}
    <2>1. S \in SUBSET DOMAIN logs
      <3>1. \A k \in 1..j : k \in 1..m OBVIOUS
      <3> QED BY ONLY <3>1, <1>3, DOMAIN logs = 1..m
    <2>2. 1 \in S
      <3>1. 1 \in 1..j OBVIOUS
      <3> QED BY <3>1, <1>2
    <2>3. ASSUME NEW l \in S, ~FitsBehind(logs, x, l) PROVE logs[l].next \in S
      <3>1. PICK k \in 1..j : l = s[k] BY <2>3
      <3>2. k # j BY <3>1, <2>3, <1>10
      <3>3. k + 1 \in 1..j /\ k \in 1..m /\ k # m BY <3>1, <3>2
      <3>4. logs[l].next = s[k + 1] BY <3>1, <3>3, <1>2
      <3> QED BY <3>3, <3>4
    <2>4. b \in S
      <3> HIDE DEF S
      <3> QED BY <2>1, <2>2, <2>3, <1>1 DEF GetsTo
    <2>5. PICK k \in 1..j : s[i] = s[k] BY <2>4, <1>4
    <2>6. k \in 1..m /\ k # i BY <2>5, <1>10
    <2> QED BY <2>5, <2>6, <1>3
  <1>11. ASSUME NEW k \in 1..i PROVE logs[s[k]].log_level >= x.log_level
    <2>1. CASE k = 1
      <3>1. 1 \in 1..m OBVIOUS
      <3> QED BY <2>1, <3>1, <1>1, <1>2
    <2>2. CASE k # 1
      <3>1. k - 1 \in 1..m /\ k - 1 < i /\ k \in 1..m /\ k - 1 # m /\ (k - 1) + 1 = k BY <2>2
      <3>2. ~FitsBehind(logs, x, s[k - 1]) BY <3>1, <1>10
      <3>3. logs[s[k - 1]].next = s[k] BY <3>1, <1>2
      <3>4. ~(x.log_level > logs[s[k]].log_level) BY <3>2, <3>3 DEF FitsBehind
      <3>5. logs[s[k]].log_level \in Int BY <3>1, <1>3
      <3> QED BY <3>4, <3>5
    <2> QED BY <2>1, <2>2
  <1>12. ASSUME NEW k \in p..m PROVE logs[s[k]].log_level <= x.log_level
    <2>1. i # m /\ p \in 1..m /\ k \in 1..m /\ p <= k BY <1>4
    <2>2. logs[b].next = s[p] BY <2>1, <1>2, <1>4
    <2>3. s[p] \in 1..m /\ s[k] \in 1..m BY <2>1, <1>3
    <2>4. x.log_level > logs[s[p]].log_level BY <2>2, <2>3, <1>1 DEF FitsBehind
    <2>5. logs[s[k]].log_level <= logs[s[p]].log_level BY <2>1, <1>2
    <2> QED BY <2>3, <2>4, <2>5
  <1>13. ASSUME NEW k \in 1..m, k # i PROVE new[s[k]] = logs[s[k]]
    <2>1. s[k] \in 1..m /\ s[k] # b BY <1>3, <1>4, <1>13
    <2> QED BY <2>1, <1>1
  <1>14. ASSUME NEW k \in 1..(m + 1) PROVE new[t[k]].next = IF k = m + 1 THEN 0 ELSE t[k + 1]
    <2>1. CASE k < i
      <3>1. k \in 1..m /\ k # i /\ k # m /\ k # m + 1 /\ k \in 1..i /\ k + 1 \in 1..i BY <2>1
      <3>2. new[t[k]] = logs[s[k]] /\ t[k + 1] = s[k + 1] BY <3>1, <1>7, <1>13
      <3> QED BY <3>1, <3>2, <1>2
    <2>2. CASE k = i
      <3>1. t[k] = b /\ k # m + 1 BY <2>2, <1>4, <1>7
      <3> QED BY <3>1, <2>2, <1>7, <1>9
    <2>3. CASE k = p
      <3>1. new[t[k]].next = IF i = m THEN 0 ELSE s[p] BY <2>3, <1>2, <1>4, <1>7, <1>9
      <3>2. CASE i = m BY <3>1, <3>2, <2>3
      <3>3. CASE i # m
        <4>1. k + 1 \in (p + 1)..(m + 1) /\ (k + 1) - 1 = p /\ k # m + 1 BY <3>3, <2>3
        <4>2. t[k + 1] = s[p] BY <4>1, <1>7
        <4> QED BY <3>1, <3>3, <4>1, <4>2
      <3> QED BY <3>2, <3>3
    <2>4. CASE k > p
      <3>1. k \in (p + 1)..(m + 1) /\ k - 1 \in 1..m /\ k - 1 # i /\ (k - 1) + 1 = k BY <2>4
      <3>2. new[t[k]].next = IF k - 1 = m THEN 0 ELSE s[k]
        <4>1. new[t[k]] = logs[s[k - 1]] BY <3>1, <1>7, <1>13
        <4>2. logs[s[k - 1]].next = IF k - 1 = m THEN 0 ELSE s[(k - 1) + 1] BY <3>1, <1>2
        <4> QED BY <4>1, <4>2, <3>1
      <3>3. CASE k = m + 1
        <4>1. k - 1 = m BY <3>3
        <4> QED BY <3>2, <3>3, <4>1
      <3>4. CASE k # m + 1
        <4>1. k - 1 # m /\ k + 1 \in (p + 1)..(m + 1) /\ (k + 1) - 1 = k BY <3>1, <3>4
        <4>2. t[k + 1] = s[k] BY <4>1, <1>7
        <4> QED BY <3>2, <3>4, <4>1, <4>2
      <3> QED BY <3>3, <3>4
    <2> QED BY <2>1, <2>2, <2>3, <2>4
  <1>15. ASSUME NEW k \in 1..(p - 1) PROVE SameSay(new[t[k]], logs[s[k]])
    <2>1. k \in 1..i /\ k \in 1..m OBVIOUS
    <2>2. t[k] = s[k] BY <2>1, <1>7
    <2>3. CASE k = i BY <2>2, <2>3, <1>4, <1>9
    <2>4. CASE k # i
      <3>1. new[t[k]] = logs[s[k]] BY <2>1, <2>2, <2>4, <1>13
      <3> QED BY <3>1 DEF SameSay
    <2> QED BY <2>3, <2>4
  <1>16. ASSUME NEW k \in (p + 1)..(m + 1) PROVE SameSay(new[t[k]], logs[s[k - 1]])
    <2>1. k - 1 \in 1..m /\ k - 1 # i OBVIOUS
    <2>2. new[t[k]] = logs[s[k - 1]] BY <2>1, <1>7, <1>13
    <2> QED BY <2>2 DEF SameSay
  <1>17. \A k \in 1..(p - 1) : logs[s[k]].log_level >= x.log_level BY <1>5, <1>11
  <1>18. SameSay(new[t[p]], x) /\ Len(new) = m + 1 BY <1>1, <1>7, <1>9
  <1> HIDE DEF p
  <1> QED BY <1>5, <1>6, <1>8, <1>12, <1>14, <1>15, <1>16, <1>17, <1>18, ChainPut

\* A directive makes the chain longer by a log that has what it says.
LEMMA ChainLonger ==
    ASSUME NEW logs, NEW who, GoodLogs(logs, who), NEW m \in Nat, NEW all, Chain(logs, all, m),
           \A i \in 1..(m + 1) : SetLevels(all[i].words) \in Nat \ {0},
           NEW x, IsLog(x), x.next = 0, x.log_level = SetLevels(all[m + 1].words),
           Target(x) = TargetOf(all, m + 1)
    PROVE  Chain(AddLog(logs, x), all, m + 1)
  <1> DEFINE new == AddLog(logs, x)
  <1>1. /\ IsSeq(logs) /\ Len(logs) >= 1 /\ Acyclic(logs) /\ DOMAIN logs = 1..Len(logs)
        /\ \A l \in DOMAIN logs : IsLog(logs[l]) /\ logs[l].next \in 0..Len(logs)
    BY SeqParts DEF GoodLogs
  <1>2. IntoHead(logs, x, new) \/ BeforeHead(logs, x, new) \/ \E b : Behind(logs, x, new, b)
    BY <1>1, AddLogIs
  <1> HIDE DEF new
  <1>3. x.log_level \in Int
    <2>1. m + 1 \in 1..(m + 1) OBVIOUS
    <2> QED BY <2>1
  <1>4. CASE m = 0
    <2>1. logs[1].log_level = 0 /\ Len(logs) = 1 BY <1>4 DEF Chain, SameSay, NewLog
    <2>2. IntoHead(logs, x, new) BY <1>2, <2>1 DEF BeforeHead, Behind
    <2>3. Len(new) = 1 /\ new[1] = x BY <2>1, <2>2 DEF IntoHead
    <2>4. m + 1 = 1 BY <1>4
    <2> QED BY <1>3, <2>3, <2>4, FirstChain DEF new
  <1>5. CASE m # 0
    <2>1. PICK s, q : Linked(logs, s, m) /\ Asking(logs, s, all, q, m) BY <1>5 DEF Chain
    <2>2. DOMAIN logs = 1..m BY <1>1, <2>1 DEF Linked
    <2>3. \A k \in 1..m : logs[s[k]].log_level \in Nat \ {0}
      <3> TAKE k \in 1..m
      <3>1. q[k] \in 1..m BY <2>1 DEF Asking, Order
      <3>2. q[k] \in 1..(m + 1) BY <3>1
      <3> QED BY <2>1, <3>2 DEF Asking
    <2>4. \A l \in 1..m : logs[l].log_level \in Int
      <3> TAKE l \in 1..m
      <3>1. PICK k \in 1..m : s[k] = l BY <2>1 DEF Linked, Order
      <3> QED BY <3>1, <2>3
    <2>5. ~IntoHead(logs, x, new)
      <3>1. 1 \in 1..m /\ s[1] = 1 BY <1>5, <2>1 DEF Linked
      <3> QED BY <3>1, <2>3 DEF IntoHead
    <2>6. \A l \in 1..m : IsLog(logs[l]) BY <1>1, <2>2
    <2>7. CASE BeforeHead(logs, x, new)
      BY <2>7, <1>3, <1>5, <2>1, <2>2, <2>4, <2>6, ChainBefore DEF new
    <2>8. CASE \E b : Behind(logs, x, new, b)
      <3>1. PICK b : Behind(logs, x, new, b) BY <2>8
      <3> QED BY <3>1, <1>3, <1>5, <2>1, <2>2, <2>4, <2>6, ChainBehind DEF new
    <2> QED BY <1>2, <2>5, <2>7, <2>8
  <1> QED BY <1>4, <1>5

-----------------------------------------------------------------------------
(* What a configuration asks for.                                            *)

\* As the parser gives it.
Sound(d) ==
    /\ IsSeq(d.words) /\ d.to \in {"file", "syslog", "memory"}
    /\ d.to = "file" => d.file # NoFile
Sounds(conf) == IsSeq(conf) /\ \A i \in DOMAIN conf : Sound(conf[i])

LEMMA ConfsSound ==
    ASSUME NEW conf \in Confs
    PROVE  Sounds(conf)
  <1>1. conf \in Seq(Directives) BY SyslogAssumption
  <1>2. IsSeq(conf) BY <1>1, SeqTyped
  <1>3. ASSUME NEW i \in DOMAIN conf PROVE Sound(conf[i])
    <2>1. conf[i] \in Directives BY <1>1, <1>3
    <2>2. conf[i].words \in Seq(STRING) /\ conf[i].to \in {"file", "syslog", "memory"}
      BY <2>1 DEF Directives
    <2>3. conf[i].to = "file" => conf[i].file # NoFile BY SyslogAssumption
    <2> QED BY <2>2, <2>3, SeqTyped DEF Sound
  <1> QED BY <1>2, <1>3 DEF Sounds

\* The directive that hky_log_open_default stands for.
LEMMA DefaultDirective ==
    LET d == FileDirective(DefaultFile, <<>>) IN
    /\ Sound(d) /\ ~Refused(d) /\ d.to = "file" /\ d.file = DefaultFile
    /\ SetLevels(d.words) = ERR
  <1> DEFINE d == FileDirective(DefaultFile, <<>>)
  <1>1. d.to = "file" /\ d.file = DefaultFile /\ d.words = <<>> BY DEF FileDirective
  <1>2. IsSeq(<<>>) BY DEF IsSeq
  <1>3. SetLevels(<<>>) = ERR BY DEF SetLevels
  <1>4. DefaultFile # NoFile BY DEF DefaultFile, NoFile
  <1>5. ERR # Invalid BY DEF ERR, Invalid
  <1> HIDE DEF d
  <1>6. Sound(d) BY <1>1, <1>2, <1>4 DEF Sound
  <1>7. ~Refused(d) BY <1>1, <1>3, <1>5 DEF Refused
  <1> QED BY <1>1, <1>3, <1>6, <1>7 DEF d

NamesFile(conf) == \E i \in DOMAIN conf : conf[i].to = "file"

LEMMA AskedParts ==
    ASSUME NEW conf, Sounds(conf)
    PROVE  LET all == Asked(conf)
               n == Len(conf)
           IN  /\ Sounds(all) /\ n \in Nat
               /\ \A i \in 1..n : all[i] = conf[i]
               /\ NamesFile(conf) => Len(all) = n
               /\ ~NamesFile(conf) =>
                    Len(all) = n + 1 /\ all[n + 1] = FileDirective(DefaultFile, <<>>)
  <1> DEFINE d == FileDirective(DefaultFile, <<>>)
             n == Len(conf)
             all == Asked(conf)
  <1>1. IsSeq(conf) /\ n \in Nat /\ DOMAIN conf = 1..n BY SeqParts DEF Sounds
  <1>2. Sound(d) BY DefaultDirective
  <1>3. CASE NamesFile(conf)
    <2>1. all = conf \o <<>> BY <1>3 DEF Asked, NamesFile
    <2>2. conf \o <<>> = conf BY <1>1, ConcatEmptySeq DEF IsSeq
    <2>3. all = conf BY <2>1, <2>2
    <2> QED BY <1>1, <1>3, <2>3
  <1>4. CASE ~NamesFile(conf)
    <2> DEFINE S == {conf[i] : i \in DOMAIN conf} \cup {d}
    <2>1. all = conf \o <<d>> BY <1>4 DEF Asked, NamesFile
    <2> HIDE DEF d, all
    <2>2. conf \in Seq(S) /\ <<d>> \in Seq(S) /\ Len(<<d>>) = 1 /\ <<d>>[1] = d BY <1>1 DEF IsSeq
    <2> HIDE DEF S
    <2>3. /\ all \in Seq(S) /\ Len(all) = n + 1
          /\ \A i \in 1..(n + 1) : all[i] = IF i <= n THEN conf[i] ELSE <<d>>[i - n]
      BY <2>1, <2>2, ConcatProperties
    <2>4. \A i \in 1..n : all[i] = conf[i]
      <3> TAKE i \in 1..n
      <3>1. i \in 1..(n + 1) /\ i <= n BY <1>1
      <3> QED BY <3>1, <2>3
    <2>5. all[n + 1] = d
      <3>1. n + 1 \in 1..(n + 1) /\ ~(n + 1 <= n) /\ (n + 1) - n = 1 BY <1>1
      <3> QED BY <3>1, <2>2, <2>3
    <2>6. DOMAIN all = 1..(n + 1) BY <2>3
    <2>7. \A i \in DOMAIN all : Sound(all[i])
      <3> TAKE i \in DOMAIN all
      <3>1. i \in 1..n \/ i = n + 1 BY <2>6, <1>1
      <3> QED BY <3>1, <1>1, <1>2, <2>4, <2>5 DEF Sounds
    <2>8. IsSeq(all) BY <2>3, SeqTyped
    <2> QED BY <1>1, <1>4, <2>3, <2>4, <2>5, <2>7, <2>8 DEF Sounds, d, all
  <1> QED BY <1>3, <1>4

LEMMA TakenLevels ==
    ASSUME NEW d, Sound(d), ~Refused(d)
    PROVE  /\ d.to \in {"file", "syslog"} /\ SetLevels(d.words) \in Nat \ {0}
           /\ \A level \in 1..(DEBUG - 1) : Wants(d, level) <=> SetLevels(d.words) >= level
  <1>1. IsSeq(d.words) /\ SetLevels(d.words) # Invalid BY DEF Sound, Refused
  <1>2. d.to \in {"file", "syslog"} BY DEF Sound, Refused
  <1> QED BY <1>1, <1>2, LevelsMeant

-----------------------------------------------------------------------------
(* A cycle whose logs are those of the first m directives that it asks for.  *)

Syslogs(all, m) == {j \in 1..m : all[j].to = "syslog"}

Built(c, m) ==
    LET all == Asked(c.conf) IN
    /\ Sounds(c.conf) /\ m \in 0..Len(all)
    /\ \A i \in 1..m : ~Refused(all[i])
    /\ Len(c.peers) = Cardinality(Syslogs(all, m))
    /\ Chain(c.logs, all, m)
Full(c) == Built(c, Len(Asked(c.conf)))

LEMMA SyslogsGrow ==
    ASSUME NEW all, NEW m \in Nat
    PROVE  /\ Cardinality(Syslogs(all, m)) \in Nat
           /\ Cardinality(Syslogs(all, m + 1)) =
                IF all[m + 1].to = "syslog" THEN Cardinality(Syslogs(all, m)) + 1
                ELSE Cardinality(Syslogs(all, m))
  <1>1. IsFiniteSet(1..m) BY FS_Interval
  <1>2. IsFiniteSet(Syslogs(all, m)) BY <1>1, FS_Subset DEF Syslogs
  <1>3. Cardinality(Syslogs(all, m)) \in Nat BY <1>2, FS_CardinalityType
  <1>4. m + 1 \notin Syslogs(all, m) BY DEF Syslogs
  <1>5. CASE all[m + 1].to = "syslog"
    <2>1. Syslogs(all, m + 1) = Syslogs(all, m) \cup {m + 1} BY <1>5 DEF Syslogs
    <2>2. Cardinality(Syslogs(all, m) \cup {m + 1}) = Cardinality(Syslogs(all, m)) + 1
      BY <1>2, <1>4, FS_AddElement
    <2> QED BY <1>3, <1>5, <2>1, <2>2
  <1>6. CASE all[m + 1].to # "syslog"
    <2>1. Syslogs(all, m + 1) = Syslogs(all, m) BY <1>6 DEF Syslogs
    <2> QED BY <1>3, <1>6, <2>1
  <1> QED BY <1>5, <1>6

LEMMA BuiltLevels ==
    ASSUME NEW c, NEW m, Built(c, m)
    PROVE  LET all == Asked(c.conf) IN
           /\ m \in Nat
           /\ \A i \in 1..m :
                /\ all[i].to \in {"file", "syslog"} /\ SetLevels(all[i].words) \in Nat \ {0}
                /\ all[i].to = "file" => all[i].file # NoFile
                /\ \A level \in 1..(DEBUG - 1) :
                     Wants(all[i], level) <=> SetLevels(all[i].words) >= level
  <1> DEFINE all == Asked(c.conf)
  <1>1. Sounds(all) BY AskedParts DEF Built
  <1>2. DOMAIN all = 1..Len(all) /\ Len(all) \in Nat BY <1>1, SeqParts DEF Sounds
  <1>3. m \in 0..Len(all) /\ \A i \in 1..m : ~Refused(all[i]) BY DEF Built
  <1> HIDE DEF all
  <1>4. \A i \in 1..m : Sound(all[i])
    <2>1. \A i \in 1..m : i \in DOMAIN all BY <1>2, <1>3
    <2> QED BY <1>1, <2>1 DEF Sounds
  <1>5. m \in Nat BY <1>2, <1>3
  <1>6. ASSUME NEW i \in 1..m
        PROVE  /\ all[i].to \in {"file", "syslog"} /\ SetLevels(all[i].words) \in Nat \ {0}
               /\ all[i].to = "file" => all[i].file # NoFile
               /\ \A level \in 1..(DEBUG - 1) :
                    Wants(all[i], level) <=> SetLevels(all[i].words) >= level
    <2>1. Sound(all[i]) /\ ~Refused(all[i]) BY <1>3, <1>4
    <2>2. all[i].to = "file" => all[i].file # NoFile BY <2>1 DEF Sound
    <2> QED BY <2>1, <2>2, TakenLevels
  <1> QED BY <1>5, <1>6 DEF all

-----------------------------------------------------------------------------
(* The logs as calls tell them apart.                                        *)

LEMMA LinkedAlike ==
    ASSUME NEW a, IsSeq(a.logs), NEW b, Alike(a, b), NEW s, NEW m
    PROVE  Linked(a.logs, s, m) <=> Linked(b.logs, s, m)
  <1> DEFINE la == a.logs
             lb == b.logs
  <1>1. /\ Len(lb) = Len(la) /\ DOMAIN la = 1..Len(la)
        /\ \A l \in DOMAIN la : lb[l].log_level = la[l].log_level /\ lb[l].next = la[l].next
    BY SeqParts DEF Alike, SameSay
  <1> SUFFICES ASSUME Len(la) = m, Order(s, m) PROVE Linked(la, s, m) <=> Linked(lb, s, m)
    BY <1>1 DEF Linked
  <1>2. \A k \in 1..m : s[k] \in DOMAIN la BY <1>1 DEF Order
  <1>3. \A k \in 1..m : lb[s[k]].log_level = la[s[k]].log_level /\ lb[s[k]].next = la[s[k]].next
    BY <1>1, <1>2
  <1>4. Len(lb) = m BY <1>1
  <1> HIDE DEF la, lb
  <1> QED BY <1>3, <1>4 DEF Linked

LEMMA ChainAlike ==
    ASSUME NEW a, GoodCycle(a), NEW b, Alike(a, b), NEW all, NEW m, Chain(a.logs, all, m)
    PROVE  Chain(b.logs, all, m)
  <1>1. IsSeq(a.logs) /\ DOMAIN a.logs = 1..Len(a.logs) /\ Len(a.logs) >= 1 /\ Len(a.logs) \in Nat
    BY SeqParts DEF GoodCycle, GoodLogs
  <1>2. /\ Len(b.logs) = Len(a.logs)
        /\ \A l \in DOMAIN a.logs : SameSay(b.logs[l], a.logs[l]) /\ b.logs[l].next = a.logs[l].next
    BY DEF Alike
  <1>3. CASE m = 0
    <2>1. 1 \in DOMAIN a.logs BY <1>1
    <2> QED BY <1>2, <1>3, <2>1 DEF Chain, SameSay
  <1>4. CASE m # 0
    <2>1. PICK s, q : Linked(a.logs, s, m) /\ Asking(a.logs, s, all, q, m) BY <1>4 DEF Chain
    <2>2. Linked(b.logs, s, m) BY <1>1, <2>1, LinkedAlike
    <2>3. \A k \in 1..m : s[k] \in DOMAIN a.logs BY <2>1, <1>1 DEF Linked, Order
    <2>4. \A k \in 1..m : /\ b.logs[s[k]].log_level = a.logs[s[k]].log_level
                          /\ Target(b.logs[s[k]]) = Target(a.logs[s[k]])
      BY <1>2, <2>3 DEF SameSay, Target
    <2>5. Asking(b.logs, s, all, q, m) BY <2>1, <2>4 DEF Asking
    <2> QED BY <1>4, <2>2, <2>5 DEF Chain
  <1> QED BY <1>3, <1>4

LEMMA BuiltAlike ==
    ASSUME NEW a, GoodCycle(a), NEW b, Alike(a, b), NEW m, Built(a, m)
    PROVE  Built(b, m)
  <1>1. b.conf = a.conf /\ GoodCycle(b) /\ DOMAIN b.peers = DOMAIN a.peers BY DEF Alike
  <1>2. Len(b.peers) = Len(a.peers)
    <2>1. IsSeq(b.peers) /\ IsSeq(a.peers) BY <1>1 DEF GoodCycle
    <2>2. 1..Len(b.peers) = 1..Len(a.peers) /\ Len(b.peers) \in Nat /\ Len(a.peers) \in Nat
      BY <1>1, <2>1, SeqParts
    <2> QED BY <2>2
  <1>3. Chain(b.logs, Asked(a.conf), m) BY ChainAlike DEF Built
  <1> QED BY <1>1, <1>2, <1>3 DEF Built

\* A loop over the whole chain comes to every log.
LEMMA VisitedAll ==
    ASSUME NEW logs, NEW who, GoodLogs(logs, who), NEW m \in Nat, NEW s, Linked(logs, s, m),
           NEW k \in 1..m
    PROVE  s[k] \in Visited(logs, DOMAIN logs)
  <1> DEFINE V == Visited(logs, DOMAIN logs)
             T == {n \in Nat : n + 1 <= m => s[n + 1] \in V}
  <1>1. 1 \in V /\ V \subseteq DOMAIN logs /\ \A p \in V : logs[p].next \in V \cup {0}
    <2>1. /\ 1 \in V /\ V \subseteq DOMAIN logs
          /\ \A p \in V \cap DOMAIN logs : logs[p].next \in V \cup {0}
      BY VisitedClosed DEF GoodLogs
    <2> QED BY <2>1
  <1> HIDE DEF V
  <1>2. /\ s[1] = 1 /\ \A i \in 1..m : s[i] \in 1..m
        /\ \A i \in 1..m : logs[s[i]].next = IF i = m THEN 0 ELSE s[i + 1]
    BY DEF Linked, Order
  <1>3. 0 \in T BY <1>1, <1>2
  <1>4. ASSUME NEW n \in Nat, n \in T PROVE n + 1 \in T
    <2> SUFFICES ASSUME (n + 1) + 1 <= m PROVE s[(n + 1) + 1] \in V OBVIOUS
    <2>1. n + 1 \in 1..m /\ n + 1 # m /\ (n + 1) + 1 \in 1..m OBVIOUS
    <2>2. s[n + 1] \in V BY <2>1, <1>4
    <2>3. logs[s[n + 1]].next = s[(n + 1) + 1] BY <2>1, <1>2
    <2>4. s[(n + 1) + 1] # 0 BY <2>1, <1>2
    <2> QED BY <2>2, <2>3, <2>4, <1>1
  <1> HIDE DEF T
  <1>5. Nat \subseteq T BY <1>3, <1>4, NatSetInduction
  <1>6. k - 1 \in Nat /\ (k - 1) + 1 = k /\ k <= m OBVIOUS
  <1>7. k - 1 \in T BY <1>5, <1>6
  <1> QED BY <1>6, <1>7 DEF T, V

\* The target of a directive has a file if it is one for a file.
LEMMA FileTargets ==
    ASSUME NEW all, NEW i, all[i].to \in {"file", "syslog"},
           all[i].to = "file" => all[i].file # NoFile
    PROVE  TargetOf(all, i).file # NoFile <=> all[i].to = "file"
  <1>1. CASE all[i].to = "file"
    <2>1. TargetOf(all, i) = [file |-> all[i].file, peer |-> 0] BY <1>1 DEF TargetOf
    <2> QED BY <1>1, <2>1
  <1>2. CASE all[i].to = "syslog"
    <2> DEFINE n == Cardinality({j \in 1..i : all[j].to = "syslog"})
    <2>1. TargetOf(all, i) = [file |-> NoFile, peer |-> n] BY <1>2 DEF TargetOf
    <2> HIDE DEF n
    <2> QED BY <1>2, <2>1
  <1> QED BY <1>1, <1>2

LEMMA HasFileChain ==
    ASSUME NEW c, GoodCycle(c), NEW m, Built(c, m)
    PROVE  HasFileLog(c.logs) <=> \E i \in 1..m : Asked(c.conf)[i].to = "file"
  <1> DEFINE logs == c.logs
             all == Asked(c.conf)
             V == Visited(logs, DOMAIN logs)
  <1>1. GoodLogs(logs, c.peers) BY DEF GoodCycle
  <1>2. V \subseteq DOMAIN logs /\ DOMAIN logs = 1..Len(logs) BY SeqParts, <1>1 DEF Visited, GoodLogs
  <1>3. /\ m \in Nat
        /\ \A i \in 1..m : /\ all[i].to \in {"file", "syslog"}
                           /\ all[i].to = "file" => all[i].file # NoFile
    BY BuiltLevels
  <1>4. Chain(logs, all, m) BY DEF Built
  <1> HIDE DEF all
  <1>5. CASE m = 0
    <2>1. Len(logs) = 1 /\ logs[1].file = NoFile BY <1>4, <1>5 DEF Chain, SameSay, NewLog
    <2>2. \A p \in V : p = 1 BY <2>1, <1>2
    <2>3. ~HasFileLog(logs) BY <2>1, <2>2 DEF HasFileLog
    <2> QED BY <1>5, <2>3 DEF all
  <1>6. CASE m # 0
    <2>1. PICK s, q : Linked(logs, s, m) /\ Asking(logs, s, all, q, m) BY <1>4, <1>6 DEF Chain
    <2>2. /\ Len(logs) = m
          /\ \A l \in 1..m : \E k \in 1..m : s[k] = l
          /\ \A k \in 1..m : q[k] \in 1..m
          /\ \A l \in 1..m : \E k \in 1..m : q[k] = l
          /\ \A k \in 1..m : Target(logs[s[k]]) = TargetOf(all, q[k])
      BY <2>1 DEF Linked, Asking, Order
    <2>3. ASSUME NEW k \in 1..m PROVE logs[s[k]].file # NoFile <=> all[q[k]].to = "file"
      <3>1. q[k] \in 1..m BY <2>2
      <3>2. TargetOf(all, q[k]).file # NoFile <=> all[q[k]].to = "file"
        BY <3>1, <1>3, FileTargets
      <3>3. Target(logs[s[k]]).file = logs[s[k]].file BY DEF Target
      <3> QED BY <3>2, <3>3, <2>2
    <2>4. ASSUME HasFileLog(logs) PROVE \E i \in 1..m : all[i].to = "file"
      <3>1. PICK p \in V : logs[p].file # NoFile BY <2>4 DEF HasFileLog
      <3>2. p \in 1..m BY <1>2, <2>2
      <3>3. PICK k \in 1..m : s[k] = p BY <3>2, <2>2
      <3>4. all[q[k]].to = "file" /\ q[k] \in 1..m BY <3>1, <3>3, <2>2, <2>3
      <3> QED BY <3>4
    <2>5. ASSUME NEW i \in 1..m, all[i].to = "file" PROVE HasFileLog(logs)
      <3>1. PICK k \in 1..m : q[k] = i BY <2>2
      <3>2. logs[s[k]].file # NoFile BY <3>1, <2>3, <2>5
      <3>3. s[k] \in V BY <1>1, <1>3, <2>1, VisitedAll
      <3> QED BY <3>2, <3>3 DEF HasFileLog
    <2> QED BY <2>4, <2>5 DEF all
  <1> QED BY <1>5, <1>6

LEMMA NewTargets ==
    ASSUME NEW k, NEW level, NEW name
    PROVE  /\ Target(PeerLog(k, level)) = [file |-> NoFile, peer |-> k]
           /\ PeerLog(k, level).log_level = level
           /\ Target(FileLog(name, level)) = [file |-> name, peer |-> 0]
           /\ FileLog(name, level).log_level = level
  <1>1. NewLog = [log_level |-> 0, file |-> NoFile, peer |-> 0, next |-> 0,
                  disk_full_time |-> 0]
    BY DEF NewLog
  <1> DEFINE one == [NewLog EXCEPT !.peer = k]
             two == [one EXCEPT !.log_level = level]
             three == [NewLog EXCEPT !.file = name]
             four == [three EXCEPT !.log_level = level]
  <1>2. PeerLog(k, level) = two /\ FileLog(name, level) = four BY Zenon DEF PeerLog, FileLog
  <1>3. one = [log_level |-> 0, file |-> NoFile, peer |-> k, next |-> 0, disk_full_time |-> 0]
    BY <1>1
  <1>4. three = [log_level |-> 0, file |-> name, peer |-> 0, next |-> 0, disk_full_time |-> 0]
    BY <1>1
  <1> HIDE DEF one, three
  <1>5. two.log_level = level /\ two.file = NoFile /\ two.peer = k BY <1>3
  <1>6. four.log_level = level /\ four.file = name /\ four.peer = 0 BY <1>4
  <1> HIDE DEF two, four
  <1> QED BY <1>2, <1>5, <1>6 DEF Target

\* A directive of a configuration.
LEMMA SetLogBuilt ==
    ASSUME NEW c, GoodCycle(c), NEW m \in Nat, m < Len(c.conf), Built(c, m),
           NEW d, d = c.conf[m + 1], ~Refused(d)
    PROVE  Built(SetLog(c, d), m + 1) /\ SetLog(c, d).conf = c.conf
  <1> DEFINE all == Asked(c.conf)
             level == SetLevels(d.words)
             e == SetLog(c, d)
  <1>1. Sounds(c.conf) /\ Chain(c.logs, all, m) /\ Len(c.peers) = Cardinality(Syslogs(all, m))
        /\ \A i \in 1..m : ~Refused(all[i])
    BY DEF Built
  <1>2. /\ Sounds(all) /\ Len(c.conf) \in Nat /\ \A i \in 1..Len(c.conf) : all[i] = c.conf[i]
        /\ Len(all) >= Len(c.conf) /\ Len(all) \in Nat
    <2>1. /\ Sounds(all) /\ Len(c.conf) \in Nat /\ \A i \in 1..Len(c.conf) : all[i] = c.conf[i]
          /\ Len(all) = Len(c.conf) \/ Len(all) = Len(c.conf) + 1
      BY <1>1, AskedParts
    <2> HIDE DEF all
    <2> QED BY <2>1
  <1> HIDE DEF all
  <1>3. m + 1 \in 1..Len(c.conf) BY <1>2
  <1>4. all[m + 1] = d /\ Sound(d) BY <1>1, <1>2, <1>3, SeqParts DEF Sounds
  <1>5. d.to \in {"file", "syslog"} /\ level \in Nat \ {0} BY <1>4, TakenLevels
  <1>6. \A i \in 1..(m + 1) : ~Refused(all[i])
    <2> TAKE i \in 1..(m + 1)
    <2>1. i \in 1..m \/ i = m + 1 OBVIOUS
    <2> QED BY <2>1, <1>1, <1>4
  <1>7. \A i \in 1..(m + 1) : SetLevels(all[i].words) \in Nat \ {0}
    <2> TAKE i \in 1..(m + 1)
    <2>1. i \in 1..m \/ i = m + 1 OBVIOUS
    <2>2. i \in 1..m => SetLevels(all[i].words) \in Nat \ {0} BY BuiltLevels DEF all
    <2> QED BY <2>1, <2>2, <1>4, <1>5
  <1>8. /\ IsSeq(c.peers) /\ GoodLogs(c.logs, c.peers)
        /\ c = [conf |-> c.conf, logs |-> c.logs, peers |-> c.peers, cleanups |-> c.cleanups]
    BY DEF GoodCycle
  <1>9. m + 1 \in 0..Len(all) BY <1>2, <1>3
  <1>10. CASE d.to = "syslog"
    <2> DEFINE n == Len(c.peers) + 1
               x == PeerLog(n, level)
               peers == Append(c.peers, SyslogPeer(d.args))
               logs == AddLog(c.logs, x)
    <2>1. e = [conf |-> c.conf, logs |-> logs, peers |-> peers, cleanups |-> c.cleanups]
      <3>1. e = [c EXCEPT !.peers = peers, !.logs = logs] BY <1>10, Zenon DEF SetLog
      <3> HIDE DEF e, peers, logs
      <3> QED BY <1>8, <3>1
    <2>2. Len(peers) = n BY <1>8, SeqAppend
    <2> HIDE DEF peers
    <2>3. IsLog(x) /\ x.next = 0 BY NewLogs
    <2>4. Cardinality(Syslogs(all, m + 1)) = n
      <3>1. all[m + 1].to = "syslog" BY <1>4, <1>10
      <3>2. Cardinality(Syslogs(all, m + 1)) = Cardinality(Syslogs(all, m)) + 1
        BY <3>1, SyslogsGrow
      <3> QED BY <3>2, <1>1
    <2>5. x.log_level = level /\ Target(x) = [file |-> NoFile, peer |-> n] BY NewTargets
    <2> HIDE DEF x, n
    <2>6. TargetOf(all, m + 1) = [file |-> NoFile, peer |-> n]
      BY <2>4, <1>4, <1>10 DEF TargetOf, Syslogs
    <2>7. Chain(logs, all, m + 1) BY <2>3, <2>5, <2>6, <1>1, <1>4, <1>7, <1>8, ChainLonger
    <2> HIDE DEF logs, e
    <2>8. e.conf = c.conf /\ e.logs = logs /\ e.peers = peers BY <2>1
    <2> QED BY <2>2, <2>4, <2>7, <2>8, <1>1, <1>6, <1>9 DEF Built, all, e
  <1>11. CASE d.to = "file"
    <2> DEFINE x == FileLog(d.file, level)
               logs == AddLog(c.logs, x)
    <2>1. e = [conf |-> c.conf, logs |-> logs, peers |-> c.peers, cleanups |-> c.cleanups]
      <3>1. e = [c EXCEPT !.logs = logs] BY <1>11 DEF SetLog
      <3> HIDE DEF e, logs
      <3> QED BY <1>8, <3>1
    <2>2. IsLog(x) /\ x.next = 0 BY NewLogs
    <2>3. Cardinality(Syslogs(all, m + 1)) = Len(c.peers) BY <1>1, <1>4, <1>11, SyslogsGrow
    <2>4. x.log_level = level /\ Target(x) = [file |-> d.file, peer |-> 0] BY NewTargets
    <2> HIDE DEF x
    <2>5. TargetOf(all, m + 1) = [file |-> d.file, peer |-> 0] BY <1>4, <1>11 DEF TargetOf
    <2>6. Chain(logs, all, m + 1) BY <2>2, <2>4, <2>5, <1>1, <1>4, <1>7, <1>8, ChainLonger
    <2> HIDE DEF logs, e
    <2>7. e.conf = c.conf /\ e.logs = logs /\ e.peers = c.peers BY <2>1
    <2> QED BY <2>3, <2>6, <2>7, <1>1, <1>6, <1>9 DEF Built, all, e
  <1> QED BY <1>5, <1>10, <1>11

\* The logs are opened.
LEMMA OpenBuilt ==
    ASSUME NEW c, GoodCycle(c), Built(c, Len(c.conf)), NEW e,
           e = [c EXCEPT !.logs = LogOpenDefault(c.logs)]
    PROVE  Full(e) /\ e.conf = c.conf
  <1> DEFINE all == Asked(c.conf)
             m == Len(c.conf)
             d == FileDirective(DefaultFile, <<>>)
             x == FileLog(DefaultFile, ERR)
             logs == LogOpenDefault(c.logs)
  <1>1. Sounds(c.conf) /\ Chain(c.logs, all, m) /\ Len(c.peers) = Cardinality(Syslogs(all, m))
        /\ \A i \in 1..m : ~Refused(all[i])
    BY DEF Built
  <1>2. /\ Sounds(all) /\ m \in Nat /\ \A i \in 1..m : all[i] = c.conf[i]
        /\ NamesFile(c.conf) => Len(all) = m
        /\ ~NamesFile(c.conf) => Len(all) = m + 1 /\ all[m + 1] = d
    BY <1>1, AskedParts
  <1>3. DOMAIN c.conf = 1..m BY <1>1, SeqParts DEF Sounds
  <1>4. HasFileLog(c.logs) <=> NamesFile(c.conf)
    <2>1. HasFileLog(c.logs) <=> \E i \in 1..m : all[i].to = "file" BY HasFileChain
    <2> QED BY <2>1, <1>2, <1>3 DEF NamesFile
  <1>5. e = [conf |-> c.conf, logs |-> logs, peers |-> c.peers, cleanups |-> c.cleanups]
    BY CycleFields
  <1> HIDE DEF all, d, x, logs, m
  <1>6. e.conf = c.conf /\ e.logs = logs /\ e.peers = c.peers BY <1>5
  <1>7. CASE NamesFile(c.conf)
    <2>1. logs = c.logs BY <1>4, <1>7 DEF logs, LogOpenDefault
    <2>2. Len(all) = m /\ m \in 0..m BY <1>2, <1>7
    <2>3. Built(e, m) BY <1>1, <1>2, <1>6, <2>1, <2>2 DEF Built, all
    <2> QED BY <1>6, <2>2, <2>3 DEF Full, all
  <1>8. CASE ~NamesFile(c.conf)
    <2>1. logs = AddLog(c.logs, x) BY <1>4, <1>8 DEF logs, LogOpenDefault, x
    <2>2. Len(all) = m + 1 /\ all[m + 1] = d BY <1>2, <1>8
    <2>3. IsLog(x) /\ x.next = 0 /\ x.log_level = ERR
          /\ Target(x) = [file |-> DefaultFile, peer |-> 0]
      BY NewLogs, NewTargets DEF x
    <2>4. ~Refused(d) /\ d.to = "file" /\ d.file = DefaultFile /\ SetLevels(d.words) = ERR
      BY DefaultDirective DEF d
    <2>5. TargetOf(all, m + 1) = [file |-> DefaultFile, peer |-> 0] BY <2>2, <2>4 DEF TargetOf
    <2>6. \A i \in 1..(m + 1) : ~Refused(all[i])
      <3> TAKE i \in 1..(m + 1)
      <3>1. i \in 1..m \/ i = m + 1 BY <1>2
      <3> QED BY <3>1, <1>1, <2>2, <2>4
    <2>7. \A i \in 1..(m + 1) : SetLevels(all[i].words) \in Nat \ {0}
      <3> TAKE i \in 1..(m + 1)
      <3>1. i \in 1..m \/ i = m + 1 BY <1>2
      <3>2. i \in 1..m => SetLevels(all[i].words) \in Nat \ {0} BY BuiltLevels DEF all, m
      <3>3. ERR \in Nat \ {0} BY DEF ERR
      <3> QED BY <3>1, <3>2, <3>3, <2>2, <2>4
    <2>8. GoodLogs(c.logs, c.peers) BY DEF GoodCycle
    <2>9. Chain(logs, all, m + 1)
      <3>1. x.log_level = SetLevels(all[m + 1].words) BY <2>2, <2>3, <2>4
      <3>2. Target(x) = TargetOf(all, m + 1) BY <2>3, <2>5
      <3> QED BY <3>1, <3>2, <1>1, <1>2, <2>1, <2>3, <2>7, <2>8, ChainLonger
    <2>10. Cardinality(Syslogs(all, m + 1)) = Len(c.peers) BY <1>1, <1>2, <2>2, <2>4, SyslogsGrow
    <2>11. m + 1 \in 0..Len(all) BY <1>2, <2>2
    <2>12. Built(e, m + 1) BY <1>1, <1>6, <2>6, <2>9, <2>10, <2>11 DEF Built, all
    <2> QED BY <1>6, <2>2, <2>12 DEF Full, all
  <1> QED BY <1>7, <1>8

-----------------------------------------------------------------------------
(* Calls on their way along the chain.                                       *)

\* A call that is at the log at place k has been at those before it.
Seen(logs, s, c, k) ==
    /\ c.at = IF k = Len(logs) + 1 THEN 0 ELSE s[k]
    /\ Len(c.reached) = k - 1
    /\ \A j \in 1..(k - 1) :
         c.reached[j] = Target(logs[s[j]]) /\ logs[s[j]].log_level >= c.level
    /\ Writes(c) => logs[c.at].log_level >= c.level
    /\ c.step = "told" =>
         /\ k # Len(logs) + 1 => ~(logs[s[k]].log_level >= c.level)
         /\ c.level <= WARN => c.wrote_stderr

CallRight(cs, c) ==
    LET logs == cs[c.cycle].logs IN
    /\ Full(cs[c.cycle])
    /\ c.level \in 1..(DEBUG - 1) /\ IsSeq(c.reached)
    /\ \A s : Linked(logs, s, Len(logs)) =>
         \E k \in 1..(Len(logs) + 1) : Seen(logs, s, c, k)

\* What a step makes of the innermost call.
Advance(d) ==
    /\ d.level = call.level
    /\ \/ /\ Taken \/ Writes(call)
          /\ d.at = log.next /\ d.reached = Append(call.reached, Target(log)) /\ d.step = "walk"
       \/ /\ ~Taken /\ d.at = call.at /\ d.reached = call.reached /\ d.step = "told"
          /\ d.level <= WARN => d.wrote_stderr
       \/ /\ Taken \/ Writes(call)
          /\ d.at = call.at /\ d.reached = call.reached /\ Writes(d)

LEMMA OnwardFields ==
    ASSUME IsCall(call)
    PROVE  /\ IsCall(Onward) /\ Onward.level = call.level /\ Onward.at = log.next
           /\ Onward.step = "walk" /\ Onward.reached = Append(call.reached, Target(log))
           /\ Onward.wrote_stderr = call.wrote_stderr
  <1> DEFINE r == Append(call.reached, Target(log))
             nx == log.next
  <1>1. Onward = Further(call, nx, "walk", -1, r) BY DEF Onward, Further
  <1> HIDE DEF r, nx
  <1>2. /\ IsCall(Onward) /\ Onward.level = call.level /\ Onward.at = nx
        /\ Onward.step = "walk" /\ Onward.reached = r /\ Onward.wrote_stderr = call.wrote_stderr
    BY <1>1, CallFields
  <1> QED BY <1>2 DEF r, nx

LEMMA StepAdvances ==
    ASSUME IsCall(call), Taken \/ Writes(call), NEW s, s \notin {"walk", "told"},
           NEW d, d = [call EXCEPT !.step = s] \/ \E f : d = StepFd(call, s, f)
    PROVE  Advance(d)
  <1>1. /\ d.level = call.level /\ d.at = call.at /\ d.reached = call.reached /\ d.step = s
    BY CallStep, CallFields
  <1> QED BY <1>1 DEF Advance, Writes

LEMMA LogAdvances ==
    ASSUME TypeInv, LogStep, ~Return
    PROVE  \E d : Moves(d) /\ Advance(d)
  <1>1. stack # <<>>
    BY DEF LogStep, SkipFullDisk, WriteFile, EndWalk, WriterBusy, SyslogWriter, WriterDone,
           SocketFails, ConnectFails, NoCleanup, CloseFailed, InitPeer, Send, SendFails,
           CloseUnix, Walking, At
  <1>2. IsCall(call) /\ (Writes(call) => call.at # 0) BY <1>1, TopFacts
  <1>3. Taken => call.at # 0 BY DEF Taken
  <1>4. Taken \/ Writes(call) => Advance(Onward) BY <1>2, <1>3, OnwardFields DEF Advance
  <1>5. CASE SkipFullDisk \/ WriterBusy
    <2>1. Taken /\ stack' = Replace(Onward) BY <1>5 DEF SkipFullDisk, WriterBusy
    <2> QED BY <2>1, <1>4 DEF Moves
  <1>6. CASE \E full \in BOOLEAN : WriteFile(full)
    <2> DEFINE w == Onward.wrote_stderr \/ log.file = Stderr
               d == [Onward EXCEPT !.wrote_stderr = w]
    <2>1. Taken /\ stack' = Replace(d) BY <1>6 DEF WriteFile
    <2> HIDE DEF w
    <2>2. IsCall(Onward) BY <1>2, OnwardFields
    <2>3. d.level = Onward.level /\ d.at = Onward.at /\ d.step = Onward.step
          /\ d.reached = Onward.reached
      BY <2>2, CallWrote
    <2>4. Moves(d) BY <2>1 DEF Moves
    <2> HIDE DEF d
    <2>5. Advance(d)
      <3>1. /\ d.level = call.level /\ d.at = log.next
            /\ d.reached = Append(call.reached, Target(log)) /\ d.step = "walk"
        BY <2>3, <1>2, OnwardFields
      <3> QED BY <3>1, <2>1, <1>3 DEF Advance
    <2> QED BY <2>4, <2>5
  <1>7. CASE EndWalk
    <2> DEFINE w == call.wrote_stderr \/ call.level <= WARN
               d == [call EXCEPT !.step = "told", !.wrote_stderr = w]
    <2>1. Moves(d) /\ ~Taken BY <1>7 DEF EndWalk, Moves
    <2>2. d = StepWrote(call, "told", w) BY DEF StepWrote
    <2>3. call.level <= WARN => w OBVIOUS
    <2> HIDE DEF w, d
    <2>4. /\ d.level = call.level /\ d.at = call.at /\ d.step = "told"
          /\ d.reached = call.reached /\ d.wrote_stderr = w
      BY <2>2, <1>2, CallFields
    <2>5. d.level <= WARN => d.wrote_stderr BY <2>3, <2>4, Zenon
    <2>6. Advance(d) BY <2>1, <2>4, <2>5, Zenon DEF Advance
    <2> QED BY <2>1, <2>6
  <1>8. CASE WriterDone
    <2>1. Writes(call) /\ stack' = Replace(Onward) BY <1>8 DEF WriterDone, At, Writes
    <2> QED BY <2>1, <1>4 DEF Moves
  <1>9. CASE SyslogWriter
    <2> DEFINE s == IF peer.fd = -1 THEN "connect" ELSE "send"
               d == [call EXCEPT !.step = s]
    <2>1. Taken /\ Moves(d) BY <1>9 DEF SyslogWriter, Moves
    <2>2. s \notin {"walk", "told"} OBVIOUS
    <2> HIDE DEF s
    <2> QED BY <2>1, <2>2, <1>2, StepAdvances
  <1>10. CASE SocketFails \/ CloseFailed \/ InitPeer \/ Send \/ CloseUnix
    <2>1. Writes(call) BY <1>10 DEF SocketFails, CloseFailed, InitPeer, Send, CloseUnix, At, Writes
    <2>2. \E s \in {"send", "sent"} : Moves([call EXCEPT !.step = s])
      <3> DEFINE d == [call EXCEPT !.step = "sent"]
                 e == [call EXCEPT !.step = "send"]
      <3>1. stack' = Complain(d, ALERT) \/ stack' = Replace(d) \/ stack' = Replace(e)
        BY <1>10, Zenon DEF SocketFails, CloseFailed, InitPeer, Send, CloseUnix
      <3> HIDE DEF d, e
      <3>2. Moves(d) \/ Moves(e) BY <3>1, Severities, ComplainMoves DEF Moves
      <3> QED BY <3>2 DEF d, e
    <2>3. PICK s \in {"send", "sent"} : Moves([call EXCEPT !.step = s]) BY <2>2
    <2> QED BY <2>1, <2>3, <1>2, StepAdvances
  <1>11. CASE ConnectFails \/ NoCleanup
    <2> DEFINE f == FirstOf(FreeFds)
               d == StepFd(call, "failed", f)
    <2>1. Writes(call) BY <1>11 DEF ConnectFails, NoCleanup, At, Writes
    <2>2. stack' = Complain(d, ALERT) \/ stack' = LogError(Replace(d), call.cycle, EMERG)
      BY <1>11 DEF ConnectFails, NoCleanup, StepFd
    <2>3. Advance(d) BY <2>1, <1>2, StepAdvances
    <2> HIDE DEF d
    <2>4. Moves(d) BY <2>2, Severities, ComplainMoves, NoCleanupMoves
    <2> QED BY <2>3, <2>4
  <1>12. CASE \E level \in {ALERT, ERR} : SendFails(level)
    <2>1. PICK level \in {ALERT, ERR} : SendFails(level) BY <1>12
    <2> DEFINE t == IF peer.server = "unix" THEN "close" ELSE "sent"
               d == [call EXCEPT !.step = t]
    <2>2. stack' = Complain(d, level) /\ Writes(call) BY <2>1 DEF SendFails, At, Writes
    <2>3. t \notin {"walk", "told"} OBVIOUS
    <2> HIDE DEF t
    <2>4. Advance(d) BY <2>2, <2>3, <1>2, StepAdvances
    <2> HIDE DEF d
    <2>5. Moves(d) BY <2>2, Severities, ComplainMoves
    <2> QED BY <2>4, <2>5
  <1> QED BY <1>5, <1>6, <1>7, <1>8, <1>9, <1>10, <1>11, <1>12 DEF LogStep

\* The call goes on along the chain, if it was right before.
LEMMA AdvanceRight ==
    ASSUME TypeInv, stack # <<>>, CallRight(cycles, call), NEW d, IsCall(d),
           d.cycle = call.cycle, Advance(d)
    PROVE  CallRight(cycles, d)
  <1> DEFINE logs == cycles[call.cycle].logs
             m == Len(logs)
  <1>1. /\ Full(cycles[call.cycle]) /\ call.level \in 1..(DEBUG - 1) /\ IsSeq(call.reached)
        /\ \A s : Linked(logs, s, m) => \E k \in 1..(m + 1) : Seen(logs, s, call, k)
    BY DEF CallRight
  <1>2. d.level = call.level /\ log = logs[call.at] BY DEF Advance, log
  <1>3. Len(call.reached) \in Nat BY <1>1, SeqParts
  <1>4. m \in Nat
    <2>1. LiveIn(cycles, call.cycle) BY TopFacts
    <2> QED BY <2>1, SeqParts DEF LiveIn, GoodCycle, GoodLogs
  <1>5. IsSeq(d.reached)
    <2> DEFINE r == call.reached
               x == Target(log)
    <2>1. IsSeq(r) BY <1>1
    <2>2. d.reached = r \/ d.reached = Append(r, x) BY DEF Advance
    <2> HIDE DEF r, x
    <2>3. IsSeq(Append(r, x)) BY <2>1, SeqAppend
    <2> QED BY <2>1, <2>2, <2>3
  <1> HIDE DEF logs, m
  <1>6. ASSUME NEW s, Linked(logs, s, m) PROVE \E k \in 1..(m + 1) : Seen(logs, s, d, k)
    <2>1. PICK k \in 1..(m + 1) : Seen(logs, s, call, k) BY <1>1, <1>6
    <2>2. /\ call.at = IF k = m + 1 THEN 0 ELSE s[k]
          /\ Len(call.reached) = k - 1
          /\ \A j \in 1..(k - 1) :
               call.reached[j] = Target(logs[s[j]]) /\ logs[s[j]].log_level >= call.level
          /\ Writes(call) => logs[call.at].log_level >= call.level
      BY <2>1 DEF Seen, m
    <2>3. Taken <=> call.at # 0 /\ logs[call.at].log_level >= call.level BY <1>2 DEF Taken
    <2>4. /\ \A i \in 1..m : s[i] \in 1..m
          /\ \A i \in 1..m : logs[s[i]].next = IF i = m THEN 0 ELSE s[i + 1]
      BY <1>6 DEF Linked, Order
    <2>5. CASE /\ Taken \/ Writes(call)
               /\ d.at = log.next /\ d.reached = Append(call.reached, Target(log)) /\ d.step = "walk"
      <3>1. k # m + 1 /\ k \in 1..m /\ call.at = s[k] /\ k + 1 \in 1..(m + 1)
        <4>1. call.at # 0 BY <2>5, TopFacts DEF Taken
        <4>2. k # m + 1 BY <4>1, <2>2
        <4>3. k \in 1..m /\ k + 1 \in 1..(m + 1) BY <4>2, <1>4
        <4> QED BY <4>2, <4>3, <2>2
      <3>2. log = logs[s[k]] /\ logs[s[k]].log_level >= call.level BY <3>1, <2>2, <2>3, <2>5, <1>2
      <3>3. d.at = IF k + 1 = m + 1 THEN 0 ELSE s[k + 1] BY <3>1, <3>2, <2>4, <2>5, <1>4
      <3>4. /\ Len(d.reached) = (k + 1) - 1 /\ d.reached[k] = Target(logs[s[k]])
            /\ \A j \in 1..(k - 1) : d.reached[j] = call.reached[j]
        <4> DEFINE r == call.reached
                   x == Target(logs[s[k]])
        <4>1. IsSeq(r) /\ Len(r) = k - 1 /\ d.reached = Append(r, x) BY <3>2, <2>2, <2>5, <1>1
        <4> HIDE DEF r, x
        <4>2. /\ Len(d.reached) = Len(r) + 1 /\ d.reached[Len(r) + 1] = x
              /\ \A j \in DOMAIN r : d.reached[j] = r[j]
          BY <4>1, SeqAppend
        <4>3. DOMAIN r = 1..(k - 1) /\ Len(r) + 1 = k /\ (k + 1) - 1 = k BY <4>1, SeqParts
        <4> QED BY <4>1, <4>2, <4>3 DEF r, x
      <3>5. \A j \in 1..((k + 1) - 1) :
              d.reached[j] = Target(logs[s[j]]) /\ logs[s[j]].log_level >= d.level
        <4> TAKE j \in 1..((k + 1) - 1)
        <4>1. j = k \/ j \in 1..(k - 1) OBVIOUS
        <4> QED BY <4>1, <3>2, <3>4, <2>2, <1>2
      <3>6. ~Writes(d) /\ d.step # "told" BY <2>5 DEF Writes
      <3>7. Seen(logs, s, d, k + 1) BY <3>3, <3>4, <3>5, <3>6 DEF Seen, m
      <3> QED BY <3>1, <3>7
    <2>6. CASE /\ ~Taken /\ d.at = call.at /\ d.reached = call.reached /\ d.step = "told"
               /\ d.level <= WARN => d.wrote_stderr
      <3>1. k # m + 1 => call.at = s[k] /\ s[k] \in 1..m
        <4>1. k # m + 1 => k \in 1..m BY <1>4
        <4> QED BY <4>1, <2>2, <2>4
      <3>2. k # m + 1 => ~(logs[s[k]].log_level >= d.level) BY <3>1, <2>3, <2>6, <1>2
      <3>3. ~Writes(d) BY <2>6 DEF Writes
      <3>4. Seen(logs, s, d, k) BY <3>2, <3>3, <2>2, <2>6, <1>2 DEF Seen, m
      <3> QED BY <3>4
    <2>7. CASE /\ Taken \/ Writes(call)
               /\ d.at = call.at /\ d.reached = call.reached /\ Writes(d)
      <3>1. logs[d.at].log_level >= d.level BY <2>2, <2>3, <2>7, <1>2
      <3>2. d.step # "told" BY <2>7 DEF Writes
      <3>3. Seen(logs, s, d, k) BY <3>1, <3>2, <2>2, <2>7, <1>2 DEF Seen, m
      <3> QED BY <3>3
    <2> QED BY <2>5, <2>6, <2>7 DEF Advance
  <1> QED BY <1>1, <1>2, <1>5, <1>6 DEF CallRight, logs, m

\* Other changes of the cycles make no difference to a call.
LEMMA CallRightKept ==
    ASSUME NEW cs, NEW ds, SameLogs(cs, ds), NEW c, GoodCall(cs, c), CallRight(cs, c)
    PROVE  CallRight(ds, c)
  <1> DEFINE a == cs[c.cycle]
             b == ds[c.cycle]
             la == a.logs
             lb == b.logs
             m == Len(la)
  <1>1. GoodCycle(a) /\ c.cycle \in DOMAIN cs BY DEF GoodCall, LiveIn
  <1>2. Alike(a, b) BY <1>1 DEF SameLogs
  <1>3. Full(b)
    <2>1. b.conf = a.conf BY <1>2 DEF Alike
    <2>2. Full(a) BY DEF CallRight
    <2> QED BY <2>1, <2>2, <1>1, <1>2, BuiltAlike DEF Full
  <1>4. IsSeq(la) /\ DOMAIN la = 1..m /\ m \in Nat BY <1>1, SeqParts DEF GoodCycle, GoodLogs
  <1>5. Len(lb) = m /\ \A l \in 1..m : SameSay(lb[l], la[l]) BY <1>2, <1>4 DEF Alike
  <1>6. c.at \in 0..m /\ (Writes(c) => c.at # 0) BY DEF GoodCall
  <1>7. \A s : Linked(lb, s, m) => Linked(la, s, m) BY <1>2, <1>4, LinkedAlike
  <1>8. \A s : Linked(la, s, m) => \E k \in 1..(m + 1) : Seen(la, s, c, k) BY DEF CallRight
  <1>9. c.level \in 1..(DEBUG - 1) /\ IsSeq(c.reached) BY DEF CallRight
  <1> HIDE DEF la, lb, m
  <1>10. ASSUME NEW s, Linked(lb, s, m) PROVE \E k \in 1..(m + 1) : Seen(lb, s, c, k)
    <2>1. Linked(la, s, m) BY <1>7, <1>10
    <2>2. PICK k \in 1..(m + 1) : Seen(la, s, c, k) BY <2>1, <1>8
    <2>3. \A i \in 1..m : s[i] \in 1..m BY <2>1 DEF Linked, Order
    <2>4. \A i \in 1..m : lb[s[i]].log_level = la[s[i]].log_level
                          /\ Target(lb[s[i]]) = Target(la[s[i]])
      BY <2>3, <1>5 DEF SameSay, Target
    <2>5. c.at # 0 => lb[c.at].log_level = la[c.at].log_level
      <3>1. c.at # 0 => c.at \in 1..m BY <1>4, <1>6
      <3> QED BY <3>1, <1>5 DEF SameSay
    <2>6. Len(la) = m /\ \A j \in 1..(k - 1) : j \in 1..m BY <1>4 DEF m
    <2>7. k # m + 1 => k \in 1..m BY <1>4
    <2>8. Seen(lb, s, c, k)
      <3>1. /\ c.at = IF k = m + 1 THEN 0 ELSE s[k]
            /\ Len(c.reached) = k - 1
            /\ \A j \in 1..(k - 1) :
                 c.reached[j] = Target(la[s[j]]) /\ la[s[j]].log_level >= c.level
            /\ Writes(c) => la[c.at].log_level >= c.level
            /\ c.step = "told" =>
                 /\ k # m + 1 => ~(la[s[k]].log_level >= c.level)
                 /\ c.level <= WARN => c.wrote_stderr
        BY <2>2, <2>6 DEF Seen
      <3>2. \A j \in 1..(k - 1) :
              c.reached[j] = Target(lb[s[j]]) /\ lb[s[j]].log_level >= c.level
        BY <3>1, <2>4, <2>6
      <3>3. Writes(c) => lb[c.at].log_level >= c.level BY <3>1, <2>5, <1>6
      <3>4. c.step = "told" /\ k # m + 1 => ~(lb[s[k]].log_level >= c.level)
        BY <3>1, <2>4, <2>7
      <3>5. c.step = "told" /\ c.level <= WARN => c.wrote_stderr BY <3>1, Zenon
      <3> QED BY <3>1, <3>2, <3>3, <3>4, <3>5, <1>5, Zenon DEF Seen
    <2> QED BY <2>8
  <1> QED BY <1>3, <1>5, <1>9, <1>10 DEF CallRight, lb, m

LEMMA NewCallRight ==
    ASSUME NEW cs, NEW c, LiveIn(cs, c), Full(cs[c]), NEW level \in 1..(DEBUG - 1)
    PROVE  CallRight(cs, NewCall(c, level))
  <1> DEFINE d == NewCall(c, level)
             logs == cs[c].logs
             m == Len(logs)
  <1>1. m \in Nat /\ m >= 1 BY SeqParts DEF LiveIn, GoodCycle, GoodLogs
  <1>2. /\ d.cycle = c /\ d.level = level /\ d.at = 1 /\ d.step = "walk" /\ d.reached = <<>>
    BY DEF NewCall
  <1> HIDE DEF d, logs, m
  <1>3. IsSeq(<<>>) /\ Len(<<>>) = 0 BY DEF IsSeq
  <1>4. ASSUME NEW s, Linked(logs, s, m) PROVE Seen(logs, s, d, 1)
    <2>1. s[1] = 1 /\ 1 # m + 1 /\ 1 - 1 = 0 /\ 1..(1 - 1) = {} BY <1>1, <1>4 DEF Linked
    <2>2. ~Writes(d) /\ d.step # "told" BY <1>2 DEF Writes
    <2>3. d.at = IF 1 = m + 1 THEN 0 ELSE s[1] BY <2>1, <1>2
    <2>4. Len(d.reached) = 1 - 1 BY <2>1, <1>2, <1>3
    <2> QED BY <2>1, <2>2, <2>3, <2>4 DEF Seen, m
  <1>5. 1 \in 1..(m + 1) BY <1>1
  <1> QED BY <1>2, <1>3, <1>4, <1>5 DEF CallRight, d, logs, m

-----------------------------------------------------------------------------
(* What cycles and calls mean: the chain of a cycle in use is that of its    *)
(* configuration, and a call has seen what of it asks for the message.       *)

\* The cycles whose logs are all made.
Usable(c) ==
    /\ c \in DOMAIN cycles /\ cycles[c] # Gone
    /\ c = reload.cycle => reload.phase \in {"made", "done"}

\* How far the reload has come.
Loading ==
    LET c == cycles[reload.cycle]
        n == Len(c.conf) - Len(reload.left)
    IN  /\ IsSeq(reload.left) /\ Built(c, n)
        /\ \A j \in DOMAIN reload.left : reload.left[j] = c.conf[n + j]

CallsRight == \A n \in DOMAIN stack : CallRight(cycles, stack[n])

\* A reload that failed is undone by the destruction of its own pool.
Undone == dying # NotDying /\ reload.phase = "failed" => dying.cycle = reload.cycle

Meant ==
    /\ \A c \in DOMAIN cycles : Usable(c) => Full(cycles[c])
    /\ reload.phase = "conf" => Loading
    /\ CallsRight /\ Undone

LEMMA LiveNotGone ==
    ASSUME NEW c, GoodCycle(c)
    PROVE  c # Gone
  BY DEF GoodCycle, GoodLogs, Gone

LEMMA HkyFull ==
    ASSUME TypeInv, Meant
    PROVE  LiveIn(cycles, hky_cycle) /\ Full(cycles[hky_cycle])
  <1>1. LiveIn(cycles, hky_cycle) /\ hky_cycle \in DOMAIN cycles
    BY DEF TypeInv, ReloadRight, Live, LiveIn
  <1>2. cycles[hky_cycle] # Gone BY <1>1, LiveNotGone DEF LiveIn
  <1>3. hky_cycle # reload.cycle
    <2>1. CASE reload.phase = "none"
      <3>1. reload.cycle = 0 BY <2>1 DEF TypeInv, ReloadRight, NoReload
      <3>2. 0 \notin DOMAIN cycles BY SeqParts DEF TypeInv, CyclesGood
      <3> QED BY <3>1, <3>2, <1>1
    <2>2. CASE reload.phase # "none" BY <2>2 DEF TypeInv, ReloadRight
    <2> QED BY <2>1, <2>2
  <1> QED BY <1>1, <1>2, <1>3 DEF Meant, Usable

\* The first call, of a cycle in use.
LEMMA FirstRight ==
    ASSUME stack = <<>>, NEW c, NEW level \in 1..(DEBUG - 1), LiveIn(cycles', c), Full(cycles'[c]),
           stack' = stack \/ stack' = LogError(stack, c, level)
    PROVE  CallsRight'
  <1> DEFINE d == NewCall(c, level)
  <1>1. CallRight(cycles', d) BY NewCallRight
  <1>2. stack' = <<>> \/ stack' = Append(<<>>, d) BY DEF LogError
  <1> HIDE DEF d
  <1>3. \A n \in DOMAIN stack' : stack'[n] = d
    <2>1. CASE stack' = <<>> BY <2>1
    <2>2. CASE stack' = Append(<<>>, d)
      <3> DEFINE e == <<>>
      <3>1. IsSeq(e) /\ DOMAIN e = {} BY DEF IsSeq
      <3>2. stack' = Append(e, d) BY <2>2
      <3> HIDE DEF e
      <3>3. DOMAIN stack' = DOMAIN e \cup {Len(e) + 1} /\ stack'[Len(e) + 1] = d
        BY <3>1, <3>2, SeqAppend
      <3> QED BY <3>1, <3>3
    <2> QED BY <1>2, <2>1, <2>2
  <1> QED BY <1>1, <1>3 DEF CallsRight

\* Steps that no chain notices.
LEMMA MeantKept ==
    ASSUME TypeInv, Meant, SameLogs(cycles, cycles'), reload' = reload, CallsRight', Undone'
    PROVE  Meant'
  <1>1. CyclesGood(cycles) BY DEF TypeInv
  <1>2. ASSUME NEW c \in DOMAIN cycles', Usable(c)' PROVE Full(cycles'[c])
    <2>1. c \in DOMAIN cycles /\ cycles[c] # Gone BY <1>2 DEF SameLogs, Usable
    <2>2. GoodCycle(cycles[c]) BY <1>1, <2>1 DEF CyclesGood
    <2>3. Usable(c) BY <1>2, <2>1 DEF Usable
    <2>4. Full(cycles[c]) BY <2>1, <2>3 DEF Meant
    <2>5. Alike(cycles[c], cycles'[c]) BY <2>1, <2>2 DEF SameLogs
    <2>6. cycles'[c].conf = cycles[c].conf BY <2>5 DEF Alike
    <2> QED BY <2>2, <2>4, <2>5, <2>6, BuiltAlike DEF Full
  <1>3. ASSUME reload'.phase = "conf" PROVE Loading'
    <2>1. Loading /\ reload.phase = "conf" BY <1>3 DEF Meant
    <2>2. LiveIn(cycles, reload.cycle) BY <2>1 DEF TypeInv, ReloadRight, Live
    <2>3. GoodCycle(cycles[reload.cycle]) /\ Alike(cycles[reload.cycle], cycles'[reload.cycle])
      BY <2>2 DEF LiveIn, SameLogs
    <2>4. cycles'[reload.cycle].conf = cycles[reload.cycle].conf BY <2>3 DEF Alike
    <2> DEFINE n == Len(cycles[reload.cycle].conf) - Len(reload.left)
    <2>5. IsSeq(reload.left) /\ Built(cycles[reload.cycle], n)
          /\ \A j \in DOMAIN reload.left : reload.left[j] = cycles[reload.cycle].conf[n + j]
      BY <2>1 DEF Loading
    <2> HIDE DEF n
    <2>6. Built(cycles'[reload.cycle], n) BY <2>3, <2>5, BuiltAlike
    <2> QED BY <2>4, <2>5, <2>6 DEF Loading, n
  <1> QED BY <1>2, <1>3 DEF Meant

LEMMA ReturnMeant ==
    ASSUME TypeInv, Meant, Return
    PROVE  Meant'
  <1>1. /\ DOMAIN stack' \subseteq DOMAIN stack
        /\ \A m \in DOMAIN stack' : stack'[m] = stack[m]
        /\ UNCHANGED <<cycles, reload, dying>>
    BY ReturnStep
  <1>2. CallsRight' /\ Undone' BY <1>1 DEF Meant, CallsRight, Undone
  <1> QED BY <1>1, <1>2, SameLogsSame, MeantKept

LEMMA LogMeant ==
    ASSUME TypeInv, Meant, LogStep
    PROVE  Meant'
  <1> SUFFICES ASSUME ~Return PROVE Meant' BY ReturnMeant
  <1>1. PICK c : Stays(c) BY QuietStays
  <1>2. PICK d : Moves(d) /\ Advance(d) BY LogAdvances
  <1>3. stack # <<>> /\ stack'[Len(stack)] = c /\ stack'[Len(stack)] = d
    BY <1>1, <1>2, MovedStack DEF Stays
  <1>4. /\ GoodCall(cycles, c) /\ c.cycle = call.cycle /\ Advance(c) /\ IsCall(c)
        /\ SameLogs(cycles, cycles') /\ CyclesGood(cycles')
        /\ UNCHANGED <<hky_cycle, reload, dying>>
    BY <1>1, <1>2, <1>3 DEF Stays, GoodCall
  <1>5. Len(stack) \in DOMAIN stack BY <1>3, TopCall
  <1>6. CallRight(cycles, call) BY <1>5 DEF Meant, CallsRight, call
  <1>7. CallRight(cycles', c)
    <2>1. CallRight(cycles, c) BY <1>3, <1>4, <1>6, AdvanceRight
    <2> QED BY <2>1, <1>4, CallRightKept
  <1>8. ASSUME NEW h \in {hky_cycle, call.cycle} PROVE LiveIn(cycles', h) /\ Full(cycles'[h])
    <2>1. LiveIn(cycles, h) /\ Full(cycles[h])
      BY <1>3, <1>6, HkyFull, TopFacts DEF CallRight
    <2>2. GoodCycle(cycles[h]) /\ Alike(cycles[h], cycles'[h]) /\ h \in DOMAIN cycles'
      BY <2>1, <1>4 DEF LiveIn, SameLogs
    <2>3. cycles'[h].conf = cycles[h].conf /\ GoodCycle(cycles'[h])
      BY <2>2 DEF Alike
    <2>4. Full(cycles'[h]) BY <2>1, <2>2, <2>3, BuiltAlike DEF Full
    <2> QED BY <2>2, <2>3, <2>4 DEF LiveIn
  <1>9. ASSUME NEW m \in DOMAIN stack' PROVE CallRight(cycles', stack'[m])
    <2>1. CASE m = Len(stack) BY <2>1, <1>3, <1>7
    <2>2. CASE m \in DOMAIN stack /\ m # Len(stack)
      <3>1. stack'[m] = stack[m] BY <2>2, <1>1, <1>3, MovedStack DEF Stays
      <3>2. GoodCall(cycles, stack[m]) /\ CallRight(cycles, stack[m])
        BY <2>2 DEF TypeInv, Meant, CallsRight
      <3> QED BY <3>1, <3>2, <1>4, CallRightKept
    <2>3. CASE m \notin DOMAIN stack
      <3>1. \E h \in {hky_cycle, call.cycle}, level \in 1..(DEBUG - 1) :
               stack'[m] = NewCall(h, level)
        BY <2>3, <1>2, <1>3, MovedStack
      <3> QED BY <3>1, <1>8, NewCallRight
    <2> QED BY <2>1, <2>2, <2>3
  <1>10. CallsRight' /\ Undone' BY <1>4, <1>9 DEF CallsRight, Meant, Undone
  <1> QED BY <1>4, <1>10, MeantKept

\* What others say, and time.
LEMMA SaidMeant ==
    ASSUME TypeInv, Meant, (\E c \in DOMAIN cycles, level \in Levels : Message(c, level)) \/ Tick
    PROVE  Meant'
  <1>1. stack = <<>> /\ UNCHANGED <<cycles, reload, dying>> BY DEF Message, Tick, Idle
  <1>2. CallsRight'
    <2>1. CASE Tick
      <3>1. stack' = stack BY <2>1 DEF Tick
      <3> QED BY <3>1, <1>1 DEF CallsRight
    <2>2. CASE \E c \in DOMAIN cycles, level \in Levels : Message(c, level)
      <3>1. PICK c \in DOMAIN cycles, level \in Levels : Message(c, level) BY <2>2
      <3>2. Speaking(c) /\ stack' = LogError(stack, c, level) BY <3>1 DEF Message
      <3>3. level \in 1..(DEBUG - 1) BY SyslogAssumption
      <3>4. Usable(c) /\ LiveIn(cycles, c)
        BY <3>2 DEF Speaking, Usable, TypeInv, CyclesGood, LiveIn
      <3>5. Full(cycles[c]) BY <3>4 DEF Meant
      <3> QED BY <1>1, <3>2, <3>3, <3>4, <3>5, FirstRight
    <2> QED BY <2>1, <2>2
  <1>3. Undone' BY <1>1 DEF Meant, Undone
  <1> QED BY <1>1, <1>2, <1>3, SameLogsSame, MeantKept

\* A reload that is over, one way or the other, with no change of the cycles.
LEMMA OverMeant ==
    ASSUME TypeInv, Meant, Fail \/ DestroyNew \/ DestroyOld \/ Retire \/ \E c \in DOMAIN cycles : CleanOld(c)
    PROVE  Meant'
  <1>1. /\ stack = <<>> /\ cycles' = cycles
        /\ stack' = stack \/ stack' = LogError(stack, hky_cycle, EMERG)
    BY DEF Fail, DestroyNew, DestroyOld, Retire, CleanOld, Idle
  <1>2. CallsRight'
    <2>1. LiveIn(cycles', hky_cycle) /\ Full(cycles'[hky_cycle]) BY <1>1, HkyFull
    <2> SUFFICES ASSUME NEW h, h = hky_cycle PROVE CallsRight' OBVIOUS
    <2> QED BY <1>1, <2>1, Severities, FirstRight
  <1>3. ReloadRight /\ CyclesGood(cycles) BY DEF TypeInv
  <1>4. /\ reload'.phase # "conf"
        /\ \A c \in DOMAIN cycles : Usable(c)' => Usable(c)
        /\ Undone'
    <2>1. CASE Fail
      <3> DEFINE r == [reload EXCEPT !.phase = "failed"]
      <3>1. reload' = r /\ dying' = NotDying BY <2>1 DEF Fail, Idle
      <3>2. reload = [phase |-> reload.phase, cycle |-> reload.cycle, left |-> reload.left]
        BY <1>3 DEF ReloadRight
      <3>3. r.phase = "failed" /\ r.cycle = reload.cycle BY <3>2
      <3> HIDE DEF r
      <3> QED BY <1>1, <3>1, <3>3 DEF Usable, Undone
    <2>2. CASE DestroyNew \/ \E c \in DOMAIN cycles : CleanOld(c)
      <3>1. reload' = reload /\ reload.phase # "conf" BY <2>2 DEF DestroyNew, CleanOld, NoReload
      <3>2. reload.phase = "failed" => dying'.cycle = reload.cycle
        BY <2>2 DEF DestroyNew, CleanOld, NoReload, Destroying
      <3> QED BY <1>1, <3>1, <3>2 DEF Usable, Undone
    <2>3. CASE DestroyOld
      <3> DEFINE r == [reload EXCEPT !.phase = "done"]
      <3>1. reload' = r /\ reload.phase = "made" BY <2>3 DEF DestroyOld
      <3>2. reload = [phase |-> reload.phase, cycle |-> reload.cycle, left |-> reload.left]
        BY <1>3 DEF ReloadRight
      <3>3. r.phase = "done" /\ r.cycle = reload.cycle BY <3>2
      <3> HIDE DEF r
      <3> QED BY <1>1, <3>1, <3>3 DEF Usable, Undone
    <2>4. CASE Retire
      <3>1. reload' = NoReload /\ reload.phase = "made" BY <2>4 DEF Retire
      <3> QED BY <1>1, <3>1 DEF Usable, NoReload, Undone
    <2> QED BY <2>1, <2>2, <2>3, <2>4
  <1> QED BY <1>1, <1>2, <1>4 DEF Meant

LEMMA BeginMeant ==
    ASSUME TypeInv, Meant, NEW conf \in Confs, Begin(conf)
    PROVE  Meant'
  <1> DEFINE new == [conf |-> conf, logs |-> <<NewLog>>, peers |-> <<>>, cleanups |-> <<>>]
             all == Asked(conf)
  <1>1. new.conf = conf /\ new.logs = <<NewLog>> /\ new.peers = <<>> OBVIOUS
  <1> SUFFICES ASSUME NEW n, n = Len(cycles) + 1 PROVE Meant' OBVIOUS
  <1>2. /\ stack' = <<>> /\ cycles' = Append(cycles, new) /\ reload = NoReload
        /\ reload' = [phase |-> "conf", cycle |-> n, left |-> conf]
    BY DEF Begin, Idle
  <1>3. reload'.phase = "conf" /\ reload'.cycle = n /\ reload'.left = conf BY <1>2
  <1> HIDE DEF new
  <1>4. CyclesGood(cycles) BY DEF TypeInv
  <1>5. /\ DOMAIN cycles' = DOMAIN cycles \cup {n} /\ n \notin DOMAIN cycles
        /\ cycles'[n] = new /\ \A c \in DOMAIN cycles : cycles'[c] = cycles[c]
    BY <1>2, <1>4, SeqAppend DEF CyclesGood
  <1>6. Sounds(conf) /\ IsSeq(conf) /\ Len(conf) \in Nat BY ConfsSound, SeqParts DEF Sounds
  <1>7. Built(new, 0)
    <2>1. Len(all) \in Nat BY <1>6, AskedParts, SeqParts DEF Sounds
    <2> HIDE DEF all
    <2>2. 0 \in 0..Len(all) /\ 1..0 = {} BY <2>1
    <2>3. Len(new.peers) = Cardinality(Syslogs(all, 0))
      <3>1. Syslogs(all, 0) = {} BY <2>2 DEF Syslogs
      <3>2. Cardinality(Syslogs(all, 0)) = 0 BY <3>1, FS_EmptySet
      <3> QED BY <3>2, <1>1
    <2>4. Chain(new.logs, all, 0)
      <3>1. Len(new.logs) = 1 /\ new.logs[1] = NewLog BY <1>1
      <3>2. NewLog.next = 0 BY NewLogs
      <3> QED BY <3>1, <3>2 DEF Chain, SameSay
    <2> QED BY <1>1, <1>6, <2>2, <2>3, <2>4 DEF Built, all
  <1>8. Loading'
    <2>1. Len(conf) - Len(conf) = 0 /\ \A j \in DOMAIN conf : 0 + j = j
      BY <1>6, SeqParts
    <2> QED BY <1>1, <1>3, <1>5, <1>6, <1>7, <2>1 DEF Loading
  <1>9. ASSUME NEW c \in DOMAIN cycles', Usable(c)' PROVE Full(cycles'[c])
    <2>1. c # n BY <1>3, <1>9 DEF Usable
    <2>2. c \in DOMAIN cycles /\ cycles'[c] = cycles[c] BY <2>1, <1>5
    <2>3. c # reload.cycle
      <3>1. 0 \notin DOMAIN cycles BY <1>4, SeqParts DEF CyclesGood
      <3> QED BY <3>1, <2>2, <1>2 DEF NoReload
    <2>4. Usable(c) BY <1>9, <2>2, <2>3 DEF Usable
    <2> QED BY <2>2, <2>4 DEF Meant
  <1>10. CallsRight' /\ Undone' BY <1>2, <1>3 DEF CallsRight, Undone
  <1> QED BY <1>8, <1>9, <1>10 DEF Meant

\* A directive, or the end of the configuration.
LEMMA LoadMeant ==
    ASSUME TypeInv, Meant, NEW c, c = reload.cycle, reload.phase = "conf", stack' = <<>>,
           NEW e, cycles' = WithCycle(cycles, c, e), e = Gone \/ GoodCycle(e),
           reload'.cycle = c,
           \/ reload'.phase = "made" /\ Full(e)
           \/ reload'.phase = "conf" /\ Loading'
    PROVE  Meant'
  <1>1. CyclesGood(cycles) /\ c \in DOMAIN cycles
    BY DEF TypeInv, ReloadRight, Live, LiveIn
  <1>2. /\ DOMAIN cycles' = DOMAIN cycles /\ cycles'[c] = e
        /\ \A d \in DOMAIN cycles : d # c => cycles'[d] = cycles[d]
    BY <1>1, CycleSet
  <1>3. ASSUME NEW d \in DOMAIN cycles', Usable(d)' PROVE Full(cycles'[d])
    <2>1. CASE d = c
      <3>1. reload'.phase = "made" BY <2>1, <1>3 DEF Usable
      <3> QED BY <2>1, <3>1, <1>2
    <2>2. CASE d # c
      <3>1. Usable(d) /\ cycles'[d] = cycles[d] BY <2>2, <1>2, <1>3 DEF Usable
      <3> QED BY <3>1, <1>2 DEF Meant
    <2> QED BY <2>1, <2>2
  <1>4. CallsRight' /\ Undone' BY DEF CallsRight, Undone
  <1> QED BY <1>3, <1>4 DEF Meant

LEMMA ErrorLogMeant ==
    ASSUME TypeInv, Meant, ErrorLog
    PROVE  Meant'
  <1> SUFFICES ASSUME NEW c, c = reload.cycle PROVE Meant' OBVIOUS
  <1> DEFINE left == Tail(reload.left)
             d == Head(reload.left)
             a == cycles[c]
             n == Len(a.conf) - Len(reload.left)
             e == SetLog(a, d)
  <1>1. /\ stack' = <<>> /\ reload.phase = "conf" /\ reload.left # <<>> /\ ~Refused(d)
        /\ cycles' = WithCycle(cycles, c, e) /\ reload' = [reload EXCEPT !.left = left]
    BY DEF ErrorLog, WithCycle, Idle
  <1>2. /\ IsSeq(reload.left) /\ Built(a, n) /\ GoodCycle(a)
        /\ \A j \in DOMAIN reload.left : reload.left[j] = a.conf[n + j]
        /\ reload = [phase |-> reload.phase, cycle |-> reload.cycle, left |-> reload.left]
    BY <1>1 DEF Meant, Loading, TypeInv, ReloadRight, Live, LiveIn
  <1>3. reload'.phase = "conf" /\ reload'.cycle = c /\ reload'.left = left
    <2> HIDE DEF left
    <2> DEFINE r == [reload EXCEPT !.left = left]
    <2>1. r = [phase |-> "conf", cycle |-> c, left |-> left] BY <1>1, <1>2
    <2> HIDE DEF r
    <2>2. r.phase = "conf" /\ r.cycle = c /\ r.left = left BY <2>1
    <2> QED BY <2>2, <1>1 DEF r
  <1>4. /\ d = reload.left[1] /\ IsSeq(left) /\ Len(left) = Len(reload.left) - 1
        /\ Len(reload.left) \in Nat /\ Len(reload.left) >= 1
        /\ DOMAIN reload.left = 1..Len(reload.left) /\ DOMAIN left = 1..Len(left)
        /\ \A j \in DOMAIN left : left[j] = reload.left[j + 1]
    <2> DEFINE S == {reload.left[j] : j \in DOMAIN reload.left}
               s == reload.left
    <2>1. s \in Seq(S) /\ s # <<>> BY <1>1, <1>2 DEF IsSeq
    <2> HIDE DEF S, s
    <2>2. Head(s) = s[1] /\ Tail(s) \in Seq(S) /\ Len(Tail(s)) = Len(s) - 1 BY <2>1
    <2>3. Len(s) \in Nat /\ Len(s) >= 1 BY <2>1
    <2>4. DOMAIN s = 1..Len(s) /\ DOMAIN Tail(s) = 1..Len(Tail(s)) BY <2>1, <2>2
    <2>5. \A j \in DOMAIN Tail(s) : Tail(s)[j] = s[j + 1] BY <2>1, <2>2, <2>4
    <2>6. IsSeq(Tail(s)) BY <2>2, SeqTyped
    <2> QED BY <2>2, <2>3, <2>4, <2>5, <2>6 DEF s
  <1>5. Sounds(a.conf) /\ Len(a.conf) \in Nat /\ n \in Nat
    <2>1. Sounds(a.conf) BY <1>2 DEF Built
    <2>2. n \in Nat BY <1>2, BuiltLevels
    <2> QED BY <2>1, <2>2, SeqParts DEF Sounds
  <1>6. n < Len(a.conf) /\ 1 \in DOMAIN reload.left
    <2>1. \A x, l \in Nat : l >= 1 => x - l < x /\ 1 \in 1..l OBVIOUS
    <2> QED BY <2>1, <1>4, <1>5
  <1>7. d = a.conf[n + 1] BY <1>2, <1>4, <1>6
  <1>8. GoodCycle(e) BY <1>2, SetLogGrows DEF Grows
  <1>e. e = SetLog(a, d) OBVIOUS
  <1>n. Len(a.conf) - (Len(reload.left) - 1) = n + 1 BY <1>4, <1>5
  <1> HIDE DEF d, e, n, left
  <1>9. Built(e, n + 1) /\ e.conf = a.conf
    BY <1>1, <1>2, <1>5, <1>6, <1>7, <1>e, SetLogBuilt
  <1>10. Loading'
    <2>1. cycles'[c] = e
      <3>1. c \in DOMAIN cycles BY <1>1 DEF TypeInv, ReloadRight, Live, LiveIn
      <3> QED BY <3>1, <1>1 DEF WithCycle
    <2>2. Len(e.conf) - Len(left) = n + 1 BY <1>4, <1>n, <1>9
    <2>3. ASSUME NEW j \in DOMAIN left PROVE left[j] = e.conf[(n + 1) + j]
      <3>1. j + 1 \in DOMAIN reload.left /\ n + (j + 1) = (n + 1) + j
        <4>1. j \in Nat /\ j >= 1 /\ j <= Len(reload.left) - 1 BY <1>4
        <4>2. j + 1 \in 1..Len(reload.left) BY <4>1, <1>4
        <4> QED BY <4>1, <4>2, <1>4, <1>5
      <3>2. left[j] = reload.left[j + 1] BY <1>4
      <3>3. reload.left[j + 1] = a.conf[n + (j + 1)] BY <3>1, <1>2
      <3> QED BY <3>1, <3>2, <3>3, <1>9
    <2> DEFINE i == n + 1
    <2>4. Built(e, i) /\ Len(e.conf) - Len(left) = i /\ \A j \in DOMAIN left : left[j] = e.conf[i + j]
      BY <1>9, <2>2, <2>3
    <2> HIDE DEF i
    <2> QED BY ONLY <1>3, <1>4, <2>1, <2>4, c = reload.cycle DEF Loading
  <1> QED BY <1>1, <1>3, <1>8, <1>10, LoadMeant

LEMMA OpenLogsMeant ==
    ASSUME TypeInv, Meant, OpenLogs
    PROVE  Meant'
  <1> SUFFICES ASSUME NEW c, c = reload.cycle PROVE Meant' OBVIOUS
  <1> DEFINE a == cycles[c]
             e == [a EXCEPT !.logs = LogOpenDefault(a.logs)]
             r == [reload EXCEPT !.phase = "made"]
  <1>1. /\ stack' = <<>> /\ reload.phase = "conf" /\ reload.left = <<>>
        /\ cycles' = WithCycle(cycles, c, e) /\ reload' = r
    BY Zenon DEF OpenLogs, WithCycle, Idle
  <1>2. /\ Built(a, Len(a.conf) - Len(reload.left)) /\ GoodCycle(a)
        /\ reload = [phase |-> reload.phase, cycle |-> reload.cycle, left |-> reload.left]
    BY <1>1 DEF Meant, Loading, TypeInv, ReloadRight, Live, LiveIn
  <1>3. r.phase = "made" /\ r.cycle = c
    <2>1. r = [phase |-> "made", cycle |-> c, left |-> reload.left] BY <1>2
    <2> HIDE DEF r
    <2> QED BY <2>1
  <1>4. Built(a, Len(a.conf))
    <2>1. Len(a.conf) \in Nat /\ Len(reload.left) = 0 BY <1>1, <1>2, SeqParts DEF Built, Sounds
    <2>2. Len(a.conf) - Len(reload.left) = Len(a.conf) BY <2>1
    <2> QED BY <2>2, <1>2
  <1>5. GoodCycle(e) BY <1>2, OpenDefaultGrows DEF Grows
  <1>6. Full(e) BY <1>2, <1>4, OpenBuilt
  <1> HIDE DEF e, r
  <1> QED BY <1>1, <1>3, <1>5, <1>6, LoadMeant

LEMMA CleanupMeant ==
    ASSUME TypeInv, Meant, SyslogCleanup
    PROVE  Meant'
  <1> SUFFICES ASSUME NEW c, c = dying.cycle, NEW k, k = Head(dying.left)
               PROVE  Meant'
    OBVIOUS
  <1> DEFINE new == [cycles[c].peers[k] EXCEPT !.busy = TRUE]
  <1>1. /\ stack = <<>> /\ dying.left # <<>> /\ cycles' = CleanedUp(c, k)
        /\ stack' = stack \/ stack' = LogError(stack, hky_cycle, ALERT)
        /\ UNCHANGED <<hky_cycle, reload>>
    BY Zenon DEF SyslogCleanup
  <1>2. dying # NotDying BY <1>1 DEF NotDying
  <1>3. Live(c) /\ dying.left \in Seq(DOMAIN cycles[c].peers) /\ CyclesGood(cycles)
    BY <1>2 DEF TypeInv, DyingRight
  <1>4. k \in DOMAIN cycles[c].peers BY <1>1, <1>3, HeadTail
  <1>5. cycles' = WithPeer(cycles, c, k, new) BY <1>1, CleanupChange
  <1>6. IsPeer(cycles[c].peers[k]) /\ IsPeer(new)
    BY <1>3, <1>4, PeerFields DEF Live, LiveIn, GoodCycle
  <1> HIDE DEF new
  <1>7. SameLogs(cycles, cycles') BY <1>3, <1>4, <1>5, <1>6, PeersChanged
  <1>8. LiveIn(cycles', hky_cycle) /\ Full(cycles'[hky_cycle])
    <2>1. LiveIn(cycles, hky_cycle) /\ Full(cycles[hky_cycle]) BY HkyFull
    <2>2. GoodCycle(cycles[hky_cycle]) /\ Alike(cycles[hky_cycle], cycles'[hky_cycle])
          /\ hky_cycle \in DOMAIN cycles'
      BY <2>1, <1>7 DEF LiveIn, SameLogs
    <2> QED BY <2>1, <2>2, BuiltAlike DEF Full, Alike, LiveIn
  <1>9. CallsRight' BY <1>1, <1>8, Severities, FirstRight
  <1>10. Undone'
    <2>1. dying'.cycle = dying.cycle
      <3> DEFINE left == Tail(dying.left)
                 run == dying.run \cup {k}
      <3>1. dying' = [dying EXCEPT !.left = left, !.run = run] BY Zenon DEF SyslogCleanup
      <3>2. dying = [cycle |-> dying.cycle, left |-> dying.left, run |-> dying.run]
        BY DEF TypeInv, DyingRight
      <3> HIDE DEF left, run
      <3>3. dying' = [cycle |-> dying.cycle, left |-> left, run |-> run] BY <3>1, <3>2
      <3> QED BY <3>3
    <2> QED BY <2>1, <1>1, <1>2 DEF Meant, Undone
  <1> QED BY <1>1, <1>7, <1>9, <1>10, MeantKept

LEMMA FreeMeant ==
    ASSUME TypeInv, Meant, FreePool
    PROVE  Meant'
  <1> SUFFICES ASSUME NEW c, c = dying.cycle PROVE Meant' OBVIOUS
  <1>1. /\ stack' = <<>> /\ dying # NotDying /\ cycles' = WithCycle(cycles, c, Gone)
        /\ reload' = NoReload
    BY DEF FreePool, WithCycle
  <1>2. Live(c) /\ CyclesGood(cycles) BY <1>1 DEF TypeInv, DyingRight
  <1>3. /\ DOMAIN cycles' = DOMAIN cycles /\ cycles'[c] = Gone
        /\ \A d \in DOMAIN cycles : d # c => cycles'[d] = cycles[d]
    BY <1>1, <1>2, CycleSet DEF Live, LiveIn
  <1>4. reload.phase \in {"none", "failed", "done"} /\ (reload.phase = "failed" => c = reload.cycle)
    BY <1>1 DEF TypeInv, DyingRight, Meant, Undone
  <1>5. reload.phase = "none" => reload.cycle \notin DOMAIN cycles
    <2>1. 0 \notin DOMAIN cycles BY <1>2, SeqParts DEF CyclesGood
    <2> QED BY <2>1 DEF TypeInv, ReloadRight, NoReload
  <1>6. ASSUME NEW d \in DOMAIN cycles', Usable(d)' PROVE Full(cycles'[d])
    <2>1. d # c /\ d \in DOMAIN cycles /\ cycles'[d] = cycles[d] BY <1>3, <1>6 DEF Usable
    <2>2. Usable(d) BY <2>1, <1>4, <1>5, <1>6 DEF Usable
    <2> QED BY <2>1, <2>2 DEF Meant
  <1>7. reload'.phase = "none" BY <1>1 DEF NoReload
  <1>8. CallsRight' /\ Undone' BY <1>1, <1>7 DEF CallsRight, Undone
  <1> QED BY <1>6, <1>7, <1>8 DEF Meant

-----------------------------------------------------------------------------
(* Before the first configuration is read.                                  *)

LEMMA NoticeAlone ==
    LET words == <<"notice">> IN
    IsSeq(words) /\ SetLevels(words) = NOTICE
  <1> DEFINE words == <<"notice">>
             level == CHOOSE f : LevelSteps(f, words)
  <1>1. words # <<>> /\ Len(words) = 1 /\ words[1] = "notice" /\ IsSeq(words) BY DEF IsSeq
  <1>2. SetLevels(words) = level[Len(words)]
    <2>1. SetLevels(words) = IF words = <<>> THEN ERR ELSE level[Len(words)]
      BY DEF SetLevels, LevelSteps
    <2> QED BY <2>1, <1>1
  <1> HIDE DEF words
  <1>3. LevelSteps(level, words) BY <1>1, LevelsExist
  <1> HIDE DEF level
  <1>4. level[0] = 0 /\ level[1] = SetLevel(level[0], words[1])
    <2>1. 0 \in 0..Len(words) /\ 1 \in 0..Len(words) /\ 1 # 0 /\ 1 - 1 = 0 BY <1>1
    <2> QED BY <2>1, <1>3 DEF LevelSteps
  <1>5. {n \in 1..(DEBUG - 1) : LevelNames[n] = "notice"} = {NOTICE}
    BY DEF LevelNames, DEBUG, NOTICE
  <1>6. SetLevel(0, "notice") = FirstOf({NOTICE})
    <2> DEFINE v == 0
    <2>1. v # Invalid /\ v = 0 BY DEF Invalid
    <2> HIDE DEF v
    <2>2. SetLevel(v, "notice") = FirstOf({NOTICE}) BY <2>1, <1>5, PlainWord
    <2> QED BY <2>1, <2>2
  <1>7. FirstOf({NOTICE}) = NOTICE
    <2>1. {NOTICE} \in SUBSET Nat BY DEF NOTICE
    <2> QED BY <2>1, FirstOfIn
  <1> QED BY <1>1, <1>2, <1>4, <1>6, <1>7 DEF words

LEMMA InitMeant ==
    ASSUME Init
    PROVE  Meant
  <1>1. PICK name \in {DefaultFile, Stderr} : cycles = <<LogInit(name)>> BY DEF Init
  <1> DEFINE x == FileLog(name, NOTICE)
             d == FileDirective(name, <<"notice">>)
             conf == <<d>>
             c == LogInit(name)
             all == Asked(conf)
  <1>2. c = [conf |-> conf, logs |-> <<x>>, peers |-> <<>>, cleanups |-> <<>>] BY DEF LogInit
  <1>3. c.conf = conf /\ c.logs = <<x>> /\ c.peers = <<>> BY <1>2
  <1>4. DOMAIN cycles = {1} /\ cycles[1] = c BY <1>1
  <1> HIDE DEF c
  <1>5. d.to = "file" /\ d.file = name /\ d.words = <<"notice">> BY DEF FileDirective
  <1>6. name # NoFile BY DEF DefaultFile, Stderr, NoFile
  <1>7. SetLevels(d.words) = NOTICE /\ IsSeq(d.words) BY <1>5, NoticeAlone
  <1>8. ~Refused(d) BY <1>5, <1>7 DEF Refused, NOTICE, Invalid
  <1>9. Sound(d) BY <1>5, <1>6, <1>7 DEF Sound
  <1> HIDE DEF d
  <1>10. Len(conf) = 1 /\ DOMAIN conf = {1} /\ conf[1] = d /\ IsSeq(conf) BY DEF IsSeq
  <1> HIDE DEF conf
  <1>11. Sounds(conf) BY <1>9, <1>10 DEF Sounds
  <1>12. NamesFile(conf) BY <1>5, <1>10 DEF NamesFile
  <1>13. Len(all) = 1 /\ all[1] = d
    <2>1. 1 \in 1..1 OBVIOUS
    <2> QED BY <2>1, <1>10, <1>11, <1>12, AskedParts
  <1> HIDE DEF all
  <1>14. Chain(c.logs, all, 1)
    <2>1. Target(x) = [file |-> name, peer |-> 0] /\ x.log_level = NOTICE BY NewTargets
    <2>2. TargetOf(all, 1) = [file |-> name, peer |-> 0] BY <1>5, <1>13 DEF TargetOf
    <2>3. x.next = 0 BY NewLogs
    <2>4. NOTICE \in Int BY DEF NOTICE
    <2> HIDE DEF x
    <2>5. Len(c.logs) = 1 /\ c.logs[1] = x BY <1>3
    <2> QED BY <2>1, <2>2, <2>3, <2>4, <2>5, <1>7, <1>13, FirstChain
  <1>15. Full(c)
    <2>1. Syslogs(all, 1) = {} BY <1>5, <1>13 DEF Syslogs
    <2>2. Len(c.peers) = Cardinality(Syslogs(all, 1)) BY <2>1, <1>3, FS_EmptySet
    <2>3. \A i \in 1..1 : ~Refused(all[i]) BY <1>8, <1>13
    <2>4. 1 \in 0..1 OBVIOUS
    <2> QED BY <2>2, <2>3, <2>4, <1>3, <1>11, <1>13, <1>14 DEF Full, Built, all
  <1>16. reload.phase = "none" /\ dying = NotDying /\ stack = <<>> BY DEF Init, NoReload
  <1>17. CallsRight /\ Undone BY <1>16 DEF CallsRight, Undone
  <1> QED BY <1>4, <1>15, <1>16, <1>17 DEF Meant

-----------------------------------------------------------------------------
(* A call that is over.                                                     *)

\* A sequence has the bag of a function whose arguments it goes through.
LEMMA SameBag ==
    ASSUME NEW n \in Nat, NEW r, DOMAIN r = 1..n, NEW f, NEW q,
           \A j \in 1..n : q[j] \in DOMAIN f /\ r[j] = f[q[j]],
           \A j, k \in 1..n : q[j] = q[k] => j = k,
           \A i \in DOMAIN f : \E j \in 1..n : q[j] = i
    PROVE  ToBag(r) = ToBag(f)
  <1> DEFINE R(x) == Cardinality({j \in DOMAIN r : r[j] = x})
             F(x) == Cardinality({i \in DOMAIN f : f[i] = x})
  <1>1. Range(r) = Range(f) BY DEF Range
  <1>2. ASSUME NEW x PROVE F(x) = R(x)
    <2> DEFINE A == {j \in 1..n : r[j] = x}
               B == {i \in DOMAIN f : f[i] = x}
               g == [j \in A |-> q[j]]
    <2>1. IsFiniteSet(A)
      <3>1. IsFiniteSet(1..n) BY FS_Interval
      <3> QED BY <3>1, FS_Subset
    <2>2. g \in [A -> B] OBVIOUS
    <2>3. g \in Injection(A, B)
      <3>1. \A j, k \in A : g[j] = g[k] => j = k OBVIOUS
      <3>2. IsInjective(g) BY <3>1 DEF IsInjective
      <3> QED BY <2>2, <3>2 DEF Injection
    <2>4. g \in Surjection(A, B)
      <3>1. \A i \in B : \E j \in A : g[j] = i OBVIOUS
      <3> QED BY <2>2, <3>1 DEF Surjection
    <2>5. ExistsBijection(A, B)
      <3> HIDE DEF g
      <3> QED BY <2>3, <2>4 DEF ExistsBijection, Bijection
    <2> HIDE DEF A, B
    <2>6. Cardinality(B) = Cardinality(A) BY <2>1, <2>5, FS_Bijection
    <2> QED BY <2>6 DEF A, B
  <1>3. ToBag(r) = [x \in Range(r) |-> R(x)] /\ ToBag(f) = [x \in Range(f) |-> F(x)]
    BY Zenon DEF ToBag
  <1> HIDE DEF R, F
  <1> QED BY <1>1, <1>2, <1>3

LEMMA AskedSome ==
    ASSUME NEW conf, Sounds(conf)
    PROVE  LET all == Asked(conf) IN
           Len(all) \in Nat \ {0} /\ DOMAIN all = 1..Len(all)
  <1> DEFINE all == Asked(conf)
             n == Len(conf)
  <1>1. /\ Sounds(all) /\ n \in Nat
        /\ NamesFile(conf) => Len(all) = n
        /\ ~NamesFile(conf) => Len(all) = n + 1
    BY AskedParts
  <1> HIDE DEF all
  <1>2. DOMAIN all = 1..Len(all) BY <1>1, SeqParts DEF Sounds
  <1>3. NamesFile(conf) => n # 0
    <2>1. DOMAIN conf = 1..n BY SeqParts DEF Sounds
    <2> QED BY <1>1, <2>1 DEF NamesFile
  <1>4. Len(all) \in Nat \ {0} BY <1>1, <1>3
  <1> QED BY <1>2, <1>4 DEF all

\* The chain of a cycle that is in use, in one piece.
LEMMA FullParts ==
    ASSUME NEW c, Full(c), NEW all, all = Asked(c.conf), NEW m, m = Len(all)
    PROVE  /\ m \in Nat \ {0} /\ DOMAIN all = 1..m
           /\ \E s, q : Linked(c.logs, s, m) /\ Asking(c.logs, s, all, q, m)
           /\ \A i \in 1..m :
                /\ SetLevels(all[i].words) \in Nat
                /\ \A level \in 1..(DEBUG - 1) :
                     Wants(all[i], level) <=> SetLevels(all[i].words) >= level
  <1>1. Built(c, m) BY DEF Full
  <1>2. m \in Nat \ {0} /\ DOMAIN all = 1..m BY <1>1, AskedSome DEF Built
  <1>3. Chain(c.logs, all, m) BY <1>1 DEF Built
  <1>4. \E s, q : Linked(c.logs, s, m) /\ Asking(c.logs, s, all, q, m)
    BY <1>2, <1>3 DEF Chain
  <1>5. \A i \in 1..m :
          /\ SetLevels(all[i].words) \in Nat
          /\ \A level \in 1..(DEBUG - 1) :
               Wants(all[i], level) <=> SetLevels(all[i].words) >= level
    BY <1>1, BuiltLevels
  <1> QED BY <1>2, <1>4, <1>5

LEMMA ToldReached ==
    ASSUME CallRight(cycles, call), call.step = "told"
    PROVE  /\ ToBag(call.reached) = ToBag(Promised(cycles[call.cycle].conf, call.level))
           /\ call.level <= WARN => call.wrote_stderr
  <1> DEFINE c == cycles[call.cycle]
             logs == c.logs
             level == call.level
             r == call.reached
             all == Asked(c.conf)
             m == Len(all)
             f == Promised(c.conf, level)
  <1>1. /\ Full(c) /\ level \in 1..(DEBUG - 1) /\ IsSeq(r)
        /\ \A s : Linked(logs, s, Len(logs)) => \E k \in 1..(Len(logs) + 1) : Seen(logs, s, call, k)
    BY DEF CallRight
  <1>2. /\ m \in Nat \ {0} /\ DOMAIN all = 1..m
        /\ \E s, q : Linked(logs, s, m) /\ Asking(logs, s, all, q, m)
        /\ \A i \in 1..m : /\ SetLevels(all[i].words) \in Nat
                           /\ \A l \in 1..(DEBUG - 1) :
                                Wants(all[i], l) <=> SetLevels(all[i].words) >= l
    BY <1>1, FullParts
  <1>3. f = [i \in {j \in DOMAIN all : Wants(all[j], level)} |-> TargetOf(all, i)]
    BY DEF Promised
  <1> HIDE DEF all, m, c, level, r, f
  <1>4. PICK s, q : Linked(logs, s, m) /\ Asking(logs, s, all, q, m) BY <1>2
  <1>5. Len(logs) = m BY <1>4 DEF Linked
  <1>6. PICK k \in 1..(m + 1) : Seen(logs, s, call, k) BY <1>1, <1>4, <1>5
  <1>7. /\ Len(r) = k - 1
        /\ \A j \in 1..(k - 1) : r[j] = Target(logs[s[j]]) /\ logs[s[j]].log_level >= level
        /\ k # m + 1 => ~(logs[s[k]].log_level >= level)
        /\ level <= WARN => call.wrote_stderr
    BY <1>5, <1>6 DEF Seen, r, level
  <1>8. /\ \A j \in 1..m : q[j] \in 1..m
        /\ \A j, h \in 1..m : q[j] = q[h] => j = h
        /\ \A i \in 1..m : \E j \in 1..m : q[j] = i
        /\ \A j \in 1..m : /\ logs[s[j]].log_level = SetLevels(all[q[j]].words)
                           /\ Target(logs[s[j]]) = TargetOf(all, q[j])
    BY <1>4 DEF Asking, Order
  <1>9. \A j, h \in 1..m : j <= h => logs[s[h]].log_level <= logs[s[j]].log_level
    BY <1>4 DEF Linked
  <1>10. \A j \in 1..(k - 1) : j \in 1..m BY <1>2
  <1>11. DOMAIN f = {i \in 1..m : SetLevels(all[i].words) >= level} BY <1>1, <1>2, <1>3
  <1>12. ASSUME NEW j \in 1..(k - 1) PROVE q[j] \in DOMAIN f /\ r[j] = f[q[j]]
    <2>1. j \in 1..m /\ q[j] \in 1..m BY <1>8, <1>10
    <2>2. SetLevels(all[q[j]].words) >= level 
      <3>1. logs[s[j]].log_level >= level BY <1>7
      <3>2. logs[s[j]].log_level = SetLevels(all[q[j]].words) BY <2>1, <1>8
      <3> QED BY <3>1, <3>2
    <2>3. q[j] \in DOMAIN f BY <2>1, <2>2, <1>11
    <2>4. f[q[j]] = TargetOf(all, q[j]) BY <2>3, <1>3
    <2> QED BY <2>1, <2>3, <2>4, <1>7, <1>8
  <1>13. \A j, h \in 1..(k - 1) : q[j] = q[h] => j = h BY <1>8, <1>10
  <1>14. ASSUME NEW i \in DOMAIN f PROVE \E j \in 1..(k - 1) : q[j] = i
    <2>1. i \in 1..m /\ SetLevels(all[i].words) >= level BY <1>11
    <2>2. PICK j \in 1..m : q[j] = i BY <2>1, <1>8
    <2>3. logs[s[j]].log_level >= level BY <2>1, <2>2, <1>8
    <2>4. j < k
      <3> SUFFICES ASSUME k <= j PROVE FALSE BY <1>2
      <3>1. k # m + 1 /\ k \in 1..m BY <1>2
      <3>2. logs[s[j]].log_level <= logs[s[k]].log_level BY <3>1, <1>9
      <3>3. logs[s[k]].log_level \in Nat /\ logs[s[j]].log_level \in Nat 
        <4>1. q[k] \in 1..m /\ q[j] \in 1..m BY <3>1, <1>8
        <4>2. /\ logs[s[k]].log_level = SetLevels(all[q[k]].words)
              /\ logs[s[j]].log_level = SetLevels(all[q[j]].words)
          BY <3>1, <1>8
        <4>3. SetLevels(all[q[k]].words) \in Nat /\ SetLevels(all[q[j]].words) \in Nat
          BY <4>1, <1>2
        <4> QED BY <4>2, <4>3
      <3>4. \A a, b \in Nat : a <= b /\ a >= level => b >= level BY <1>1 DEF DEBUG
      <3> QED BY <2>3, <3>1, <3>2, <3>3, <3>4, <1>7
    <2> QED BY <2>2, <2>4
  <1>15. k - 1 \in Nat /\ DOMAIN r = 1..(k - 1) BY <1>1, <1>2, <1>7, SeqParts
  <1>16. ToBag(r) = ToBag(f)
    <2> DEFINE n == k - 1
    <2>1. /\ n \in Nat /\ DOMAIN r = 1..n
          /\ \A j \in 1..n : q[j] \in DOMAIN f /\ r[j] = f[q[j]]
          /\ \A j, h \in 1..n : q[j] = q[h] => j = h
          /\ \A i \in DOMAIN f : \E j \in 1..n : q[j] = i
      BY <1>12, <1>13, <1>14, <1>15
    <2> HIDE DEF n
    <2> QED BY ONLY <2>1, SameBag, SMTT(30)
  <1> QED BY <1>7, <1>16 DEF r, f, level, c

\* A message that is below the head is below every log.
LEMMA HeadSpeaks ==
    ASSUME NEW c, Full(c), NEW level \in 1..(DEBUG - 1), c.logs[1].log_level < level
    PROVE  DOMAIN Promised(c.conf, level) = {}
  <1> DEFINE logs == c.logs
             all == Asked(c.conf)
             m == Len(all)
             f == Promised(c.conf, level)
  <1>2. /\ m \in Nat \ {0} /\ DOMAIN all = 1..m
        /\ \E s, q : Linked(logs, s, m) /\ Asking(logs, s, all, q, m)
        /\ \A i \in 1..m : /\ SetLevels(all[i].words) \in Nat
                           /\ \A l \in 1..(DEBUG - 1) :
                                Wants(all[i], l) <=> SetLevels(all[i].words) >= l
    BY FullParts
  <1>3. f = [i \in {j \in DOMAIN all : Wants(all[j], level)} |-> TargetOf(all, i)]
    BY DEF Promised
  <1> HIDE DEF all, m, f
  <1>4. PICK s, q : Linked(logs, s, m) /\ Asking(logs, s, all, q, m) BY <1>2
  <1>5. ASSUME NEW i \in DOMAIN f PROVE FALSE
    <2>1. i \in 1..m /\ SetLevels(all[i].words) >= level BY <1>2, <1>3, <1>5
    <2>2. PICK j \in 1..m : q[j] = i BY <2>1, <1>4 DEF Asking, Order
    <2>3. logs[s[j]].log_level = SetLevels(all[i].words) BY <2>2, <1>4 DEF Asking
    <2>4. 1 \in 1..m /\ 1 <= j /\ s[1] = 1 BY <1>2, <1>4 DEF Linked
    <2>5. logs[s[j]].log_level <= logs[1].log_level BY <2>4, <1>4 DEF Linked
    <2>6. logs[1].log_level \in Nat
      <3>1. logs[s[1]].log_level = SetLevels(all[q[1]].words) /\ q[1] \in 1..m
        BY <2>4, <1>4 DEF Asking, Order
      <3> QED BY <3>1, <2>4, <1>2
    <2>7. SetLevels(all[i].words) \in Nat BY <2>1, <1>2
    <2>8. \A a, b \in Nat : ~(b < level /\ a <= b /\ a >= level) BY DEF DEBUG
    <2> QED BY <2>1, <2>3, <2>5, <2>6, <2>7, <2>8
  <1> QED BY <1>5 DEF f

LEMMA MeantStep ==
    ASSUME TypeInv, Meant, [Next]_vars
    PROVE  Meant'
  <1>1. CASE LogStep BY <1>1, LogMeant
  <1>2. CASE (\E c \in DOMAIN cycles, level \in Levels : Message(c, level)) \/ Tick
    BY <1>2, SaidMeant
  <1>3. CASE \E conf \in Confs : Begin(conf) BY <1>3, BeginMeant
  <1>4. CASE ErrorLog BY <1>4, ErrorLogMeant
  <1>5. CASE OpenLogs BY <1>5, OpenLogsMeant
  <1>6. CASE Fail \/ DestroyNew \/ DestroyOld \/ Retire \/ \E c \in DOMAIN cycles : CleanOld(c)
    BY <1>6, OverMeant
  <1>7. CASE SyslogCleanup BY <1>7, CleanupMeant
  <1>8. CASE FreePool BY <1>8, FreeMeant
  <1>9. CASE UNCHANGED vars
    <2>1. CallsRight' /\ Undone' BY <1>9 DEF vars, Meant, CallsRight, Undone
    <2>2. SameLogs(cycles, cycles') /\ reload' = reload BY <1>9, SameLogsSame DEF vars
    <2> QED BY <2>1, <2>2, MeantKept
  <1> QED BY <1>1, <1>2, <1>3, <1>4, <1>5, <1>6, <1>7, <1>8, <1>9 DEF Next

-----------------------------------------------------------------------------
(* The results. *)

\* In every state the chains lead to an end, a busy peer is one that a call is
\* in or that was cleaned up, and every socket of a peer has its owner.
THEOREM Invariance == Spec => []IInv
  BY InitInv, Inductive, PTL DEF Spec

\* The errors of a peer, which are logged themselves, never go through the peer
\* a call is writing to, nor through one whose cleanup has run; and no peer
\* stays busy after the call that was in it.
THEOREM NestingGuarded == Spec => []SendsGuarded
  <1>1. ASSUME IInv PROVE SendsGuarded
    <2>1. Guarded BY <1>1 DEF IInv
    <2>2. ASSUME NEW m \in DOMAIN stack, NEW n \in DOMAIN stack,
                 InWriter(m), InWriter(n), PeerOf(m) = PeerOf(n)
          PROVE  m = n
      BY <2>1, <2>2 DEF Guarded, Writers
    <2>3. ASSUME NEW n \in DOMAIN stack, InWriter(n), PeerOf(n)[1] = dying.cycle
          PROVE  PeerOf(n)[2] \notin dying.run
      BY <2>1, <2>3 DEF Guarded, Writers, CleanedPeers, PeerOf
    <2>4. ASSUME NEW c \in DOMAIN cycles, NEW k \in DOMAIN cycles[c].peers,
                 cycles[c].peers[k].busy
          PROVE  \/ c = dying.cycle /\ k \in dying.run
                 \/ \E n \in DOMAIN stack : InWriter(n) /\ PeerOf(n) = <<c, k>>
      <3>1. <<c, k>> \in BusyPeers BY <2>4, PeersIn DEF BusyPeers, PeerAt
      <3>2. <<c, k>> \in CleanedPeers \/ \E n \in Writers : PeerOf(n) = <<c, k>>
        BY <2>1, <3>1 DEF Guarded
      <3> QED BY <3>2 DEF CleanedPeers, Writers
    <2> QED BY <2>2, <2>3, <2>4 DEF SendsGuarded
  <1> QED BY <1>1, Invariance, PTL

\* Until a peer is cleaned up twice, no socket of a peer is lost and none is
\* used that is another's: an open one is in the hands of a peer whose cleanup
\* will close it or of a connect that failed, and a peer's number is its own.
THEOREM SocketsAlwaysOwned == Spec => []SocketsOwned
  <1>1. ASSUME IInv, ~doubled PROVE SocketsOwned
    <2>1. Owned /\ CyclesGood(cycles) BY <1>1 DEF IInv, TypeInv
    <2>2. ASSUME NEW fd \in DOMAIN sockets
          PROVE  LET c == sockets[fd][1]
                     k == sockets[fd][2]
                 IN  \/ /\ cycles[c] # Gone /\ cycles[c].peers[k].fd = fd
                        /\ k \in ToSet(IF c = dying.cycle THEN dying.left ELSE cycles[c].cleanups)
                     \/ \E n \in DOMAIN stack :
                          InWriter(n) /\ stack[n].fd = fd /\ PeerOf(n) = sockets[fd]
      <3>1. CASE sockets[fd] \in Cleanable /\ PeerAt(sockets[fd]).fd = fd
        <4>1. PICK c \in DOMAIN cycles : \E k \in DOMAIN cycles[c].peers : sockets[fd] = <<c, k>>
          BY <3>1, PeersIn DEF Cleanable
        <4>2. cycles[c] # Gone BY <4>1 DEF Gone
        <4> QED BY <3>1, <4>1, <4>2 DEF Cleanable, PeerAt
      <3>2. CASE \E n \in Failed : stack[n].fd = fd /\ PeerOf(n) = sockets[fd]
        BY <3>2 DEF Failed, Writers
      <3> QED BY <2>1, <3>1, <3>2 DEF Owned
    <2>3. ASSUME NEW c \in DOMAIN cycles, NEW k \in DOMAIN cycles[c].peers
          PROVE  LET fd == cycles[c].peers[k].fd IN
                 \/ fd = -1
                 \/ c = dying.cycle /\ k \in dying.run
                 \/ fd \in DOMAIN sockets /\ sockets[fd] = <<c, k>>
      <3>1. <<c, k>> \in Peers /\ PeerAt(<<c, k>>) = cycles[c].peers[k] BY PeersIn DEF PeerAt
      <3>2. <<c, k>> \in CleanedPeers => c = dying.cycle /\ k \in dying.run BY DEF CleanedPeers
      <3> QED BY <2>1, <3>1, <3>2 DEF Owned
    <2> QED BY <2>2, <2>3 DEF SocketsOwned
  <1>2. doubled => SocketsOwned BY DEF SocketsOwned
  <1> QED BY <1>1, <1>2, Invariance, PTL

\* In every state the logs of a cycle in use are those of its configuration, each
\* with the level and the target of its directive and the higher the sooner; a
\* cycle being loaded has those of the directives read so far; and a call has
\* been at the logs before the one it is at, which all want its message.
THEOREM MeantInvariance == Spec => []Meant
  <1>1. Init => Meant BY InitMeant
  <1>2. IInv /\ Meant /\ [Next]_vars => Meant' BY MeantStep DEF IInv
  <1> QED BY <1>1, <1>2, Invariance, PTL DEF Spec

\* A call that is over has been at the logs whose directives ask for its level,
\* at each of them once and at no other, whatever the order of the directives;
\* and a message that the head of the chain turns away no directive asks for.
THEOREM LogsAlwaysReached == Spec => []EachLogReached
  <1>1. ASSUME IInv, Meant PROVE EachLogReached
    <2>1. TypeInv BY <1>1 DEF IInv
    <2>2. ASSUME At("told")
          PROVE  /\ ToBag(call.reached) = ToBag(Promised(cycles[call.cycle].conf, call.level))
                 /\ call.level <= WARN => call.wrote_stderr
      <3>1. stack # <<>> /\ call.step = "told" BY <2>2 DEF At
      <3>2. Len(stack) \in DOMAIN stack BY <2>1, <3>1, TopCall
      <3>3. CallRight(cycles, call) BY <1>1, <3>2 DEF Meant, CallsRight, call
      <3> QED BY <3>1, <3>3, ToldReached
    <2>3. ASSUME NEW c \in DOMAIN cycles, NEW level \in Levels,
                 Speaking(c), cycles[c].logs[1].log_level < level
          PROVE  DOMAIN Promised(cycles[c].conf, level) = {}
      <3>1. Usable(c) BY <2>3 DEF Speaking, Usable
      <3>2. level \in 1..(DEBUG - 1) BY SyslogAssumption
      <3> QED BY <1>1, <2>3, <3>1, <3>2, HeadSpeaks DEF Meant
    <2> QED BY <2>2, <2>3 DEF EachLogReached
  <1> QED BY <1>1, Invariance, MeantInvariance, PTL
=============================================================================
