--------------------------- MODULE HkyCycleProofs ---------------------------
(***************************************************************************)
(* What a reload may do to descriptors, sockets, segments and pid files,   *)
(* for any configurations, addresses and failures.                         *)
(*                                                                         *)
(* The open descriptors have five owners: the listeners of the cycle in    *)
(* force that are not closed yet, its files, the listeners the new cycle   *)
(* has opened, the new cycle's files, and nobody, since hky_create_pidfile *)
(* left some open.  OwnersApart says that the owners share nothing and     *)
(* that nothing else is open; each step moves descriptors between them.    *)
(* A listener that was taken over stays with the old cycle until Commit.   *)
(***************************************************************************)
EXTENDS HkyCycle, SequenceTheorems

Building == pc \notin {"idle", "exited"}
Releasing == pc \in {"freezones", "closesocks", "closefiles", "commit"}
Matched == pc \in {"open", "configure", "modules"} \/ Releasing

\* The old listeners that are still open.
Open(i) ==
    /\ pc = "closesocks" => i \in remain \/ i >= at
    /\ pc \in {"closefiles", "commit"} => i \in remain
OldSockets == {cur.listen[i].fd : i \in {j \in DOMAIN cur.listen : Open(j)}}
OldFiles == IF pc = "commit" THEN {} ELSE FdsOf(cur.files)
NewSockets == IF Building THEN OpenedSockets ELSE {}
NewFiles == IF Building THEN FdsOf(new.files) ELSE {}

Apart(A, B, C, D, E) ==
    /\ A \cap B = {} /\ A \cap C = {} /\ A \cap D = {} /\ A \cap E = {} /\ B \cap C = {}
    /\ B \cap D = {} /\ B \cap E = {} /\ C \cap D = {} /\ C \cap E = {} /\ D \cap E = {}

OwnersApart ==
    /\ Fds \ FreeFds = OldSockets \cup OldFiles \cup NewSockets \cup NewFiles \cup lost
    /\ Apart(OldSockets, OldFiles, NewSockets, NewFiles, lost)

\* No two entries of a table have one descriptor, but for stderr.
Distinct(s) == \A i, j \in DOMAIN s : s[i].fd = s[j].fd /\ s[i].fd \notin {NULL, 2} => i = j

\* The cycle in force has all its descriptors.
Settled ==
    /\ \A i \in DOMAIN cur.listen : cur.listen[i].fd \in Fds
    /\ \A i \in DOMAIN cur.files : cur.files[i].fd # NULL
    /\ Distinct(cur.listen) /\ Distinct(cur.files)

\* The new one: no socket is its own before the matching; from then on a
\* listener it does not open has the descriptor of one that remains, and each
\* that remains is taken.
Untouched == \A n \in DOMAIN new.listen : new.listen[n].fd = NULL /\ ~new.listen[n].open
TakenSockets == {new.listen[n].fd : n \in {k \in DOMAIN new.listen : ~new.listen[k].open}}
RemainingSockets == {cur.listen[i].fd : i \in remain}
SocketsUpTo(k) == \A n \in DOMAIN new.listen : n < k => new.listen[n].fd # NULL
AllSockets == \A n \in DOMAIN new.listen : new.listen[n].fd # NULL
AllFiles == \A n \in DOMAIN new.files : new.files[n].fd # NULL

Growing ==
    /\ Distinct(new.listen) /\ Distinct(new.files)
    /\ pc \in {"pid", "unpid", "files", "zones", "match"} => Untouched
    /\ Matched => TakenSockets = RemainingSockets
    /\ pc = "open" /\ ~busy => SocketsUpTo(at)
    /\ pc \in {"configure", "modules"} \/ Releasing => AllSockets
    /\ pc \notin {"pid", "unpid", "files", "failed"} => AllFiles

(* Segments.                                                               *)

Named(table) == \A i, j \in DOMAIN table : table[i].name = table[j].name => i = j
OneEach(table) ==
    \A i, j \in DOMAIN table : table[i].seg = table[j].seg /\ table[i].seg # NULL => i = j

\* A zone that is set up has the segment of the old zone it inherits from, or
\* one that no old zone has.
Derived(z) ==
    z.seg # NULL =>
       IF Inherits(z, cur.zones)
       THEN \A i \in Namesake(z, cur.zones) : z.seg = cur.zones[i].seg
       ELSE z.seg \notin SegsOf(cur.zones)

NewSegs == IF Building THEN SegsOf(new.zones) ELSE {}
OldSegs == IF pc \in {"closesocks", "closefiles", "commit"} THEN {} ELSE SegsOf(cur.zones)

\* The tables have one zone of a name, and those in force are set up; the
\* segments are as they should be until a zone withdraws its noreuse.
ZonesNamed ==
    /\ Named(cur.zones)
    /\ \A i \in DOMAIN cur.zones : cur.zones[i].seg # NULL
    /\ Building => Named(new.zones)
    /\ pc \in {"pid", "unpid", "files"} => \A i \in DOMAIN new.zones : new.zones[i].seg = NULL
    /\ pc = "match" \/ Matched => \A i \in DOMAIN new.zones : new.zones[i].seg # NULL

SegsSound ==
    /\ OneEach(cur.zones)
    /\ mapped = OldSegs \cup NewSegs \cup stray
    /\ stray \cap (OldSegs \cup NewSegs) = {}
    /\ Building =>
          /\ OneEach(new.zones)
          /\ \A i \in DOMAIN new.zones : Derived(new.zones[i])

\* What each step relies on besides.
InStep ==
    /\ Building => new # NULL /\ ~new.init /\ new.pid \in Pids /\ reloads > 0
    /\ new # NULL => Building \/ pc = "exited"
    /\ pc = "open" => triesLeft > 0
    /\ pc = "unpid" => new.pid \in pidfiles /\ new.pid # cur.pid
    /\ ~cur.init => cur.pid \in Pids

IInv ==
    /\ TypeOK /\ NoMisuse /\ InStep
    /\ pc # "exited" => OwnersApart /\ Settled /\ ZonesNamed
    /\ pc # "exited" /\ ~pulled => SegsSound
    /\ Building => Growing

-----------------------------------------------------------------------------
(* Sockets are bound to the addresses the cycles take them for.  This needs *)
(* that hky_cmp_sockaddr compares, which it does not for AF_INET6.          *)

NoInet6 == \A a \in Addrs : Family[a] # "inet6"

IsSocket(l) == fds[l.fd].kind = "socket" /\ fds[l.fd].name = l.addr
Backlogged(l) == l.addr \notin Dgram /\ fds[l.fd].told => fds[l.fd].backlog = l.backlog
IsFile(f) == fds[f.fd] = File(f.name)

\* Between the second listen() and Commit the kernel has the backlogs of the
\* new cycle, before it those of the old one.
Relistened == pc = "modules" \/ Releasing
Unlistened == pc \in {"open", "configure", "failed"}

NamesApart ==
    \A f, g \in Fds :
       fds[f].kind = "socket" /\ fds[g].kind = "socket" /\ fds[f].name = fds[g].name => f = g
PathsThere ==
    \A f \in Fds :
       fds[f].kind = "socket" /\ Family[fds[f].name] = "unix" => fds[f].name \in paths
OldBound ==
    \A i \in DOMAIN cur.listen :
       Open(i) => IsSocket(cur.listen[i]) /\ (~Relistened => Backlogged(cur.listen[i]))
NewBound ==
    \A n \in DOMAIN new.listen :
       new.listen[n].fd # NULL =>
          /\ IsSocket(new.listen[n])
          /\ ~(Unlistened /\ new.listen[n].listen) => Backlogged(new.listen[n])
FilesThere == \A f \in OldFiles \cup NewFiles \cup lost : fds[f].kind = "file"
OldFilesRight == \A i \in DOMAIN cur.files : cur.files[i].fd # 2 => IsFile(cur.files[i])
NewFilesRight == \A n \in DOMAIN new.files : new.files[n].fd \notin {NULL, 2} => IsFile(new.files[n])

BoundRight ==
    /\ NamesApart /\ PathsThere /\ OldBound /\ FilesThere
    /\ pc # "commit" => OldFilesRight
    /\ Building => NewBound /\ NewFilesRight

NInv == pc # "exited" => BoundRight

-----------------------------------------------------------------------------
(* Operators of the model.                                                  *)

LEMMA LowestFree == ASSUME FreeFds # {} PROVE LowestFd \in FreeFds /\ LowestFd \in Fds
  <1>1. FreeFds \in SUBSET Nat BY CycleAssumption DEF FreeFds
  <1>2. LowestFd \in FreeFds BY <1>1, FirstOfIn DEF LowestFd
  <1> QED BY <1>2 DEF FreeFds

\* A sequence of positions that is not empty has a first that is one of them.
LEMMA FirstPosition ==
    ASSUME NEW S, NEW s \in Seq(S), NEW P \in SUBSET DOMAIN s, P # {}
    PROVE  FirstOf(P) \in P /\ FirstOf(P) \in DOMAIN s
  <1>1. P \in SUBSET Nat OBVIOUS
  <1> QED BY <1>1, FirstOfIn

LEMMA PutIn ==
    ASSUME NEW S, NEW s \in Seq(S), NEW i \in DOMAIN s, NEW v \in S
    PROVE  /\ [s EXCEPT ![i] = v] \in Seq(S)
           /\ DOMAIN [s EXCEPT ![i] = v] = DOMAIN s
           /\ Len([s EXCEPT ![i] = v]) = Len(s)
  OBVIOUS

LEMMA CycleParts ==
    ASSUME NEW c \in Cycle
    PROVE  /\ c.init \in BOOLEAN /\ c.pid \in Pids \cup {NULL}
           /\ c.listen \in Seq(Listener) /\ c.files \in Seq(OpenedFile)
           /\ c.zones \in Seq(ShmZone)
           /\ c = [init |-> c.init, pid |-> c.pid, listen |-> c.listen,
                   files |-> c.files, zones |-> c.zones]
  BY DEF Cycle

LEMMA CycleWith ==
    ASSUME NEW c \in Cycle, NEW s
    PROVE  /\ [c EXCEPT !.files = s] = [init |-> c.init, pid |-> c.pid, listen |-> c.listen,
                                        files |-> s, zones |-> c.zones]
           /\ [c EXCEPT !.zones = s] = [init |-> c.init, pid |-> c.pid, listen |-> c.listen,
                                        files |-> c.files, zones |-> s]
           /\ [c EXCEPT !.listen = s] = [init |-> c.init, pid |-> c.pid, listen |-> s,
                                         files |-> c.files, zones |-> c.zones]
  BY DEF Cycle

WithFile(c, i, fd) == [c EXCEPT !.files[i].fd = fd]
WithZone(c, i, seg) == [c EXCEPT !.zones[i].seg = seg]

\* A file of a cycle gets its descriptor; all else stays.
LEMMA FileOpened ==
    ASSUME NEW c \in Cycle, NEW i \in DOMAIN c.files, NEW fd \in Fds,
           NEW n, n = WithFile(c, i, fd)
    PROVE  /\ n \in Cycle /\ n.init = c.init /\ n.pid = c.pid
           /\ n.listen = c.listen /\ n.zones = c.zones
           /\ DOMAIN n.files = DOMAIN c.files
           /\ n.files[i] = [name |-> c.files[i].name, fd |-> fd]
           /\ \A j \in DOMAIN c.files : j # i => n.files[j] = c.files[j]
  <1> DEFINE v == [c.files[i] EXCEPT !.fd = fd]
             s == [c.files EXCEPT ![i] = v]
  <1>1. n = [c EXCEPT !.files = s] BY DEF WithFile
  <1>2. c.files \in Seq(OpenedFile) BY CycleParts
  <1>3. v \in OpenedFile /\ v = [name |-> c.files[i].name, fd |-> fd]
    <2>1. c.files[i] \in OpenedFile BY <1>2
    <2> QED BY <2>1 DEF OpenedFile
  <1>4. s \in Seq(OpenedFile) /\ DOMAIN s = DOMAIN c.files BY <1>2, <1>3, PutIn
  <1>5. s[i] = v /\ \A j \in DOMAIN c.files : j # i => s[j] = c.files[j] BY <1>2
  <1> HIDE DEF s, v
  <1>6. n = [init |-> c.init, pid |-> c.pid, listen |-> c.listen, files |-> s, zones |-> c.zones]
    BY <1>1, CycleWith
  <1>7. n \in Cycle BY <1>6, <1>4, CycleParts DEF Cycle
  <1> QED BY <1>3, <1>4, <1>5, <1>6, <1>7

\* A zone gets its segment.
LEMMA ZoneSetUp ==
    ASSUME NEW c \in Cycle, NEW i \in DOMAIN c.zones, NEW seg \in Segs,
           NEW n, n = WithZone(c, i, seg)
    PROVE  /\ n \in Cycle /\ n.init = c.init /\ n.pid = c.pid
           /\ n.listen = c.listen /\ n.files = c.files
           /\ DOMAIN n.zones = DOMAIN c.zones
           /\ n.zones[i] = [name |-> c.zones[i].name, kind |-> c.zones[i].kind,
                            noreuse |-> c.zones[i].noreuse, seg |-> seg]
           /\ \A j \in DOMAIN c.zones : j # i => n.zones[j] = c.zones[j]
  <1> DEFINE v == [c.zones[i] EXCEPT !.seg = seg]
             s == [c.zones EXCEPT ![i] = v]
  <1>1. n = [c EXCEPT !.zones = s] BY DEF WithZone
  <1>2. c.zones \in Seq(ShmZone) BY CycleParts
  <1>3. v \in ShmZone /\ v = [name |-> c.zones[i].name, kind |-> c.zones[i].kind,
                              noreuse |-> c.zones[i].noreuse, seg |-> seg]
    <2>1. c.zones[i] \in ShmZone BY <1>2
    <2> QED BY <2>1 DEF ShmZone
  <1>4. s \in Seq(ShmZone) /\ DOMAIN s = DOMAIN c.zones BY <1>2, <1>3, PutIn
  <1>5. s[i] = v /\ \A j \in DOMAIN c.zones : j # i => s[j] = c.zones[j] BY <1>2
  <1> HIDE DEF s, v
  <1>6. n = [init |-> c.init, pid |-> c.pid, listen |-> c.listen, files |-> c.files, zones |-> s]
    BY <1>1, CycleWith
  <1>7. n \in Cycle BY <1>6, <1>4, CycleParts DEF Cycle
  <1> QED BY <1>3, <1>4, <1>5, <1>6, <1>7

\* A listener changes to v; the opening of one is such a change.
LEMMA ListenerPut ==
    ASSUME NEW c \in Cycle, NEW i \in DOMAIN c.listen, NEW v \in Listener,
           NEW n, n = [c EXCEPT !.listen = [c.listen EXCEPT ![i] = v]]
    PROVE  /\ n \in Cycle /\ n.init = c.init /\ n.pid = c.pid
           /\ n.files = c.files /\ n.zones = c.zones
           /\ DOMAIN n.listen = DOMAIN c.listen /\ Len(n.listen) = Len(c.listen)
           /\ n.listen[i] = v
           /\ \A j \in DOMAIN c.listen : j # i => n.listen[j] = c.listen[j]
  <1> DEFINE s == [c.listen EXCEPT ![i] = v]
  <1>2. c.listen \in Seq(Listener) BY CycleParts
  <1>4. s \in Seq(Listener) /\ DOMAIN s = DOMAIN c.listen /\ Len(s) = Len(c.listen)
    BY <1>2, PutIn
  <1>5. s[i] = v /\ \A j \in DOMAIN c.listen : j # i => s[j] = c.listen[j] BY <1>2
  <1>1. n = [c EXCEPT !.listen = s] OBVIOUS
  <1> HIDE DEF s
  <1>6. n = [init |-> c.init, pid |-> c.pid, listen |-> s, files |-> c.files, zones |-> c.zones]
    BY <1>1, CycleWith
  <1>7. n \in Cycle BY <1>6, <1>4, CycleParts DEF Cycle
  <1>8. n.init = c.init /\ n.pid = c.pid /\ n.files = c.files /\ n.zones = c.zones /\ n.listen = s
    BY <1>6
  <1> QED BY <1>4, <1>5, <1>7, <1>8

OpenAt(c, i, fd, b) == [c EXCEPT !.listen[i].fd = fd, !.listen[i].listen = b]
WithListener(c, i, l) == [c EXCEPT !.listen = [c.listen EXCEPT ![i] = l]]

LEMMA ListenerOpened ==
    ASSUME NEW c \in Cycle, NEW i \in DOMAIN c.listen, NEW fd \in Fds, NEW b \in BOOLEAN,
           NEW w, w = [addr |-> c.listen[i].addr, backlog |-> c.listen[i].backlog, fd |-> fd,
                       open |-> c.listen[i].open, listen |-> b, ignore |-> c.listen[i].ignore]
    PROVE  /\ w \in Listener
           /\ OpenAt(c, i, fd, b) = WithListener(c, i, w)
  <1> DEFINE l == c.listen[i]
             u == [l EXCEPT !.fd = fd]
             v == [u EXCEPT !.listen = b]
             t == [c.listen EXCEPT ![i] = u]
             d == [c EXCEPT !.listen = t]
             n == [d EXCEPT !.listen[i].listen = b]
  <1>1. c.listen \in Seq(Listener) /\ l \in Listener BY CycleParts
  <1>3. d.listen = t
    <2> HIDE DEF t
    <2> QED BY CycleWith
  <1>4. t[i] = u BY <1>1
  <1>5. n = [d EXCEPT !.listen = [t EXCEPT ![i] = v]] BY <1>3, <1>4
  <1>6. [t EXCEPT ![i] = v] = [c.listen EXCEPT ![i] = v]
    <2> HIDE DEF u, v
    <2> QED BY <1>1
  <1>7. n = [c EXCEPT !.listen = [c.listen EXCEPT ![i] = v]]
    <2> DEFINE s == [c.listen EXCEPT ![i] = v]
    <2>1. n = [d EXCEPT !.listen = s] BY <1>5, <1>6
    <2>2. d = [init |-> c.init, pid |-> c.pid, listen |-> t, files |-> c.files, zones |-> c.zones]
      <3> HIDE DEF t
      <3> QED BY CycleWith
    <2> HIDE DEF s, t, n, d
    <2>3. n = [init |-> c.init, pid |-> c.pid, listen |-> s, files |-> c.files, zones |-> c.zones]
      BY <2>1, <2>2
    <2> QED BY <2>3, CycleWith DEF s
  <1>8. /\ u = [addr |-> l.addr, backlog |-> l.backlog, fd |-> fd, open |-> l.open,
                listen |-> l.listen, ignore |-> l.ignore]
        /\ u \in Listener
    <2> HIDE DEF l
    <2> QED BY <1>1 DEF Listener
  <1>9. v = [addr |-> l.addr, backlog |-> l.backlog, fd |-> fd, open |-> l.open,
             listen |-> b, ignore |-> l.ignore] /\ v \in Listener
    <2> HIDE DEF l, u
    <2> QED BY <1>1, <1>8 DEF Listener
  <1>10. v = w BY <1>9
  <1>11. n = OpenAt(c, i, fd, b) BY DEF OpenAt
  <1> HIDE DEF n, v
  <1>12. n = WithListener(c, i, w) BY <1>7, <1>10 DEF WithListener
  <1> QED BY <1>9, <1>10, <1>11, <1>12

-----------------------------------------------------------------------------
(* Types.                                                                   *)

LEMMA BuiltType ==
    ASSUME NEW c \in Confs, NEW n, n = Built(c)
    PROVE  /\ n \in Cycle /\ ~n.init /\ n.pid \in Pids
           /\ \A i \in DOMAIN n.listen : n.listen[i].fd = NULL /\ ~n.listen[i].open
           /\ \A i \in DOMAIN n.files : n.files[i].fd \in {NULL, 2}
           /\ \A i \in DOMAIN n.zones : n.zones[i].seg = NULL
           /\ Named(n.zones)
  <1> DEFINE L == [addr : Addrs, backlog : Nat]
             Z == [name : STRING, kind : STRING, noreuse : BOOLEAN]
  <1>1. /\ c.listen \in Seq(L) /\ c.files \in Seq(Files) /\ c.zones \in Seq(Z) /\ c.pid \in Pids
    BY CycleAssumption
  <1>2. n.init = FALSE /\ n.pid = c.pid BY DEF Built
  <1>3. n.listen = [i \in DOMAIN c.listen |->
            [addr |-> c.listen[i].addr, backlog |-> c.listen[i].backlog, fd |-> NULL,
             open |-> FALSE, listen |-> FALSE, ignore |-> FALSE]]
    BY DEF Built
  <1>4. n.files = [i \in DOMAIN c.files |->
            [name |-> c.files[i], fd |-> IF c.files[i] = StderrName THEN 2 ELSE NULL]]
    BY DEF Built
  <1>5. n.zones = [i \in DOMAIN c.zones |->
            [name |-> c.zones[i].name, kind |-> c.zones[i].kind,
             noreuse |-> c.zones[i].noreuse, seg |-> NULL]]
    BY DEF Built
  <1>6. n.listen \in Seq(Listener)
    <2> DEFINE e(i) == [addr |-> c.listen[i].addr, backlog |-> c.listen[i].backlog, fd |-> NULL,
                        open |-> FALSE, listen |-> FALSE, ignore |-> FALSE]
    <2>1. \A i \in 1..Len(c.listen) : e(i) \in Listener
      <3> TAKE i \in 1..Len(c.listen)
      <3>1. c.listen[i] \in L
        <4> HIDE DEF L
        <4> QED BY <1>1
      <3> QED BY <3>1 DEF Listener
    <2>2. n.listen = [i \in 1..Len(c.listen) |-> e(i)] BY <1>1, <1>3
    <2> HIDE DEF e
    <2> QED BY <1>1, <2>1, <2>2
  <1>7. n.files \in Seq(OpenedFile)
    <2> DEFINE e(i) == [name |-> c.files[i], fd |-> IF c.files[i] = StderrName THEN 2 ELSE NULL]
    <2>1. \A i \in 1..Len(c.files) : e(i) \in OpenedFile BY <1>1 DEF OpenedFile
    <2>2. n.files = [i \in 1..Len(c.files) |-> e(i)] BY <1>1, <1>4
    <2> HIDE DEF e
    <2> QED BY <1>1, <2>1, <2>2
  <1>8. n.zones \in Seq(ShmZone)
    <2> DEFINE e(i) == [name |-> c.zones[i].name, kind |-> c.zones[i].kind,
                        noreuse |-> c.zones[i].noreuse, seg |-> NULL]
    <2>1. \A i \in 1..Len(c.zones) : e(i) \in ShmZone
      <3> TAKE i \in 1..Len(c.zones)
      <3>1. c.zones[i] \in Z
        <4> HIDE DEF Z
        <4> QED BY <1>1
      <3> QED BY <3>1 DEF ShmZone
    <2>2. n.zones = [i \in 1..Len(c.zones) |-> e(i)] BY <1>1, <1>5
    <2> HIDE DEF e
    <2> QED BY <1>1, <2>1, <2>2
  <1>9. n \in Cycle
    <2>1. n = [init |-> n.init, pid |-> n.pid, listen |-> n.listen,
               files |-> n.files, zones |-> n.zones]
      BY DEF Built
    <2> QED BY <2>1, <1>1, <1>2, <1>6, <1>7, <1>8 DEF Cycle
  <1>10. Named(n.zones) BY <1>5, CycleAssumption DEF Named
  <1> QED BY <1>1, <1>2, <1>3, <1>4, <1>5, <1>9, <1>10

LEMMA TypeInit == ASSUME Init PROVE TypeOK /\ InStep /\ NoMisuse
  <1>1. PICK table \in Inherited :
          /\ cur = InitCycle(table)
          /\ fds = [fd \in Fds |->
                      IF fd - 2 \in DOMAIN table
                      THEN Socket(table[fd - 2].addr, table[fd - 2].backlog, FALSE)
                      ELSE Closed]
          /\ paths = {a \in AddrsOf(table) : Family[a] = "unix"}
    BY DEF Init
  <1>2. /\ \A i \in DOMAIN table : /\ table[i].addr \in Addrs /\ table[i].ignore \in BOOLEAN
                                  /\ table[i].backlog \in Nat
        /\ table \in Seq([addr : Addrs, ignore : BOOLEAN, backlog : Nat])
    <2> DEFINE T == [addr : Addrs, ignore : BOOLEAN, backlog : Nat]
    <2>1. table \in Seq(T) BY CycleAssumption
    <2>2. \A i \in DOMAIN table : table[i] \in T
      <3> HIDE DEF T
      <3> QED BY <2>1
    <2> QED BY <2>1, <2>2
  <1>3. cur \in Cycle
    <2> DEFINE e(i) == [addr |-> table[i].addr, backlog |-> DefaultBacklog, fd |-> i + 2,
                        open |-> FALSE, listen |-> FALSE, ignore |-> table[i].ignore]
               s == [i \in 1..Len(table) |-> e(i)]
    <2>1. \A i \in 1..Len(table) : e(i) \in Listener
      <3> TAKE i \in 1..Len(table)
      <3>1. i \in DOMAIN table /\ i + 2 \in Fds BY <1>2, CycleAssumption
      <3> QED BY <3>1, <1>2, CycleAssumption DEF Listener
    <2>2. cur = [init |-> TRUE, files |-> <<>>, zones |-> <<>>, pid |-> NULL, listen |-> s]
      <3>1. DOMAIN table = 1..Len(table) BY <1>2
      <3> QED BY <1>1, <3>1 DEF InitCycle
    <2> HIDE DEF e
    <2>3. s \in Seq(Listener) BY <1>2, <2>1
    <2> HIDE DEF s
    <2> QED BY <2>2, <2>3 DEF Cycle
  <1>4. fds \in [Fds -> Descriptor]
    <2> SUFFICES ASSUME NEW fd \in Fds, fd - 2 \in DOMAIN table
                 PROVE  Socket(table[fd - 2].addr, table[fd - 2].backlog, FALSE) \in Descriptor
      BY <1>1 DEF Descriptor
    <2> QED BY <1>2, CycleAssumption DEF Descriptor, Socket
  <1>5. paths \subseteq Addrs
    BY <1>1, <1>2 DEF AddrsOf
  <1>6. cur.init BY <1>1 DEF InitCycle
  <1>7. TypeOK
    <2>1. <<>> \in Seq(RetiredCycle \cup {NULL}) OBVIOUS
    <2>2. triesLeft \in 0..Tries /\ conns \in 0..MaxConns /\ reloads \in 0..MaxReloads
      BY CycleAssumption DEF Init
    <2>3. /\ pc = "idle" /\ new = NULL /\ remain = {} /\ at = 1 /\ busy = FALSE
          /\ foreign = {} /\ mapped = {} /\ pidfiles = {} /\ old = <<>> /\ tempPool = FALSE
          /\ timer = FALSE /\ lost = {} /\ stray = {} /\ pulled = FALSE /\ misuse = {}
      BY DEF Init
    <2>4. busy \in BOOLEAN /\ tempPool \in BOOLEAN /\ timer \in BOOLEAN /\ pulled \in BOOLEAN
      BY <2>3
    <2>5. old \in Seq(RetiredCycle \cup {NULL}) BY <2>1, <2>3
    <2>6. pc \in {"idle", "pid"} /\ at \in Nat \ {0} /\ remain \subseteq DOMAIN cur.listen BY <2>3
    <2>7. foreign \subseteq Addrs /\ mapped \subseteq Segs /\ pidfiles \subseteq Pids
          /\ lost \subseteq Fds /\ stray \subseteq Segs /\ misuse \subseteq {"close", "unmap"}
          /\ new \in Cycle \cup {NULL}
      BY <2>3
    <2> QED BY <1>3, <1>4, <1>5, <2>2, <2>4, <2>5, <2>6, <2>7 DEF TypeOK
  <1>8. InStep /\ NoMisuse BY <1>6 DEF Init, InStep, NoMisuse, Building
  <1> QED BY <1>7, <1>8

USE DEF kernel, retired, opening, ghosts

\* A listener the matching leaves to be opened, and one that takes over a socket.
ToOpen(l) ==
    [addr |-> l.addr, backlog |-> l.backlog, fd |-> l.fd, open |-> TRUE,
     listen |-> l.listen, ignore |-> l.ignore]
TakenOver(o, l) ==
    [addr |-> l.addr, backlog |-> l.backlog, fd |-> o.fd, open |-> l.open,
     listen |-> (o.backlog # l.backlog), ignore |-> l.ignore]

LEMMA TakenOverParts ==
    ASSUME NEW o, NEW l
    PROVE  /\ TakenOver(o, l).addr = l.addr /\ TakenOver(o, l).backlog = l.backlog
           /\ TakenOver(o, l).fd = o.fd /\ TakenOver(o, l).open = l.open
           /\ TakenOver(o, l).listen = (o.backlog # l.backlog)
  <1> DEFINE b == o.backlog # l.backlog
  <1>1. TakenOver(o, l) = [addr |-> l.addr, backlog |-> l.backlog, fd |-> o.fd, open |-> l.open,
                           listen |-> b, ignore |-> l.ignore]
    BY DEF TakenOver
  <1> HIDE DEF b
  <1>2. /\ TakenOver(o, l).addr = l.addr /\ TakenOver(o, l).backlog = l.backlog
        /\ TakenOver(o, l).fd = o.fd /\ TakenOver(o, l).open = l.open
        /\ TakenOver(o, l).listen = b
    BY <1>1
  <1> QED BY <1>2 DEF b

\* What the matching does: m gives different new listeners different old ones.
MatchedBy(m) ==
    /\ m \in [DOMAIN new.listen -> 0..Len(cur.listen)]
    /\ remain' = {m[n] : n \in DOMAIN new.listen} \ {0}
    /\ new' \in Cycle /\ new'.init = new.init /\ new'.pid = new.pid
    /\ new'.files = new.files /\ new'.zones = new.zones
    /\ DOMAIN new'.listen = DOMAIN new.listen
    /\ \A n \in DOMAIN new.listen :
          /\ m[n] = 0 => new'.listen[n] = ToOpen(new.listen[n])
          /\ m[n] # 0 =>
                /\ m[n] \in DOMAIN cur.listen
                /\ new'.listen[n] = TakenOver(cur.listen[m[n]], new.listen[n])
                /\ SameListener(cur.listen[m[n]], new.listen[n])
    /\ \A i, n \in DOMAIN new.listen : m[i] = m[n] /\ m[i] # 0 => i = n

LEMMA Matching ==
    ASSUME cur \in Cycle, new \in Cycle, MatchListeners
    PROVE  \E m : MatchedBy(m)
  <1> DEFINE changed(m) == [n \in DOMAIN new.listen |->
                              IF m[n] = 0 THEN [new.listen[n] EXCEPT !.open = TRUE]
                              ELSE TakeOver(cur.listen[m[n]], new.listen[n])]
  <1>1. PICK m \in [DOMAIN new.listen -> 0..Len(cur.listen)] :
          /\ IsMatching(m, cur.listen, new.listen)
          /\ remain' = RemainAtStart \cup ({m[n] : n \in DOMAIN m} \ {0})
          /\ new' = [new EXCEPT !.listen = changed(m)]
    BY DEF MatchListeners
  <1> DEFINE s == changed(m)
  <1>2. /\ cur.listen \in Seq(Listener) /\ new.listen \in Seq(Listener)
        /\ \A n \in DOMAIN new.listen : new.listen[n] \in Listener
        /\ \A i \in DOMAIN cur.listen : cur.listen[i] \in Listener
    BY CycleParts
  <1>3. ASSUME NEW n \in DOMAIN new.listen
        PROVE  /\ m[n] = 0 => s[n] = ToOpen(new.listen[n])
               /\ m[n] # 0 => m[n] \in DOMAIN cur.listen /\ s[n] = TakenOver(cur.listen[m[n]], new.listen[n])
               /\ s[n] \in Listener
    <2> DEFINE l == new.listen[n]
               o == cur.listen[m[n]]
    <2>1. l \in Listener BY <1>2
    <2>2. CASE m[n] = 0
      <3>1. s[n] = [l EXCEPT !.open = TRUE] BY <2>2
      <3> HIDE DEF l, s
      <3>2. s[n] = ToOpen(l) BY <3>1, <2>1 DEF ToOpen, Listener
      <3>3. ToOpen(l) \in Listener BY <2>1 DEF ToOpen, Listener
      <3> QED BY <2>2, <3>2, <3>3 DEF l
    <2>3. CASE m[n] # 0
      <3>1. m[n] \in DOMAIN cur.listen BY <2>3, <1>2
      <3>2. o \in Listener BY <1>2, <3>1
      <3>3. s[n] = TakeOver(o, l) BY <2>3
      <3> HIDE DEF l, o, s
      <3>4. TakeOver(o, l) = TakenOver(o, l)
        <4> DEFINE b == o.backlog # l.backlog
                   k == o.fd
        <4>1. TakeOver(o, l) = [l EXCEPT !.fd = k, !.listen = b] BY DEF TakeOver
        <4>2. TakenOver(o, l) = [addr |-> l.addr, backlog |-> l.backlog, fd |-> k, open |-> l.open,
                                 listen |-> b, ignore |-> l.ignore]
          BY DEF TakenOver
        <4> HIDE DEF b, k
        <4> QED BY <2>1, <4>1, <4>2 DEF Listener
      <3>5. TakenOver(o, l) \in Listener
        BY <2>1, <3>2 DEF TakenOver, Listener
      <3> QED BY <2>3, <3>1, <3>3, <3>4, <3>5 DEF l, o
    <2> QED BY <2>2, <2>3
  <1>4. s \in Seq(Listener) /\ DOMAIN s = DOMAIN new.listen
    <2>1. DOMAIN s = 1..Len(new.listen) BY <1>2
    <2>2. \A n \in DOMAIN s : s[n] \in Listener BY <1>3
    <2>3. s = [n \in 1..Len(new.listen) |-> s[n]] BY <2>1
    <2> HIDE DEF s
    <2>4. Len(new.listen) \in Nat BY <1>2
    <2>5. s \in [1..Len(new.listen) -> Listener] BY <2>1, <2>2, <2>3
    <2> QED BY <1>2, <2>1, <2>4, <2>5
  <1>5. ASSUME NEW n \in DOMAIN new.listen, m[n] # 0
        PROVE  /\ m[n] \in Candidates(cur.listen, new.listen, m, n)
               /\ SameListener(cur.listen[m[n]], new.listen[n])
               /\ \A i \in DOMAIN new.listen : i < n => m[i] # m[n]
    <2> DEFINE fit == Candidates(cur.listen, new.listen, m, n)
    <2>1. m[n] = FirstOf(fit) /\ fit # {} BY <1>1, <1>5 DEF IsMatching
    <2>2. fit \in SUBSET DOMAIN cur.listen BY DEF Candidates
    <2>3. m[n] \in fit
      <3> HIDE DEF fit
      <3> QED BY <2>1, <2>2, <1>2, FirstPosition
    <2>4. SameListener(cur.listen[m[n]], new.listen[n]) /\ m[n] \notin {m[k] : k \in 1..(n - 1)}
      BY <2>3 DEF Candidates
    <2>5. \A i \in DOMAIN new.listen : i < n => i \in 1..(n - 1) BY <1>2
    <2> QED BY <2>3, <2>4, <2>5
  <1>6. \A i, n \in DOMAIN new.listen : m[i] = m[n] /\ m[i] # 0 => i = n
    <2> SUFFICES ASSUME NEW i \in DOMAIN new.listen, NEW n \in DOMAIN new.listen,
                        m[i] = m[n], m[i] # 0, i # n
                 PROVE  FALSE
      OBVIOUS
    <2>1. i < n \/ n < i BY <1>2
    <2> QED BY <1>5, <2>1
  <1> HIDE DEF s
  <1>7. new' = [init |-> new.init, pid |-> new.pid, listen |-> s,
                files |-> new.files, zones |-> new.zones]
    BY <1>1, CycleWith DEF s
  <1>8. new' \in Cycle BY <1>7, <1>4, CycleParts DEF Cycle
  <1>9. remain' = {m[n] : n \in DOMAIN new.listen} \ {0} BY <1>1 DEF RemainAtStart
  <1>10. new'.listen = s BY <1>7
  <1> QED BY <1>3, <1>4, <1>5, <1>6, <1>7, <1>8, <1>9, <1>10 DEF MatchedBy

\* A listener of the new cycle is opened and bound.
NewlyBound(l, fd) ==
    [addr |-> l.addr, backlog |-> l.backlog, fd |-> fd, open |-> l.open,
     listen |-> (l.addr \notin Dgram), ignore |-> l.ignore]
Bound ==
    /\ at \in DOMAIN new.listen /\ FreeFds # {} /\ new.listen[at].fd = NULL
    /\ ~InUse(new.listen[at].addr)
    /\ fds' = [fds EXCEPT ![LowestFd] = Socket(new.listen[at].addr, new.listen[at].backlog, TRUE)]
    /\ paths' = IF Family[new.listen[at].addr] = "unix"
                THEN paths \cup {new.listen[at].addr} ELSE paths
    /\ new' \in Cycle /\ new'.init = new.init /\ new'.pid = new.pid
    /\ new'.files = new.files /\ new'.zones = new.zones
    /\ DOMAIN new'.listen = DOMAIN new.listen /\ Len(new'.listen) = Len(new.listen)
    /\ new'.listen[at] = NewlyBound(new.listen[at], LowestFd)
    /\ \A n \in DOMAIN new.listen : n # at => new'.listen[n] = new.listen[n]
    /\ at' = at + 1 /\ UNCHANGED <<pc, busy>>

\* bind() made a path, but listen() failed.
PathLeft ==
    /\ UNCHANGED <<new, fds, at, busy>> /\ pc' = "failed" /\ at \in DOMAIN new.listen
    /\ paths' = paths \cup {new.listen[at].addr}

LEMMA Opening ==
    ASSUME TypeOK, new \in Cycle, OpenListener
    PROVE  \/ UNCHANGED <<new, fds, paths>> /\ at <= Len(new.listen)
              /\ \/ new.listen[at].fd # NULL /\ at' = at + 1 /\ UNCHANGED <<pc, busy>>
                 \/ pc' = "failed" /\ UNCHANGED <<at, busy>>
                 \/ at' = at + 1 /\ busy' = TRUE /\ UNCHANGED pc
           \/ PathLeft
           \/ Bound
  <1> DEFINE l == new.listen[at]
  <1>1. CASE /\ l.fd = NULL /\ FreeFds # {} /\ ~InUse(l.addr)
             /\ fds' = [fds EXCEPT ![LowestFd] = Socket(l.addr, l.backlog, TRUE)]
             /\ paths' = IF Family[l.addr] = "unix" THEN paths \cup {l.addr} ELSE paths
             /\ new' = [new EXCEPT !.listen[at].fd = LowestFd,
                                   !.listen[at].listen = (l.addr \notin Dgram)]
             /\ at' = at + 1 /\ UNCHANGED <<pc, busy>>
    <2> DEFINE b == l.addr \notin Dgram
               v == NewlyBound(l, LowestFd)
    <2>1. at \in DOMAIN new.listen BY CycleParts DEF TypeOK, OpenListener
    <2>2. LowestFd \in Fds BY <1>1, LowestFree
    <2>3. b \in BOOLEAN OBVIOUS
    <2>4. v \in Listener /\ new' = [new EXCEPT !.listen = [new.listen EXCEPT ![at] = v]]
      <3>1. new' = OpenAt(new, at, LowestFd, b) BY <1>1 DEF OpenAt
      <3>2. v = [addr |-> l.addr, backlog |-> l.backlog, fd |-> LowestFd, open |-> l.open,
                 listen |-> b, ignore |-> l.ignore]
        BY DEF NewlyBound
      <3> HIDE DEF b, v
      <3>4. v \in Listener /\ OpenAt(new, at, LowestFd, b) = WithListener(new, at, v)
        BY <2>1, <2>2, <2>3, <3>2, ListenerOpened
      <3>5. new' = WithListener(new, at, v) BY <3>1, <3>4
      <3> QED BY <3>4, <3>5 DEF WithListener
    <2> HIDE DEF v, l
    <2>5. /\ new' \in Cycle /\ new'.init = new.init /\ new'.pid = new.pid
          /\ new'.files = new.files /\ new'.zones = new.zones
          /\ DOMAIN new'.listen = DOMAIN new.listen /\ Len(new'.listen) = Len(new.listen)
          /\ new'.listen[at] = v
          /\ \A j \in DOMAIN new.listen : j # at => new'.listen[j] = new.listen[j]
      BY <2>1, <2>4, ListenerPut
    <2> QED BY <1>1, <2>1, <2>5 DEF Bound, v, l
  <1>2. at \in DOMAIN new.listen BY CycleParts DEF TypeOK, OpenListener
  <1> QED BY <1>1, <1>2 DEF OpenListener, PathLeft

\* A file of the new cycle is opened.
FileGot(i) ==
    /\ i \in Unopened /\ i \in DOMAIN new.files /\ FreeFds # {}
    /\ fds' = [fds EXCEPT ![LowestFd] = File(new.files[i].name)]
    /\ new' \in Cycle /\ new'.init = new.init /\ new'.pid = new.pid
    /\ new'.listen = new.listen /\ new'.zones = new.zones
    /\ DOMAIN new'.files = DOMAIN new.files
    /\ new'.files[i] = [name |-> new.files[i].name, fd |-> LowestFd]
    /\ \A j \in DOMAIN new.files : j # i => new'.files[j] = new.files[j]
    /\ pc' \in {"files", "failed"}

LEMMA FileOpening ==
    ASSUME new \in Cycle, OpenFile
    PROVE  \/ UNCHANGED <<new, fds>> /\ ((pc' = "zones" /\ Unopened = {}) \/ pc' = "failed")
           \/ \E i : FileGot(i)
  <1> DEFINE i == FirstOf(Unopened)
  <1>1. CASE /\ Unopened # {} /\ FreeFds # {}
             /\ fds' = [fds EXCEPT ![LowestFd] = File(new.files[i].name)]
             /\ new' = [new EXCEPT !.files[i].fd = LowestFd]
             /\ pc' \in {"files", "failed"}
    <2>1. Unopened \in SUBSET DOMAIN new.files /\ new.files \in Seq(OpenedFile)
      BY CycleParts DEF Unopened
    <2>2. i \in DOMAIN new.files /\ i \in Unopened /\ LowestFd \in Fds
      BY <1>1, <2>1, FirstPosition, LowestFree
    <2> HIDE DEF i
    <2>5. new' = WithFile(new, i, LowestFd) BY <1>1 DEF WithFile
    <2>3. /\ new' \in Cycle /\ new'.init = new.init /\ new'.pid = new.pid
          /\ new'.listen = new.listen /\ new'.zones = new.zones
          /\ DOMAIN new'.files = DOMAIN new.files
          /\ new'.files[i] = [name |-> new.files[i].name, fd |-> LowestFd]
          /\ \A j \in DOMAIN new.files : j # i => new'.files[j] = new.files[j]
      BY <2>2, <2>5, FileOpened
    <2>4. FileGot(i) BY <1>1, <2>2, <2>3 DEF FileGot
    <2> QED BY <2>4
  <1> QED BY <1>1 DEF OpenFile

\* A zone of the new cycle is set up, with the segment of the old zone of its
\* name or a new one.
ZoneGot(i, seg) ==
    /\ i \in Unmapped /\ i \in DOMAIN new.zones /\ seg \in Segs
    /\ new' \in Cycle /\ new'.init = new.init /\ new'.pid = new.pid
    /\ new'.listen = new.listen /\ new'.files = new.files
    /\ DOMAIN new'.zones = DOMAIN new.zones
    /\ new'.zones[i] = [name |-> new.zones[i].name, kind |-> new.zones[i].kind,
                        noreuse |-> new.zones[i].noreuse, seg |-> seg]
    /\ \A j \in DOMAIN new.zones : j # i => new'.zones[j] = new.zones[j]
    /\ pc' \in {"zones", "failed"}
    /\ IF Inherits(new.zones[i], cur.zones)
       THEN /\ \A k \in Namesake(new.zones[i], cur.zones) : seg = cur.zones[k].seg
            /\ UNCHANGED mapped
       ELSE seg \notin mapped /\ mapped' = mapped \cup {seg}

LEMMA ZoneSetting ==
    ASSUME cur \in Cycle, new \in Cycle, ZonesNamed, pc = "zones", SetUpZone
    PROVE  \/ UNCHANGED <<new, mapped>> /\ ((pc' = "match" /\ Unmapped = {}) \/ pc' = "failed")
           \/ \E i, seg : ZoneGot(i, seg)
  <1> DEFINE i == FirstOf(Unmapped)
             z == new.zones[i]
             same == Namesake(z, cur.zones)
             k == FirstOf(same)
  <1>1. Unmapped \in SUBSET DOMAIN new.zones /\ new.zones \in Seq(ShmZone)
        /\ cur.zones \in Seq(ShmZone)
    BY CycleParts DEF Unmapped
  <1>2. Unmapped # {} => i \in DOMAIN new.zones /\ i \in Unmapped BY <1>1, FirstPosition
  <1>3. ASSUME Unmapped # {}, Inherits(z, cur.zones), UNCHANGED mapped,
               new' = [new EXCEPT !.zones[i].seg = cur.zones[k].seg],
               pc' \in {"zones", "failed"}
        PROVE  \E seg : ZoneGot(i, seg)
    <2> DEFINE seg == cur.zones[k].seg
    <2>0. i \in DOMAIN new.zones BY <1>2, <1>3
    <2>1. same \in SUBSET DOMAIN cur.zones /\ same # {} BY <1>3 DEF Namesake, Inherits
    <2>2. k \in same /\ k \in DOMAIN cur.zones BY <1>1, <2>1, FirstPosition
    <2>3. cur.zones[k] \in ShmZone /\ cur.zones[k].seg # NULL
      <3> HIDE DEF k
      <3> QED BY <1>1, <2>2 DEF ZonesNamed
    <2>4. seg \in Segs
      <3> HIDE DEF k
      <3> QED BY <2>3 DEF ShmZone
    <2>5. \A j \in same : j = k
      <3> HIDE DEF k, z
      <3> QED BY <2>2 DEF Namesake, ZonesNamed, Named
    <2>6. \A j \in Namesake(z, cur.zones) : seg = cur.zones[j].seg BY <2>5
    <2> HIDE DEF i, k
    <2>7. new' = WithZone(new, i, seg) BY <1>3 DEF WithZone
    <2> HIDE DEF seg
    <2>8. /\ new' \in Cycle /\ new'.init = new.init /\ new'.pid = new.pid
          /\ new'.listen = new.listen /\ new'.files = new.files
          /\ DOMAIN new'.zones = DOMAIN new.zones
          /\ new'.zones[i] = [name |-> new.zones[i].name, kind |-> new.zones[i].kind,
                              noreuse |-> new.zones[i].noreuse, seg |-> seg]
          /\ \A j \in DOMAIN new.zones : j # i => new'.zones[j] = new.zones[j]
      BY <2>0, <2>4, <2>7, ZoneSetUp
    <2>9. ZoneGot(i, seg) BY <1>2, <1>3, <2>4, <2>6, <2>8 DEF ZoneGot
    <2> QED BY <2>9
  <1>4. ASSUME Unmapped # {}, ~Inherits(z, cur.zones), NEW seg \in Segs \ mapped,
               mapped' = mapped \cup {seg}, new' = [new EXCEPT !.zones[i].seg = seg],
               pc' \in {"zones", "failed"}
        PROVE  ZoneGot(i, seg)
    <2> HIDE DEF i
    <2>2. new' = WithZone(new, i, seg) BY <1>4 DEF WithZone
    <2>3. i \in DOMAIN new.zones /\ seg \in Segs BY <1>2, <1>4
    <2>1. /\ new' \in Cycle /\ new'.init = new.init /\ new'.pid = new.pid
          /\ new'.listen = new.listen /\ new'.files = new.files
          /\ DOMAIN new'.zones = DOMAIN new.zones
          /\ new'.zones[i] = [name |-> new.zones[i].name, kind |-> new.zones[i].kind,
                              noreuse |-> new.zones[i].noreuse, seg |-> seg]
          /\ \A j \in DOMAIN new.zones : j # i => new'.zones[j] = new.zones[j]
      BY <2>3, <2>2, ZoneSetUp
    <2> QED BY <1>2, <1>4, <2>1 DEF ZoneGot
  <1> HIDE DEF i
  <1>5. CASE UNCHANGED <<new, mapped>> /\ ((pc' = "match" /\ Unmapped = {}) \/ pc' = "failed") BY <1>5
  <1>6. CASE /\ Unmapped # {} /\ Inherits(z, cur.zones) /\ UNCHANGED mapped
             /\ new' = [new EXCEPT !.zones[i].seg = cur.zones[k].seg]
             /\ pc' \in {"zones", "failed"}
    BY <1>3, <1>6
  <1>7. CASE /\ Unmapped # {} /\ ~Inherits(z, cur.zones)
             /\ \E seg \in Segs \ mapped :
                   /\ mapped' = mapped \cup {seg} /\ new' = [new EXCEPT !.zones[i].seg = seg]
                   /\ pc' \in {"zones", "failed"}
    BY <1>4, <1>7
  <1>8. \/ UNCHANGED <<new, mapped>> /\ ((pc' = "match" /\ Unmapped = {}) \/ pc' = "failed")
        \/ /\ Unmapped # {} /\ Inherits(z, cur.zones) /\ UNCHANGED mapped
           /\ new' = [new EXCEPT !.zones[i].seg = cur.zones[k].seg]
           /\ pc' \in {"zones", "failed"}
        \/ /\ Unmapped # {} /\ ~Inherits(z, cur.zones)
           /\ \E seg \in Segs \ mapped :
                 /\ mapped' = mapped \cup {seg} /\ new' = [new EXCEPT !.zones[i].seg = seg]
                 /\ pc' \in {"zones", "failed"}
    BY DEF SetUpZone, i
  <1> QED BY <1>5, <1>6, <1>7, <1>8

\* listen() is called again, and may be refused.
Relisted(refused) == [fd \in Fds |-> AfterListen(fd, refused)]

LEMMA RelistedType ==
    ASSUME fds \in [Fds -> Descriptor], new \in Cycle, NEW refused,
           NEW fd \in Fds, Renewed(fd) # {} => fds[fd] # Closed,
           NEW d, d = Relisted(refused)[fd]
    PROVE  /\ d \in Descriptor
           /\ d.kind = fds[fd].kind /\ d.name = fds[fd].name
           /\ Renewed(fd) = {} => d = fds[fd]
           /\ Renewed(fd) # {} /\ d.told => /\ LastOf(Renewed(fd)) \in Renewed(fd)
                                            /\ d.backlog = new.listen[LastOf(Renewed(fd))].backlog
  <1> DEFINE o == fds[fd]
  <1>0. d = AfterListen(fd, refused) BY DEF Relisted
  <1>1. CASE Renewed(fd) = {} BY <1>0, <1>1 DEF AfterListen
  <1>2. CASE Renewed(fd) # {}
    <2> DEFINE i == LastOf(Renewed(fd))
               b == new.listen[i].backlog
    <2>1. new.listen \in Seq(Listener) BY CycleParts
    <2>2. Renewed(fd) \in SUBSET DOMAIN new.listen BY DEF Renewed
    <2>3. i \in Renewed(fd)
      <3>1. Len(new.listen) \in Nat /\ Renewed(fd) \in SUBSET (0..Len(new.listen)) BY <2>1, <2>2
      <3> QED BY <1>2, <3>1, LastOfIn
    <2>4. new.listen[i] \in Listener BY <2>1, <2>2, <2>3
    <2>5. b \in Nat
      <3> HIDE DEF i
      <3> QED BY <2>4 DEF Listener
    <2>6. o \in Descriptor /\ o # Closed BY <1>2
    <2>7. d = [o EXCEPT !.told = FALSE] \/ d = [o EXCEPT !.backlog = b, !.told = TRUE]
      BY <1>0, <1>2 DEF AfterListen
    <2> HIDE DEF i, b, o
    <2>8. /\ d \in Descriptor /\ d.kind = o.kind /\ d.name = o.name
          /\ d.told => d.backlog = b
      BY <2>5, <2>6, <2>7 DEF Descriptor
    <2> QED BY <1>2, <2>3, <2>8 DEF o, b, i
  <1> QED BY <1>1, <1>2

-----------------------------------------------------------------------------
(* The cycles while they are built, and what the steps rely on.             *)

LEMMA Cycles ==
    ASSUME TypeOK, InStep
    PROVE  /\ cur \in Cycle
           /\ Building => new \in Cycle
  BY DEF TypeOK, InStep

\* A step of a reload fills in the new cycle but keeps its identity.
LEMMA NewShape ==
    ASSUME IInv, ReloadStep, pc' \notin {"idle", "exited"}
    PROVE  /\ Building /\ new' \in Cycle /\ new'.init = new.init /\ new'.pid = new.pid
           /\ cur' = cur /\ reloads' = reloads
  <1>0. Building
    BY DEF Building, ReloadStep, CreatePidfile, DeletePidfile, OpenFile, SetUpZone, MatchListeners,
           OpenListener, EndTry, Configure, InitModules, FreeOldZones, CloseOldSocket,
           CloseOldFiles, Commit, FailedReload
  <1>1. TypeOK /\ InStep /\ ZonesNamed /\ cur \in Cycle /\ new \in Cycle
    BY <1>0, Cycles DEF IInv, Building
  <1>2. cur' = cur /\ reloads' = reloads
    BY DEF ReloadStep, CreatePidfile, DeletePidfile, OpenFile, SetUpZone, MatchListeners,
           OpenListener, EndTry, Configure, InitModules, FreeOldZones, CloseOldSocket,
           CloseOldFiles, Commit, FailedReload
  <1>3. new' = new \/ OpenFile \/ SetUpZone \/ MatchListeners \/ OpenListener
    BY DEF ReloadStep, CreatePidfile, DeletePidfile, EndTry, Configure, InitModules, FreeOldZones,
           CloseOldSocket, CloseOldFiles, Commit, FailedReload, GivenUp
  <1>4. CASE new' = new BY <1>0, <1>1, <1>2, <1>4
  <1>5. CASE OpenFile BY <1>0, <1>1, <1>2, <1>5, FileOpening DEF FileGot
  <1>6. CASE SetUpZone
    <2>1. pc = "zones" BY <1>6 DEF SetUpZone
    <2> QED BY <1>0, <1>1, <1>2, <1>6, <2>1, ZoneSetting DEF ZoneGot
  <1>7. CASE MatchListeners BY <1>0, <1>1, <1>2, <1>7, Matching DEF MatchedBy
  <1>8. CASE OpenListener BY <1>0, <1>1, <1>2, <1>8, Opening DEF Bound, PathLeft
  <1> QED BY <1>3, <1>4, <1>5, <1>6, <1>7, <1>8

\* Outside a reload the cycles stay, but for the beginning of one.
Idling ==
    \/ RejectConf \/ Accept \/ CloseConn \/ CleanOldCycles
    \/ \E i \in DOMAIN old : CloseOldConn(i)
    \/ \E a \in Addrs : OthersBind(a) \/ OthersLeave(a)

LEMMA IdlingKeeps ==
    ASSUME Idling
    PROVE  /\ UNCHANGED <<cur, new, remain, opening, fds, mapped, pidfiles, reloads, ghosts>>
           /\ pc' = pc \/ (pc = "idle" /\ pc' = "exited")
  <1>1. CASE RejectConf BY <1>1 DEF RejectConf, GivenUp
  <1>2. CASE Accept BY <1>2 DEF Accept
  <1>3. CASE CloseConn BY <1>3 DEF CloseConn
  <1>4. CASE CleanOldCycles BY <1>4 DEF CleanOldCycles
  <1>5. CASE \E i \in DOMAIN old : CloseOldConn(i) BY <1>5 DEF CloseOldConn
  <1>6. CASE \E a \in Addrs : OthersBind(a) \/ OthersLeave(a) BY <1>6 DEF OthersBind, OthersLeave
  <1> QED BY <1>1, <1>2, <1>3, <1>4, <1>5, <1>6 DEF Idling

LEMMA Steps ==
    ASSUME [Next]_vars
    PROVE  \/ \E c \in Confs : Begin(c)
           \/ ReloadStep
           \/ /\ UNCHANGED <<cur, new, remain, opening, fds, mapped, pidfiles, reloads, ghosts>>
              /\ pc' = pc \/ (pc = "idle" /\ pc' = "exited")
  <1>1. CASE UNCHANGED vars BY <1>1 DEF vars
  <1>2. CASE Idling BY <1>2, IdlingKeeps
  <1>3. Next => (\E c \in Confs : Begin(c)) \/ ReloadStep \/ Idling BY DEF Next, Idling
  <1> QED BY <1>1, <1>2, <1>3

LEMMA InStepStep == ASSUME IInv, [Next]_vars PROVE InStep'
  <1>0. TypeOK /\ InStep BY DEF IInv
  <1>1. ASSUME NEW c \in Confs, Begin(c) PROVE InStep'
    <2>1. new' \in Cycle /\ ~new'.init /\ new'.pid \in Pids BY <1>1, BuiltType DEF Begin
    <2> QED BY <1>0, <1>1, <2>1, CycleAssumption DEF InStep, Building, Begin, TypeOK
  <1>2. CASE ReloadStep
    <2>1. Building' => new' # NULL /\ ~new'.init /\ new'.pid \in Pids /\ reloads' > 0
      <3> SUFFICES ASSUME Building' PROVE new' # NULL /\ ~new'.init /\ new'.pid \in Pids /\ reloads' > 0
        OBVIOUS
      <3>1. pc' \notin {"idle", "exited"} BY DEF Building
      <3> QED BY <1>0, <1>2, <3>1, NewShape, CycleAssumption DEF InStep
    <2>2. new' # NULL => Building' \/ pc' = "exited"
      BY <1>0, <1>2 DEF InStep, Building, ReloadStep, CreatePidfile, DeletePidfile, OpenFile, SetUpZone,
           MatchListeners, OpenListener, EndTry, Configure, InitModules, FreeOldZones, CloseOldSocket,
           CloseOldFiles, Commit, FailedReload
    <2>3. pc' = "open" => triesLeft' > 0
      <3>1. CASE MatchListeners BY <3>1, CycleAssumption DEF MatchListeners
      <3>2. CASE OpenListener BY <1>0, <3>2 DEF OpenListener, InStep
      <3>3. CASE EndTry BY <1>0, <3>3 DEF EndTry, InStep, LastTry, TypeOK
      <3>4. CASE pc' # "open" BY <3>4
      <3>5. MatchListeners \/ OpenListener \/ EndTry \/ pc' # "open"
        BY <1>2 DEF ReloadStep, CreatePidfile, DeletePidfile, OpenFile, SetUpZone, Configure,
             InitModules, FreeOldZones, CloseOldSocket, CloseOldFiles, Commit, FailedReload, GivenUp
      <3> QED BY <3>1, <3>2, <3>3, <3>4, <3>5
    <2>4. pc' = "unpid" => new'.pid \in pidfiles' /\ new'.pid # cur'.pid
      <3>1. pc' # "unpid" \/ CreatePidfile
        BY <1>2 DEF ReloadStep, DeletePidfile, OpenFile, SetUpZone, MatchListeners, OpenListener,
             EndTry, Configure, InitModules, FreeOldZones, CloseOldSocket, CloseOldFiles, Commit,
             FailedReload, GivenUp
      <3> QED BY <3>1 DEF CreatePidfile, SamePidfile
    <2>5. ~cur'.init => cur'.pid \in Pids
      <3>1. cur' = cur \/ (Building /\ cur' = new)
        <4>1. CASE Commit BY <4>1 DEF Commit, Building
        <4>2. CASE FailedReload BY <4>2 DEF FailedReload
        <4>3. CASE ~Commit /\ ~FailedReload
          BY <1>2, <4>3 DEF ReloadStep, CreatePidfile, DeletePidfile, OpenFile, SetUpZone,
             MatchListeners, OpenListener, EndTry, Configure, InitModules, FreeOldZones,
             CloseOldSocket, CloseOldFiles
        <4> QED BY <4>1, <4>2, <4>3
      <3> QED BY <1>0, <3>1 DEF InStep
    <2> QED BY <2>1, <2>2, <2>3, <2>4, <2>5 DEF InStep
  <1>3. CASE /\ UNCHANGED <<cur, new, remain, opening, fds, mapped, pidfiles, reloads, ghosts>>
             /\ pc' = pc \/ (pc = "idle" /\ pc' = "exited")
    BY <1>0, <1>3 DEF InStep, Building
  <1> QED BY <1>1, <1>2, <1>3, Steps

-----------------------------------------------------------------------------
(* Who owns which descriptor.                                               *)

LEMMA SameFree == ASSUME UNCHANGED fds PROVE FreeFds' = FreeFds
  BY DEF FreeFds

LEMMA LessFree ==
    ASSUME TypeOK, FreeFds # {}, NEW d, d # Closed, fds' = [fds EXCEPT ![LowestFd] = d]
    PROVE  FreeFds' = FreeFds \ {LowestFd} /\ LowestFd \in FreeFds /\ LowestFd \notin {NULL, 2}
  BY LowestFree, CycleAssumption DEF TypeOK, FreeFds

LEMMA MoreFree ==
    ASSUME NEW dead \in SUBSET Fds, fds' = CloseAll(dead)
    PROVE  FreeFds' = FreeFds \cup dead
  BY DEF FreeFds, CloseAll

LEMMA SameOld ==
    ASSUME UNCHANGED <<cur, remain>>, pc \notin {"closesocks", "closefiles", "commit"},
           pc' \notin {"closesocks", "closefiles", "commit"}
    PROVE  OldSockets' = OldSockets /\ OldFiles' = OldFiles
  BY DEF OldSockets, OldFiles, Open

LEMMA SameNew ==
    ASSUME UNCHANGED new, Building, Building'
    PROVE  NewSockets' = NewSockets /\ NewFiles' = NewFiles
  BY DEF NewSockets, NewFiles, OpenedSockets

LEMMA FdsTyped ==
    ASSUME NEW c \in Cycle
    PROVE  /\ FdsOf(c.listen) \in SUBSET Fds /\ FdsOf(c.files) \in SUBSET Fds
           /\ SegsOf(c.zones) \in SUBSET Segs
           /\ \A i \in DOMAIN c.listen : c.listen[i].fd \in Fds \cup {NULL}
                                      /\ c.listen[i].open \in BOOLEAN
           /\ \A i \in DOMAIN c.files : c.files[i].fd \in Fds \cup {2, NULL}
           /\ \A i \in DOMAIN c.zones : c.zones[i].seg \in Segs \cup {NULL}
  <1>1. \A i \in DOMAIN c.listen : c.listen[i] \in Listener BY CycleParts
  <1>2. \A i \in DOMAIN c.files : c.files[i] \in OpenedFile BY CycleParts
  <1>3. \A i \in DOMAIN c.zones : c.zones[i] \in ShmZone BY CycleParts
  <1>4. /\ \A i \in DOMAIN c.listen : c.listen[i].fd \in Fds \cup {NULL}
                                    /\ c.listen[i].open \in BOOLEAN
        /\ \A i \in DOMAIN c.files : c.files[i].fd \in Fds \cup {2, NULL}
        /\ \A i \in DOMAIN c.zones : c.zones[i].seg \in Segs \cup {NULL}
    BY <1>1, <1>2, <1>3 DEF Listener, OpenedFile, ShmZone
  <1> QED BY <1>4 DEF FdsOf, SegsOf

\* After the matching the new listeners have descriptors of old ones that
\* remain, or sockets of their own.
LEMMA NewHeld ==
    ASSUME IInv, Matched
    PROVE  /\ \A n \in DOMAIN new.listen :
                 /\ new.listen[n].fd # NULL => new.listen[n].fd \in OldSockets \cup NewSockets
                 /\ new.listen[n].fd = NULL => new.listen[n].open
           /\ {cur.listen[i].fd : i \in remain} \subseteq OldSockets
           /\ pc \in {"closefiles", "commit"} => {cur.listen[i].fd : i \in remain} = OldSockets
  <1>1. Building /\ pc # "exited" /\ pc \notin {"idle", "pid", "unpid", "files", "zones", "match"}
    BY DEF Matched, Releasing, Building
  <1>2. TypeOK /\ InStep /\ Settled /\ Growing /\ cur \in Cycle /\ new \in Cycle
    BY <1>1, Cycles DEF IInv
  <1>3. \A i \in remain : i \in DOMAIN cur.listen /\ Open(i)
    BY <1>2 DEF TypeOK, Open
  <1>4. {cur.listen[i].fd : i \in remain} \subseteq OldSockets BY <1>3 DEF OldSockets
  <1>5. \A n \in DOMAIN new.listen :
           ~new.listen[n].open => new.listen[n].fd \in {cur.listen[i].fd : i \in remain}
    BY <1>2 DEF Growing, TakenSockets, RemainingSockets
  <1>6. \A n \in DOMAIN new.listen :
           new.listen[n].open /\ new.listen[n].fd # NULL => new.listen[n].fd \in NewSockets
    BY <1>1 DEF NewSockets, OpenedSockets
  <1>7. \A i \in remain : cur.listen[i].fd # NULL BY <1>2, <1>3, CycleAssumption DEF Settled
  <1>8. pc \in {"closefiles", "commit"} => {cur.listen[i].fd : i \in remain} = OldSockets
    BY <1>3 DEF OldSockets, Open
  <1> QED BY <1>4, <1>5, <1>6, <1>7, <1>8

\* listen() is called again on open descriptors only, which stay open.
LEMMA ConfigureKeeps ==
    ASSUME IInv, Configure
    PROVE  /\ \E refused : fds' = Relisted(refused)
           /\ FreeFds' = FreeFds
           /\ \A fd \in Fds : Renewed(fd) # {} => fds[fd] # Closed
  <1>1. pc = "configure" /\ Matched /\ Building BY DEF Configure, Matched, Building
  <1>2. TypeOK /\ InStep /\ OwnersApart /\ new \in Cycle BY <1>1, Cycles DEF IInv, Building
  <1>3. PICK refused : fds' = Relisted(refused) BY DEF Configure, Relisted
  <1>4. ASSUME NEW fd \in Fds, Renewed(fd) # {} PROVE fds[fd] # Closed
    <2>1. PICK n \in DOMAIN new.listen : new.listen[n].fd = fd BY <1>4 DEF Renewed
    <2>2. fd \in OldSockets \cup NewSockets BY <1>1, <2>1, CycleAssumption, NewHeld
    <2> QED BY <1>2, <2>2 DEF OwnersApart, FreeFds
  <1>5. \A fd \in Fds : fds'[fd].kind = fds[fd].kind /\ (Renewed(fd) = {} => fds'[fd] = fds[fd])
    BY <1>2, <1>3, <1>4, RelistedType DEF TypeOK
  <1>6. \A fd \in Fds : fds[fd].kind = "closed" <=> fds[fd] = Closed
    BY <1>2 DEF TypeOK, Descriptor, Closed
  <1>7. FreeFds' = FreeFds
    <2>1. \A fd \in Fds : fds'[fd] = Closed => fds[fd] = Closed
      <3>1. Closed.kind = "closed" BY DEF Closed
      <3> QED BY <1>5, <1>6, <3>1
    <2>2. \A fd \in Fds : fds[fd] = Closed => fds'[fd] = Closed BY <1>3, <1>4, <1>5
    <2> QED BY <2>1, <2>2 DEF FreeFds
  <1> QED BY <1>3, <1>4, <1>7

LEMMA TypeStep == ASSUME IInv, [Next]_vars PROVE TypeOK'
  <1>0. TypeOK /\ InStep /\ (pc # "exited" => ZonesNamed) BY DEF IInv
  <1>1. ASSUME NEW c \in Confs, Begin(c) PROVE TypeOK'
    <2>1. new' \in Cycle BY <1>1, BuiltType DEF Begin
    <2> QED BY <1>0, <1>1, <2>1, CycleAssumption DEF TypeOK, Begin
  <1>2. CASE RejectConf BY <1>0, <1>2 DEF TypeOK, RejectConf, GivenUp
  <1>3. CASE CreatePidfile
    <2>1. ~SamePidfile /\ FreeFds # {} =>
             [fds EXCEPT ![LowestFd] = File(new.pid)] \in [Fds -> Descriptor] /\ new.pid \in Pids
      BY <1>0, <1>3, LowestFree DEF TypeOK, InStep, CreatePidfile, Building, Descriptor, File
    <2> QED BY <1>0, <1>3, <2>1, LowestFree DEF TypeOK, CreatePidfile
  <1>4. CASE DeletePidfile BY <1>0, <1>4 DEF TypeOK, DeletePidfile
  <1>5. CASE OpenFile
    <2>1. new \in Cycle BY <1>0, <1>5 DEF TypeOK, InStep, Building, OpenFile
    <2>2. new' \in Cycle /\ fds' \in [Fds -> Descriptor]
      <3>1. CASE UNCHANGED <<new, fds>> BY <1>0, <2>1, <3>1 DEF TypeOK
      <3>2. ASSUME NEW i, FileGot(i) PROVE new' \in Cycle /\ fds' \in [Fds -> Descriptor]
        <4>1. new.files[i] \in OpenedFile BY <2>1, <3>2, CycleParts DEF FileGot
        <4>2. new.files[i].name \in Files BY <4>1 DEF OpenedFile
        <4>3. File(new.files[i].name) \in Descriptor BY <4>2 DEF File, Descriptor
        <4> QED BY <1>0, <3>2, <4>3, LowestFree DEF TypeOK, FileGot
      <3> QED BY <1>5, <2>1, <3>1, <3>2, FileOpening
    <2> QED BY <1>0, <1>5, <2>2 DEF TypeOK, OpenFile
  <1>6. CASE SetUpZone
    <2>1. cur \in Cycle /\ new \in Cycle /\ pc = "zones" /\ ZonesNamed
      BY <1>0, <1>6 DEF TypeOK, InStep, Building, SetUpZone
    <2>2. new' \in Cycle /\ mapped' \subseteq Segs
      BY <1>0, <1>6, <2>1, ZoneSetting DEF TypeOK, ZoneGot
    <2> QED BY <1>0, <1>6, <2>2 DEF TypeOK, SetUpZone
  <1>7. CASE MatchListeners
    <2>1. cur \in Cycle /\ new \in Cycle BY <1>0, <1>7 DEF TypeOK, InStep, Building, MatchListeners
    <2>2. PICK m : MatchedBy(m) BY <1>7, <2>1, Matching
    <2>3. new' \in Cycle BY <2>2 DEF MatchedBy
    <2>4. remain' \subseteq DOMAIN cur.listen BY <2>2 DEF MatchedBy
    <2>5. at' = 1 /\ pc' = "open" /\ triesLeft' \in 0..Tries
      BY <1>7, CycleAssumption DEF MatchListeners
    <2>6. busy' \in BOOLEAN BY <1>7 DEF MatchListeners
    <2> QED BY <1>0, <1>7, <2>3, <2>4, <2>5, <2>6 DEF TypeOK, MatchListeners
  <1>8. CASE OpenListener
    <2>1. new \in Cycle BY <1>0, <1>8 DEF TypeOK, InStep, Building, OpenListener
    <2>2. new' \in Cycle /\ fds' \in [Fds -> Descriptor] /\ paths' \subseteq Addrs
      <3>1. CASE UNCHANGED <<new, fds, paths>> BY <1>0, <2>1, <3>1 DEF TypeOK
      <3>3. CASE PathLeft
        <4>1. new.listen[at] \in Listener BY <2>1, <3>3, CycleParts DEF PathLeft
        <4>2. new.listen[at].addr \in Addrs BY <4>1 DEF Listener
        <4> QED BY <1>0, <2>1, <3>3, <4>2 DEF PathLeft, TypeOK
      <3>2. CASE Bound
        <4> DEFINE l == new.listen[at]
        <4>1. l \in Listener BY <2>1, <3>2, CycleParts DEF Bound
        <4>2. l.addr \in Addrs /\ l.backlog \in Nat
          <5> HIDE DEF l
          <5> QED BY <4>1 DEF Listener
        <4>3. Socket(l.addr, l.backlog, TRUE) \in Descriptor BY <4>2 DEF Descriptor, Socket
        <4>4. LowestFd \in Fds BY <3>2, LowestFree DEF Bound
        <4> QED BY <1>0, <3>2, <4>2, <4>3, <4>4 DEF Bound, TypeOK
      <3> QED BY <1>0, <1>8, <2>1, <3>1, <3>2, <3>3, Opening
    <2>3. at' \in Nat \ {0} /\ pc' \in {"open", "failed"}
      <3>1. at' \in {at, at + 1} /\ pc' \in {"open", "failed"} BY <1>8 DEF OpenListener
      <3> QED BY <1>0, <3>1 DEF TypeOK
    <2>4. busy' \in BOOLEAN BY <1>0, <1>8 DEF TypeOK, OpenListener
    <2> QED BY <1>0, <1>8, <2>2, <2>3, <2>4 DEF TypeOK, OpenListener
  <1>9. CASE EndTry
    <2>1. triesLeft' \in 0..Tries /\ pc' \in {"configure", "failed", "open"} /\ at' = 1
      BY <1>0, <1>9, CycleAssumption DEF TypeOK, InStep, EndTry
    <2>2. busy' \in BOOLEAN BY <1>9 DEF EndTry
    <2> QED BY <1>0, <1>9, <2>1, <2>2 DEF TypeOK, EndTry
  <1>10. CASE Configure
    <2>1. fds' \in [Fds -> Descriptor]
      <3>1. new \in Cycle BY <1>0, <1>10 DEF TypeOK, InStep, Building, Configure
      <3>2. PICK refused : fds' = Relisted(refused) BY <1>10, ConfigureKeeps
      <3>3. fds' = [fd \in Fds |-> fds'[fd]] BY <3>2 DEF Relisted
      <3>4. \A fd \in Fds : Renewed(fd) # {} => fds[fd] # Closed BY <1>10, ConfigureKeeps
      <3> QED BY <1>0, <3>1, <3>2, <3>3, <3>4, RelistedType DEF TypeOK
    <2> QED BY <1>0, <1>10, <2>1 DEF TypeOK, Configure
  <1>11. CASE InitModules BY <1>0, <1>11 DEF TypeOK, InitModules
  <1>12. CASE FreeOldZones
    <2>1. {cur.zones[i].seg : i \in Forgotten} \subseteq Segs
      <3>1. cur \in Cycle /\ pc # "exited" /\ ZonesNamed BY <1>0, <1>12 DEF TypeOK, FreeOldZones
      <3>2. \A i \in Forgotten : i \in DOMAIN cur.zones BY DEF Forgotten, Successors
      <3>3. \A i \in DOMAIN cur.zones : cur.zones[i].seg \in Segs BY <3>1, FdsTyped DEF ZonesNamed
      <3> QED BY <3>2, <3>3
    <2>2. (pulled \/ Withdrawn) \in BOOLEAN OBVIOUS
    <2> QED BY <1>0, <1>12, <2>1, <2>2 DEF TypeOK, FreeOldZones, Misused
  <1>13. CASE CloseOldSocket
    <2>1. CASE UNCHANGED <<fds, paths, misuse>>
      BY <1>0, <1>13, <2>1 DEF TypeOK, CloseOldSocket
    <2>2. CASE /\ UNCHANGED pc /\ at' = at + 1
               /\ fds' = [fds EXCEPT ![cur.listen[at].fd] = Closed]
               /\ paths' \subseteq paths
               /\ misuse' \subseteq {"close", "unmap"}
      <3>1. fds' \in [Fds -> Descriptor] BY <1>0, <2>2 DEF TypeOK, Descriptor
      <3> QED BY <1>0, <1>13, <2>2, <3>1 DEF TypeOK, CloseOldSocket
    <2>3. misuse \subseteq {"close", "unmap"} BY <1>0 DEF TypeOK
    <2> QED BY <1>13, <2>1, <2>2, <2>3 DEF CloseOldSocket, Misused
  <1>14. CASE CloseOldFiles
    <2>1. Closed \in Descriptor BY DEF Descriptor
    <2> QED BY <1>0, <1>14, <2>1 DEF TypeOK, CloseOldFiles, CloseAll, Misused
  <1>15. CASE Commit
    <2>1. [id |-> reloads, conns |-> conns] \in RetiredCycle
      BY <1>0, <1>15, CycleAssumption DEF TypeOK, InStep, Building, Commit, RetiredCycle
    <2>2. Append(old, [id |-> reloads, conns |-> conns]) \in Seq(RetiredCycle \cup {NULL})
      BY <1>0, <2>1 DEF TypeOK
    <2>3. new \in Cycle BY <1>0, <1>15 DEF Commit, InStep, Building, TypeOK
    <2>4. /\ cur' \in Cycle /\ new' \in Cycle \cup {NULL} /\ remain' \subseteq DOMAIN cur'.listen
          /\ pc' \in {"idle", "exited"}
      BY <1>0, <1>15, <2>3 DEF TypeOK, Commit
    <2>5. old' \in Seq(RetiredCycle \cup {NULL}) /\ conns' \in 0..MaxConns
      <3>1. CASE UNCHANGED retired BY <1>0, <3>1 DEF TypeOK
      <3>2. CASE old' = Append(old, [id |-> reloads, conns |-> conns]) /\ conns' = 0
        BY <2>2, <3>2, CycleAssumption
      <3> QED BY <1>15, <3>1, <3>2 DEF Commit
    <2>6. tempPool' \in BOOLEAN /\ timer' \in BOOLEAN
      BY <1>0, <1>15 DEF TypeOK, Commit
    <2> QED BY <1>0, <1>15, <2>4, <2>5, <2>6 DEF TypeOK, Commit
  <1>16. CASE FailedReload
    <2>1. Closed \in Descriptor BY DEF Descriptor
    <2>2. SegsOf(new.zones) \subseteq Segs
      <3>1. new \in Cycle BY <1>0, <1>16 DEF FailedReload, InStep, Building, TypeOK
      <3>2. \A i \in DOMAIN new.zones : new.zones[i] \in ShmZone BY <3>1, CycleParts
      <3> QED BY <3>2 DEF SegsOf, ShmZone
    <2> QED BY <1>0, <1>16, <2>1, <2>2 DEF TypeOK, FailedReload, CloseAll, GivenUp, Misused
  <1>17. CASE Accept BY <1>0, <1>17, CycleAssumption DEF TypeOK, Accept
  <1>18. CASE CloseConn BY <1>0, <1>18, CycleAssumption DEF TypeOK, CloseConn
  <1>19. CASE CleanOldCycles
    <2>1. Cleaned \in Seq(RetiredCycle \cup {NULL}) BY <1>0 DEF TypeOK, Cleaned
    <2>2. <<>> \in Seq(RetiredCycle \cup {NULL}) OBVIOUS
    <2> QED BY <1>0, <1>19, <2>1, <2>2 DEF TypeOK, CleanOldCycles
  <1>20. ASSUME NEW i \in DOMAIN old, CloseOldConn(i) PROVE TypeOK'
    <2> DEFINE o == old[i]
    <2>1. o \in RetiredCycle /\ o.conns > 0 BY <1>0, <1>20 DEF TypeOK, CloseOldConn
    <2>2. [o EXCEPT !.conns = @ - 1] \in RetiredCycle
      <3> HIDE DEF o
      <3> QED BY <2>1, CycleAssumption DEF RetiredCycle
    <2>3. old' = [old EXCEPT ![i] = [o EXCEPT !.conns = @ - 1]] BY <1>20 DEF CloseOldConn
    <2>4. old' \in Seq(RetiredCycle \cup {NULL})
      <3> HIDE DEF o
      <3> QED BY <1>0, <2>2, <2>3, PutIn DEF TypeOK
    <2> QED BY <1>0, <1>20, <2>4 DEF TypeOK, CloseOldConn
  <1>21. ASSUME NEW a \in Addrs, OthersBind(a) \/ OthersLeave(a) PROVE TypeOK'
    BY <1>0, <1>21 DEF TypeOK, OthersBind, OthersLeave
  <1>22. CASE UNCHANGED vars BY <1>0, <1>22 DEF TypeOK, vars
  <1> QED BY <1>1, <1>2, <1>3, <1>4, <1>5, <1>6, <1>7, <1>8, <1>9, <1>10, <1>11, <1>12, <1>13,
             <1>14, <1>15, <1>16, <1>17, <1>18, <1>19, <1>20, <1>21, <1>22 DEF Next, ReloadStep

LEMMA OwnersStep ==
    ASSUME IInv, TypeOK', ReloadStep, pc' # "exited" PROVE OwnersApart' /\ NoMisuse'
  <1>0. Building
    BY DEF Building, ReloadStep, CreatePidfile, DeletePidfile, OpenFile, SetUpZone, MatchListeners,
           OpenListener, EndTry, Configure, InitModules, FreeOldZones, CloseOldSocket,
           CloseOldFiles, Commit, FailedReload
  <1>1. /\ TypeOK /\ InStep /\ OwnersApart /\ Settled /\ Growing /\ ZonesNamed /\ NoMisuse
        /\ ~pulled => SegsSound
        /\ cur \in Cycle /\ new \in Cycle
    BY <1>0, Cycles DEF IInv, Building
  <1>2. ASSUME UNCHANGED <<cur, new, remain, fds, lost, pulled, misuse>>, Building',
               pc \notin {"closesocks", "closefiles", "commit"},
               pc' \notin {"closesocks", "closefiles", "commit"}
        PROVE  OwnersApart' /\ NoMisuse'
    <2>1. OldSockets' = OldSockets /\ OldFiles' = OldFiles BY <1>2, SameOld
    <2>2. NewSockets' = NewSockets /\ NewFiles' = NewFiles BY <1>0, <1>2, SameNew
    <2>3. FreeFds' = FreeFds BY <1>2, SameFree
    <2> QED BY <1>1, <1>2, <2>1, <2>2, <2>3 DEF OwnersApart, Apart, NoMisuse
  <1>3. CASE CreatePidfile
    <2>1. CASE UNCHANGED <<fds, lost>>
      BY <1>2, <1>3, <2>1 DEF CreatePidfile, Building
    <2>2. CASE /\ FreeFds # {} /\ pc' = "failed" /\ lost' = lost \cup {LowestFd}
               /\ fds' = [fds EXCEPT ![LowestFd] = File(new.pid)]
      <3>1. UNCHANGED <<cur, new, remain, pulled, misuse>> /\ pc = "pid" BY <1>3 DEF CreatePidfile
      <3>2. OldSockets' = OldSockets /\ OldFiles' = OldFiles BY <2>2, <3>1, SameOld
      <3>3. NewSockets' = NewSockets /\ NewFiles' = NewFiles
        BY <1>0, <2>2, <3>1, SameNew DEF Building
      <3>4. File(new.pid) # Closed BY DEF File, Closed
      <3>5. FreeFds' = FreeFds \ {LowestFd} /\ LowestFd \in FreeFds BY <1>1, <2>2, <3>4, LessFree
      <3>6. FreeFds \subseteq Fds BY DEF FreeFds
      <3> QED BY <1>1, <2>2, <3>1, <3>2, <3>3, <3>5, <3>6 DEF OwnersApart, Apart, NoMisuse
    <2> QED BY <1>3, <2>1, <2>2 DEF CreatePidfile
  <1>4. CASE DeletePidfile BY <1>2, <1>4 DEF DeletePidfile, Building
  <1>5. CASE OpenFile
    <2>1. CASE UNCHANGED <<new, fds>> BY <1>2, <1>5, <2>1 DEF OpenFile, Building
    <2>2. ASSUME NEW i, FileGot(i) PROVE OwnersApart' /\ NoMisuse'
      <3>1. UNCHANGED <<cur, remain, lost, pulled, misuse>> /\ pc = "files" BY <1>5 DEF OpenFile
      <3>2. pc' \in {"files", "failed"} BY <2>2 DEF FileGot
      <3>3. OldSockets' = OldSockets /\ OldFiles' = OldFiles BY <3>1, <3>2, SameOld
      <3>4. Building' BY <3>2 DEF Building
      <3>5. File(new.files[i].name) # Closed BY DEF File, Closed
      <3>6. FreeFds' = FreeFds \ {LowestFd} /\ LowestFd \in FreeFds /\ LowestFd \notin {NULL, 2}
        BY <1>1, <2>2, <3>5, LessFree DEF FileGot
      <3>7. NewSockets' = NewSockets BY <1>0, <2>2, <3>4 DEF FileGot, NewSockets, OpenedSockets
      <3>8. NewFiles' = NewFiles \cup {LowestFd}
        <4>1. new'.files[i].fd = LowestFd /\ new.files[i].fd = NULL
          BY <2>2 DEF FileGot, Unopened
        <4>2. \A j \in DOMAIN new.files : j # i => new'.files[j].fd = new.files[j].fd
          BY <2>2 DEF FileGot
        <4>3. DOMAIN new'.files = DOMAIN new.files /\ i \in DOMAIN new.files BY <2>2 DEF FileGot
        <4>4. FdsOf(new'.files) = FdsOf(new.files) \cup {LowestFd}
          BY <3>6, <4>1, <4>2, <4>3 DEF FdsOf
        <4> QED BY <1>0, <3>4, <4>4 DEF NewFiles
      <3>9. FreeFds \subseteq Fds BY DEF FreeFds
      <3> QED BY <1>1, <3>1, <3>3, <3>6, <3>7, <3>8, <3>9 DEF OwnersApart, Apart, NoMisuse
    <2> QED BY <1>1, <1>5, <2>1, <2>2, FileOpening
  <1>6. CASE SetUpZone
    <2>1. UNCHANGED <<cur, remain, fds, lost, pulled, misuse>> /\ pc = "zones" BY <1>6 DEF SetUpZone
    <2>2. pc' \in {"zones", "match", "failed"} BY <1>6 DEF SetUpZone
    <2>3. new'.listen = new.listen /\ new'.files = new.files
      BY <1>1, <1>6, <2>1, ZoneSetting DEF ZoneGot
    <2>4. OldSockets' = OldSockets /\ OldFiles' = OldFiles BY <2>1, <2>2, SameOld
    <2>5. Building' BY <2>2 DEF Building
    <2>6. NewSockets' = NewSockets /\ NewFiles' = NewFiles
      BY <1>0, <2>3, <2>5 DEF NewSockets, NewFiles, OpenedSockets
    <2>7. FreeFds' = FreeFds BY <2>1, SameFree
    <2> QED BY <1>1, <2>1, <2>4, <2>6, <2>7 DEF OwnersApart, Apart, NoMisuse
  <1>7. CASE MatchListeners
    <2>1. UNCHANGED <<cur, fds, lost, pulled, misuse>> /\ pc = "match" /\ pc' = "open"
      BY <1>7 DEF MatchListeners
    <2>2. PICK m : MatchedBy(m) BY <1>1, <1>7, Matching
    <2>3. OldSockets' = OldSockets /\ OldFiles' = OldFiles BY <2>1 DEF OldSockets, OldFiles, Open
    <2>4. \A n \in DOMAIN new.listen : new.listen[n].fd = NULL /\ ~new.listen[n].open
      BY <1>1, <2>1 DEF Growing, Untouched
    <2>5. \A n \in DOMAIN new'.listen : new'.listen[n].open => new'.listen[n].fd = NULL
      <3> SUFFICES ASSUME NEW n \in DOMAIN new.listen, new'.listen[n].open
                   PROVE  new'.listen[n].fd = NULL
        BY <2>2 DEF MatchedBy
      <3>1. CASE m[n] = 0
        <4>1. new'.listen[n] = ToOpen(new.listen[n]) BY <2>2, <3>1 DEF MatchedBy
        <4> QED BY <2>4, <4>1 DEF ToOpen
      <3>2. CASE m[n] # 0
        <4>1. new'.listen[n] = TakenOver(cur.listen[m[n]], new.listen[n]) BY <2>2, <3>2 DEF MatchedBy
        <4>2. TakenOver(cur.listen[m[n]], new.listen[n]).open = new.listen[n].open
          BY TakenOverParts
        <4> QED BY <2>4, <4>1, <4>2
      <3> QED BY <3>1, <3>2
    <2>6. NewSockets' = {} BY <2>5 DEF NewSockets, OpenedSockets
    <2>7. NewSockets = {} BY <2>4 DEF NewSockets, OpenedSockets
    <2>8. Building' BY <2>1 DEF Building
    <2>9. NewFiles' = NewFiles BY <1>0, <2>2, <2>8 DEF NewFiles, MatchedBy
    <2>10. FreeFds' = FreeFds BY <2>1, SameFree
    <2> QED BY <1>1, <2>1, <2>3, <2>6, <2>7, <2>9, <2>10 DEF OwnersApart, Apart, NoMisuse
  <1>8. CASE OpenListener
    <2>1. UNCHANGED <<cur, remain, lost, pulled, misuse>> /\ pc = "open" /\ pc' \in {"open", "failed"}
      BY <1>8 DEF OpenListener
    <2>2. CASE UNCHANGED <<new, fds>>
      BY <1>2, <2>1, <2>2 DEF Building
    <2>3. CASE Bound
      <3> DEFINE l == new.listen[at]
      <3>1. OldSockets' = OldSockets /\ OldFiles' = OldFiles BY <2>1, SameOld
      <3>2. Building' BY <2>1 DEF Building
      <3>3. Socket(l.addr, l.backlog, TRUE) # Closed BY DEF Socket, Closed
      <3>4. FreeFds' = FreeFds \ {LowestFd} /\ LowestFd \in FreeFds /\ LowestFd \notin {NULL, 2}
        BY <1>1, <2>3, <3>3, LessFree DEF Bound
      <3>5. l.open BY <1>1, <2>1, <2>3, NewHeld DEF Bound, Matched
      <3>6. NewFiles' = NewFiles BY <1>0, <2>3, <3>2 DEF Bound, NewFiles
      <3>7. NewSockets' = NewSockets \cup {LowestFd}
        <4>1. /\ new'.listen[at].fd = LowestFd /\ new'.listen[at].open
              /\ new.listen[at].fd = NULL /\ new.listen[at].open
          BY <2>3, <3>5 DEF Bound, NewlyBound
        <4>2. \A n \in DOMAIN new.listen : n # at => new'.listen[n].fd = new.listen[n].fd
                                                  /\ new'.listen[n].open = new.listen[n].open
          BY <2>3 DEF Bound
        <4>3. DOMAIN new'.listen = DOMAIN new.listen /\ at \in DOMAIN new.listen BY <2>3 DEF Bound
        <4>4. \A fd : fd \in OpenedSockets' <=> fd \in OpenedSockets \cup {LowestFd}
          BY <3>4, <4>1, <4>2, <4>3 DEF OpenedSockets
        <4> QED BY <1>0, <3>2, <4>4 DEF NewSockets
      <3>8. FreeFds \subseteq Fds BY DEF FreeFds
      <3> QED BY <1>1, <2>1, <3>1, <3>4, <3>6, <3>7, <3>8 DEF OwnersApart, Apart, NoMisuse
    <2> QED BY <1>1, <1>8, <2>2, <2>3, Opening DEF PathLeft
  <1>9. CASE EndTry
    <2>1. pc' \in {"configure", "failed", "open"} BY <1>9 DEF EndTry
    <2> QED BY <1>2, <1>9, <2>1 DEF EndTry, Building
  <1>10. CASE Configure
    <2>1. UNCHANGED <<cur, new, remain, lost, pulled, misuse>> /\ pc = "configure" /\ pc' = "modules"
      BY <1>10 DEF Configure
    <2>2. OldSockets' = OldSockets /\ OldFiles' = OldFiles BY <2>1, SameOld
    <2>3. NewSockets' = NewSockets /\ NewFiles' = NewFiles BY <1>0, <2>1, SameNew DEF Building
    <2>4. FreeFds' = FreeFds BY <1>0, <1>1, <1>10, ConfigureKeeps
    <2> QED BY <1>1, <2>1, <2>2, <2>3, <2>4 DEF OwnersApart, Apart, NoMisuse
  <1>11. CASE InitModules BY <1>2, <1>11 DEF InitModules, Building
  <1>12. CASE FreeOldZones
    <2>1. UNCHANGED <<cur, new, remain, fds, lost>> /\ pc = "freezones" /\ pc' = "closesocks" /\ at' = 1
      BY <1>12 DEF FreeOldZones
    <2>2. DOMAIN cur.listen \subseteq Nat \ {0} BY <1>1, CycleParts
    <2>3. OldSockets' = OldSockets /\ OldFiles' = OldFiles
      BY <2>1, <2>2 DEF OldSockets, OldFiles, Open
    <2>4. NewSockets' = NewSockets /\ NewFiles' = NewFiles BY <1>0, <2>1, SameNew DEF Building
    <2>5. FreeFds' = FreeFds BY <2>1, SameFree
    <2>6. NoMisuse'
      <3> DEFINE dead == {cur.zones[i].seg : i \in DeadZones}
      <3>1. dead \subseteq OldSegs BY <1>1, <2>1 DEF DeadZones, OldSegs, SegsOf, ZonesNamed
      <3>2. pulled' = (pulled \/ Withdrawn) /\ Misused("unmap", ~(dead \subseteq mapped))
        BY <1>12 DEF FreeOldZones
      <3>3. ~pulled => dead \subseteq mapped BY <1>1, <3>1 DEF SegsSound
      <3> HIDE DEF dead
      <3> QED BY <1>1, <3>2, <3>3 DEF NoMisuse, Misused
    <2> QED BY <1>1, <2>1, <2>3, <2>4, <2>5, <2>6 DEF OwnersApart, Apart
  <1>13. CASE CloseOldSocket
    <2>1. /\ UNCHANGED <<cur, new, remain, lost>> /\ pc = "closesocks" /\ pc' \in {"closesocks", "closefiles"}
          /\ cur.listen \in Seq(Listener) /\ at \in Nat \ {0}
      BY <1>1, <1>13, CycleParts DEF CloseOldSocket, TypeOK
    <2>2. NewSockets' = NewSockets /\ NewFiles' = NewFiles BY <1>0, <2>1, SameNew DEF Building
    <2>3. OldFiles' = OldFiles BY <2>1 DEF OldFiles
    <2>4. CASE at > Len(cur.listen)
      <3>1. pc' = "closefiles" /\ UNCHANGED <<at, fds, paths, pulled, misuse>>
        BY <1>13, <2>4 DEF CloseOldSocket
      <3>2. \A i \in DOMAIN cur.listen : ~(i >= at) BY <2>1, <2>4
      <3>3. OldSockets' = OldSockets BY <2>1, <3>1, <3>2 DEF OldSockets, Open
      <3>4. FreeFds' = FreeFds BY <3>1, SameFree
      <3> QED BY <1>1, <2>1, <2>2, <2>3, <3>1, <3>3, <3>4 DEF OwnersApart, Apart, NoMisuse
    <2>5. CASE at \in DOMAIN cur.listen
      <3> DEFINE l == cur.listen[at]
      <3>1. at' = at + 1 /\ pc' = "closesocks" BY <1>13, <2>1, <2>5 DEF CloseOldSocket
      <3>2. l.fd \in Fds BY <1>1, <2>5 DEF Settled
      <3>3. \A i \in DOMAIN cur.listen : i >= at <=> i = at \/ i >= at + 1 BY <2>1, <2>5
      <3>4. CASE Kept(at)
        <4>1. at \in remain BY <3>2, <3>4, CycleAssumption DEF Kept
        <4>2. OldSockets' = OldSockets BY <2>1, <3>1, <3>3, <4>1 DEF OldSockets, Open
        <4>3. UNCHANGED <<fds, pulled, misuse>> BY <1>13, <2>1, <2>5, <3>4 DEF CloseOldSocket
        <4>4. FreeFds' = FreeFds BY <4>3, SameFree
        <4> QED BY <1>1, <2>1, <2>2, <2>3, <4>2, <4>3, <4>4 DEF OwnersApart, Apart, NoMisuse
      <3>5. CASE ~Kept(at)
        <4>1. at \notin remain BY <3>5 DEF Kept
        <4>2. /\ fds' = [fds EXCEPT ![l.fd] = Closed]
              /\ Misused("close", fds[l.fd] = Closed) /\ pulled' = pulled
          BY <1>13, <2>1, <2>5, <3>5 DEF CloseOldSocket
        <4>3. l.fd \in OldSockets BY <2>1, <2>5 DEF OldSockets, Open
        <4>4. \A i \in DOMAIN cur.listen : cur.listen[i].fd = l.fd => i = at
          BY <1>1, <2>5, <3>2, CycleAssumption DEF Settled, Distinct
        <4>5. OldSockets' = OldSockets \ {l.fd}
          <5>1. \A i \in DOMAIN cur.listen : Open(i)' <=> Open(i) /\ i # at
            BY <2>1, <3>1, <3>3, <4>1 DEF Open
          <5> QED BY <2>1, <4>4, <5>1 DEF OldSockets
        <4>6. FreeFds' = FreeFds \cup {l.fd} BY <1>1, <3>2, <4>2 DEF FreeFds, TypeOK
        <4>7. NoMisuse'
          <5>1. l.fd \notin FreeFds BY <1>1, <4>3 DEF OwnersApart
          <5> QED BY <1>1, <3>2, <4>2, <5>1 DEF FreeFds, NoMisuse, Misused
        <4> HIDE DEF l
        <4> QED BY <1>1, <2>1, <2>2, <2>3, <3>2, <4>3, <4>5, <4>6, <4>7 DEF OwnersApart, Apart
      <3> QED BY <3>4, <3>5
    <2> QED BY <2>1, <2>4, <2>5
  <1>14. CASE CloseOldFiles
    <2>1. /\ UNCHANGED <<cur, new, remain, lost>> /\ pc = "closefiles" /\ pc' = "commit"
          /\ fds' = CloseAll(FdsOf(cur.files))
          /\ Misused("close", FdsOf(cur.files) \cap FreeFds # {}) /\ pulled' = pulled
      BY <1>14 DEF CloseOldFiles
    <2>2. NewSockets' = NewSockets /\ NewFiles' = NewFiles BY <1>0, <2>1, SameNew DEF Building
    <2>3. OldFiles = FdsOf(cur.files) /\ OldFiles' = {} BY <2>1 DEF OldFiles
    <2>4. OldSockets' = OldSockets BY <2>1 DEF OldSockets, Open
    <2>5. FreeFds' = FreeFds \cup OldFiles BY <1>1, <2>1, <2>3, FdsTyped, MoreFree
    <2>6. NoMisuse' BY <1>1, <2>1, <2>3 DEF NoMisuse, OwnersApart, Misused
    <2> QED BY <1>1, <2>1, <2>2, <2>3, <2>4, <2>5, <2>6 DEF OwnersApart, Apart
  <1>15. CASE Commit
    <2>1. /\ cur' = new /\ pc = "commit" /\ pc' = "idle" /\ UNCHANGED <<fds, lost, pulled, misuse>>
      BY <1>15 DEF Commit
    <2>2. NewSockets' = {} /\ NewFiles' = {} BY <2>1 DEF NewSockets, NewFiles, Building
    <2>3. OldFiles = {} /\ OldFiles' = NewFiles BY <1>0, <2>1 DEF OldFiles, NewFiles
    <2>4. FreeFds' = FreeFds BY <2>1, SameFree
    <2>5. OldSockets' = OldSockets \cup NewSockets
      <3>1. OldSockets' = {new.listen[i].fd : i \in DOMAIN new.listen}
        BY <2>1 DEF OldSockets, Open
      <3>2. OldSockets = {new.listen[n].fd : n \in {k \in DOMAIN new.listen : ~new.listen[k].open}}
        BY <1>1, <2>1, NewHeld DEF Growing, Matched, Releasing, TakenSockets, RemainingSockets
      <3>3. \A n \in DOMAIN new.listen : new.listen[n].fd \notin {NULL}
        BY <1>1, <2>1 DEF Growing, Releasing, AllSockets
      <3>4. NewSockets = {new.listen[i].fd : i \in {j \in DOMAIN new.listen : new.listen[j].open}}
        BY <1>0, <3>3 DEF NewSockets, OpenedSockets
      <3> QED BY <3>1, <3>2, <3>4
    <2> QED BY <1>1, <2>1, <2>2, <2>3, <2>4, <2>5 DEF OwnersApart, Apart, NoMisuse
  <1>16. CASE FailedReload
    <2> DEFINE dead == FdsOf(new.files) \cup OpenedSockets
    <2>1. /\ UNCHANGED <<cur, remain, lost>> /\ pc = "failed" /\ pc' = "idle"
          /\ fds' = CloseAll(dead) /\ Misused("close", dead \cap FreeFds # {}) /\ pulled' = pulled
      BY <1>16 DEF FailedReload, GivenUp
    <2>2. dead = NewFiles \cup NewSockets BY <1>0 DEF NewFiles, NewSockets
    <2>3. NewSockets' = {} /\ NewFiles' = {} BY <2>1 DEF NewSockets, NewFiles, Building
    <2>4. OldSockets' = OldSockets /\ OldFiles' = OldFiles BY <2>1, SameOld
    <2>5. dead \in SUBSET Fds BY <1>1, <2>2 DEF OwnersApart
    <2> HIDE DEF dead
    <2>6. FreeFds' = FreeFds \cup dead BY <2>1, <2>5, MoreFree
    <2>7. NoMisuse' BY <1>1, <2>1, <2>2 DEF NoMisuse, OwnersApart, Misused
    <2> QED BY <1>1, <2>1, <2>2, <2>3, <2>4, <2>6, <2>7 DEF OwnersApart, Apart
  <1> QED BY <1>3, <1>4, <1>5, <1>6, <1>7, <1>8, <1>9, <1>10, <1>11, <1>12, <1>13, <1>14, <1>15,
             <1>16 DEF ReloadStep

-----------------------------------------------------------------------------
(* The tables of the cycles.                                                *)

\* One more entry with a descriptor no other has.
LEMMA DistinctMore ==
    ASSUME NEW s, NEW t, Distinct(s), DOMAIN t = DOMAIN s, NEW i \in DOMAIN s, NEW fd,
           t[i].fd = fd, \A j \in DOMAIN s : j # i => t[j].fd = s[j].fd /\ s[j].fd # fd
    PROVE  Distinct(t)
  BY DEF Distinct

LEMMA MatchedSockets ==
    ASSUME cur \in Cycle, Settled, NEW m, MatchedBy(m), Distinct(new.listen),
           \A n \in DOMAIN new.listen : new.listen[n].fd = NULL /\ ~new.listen[n].open
    PROVE  Distinct(new'.listen) /\ TakenSockets' = {cur.listen[i].fd : i \in remain'}
  <1>1. ASSUME NEW n \in DOMAIN new.listen
        PROVE  /\ m[n] = 0 => new'.listen[n].fd = NULL /\ new'.listen[n].open
               /\ m[n] # 0 => /\ m[n] \in DOMAIN cur.listen
                              /\ new'.listen[n].fd = cur.listen[m[n]].fd /\ ~new'.listen[n].open
    <2> DEFINE o == cur.listen[m[n]]
               l == new.listen[n]
    <2>1. CASE m[n] = 0
      <3>1. new'.listen[n] = ToOpen(l) BY <2>1 DEF MatchedBy
      <3> QED BY <2>1, <3>1 DEF ToOpen
    <2>2. CASE m[n] # 0
      <3>1. new'.listen[n] = TakenOver(o, l) /\ m[n] \in DOMAIN cur.listen BY <2>2 DEF MatchedBy
      <3>2. TakenOver(o, l).open = l.open BY TakenOverParts
      <3>3. TakenOver(o, l).fd = o.fd BY TakenOverParts
      <3> QED BY <2>2, <3>1, <3>2, <3>3
    <2> QED BY <2>1, <2>2
  <1>2. /\ DOMAIN new'.listen = DOMAIN new.listen
        /\ remain' = {m[n] : n \in DOMAIN new.listen} \ {0}
        /\ \A i, n \in DOMAIN new.listen : m[i] = m[n] /\ m[i] # 0 => i = n
    BY DEF MatchedBy
  <1>3. Distinct(new'.listen)
    <2> SUFFICES ASSUME NEW i \in DOMAIN new.listen, NEW n \in DOMAIN new.listen,
                        new'.listen[i].fd = new'.listen[n].fd, new'.listen[i].fd \notin {NULL, 2}
                 PROVE  i = n
      BY <1>2 DEF Distinct
    <2>1. m[i] # 0 /\ m[n] # 0 BY <1>1
    <2>2. cur.listen[m[i]].fd = cur.listen[m[n]].fd /\ cur.listen[m[i]].fd \notin {NULL, 2}
      BY <1>1, <2>1
    <2>3. m[i] = m[n] BY <1>1, <2>1, <2>2 DEF Settled, Distinct
    <2> QED BY <1>2, <2>1, <2>3
  <1> QED BY <1>1, <1>2, <1>3 DEF TakenSockets

LEMMA SettledStep ==
    ASSUME IInv, ReloadStep, pc' # "exited" PROVE Settled'
  <1>1. cur' = cur \/ Commit
    BY DEF ReloadStep, CreatePidfile, DeletePidfile, OpenFile, SetUpZone, MatchListeners,
           OpenListener, EndTry, Configure, InitModules, FreeOldZones, CloseOldSocket,
           CloseOldFiles, FailedReload
  <1>2. CASE cur' = cur /\ pc # "exited" BY <1>2 DEF IInv, Settled
  <1>3. CASE Commit
    <2>1. cur' = new /\ pc = "commit" /\ Building BY <1>3 DEF Commit, Building
    <2>2. new \in Cycle /\ Growing BY <2>1, Cycles DEF IInv
    <2>3. \A n \in DOMAIN new.listen : new.listen[n].fd # NULL BY <2>1, <2>2 DEF Growing, Releasing, AllSockets
    <2>4. \A n \in DOMAIN new.files : new.files[n].fd # NULL BY <2>1, <2>2 DEF Growing, AllFiles
    <2>5. \A n \in DOMAIN new.listen : new.listen[n].fd \in Fds BY <2>2, <2>3, FdsTyped
    <2> QED BY <2>1, <2>2, <2>4, <2>5 DEF Settled, Growing
  <1>4. pc # "exited"
    BY DEF ReloadStep, CreatePidfile, DeletePidfile, OpenFile, SetUpZone, MatchListeners,
           OpenListener, EndTry, Configure, InitModules, FreeOldZones, CloseOldSocket,
           CloseOldFiles, Commit, FailedReload
  <1> QED BY <1>1, <1>2, <1>3, <1>4

LEMMA GrowingStep ==
    ASSUME IInv, ReloadStep, Building' PROVE Growing'
  <1>0. pc' \notin {"idle", "exited"} BY DEF Building
  <1>1. Building /\ cur' = cur BY <1>0, NewShape
  <1>2. /\ TypeOK /\ InStep /\ OwnersApart /\ Settled /\ Growing /\ ZonesNamed
        /\ cur \in Cycle /\ new \in Cycle
    BY <1>1, Cycles DEF IInv, Building
  <1>3. ASSUME new'.listen = new.listen
        PROVE  /\ Distinct(new'.listen) /\ TakenSockets' = TakenSockets
               /\ Untouched' = Untouched /\ AllSockets' = AllSockets
               /\ (Matched' => Matched) /\ remain' = remain => (Matched' => TakenSockets' = RemainingSockets')
    <2>1. remain' = remain => RemainingSockets' = RemainingSockets BY <1>1 DEF RemainingSockets
    <2>2. TakenSockets' = TakenSockets BY <1>3 DEF TakenSockets
    <2> QED BY <1>2, <1>3, <2>1, <2>2 DEF Growing, Untouched, AllSockets
  <1>4. ASSUME new'.files = new.files PROVE Distinct(new'.files) /\ AllFiles' = AllFiles
    BY <1>2, <1>4 DEF Growing, AllFiles
  <1>5. CASE CreatePidfile \/ DeletePidfile
    <2>1. /\ UNCHANGED <<new, remain>> /\ pc \in {"pid", "unpid"} /\ pc' \in {"unpid", "files", "failed"}
      BY <1>5 DEF CreatePidfile, DeletePidfile
    <2> QED BY <1>2, <1>3, <1>4, <2>1 DEF Growing, Matched, Releasing
  <1>6. CASE OpenFile
    <2>1. pc = "files" /\ remain' = remain BY <1>6 DEF OpenFile
    <2>2. CASE UNCHANGED <<new, fds>> /\ ((pc' = "zones" /\ Unopened = {}) \/ pc' = "failed")
      <3>1. pc' = "zones" => AllFiles BY <2>2 DEF Unopened, AllFiles
      <3> QED BY <1>2, <1>3, <1>4, <2>1, <2>2, <3>1 DEF Growing, Matched, Releasing
    <2>3. ASSUME NEW i, FileGot(i) PROVE Growing'
      <3>1. /\ new'.listen = new.listen /\ DOMAIN new'.files = DOMAIN new.files
            /\ i \in DOMAIN new.files /\ new'.files[i].fd = LowestFd
            /\ \A j \in DOMAIN new.files : j # i => new'.files[j].fd = new.files[j].fd
            /\ pc' \in {"files", "failed"} /\ FreeFds # {}
        BY <2>3 DEF FileGot
      <3>2. LowestFd \in FreeFds /\ LowestFd \notin {NULL, 2} BY <3>1, LowestFree, CycleAssumption
      <3>3. \A j \in DOMAIN new.files : new.files[j].fd # LowestFd
        BY <1>1, <1>2, <3>2 DEF OwnersApart, NewFiles, FdsOf
      <3>4. Distinct(new'.files) BY <1>2, <3>1, <3>3, DistinctMore DEF Growing
      <3> QED BY <1>2, <1>3, <2>1, <3>1, <3>4 DEF Growing, Matched, Releasing
    <2> QED BY <1>2, <1>6, <2>2, <2>3, FileOpening
  <1>7. CASE SetUpZone
    <2>1. pc = "zones" /\ pc' \in {"zones", "match", "failed"} /\ remain' = remain
      BY <1>7 DEF SetUpZone
    <2>2. new'.listen = new.listen /\ new'.files = new.files
      BY <1>2, <1>7, <2>1, ZoneSetting DEF ZoneGot
    <2> QED BY <1>2, <1>3, <1>4, <2>1, <2>2 DEF Growing, Matched, Releasing
  <1>8. CASE MatchListeners
    <2>1. pc = "match" /\ pc' = "open" /\ at' = 1 BY <1>8 DEF MatchListeners
    <2>2. PICK m : MatchedBy(m) BY <1>2, <1>8, Matching
    <2>3. Distinct(new'.listen) /\ TakenSockets' = RemainingSockets'
      BY <1>1, <1>2, <2>1, <2>2, MatchedSockets DEF Growing, Untouched, RemainingSockets
    <2>4. new'.files = new.files BY <2>2 DEF MatchedBy
    <2>5. SocketsUpTo(at)'
      <3>1. \A n \in DOMAIN new'.listen : ~(n < 1) BY <2>2, CycleParts DEF MatchedBy
      <3> QED BY <2>1, <3>1 DEF SocketsUpTo
    <2> QED BY <1>2, <1>4, <2>1, <2>3, <2>4, <2>5 DEF Growing, Releasing
  <1>9. CASE OpenListener
    <2>1. pc = "open" /\ pc' \in {"open", "failed"} /\ remain' = remain /\ at \in Nat \ {0}
      BY <1>2, <1>9 DEF OpenListener, TypeOK
    <2>2. \A n \in DOMAIN new.listen : n < at + 1 <=> n < at \/ n = at
      BY <1>2, <2>1, CycleParts
    <2>3. CASE UNCHANGED new
      <3>1. pc' = "open" /\ ~busy' => SocketsUpTo(at)'
        <4> SUFFICES ASSUME pc' = "open", ~busy' PROVE SocketsUpTo(at)'
          OBVIOUS
        <4>1. CASE Bound BY <2>3, <4>1, LowestFree, CycleAssumption DEF Bound, NewlyBound
        <4>2. CASE new.listen[at].fd # NULL /\ at' = at + 1 /\ UNCHANGED <<pc, busy>>
          BY <1>2, <2>1, <2>2, <2>3, <4>2 DEF Growing, SocketsUpTo
        <4> QED BY <1>2, <1>9, <2>1, <4>1, <4>2, Opening DEF PathLeft
      <3> QED BY <1>2, <1>3, <1>4, <2>1, <2>3, <3>1 DEF Growing, Matched, Releasing
    <2>4. CASE Bound
      <3>1. /\ DOMAIN new'.listen = DOMAIN new.listen /\ at \in DOMAIN new.listen
            /\ new'.listen[at].fd = LowestFd /\ new'.listen[at].open = new.listen[at].open
            /\ new.listen[at].fd = NULL
            /\ \A j \in DOMAIN new.listen : j # at => new'.listen[j] = new.listen[j]
            /\ FreeFds # {} /\ new'.files = new.files /\ at' = at + 1 /\ busy' = busy /\ pc' = "open"
        BY <2>1, <2>4 DEF Bound, NewlyBound
      <3>2. LowestFd \in FreeFds /\ LowestFd \in Fds /\ LowestFd \notin {NULL, 2}
        BY <3>1, LowestFree, CycleAssumption
      <3>3. new.listen[at].open /\ \A n \in DOMAIN new.listen : new.listen[n].fd # LowestFd
        BY <1>2, <2>1, <3>1, <3>2, NewHeld DEF OwnersApart, Matched
      <3>4. Distinct(new'.listen) BY <1>2, <3>1, <3>3, DistinctMore DEF Growing
      <3>5. TakenSockets' = TakenSockets
        <4>1. {k \in DOMAIN new'.listen : ~new'.listen[k].open} = {k \in DOMAIN new.listen : ~new.listen[k].open}
          BY <3>1, <3>3
        <4>2. \A n \in {k \in DOMAIN new.listen : ~new.listen[k].open} : new'.listen[n] = new.listen[n]
          BY <3>1, <3>3
        <4> QED BY <4>1, <4>2 DEF TakenSockets
      <3>6. RemainingSockets' = RemainingSockets BY <1>1, <2>1 DEF RemainingSockets
      <3>7. ~busy' => SocketsUpTo(at)'
        BY <1>2, <2>1, <2>2, <3>1, <3>2 DEF Growing, SocketsUpTo
      <3> QED BY <1>2, <1>4, <2>1, <3>1, <3>4, <3>5, <3>6, <3>7 DEF Growing, Matched, Releasing
    <2> QED BY <1>2, <1>9, <2>3, <2>4, Opening DEF PathLeft
  <1>10. CASE EndTry
    <2>1. /\ UNCHANGED <<new, remain>> /\ pc = "open" /\ pc' \in {"configure", "failed", "open"}
          /\ at > Len(new.listen) /\ (pc' = "configure" => ~busy) /\ at' = 1
      BY <1>10 DEF EndTry
    <2>2. \A n \in DOMAIN new.listen : n < at /\ ~(n < 1) BY <1>2, <2>1, CycleParts DEF TypeOK
    <2>3. pc' = "configure" => AllSockets BY <1>2, <2>1, <2>2 DEF Growing, SocketsUpTo, AllSockets
    <2>4. SocketsUpTo(at)' BY <2>1, <2>2 DEF SocketsUpTo
    <2> QED BY <1>2, <1>3, <1>4, <2>1, <2>3, <2>4 DEF Growing, Matched, Releasing
  <1>11. CASE Configure \/ InitModules
    <2>1. /\ UNCHANGED <<new, remain>> /\ pc \in {"configure", "modules"}
          /\ pc' \in {"modules", "freezones"}
      BY <1>0, <1>11 DEF Configure, InitModules
    <2> QED BY <1>2, <1>3, <1>4, <2>1 DEF Growing, Matched, Releasing
  <1>12. CASE FreeOldZones \/ CloseOldSocket \/ CloseOldFiles
    <2>1. /\ UNCHANGED <<new, remain>> /\ Releasing
          /\ pc' \in {"closesocks", "closefiles", "commit"}
      BY <1>12 DEF FreeOldZones, CloseOldSocket, CloseOldFiles, Releasing
    <2> QED BY <1>2, <1>3, <1>4, <2>1 DEF Growing, Matched, Releasing
  <1>13. CASE Commit \/ FailedReload BY <1>0, <1>13 DEF Commit, FailedReload, GivenUp
  <1> QED BY <1>5, <1>6, <1>7, <1>8, <1>9, <1>10, <1>11, <1>12, <1>13 DEF ReloadStep

-----------------------------------------------------------------------------
(* Segments.                                                                *)

\* A zone inherits from the one of its name, if that is of its kind.
LEMMA InheritsFrom ==
    ASSUME NEW S, NEW table \in Seq(S), Named(table), NEW z
    PROVE  /\ Inherits(z, table) <=>
                 ~z.noreuse /\ \E i \in DOMAIN table : table[i].name = z.name /\ table[i].kind = z.kind
           /\ \A i \in Namesake(z, table) : Namesake(z, table) = {i} /\ FirstOf(Namesake(z, table)) = i
  <1> DEFINE same == Namesake(z, table)
  <1>1. same \in SUBSET DOMAIN table BY DEF Namesake
  <1>2. ASSUME NEW i \in same PROVE same = {i} /\ FirstOf(same) = i
    <2>1. same = {i} BY DEF Namesake, Named
    <2>2. FirstOf(same) \in same
      <3> HIDE DEF same
      <3> QED BY <1>1, FirstPosition
    <2> QED BY <2>1, <2>2
  <1>3. Inherits(z, table) =>
           ~z.noreuse /\ \E i \in DOMAIN table : table[i].name = z.name /\ table[i].kind = z.kind
    <2> SUFFICES ASSUME Inherits(z, table)
                 PROVE  ~z.noreuse
                        /\ \E i \in DOMAIN table : table[i].name = z.name /\ table[i].kind = z.kind
      OBVIOUS
    <2>1. same # {} /\ table[FirstOf(same)].kind = z.kind /\ ~z.noreuse BY DEF Inherits
    <2>2. PICK i \in same : TRUE BY <2>1
    <2>3. FirstOf(same) = i BY <1>2
    <2>4. table[i].kind = z.kind BY <2>1, <2>3
    <2>5. i \in DOMAIN table /\ table[i].name = z.name BY DEF Namesake
    <2> QED BY <2>1, <2>4, <2>5
  <1>4. ASSUME ~z.noreuse, NEW i \in DOMAIN table, table[i].name = z.name, table[i].kind = z.kind
        PROVE  Inherits(z, table)
    <2>1. i \in same BY <1>4 DEF Namesake
    <2>2. FirstOf(same) = i BY <1>2, <2>1
    <2> QED BY <1>4, <2>1, <2>2 DEF Inherits
  <1> QED BY <1>2, <1>3, <1>4

\* What the old cycle gives up when the new one takes its place, and what it
\* forgets, unless a zone withdraws its noreuse.
LEMMA ZonesReleased ==
    ASSUME cur \in Cycle, new \in Cycle, Named(cur.zones), OneEach(cur.zones), Named(new.zones),
           \A i \in DOMAIN cur.zones : cur.zones[i].seg # NULL,
           \A i \in DOMAIN new.zones : new.zones[i].seg # NULL /\ Derived(new.zones[i]),
           ~Withdrawn
    PROVE  LET dead == {cur.zones[i].seg : i \in DeadZones}
               left == {cur.zones[i].seg : i \in Forgotten}
           IN  /\ dead \cap SegsOf(new.zones) = {} /\ dead \cap left = {}
               /\ left \cap SegsOf(new.zones) = {}
               /\ SegsOf(cur.zones) \ dead \subseteq SegsOf(new.zones) \cup left
               /\ dead \subseteq SegsOf(cur.zones) /\ left \subseteq SegsOf(cur.zones)
  <1> DEFINE dead == {cur.zones[i].seg : i \in DeadZones}
             left == {cur.zones[i].seg : i \in Forgotten}
             Same(i, j) == cur.zones[i].name = new.zones[j].name
                           /\ cur.zones[i].kind = new.zones[j].kind
  <1>1. cur.zones \in Seq(ShmZone) /\ new.zones \in Seq(ShmZone) BY CycleParts
  <1>2. ASSUME NEW i \in DOMAIN cur.zones, NEW j \in DOMAIN new.zones,
               new.zones[j].seg = cur.zones[i].seg
        PROVE  Same(i, j) /\ ~new.zones[j].noreuse
    <2>1. cur.zones[i].seg \in SegsOf(cur.zones) BY DEF SegsOf
    <2>2. Inherits(new.zones[j], cur.zones) BY <1>2, <2>1 DEF Derived
    <2>3. PICK k \in DOMAIN cur.zones :
             cur.zones[k].name = new.zones[j].name /\ cur.zones[k].kind = new.zones[j].kind
      BY <1>1, <2>2, InheritsFrom
    <2>4. k \in Namesake(new.zones[j], cur.zones) BY <2>3 DEF Namesake
    <2>5. new.zones[j].seg = cur.zones[k].seg BY <2>2, <2>4 DEF Derived
    <2>6. k = i BY <1>2, <2>5 DEF OneEach
    <2>7. ~new.zones[j].noreuse BY <1>1, <2>2, InheritsFrom
    <2> QED BY <2>3, <2>6, <2>7
  <1>3. ASSUME NEW i \in DOMAIN cur.zones, NEW j \in DOMAIN new.zones, Same(i, j)
        PROVE  /\ i \in Forgotten <=> ~cur.zones[i].noreuse /\ new.zones[j].noreuse
               /\ ~cur.zones[i].noreuse \/ new.zones[j].noreuse
               /\ Inherits(cur.zones[i], new.zones) <=> ~cur.zones[i].noreuse
               /\ ~new.zones[j].noreuse => new.zones[j].seg = cur.zones[i].seg
    <2>1. <<i, j>> \in Successors BY <1>3 DEF Successors
    <2>2. \A k \in DOMAIN new.zones : Same(i, k) => k = j BY <1>3 DEF Named
    <2>3. i \in Forgotten <=> ~cur.zones[i].noreuse /\ new.zones[j].noreuse
      <3>1. i \in Forgotten <=> \E k \in DOMAIN new.zones :
               Same(i, k) /\ ~cur.zones[i].noreuse /\ new.zones[k].noreuse
        <4>1. ASSUME NEW k \in DOMAIN new.zones, Same(i, k), ~cur.zones[i].noreuse,
                     new.zones[k].noreuse
              PROVE  i \in Forgotten
          <5>1. <<i, k>> \in Successors BY <4>1 DEF Successors
          <5> DEFINE q == <<i, k>>
          <5>2. q[1] = i /\ q[2] = k OBVIOUS
          <5> QED BY <4>1, <5>1, <5>2 DEF Forgotten
        <4>2. ASSUME i \in Forgotten
              PROVE  \E k \in DOMAIN new.zones :
                        Same(i, k) /\ ~cur.zones[i].noreuse /\ new.zones[k].noreuse
          <5>1. PICK p \in Successors :
                   i = p[1] /\ ~cur.zones[p[1]].noreuse /\ new.zones[p[2]].noreuse
            BY <4>2 DEF Forgotten
          <5>2. p[2] \in DOMAIN new.zones /\ Same(p[1], p[2]) BY <5>1 DEF Successors
          <5> QED BY <5>1, <5>2
        <4> QED BY <4>1, <4>2
      <3> QED BY <1>3, <2>2, <3>1
    <2>4. ~cur.zones[i].noreuse \/ new.zones[j].noreuse BY <2>1 DEF Withdrawn
    <2>5. Inherits(cur.zones[i], new.zones) <=> ~cur.zones[i].noreuse
      BY <1>1, <1>3, InheritsFrom
    <2>6. ASSUME ~new.zones[j].noreuse PROVE new.zones[j].seg = cur.zones[i].seg
      <3>1. Inherits(new.zones[j], cur.zones) BY <1>1, <1>3, <2>6, InheritsFrom
      <3>2. i \in Namesake(new.zones[j], cur.zones) BY <1>3 DEF Namesake
      <3> QED BY <3>1, <3>2 DEF Derived
    <2> QED BY <2>3, <2>4, <2>5, <2>6
  <1>4. \A i \in Forgotten : i \in DOMAIN cur.zones /\ \E j \in DOMAIN new.zones : Same(i, j)
    BY DEF Forgotten, Successors
  <1>5. ASSUME NEW i \in DOMAIN cur.zones, Inherits(cur.zones[i], new.zones)
        PROVE  cur.zones[i].seg \in SegsOf(new.zones) \cup left
    <2>1. PICK j \in DOMAIN new.zones : Same(i, j)
      BY <1>1, <1>5, InheritsFrom
    <2>2. i \in Forgotten \/ new.zones[j].seg = cur.zones[i].seg BY <1>3, <1>5, <2>1
    <2> QED BY <2>2 DEF SegsOf
  <1>6. dead \cap SegsOf(new.zones) = {} BY <1>2, <1>3 DEF DeadZones, SegsOf
  <1>7. left \cap SegsOf(new.zones) = {}
    <2> SUFFICES ASSUME NEW i \in Forgotten, NEW k \in DOMAIN new.zones,
                        new.zones[k].seg = cur.zones[i].seg
                 PROVE  FALSE
      BY DEF SegsOf
    <2>1. Same(i, k) /\ ~new.zones[k].noreuse BY <1>2, <1>4
    <2> QED BY <1>3, <1>4, <2>1
  <1>8. dead \cap left = {}
    <2>1. \A i \in Forgotten : i \in DOMAIN cur.zones /\ i \notin DeadZones
      BY <1>3, <1>4 DEF DeadZones
    <2>2. DeadZones \subseteq DOMAIN cur.zones BY DEF DeadZones
    <2> QED BY <2>1, <2>2 DEF OneEach
  <1>9. SegsOf(cur.zones) \ dead \subseteq SegsOf(new.zones) \cup left BY <1>5 DEF DeadZones, SegsOf
  <1>10. dead \subseteq SegsOf(cur.zones) /\ left \subseteq SegsOf(cur.zones)
    BY <1>4 DEF DeadZones, SegsOf
  <1> QED BY <1>6, <1>7, <1>8, <1>9, <1>10

\* The tables of zones keep their names and get their segments.
LEMMA ZonesNamedStep ==
    ASSUME IInv, ReloadStep, pc' # "exited" PROVE ZonesNamed'
  <1>0. Building
    BY DEF Building, ReloadStep, CreatePidfile, DeletePidfile, OpenFile, SetUpZone, MatchListeners,
           OpenListener, EndTry, Configure, InitModules, FreeOldZones, CloseOldSocket,
           CloseOldFiles, Commit, FailedReload
  <1>1. /\ TypeOK /\ InStep /\ ZonesNamed /\ cur \in Cycle /\ new \in Cycle
    BY <1>0, Cycles DEF IInv, Building
  <1>2. ASSUME cur' = cur, new'.zones = new.zones, Building',
               (pc \in {"pid", "unpid", "files"})' => pc \in {"pid", "unpid", "files"},
               (pc = "match" \/ Matched)' => pc = "match" \/ Matched
        PROVE  ZonesNamed'
    BY <1>0, <1>1, <1>2 DEF ZonesNamed
  <1>3. CASE CreatePidfile \/ DeletePidfile
    <2>1. UNCHANGED <<cur, new>> /\ pc \in {"pid", "unpid"} /\ pc' \in {"unpid", "files", "failed"}
      BY <1>3 DEF CreatePidfile, DeletePidfile
    <2> QED BY <1>2, <2>1 DEF Building, Matched, Releasing
  <1>4. CASE OpenFile
    <2>1. cur' = cur /\ pc = "files" /\ pc' \in {"files", "zones", "failed"}
      BY <1>4 DEF OpenFile
    <2>2. new'.zones = new.zones BY <1>1, <1>4, FileOpening DEF FileGot
    <2> QED BY <1>2, <2>1, <2>2 DEF Building, Matched, Releasing
  <1>5. CASE SetUpZone
    <2>1. cur' = cur /\ pc = "zones" BY <1>5 DEF SetUpZone
    <2>2. CASE UNCHANGED <<new, mapped>> /\ ((pc' = "match" /\ Unmapped = {}) \/ pc' = "failed")
      BY <1>0, <1>1, <2>1, <2>2 DEF ZonesNamed, Unmapped, Building, Matched, Releasing
    <2>3. ASSUME NEW i, NEW seg, ZoneGot(i, seg) PROVE ZonesNamed'
      <3>1. /\ DOMAIN new'.zones = DOMAIN new.zones /\ pc' \in {"zones", "failed"}
            /\ \A j \in DOMAIN new.zones : new'.zones[j].name = new.zones[j].name
        BY <2>3 DEF ZoneGot, Unmapped
      <3>2. Named(new'.zones) BY <1>0, <1>1, <3>1 DEF ZonesNamed, Named
      <3> QED BY <1>1, <2>1, <3>1, <3>2 DEF ZonesNamed, Matched, Releasing
    <2> QED BY <1>1, <1>5, <2>1, <2>2, <2>3, ZoneSetting
  <1>6. CASE MatchListeners \/ OpenListener
    <2>1. cur' = cur /\ pc \in {"match", "open"} /\ pc' \in {"open", "failed"}
      BY <1>6 DEF MatchListeners, OpenListener
    <2>2. new'.zones = new.zones BY <1>1, <1>6, Matching, Opening DEF MatchedBy, Bound, PathLeft
    <2> QED BY <1>2, <2>1, <2>2 DEF Building, Matched, Releasing
  <1>7. CASE EndTry \/ Configure \/ InitModules
    <2>1. /\ UNCHANGED <<cur, new>> /\ pc \in {"open", "configure", "modules"}
          /\ pc' \in {"open", "configure", "modules", "freezones", "failed"}
      BY <1>7 DEF EndTry, Configure, InitModules
    <2> QED BY <1>2, <2>1 DEF Building, Matched, Releasing
  <1>8. CASE FreeOldZones \/ CloseOldSocket \/ CloseOldFiles
    <2>1. /\ UNCHANGED <<cur, new>> /\ pc \in {"freezones", "closesocks", "closefiles"}
          /\ pc' \in {"closesocks", "closefiles", "commit"}
      BY <1>8 DEF FreeOldZones, CloseOldSocket, CloseOldFiles
    <2> QED BY <1>2, <2>1 DEF Building, Matched, Releasing
  <1>9. CASE Commit
    <2>1. cur' = new /\ pc = "commit" /\ pc' = "idle" BY <1>9 DEF Commit
    <2> QED BY <1>0, <1>1, <2>1 DEF ZonesNamed, Building, Matched, Releasing
  <1>10. CASE FailedReload
    <2>1. cur' = cur /\ pc' = "idle" BY <1>10 DEF FailedReload, GivenUp
    <2> QED BY <1>1, <2>1 DEF ZonesNamed, Building, Matched, Releasing
  <1> QED BY <1>3, <1>4, <1>5, <1>6, <1>7, <1>8, <1>9, <1>10 DEF ReloadStep

\* And the segments are as they should be, until a zone withdraws its noreuse.
LEMMA SegsStep ==
    ASSUME IInv, ReloadStep, pc' # "exited", ~pulled' PROVE SegsSound'
  <1>0. Building
    BY DEF Building, ReloadStep, CreatePidfile, DeletePidfile, OpenFile, SetUpZone, MatchListeners,
           OpenListener, EndTry, Configure, InitModules, FreeOldZones, CloseOldSocket,
           CloseOldFiles, Commit, FailedReload
  <1>00. ~pulled
    BY DEF ReloadStep, CreatePidfile, DeletePidfile, OpenFile, SetUpZone, MatchListeners,
           OpenListener, EndTry, Configure, InitModules, FreeOldZones, CloseOldSocket,
           CloseOldFiles, Commit, FailedReload, ghosts
  <1>1. /\ TypeOK /\ InStep /\ ZonesNamed /\ SegsSound /\ cur \in Cycle /\ new \in Cycle
    BY <1>0, <1>00, Cycles DEF IInv, Building
  <1>2. ASSUME UNCHANGED <<cur, mapped, stray>>, new'.zones = new.zones, Building', OldSegs' = OldSegs,
               (pc \in {"pid", "unpid", "files"})' => pc \in {"pid", "unpid", "files"},
               (pc = "match" \/ Matched)' => pc = "match" \/ Matched
        PROVE  SegsSound'
    <2>1. NewSegs' = NewSegs BY <1>0, <1>2 DEF NewSegs
    <2>2. \A i \in DOMAIN new.zones : Derived(new.zones[i])' <=> Derived(new.zones[i])
      BY <1>2 DEF Derived, Inherits, Namesake
    <2> QED BY <1>0, <1>1, <1>2, <2>1, <2>2 DEF ZonesNamed, SegsSound
  <1>3. CASE CreatePidfile \/ DeletePidfile
    <2>1. /\ UNCHANGED <<cur, new, mapped, stray>> /\ pc \in {"pid", "unpid"}
          /\ pc' \in {"unpid", "files", "failed"}
      BY <1>3 DEF CreatePidfile, DeletePidfile
    <2> QED BY <1>2, <2>1 DEF Building, OldSegs, Matched, Releasing
  <1>4. CASE OpenFile
    <2>1. UNCHANGED <<cur, mapped, stray>> /\ pc = "files" /\ pc' \in {"files", "zones", "failed"}
      BY <1>4 DEF OpenFile
    <2>2. new'.zones = new.zones BY <1>1, <1>4, FileOpening DEF FileGot
    <2> QED BY <1>2, <2>1, <2>2 DEF Building, OldSegs, Matched, Releasing
  <1>5. CASE SetUpZone
    <2>1. UNCHANGED <<cur, stray>> /\ pc = "zones" BY <1>5 DEF SetUpZone
    <2>2. CASE UNCHANGED <<new, mapped>> /\ ((pc' = "match" /\ Unmapped = {}) \/ pc' = "failed")
      <3>1. NewSegs' = NewSegs /\ OldSegs' = OldSegs /\ Building'
        BY <1>0, <2>1, <2>2 DEF NewSegs, OldSegs, Building
      <3>2. \A i \in DOMAIN new.zones : Derived(new.zones[i])' <=> Derived(new.zones[i])
        BY <2>1, <2>2 DEF Derived, Inherits, Namesake
      <3>3. pc' = "match" => \A i \in DOMAIN new.zones : new.zones[i].seg # NULL
        BY <2>2 DEF Unmapped
      <3> QED BY <1>0, <1>1, <2>1, <2>2, <3>1, <3>2, <3>3 DEF ZonesNamed, SegsSound, Matched, Releasing
    <2>3. ASSUME NEW i, NEW seg, ZoneGot(i, seg) PROVE SegsSound'
      <3> DEFINE z == new.zones[i]
      <3>1. /\ DOMAIN new'.zones = DOMAIN new.zones /\ i \in DOMAIN new.zones
            /\ new.zones[i].seg = NULL /\ seg # NULL
            /\ new'.zones[i].name = z.name /\ new'.zones[i].kind = z.kind
            /\ new'.zones[i].noreuse = z.noreuse /\ new'.zones[i].seg = seg
            /\ \A j \in DOMAIN new.zones : j # i => new'.zones[j] = new.zones[j]
            /\ pc' \in {"zones", "failed"}
        BY <2>3, CycleAssumption DEF ZoneGot, Unmapped
      <3>2. Building' /\ OldSegs' = OldSegs /\ OldSegs = SegsOf(cur.zones)
        BY <2>1, <3>1 DEF Building, OldSegs
      <3>3. NewSegs' = NewSegs \cup {seg}
        <4>1. SegsOf(new'.zones) = SegsOf(new.zones) \cup {seg} BY <3>1 DEF SegsOf
        <4> QED BY <1>0, <3>2, <4>1 DEF NewSegs
      <3>4. Named(new'.zones)
        <4>1. \A j \in DOMAIN new.zones : new'.zones[j].name = new.zones[j].name BY <3>1
        <4> QED BY <1>0, <1>1, <3>1, <4>1 DEF ZonesNamed, SegsSound, Named
      <3>5. ASSUME NEW j \in DOMAIN new.zones, j # i PROVE new.zones[j].seg # seg
        <4> SUFFICES ASSUME new.zones[j].seg = seg PROVE FALSE
          OBVIOUS
        <4>1. Derived(new.zones[j]) BY <1>0, <1>1 DEF ZonesNamed, SegsSound
        <4>2. seg \in NewSegs BY <1>0, <3>1 DEF NewSegs, SegsOf
        <4>3. Inherits(z, cur.zones) /\ \A k \in Namesake(z, cur.zones) : seg = cur.zones[k].seg
          BY <1>1, <2>3, <4>2 DEF ZoneGot, ZonesNamed, SegsSound
        <4>4. cur.zones \in Seq(ShmZone) /\ Named(cur.zones) BY <1>1, CycleParts DEF ZonesNamed, SegsSound
        <4>5. PICK k \in DOMAIN cur.zones : cur.zones[k].name = z.name /\ seg = cur.zones[k].seg
          <5>1. PICK k \in DOMAIN cur.zones : cur.zones[k].name = z.name BY <4>3, <4>4, InheritsFrom
          <5> QED BY <4>3, <5>1 DEF Namesake
        <4>6. seg \in SegsOf(cur.zones) BY <3>1, <4>5 DEF SegsOf
        <4>7. Inherits(new.zones[j], cur.zones)
              /\ \A l \in Namesake(new.zones[j], cur.zones) : seg = cur.zones[l].seg
          BY <3>1, <4>1, <4>6 DEF Derived
        <4>8. PICK l \in DOMAIN cur.zones : cur.zones[l].name = new.zones[j].name /\ seg = cur.zones[l].seg
          <5>1. PICK l \in DOMAIN cur.zones : cur.zones[l].name = new.zones[j].name
            BY <4>4, <4>7, InheritsFrom
          <5> QED BY <4>7, <5>1 DEF Namesake
        <4>9. k = l BY <1>1, <3>1, <4>5, <4>8 DEF ZonesNamed, SegsSound, OneEach
        <4> QED BY <1>0, <1>1, <3>1, <3>5, <4>5, <4>8, <4>9 DEF ZonesNamed, SegsSound, Named
      <3>6. OneEach(new'.zones)
        <4>1. \A j \in DOMAIN new.zones : j # i => new'.zones[j].seg = new.zones[j].seg BY <3>1
        <4> QED BY <1>0, <1>1, <3>1, <3>5, <4>1 DEF ZonesNamed, SegsSound, OneEach
      <3>7. ASSUME NEW j \in DOMAIN new.zones PROVE Derived(new.zones[j])'
        <4>1. CASE j # i
          <5>1. new'.zones[j] = new.zones[j] /\ Derived(new.zones[j]) BY <1>0, <1>1, <3>1, <4>1 DEF ZonesNamed, SegsSound
          <5> QED BY <2>1, <5>1 DEF Derived, Inherits, Namesake
        <4>2. CASE j = i
          <5>1. Namesake(new.zones[i], cur.zones)' = Namesake(z, cur.zones) BY <2>1, <3>1 DEF Namesake
          <5>2. Inherits(new.zones[i], cur.zones)' <=> Inherits(z, cur.zones)
            BY <2>1, <3>1, <5>1 DEF Inherits
          <5>3. ~Inherits(z, cur.zones) => seg \notin SegsOf(cur.zones)
            BY <1>1, <2>3, <3>2 DEF ZoneGot, ZonesNamed, SegsSound
          <5>4. Inherits(z, cur.zones) => \A k \in Namesake(z, cur.zones) : seg = cur.zones[k].seg
            BY <2>3 DEF ZoneGot
          <5>5. SegsOf(cur.zones)' = SegsOf(cur.zones) BY <2>1
          <5>6. Derived(new.zones[i])' BY <2>1, <3>1, <5>1, <5>2, <5>3, <5>4, <5>5 DEF Derived
          <5> QED BY <4>2, <5>6
        <4> QED BY <4>1, <4>2
      <3>8. mapped' = mapped \cup {seg} /\ seg \notin stray
        <4>1. CASE Inherits(z, cur.zones)
          <5>1. cur.zones \in Seq(ShmZone) /\ Named(cur.zones) BY <1>1, CycleParts DEF ZonesNamed, SegsSound
          <5>2. PICK k \in DOMAIN cur.zones : cur.zones[k].name = z.name BY <4>1, <5>1, InheritsFrom
          <5>3. mapped' = mapped /\ seg = cur.zones[k].seg BY <2>3, <4>1, <5>2 DEF ZoneGot, Namesake
          <5>4. seg \in OldSegs BY <3>1, <3>2, <5>3 DEF SegsOf
          <5> QED BY <1>1, <5>3, <5>4 DEF ZonesNamed, SegsSound
        <4>2. CASE ~Inherits(z, cur.zones) BY <1>1, <2>3, <4>2 DEF ZoneGot, ZonesNamed, SegsSound
        <4> QED BY <4>1, <4>2
      <3>9. mapped' = OldSegs' \cup NewSegs' \cup stray' /\ stray' \cap (OldSegs' \cup NewSegs') = {}
        BY <1>1, <2>1, <3>2, <3>3, <3>8 DEF ZonesNamed, SegsSound
      <3>10. Named(cur.zones) /\ OneEach(cur.zones) /\ \A k \in DOMAIN cur.zones : cur.zones[k].seg # NULL
        BY <1>1 DEF ZonesNamed, SegsSound
      <3>11. pc' \notin {"pid", "unpid", "files", "match"} /\ ~Matched'
        BY <3>1 DEF Matched, Releasing
      <3> HIDE DEF z
      <3> QED BY <2>1, <3>1, <3>4, <3>6, <3>7, <3>9, <3>10, <3>11 DEF ZonesNamed, SegsSound
    <2> QED BY <1>1, <1>5, <2>1, <2>2, <2>3, ZoneSetting
  <1>6. CASE MatchListeners \/ OpenListener
    <2>1. /\ UNCHANGED <<cur, mapped, stray>> /\ pc \in {"match", "open"} /\ pc' \in {"open", "failed"}
      BY <1>6 DEF MatchListeners, OpenListener
    <2>2. new'.zones = new.zones BY <1>1, <1>6, Matching, Opening DEF MatchedBy, Bound, PathLeft
    <2> QED BY <1>2, <2>1, <2>2 DEF Building, OldSegs, Matched, Releasing
  <1>7. CASE EndTry \/ Configure \/ InitModules
    <2>1. /\ UNCHANGED <<cur, new, mapped, stray>> /\ pc \in {"open", "configure", "modules"}
          /\ pc' \in {"open", "configure", "modules", "freezones", "failed"}
      BY <1>7 DEF EndTry, Configure, InitModules
    <2> QED BY <1>2, <2>1 DEF Building, OldSegs, Matched, Releasing
  <1>8. CASE FreeOldZones
    <2> DEFINE dead == {cur.zones[i].seg : i \in DeadZones}
               left == {cur.zones[i].seg : i \in Forgotten}
    <2>1. /\ UNCHANGED <<cur, new>> /\ pc = "freezones" /\ pc' = "closesocks"
          /\ mapped' = mapped \ dead /\ stray' = stray \cup left /\ ~Withdrawn
      BY <1>8 DEF FreeOldZones
    <2>2. OldSegs = SegsOf(cur.zones) /\ OldSegs' = {} /\ NewSegs = SegsOf(new.zones) /\ NewSegs' = NewSegs
          /\ Building' /\ Matched
      BY <1>0, <2>1 DEF OldSegs, NewSegs, Building, Matched, Releasing
    <2>3. /\ dead \cap SegsOf(new.zones) = {} /\ dead \cap left = {}
          /\ left \cap SegsOf(new.zones) = {}
          /\ SegsOf(cur.zones) \ dead \subseteq SegsOf(new.zones) \cup left
          /\ dead \subseteq SegsOf(cur.zones) /\ left \subseteq SegsOf(cur.zones)
      BY <1>0, <1>1, <2>1, <2>2, ZonesReleased DEF ZonesNamed, SegsSound
    <2> HIDE DEF dead, left
    <2>4. mapped' = OldSegs' \cup NewSegs' \cup stray' /\ stray' \cap (OldSegs' \cup NewSegs') = {}
      BY <1>1, <2>1, <2>2, <2>3 DEF ZonesNamed, SegsSound
    <2>5. \A i \in DOMAIN new.zones : Derived(new.zones[i])' <=> Derived(new.zones[i])
      BY <2>1 DEF Derived, Inherits, Namesake
    <2> QED BY <1>0, <1>1, <2>1, <2>2, <2>4, <2>5 DEF ZonesNamed, SegsSound
  <1>9. CASE CloseOldSocket \/ CloseOldFiles
    <2>1. /\ UNCHANGED <<cur, new, mapped, stray>> /\ pc \in {"closesocks", "closefiles"}
          /\ pc' \in {"closesocks", "closefiles", "commit"}
      BY <1>9 DEF CloseOldSocket, CloseOldFiles
    <2> QED BY <1>2, <2>1 DEF Building, OldSegs, Matched, Releasing
  <1>10. CASE Commit
    <2>1. cur' = new /\ UNCHANGED <<mapped, stray>> /\ pc = "commit" /\ pc' = "idle"
      BY <1>10 DEF Commit
    <2>2. OldSegs = {} /\ NewSegs' = {} /\ OldSegs' = NewSegs
      BY <1>0, <2>1 DEF OldSegs, NewSegs, Building
    <2>3. Matched BY <2>1 DEF Matched, Releasing
    <2> QED BY <1>0, <1>1, <2>1, <2>2, <2>3 DEF ZonesNamed, SegsSound, Building, Matched, Releasing
  <1>11. CASE FailedReload
    <2>1. /\ cur' = cur /\ mapped' = mapped /\ pc = "failed" /\ pc' = "idle"
          /\ stray' = stray \cup (SegsOf(new.zones) \ SegsOf(cur.zones))
      BY <1>11 DEF FailedReload, GivenUp
    <2>2. NewSegs' = {} /\ OldSegs' = OldSegs /\ OldSegs = SegsOf(cur.zones) /\ NewSegs = SegsOf(new.zones)
      BY <1>0, <2>1 DEF OldSegs, NewSegs, Building
    <2> QED BY <1>1, <2>1, <2>2 DEF ZonesNamed, SegsSound, Building, Matched, Releasing
  <1> QED BY <1>3, <1>4, <1>5, <1>6, <1>7, <1>8, <1>9, <1>10, <1>11 DEF ReloadStep

-----------------------------------------------------------------------------
(* The invariant.                                                           *)

LEMMA InvInit == ASSUME Init PROVE IInv
  <1>1. TypeOK /\ InStep /\ NoMisuse BY TypeInit
  <1>2. PICK table \in Inherited :
          /\ cur = InitCycle(table)
          /\ fds = [fd \in Fds |->
                      IF fd - 2 \in DOMAIN table
                      THEN Socket(table[fd - 2].addr, table[fd - 2].backlog, FALSE)
                      ELSE Closed]
    BY DEF Init
  <1>3. pc = "idle" /\ remain = {} /\ mapped = {} /\ lost = {} /\ stray = {} BY DEF Init
  <1>4. /\ cur.files = <<>> /\ cur.zones = <<>> /\ DOMAIN cur.listen = DOMAIN table
        /\ \A i \in DOMAIN table : cur.listen[i].fd = i + 2
    BY <1>2 DEF InitCycle
  <1>5. DOMAIN table \subseteq Nat /\ \A i \in DOMAIN table : i + 2 \in Fds
    <2>1. table \in Seq([addr : Addrs, ignore : BOOLEAN, backlog : Nat]) BY CycleAssumption
    <2>2. DOMAIN table = 1..Len(table) /\ Len(table) \in Nat
      <3> DEFINE T == [addr : Addrs, ignore : BOOLEAN, backlog : Nat]
      <3>1. table \in Seq(T) BY <2>1
      <3> HIDE DEF T
      <3> QED BY <3>1
    <2> QED BY <2>2, CycleAssumption
  <1>6. OwnersApart
    <2>1. OldSockets = {i + 2 : i \in DOMAIN table} BY <1>3, <1>4 DEF OldSockets, Open
    <2>2. OldFiles = {} /\ NewSockets = {} /\ NewFiles = {}
      BY <1>3, <1>4 DEF OldFiles, NewSockets, NewFiles, FdsOf, Building
    <2>3. ASSUME NEW fd \in Fds PROVE fd \notin FreeFds <=> fd \in OldSockets
      <3>1. fd \in Nat /\ fd > 2 BY CycleAssumption
      <3>2. fd \in OldSockets <=> fd - 2 \in DOMAIN table BY <1>5, <2>1, <3>1
      <3>3. fd - 2 \in DOMAIN table <=> fds[fd] # Closed BY <1>2 DEF Socket, Closed
      <3> QED BY <3>2, <3>3 DEF FreeFds
    <2>4. OldSockets \subseteq Fds BY <1>5, <2>1
    <2> QED BY <1>3, <2>2, <2>3, <2>4 DEF OwnersApart, Apart
  <1>7. Settled BY <1>4, <1>5 DEF Settled, Distinct
  <1>8. ZonesNamed /\ SegsSound
    BY <1>3, <1>4 DEF ZonesNamed, SegsSound, Named, OneEach, OldSegs, NewSegs, SegsOf, Building, Matched, Releasing
  <1>9. ~Building BY <1>3 DEF Building
  <1> QED BY <1>1, <1>6, <1>7, <1>8, <1>9 DEF IInv

LEMMA BeginStep == ASSUME IInv, NEW c \in Confs, Begin(c), TypeOK', InStep' PROVE IInv'
  <1>1. /\ OwnersApart /\ Settled /\ ZonesNamed /\ NoMisuse
        /\ ~pulled => SegsSound
        /\ pc = "idle" /\ pc' = "pid"
        /\ UNCHANGED <<cur, remain, at, busy, fds, mapped, lost, stray, pulled, misuse>>
    BY DEF Begin, IInv, ghosts
  <1>2. /\ new' \in Cycle /\ Named(new'.zones)
        /\ \A i \in DOMAIN new'.listen : new'.listen[i].fd = NULL /\ ~new'.listen[i].open
        /\ \A i \in DOMAIN new'.files : new'.files[i].fd \in {NULL, 2}
        /\ \A i \in DOMAIN new'.zones : new'.zones[i].seg = NULL
    BY BuiltType DEF Begin
  <1>3. OwnersApart'
    <2>1. OldSockets' = OldSockets /\ OldFiles' = OldFiles BY <1>1, SameOld
    <2>2. NewSockets = {} /\ NewFiles = {} BY <1>1 DEF NewSockets, NewFiles, Building
    <2>3. NewSockets' = {} BY <1>2 DEF NewSockets, OpenedSockets
    <2>4. NewFiles' = {} BY <1>2 DEF NewFiles, FdsOf
    <2>5. FreeFds' = FreeFds BY <1>1, SameFree
    <2> QED BY <1>1, <2>1, <2>2, <2>3, <2>4, <2>5 DEF OwnersApart, Apart
  <1>4. Settled' BY <1>1 DEF Settled
  <1>5. ZonesNamed' /\ (~pulled' => SegsSound')
    <2>1. NewSegs = {} /\ NewSegs' = {} /\ OldSegs' = OldSegs
      BY <1>1, <1>2 DEF NewSegs, OldSegs, SegsOf, Building
    <2>2. ZonesNamed' BY <1>1, <1>2 DEF ZonesNamed, Building, Matched, Releasing
    <2>3. ~pulled' => SegsSound' BY <1>1, <1>2, <2>1 DEF SegsSound, OneEach, Derived
    <2> QED BY <2>2, <2>3
  <1>6. Growing'
    BY <1>1, <1>2 DEF Growing, Distinct, Untouched, Matched, Releasing
  <1>7. NoMisuse' BY <1>1 DEF NoMisuse
  <1> QED BY <1>3, <1>4, <1>5, <1>6, <1>7 DEF IInv

LEMMA InvStep == ASSUME IInv, [Next]_vars PROVE IInv'
  <1>1. TypeOK' /\ InStep' BY TypeStep, InStepStep
  <1>2. CASE \E c \in Confs : Begin(c) BY <1>1, <1>2, BeginStep
  <1>3. CASE ReloadStep
    <2>1. CASE pc' = "exited"
      <3>1. NoMisuse'
        <4>1. CASE FailedReload
          <5>1. /\ Building /\ OwnersApart /\ NoMisuse
            BY <4>1 DEF FailedReload, Building, IInv
          <5>2. FdsOf(new.files) = NewFiles /\ OpenedSockets = NewSockets BY <5>1 DEF NewFiles, NewSockets
          <5> QED BY <4>1, <5>1, <5>2 DEF FailedReload, OwnersApart, NoMisuse, Misused
        <4>2. CASE ~FailedReload
          <5>1. InitModules \/ Commit
            BY <1>3, <2>1, <4>2 DEF ReloadStep, CreatePidfile, DeletePidfile, OpenFile, SetUpZone,
               MatchListeners, OpenListener, EndTry, Configure, FreeOldZones, CloseOldSocket,
               CloseOldFiles
          <5>2. UNCHANGED <<pulled, misuse>> BY <5>1 DEF InitModules, Commit, ghosts
          <5> QED BY <5>2 DEF IInv, NoMisuse
        <4> QED BY <4>1, <4>2
      <3> QED BY <1>1, <2>1, <3>1 DEF IInv, Building
    <2>2. CASE pc' # "exited"
      <3>1. OwnersApart' /\ NoMisuse' /\ Settled' /\ ZonesNamed' /\ (~pulled' => SegsSound')
        BY <1>1, <1>3, <2>2, OwnersStep, SettledStep, ZonesNamedStep, SegsStep
      <3>2. Building' => Growing' BY <1>3, GrowingStep
      <3> QED BY <1>1, <3>1, <3>2 DEF IInv
    <2> QED BY <2>1, <2>2
  <1>4. CASE /\ UNCHANGED <<cur, new, remain, opening, fds, mapped, pidfiles, reloads, ghosts>>
             /\ pc' = pc \/ (pc = "idle" /\ pc' = "exited")
    <2>1. NoMisuse' BY <1>4 DEF IInv, NoMisuse, ghosts
    <2>2. CASE pc' = "exited" BY <1>1, <2>1, <2>2 DEF IInv, Building
    <2>3. CASE pc' = pc /\ pc' # "exited"
      <3>1. OwnersApart'
        <4>1. FreeFds' = FreeFds BY <1>4, SameFree
        <4>2. OldSockets' = OldSockets /\ OldFiles' = OldFiles /\ NewSockets' = NewSockets /\ NewFiles' = NewFiles
          BY <1>4, <2>3 DEF OldSockets, OldFiles, NewSockets, NewFiles, Open, OpenedSockets, Building
        <4> QED BY <1>4, <2>3, <4>1, <4>2 DEF IInv, OwnersApart, Apart
      <3>2. Settled' BY <1>4, <2>3 DEF IInv, Settled
      <3>3. ZonesNamed' /\ (~pulled' => SegsSound')
        <4>1. NewSegs' = NewSegs /\ OldSegs' = OldSegs /\ (Building' <=> Building) /\ (Matched' <=> Matched)
          BY <1>4, <2>3 DEF NewSegs, OldSegs, Building, Matched, Releasing
        <4>2. ASSUME NEW i PROVE Derived(new.zones[i])' <=> Derived(new.zones[i])
          BY <1>4 DEF Derived, Inherits, Namesake
        <4>3. ZonesNamed' BY <1>4, <2>3, <4>1 DEF IInv, ZonesNamed
        <4>4. ~pulled' => SegsSound' BY <1>4, <2>3, <4>1, <4>2 DEF IInv, SegsSound, ghosts
        <4> QED BY <4>3, <4>4
      <3>4. Building' => Growing'
        <4>1. /\ Untouched' = Untouched /\ TakenSockets' = TakenSockets
              /\ RemainingSockets' = RemainingSockets /\ SocketsUpTo(at)' = SocketsUpTo(at)
              /\ AllSockets' = AllSockets /\ AllFiles' = AllFiles
          BY <1>4 DEF Untouched, TakenSockets, RemainingSockets, SocketsUpTo, AllSockets, AllFiles
        <4>2. (Building' <=> Building) /\ (Matched' <=> Matched) /\ (Releasing' <=> Releasing)
          BY <2>3 DEF Building, Matched, Releasing
        <4> QED BY <1>4, <2>3, <4>1, <4>2 DEF IInv, Growing
      <3> QED BY <1>1, <2>1, <3>1, <3>2, <3>3, <3>4 DEF IInv
    <2> QED BY <1>4, <2>2, <2>3
  <1> QED BY <1>2, <1>3, <1>4, Steps

THEOREM Invariance == Spec => []IInv
  <1>1. Init => IInv BY InvInit
  <1>2. IInv /\ [Next]_vars => IInv' BY InvStep
  <1> QED BY <1>1, <1>2, PTL DEF Spec

\* hky_init_cycle leaves every variable of its declared shape, whatever fails.
THEOREM TypeCorrect == Spec => []TypeOK
  <1>1. IInv => TypeOK BY DEF IInv
  <1> QED BY <1>1, Invariance, PTL

\* Nothing that is closed is closed again, by the label "failed" or by the
\* release of the old cycle (HkyCycle!NoMisuse).
THEOREM NoMisuseAlways == Spec => []NoMisuse
  <1>1. IInv => NoMisuse BY DEF IInv
  <1> QED BY <1>1, Invariance, PTL

\* However the last reloads ended, the process holds the descriptors of its
\* cycle, each by one owner, and those hky_create_pidfile left open.
THEOREM FdsAlwaysOwned == Spec => []FdsOwned
  <1>1. ASSUME IInv PROVE FdsOwned
    <2>1. TypeOK BY <1>1 DEF IInv
    <2> SUFFICES ASSUME pc = "idle"
                 PROVE  LET held == FdsOf(cur.listen) \cup FdsOf(cur.files)
                        IN  /\ Fds \ FreeFds = held \cup lost
                            /\ held \cap lost = {} /\ FdsOf(cur.listen) \cap FdsOf(cur.files) = {}
      BY <2>1 DEF FdsOwned
    <2>2. OwnersApart /\ Settled BY <1>1 DEF IInv
    <2>3. OldFiles = FdsOf(cur.files) /\ NewSockets = {} /\ NewFiles = {}
      BY DEF OldFiles, NewSockets, NewFiles, Building
    <2>4. OldSockets = FdsOf(cur.listen)
      <3>1. OldSockets = {cur.listen[i].fd : i \in DOMAIN cur.listen} BY DEF OldSockets, Open
      <3>2. \A i \in DOMAIN cur.listen : cur.listen[i].fd \notin {NULL, 2}
        BY <2>2, CycleAssumption DEF Settled
      <3> QED BY <3>1, <3>2 DEF FdsOf
    <2> QED BY <2>2, <2>3, <2>4 DEF OwnersApart, Apart
  <1>2. IInv => FdsOwned BY <1>1
  <1> QED BY <1>2, Invariance, PTL

\* Between reloads each zone has a segment of its own, and all that is mapped
\* besides is what failed reloads, and zones that began to ask for noreuse,
\* forgot; whatever the noreuse of a zone and of the one it takes over from, as
\* long as none has stopped asking for it (HkyCycle!ZonesMapped).
THEOREM ZonesAlwaysMapped == Spec => []ZonesMapped
  <1>1. ASSUME IInv PROVE ZonesMapped
    <2> SUFFICES ASSUME pc = "idle", ~pulled PROVE ZonesMapped
      BY DEF ZonesMapped
    <2>1. ZonesNamed /\ SegsSound BY <1>1 DEF IInv
    <2>2. NewSegs = {} /\ OldSegs = SegsOf(cur.zones) BY DEF NewSegs, OldSegs, Building
    <2> QED BY <2>1, <2>2 DEF ZonesNamed, SegsSound, ZonesMapped, OneEach
  <1>2. IInv => ZonesMapped BY <1>1
  <1> QED BY <1>2, Invariance, PTL

-----------------------------------------------------------------------------
(* Action properties.                                                       *)

\* hky_clean_old_cycles and the queueing of Commit keep every retired cycle
\* that has a connection.
THEOREM LiveAlwaysKept == Spec => LiveKept
  <1> DEFINE Keeps == \A i \in DOMAIN old :
                        old[i] # NULL /\ old[i].conns > 0 => i \in DOMAIN old' /\ old'[i] # NULL
  <1>1. ASSUME IInv, [Next]_vars PROVE [Keeps]_vars
    <2> SUFFICES ASSUME NEW i \in DOMAIN old, old[i] # NULL, old[i].conns > 0
                 PROVE  i \in DOMAIN old' /\ old'[i] # NULL
      OBVIOUS
    <2>1. old \in Seq(RetiredCycle \cup {NULL}) /\ old[i] \in RetiredCycle BY <1>1 DEF IInv, TypeOK
    <2>2. CASE old' = old BY <2>2
    <2>3. CASE Commit
      <3> DEFINE r == [id |-> reloads, conns |-> conns]
      <3>1. old' = old \/ old' = Append(old, r) BY <2>3 DEF Commit
      <3> HIDE DEF r
      <3> QED BY <2>1, <3>1
    <2>4. CASE CleanOldCycles
      <3>1. i \in LiveOld BY DEF LiveOld
      <3>2. old' = Cleaned BY <2>4, <3>1 DEF CleanOldCycles
      <3> QED BY <3>1, <3>2 DEF Cleaned
    <2>5. ASSUME NEW k \in DOMAIN old, CloseOldConn(k) PROVE i \in DOMAIN old' /\ old'[i] # NULL
      <3> DEFINE o == old[k]
                 v == [o EXCEPT !.conns = @ - 1]
      <3>1. old' = [old EXCEPT ![k] = v] BY <2>5 DEF CloseOldConn
      <3>2. o \in RetiredCycle /\ o.conns > 0 BY <2>1, <2>5 DEF CloseOldConn
      <3>3. v \in RetiredCycle
        <4> HIDE DEF o
        <4> QED BY <3>2, CycleAssumption DEF RetiredCycle
      <3> HIDE DEF v
      <3> QED BY <2>1, <3>1, <3>3, CycleAssumption
    <2>6. old' = old \/ Commit \/ CleanOldCycles \/ \E k \in DOMAIN old : CloseOldConn(k)
      <3>1. CASE UNCHANGED vars BY <3>1 DEF vars
      <3>2. CASE ReloadStep
        BY <3>2 DEF ReloadStep, CreatePidfile, DeletePidfile, OpenFile, SetUpZone, MatchListeners,
           OpenListener, EndTry, Configure, InitModules, FreeOldZones, CloseOldSocket,
           CloseOldFiles, FailedReload
      <3>3. CASE \/ \E c \in Confs : Begin(c)
                 \/ RejectConf \/ Accept \/ CloseConn
                 \/ \E a \in Addrs : OthersBind(a) \/ OthersLeave(a)
        BY <3>3 DEF Begin, RejectConf, Accept, CloseConn, OthersBind, OthersLeave
      <3> QED BY <1>1, <3>1, <3>2, <3>3 DEF Next
    <2> QED BY <2>2, <2>3, <2>4, <2>5, <2>6
  <1> QED BY <1>1, Invariance, PTL DEF Spec, LiveKept

\* A reload that changes the name writes the new pid file before it deletes
\* the old one.
THEOREM PidfileAlwaysStays == Spec => PidfileStays
  <1>1. ASSUME IInv, [Next]_vars PROVE [pidfiles # {} => pidfiles' # {}]_vars
    <2>1. CASE DeletePidfile
      BY <1>1, <2>1 DEF IInv, InStep, DeletePidfile, Building
    <2>2. CASE CreatePidfile BY <2>2 DEF CreatePidfile
    <2>3. CASE ReloadStep /\ ~DeletePidfile /\ ~CreatePidfile
      BY <2>3 DEF ReloadStep, OpenFile, SetUpZone, MatchListeners,
           OpenListener, EndTry, Configure, InitModules, FreeOldZones, CloseOldSocket,
           CloseOldFiles, Commit, FailedReload
    <2>4. CASE \E c \in Confs : Begin(c) BY <2>4 DEF Begin
    <2> QED BY <1>1, <2>1, <2>2, <2>3, <2>4, Steps
  <1> QED BY <1>1, Invariance, PTL DEF Spec, PidfileStays

-----------------------------------------------------------------------------
(* Each descriptor is what the cycles take it for.                          *)

LEMMA NamesKept ==
    ASSUME NamesApart, PathsThere,
           \A f \in Fds : fds'[f].kind = "socket" =>
              /\ fds[f].kind = "socket" /\ fds'[f].name = fds[f].name
              /\ fds[f].name \in paths => fds[f].name \in paths'
    PROVE  NamesApart' /\ PathsThere'
  BY DEF NamesApart, PathsThere

LEMMA OldBoundKept ==
    ASSUME OldBound, cur' = cur, Relistened => Relistened',
           \A i \in DOMAIN cur.listen : Open(i)' =>
              Open(i) /\ fds'[cur.listen[i].fd] = fds[cur.listen[i].fd]
    PROVE  OldBound'
  BY DEF OldBound, IsSocket, Backlogged

LEMMA NewBoundKept ==
    ASSUME NewBound, new'.listen = new.listen, Unlistened => Unlistened',
           \A n \in DOMAIN new.listen : new.listen[n].fd # NULL =>
              fds'[new.listen[n].fd] = fds[new.listen[n].fd]
    PROVE  NewBound'
  BY DEF NewBound, IsSocket, Backlogged

LEMMA FilesKept ==
    /\ OldFilesRight /\ cur' = cur
         /\ (\A i \in DOMAIN cur.files : cur.files[i].fd # 2 => fds'[cur.files[i].fd] = fds[cur.files[i].fd])
       => OldFilesRight'
    /\ NewFilesRight /\ new'.files = new.files
         /\ (\A i \in DOMAIN new.files :
                new.files[i].fd \notin {NULL, 2} => fds'[new.files[i].fd] = fds[new.files[i].fd])
       => NewFilesRight'
  BY DEF OldFilesRight, NewFilesRight, IsFile

\* Where the descriptors of the tables are.
LEMMA Holders ==
    ASSUME IInv, pc # "exited"
    PROVE  /\ \A i \in DOMAIN cur.listen : Open(i) => cur.listen[i].fd \in OldSockets
           /\ \A i \in DOMAIN cur.listen : cur.listen[i].fd \in Fds
           /\ pc # "commit" => \A i \in DOMAIN cur.files :
                 cur.files[i].fd # 2 => cur.files[i].fd \in OldFiles
           /\ Building => \A n \in DOMAIN new.files :
                 new.files[n].fd \notin {NULL, 2} => new.files[n].fd \in NewFiles
           /\ Building /\ pc # "failed" => \A n \in DOMAIN new.listen :
                 new.listen[n].fd # NULL => new.listen[n].fd \in RemainingSockets \cup NewSockets
           /\ Matched => RemainingSockets \subseteq OldSockets
           /\ OwnersApart
           /\ OldSockets \cup OldFiles \cup NewSockets \cup NewFiles \cup lost \subseteq Fds
           /\ FreeFds \subseteq Fds
           /\ (OldSockets \cup OldFiles \cup NewSockets \cup NewFiles \cup lost) \cap FreeFds = {}
  <1>1. TypeOK /\ InStep /\ OwnersApart /\ Settled /\ (Building => Growing) BY DEF IInv
  <1>2. \A i \in DOMAIN cur.listen : Open(i) => cur.listen[i].fd \in OldSockets BY DEF OldSockets
  <1>3. pc # "commit" => \A i \in DOMAIN cur.files : cur.files[i].fd # 2 => cur.files[i].fd \in OldFiles
    BY <1>1 DEF OldFiles, FdsOf, Settled
  <1>4. Building => \A n \in DOMAIN new.files :
          new.files[n].fd \notin {NULL, 2} => new.files[n].fd \in NewFiles
    BY DEF NewFiles, FdsOf
  <1>5. Building /\ pc # "failed" => \A n \in DOMAIN new.listen :
          new.listen[n].fd # NULL => new.listen[n].fd \in RemainingSockets \cup NewSockets
    <2> SUFFICES ASSUME Building, pc # "failed", NEW n \in DOMAIN new.listen, new.listen[n].fd # NULL
                 PROVE  new.listen[n].fd \in RemainingSockets \cup NewSockets
      OBVIOUS
    <2>1. Matched
      <3>1. pc \notin {"pid", "unpid", "files", "zones", "match"} BY <1>1 DEF Growing, Untouched
      <3> QED BY <1>1, <3>1 DEF Building, Matched, Releasing, TypeOK
    <2>2. CASE new.listen[n].open BY <2>2 DEF NewSockets, OpenedSockets
    <2>3. CASE ~new.listen[n].open BY <1>1, <2>1, <2>3 DEF Growing, TakenSockets
    <2> QED BY <2>2, <2>3
  <1>6. Matched => RemainingSockets \subseteq OldSockets BY NewHeld DEF RemainingSockets
  <1>7. FreeFds \subseteq Fds BY DEF FreeFds
  <1>8. \A i \in DOMAIN cur.listen : cur.listen[i].fd \in Fds BY <1>1 DEF Settled
  <1> QED BY <1>1, <1>2, <1>3, <1>4, <1>5, <1>6, <1>7, <1>8 DEF OwnersApart

LEMMA BoundInit == ASSUME Init PROVE NInv
  <1>1. IInv BY InvInit
  <1>2. PICK table \in Inherited :
          /\ cur = InitCycle(table)
          /\ fds = [fd \in Fds |->
                      IF fd - 2 \in DOMAIN table
                      THEN Socket(table[fd - 2].addr, table[fd - 2].backlog, FALSE)
                      ELSE Closed]
          /\ paths = {a \in AddrsOf(table) : Family[a] = "unix"}
    BY DEF Init
  <1>3. pc = "idle" /\ lost = {} BY DEF Init
  <1>4. /\ cur.files = <<>> /\ DOMAIN cur.listen = DOMAIN table
        /\ \A i \in DOMAIN table : cur.listen[i].fd = i + 2 /\ cur.listen[i].addr = table[i].addr
    BY <1>2 DEF InitCycle
  <1>5. /\ \A i \in DOMAIN table : i \in Nat /\ i + 2 \in Fds /\ table[i].addr \in Addrs
        /\ \A i, j \in DOMAIN table : table[i].addr = table[j].addr => i = j
    <2> DEFINE T == [addr : Addrs, ignore : BOOLEAN, backlog : Nat]
    <2>1. table \in Seq(T) BY CycleAssumption
    <2>2. \A i \in DOMAIN table : i \in Nat /\ table[i] \in T
      <3> HIDE DEF T
      <3> QED BY <2>1
    <2> QED BY <2>2, CycleAssumption
  <1>6. \A i \in DOMAIN table : fds[i + 2] = Socket(table[i].addr, table[i].backlog, FALSE)
    <2> SUFFICES ASSUME NEW i \in DOMAIN table PROVE fds[i + 2] = Socket(table[i].addr, table[i].backlog, FALSE)
      OBVIOUS
    <2>1. i + 2 \in Fds /\ (i + 2) - 2 = i BY <1>5
    <2> QED BY <1>2, <2>1
  <1>7. \A f \in Fds : fds[f].kind = "socket" =>
           f \in Nat /\ f - 2 \in DOMAIN table /\ fds[f].name = table[f - 2].addr
    BY <1>2, CycleAssumption DEF Socket, Closed
  <1>8. NamesApart
    <2> SUFFICES ASSUME NEW f \in Fds, NEW g \in Fds, fds[f].kind = "socket", fds[g].kind = "socket",
                        fds[f].name = fds[g].name
                 PROVE  f = g
      BY DEF NamesApart
    <2>1. f \in Nat /\ g \in Nat /\ f - 2 = g - 2 BY <1>5, <1>7
    <2> QED BY <2>1
  <1>9. PathsThere BY <1>2, <1>7 DEF PathsThere, AddrsOf
  <1>10. OldBound
    <2> SUFFICES ASSUME NEW i \in DOMAIN table
                 PROVE  IsSocket(cur.listen[i]) /\ Backlogged(cur.listen[i])
      BY <1>4 DEF OldBound
    <2>1. fds[cur.listen[i].fd] = Socket(table[i].addr, table[i].backlog, FALSE) BY <1>4, <1>6
    <2>2. cur.listen[i].addr = table[i].addr BY <1>4
    <2> QED BY <2>1, <2>2 DEF IsSocket, Backlogged, Socket
  <1>11. FilesThere /\ OldFilesRight
    BY <1>3, <1>4 DEF FilesThere, OldFilesRight, OldFiles, NewFiles, FdsOf, Building
  <1> QED BY <1>3, <1>8, <1>9, <1>10, <1>11 DEF NInv, BoundRight, Building

LEMMA BoundFrame ==
    ASSUME BoundRight, UNCHANGED <<cur, fds, lost>>, paths \subseteq paths', Building, Building',
           new'.listen = new.listen, new'.files = new.files, pc # "commit",
           Relistened => Relistened', Unlistened => Unlistened',
           \A i \in DOMAIN cur.listen : Open(i)' => Open(i)
    PROVE  BoundRight'
  <1>1. NamesApart' /\ PathsThere' BY NamesKept DEF BoundRight
  <1>2. OldBound' BY OldBoundKept DEF BoundRight
  <1>3. NewBound' BY NewBoundKept DEF BoundRight
  <1>4. OldFilesRight' /\ NewFilesRight' BY FilesKept DEF BoundRight
  <1>5. OldFiles' \subseteq OldFiles /\ NewFiles' = NewFiles BY DEF OldFiles, NewFiles
  <1>6. FilesThere' BY <1>5 DEF FilesThere, BoundRight
  <1> QED BY <1>1, <1>2, <1>3, <1>4, <1>6 DEF BoundRight

\* A file is opened on a free descriptor.
LEMMA BoundFile ==
    ASSUME IInv, BoundRight, FreeFds # {}, NEW name, fds' = [fds EXCEPT ![LowestFd] = File(name)],
           pc \in {"pid", "files"}, pc' \in {"files", "failed"}, cur' = cur, paths' = paths,
           new'.listen = new.listen
    PROVE  /\ NamesApart' /\ PathsThere' /\ OldBound' /\ NewBound' /\ OldFilesRight'
           /\ \A f \in OldFiles' \cup NewFiles \cup lost : fds'[f].kind = "file"
           /\ fds'[LowestFd] = File(name) /\ File(name).kind = "file"
           /\ \A f \in NewFiles : fds'[f] = fds[f]
  <1>1. Building /\ pc # "exited" /\ pc # "commit" /\ TypeOK BY DEF Building, IInv
  <1>2. LowestFd \in FreeFds /\ LowestFd \in Fds BY LowestFree
  <1>3. /\ \A f \in Fds : f # LowestFd => fds'[f] = fds[f]
        /\ fds'[LowestFd] = File(name)
    BY <1>1, <1>2 DEF TypeOK
  <1>4. /\ OldSockets \cup OldFiles \cup NewFiles \cup lost \subseteq Fds
        /\ (OldSockets \cup OldFiles \cup NewFiles \cup lost) \cap FreeFds = {}
    BY <1>1, Holders
  <1>5. \A f \in OldSockets \cup OldFiles \cup NewFiles \cup lost : fds'[f] = fds[f]
    BY <1>2, <1>3, <1>4
  <1>6. NamesApart' /\ PathsThere'
    <2>1. File(name).kind = "file" BY DEF File
    <2> QED BY <1>3, <2>1, NamesKept DEF BoundRight
  <1>7. OldBound'
    <2>1. \A i \in DOMAIN cur.listen : Open(i)' => Open(i) /\ fds'[cur.listen[i].fd] = fds[cur.listen[i].fd]
      BY <1>1, <1>5, Holders DEF Open
    <2> QED BY <2>1, OldBoundKept DEF BoundRight, Relistened, Releasing
  <1>8. NewBound'
    <2>1. Untouched BY <1>1 DEF IInv, Growing
    <2> QED BY <2>1 DEF NewBound, Untouched
  <1>9. OldFilesRight' BY <1>1, <1>5, Holders, FilesKept DEF BoundRight
  <1>10. OldFiles' = OldFiles BY <1>1 DEF OldFiles
  <1>11. \A f \in OldFiles' \cup NewFiles \cup lost : fds'[f].kind = "file"
    BY <1>5, <1>10 DEF BoundRight, FilesThere
  <1>12. File(name).kind = "file" BY DEF File
  <1> QED BY <1>3, <1>5, <1>6, <1>7, <1>8, <1>9, <1>11, <1>12

\* A listener takes over the socket of one with its own address.
LEMMA SameAddress ==
    ASSUME NoInet6, NEW l \in Listener, NEW n \in Listener, SameListener(l, n)
    PROVE  l.addr = n.addr
  <1>1. n.addr \in Addrs BY DEF Listener
  <1>2. CmpSockaddr(n.addr, l.addr) BY DEF SameListener
  <1> QED BY <1>1, <1>2 DEF CmpSockaddr, NoInet6

LEMMA BoundMatch ==
    ASSUME NoInet6, IInv, BoundRight, MatchListeners PROVE BoundRight'
  <1>1. /\ pc = "match" /\ pc' = "open" /\ UNCHANGED <<cur, fds, paths, lost>>
        /\ Building /\ Building' /\ pc # "exited"
    BY DEF MatchListeners, Building
  <1>2. TypeOK /\ InStep /\ Untouched /\ cur \in Cycle /\ new \in Cycle
    BY <1>1, Cycles DEF IInv, Growing
  <1>3. PICK m : MatchedBy(m) BY <1>2, Matching
  <1>4. NamesApart' /\ PathsThere' BY <1>1, NamesKept DEF BoundRight
  <1>5. OldBound' BY <1>1, OldBoundKept DEF BoundRight, Open, Relistened, Releasing
  <1>6. OldFilesRight' /\ NewFilesRight' BY <1>1, <1>3, FilesKept DEF BoundRight, MatchedBy
  <1>7. FilesThere'
    <2>1. OldFiles' = OldFiles /\ NewFiles' = NewFiles BY <1>1, <1>3 DEF OldFiles, NewFiles, MatchedBy
    <2> QED BY <1>1, <2>1 DEF BoundRight, FilesThere
  <1>8. NewBound'
    <2> SUFFICES ASSUME NEW n \in DOMAIN new'.listen, new'.listen[n].fd # NULL
                 PROVE  /\ IsSocket(new.listen[n])'
                        /\ ~new'.listen[n].listen => Backlogged(new.listen[n])'
      BY <1>1 DEF NewBound, Unlistened
    <2> DEFINE l == new.listen[n]
               o == cur.listen[m[n]]
    <2>1. n \in DOMAIN new.listen /\ l.fd = NULL BY <1>2, <1>3 DEF MatchedBy, Untouched
    <2>2. m[n] # 0
      <3> SUFFICES ASSUME m[n] = 0 PROVE FALSE
        OBVIOUS
      <3>1. new'.listen[n] = ToOpen(l) BY <1>3, <2>1 DEF MatchedBy
      <3> QED BY <2>1, <3>1 DEF ToOpen
    <2>3. /\ m[n] \in DOMAIN cur.listen /\ new'.listen[n] = TakenOver(o, l) /\ SameListener(o, l)
      BY <1>3, <2>1, <2>2 DEF MatchedBy
    <2>4. o \in Listener /\ l \in Listener BY <1>2, <2>1, <2>3, CycleParts
    <2>5. o.addr = l.addr
      <3> HIDE DEF o, l
      <3> QED BY <2>3, <2>4, SameAddress
    <2>6. IsSocket(o) /\ Backlogged(o)
      BY <1>1, <2>3 DEF BoundRight, OldBound, Open, Relistened, Releasing
    <2>7. /\ new'.listen[n].addr = l.addr /\ new'.listen[n].backlog = l.backlog
          /\ new'.listen[n].fd = o.fd
      <3> HIDE DEF o, l
      <3> QED BY <2>3, TakenOverParts
    <2>8. ~new'.listen[n].listen => o.backlog = l.backlog
      <3>1. TakenOver(o, l).listen = (o.backlog # l.backlog) BY TakenOverParts
      <3> QED BY <2>3, <3>1
    <2> HIDE DEF o, l
    <2>9. IsSocket(new.listen[n])' BY <1>1, <2>5, <2>6, <2>7 DEF IsSocket
    <2>10. ~new'.listen[n].listen => Backlogged(new.listen[n])'
      <3> DEFINE same == o.backlog = l.backlog
      <3>1. same => Backlogged(new.listen[n])' BY <1>1, <2>5, <2>6, <2>7 DEF Backlogged
      <3> QED BY <2>8, <3>1
    <2> QED BY <2>9, <2>10
  <1> QED BY <1>1, <1>4, <1>5, <1>6, <1>7, <1>8 DEF BoundRight

LEMMA BoundOpen ==
    ASSUME IInv, BoundRight, Bound, UNCHANGED <<cur, remain, lost>>, pc = "open"
    PROVE  BoundRight'
  <1> DEFINE l == new.listen[at]
             d == Socket(l.addr, l.backlog, TRUE)
  <1>1. Building /\ Building' /\ Matched /\ pc # "exited" /\ pc' = "open" /\ TypeOK
    BY DEF Bound, Building, Matched, IInv
  <1>2. LowestFd \in FreeFds /\ LowestFd \in Fds BY LowestFree DEF Bound
  <1>3. /\ \A f \in Fds : f # LowestFd => fds'[f] = fds[f]
        /\ fds'[LowestFd] = d
    BY <1>1, <1>2 DEF TypeOK, Bound
  <1>4. d.kind = "socket" /\ d.name = l.addr /\ d.backlog = l.backlog BY DEF Socket
  <1>5. /\ \A f \in Fds : fds[f].kind = "socket" => fds[f].name # l.addr
        /\ paths \subseteq paths' /\ (Family[l.addr] = "unix" => l.addr \in paths')
    BY DEF Bound, InUse
  <1>6. \A f \in OldSockets \cup OldFiles \cup NewSockets \cup NewFiles \cup lost : fds'[f] = fds[f]
    <2>1. /\ OldSockets \cup OldFiles \cup NewSockets \cup NewFiles \cup lost \subseteq Fds
          /\ (OldSockets \cup OldFiles \cup NewSockets \cup NewFiles \cup lost) \cap FreeFds = {}
      BY <1>1, Holders
    <2> QED BY <1>2, <1>3, <2>1
  <1>7. NamesApart' /\ PathsThere'
    <2> HIDE DEF l, d
    <2>1. NamesApart /\ PathsThere BY DEF BoundRight
    <2>2. NamesApart' BY <1>3, <1>4, <1>5, <2>1 DEF NamesApart
    <2>3. PathsThere' BY <1>3, <1>4, <1>5, <2>1 DEF PathsThere
    <2> QED BY <2>2, <2>3
  <1>8. OldBound'
    <2>1. \A i \in DOMAIN cur.listen : Open(i)' => Open(i) /\ fds'[cur.listen[i].fd] = fds[cur.listen[i].fd]
      BY <1>1, <1>6, Holders DEF Open
    <2> QED BY <1>1, <2>1, OldBoundKept DEF BoundRight, Relistened, Releasing
  <1>9. OldFilesRight' /\ NewFilesRight'
    BY <1>1, <1>6, Holders, FilesKept DEF BoundRight, Bound
  <1>10. FilesThere'
    <2>1. OldFiles' = OldFiles /\ NewFiles' = NewFiles BY <1>1 DEF OldFiles, NewFiles, Bound
    <2> QED BY <1>6, <2>1 DEF BoundRight, FilesThere
  <1>11. NewBound'
    <2> SUFFICES ASSUME NEW n \in DOMAIN new.listen, new'.listen[n].fd # NULL
                 PROVE  /\ IsSocket(new.listen[n])'
                        /\ ~new'.listen[n].listen => Backlogged(new.listen[n])'
      BY <1>1 DEF NewBound, Unlistened, Bound
    <2>1. CASE n = at
      <3>1. new'.listen[n] = NewlyBound(l, LowestFd) BY <2>1 DEF Bound
      <3>2. /\ new'.listen[n].addr = l.addr /\ new'.listen[n].backlog = l.backlog
            /\ new'.listen[n].fd = LowestFd
        <4> DEFINE b == l.addr \notin Dgram
        <4>1. NewlyBound(l, LowestFd) = [addr |-> l.addr, backlog |-> l.backlog, fd |-> LowestFd,
                 open |-> l.open, listen |-> b, ignore |-> l.ignore]
          BY DEF NewlyBound
        <4> HIDE DEF b, l
        <4> QED BY <3>1, <4>1
      <3> HIDE DEF l, d
      <3> QED BY <1>3, <1>4, <3>2 DEF IsSocket, Backlogged
    <2>2. CASE n # at
      <3>1. new'.listen[n] = new.listen[n] BY <2>2 DEF Bound
      <3>2. new.listen[n].fd \in OldSockets \cup NewSockets BY <1>1, <3>1, Holders
      <3>3. fds'[new.listen[n].fd] = fds[new.listen[n].fd] BY <1>6, <3>2
      <3>4. IsSocket(new.listen[n]) /\ (~new.listen[n].listen => Backlogged(new.listen[n]))
        BY <1>1, <3>1 DEF BoundRight, NewBound
      <3> QED BY <3>1, <3>3, <3>4 DEF IsSocket, Backlogged
    <2> QED BY <2>1, <2>2
  <1> QED BY <1>1, <1>7, <1>8, <1>9, <1>10, <1>11 DEF BoundRight

\* After the second listen() every socket has the backlog of the new cycle,
\* unless it is one that was not told.
LEMMA BoundConfigure ==
    ASSUME IInv, BoundRight, Configure PROVE BoundRight'
  <1>1. /\ pc = "configure" /\ pc' = "modules" /\ UNCHANGED <<cur, new, remain, paths, lost>>
        /\ Building /\ Building' /\ Matched /\ pc # "exited"
    BY DEF Configure, Building, Matched
  <1>2. TypeOK /\ InStep /\ Growing /\ new \in Cycle BY <1>1, Cycles DEF IInv
  <1>3. PICK refused : fds' = Relisted(refused) BY ConfigureKeeps
  <1>4. \A fd \in Fds :
           /\ fds'[fd].kind = fds[fd].kind /\ fds'[fd].name = fds[fd].name
           /\ Renewed(fd) = {} => fds'[fd] = fds[fd]
           /\ Renewed(fd) # {} /\ fds'[fd].told =>
                 /\ LastOf(Renewed(fd)) \in Renewed(fd)
                 /\ fds'[fd].backlog = new.listen[LastOf(Renewed(fd))].backlog
    BY <1>2, <1>3, ConfigureKeeps, RelistedType DEF TypeOK
  <1>5. \A fd \in OldFiles \cup NewFiles \cup lost : fd \in Fds /\ fds'[fd] = fds[fd]
    <2> SUFFICES ASSUME NEW fd \in OldFiles \cup NewFiles \cup lost
                 PROVE  fd \in Fds /\ Renewed(fd) = {}
      BY <1>4
    <2>1. fd \in Fds /\ fd \notin OldSockets \cup NewSockets
      BY <1>1, Holders DEF OwnersApart, Apart
    <2>2. \A n \in DOMAIN new.listen : new.listen[n].fd # fd
      BY <1>1, <2>1, Holders, CycleAssumption
    <2> QED BY <2>1, <2>2 DEF Renewed
  <1>6. NamesApart' /\ PathsThere' BY <1>1, <1>4, NamesKept DEF BoundRight
  <1>7. OldBound'
    <2>1. Relistened' BY <1>1 DEF Relistened
    <2>2. \A i \in DOMAIN cur.listen : cur.listen[i].fd \in Fds BY <1>1, Holders
    <2>3. \A i \in DOMAIN cur.listen : Open(i) /\ IsSocket(cur.listen[i])
      BY <1>1 DEF BoundRight, OldBound, Open
    <2> QED BY <1>1, <1>4, <2>1, <2>2, <2>3 DEF OldBound, IsSocket
  <1>8. OldFilesRight' /\ NewFilesRight'
    BY <1>1, <1>5, Holders, FilesKept DEF BoundRight
  <1>9. FilesThere'
    <2>1. OldFiles' = OldFiles /\ NewFiles' = NewFiles BY <1>1 DEF OldFiles, NewFiles
    <2> QED BY <1>1, <1>5, <2>1 DEF BoundRight, FilesThere
  <1>10. NewBound'
    <2> SUFFICES ASSUME NEW n \in DOMAIN new.listen, new.listen[n].fd # NULL
                 PROVE  IsSocket(new.listen[n])' /\ Backlogged(new.listen[n])'
      BY <1>1 DEF NewBound
    <2> DEFINE l == new.listen[n]
               fd == l.fd
    <2>1. fd \in Fds BY <1>1, Holders
    <2>2. IsSocket(l) /\ (~l.listen => Backlogged(l)) BY <1>1 DEF BoundRight, NewBound
    <2>3. IsSocket(new.listen[n])' BY <1>1, <1>4, <2>1, <2>2 DEF IsSocket
    <2>4. Backlogged(new.listen[n])'
      <3>1. \A k \in Renewed(fd) : k = n
        <4> SUFFICES ASSUME NEW k \in DOMAIN new.listen, new.listen[k].fd = fd PROVE k = n
          BY DEF Renewed
        <4>1. fd \notin {NULL, 2} BY <2>1, CycleAssumption
        <4> QED BY <1>2, <4>1 DEF Growing, Distinct
      <3>2. CASE Renewed(fd) = {}
        <4>1. ~l.listen BY <3>2 DEF Renewed
        <4>2. fds'[fd] = fds[fd] BY <1>4, <2>1, <3>2
        <4> QED BY <1>1, <2>2, <4>1, <4>2 DEF Backlogged
      <3>3. CASE Renewed(fd) # {}
        <4>1. ASSUME fds'[fd].told PROVE fds'[fd].backlog = l.backlog
          <5>1. LastOf(Renewed(fd)) = n BY <1>4, <2>1, <3>1, <3>3, <4>1
          <5> QED BY <1>4, <2>1, <3>3, <4>1, <5>1
        <4> QED BY <1>1, <4>1 DEF Backlogged
      <3> QED BY <3>2, <3>3
    <2> QED BY <2>3, <2>4
  <1> QED BY <1>1, <1>6, <1>7, <1>8, <1>9, <1>10 DEF BoundRight

\* Descriptors are closed, those the cycles keep are not.
LEMMA BoundClosing ==
    ASSUME IInv, BoundRight, NEW gone \in SUBSET Fds, UNCHANGED <<cur, lost>>,
           \A f \in Fds : fds'[f] = IF f \in gone THEN Closed ELSE fds[f],
           \A f \in Fds \ gone :
              fds[f].kind = "socket" /\ Family[fds[f].name] = "unix" => fds[f].name \in paths',
           pc # "exited", Relistened => Relistened',
           gone \cap (OldFiles' \cup NewFiles' \cup lost) = {}, OldFiles' \subseteq OldFiles,
           NewFiles' \subseteq NewFiles,
           \A i \in DOMAIN cur.listen : Open(i)' => Open(i) /\ cur.listen[i].fd \notin gone
    PROVE  NamesApart' /\ PathsThere' /\ OldBound' /\ FilesThere'
  <1>1. Closed.kind = "closed" BY DEF Closed
  <1>2. NamesApart' BY <1>1 DEF BoundRight, NamesApart
  <1>3. PathsThere' BY <1>1 DEF PathsThere
  <1>4. OldBound'
    <2>1. \A i \in DOMAIN cur.listen : Open(i)' => Open(i) /\ fds'[cur.listen[i].fd] = fds[cur.listen[i].fd]
      BY Holders
    <2> QED BY <2>1, OldBoundKept DEF BoundRight
  <1>5. FilesThere'
    <2>1. OldFiles' \cup NewFiles' \cup lost \subseteq Fds BY Holders
    <2> QED BY <2>1 DEF BoundRight, FilesThere
  <1> QED BY <1>2, <1>3, <1>4, <1>5

LEMMA BoundCloseSocket ==
    ASSUME IInv, BoundRight, CloseOldSocket PROVE BoundRight'
  <1>1. /\ pc = "closesocks" /\ pc' \in {"closesocks", "closefiles"}
        /\ UNCHANGED <<cur, new, remain, lost>>
        /\ Building /\ Building' /\ Matched /\ Releasing /\ Releasing' /\ pc # "exited"
    BY DEF CloseOldSocket, Building, Matched, Releasing
  <1>2. /\ TypeOK /\ InStep /\ Settled /\ cur \in Cycle /\ cur.listen \in Seq(Listener)
        /\ at \in Nat \ {0}
    BY <1>1, Cycles, CycleParts DEF IInv, TypeOK
  <1>3. OldFiles' = OldFiles /\ NewFiles' = NewFiles BY <1>1 DEF OldFiles, NewFiles
  <1>4. CASE at > Len(cur.listen)
    <2>1. pc' = "closefiles" /\ UNCHANGED <<at, fds, paths>> BY <1>4 DEF CloseOldSocket
    <2>2. \A i \in DOMAIN cur.listen : ~(i >= at) BY <1>2, <1>4
    <2>3. \A i \in DOMAIN cur.listen : Open(i)' => Open(i) BY <1>1, <2>1, <2>2 DEF Open
    <2> QED BY <1>1, <2>1, <2>3, BoundFrame DEF Relistened, Unlistened
  <1>5. CASE at \in DOMAIN cur.listen
    <2> DEFINE l == cur.listen[at]
    <2>1. at' = at + 1 /\ pc' = "closesocks" BY <1>1, <1>2, <1>5 DEF CloseOldSocket
    <2>2. l.fd \in Fds BY <1>2, <1>5 DEF Settled
    <2>3. \A i \in DOMAIN cur.listen : i >= at <=> i = at \/ i >= at + 1 BY <1>2, <1>5
    <2>4. \A i \in DOMAIN cur.listen : Open(i)' => Open(i) BY <1>1, <2>1, <2>3 DEF Open
    <2>5. CASE Kept(at)
      <3>1. UNCHANGED <<fds, paths>> BY <1>1, <1>2, <1>5, <2>5 DEF CloseOldSocket
      <3> QED BY <1>1, <2>1, <2>4, <3>1, BoundFrame DEF Relistened, Unlistened
    <2>6. CASE ~Kept(at)
      <3>1. at \notin remain BY <2>6 DEF Kept
      <3>2. /\ fds' = [fds EXCEPT ![l.fd] = Closed]
            /\ paths' = IF Family[l.addr] = "unix" THEN paths \ {l.addr} ELSE paths
        BY <1>1, <1>2, <1>5, <2>6 DEF CloseOldSocket
      <3>3. \A i \in DOMAIN cur.listen : cur.listen[i].fd = l.fd => i = at
        BY <1>2, <1>5, <2>2, CycleAssumption DEF Settled, Distinct
      <3>4. Open(at) /\ l.fd \in OldSockets BY <1>1, <1>2, <1>5, Holders DEF Open
      <3>5. \A i \in DOMAIN cur.listen : Open(i)' => cur.listen[i].fd # l.fd
        BY <1>1, <2>1, <3>1, <3>3, <2>3, <1>2 DEF Open
      <3>6. l.fd \notin OldFiles \cup NewFiles \cup lost \cup NewSockets
        BY <1>1, <3>4, Holders DEF OwnersApart, Apart
      <3>7. \A f \in Fds : fds'[f] = IF f \in {l.fd} THEN Closed ELSE fds[f]
        BY <1>2, <2>2, <3>2 DEF TypeOK
      <3>8. IsSocket(l) BY <1>5, <3>4 DEF BoundRight, OldBound
      <3>9. \A f \in Fds \ {l.fd} :
              fds[f].kind = "socket" /\ Family[fds[f].name] = "unix" => fds[f].name \in paths'
        BY <2>2, <3>2, <3>8 DEF BoundRight, NamesApart, PathsThere, IsSocket
      <3>10. l.fd \notin RemainingSockets
        BY <1>2, <3>1, <3>3 DEF RemainingSockets, TypeOK
      <3>11. \A n \in DOMAIN new.listen : new.listen[n].fd # NULL => /\ new.listen[n].fd \in Fds
                                                                 /\ new.listen[n].fd # l.fd
        BY <1>1, <3>6, <3>10, Holders
      <3> DEFINE gone == {l.fd}
      <3>12. gone \in SUBSET Fds BY <2>2
      <3>13. gone \cap (OldFiles' \cup NewFiles' \cup lost) = {} BY <1>3, <3>6
      <3>14. \A i \in DOMAIN cur.listen : Open(i)' => Open(i) /\ cur.listen[i].fd \notin gone
        BY <2>4, <3>5
      <3>15. NamesApart' /\ PathsThere' /\ OldBound' /\ FilesThere'
        <4> HIDE DEF l
        <4>1. \A f \in Fds : fds'[f] = IF f \in gone THEN Closed ELSE fds[f] BY <3>7
        <4>2. \A f \in Fds \ gone :
                fds[f].kind = "socket" /\ Family[fds[f].name] = "unix" => fds[f].name \in paths'
          BY <3>9
        <4> HIDE DEF gone
        <4> QED BY <1>1, <1>3, <3>12, <3>13, <3>14, <4>1, <4>2, BoundClosing DEF Relistened
      <3>16. NewBound'
        <4> HIDE DEF l
        <4>1. \A n \in DOMAIN new.listen : new.listen[n].fd # NULL =>
                fds'[new.listen[n].fd] = fds[new.listen[n].fd]
          BY <3>7, <3>11
        <4> QED BY <1>1, <4>1, NewBoundKept DEF BoundRight, Unlistened, Releasing
      <3>17. OldFilesRight' /\ NewFilesRight'
        <4> HIDE DEF l
        <4>1. \A f \in OldFiles \cup NewFiles : fds'[f] = fds[f] BY <1>1, <3>6, <3>7, Holders
        <4> QED BY <1>1, <4>1, Holders, FilesKept DEF BoundRight
      <3> QED BY <3>15, <3>16, <3>17 DEF BoundRight
    <2> QED BY <2>5, <2>6
  <1> QED BY <1>2, <1>4, <1>5

LEMMA BoundCloseFiles ==
    ASSUME IInv, BoundRight, CloseOldFiles PROVE BoundRight'
  <1>1. /\ pc = "closefiles" /\ pc' = "commit" /\ UNCHANGED <<cur, new, remain, lost, paths>>
        /\ Building /\ Building' /\ Matched /\ Releasing /\ Releasing' /\ pc # "exited"
        /\ fds' = CloseAll(FdsOf(cur.files))
    BY DEF CloseOldFiles, Building, Matched, Releasing
  <1>2. OldFiles = FdsOf(cur.files) /\ OldFiles' = {} /\ NewFiles' = NewFiles
    BY <1>1 DEF OldFiles, NewFiles
  <1>3. /\ OldFiles \in SUBSET Fds
        /\ OldFiles \cap (OldSockets \cup NewSockets \cup NewFiles \cup lost) = {}
    BY <1>1, Holders DEF OwnersApart, Apart
  <1>4. \A f \in Fds : fds'[f] = IF f \in OldFiles THEN Closed ELSE fds[f]
    BY <1>1, <1>2 DEF CloseAll
  <1>5. NamesApart' /\ PathsThere' /\ OldBound' /\ FilesThere'
    <2>1. \A i \in DOMAIN cur.listen : Open(i)' => Open(i) /\ cur.listen[i].fd \notin OldFiles
      BY <1>1, <1>3, Holders DEF Open
    <2>2. \A f \in Fds \ OldFiles :
              fds[f].kind = "socket" /\ Family[fds[f].name] = "unix" => fds[f].name \in paths'
      BY <1>1 DEF BoundRight, PathsThere
    <2> QED BY <1>1, <1>2, <1>3, <1>4, <2>1, <2>2, BoundClosing DEF Relistened
  <1>6. \A f \in OldSockets \cup NewSockets \cup NewFiles : fds'[f] = fds[f]
    BY <1>1, <1>3, <1>4, Holders
  <1>7. NewBound'
    <2>1. \A n \in DOMAIN new.listen : new.listen[n].fd # NULL =>
             fds'[new.listen[n].fd] = fds[new.listen[n].fd]
      BY <1>1, <1>6, Holders
    <2> QED BY <1>1, <2>1, NewBoundKept DEF BoundRight, Unlistened, Releasing
  <1>8. NewFilesRight' BY <1>1, <1>6, Holders, FilesKept DEF BoundRight
  <1> QED BY <1>1, <1>5, <1>7, <1>8 DEF BoundRight

LEMMA BoundCommit ==
    ASSUME IInv, BoundRight, Commit, pc' = "idle" PROVE BoundRight'
  <1>1. /\ cur' = new /\ pc = "commit" /\ UNCHANGED <<fds, paths, lost>> /\ Building /\ ~Building'
        /\ pc' # "exited" /\ pc # "exited"
    BY DEF Commit, Building
  <1>2. Growing BY <1>1 DEF IInv
  <1>3. NamesApart' /\ PathsThere' BY <1>1, NamesKept DEF BoundRight
  <1>4. \A n \in DOMAIN new.listen : IsSocket(new.listen[n]) /\ Backlogged(new.listen[n])
    <2>1. AllSockets /\ ~Unlistened BY <1>1, <1>2 DEF Growing, Releasing, Unlistened
    <2> QED BY <1>1, <2>1 DEF BoundRight, NewBound, AllSockets
  <1>5. OldBound' BY <1>1, <1>4 DEF OldBound, IsSocket, Backlogged
  <1>6. OldFilesRight'
    <2>1. AllFiles /\ NewFilesRight BY <1>1, <1>2 DEF Growing, BoundRight
    <2> QED BY <1>1, <2>1 DEF AllFiles, NewFilesRight, OldFilesRight, IsFile
  <1>7. FilesThere'
    <2>1. OldFiles' = NewFiles /\ NewFiles' = {}
      BY <1>1 DEF OldFiles, NewFiles, Building
    <2> QED BY <1>1, <2>1 DEF BoundRight, FilesThere
  <1> QED BY <1>1, <1>3, <1>5, <1>6, <1>7 DEF BoundRight

LEMMA BoundFailed ==
    ASSUME IInv, BoundRight, FailedReload, pc' = "idle" PROVE BoundRight'
  <1> DEFINE dead == FdsOf(new.files) \cup OpenedSockets
  <1>1. /\ UNCHANGED <<cur, remain, lost, paths>> /\ pc = "failed" /\ Building /\ ~Building'
        /\ fds' = CloseAll(dead) /\ pc # "exited"
    BY DEF FailedReload, Building
  <1>2. dead = NewFiles \cup NewSockets BY <1>1 DEF NewFiles, NewSockets
  <1>3. OldFiles' = OldFiles /\ NewFiles' = {} BY <1>1 DEF OldFiles, NewFiles
  <1>4. dead \in SUBSET Fds /\ dead \cap (OldSockets \cup OldFiles \cup lost) = {}
    BY <1>1, <1>2, Holders DEF OwnersApart, Apart
  <1> HIDE DEF dead
  <1>5. \A f \in Fds : fds'[f] = IF f \in dead THEN Closed ELSE fds[f] BY <1>1 DEF CloseAll
  <1>6. NamesApart' /\ PathsThere' /\ OldBound' /\ FilesThere'
    <2>1. \A i \in DOMAIN cur.listen : Open(i)' => Open(i) /\ cur.listen[i].fd \notin dead
      BY <1>1, <1>4, Holders DEF Open
    <2>2. \A f \in Fds \ dead :
              fds[f].kind = "socket" /\ Family[fds[f].name] = "unix" => fds[f].name \in paths'
      BY <1>1 DEF BoundRight, PathsThere
    <2> QED BY <1>1, <1>3, <1>4, <1>5, <2>1, <2>2, BoundClosing DEF Relistened, Releasing
  <1>7. \A f \in OldFiles : fds'[f] = fds[f] BY <1>1, <1>4, <1>5, Holders
  <1>8. OldFilesRight' BY <1>1, <1>7, Holders, FilesKept DEF BoundRight
  <1> QED BY <1>1, <1>6, <1>8 DEF BoundRight

LEMMA BoundStep ==
    ASSUME NoInet6, IInv, NInv, [Next]_vars PROVE NInv'
  <1> SUFFICES ASSUME pc' # "exited" PROVE BoundRight'
    BY DEF NInv
  <1>1. CASE \E c \in Confs : Begin(c)
    <2>1. PICK c \in Confs : Begin(c) BY <1>1
    <2>2. /\ UNCHANGED <<cur, remain, fds, paths, lost>> /\ pc = "idle" /\ pc' = "pid" /\ BoundRight
      BY <2>1 DEF Begin, NInv
    <2>3. /\ \A n \in DOMAIN new'.listen : new'.listen[n].fd = NULL
          /\ \A n \in DOMAIN new'.files : new'.files[n].fd \in {NULL, 2}
      BY <2>1, BuiltType DEF Begin
    <2>4. NamesApart' /\ PathsThere' BY <2>2, NamesKept DEF BoundRight
    <2>5. OldBound' BY <2>2, OldBoundKept DEF BoundRight, Open, Relistened, Releasing
    <2>6. OldFilesRight' BY <2>2, FilesKept DEF BoundRight
    <2>7. NewBound' /\ NewFilesRight' BY <2>3 DEF NewBound, NewFilesRight
    <2>8. FilesThere'
      <3>1. OldFiles' = OldFiles BY <2>2 DEF OldFiles
      <3>2. NewFiles' = {} BY <2>3 DEF NewFiles, FdsOf
      <3> QED BY <2>2, <3>1, <3>2 DEF BoundRight, FilesThere
    <2> QED BY <2>4, <2>5, <2>6, <2>7, <2>8 DEF BoundRight
  <1>2. CASE ReloadStep
    <2>0. Building /\ BoundRight
      <3>1. Building
        BY <1>2 DEF Building, ReloadStep, CreatePidfile, DeletePidfile, OpenFile, SetUpZone, MatchListeners,
           OpenListener, EndTry, Configure, InitModules, FreeOldZones, CloseOldSocket,
           CloseOldFiles, Commit, FailedReload
      <3> QED BY <3>1 DEF Building, NInv
    <2>00. TypeOK /\ InStep /\ ZonesNamed /\ cur \in Cycle /\ new \in Cycle
      BY <2>0, Cycles DEF IInv, Building
    <2>1. CASE CreatePidfile
      <3>1. /\ UNCHANGED <<cur, new, remain, paths>> /\ pc = "pid" /\ pc' \in {"unpid", "files", "failed"}
        BY <2>1 DEF CreatePidfile
      <3>2. CASE UNCHANGED <<fds, lost>>
        BY <2>0, <3>1, <3>2, BoundFrame DEF Building, Relistened, Releasing, Unlistened, Open
      <3>3. CASE /\ FreeFds # {} /\ pc' = "failed" /\ lost' = lost \cup {LowestFd}
                 /\ fds' = [fds EXCEPT ![LowestFd] = File(new.pid)]
        <4>1. /\ NamesApart' /\ PathsThere' /\ OldBound' /\ NewBound' /\ OldFilesRight'
              /\ \A f \in OldFiles' \cup NewFiles \cup lost : fds'[f].kind = "file"
              /\ fds'[LowestFd] = File(new.pid) /\ File(new.pid).kind = "file"
              /\ \A f \in NewFiles : fds'[f] = fds[f]
          BY <2>0, <3>1, <3>3, BoundFile
        <4>2. NewFiles' = NewFiles BY <2>0, <3>1, <3>3 DEF NewFiles, Building
        <4>3. FilesThere' BY <3>3, <4>1, <4>2 DEF FilesThere
        <4>4. NewFilesRight'
          BY <2>0, <3>1, <4>1, FilesKept DEF BoundRight, NewFiles, FdsOf
        <4> QED BY <4>1, <4>3, <4>4 DEF BoundRight
      <3> QED BY <2>1, <3>2, <3>3 DEF CreatePidfile
    <2>2. CASE DeletePidfile
      BY <2>0, <2>2, BoundFrame DEF DeletePidfile, Building, Relistened, Releasing, Unlistened, Open
    <2>3. CASE OpenFile
      <3>1. /\ UNCHANGED <<cur, remain, paths, lost>> /\ pc = "files" /\ pc' \in {"files", "zones", "failed"}
        BY <2>3 DEF OpenFile
      <3>2. CASE UNCHANGED <<new, fds>>
        BY <2>0, <3>1, <3>2, BoundFrame DEF Building, Relistened, Releasing, Unlistened, Open
      <3>3. ASSUME NEW i, FileGot(i) PROVE BoundRight'
        <4> DEFINE name == new.files[i].name
        <4>0. /\ DOMAIN new'.files = DOMAIN new.files /\ i \in DOMAIN new.files
              /\ new.files[i].fd = NULL /\ new'.files[i].fd = LowestFd /\ new'.files[i].name = name
              /\ \A j \in DOMAIN new.files : j # i => new'.files[j] = new.files[j]
              /\ fds' = [fds EXCEPT ![LowestFd] = File(name)] /\ FreeFds # {}
              /\ pc' \in {"files", "failed"} /\ new'.listen = new.listen
          BY <3>3 DEF FileGot, Unopened
        <4>1. /\ NamesApart' /\ PathsThere' /\ OldBound' /\ NewBound' /\ OldFilesRight'
              /\ \A f \in OldFiles' \cup NewFiles \cup lost : fds'[f].kind = "file"
              /\ fds'[LowestFd] = File(name) /\ File(name).kind = "file"
              /\ \A f \in NewFiles : fds'[f] = fds[f]
          <5> HIDE DEF name
          <5> QED BY <2>0, <3>1, <4>0, BoundFile
        <4>2. NewFiles' \subseteq NewFiles \cup {LowestFd}
          BY <2>0, <4>0 DEF NewFiles, FdsOf
        <4>3. FilesThere' BY <3>1, <4>1, <4>2 DEF FilesThere
        <4>4. NewFilesRight'
          <5> SUFFICES ASSUME NEW j \in DOMAIN new.files, new'.files[j].fd \notin {NULL, 2}
                       PROVE  IsFile(new.files[j])'
            BY <4>0 DEF NewFilesRight
          <5>1. CASE j = i BY <4>0, <4>1, <5>1 DEF IsFile
          <5>2. CASE j # i
            <6>1. new'.files[j] = new.files[j] BY <4>0, <5>2
            <6>2. IsFile(new.files[j]) /\ new.files[j].fd \in NewFiles
              BY <2>0, <6>1 DEF BoundRight, NewFilesRight, NewFiles, FdsOf
            <6> QED BY <4>1, <6>1, <6>2 DEF IsFile
          <5> QED BY <5>1, <5>2
        <4> QED BY <4>1, <4>3, <4>4 DEF BoundRight
      <3> QED BY <2>00, <2>3, <3>2, <3>3, FileOpening
    <2>4. CASE SetUpZone
      <3>1. /\ UNCHANGED <<cur, remain, fds, paths, lost>> /\ pc = "zones"
            /\ pc' \in {"zones", "match", "failed"}
        BY <2>4 DEF SetUpZone
      <3>2. new'.listen = new.listen /\ new'.files = new.files
        BY <2>00, <2>4, <3>1, ZoneSetting DEF ZoneGot
      <3> QED BY <2>0, <3>1, <3>2, BoundFrame DEF Building, Relistened, Releasing, Unlistened, Open
    <2>5. CASE MatchListeners BY <2>0, <2>5, BoundMatch
    <2>6. CASE OpenListener
      <3>1. UNCHANGED <<cur, remain, lost>> /\ pc = "open" /\ pc' \in {"open", "failed"}
        BY <2>6 DEF OpenListener
      <3>2. CASE UNCHANGED <<new, fds>> /\ paths \subseteq paths'
        BY <2>0, <3>1, <3>2, BoundFrame DEF Building, Relistened, Releasing, Unlistened, Open
      <3>3. CASE Bound BY <2>0, <3>1, <3>3, BoundOpen
      <3> QED BY <2>00, <2>6, <3>2, <3>3, Opening DEF PathLeft
    <2>7. CASE EndTry
      <3>1. /\ UNCHANGED <<cur, new, remain, fds, paths, lost>> /\ pc = "open"
            /\ pc' \in {"configure", "failed", "open"}
        BY <2>7 DEF EndTry
      <3> QED BY <2>0, <3>1, BoundFrame DEF Building, Relistened, Releasing, Unlistened, Open
    <2>8. CASE Configure BY <2>0, <2>8, BoundConfigure
    <2>9. CASE InitModules
      <3>1. /\ UNCHANGED <<cur, new, remain, fds, paths, lost>> /\ pc = "modules" /\ pc' = "freezones"
        BY <2>9 DEF InitModules
      <3> QED BY <2>0, <3>1, BoundFrame DEF Building, Relistened, Releasing, Unlistened, Open
    <2>10. CASE FreeOldZones
      <3>1. /\ UNCHANGED <<cur, new, remain, fds, paths, lost>> /\ pc = "freezones" /\ pc' = "closesocks"
        BY <2>10 DEF FreeOldZones
      <3>2. \A i \in DOMAIN cur.listen : Open(i) BY <3>1 DEF Open
      <3> QED BY <2>0, <3>1, <3>2, BoundFrame DEF Building, Relistened, Releasing, Unlistened
    <2>11. CASE CloseOldSocket BY <2>0, <2>11, BoundCloseSocket
    <2>12. CASE CloseOldFiles BY <2>0, <2>12, BoundCloseFiles
    <2>13. CASE Commit BY <2>0, <2>13, BoundCommit DEF Commit
    <2>14. CASE FailedReload BY <2>0, <2>14, BoundFailed DEF FailedReload, GivenUp
    <2> QED BY <1>2, <2>1, <2>2, <2>3, <2>4, <2>5, <2>6, <2>7, <2>8, <2>9, <2>10, <2>11, <2>12, <2>13,
               <2>14 DEF ReloadStep
  <1>3. CASE UNCHANGED <<pc, cur, new, remain, opening, fds, paths, ghosts>>
    <2>1. BoundRight BY <1>3 DEF NInv
    <2>2. OldFiles' = OldFiles /\ NewFiles' = NewFiles /\ \A i : Open(i)' <=> Open(i)
      BY <1>3 DEF OldFiles, NewFiles, Building, Open
    <2>3. (Relistened' <=> Relistened) /\ (Unlistened' <=> Unlistened) /\ (Building' <=> Building)
      BY <1>3 DEF Relistened, Releasing, Unlistened, Building
    <2>4. NamesApart' /\ PathsThere' BY <1>3, <2>1, NamesKept DEF BoundRight
    <2>5. OldBound' BY <1>3, <2>1, <2>2, <2>3, OldBoundKept DEF BoundRight
    <2>6. Building => NewBound' BY <1>3, <2>1, <2>3, NewBoundKept DEF BoundRight
    <2>7. FilesThere' BY <1>3, <2>1, <2>2 DEF FilesThere, BoundRight
    <2>8. (OldFilesRight => OldFilesRight') /\ (NewFilesRight => NewFilesRight') BY <1>3, FilesKept
    <2> QED BY <1>3, <2>1, <2>3, <2>4, <2>5, <2>6, <2>7, <2>8 DEF BoundRight
  <1>4. \/ \E c \in Confs : Begin(c)
        \/ ReloadStep
        \/ UNCHANGED <<pc, cur, new, remain, opening, fds, paths, ghosts>>
    <2>1. CASE UNCHANGED vars BY <2>1 DEF vars
    <2>2. CASE RejectConf BY <2>2 DEF RejectConf, GivenUp
    <2>3. CASE Accept BY <2>3 DEF Accept
    <2>4. CASE CloseConn BY <2>4 DEF CloseConn
    <2>5. CASE CleanOldCycles BY <2>5 DEF CleanOldCycles
    <2>6. CASE \E i \in DOMAIN old : CloseOldConn(i) BY <2>6 DEF CloseOldConn
    <2>7. CASE \E a \in Addrs : OthersBind(a) \/ OthersLeave(a) BY <2>7 DEF OthersBind, OthersLeave
    <2> QED BY <2>1, <2>2, <2>3, <2>4, <2>5, <2>6, <2>7 DEF Next
  <1> QED BY <1>1, <1>2, <1>3, <1>4

\* Between reloads each listener of the cycle has the socket bound to its own
\* address, with its path, and with its backlog if this process has told the
\* kernel of one; and each of its files is the one it names - as long as no
\* address is of AF_INET6, which hky_cmp_sockaddr does not compare.  Whatever
\* the inherited sockets listened with and whichever listen() is refused
\* (HkyCycle!RightDescriptor).
THEOREM DescriptorsRight == ASSUME NoInet6 PROVE Spec => []RightDescriptor
  <1>1. ASSUME IInv, NInv PROVE RightDescriptor
    <2> SUFFICES ASSUME pc = "idle" PROVE RightDescriptor
      BY DEF RightDescriptor
    <2>1. BoundRight /\ OldBound /\ OldFilesRight /\ PathsThere BY <1>1 DEF NInv, BoundRight
    <2>2. ASSUME NEW i \in DOMAIN cur.listen
          PROVE  LET l == cur.listen[i]
                 IN  /\ fds[l.fd].kind = "socket" /\ fds[l.fd].name = l.addr
                     /\ Family[l.addr] = "unix" => l.addr \in paths
                     /\ l.addr \notin Dgram /\ fds[l.fd].told => fds[l.fd].backlog = l.backlog
      <3> DEFINE l == cur.listen[i]
      <3>1. IsSocket(l) /\ Backlogged(l)
        BY <2>1 DEF OldBound, Open, Relistened, Releasing
      <3>2. l.fd \in Fds BY <1>1, Holders
      <3> QED BY <2>1, <3>1, <3>2 DEF IsSocket, Backlogged, PathsThere
    <2> QED BY <2>1, <2>2 DEF RightDescriptor, OldFilesRight, IsFile
  <1>2. IInv /\ NInv => RightDescriptor BY <1>1
  <1>3. Init => NInv BY BoundInit
  <1>4. IInv /\ NInv /\ [Next]_vars => NInv' BY BoundStep
  <1> QED BY <1>2, <1>3, <1>4, Invariance, PTL DEF Spec

-----------------------------------------------------------------------------
(* What clients see of a reload.                                            *)

Wanted == IF new = NULL THEN ConfAddrs(cur) ELSE ConfAddrs(new)

LEMMA SameAddrs ==
    ASSUME NEW s, NEW t, DOMAIN t = DOMAIN s, \A i \in DOMAIN s : t[i].addr = s[i].addr
    PROVE  AddrsOf(t) = AddrsOf(s)
  BY DEF AddrsOf

LEMMA ConfAddrsTyped ==
    ASSUME NEW c \in Cycle
    PROVE  ConfAddrs(c) \in SUBSET Addrs /\ \A i \in DOMAIN c.listen : c.listen[i].addr \in Addrs
  <1>1. \A i \in DOMAIN c.listen : c.listen[i] \in Listener BY CycleParts
  <1>2. \A i \in DOMAIN c.listen : c.listen[i].addr \in Addrs BY <1>1 DEF Listener
  <1> QED BY <1>2 DEF ConfAddrs, AddrsOf

LEMMA ListenedKept ==
    ASSUME \A f \in Fds : /\ fds'[f].kind = "socket" <=> fds[f].kind = "socket"
                          /\ fds[f].kind = "socket" => fds'[f].name = fds[f].name
    PROVE  Listened' = Listened
  BY DEF Listened

\* The open sockets are those of the two cycles, each bound to the address of
\* its listener.
LEMMA SocketsOfCycles ==
    ASSUME IInv, BoundRight, pc # "exited"
    PROVE  /\ \A f \in Fds : fds[f].kind = "socket" => f \in OldSockets \cup NewSockets
           /\ \A i \in DOMAIN cur.listen : Open(i) => cur.listen[i].addr \in Listened
           /\ Building => \A n \in DOMAIN new.listen :
                 new.listen[n].fd # NULL => new.listen[n].addr \in Listened
  <1>1. OwnersApart /\ TypeOK /\ InStep BY DEF IInv
  <1>2. ASSUME NEW f \in Fds, fds[f].kind = "socket" PROVE f \in OldSockets \cup NewSockets
    <2>1. f \notin FreeFds BY <1>2 DEF FreeFds, Closed
    <2>2. f \notin OldFiles \cup NewFiles \cup lost BY <1>2 DEF BoundRight, FilesThere
    <2> QED BY <1>1, <2>1, <2>2 DEF OwnersApart
  <1>3. ASSUME NEW i \in DOMAIN cur.listen, Open(i) PROVE cur.listen[i].addr \in Listened
    <2>1. cur.listen[i].fd \in Fds /\ IsSocket(cur.listen[i])
      BY <1>3, Holders DEF BoundRight, OldBound
    <2>2. cur.listen[i].addr \in Addrs BY <1>1, <1>3, Cycles, ConfAddrsTyped
    <2> QED BY <2>1, <2>2 DEF IsSocket, Listened
  <1>4. ASSUME Building, NEW n \in DOMAIN new.listen, new.listen[n].fd # NULL
        PROVE  new.listen[n].addr \in Listened
    <2>1. new \in Cycle BY <1>1, <1>4, Cycles
    <2>2. new.listen[n].fd \in Fds /\ new.listen[n].addr \in Addrs
      BY <1>4, <2>1, ConfAddrsTyped, FdsTyped
    <2>3. IsSocket(new.listen[n]) BY <1>4 DEF BoundRight, NewBound
    <2> QED BY <2>2, <2>3 DEF IsSocket, Listened
  <1> QED BY <1>2, <1>3, <1>4

\* Between reloads, and once the new cycle has all sockets and the old ones
\* are closed, exactly the addresses of one configuration are listened on.
LEMMA ListenedRight ==
    ASSUME IInv, BoundRight, pc # "exited"
    PROVE  /\ pc = "idle" => Listened = ConfAddrs(cur)
           /\ pc \in {"modules", "freezones", "closesocks", "closefiles", "commit"} =>
                 ConfAddrs(new) \subseteq Listened
           /\ pc \in {"closefiles", "commit"} => Listened = ConfAddrs(new)
  <1>1. CASE pc = "idle"
    <2>1. NewSockets = {} /\ \A i \in DOMAIN cur.listen : Open(i)
      BY <1>1 DEF NewSockets, Building, Open
    <2>2. ConfAddrs(cur) \subseteq Listened BY <2>1, SocketsOfCycles DEF ConfAddrs, AddrsOf
    <2>3. ASSUME NEW a \in Listened PROVE a \in ConfAddrs(cur)
      <3>1. PICK f \in Fds : fds[f].kind = "socket" /\ fds[f].name = a BY <2>3 DEF Listened
      <3>2. f \in OldSockets BY <2>1, <3>1, SocketsOfCycles
      <3>3. PICK i \in DOMAIN cur.listen : cur.listen[i].fd = f BY <3>2 DEF OldSockets
      <3>4. IsSocket(cur.listen[i]) BY <2>1 DEF BoundRight, OldBound
      <3> QED BY <3>1, <3>3, <3>4 DEF IsSocket, ConfAddrs, AddrsOf
    <2> QED BY <1>1, <2>2, <2>3
  <1>2. CASE pc \in {"modules", "freezones", "closesocks", "closefiles", "commit"}
    <2>1. Building /\ Matched /\ Growing /\ AllSockets
      BY <1>2 DEF Building, Matched, Releasing, IInv, Growing
    <2>2. ConfAddrs(new) \subseteq Listened
      BY <2>1, SocketsOfCycles DEF AllSockets, ConfAddrs, AddrsOf
    <2>3. ASSUME pc \in {"closefiles", "commit"}, NEW a \in Listened PROVE a \in ConfAddrs(new)
      <3>1. PICK f \in Fds : fds[f].kind = "socket" /\ fds[f].name = a BY <2>3 DEF Listened
      <3>2. f \in OldSockets \cup NewSockets BY <3>1, SocketsOfCycles
      <3>3. OldSockets = TakenSockets
        BY <2>1, <2>3, NewHeld DEF Growing, RemainingSockets
      <3>4. NewSockets = OpenedSockets BY <2>1 DEF NewSockets
      <3>5. PICK n \in DOMAIN new.listen : new.listen[n].fd = f
        BY <3>2, <3>3, <3>4 DEF TakenSockets, OpenedSockets
      <3>6. IsSocket(new.listen[n]) BY <2>1 DEF BoundRight, NewBound, AllSockets
      <3> QED BY <3>1, <3>5, <3>6 DEF IsSocket, ConfAddrs, AddrsOf
    <2> QED BY <1>2, <2>2, <2>3
  <1> QED BY <1>1, <1>2

\* Steps that leave to clients what they see.
LEMMA Unseen ==
    ASSUME Phase' = Phase, UNCHANGED cur, Listened' = Listened, Wanted' = Wanted
    PROVE  UNCHANGED Service!vars
  BY DEF Service!vars, Wanted

LEMMA MatchUnseen ==
    ASSUME IInv, MatchListeners PROVE UNCHANGED Service!vars
  <1>1. /\ pc = "match" /\ pc' = "open" /\ UNCHANGED <<cur, fds>> /\ Building /\ Building'
    BY DEF MatchListeners, Building
  <1>2. TypeOK /\ InStep /\ cur \in Cycle /\ new \in Cycle /\ new # NULL
    BY <1>1, Cycles DEF IInv, InStep
  <1>3. PICK m : MatchedBy(m) BY <1>2, Matching
  <1>4. ASSUME NEW n \in DOMAIN new.listen PROVE new'.listen[n].addr = new.listen[n].addr
    <2>1. CASE m[n] = 0
      <3>1. new'.listen[n] = ToOpen(new.listen[n]) BY <1>3, <2>1 DEF MatchedBy
      <3> QED BY <3>1 DEF ToOpen
    <2>2. CASE m[n] # 0
      <3>1. new'.listen[n] = TakenOver(cur.listen[m[n]], new.listen[n])
        BY <1>3, <2>2 DEF MatchedBy
      <3> QED BY <3>1, TakenOverParts
    <2> QED BY <2>1, <2>2
  <1>5. DOMAIN new'.listen = DOMAIN new.listen /\ new' # NULL
    BY <1>3, CycleAssumption DEF MatchedBy
  <1>6. ConfAddrs(new)' = ConfAddrs(new) BY <1>4, <1>5 DEF ConfAddrs, AddrsOf
  <1>7. Wanted' = Wanted BY <1>2, <1>5, <1>6 DEF Wanted
  <1>8. Phase' = Phase BY <1>1 DEF Phase
  <1>9. Listened' = Listened BY <1>1 DEF Listened
  <1> QED BY <1>1, <1>7, <1>8, <1>9, Unseen

LEMMA BoundListens ==
    ASSUME IInv, Bound, UNCHANGED cur, pc = "open"
    PROVE  \E a \in Addrs : Service!Listen(a)
  <1> DEFINE l == new.listen[at]
  <1>1. Building /\ TypeOK /\ InStep /\ new \in Cycle /\ new # NULL /\ pc' = "open"
    BY Cycles DEF Building, IInv, InStep, Bound
  <1>2. at \in DOMAIN new.listen /\ l.addr \in Addrs /\ ~InUse(l.addr)
    BY <1>1, ConfAddrsTyped DEF Bound
  <1>3. l.addr \notin Listened BY <1>2 DEF InUse, Listened
  <1>4. /\ LowestFd \in Fds /\ LowestFd \in FreeFds
        /\ \A f \in Fds : f # LowestFd => fds'[f] = fds[f]
        /\ fds'[LowestFd] = Socket(l.addr, l.backlog, TRUE)
    BY <1>1, LowestFree DEF Bound, TypeOK
  <1>5. fds[LowestFd].kind # "socket" BY <1>4 DEF FreeFds, Closed
  <1>6. Listened' = Listened \cup {l.addr}
    <2> HIDE DEF l
    <2>1. fds'[LowestFd].kind = "socket" /\ fds'[LowestFd].name = l.addr BY <1>4 DEF Socket
    <2> QED BY <1>2, <1>4, <1>5, <2>1 DEF Listened
  <1>7. new'.listen[at].addr = l.addr
    <2> DEFINE b == l.addr \notin Dgram
    <2>1. NewlyBound(l, LowestFd) = [addr |-> l.addr, backlog |-> l.backlog, fd |-> LowestFd,
             open |-> l.open, listen |-> b, ignore |-> l.ignore]
      BY DEF NewlyBound
    <2>2. new'.listen[at] = NewlyBound(l, LowestFd) BY DEF Bound
    <2> HIDE DEF b, l
    <2> QED BY <2>1, <2>2
  <1>8. \A n \in DOMAIN new.listen : new'.listen[n].addr = new.listen[n].addr
    BY <1>7 DEF Bound
  <1>9. ConfAddrs(new)' = ConfAddrs(new) BY <1>8 DEF ConfAddrs, AddrsOf, Bound
  <1>10. new' # NULL BY CycleAssumption DEF Bound
  <1>11. Wanted' = Wanted /\ Wanted = ConfAddrs(new) BY <1>1, <1>9, <1>10 DEF Wanted
  <1>12. l.addr \in Wanted BY <1>2, <1>11 DEF ConfAddrs, AddrsOf
  <1>13. Phase = "opening" /\ Phase' = "opening" BY <1>1 DEF Phase
  <1> HIDE DEF l
  <1>14. Service!Listen(l.addr)
    BY <1>3, <1>6, <1>11, <1>12, <1>13 DEF Service!Listen, Wanted
  <1> QED BY <1>2, <1>14

\* What only the old cycle listened on, and nothing the new one has, is dropped.
LEMMA CloseDrops ==
    ASSUME IInv, BoundRight, CloseOldSocket
    PROVE  (\E a \in Addrs : Service!Drop(a)) \/ UNCHANGED Service!vars
  <1>1. /\ pc = "closesocks" /\ pc' \in {"closesocks", "closefiles"}
        /\ UNCHANGED <<cur, new, remain>> /\ Building /\ Matched /\ pc # "exited"
        /\ Phase = "dropping" /\ Phase' = "dropping" /\ Wanted' = Wanted
    BY DEF CloseOldSocket, Building, Matched, Releasing, Phase, Wanted
  <1>2. /\ TypeOK /\ InStep /\ Settled /\ Growing /\ cur \in Cycle /\ new \in Cycle /\ new # NULL
        /\ cur.listen \in Seq(Listener) /\ at \in Nat \ {0}
    BY <1>1, Cycles, CycleParts DEF IInv, InStep, TypeOK
  <1>3. CASE UNCHANGED fds
    <2>1. Listened' = Listened BY <1>3 DEF Listened
    <2> QED BY <1>1, <2>1, Unseen
  <1>4. CASE at \in DOMAIN cur.listen /\ ~Kept(at)
    <2> DEFINE l == cur.listen[at]
    <2>1. l.fd \in Fds /\ l.addr \in Addrs BY <1>2, <1>4, ConfAddrsTyped DEF Settled
    <2>2. at \notin remain /\ Open(at) BY <1>1, <1>2, <1>4 DEF Kept, Open
    <2>3. IsSocket(l) /\ l.addr \in Listened
      BY <1>1, <1>4, <2>2, SocketsOfCycles DEF BoundRight, OldBound
    <2>4. fds' = [fds EXCEPT ![l.fd] = Closed] BY <1>1, <1>2, <1>4 DEF CloseOldSocket
    <2>5. l.fd \notin RemainingSockets \cup NewSockets
      <3>1. l.fd \notin RemainingSockets
        <4>1. \A i \in DOMAIN cur.listen : cur.listen[i].fd = l.fd => i = at
          BY <1>2, <1>4, <2>1, CycleAssumption DEF Settled, Distinct
        <4> QED BY <1>2, <2>2, <4>1 DEF RemainingSockets, TypeOK
      <3>2. l.fd \in OldSockets BY <1>4, <2>2 DEF OldSockets
      <3> QED BY <1>1, <3>1, <3>2, Holders DEF OwnersApart, Apart
    <2>6. l.addr \notin ConfAddrs(new)
      <3> SUFFICES ASSUME NEW n \in DOMAIN new.listen, new.listen[n].addr = l.addr PROVE FALSE
        BY DEF ConfAddrs, AddrsOf
      <3>1. new.listen[n].fd # NULL BY <1>1, <1>2 DEF Growing, AllSockets, Releasing
      <3>2. new.listen[n].fd \in Fds BY <1>2, <3>1, FdsTyped
      <3>3. IsSocket(new.listen[n]) BY <1>1, <3>1 DEF BoundRight, NewBound
      <3>4. new.listen[n].fd = l.fd
        BY <2>1, <2>3, <3>2, <3>3 DEF BoundRight, NamesApart, IsSocket
      <3>5. new.listen[n].fd \in RemainingSockets \cup NewSockets BY <1>1, <3>1, Holders
      <3> QED BY <2>5, <3>4, <3>5
    <2>7. Listened' = Listened \ {l.addr}
      <3>1. /\ \A f \in Fds : f # l.fd => fds'[f] = fds[f]
            /\ fds'[l.fd].kind # "socket"
        BY <1>2, <2>1, <2>4 DEF TypeOK, Closed
      <3>2. \A f \in Fds : fds[f].kind = "socket" /\ fds[f].name = l.addr => f = l.fd
        BY <2>1, <2>3 DEF BoundRight, NamesApart, IsSocket
      <3>3. fds[l.fd].name = l.addr BY <2>3 DEF IsSocket
      <3> HIDE DEF l
      <3> QED BY <3>1, <3>2, <3>3 DEF Listened
    <2>8. Wanted = ConfAddrs(new) BY <1>2 DEF Wanted
    <2> HIDE DEF l
    <2>9. Service!Drop(l.addr)
      BY <1>1, <2>3, <2>6, <2>7, <2>8 DEF Service!Drop, Wanted
    <2> QED BY <2>1, <2>9
  <1>5. UNCHANGED fds \/ (at \in DOMAIN cur.listen /\ ~Kept(at))
    BY <1>2 DEF CloseOldSocket
  <1> QED BY <1>3, <1>4, <1>5

\* A reload that fails closes what it opened, and with it what was not
\* listened on before.
LEMMA FailureGivesUp ==
    ASSUME IInv, BoundRight, FailedReload PROVE Service!GiveUp
  <1> DEFINE dead == FdsOf(new.files) \cup OpenedSockets
  <1>1. /\ pc = "failed" /\ pc' \in {"idle", "exited"} /\ cur' = cur /\ new' = NULL
        /\ fds' = CloseAll(dead) /\ Building /\ pc # "exited"
    BY DEF FailedReload, GivenUp, Building
  <1>2. dead = NewFiles \cup NewSockets BY <1>1 DEF NewFiles, NewSockets
  <1>3. dead \cap OldSockets = {} BY <1>1, <1>2, Holders DEF OwnersApart, Apart
  <1> HIDE DEF dead
  <1>4. \A f \in Fds : fds'[f] = IF f \in dead THEN Closed ELSE fds[f] BY <1>1 DEF CloseAll
  <1>5. \A i \in DOMAIN cur.listen : Open(i) BY <1>1 DEF Open
  <1>6. ASSUME NEW i \in DOMAIN cur.listen PROVE cur.listen[i].addr \in Listened'
    <2>1. cur.listen[i].fd \in Fds /\ cur.listen[i].fd \notin dead
      BY <1>1, <1>3, <1>5, Holders
    <2>2. IsSocket(cur.listen[i]) BY <1>5 DEF BoundRight, OldBound
    <2>3. cur.listen[i].addr \in Addrs BY Cycles, ConfAddrsTyped DEF IInv
    <2> QED BY <1>4, <2>1, <2>2, <2>3 DEF IsSocket, Listened
  <1>7. ASSUME NEW a \in Listened' PROVE a \in ConfAddrs(cur)
    <2>1. PICK f \in Fds : fds'[f].kind = "socket" /\ fds'[f].name = a BY <1>7 DEF Listened
    <2>2. f \notin dead /\ fds'[f] = fds[f] BY <1>4, <2>1 DEF Closed
    <2>3. f \in OldSockets BY <1>1, <1>2, <2>1, <2>2, SocketsOfCycles
    <2>4. PICK i \in DOMAIN cur.listen : cur.listen[i].fd = f BY <2>3 DEF OldSockets
    <2>5. IsSocket(cur.listen[i]) BY <1>5 DEF BoundRight, OldBound
    <2> QED BY <2>1, <2>2, <2>4, <2>5 DEF IsSocket, ConfAddrs, AddrsOf
  <1>8. Listened' = ConfAddrs(cur)
    <2>1. ConfAddrs(cur) \subseteq Listened' BY <1>6 DEF ConfAddrs, AddrsOf
    <2> QED BY <1>7, <2>1
  <1>9. Phase = "opening" /\ Phase' \in {"steady", "exited"} BY <1>1 DEF Phase
  <1> QED BY <1>1, <1>8, <1>9 DEF Service!GiveUp

LEMMA ReloadServes ==
    ASSUME NoInet6, IInv, NInv, ReloadStep
    PROVE  Service!Next \/ UNCHANGED Service!vars
  <1>1. Building /\ pc # "exited" /\ BoundRight
    <2>1. Building
      BY DEF Building, ReloadStep, CreatePidfile, DeletePidfile, OpenFile, SetUpZone, MatchListeners,
           OpenListener, EndTry, Configure, InitModules, FreeOldZones, CloseOldSocket,
           CloseOldFiles, Commit, FailedReload
    <2> QED BY <2>1 DEF Building, NInv
  <1>2. TypeOK /\ InStep /\ cur \in Cycle /\ new \in Cycle /\ new # NULL
    BY <1>1, Cycles DEF IInv, InStep
  <1>3. ASSUME UNCHANGED <<cur, fds>>, new'.listen = new.listen, new' # NULL, Phase' = Phase
        PROVE  UNCHANGED Service!vars
    <2>1. Listened' = Listened BY <1>3 DEF Listened
    <2>2. Wanted' = Wanted BY <1>2, <1>3 DEF Wanted, ConfAddrs
    <2> QED BY <1>3, <2>1, <2>2, Unseen
  <1>4. ASSUME FreeFds # {}, NEW name, fds' = [fds EXCEPT ![LowestFd] = File(name)]
        PROVE  Listened' = Listened
    <2>1. LowestFd \in Fds /\ fds[LowestFd] = Closed BY <1>4, LowestFree DEF FreeFds
    <2>2. \A f \in Fds : f # LowestFd => fds'[f] = fds[f] BY <1>2, <1>4 DEF TypeOK
    <2>3. fds'[LowestFd].kind # "socket" /\ fds[LowestFd].kind # "socket"
      BY <1>2, <1>4, <2>1 DEF TypeOK, File, Closed
    <2> QED BY <2>2, <2>3, ListenedKept
  <1>5. CASE CreatePidfile
    <2>1. UNCHANGED <<cur, new>> /\ Phase' = Phase BY <1>5 DEF CreatePidfile, Phase
    <2>2. CASE UNCHANGED fds BY <1>2, <1>3, <2>1, <2>2
    <2>3. CASE FreeFds # {} /\ fds' = [fds EXCEPT ![LowestFd] = File(new.pid)]
      <3>1. Listened' = Listened BY <1>4, <2>3
      <3> QED BY <2>1, <3>1, Unseen DEF Wanted
    <2> QED BY <1>5, <2>2, <2>3 DEF CreatePidfile
  <1>6. CASE DeletePidfile BY <1>2, <1>3, <1>6 DEF DeletePidfile, Phase
  <1>7. CASE OpenFile
    <2>1. UNCHANGED cur /\ Phase' = Phase BY <1>7 DEF OpenFile, Phase
    <2>2. CASE UNCHANGED <<new, fds>> BY <1>2, <1>3, <2>1, <2>2
    <2>3. ASSUME NEW i, FileGot(i) PROVE UNCHANGED Service!vars
      <3>1. /\ FreeFds # {} /\ fds' = [fds EXCEPT ![LowestFd] = File(new.files[i].name)]
            /\ new' # NULL /\ new'.listen = new.listen
        BY <2>3, CycleAssumption DEF FileGot
      <3>2. Listened' = Listened BY <1>4, <3>1
      <3>3. Wanted' = Wanted BY <1>2, <3>1 DEF Wanted, ConfAddrs
      <3> QED BY <2>1, <3>2, <3>3, Unseen
    <2> QED BY <1>2, <1>7, <2>2, <2>3, FileOpening
  <1>8. CASE SetUpZone
    <2>1. UNCHANGED <<cur, fds>> /\ Phase' = Phase /\ pc = "zones"
      BY <1>8 DEF SetUpZone, Phase
    <2>2. ZonesNamed BY <1>1 DEF IInv
    <2>3. new'.listen = new.listen /\ new' # NULL
      BY <1>2, <1>8, <2>1, <2>2, ZoneSetting, CycleAssumption DEF ZoneGot
    <2> QED BY <1>3, <2>1, <2>3
  <1>9. CASE MatchListeners BY <1>9, MatchUnseen
  <1>10. CASE OpenListener
    <2>1. UNCHANGED cur /\ Phase' = Phase /\ pc = "open" BY <1>10 DEF OpenListener, Phase
    <2>2. CASE UNCHANGED <<new, fds>> BY <1>2, <1>3, <2>1, <2>2
    <2>3. CASE Bound
      <3>1. \E a \in Addrs : Service!Listen(a) BY <2>1, <2>3, BoundListens
      <3> QED BY <3>1 DEF Service!Next
    <2> QED BY <1>2, <1>10, <2>2, <2>3, Opening DEF PathLeft
  <1>11. CASE EndTry BY <1>2, <1>3, <1>11 DEF EndTry, Phase
  <1>12. CASE Configure
    <2>1. UNCHANGED <<cur, new>> /\ Phase' = Phase BY <1>12 DEF Configure, Phase
    <2>2. PICK refused : fds' = Relisted(refused) BY <1>12, ConfigureKeeps
    <2>3. \A fd \in Fds : fds'[fd].kind = fds[fd].kind /\ fds'[fd].name = fds[fd].name
      BY <1>2, <1>12, <2>2, ConfigureKeeps, RelistedType DEF TypeOK
    <2>4. Listened' = Listened BY <2>3, ListenedKept
    <2> QED BY <2>1, <2>4, Unseen DEF Wanted
  <1>13. CASE InitModules
    <2>1. /\ UNCHANGED <<cur, new, fds>> /\ pc = "modules" /\ pc' \in {"freezones", "exited"}
      BY <1>13 DEF InitModules
    <2>2. Listened' = Listened /\ Wanted' = Wanted /\ ConfAddrs(cur)' = ConfAddrs(cur)
      BY <2>1 DEF Listened, Wanted
    <2>3. Phase = "opening" BY <2>1 DEF Phase
    <2>4. CASE pc' = "exited"
      <3>1. Phase' = "exited" BY <2>4 DEF Phase
      <3>2. Service!Exit BY <2>2, <2>3, <3>1 DEF Service!Exit, Wanted
      <3> QED BY <3>2 DEF Service!Next
    <2>5. CASE pc' = "freezones"
      <3>1. Phase' = "dropping" BY <2>5 DEF Phase
      <3>2. Wanted \subseteq Listened BY <1>1, <1>2, <2>1, ListenedRight DEF Wanted
      <3>3. Service!AllOpen BY <2>2, <2>3, <3>1, <3>2 DEF Service!AllOpen, Wanted
      <3> QED BY <3>3 DEF Service!Next
    <2> QED BY <2>1, <2>4, <2>5
  <1>14. CASE FreeOldZones BY <1>2, <1>3, <1>14 DEF FreeOldZones, Phase
  <1>15. CASE CloseOldSocket BY <1>1, <1>15, CloseDrops DEF Service!Next
  <1>16. CASE CloseOldFiles
    <2>1. /\ UNCHANGED <<cur, new>> /\ Phase' = Phase /\ pc = "closefiles"
          /\ fds' = CloseAll(FdsOf(cur.files))
      BY <1>16 DEF CloseOldFiles, Phase
    <2>2. OldFiles = FdsOf(cur.files) BY <2>1 DEF OldFiles
    <2>3. \A f \in Fds : fds'[f] = IF f \in OldFiles THEN Closed ELSE fds[f]
      BY <2>1, <2>2 DEF CloseAll
    <2>4. \A f \in OldFiles : fds[f].kind = "file" BY <1>1 DEF BoundRight, FilesThere
    <2>5. Listened' = Listened BY <2>3, <2>4, ListenedKept DEF Closed
    <2> QED BY <2>1, <2>5, Unseen DEF Wanted
  <1>17. CASE Commit
    <2>1. pc = "commit" /\ UNCHANGED fds BY <1>17 DEF Commit
    <2>2. Listened = ConfAddrs(new) /\ Listened' = Listened
      <3>1. Listened = ConfAddrs(new) BY <1>1, <2>1, ListenedRight
      <3> QED BY <2>1, <3>1 DEF Listened
    <2>3. Phase = "dropping" BY <2>1 DEF Phase
    <2>4. CASE pc' = "idle" /\ cur' = new /\ new' = NULL
      <3>1. Phase' = "steady" BY <2>4 DEF Phase
      <3>2. Wanted = ConfAddrs(new) /\ Wanted' = Wanted /\ ConfAddrs(cur)' = Wanted
        BY <1>2, <2>4 DEF Wanted, ConfAddrs
      <3>3. Service!Switch BY <2>2, <2>3, <3>1, <3>2 DEF Service!Switch, Wanted
      <3> QED BY <3>3 DEF Service!Next
    <2>5. CASE pc' = "exited" /\ UNCHANGED <<cur, new>>
      <3>1. Phase' = "exited" BY <2>5 DEF Phase
      <3>2. Wanted' = Wanted /\ ConfAddrs(cur)' = ConfAddrs(cur) BY <2>5 DEF Wanted
      <3>3. Service!Exit BY <2>2, <2>3, <3>1, <3>2 DEF Service!Exit, Wanted
      <3> QED BY <3>3 DEF Service!Next
    <2> QED BY <1>17, <2>4, <2>5 DEF Commit
  <1>18. CASE FailedReload BY <1>1, <1>18, FailureGivesUp DEF Service!Next
  <1> QED BY <1>5, <1>6, <1>7, <1>8, <1>9, <1>10, <1>11, <1>12, <1>13, <1>14, <1>15, <1>16, <1>17,
             <1>18 DEF ReloadStep

\* A reload is what HkyService says of it: an address of both configurations
\* is listened on in every state, none of the old ones is dropped before all
\* the new ones are bound, and a reload that fails leaves exactly the old ones.
THEOREM ServiceImplemented == ASSUME NoInet6 PROVE Spec => ServiceSpec
  <1>1. ASSUME Init PROVE Service!Init
    <2>1. IInv /\ NInv /\ pc = "idle" /\ new = NULL BY <1>1, InvInit, BoundInit DEF Init
    <2>2. Listened = ConfAddrs(cur) BY <2>1, ListenedRight DEF NInv
    <2>3. ConfAddrs(cur) \in SUBSET Addrs BY <2>1, ConfAddrsTyped DEF IInv, TypeOK
    <2>4. Phase = "steady" BY <2>1 DEF Phase
    <2> QED BY <2>1, <2>2, <2>3, <2>4 DEF Service!Init
  <1>2. ASSUME IInv, NInv, [Next]_vars PROVE [Service!Next]_(Service!vars)
    <2> SUFFICES Service!Next \/ UNCHANGED Service!vars
      OBVIOUS
    <2>1. ASSUME NEW c \in Confs, Begin(c) PROVE Service!Next \/ UNCHANGED Service!vars
      <3>1. /\ pc = "idle" /\ pc' = "pid" /\ UNCHANGED <<cur, fds>> /\ new' = Built(c)
        BY <2>1 DEF Begin
      <3>2. new' \in Cycle BY <2>1, <3>1, BuiltType
      <3>3. new' # NULL /\ ConfAddrs(new') \in SUBSET Addrs
        BY <3>2, ConfAddrsTyped, CycleAssumption
      <3>4. Wanted' \in SUBSET Addrs BY <3>3 DEF Wanted
      <3>5. Listened' = Listened /\ ConfAddrs(cur)' = ConfAddrs(cur) BY <3>1 DEF Listened
      <3>6. Phase = "steady" /\ Phase' = "opening" BY <3>1 DEF Phase
      <3>7. Service!Begin BY <3>4, <3>5, <3>6 DEF Service!Begin, Wanted
      <3> QED BY <3>7 DEF Service!Next
    <2>2. CASE ReloadStep BY <1>2, <2>2, ReloadServes
    <2>3. CASE /\ UNCHANGED <<cur, new, remain, opening, fds, mapped, pidfiles, reloads, ghosts>>
               /\ pc' = pc \/ (pc = "idle" /\ pc' = "exited")
      <3>1. Listened' = Listened /\ Wanted' = Wanted /\ ConfAddrs(cur)' = ConfAddrs(cur)
        BY <2>3 DEF Listened, Wanted
      <3>2. CASE pc' = pc
        <4>1. Phase' = Phase BY <3>2 DEF Phase
        <4> QED BY <2>3, <3>1, <4>1, Unseen
      <3>3. CASE pc = "idle" /\ pc' = "exited"
        <4>1. Phase = "steady" /\ Phase' = "exited" BY <3>3 DEF Phase
        <4>2. Service!Exit BY <3>1, <4>1 DEF Service!Exit, Wanted
        <4> QED BY <4>2 DEF Service!Next
      <3> QED BY <2>3, <3>2, <3>3
    <2> QED BY <1>2, <2>1, <2>2, <2>3, Steps
  <1>3. Init => NInv /\ Service!Init BY <1>1, BoundInit
  <1>4. IInv /\ NInv /\ [Next]_vars => NInv' /\ [Service!Next]_(Service!vars)
    BY <1>2, BoundStep
  <1> QED BY <1>3, <1>4, Invariance, PTL DEF Spec, ServiceSpec, Service!Spec

=============================================================================
