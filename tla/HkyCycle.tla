------------------------------ MODULE HkyCycle ------------------------------
(***************************************************************************)
(* Configuration cycles: hky_init_cycle (core/hky_cycle.c) with            *)
(* hky_open_listening_sockets and hky_configure_listening_sockets          *)
(* (core/hky_connection.c), and the cleaner of retired cycles.             *)
(*                                                                         *)
(* A reload builds a new cycle beside the one in force in the steps of     *)
(* "pc"; each step is one stretch of the code between two system calls     *)
(* that other processes can observe.  It ends in Commit, in FailedReload   *)
(* (the label "failed") or in the exit of the process.  The kernel's       *)
(* tables - descriptors, paths of unix sockets, mapped segments, pid       *)
(* files - are state of their own, so that a descriptor that is closed     *)
(* twice, kept too long or taken for another one shows.                    *)
(***************************************************************************)
EXTENDS HkyOrder, Sequences

CONSTANTS
    Confs,        \* configurations: [listen : Seq([addr, backlog]), files : Seq(Files),
                  \*                  zones : Seq([name, kind, noreuse]), pid]
    Inherited,    \* inherited sockets: sequences of [addr, ignore, backlog], the
                  \* backlog that of the listen() of the process before
    Process,      \* hky_process: "single" or "master"
    Addrs,        \* the addresses (with their type) a listener can have
    Family,       \* of each address: "inet", "inet6" or "unix"
    Dgram,        \* the addresses whose type is not SOCK_STREAM
    Files,        \* names of log files
    StderrName,   \* the empty name, which stands for hky_stderr
    ZeroKinds,    \* kinds (tag and size) of shared memory whose size is 0
    Pids,         \* names of pid files
    Fds,          \* the descriptors the process may have
    Segs,         \* addresses of shared memory segments
    DefaultBacklog, \* HKY_LISTEN_BACKLOG
    Tries,        \* how often hky_open_listening_sockets tries
    NULL,
    MaxReloads,   \* bound: reloads in a behaviour
    MaxConns      \* bound: connections of a cycle

(* A cycle; a retired one, with the connections it still has.                *)
Listener ==
    [addr : Addrs, backlog : Nat, fd : Fds \cup {NULL},
     open : BOOLEAN, listen : BOOLEAN, ignore : BOOLEAN]
OpenedFile == [name : Files, fd : Fds \cup {2, NULL}]
ShmZone == [name : STRING, kind : STRING, noreuse : BOOLEAN, seg : Segs \cup {NULL}]
Cycle ==
    [init : BOOLEAN, pid : Pids \cup {NULL}, listen : Seq(Listener),
     files : Seq(OpenedFile), zones : Seq(ShmZone)]
RetiredCycle == [id : 1..MaxReloads, conns : 0..MaxConns]

\* The loops over zones rely on one zone of a name; inherited sockets, bound by
\* an earlier process, have addresses of their own; 2 is the descriptor of
\* stderr, which is always open.
ASSUME CycleAssumption ==
    /\ Confs \subseteq [listen : Seq([addr : Addrs, backlog : Nat]), files : Seq(Files),
                        zones : Seq([name : STRING, kind : STRING, noreuse : BOOLEAN]),
                        pid : Pids]
    /\ \A c \in Confs : \A i, j \in DOMAIN c.zones : c.zones[i].name = c.zones[j].name => i = j
    /\ Inherited \subseteq Seq([addr : Addrs, ignore : BOOLEAN, backlog : Nat])
    /\ \A table \in Inherited : \A i, j \in DOMAIN table :
          i + 2 \in Fds /\ (table[i].addr = table[j].addr => i = j)
    /\ Fds \subseteq Nat \ 0..2
    /\ DefaultBacklog \in Nat /\ Tries \in Nat \ {0}
    /\ MaxReloads \in Nat /\ MaxConns \in Nat
    /\ NULL \notin Fds \cup {2} /\ NULL \notin Segs
    /\ NULL \notin Cycle /\ NULL \notin RetiredCycle

VARIABLES
    pc,        \* where hky_init_cycle is; "idle" outside it, "exited" after exit()
    cur,       \* the cycle in force
    new,       \* the cycle being built, or NULL
    remain,    \* the listeners of cur whose bit "remain" is set
    at, busy, triesLeft,  \* i, failed and tries of hky_open_listening_sockets
    fds,       \* the descriptor table of the process
    paths,     \* the unix socket addresses that exist in the file system
    foreign,   \* the addresses other processes are bound to
    mapped,    \* the segments that are mapped
    pidfiles,  \* the pid files that exist
    old,       \* hky_old_cycles: each [id, conns], or NULL once destroyed
    tempPool,  \* whether hky_temp_pool exists
    timer,     \* hky_cleaner_event.timer_set
    conns,     \* the connections of the cycle in force
    reloads,   \* the number of cycles built so far
    lost,      \* descriptors no variable holds any more
    stray,     \* segments no zone holds any more
    pulled,    \* whether a zone stopped asking for noreuse: its segment was unmapped
    misuse     \* what was done to what was gone: a subset of {"close", "unmap"}

kernel == <<fds, paths, foreign, mapped, pidfiles>>
retired == <<old, tempPool, timer, conns>>
opening == <<at, busy, triesLeft>>
ghosts == <<lost, stray, pulled, misuse>>
vars == <<pc, cur, new, remain, opening, kernel, retired, reloads, ghosts>>

\* told: whether this process called listen() for it, the last time with success.
Closed == [kind |-> "closed", name |-> NULL, backlog |-> 0, told |-> FALSE]
Socket(a, backlog, told) ==
    [kind |-> "socket", name |-> a, backlog |-> backlog, told |-> told]
File(name) == [kind |-> "file", name |-> name, backlog |-> 0, told |-> FALSE]
Descriptor ==
    {Closed} \cup [kind : {"socket"}, name : Addrs, backlog : Nat, told : BOOLEAN]
             \cup [kind : {"file"}, name : Files \cup Pids, backlog : Nat, told : BOOLEAN]

FreeFds == {fd \in Fds : fds[fd] = Closed}
LowestFd == FirstOf(FreeFds)

FdsOf(s) == {s[i].fd : i \in DOMAIN s} \ {NULL, 2}
SegsOf(s) == {s[i].seg : i \in DOMAIN s} \ {NULL}
AddrsOf(s) == {s[i].addr : i \in DOMAIN s}
ConfAddrs(c) == AddrsOf(c.listen)

\* hky_set_inherited_sockets does not learn what the kernel's backlog is.
InitCycle(table) ==
    [init |-> TRUE, files |-> <<>>, zones |-> <<>>, pid |-> NULL,
     listen |-> [i \in DOMAIN table |->
        [addr |-> table[i].addr, backlog |-> DefaultBacklog, fd |-> i + 2,
         open |-> FALSE, listen |-> FALSE, ignore |-> table[i].ignore]]]

Init ==
    /\ pc = "idle" /\ new = NULL /\ remain = {}
    /\ at = 1 /\ busy = FALSE /\ triesLeft = 0
    /\ \E table \in Inherited :
          /\ cur = InitCycle(table)
          /\ fds = [fd \in Fds |->
                      IF fd - 2 \in DOMAIN table
                      THEN Socket(table[fd - 2].addr, table[fd - 2].backlog, FALSE)
                      ELSE Closed]
          /\ paths = {a \in AddrsOf(table) : Family[a] = "unix"}
    /\ foreign = {} /\ mapped = {} /\ pidfiles = {}
    /\ old = <<>> /\ tempPool = FALSE /\ timer = FALSE /\ conns = 0
    /\ reloads = 0 /\ lost = {} /\ stray = {} /\ pulled = FALSE /\ misuse = {}

-----------------------------------------------------------------------------
(* Building the new cycle up to the first system call.                     *)

\* hky_conf_open_file presets the descriptor of a file without a name.
Built(c) ==
    [init   |-> FALSE, pid |-> c.pid,
     listen |-> [i \in DOMAIN c.listen |->
        [addr |-> c.listen[i].addr, backlog |-> c.listen[i].backlog, fd |-> NULL,
         open |-> FALSE, listen |-> FALSE, ignore |-> FALSE]],
     files  |-> [i \in DOMAIN c.files |->
        [name |-> c.files[i], fd |-> IF c.files[i] = StderrName THEN 2 ELSE NULL]],
     zones  |-> [i \in DOMAIN c.zones |->
        [name |-> c.zones[i].name, kind |-> c.zones[i].kind,
         noreuse |-> c.zones[i].noreuse, seg |-> NULL]]]

Begin(c) ==
    /\ pc = "idle" /\ pc' = "pid" /\ reloads < MaxReloads
    /\ new' = Built(c) /\ reloads' = reloads + 1
    /\ UNCHANGED <<cur, remain, opening, kernel, retired, ghosts>>

\* The caller gives up when it has no cycle to run.
GivenUp == IF cur.init THEN "exited" ELSE "idle"

\* Any failure up to init_conf only destroys the pools of the new cycle.
RejectConf ==
    /\ pc = "idle" /\ pc' = GivenUp
    /\ UNCHANGED <<cur, new, remain, opening, kernel, retired, reloads, ghosts>>

\* Mutant: the names are not compared.
FirstPidfile == cur.init

\* The pid file is that of the cycle in force, or not the business of a reload.
SamePidfile == cur.init \/ new.pid = cur.pid

\* hky_create_pidfile; when the write fails its descriptor stays open.
CreatePidfile ==
    /\ pc = "pid"
    /\ IF SamePidfile
       THEN pc' = "files" /\ UNCHANGED <<pidfiles, fds, lost>>
       ELSE \/ pc' = "failed" /\ UNCHANGED <<pidfiles, fds, lost>>
            \/ /\ FreeFds # {}
               /\ pidfiles' = pidfiles \cup {new.pid}
               /\ \/ pc' = "unpid" /\ UNCHANGED <<fds, lost>>
                  \/ /\ pc' = "failed"
                     /\ fds' = [fds EXCEPT ![LowestFd] = File(new.pid)]
                     /\ lost' = lost \cup {LowestFd}
    /\ UNCHANGED <<cur, new, remain, opening, paths, foreign, mapped, retired, reloads,
                   stray, pulled, misuse>>

DeletePidfile ==
    /\ pc = "unpid" /\ pc' = "files"
    /\ pidfiles' = pidfiles \ {cur.pid}
    /\ UNCHANGED <<cur, new, remain, opening, fds, paths, foreign, mapped, retired,
                   reloads, ghosts>>

Unopened == {i \in DOMAIN new.files : new.files[i].fd = NULL}

\* The failure of hky_create_paths or hky_log_open_default is one before the
\* first file; that of fcntl comes after the file is open.
OpenFile ==
    /\ pc = "files"
    /\ \/ Unopened = {} /\ pc' = "zones" /\ UNCHANGED <<new, fds>>
       \/ pc' = "failed" /\ UNCHANGED <<new, fds>>
       \/ /\ Unopened # {} /\ FreeFds # {}
          /\ LET i == FirstOf(Unopened) IN
                /\ fds' = [fds EXCEPT ![LowestFd] = File(new.files[i].name)]
                /\ new' = [new EXCEPT !.files[i].fd = LowestFd]
          /\ pc' \in {"files", "failed"}
    /\ UNCHANGED <<cur, remain, opening, paths, foreign, mapped, pidfiles, retired,
                   reloads, ghosts>>

-----------------------------------------------------------------------------
(* Shared memory zones.                                                    *)

\* Only the first zone of the table with the name counts; noreuse is that of z,
\* which is the new zone when segments are inherited and the old one when they
\* are released.
Namesake(z, table) == {i \in DOMAIN table : table[i].name = z.name}
Inherits(z, table) ==
    LET same == Namesake(z, table) IN
    /\ same # {}
    /\ table[FirstOf(same)].kind = z.kind
    /\ ~z.noreuse

Unmapped == {i \in DOMAIN new.zones : new.zones[i].seg = NULL}

\* "failed" after the mapping: the zone's init callback refused it.
SetUpZone ==
    /\ pc = "zones"
    /\ \/ Unmapped = {} /\ pc' = "match" /\ UNCHANGED <<new, mapped>>
       \/ /\ Unmapped # {}
          /\ LET i == FirstOf(Unmapped)
                 z == new.zones[i] IN
             \/ /\ z.kind \in ZeroKinds
                /\ pc' = "failed" /\ UNCHANGED <<new, mapped>>
             \/ /\ z.kind \notin ZeroKinds /\ Inherits(z, cur.zones)
                /\ new' = [new EXCEPT !.zones[i].seg =
                             cur.zones[FirstOf(Namesake(z, cur.zones))].seg]
                /\ pc' \in {"zones", "failed"} /\ UNCHANGED mapped
             \/ /\ z.kind \notin ZeroKinds /\ ~Inherits(z, cur.zones)
                /\ \/ pc' = "failed" /\ UNCHANGED <<new, mapped>>
                   \/ \E s \in Segs \ mapped :
                         /\ mapped' = mapped \cup {s}
                         /\ new' = [new EXCEPT !.zones[i].seg = s]
                         /\ pc' \in {"zones", "failed"}
    /\ UNCHANGED <<cur, remain, opening, fds, paths, foreign, pidfiles, retired, reloads,
                   ghosts>>

-----------------------------------------------------------------------------
(* Listening sockets.                                                      *)

\* hky_cmp_sockaddr leaves its AF_INET6 case before it compares anything.
CmpSockaddr(a, b) ==
    /\ Family[a] = Family[b]
    /\ Family[a] = "inet6" \/ a = b

SameListener(l, n) ==
    /\ l.addr \in Dgram <=> n.addr \in Dgram
    /\ CmpSockaddr(n.addr, l.addr)

\* Mutant: the bits that a failed reload left behind are not reset.
RemainStale == remain

\* The bits "remain" the matching starts from: all are reset.
RemainAtStart == {}

\* The listeners of ls that the n-th of nls could take over, when those before
\* it have taken m.
Candidates(ls, nls, m, n) ==
    {i \in DOMAIN ls \ (RemainAtStart \cup {m[k] : k \in 1..(n - 1)}) :
        ~ls[i].ignore /\ SameListener(ls[i], nls[n])}

\* m: for each listener of nls the old one whose socket it takes over, or 0.
IsMatching(m, ls, nls) ==
    \A n \in DOMAIN nls :
        LET fit == Candidates(ls, nls, m, n)
        IN  m[n] = IF fit = {} THEN 0 ELSE FirstOf(fit)

\* Mutant: the backlogs are not compared.
TakeOverOnly(l, n) == [n EXCEPT !.fd = l.fd]

TakeOver(l, n) ==
    [n EXCEPT !.fd = l.fd, !.listen = (l.backlog # n.backlog)]

MatchListeners ==
    /\ pc = "match" /\ pc' = "open"
    /\ \E m \in [DOMAIN new.listen -> 0..Len(cur.listen)] :
          /\ IsMatching(m, cur.listen, new.listen)
          /\ remain' = RemainAtStart \cup ({m[n] : n \in DOMAIN m} \ {0})
          /\ new' = [new EXCEPT !.listen = [n \in DOMAIN new.listen |->
                       IF m[n] = 0 THEN [new.listen[n] EXCEPT !.open = TRUE]
                       ELSE TakeOver(cur.listen[m[n]], new.listen[n])]]
    /\ at' = 1 /\ busy' = FALSE /\ triesLeft' = Tries
    /\ UNCHANGED <<cur, kernel, retired, reloads, ghosts>>

\* bind() or listen() answers EADDRINUSE.
InUse(a) ==
    \/ a \in foreign \cup paths
    \/ \E fd \in Fds : fds[fd].kind = "socket" /\ fds[fd].name = a

\* One listener of one try of hky_open_listening_sockets.  When listen() fails
\* for another reason the socket is closed, but the path bind() made remains.
OpenListener ==
    /\ pc = "open" /\ at <= Len(new.listen)
    /\ LET l == new.listen[at] IN
       \/ /\ l.fd # NULL
          /\ at' = at + 1 /\ UNCHANGED <<pc, new, fds, paths, busy>>
       \/ /\ l.fd = NULL
          /\ pc' = "failed" /\ UNCHANGED <<new, fds, paths, at, busy>>
       \/ /\ l.fd = NULL /\ FreeFds # {} /\ ~InUse(l.addr)
          /\ Family[l.addr] = "unix" /\ l.addr \notin Dgram
          /\ pc' = "failed" /\ paths' = paths \cup {l.addr}
          /\ UNCHANGED <<new, fds, at, busy>>
       \/ /\ l.fd = NULL /\ FreeFds # {} /\ InUse(l.addr)
          /\ at' = at + 1 /\ busy' = TRUE /\ UNCHANGED <<pc, new, fds, paths>>
       \/ /\ l.fd = NULL /\ FreeFds # {} /\ ~InUse(l.addr)
          /\ fds' = [fds EXCEPT ![LowestFd] = Socket(l.addr, l.backlog, TRUE)]
          /\ paths' = IF Family[l.addr] = "unix" THEN paths \cup {l.addr} ELSE paths
          /\ new' = [new EXCEPT !.listen[at].fd = LowestFd,
                                !.listen[at].listen = (l.addr \notin Dgram)]
          /\ at' = at + 1 /\ UNCHANGED <<pc, busy>>
    /\ UNCHANGED <<cur, remain, triesLeft, foreign, mapped, pidfiles, retired, reloads,
                   ghosts>>

LastTry == triesLeft = 1

\* Mutant: the tries are not counted.
EndTryForever ==
    /\ pc = "open" /\ at > Len(new.listen)
    /\ pc' = IF busy THEN "open" ELSE "configure"
    /\ at' = 1 /\ busy' = FALSE
    /\ UNCHANGED <<cur, new, remain, triesLeft, kernel, retired, reloads, ghosts>>

\* The end of a try: 500 ms later the next one starts from the first listener.
EndTry ==
    /\ pc = "open" /\ at > Len(new.listen)
    /\ pc' = CASE ~busy -> "configure"
               [] busy /\ LastTry -> "failed"
               [] OTHER -> "open"
    /\ at' = 1 /\ busy' = FALSE /\ triesLeft' = triesLeft - 1
    /\ UNCHANGED <<cur, new, remain, kernel, retired, reloads, ghosts>>

Renewed(fd) == {i \in DOMAIN new.listen : new.listen[i].fd = fd /\ new.listen[i].listen}

\* What listen() leaves of a descriptor, if it is called and if it is refused.
AfterListen(fd, refused) ==
    IF Renewed(fd) = {} THEN fds[fd]
    ELSE IF fd \in refused THEN [fds[fd] EXCEPT !.told = FALSE]
    ELSE [fds[fd] EXCEPT !.backlog = new.listen[LastOf(Renewed(fd))].backlog, !.told = TRUE]

\* hky_configure_listening_sockets; of the options only the backlog is kept.  A
\* listen() that is refused is logged and passed over.
Configure ==
    /\ pc = "configure" /\ pc' = "modules"
    /\ \E refused \in SUBSET {fd \in Fds : Renewed(fd) # {}} :
          fds' = [fd \in Fds |-> AfterListen(fd, refused)]
    /\ UNCHANGED <<cur, new, remain, opening, paths, foreign, mapped, pidfiles, retired,
                   reloads, ghosts>>

InitModules ==
    /\ pc = "modules" /\ pc' \in {"freezones", "exited"}
    /\ UNCHANGED <<cur, new, remain, opening, kernel, retired, reloads, ghosts>>

-----------------------------------------------------------------------------
(* Past the point of no return: what only the old cycle used is released.  *)

\* Mutant: a zone is released only if its name is gone.
NamelessZones == {i \in DOMAIN cur.zones : Namesake(cur.zones[i], new.zones) = {}}

DeadZones == {i \in DOMAIN cur.zones : ~Inherits(cur.zones[i], new.zones)}

\* An old zone and the new one that could take its segment over.
Successors ==
    {p \in (DOMAIN cur.zones) \X (DOMAIN new.zones) :
        /\ cur.zones[p[1]].name = new.zones[p[2]].name
        /\ cur.zones[p[1]].kind = new.zones[p[2]].kind}

\* Only the new one asks for noreuse: it has a segment of its own, and the old
\* one's is not released.
Forgotten ==
    {p[1] : p \in {q \in Successors :
                      ~cur.zones[q[1]].noreuse /\ new.zones[q[2]].noreuse}}

\* Only the old one does: the new one has its segment, and it is released.
Withdrawn == \E p \in Successors : cur.zones[p[1]].noreuse /\ ~new.zones[p[2]].noreuse

Misused(how, when) == misuse' = misuse \cup (IF when THEN {how} ELSE {})

FreeOldZones ==
    /\ pc = "freezones" /\ pc' = "closesocks"
    /\ LET dead == {cur.zones[i].seg : i \in DeadZones}
       IN mapped' = mapped \ dead /\ Misused("unmap", ~(dead \subseteq mapped))
    /\ stray' = stray \cup {cur.zones[i].seg : i \in Forgotten}
    /\ pulled' = (pulled \/ Withdrawn)
    /\ at' = 1
    /\ UNCHANGED <<cur, new, remain, busy, triesLeft, fds, paths, foreign, pidfiles,
                   retired, reloads, lost>>

Kept(i) == i \in remain \/ cur.listen[i].fd = NULL

CloseOldSocket ==
    /\ pc = "closesocks"
    /\ IF at > Len(cur.listen)
       THEN pc' = "closefiles" /\ UNCHANGED <<at, fds, paths, misuse>>
       ELSE LET l == cur.listen[at] IN
            /\ at' = at + 1 /\ UNCHANGED pc
            /\ IF Kept(at) THEN UNCHANGED <<fds, paths, misuse>>
               ELSE /\ fds' = [fds EXCEPT ![l.fd] = Closed]
                    /\ Misused("close", fds[l.fd] = Closed)
                    /\ paths' = IF Family[l.addr] = "unix" THEN paths \ {l.addr} ELSE paths
    /\ UNCHANGED <<cur, new, remain, busy, triesLeft, foreign, mapped, pidfiles, retired,
                   reloads, lost, stray, pulled>>

CloseAll(dead) == [fd \in Fds |-> IF fd \in dead THEN Closed ELSE fds[fd]]

CloseOldFiles ==
    /\ pc = "closefiles" /\ pc' = "commit"
    /\ fds' = CloseAll(FdsOf(cur.files))
    /\ Misused("close", FdsOf(cur.files) \cap FreeFds # {})
    /\ UNCHANGED <<cur, new, remain, opening, paths, foreign, mapped, pidfiles, retired,
                   reloads, lost, stray, pulled>>

\* The old cycle is destroyed at once, or queued until its connections end;
\* exit(1) if the queue cannot be allocated.
Commit ==
    /\ pc = "commit"
    /\ \/ /\ pc' = "idle" /\ cur' = new /\ new' = NULL /\ remain' = {}
          /\ IF Process = "master" \/ cur.init THEN UNCHANGED retired
             ELSE /\ tempPool' = TRUE /\ timer' = TRUE /\ conns' = 0
                  /\ old' = Append(old, [id |-> reloads, conns |-> conns])
       \/ /\ Process = "single" /\ ~cur.init /\ pc' = "exited"
          /\ UNCHANGED <<cur, new, remain, retired>>
    /\ UNCHANGED <<opening, kernel, reloads, ghosts>>

\* Mutants: all sockets of the new cycle, or none of them.
EverySocket == FdsOf(new.listen)
NoSocket == {}

\* The sockets this reload opened; those it took over belong to the old cycle.
OpenedSockets == {new.listen[i].fd : i \in {j \in DOMAIN new.listen : new.listen[j].open}} \ {NULL}

\* The label "failed".
FailedReload ==
    LET dead == FdsOf(new.files) \cup OpenedSockets IN
    /\ pc = "failed" /\ pc' = GivenUp
    /\ fds' = CloseAll(dead)
    /\ Misused("close", dead \cap FreeFds # {})
    /\ stray' = stray \cup (SegsOf(new.zones) \ SegsOf(cur.zones))
    /\ new' = NULL
    /\ UNCHANGED <<cur, remain, opening, paths, foreign, mapped, pidfiles, retired,
                   reloads, lost, pulled>>

-----------------------------------------------------------------------------
(* Connections, the cleaner's timer, and other processes.                  *)

Accept ==
    /\ pc = "idle" /\ Process = "single" /\ ~cur.init /\ conns < MaxConns
    /\ conns' = conns + 1
    /\ UNCHANGED <<pc, cur, new, remain, opening, kernel, old, tempPool, timer, reloads,
                   ghosts>>

CloseConn ==
    /\ pc = "idle" /\ conns > 0 /\ conns' = conns - 1
    /\ UNCHANGED <<pc, cur, new, remain, opening, kernel, old, tempPool, timer, reloads,
                   ghosts>>

CloseOldConn(i) ==
    /\ pc = "idle" /\ old[i] # NULL /\ old[i].conns > 0
    /\ old' = [old EXCEPT ![i].conns = @ - 1]
    /\ UNCHANGED <<pc, cur, new, remain, opening, kernel, tempPool, timer, conns, reloads,
                   ghosts>>

\* Mutant: only the last cycle of the queue decides whether one is alive.
LiveLast == {i \in DOMAIN old : i = Len(old) /\ old[i] # NULL /\ old[i].conns > 0}

LiveOld == {i \in DOMAIN old : old[i] # NULL /\ old[i].conns > 0}

Cleaned == [i \in DOMAIN old |-> IF i \in LiveOld THEN old[i] ELSE NULL]

\* Mutant: the timer is not added again for the cycles that are still alive.
CleanOnce ==
    /\ pc = "idle" /\ timer
    /\ timer' = FALSE
    /\ IF LiveOld # {} THEN old' = Cleaned /\ UNCHANGED tempPool
       ELSE old' = <<>> /\ tempPool' = FALSE
    /\ UNCHANGED <<pc, cur, new, remain, opening, kernel, conns, reloads, ghosts>>

\* hky_clean_old_cycles; the event loop has cleared timer_set.
CleanOldCycles ==
    /\ pc = "idle" /\ timer
    /\ IF LiveOld # {} THEN old' = Cleaned /\ timer' = TRUE /\ UNCHANGED tempPool
       ELSE old' = <<>> /\ timer' = FALSE /\ tempPool' = FALSE
    /\ UNCHANGED <<pc, cur, new, remain, opening, kernel, conns, reloads, ghosts>>

OthersBind(a) ==
    /\ ~InUse(a) /\ Family[a] # "unix"
    /\ foreign' = foreign \cup {a}
    /\ UNCHANGED <<pc, cur, new, remain, opening, fds, paths, mapped, pidfiles, retired,
                   reloads, ghosts>>

OthersLeave(a) ==
    /\ a \in foreign /\ foreign' = foreign \ {a}
    /\ UNCHANGED <<pc, cur, new, remain, opening, fds, paths, mapped, pidfiles, retired,
                   reloads, ghosts>>

-----------------------------------------------------------------------------
ReloadStep ==
    \/ CreatePidfile \/ DeletePidfile \/ OpenFile \/ SetUpZone
    \/ MatchListeners \/ OpenListener \/ EndTry \/ Configure \/ InitModules
    \/ FreeOldZones \/ CloseOldSocket \/ CloseOldFiles \/ Commit \/ FailedReload

Next ==
    \/ \E c \in Confs : Begin(c)
    \/ RejectConf \/ ReloadStep
    \/ Accept \/ CloseConn \/ CleanOldCycles
    \/ \E i \in DOMAIN old : CloseOldConn(i)
    \/ \E a \in Addrs : OthersBind(a) \/ OthersLeave(a)

\* A reload runs to its end; the event loop runs expired timers; and the
\* connections of a retired cycle, which gets no new ones, end some day.
Fairness ==
    /\ WF_vars(ReloadStep) /\ WF_vars(CleanOldCycles)
    /\ \A i \in 1..MaxReloads : WF_vars(i \in DOMAIN old /\ CloseOldConn(i))

Spec == Init /\ [][Next]_vars
FairSpec == Spec /\ Fairness

-----------------------------------------------------------------------------
TypeOK ==
    /\ pc \in {"idle", "pid", "unpid", "files", "zones", "match", "open", "configure",
               "modules", "freezones", "closesocks", "closefiles", "commit", "failed",
               "exited"}
    /\ cur \in Cycle /\ new \in Cycle \cup {NULL}
    /\ remain \subseteq DOMAIN cur.listen
    /\ at \in Nat \ {0} /\ busy \in BOOLEAN /\ triesLeft \in 0..Tries
    /\ fds \in [Fds -> Descriptor]
    /\ paths \subseteq Addrs /\ foreign \subseteq Addrs
    /\ mapped \subseteq Segs /\ pidfiles \subseteq Pids
    /\ old \in Seq(RetiredCycle \cup {NULL})
    /\ tempPool \in BOOLEAN /\ timer \in BOOLEAN /\ conns \in 0..MaxConns
    /\ reloads \in 0..MaxReloads
    /\ lost \subseteq Fds /\ stray \subseteq Segs
    /\ pulled \in BOOLEAN /\ misuse \subseteq {"close", "unmap"}

\* Between reloads, however the last ones ended, the process holds exactly the
\* descriptors its cycle knows of, and those hky_create_pidfile left open.
FdsOwned ==
    /\ TypeOK
    /\ pc = "idle" =>
      LET held == FdsOf(cur.listen) \cup FdsOf(cur.files) IN
      /\ Fds \ FreeFds = held \cup lost
      /\ held \cap lost = {} /\ FdsOf(cur.listen) \cap FdsOf(cur.files) = {}

\* Each descriptor of the cycle is what the cycle takes it for: the socket
\* bound to the listener's "listening socket address", with its path if it is
\* a unix one, or the file of the name.  A changed backlog has reached the
\* kernel, although hky_open_listening_sockets passes over a socket that is
\* taken over.  Two sockets are excepted, which keep the backlog they had: one
\* whose last listen() was refused, which is only logged, and an inherited one
\* until a configuration asks for another backlog than HKY_LISTEN_BACKLOG,
\* which hky_set_inherited_sockets takes it to have whatever the process before
\* asked for.
RightDescriptor ==
    pc = "idle" =>
      /\ \A i \in DOMAIN cur.listen :
            LET l == cur.listen[i] IN
            /\ fds[l.fd].kind = "socket" /\ fds[l.fd].name = l.addr
            /\ Family[l.addr] = "unix" => l.addr \in paths
            /\ l.addr \notin Dgram /\ fds[l.fd].told => fds[l.fd].backlog = l.backlog
      /\ \A i \in DOMAIN cur.files :
            LET f == cur.files[i] IN f.fd # 2 => fds[f.fd] = File(f.name)

\* Nothing is closed or unmapped that already was: not by the failure path,
\* not by the release of the old cycle.  After a zone has withdrawn its noreuse
\* (ZonesMapped) the segment it lost may be unmapped again.
NoMisuse == misuse \subseteq (IF pulled THEN {"unmap"} ELSE {})

Listened == {a \in Addrs : \E fd \in Fds : fds[fd].kind = "socket" /\ fds[fd].name = a}
Phase ==
    IF pc = "idle" THEN "steady"
    ELSE IF pc = "exited" THEN "exited"
    ELSE IF pc \in {"freezones", "closesocks", "closefiles", "commit"} THEN "dropping"
    ELSE "opening"

Service == INSTANCE HkyService WITH
    phase <- Phase, conf <- ConfAddrs(cur), listened <- Listened,
    wanted <- IF new = NULL THEN ConfAddrs(cur) ELSE ConfAddrs(new)

\* Clients see what HkyService says: an address both configurations have is
\* listened on in every state of a reload, none is dropped before all the new
\* ones listen, and a failed reload ends with exactly the old ones.
ServiceSpec == Service!Spec

\* Between reloads the mapped segments are those of the cycle's zones, one
\* each, and those that were mapped and forgotten: by reloads that failed, and
\* when a zone of the same name, size and tag began to ask for noreuse.  Whether
\* a segment is taken over depends on the noreuse of the new zone and whether
\* it is released on that of the old one, so this holds until a zone stops
\* asking for it: then the segment the new zone has taken over is unmapped.
ZonesMapped ==
    pc = "idle" /\ ~pulled =>
      /\ mapped = SegsOf(cur.zones) \cup stray
      /\ SegsOf(cur.zones) \cap stray = {}
      /\ \A i, j \in DOMAIN cur.zones :
            cur.zones[i].seg = cur.zones[j].seg => i = j

\* No retired cycle is destroyed, or dropped from the queue, under a live
\* connection.
LiveKept ==
    [][\A i \in DOMAIN old :
          old[i] # NULL /\ old[i].conns > 0 => i \in DOMAIN old' /\ old'[i] # NULL]_vars

Waiting == {old[i].id : i \in {j \in DOMAIN old : old[j] # NULL}}

\* Every retired cycle is destroyed in the end, whatever retires after it.
RetiredFreed ==
    \A id \in 1..MaxReloads : id \in Waiting ~> (id \notin Waiting \/ pc = "exited")

\* Once there is a pid file, there is one at every moment, so that a reload can
\* still be asked for: a new name is there before the old one goes.
PidfileStays == [][pidfiles # {} => pidfiles' # {}]_vars

\* Every reload ends, however often its addresses are in use.
ReloadEnds == pc \notin {"idle", "exited"} ~> pc \in {"idle", "exited"}
=============================================================================
