----------------------------- MODULE HkySyslog ------------------------------
(***************************************************************************)
(* Log calls of one process, with the syslog peers and across reloads       *)
(* (core/hky_log.c, core/hky_syslog.c).  A line that goes to a peer may need *)
(* a socket, and each system call that fails is itself logged, through the   *)
(* log of the cycle in force: log calls nest.  "stack" holds those in        *)
(* progress, the last is the innermost.  A cycle's pool runs a cleanup for   *)
(* each connect of a peer when it is destroyed.                              *)
(***************************************************************************)
EXTENDS HkyLog, FiniteSets

CONSTANTS
    Confs,          \* the configurations a reload may find: sequences of directives
    Fds,            \* descriptors that are free for sockets of peers
    Levels,         \* the levels of the messages of other parts
    MaxCycles,      \* bound: the cycles the process makes, the first included
    MaxCleanups,    \* bound: a pool with so many cleanups is out of memory
    MaxTime         \* bound: seconds

Directives == [to: {"file", "syslog", "memory"}, file: STRING, words: Seq(STRING),
               args: Seq([key: STRING, value: STRING])]

ASSUME SyslogAssumption ==
    /\ Confs \subseteq Seq(Directives)
    /\ \A conf \in Confs : \A i \in DOMAIN conf : conf[i].to = "file" => conf[i].file # NoFile
    /\ Fds \subseteq Nat \ {0} /\ Levels \subseteq 1..(DEBUG - 1)
    /\ MaxCycles \in Nat /\ MaxCleanups \in Nat /\ MaxTime \in Nat

VARIABLES
    cycles,         \* [conf, logs, peers, cleanups], or Gone once its pool is destroyed
    hky_cycle,      \* the cycle in force
    reload,         \* [phase, cycle, left]: the hky_init_cycle in progress
    dying,          \* the pool that is being destroyed: [cycle, left, run], or None
    sockets,        \* the kernel's table: the peer that opened it, for each open number
    stack,          \* the calls of hky_log_error_core in progress
    hky_time,       \* the cached second
    doubled,        \* history: a peer was cleaned up that had been before
    hky_process     \* the role of the process

vars == <<cycles, hky_cycle, reload, dying, sockets, stack, hky_time, doubled, hky_process>>

Gone == [conf |-> <<>>, logs |-> <<>>, peers |-> <<>>, cleanups |-> <<>>]
NoReload == [phase |-> "none", cycle |-> 0, left |-> <<>>]
NotDying == [cycle |-> 0, left |-> <<>>, run |-> {}]

FileDirective(name, words) == [to |-> "file", file |-> name, args |-> <<>>, words |-> words]

\* hky_log_init: the log of the process before it has read a configuration.
LogInit(name) ==
    [conf |-> <<FileDirective(name, <<"notice">>)>>, logs |-> <<FileLog(name, NOTICE)>>,
     peers |-> <<>>, cleanups |-> <<>>]

Init ==
    /\ \E name \in {DefaultFile, Stderr} : cycles = <<LogInit(name)>>
    /\ hky_cycle = 1
    /\ reload = NoReload /\ dying = NotDying
    /\ sockets = [fd \in {} |-> 0]
    /\ stack = <<>> /\ hky_time = 1 /\ doubled = FALSE
    /\ hky_process \in {"master", "single"}

-----------------------------------------------------------------------------
(* A call of hky_log_error_core walks along the chain.  While it is at a      *)
(* peer, "step" says what comes next for that peer.                          *)

NewCall(c, level) ==
    [cycle |-> c, level |-> level, at |-> 1, step |-> "walk", fd |-> -1,
     reached |-> <<>>, wrote_stderr |-> FALSE]

\* The macro hky_log_error looks at the head first.
LogError(calls, c, level) ==
    IF cycles[c].logs[1].log_level >= level THEN Append(calls, NewCall(c, level)) ELSE calls

Replace(call) == [stack EXCEPT ![Len(stack)] = call]
Complain(call, level) == LogError(Replace(call), hky_cycle, level)

call == stack[Len(stack)]
log == cycles[call.cycle].logs[call.at]
id == <<call.cycle, log.peer>>
peer == cycles[call.cycle].peers[log.peer]

Walking == stack # <<>> /\ call.step = "walk"
At(step) == stack # <<>> /\ call.step = step

Taken == call.at # 0 /\ log.log_level >= call.level

\* What a log writes to, as the directive names it.
Target(l) == [file |-> l.file, peer |-> l.peer]

Onward == [call EXCEPT !.at = log.next, !.step = "walk", !.fd = -1,
                       !.reached = Append(@, Target(log))]

SetPeer(field, value) ==
    cycles' = [cycles EXCEPT ![call.cycle].peers[log.peer][field] = value]

Close(fd) == sockets' = [n \in DOMAIN sockets \ {fd} |-> sockets[n]]

\* The disk was full in this second: nothing is tried, the next log has its turn.
SkipFullDisk ==
    /\ Walking /\ Taken /\ log.peer = 0 /\ log.disk_full_time = hky_time
    /\ stack' = Replace(Onward)
    /\ UNCHANGED <<cycles, hky_cycle, reload, dying, sockets, hky_time, doubled, hky_process>>

WriteFile(full) ==
    /\ Walking /\ Taken /\ log.peer = 0 /\ log.disk_full_time # hky_time
    /\ cycles' = IF full THEN [cycles EXCEPT ![call.cycle].logs[call.at].disk_full_time = hky_time]
                 ELSE cycles
    /\ stack' = Replace([Onward EXCEPT !.wrote_stderr = @ \/ log.file = Stderr])
    /\ UNCHANGED <<hky_cycle, reload, dying, sockets, hky_time, doubled, hky_process>>

\* A warning or worse goes to the console as well, unless a log wrote it there.
EndWalk ==
    /\ Walking /\ ~Taken
    /\ stack' = Replace([call EXCEPT !.step = "told",
                                     !.wrote_stderr = @ \/ call.level <= WARN])
    /\ UNCHANGED <<cycles, hky_cycle, reload, dying, sockets, hky_time, doubled, hky_process>>

Return ==
    /\ At("told")
    /\ stack' = SubSeq(stack, 1, Len(stack) - 1)
    /\ UNCHANGED <<cycles, hky_cycle, reload, dying, sockets, hky_time, doubled, hky_process>>

-----------------------------------------------------------------------------
(* hky_syslog_writer and hky_syslog_send *)

\* Mutant: nothing keeps a peer from being entered again.
NeverBusy == FALSE

Busy == peer.busy

WriterBusy ==
    /\ Walking /\ Taken /\ log.peer # 0 /\ Busy
    /\ stack' = Replace(Onward)
    /\ UNCHANGED <<cycles, hky_cycle, reload, dying, sockets, hky_time, doubled, hky_process>>

SyslogWriter ==
    /\ Walking /\ Taken /\ log.peer # 0 /\ ~Busy
    /\ SetPeer("busy", TRUE)
    /\ stack' = Replace([call EXCEPT !.step = IF peer.fd = -1 THEN "connect" ELSE "send"])
    /\ UNCHANGED <<hky_cycle, reload, dying, sockets, hky_time, doubled, hky_process>>

WriterDone ==
    /\ At("sent")
    /\ SetPeer("busy", FALSE)
    /\ stack' = Replace(Onward)
    /\ UNCHANGED <<hky_cycle, reload, dying, sockets, hky_time, doubled, hky_process>>

\* hky_syslog_init_peer: no socket.
SocketFails ==
    /\ At("connect")
    /\ stack' = Complain([call EXCEPT !.step = "sent"], ALERT)
    /\ UNCHANGED <<cycles, hky_cycle, reload, dying, sockets, hky_time, doubled, hky_process>>

FreeFds == Fds \ DOMAIN sockets
Opened(fd) == [n \in DOMAIN sockets \cup {fd} |-> IF n = fd THEN id ELSE sockets[n]]

\* The socket cannot be made nonblocking or connected.
ConnectFails ==
    /\ At("connect") /\ FreeFds # {}
    /\ sockets' = Opened(FirstOf(FreeFds))
    /\ stack' = Complain([call EXCEPT !.step = "failed", !.fd = FirstOf(FreeFds)], ALERT)
    /\ UNCHANGED <<cycles, hky_cycle, reload, dying, hky_time, doubled, hky_process>>

\* The pool has no memory for another cleanup, and says so to its own log: that
\* of its cycle, whichever cycle is in force.
NoCleanup ==
    /\ At("connect") /\ FreeFds # {}
    /\ sockets' = Opened(FirstOf(FreeFds))
    /\ stack' = LogError(Replace([call EXCEPT !.step = "failed", !.fd = FirstOf(FreeFds)]),
                         call.cycle, EMERG)
    /\ UNCHANGED <<cycles, hky_cycle, reload, dying, hky_time, doubled, hky_process>>

CloseFailed ==
    /\ At("failed")
    /\ Close(call.fd)
    /\ stack' = Replace([call EXCEPT !.step = "sent"])
    /\ UNCHANGED <<cycles, hky_cycle, reload, dying, hky_time, doubled, hky_process>>

\* Each connect adds a cleanup, whether or not the peer has one already.
InitPeer ==
    /\ At("connect") /\ FreeFds # {}
    /\ Len(cycles[call.cycle].cleanups) < MaxCleanups
    /\ sockets' = Opened(FirstOf(FreeFds))
    /\ cycles' = [cycles EXCEPT ![call.cycle].cleanups = <<log.peer>> \o @,
                                ![call.cycle].peers[log.peer].fd = FirstOf(FreeFds)]
    /\ stack' = Replace([call EXCEPT !.step = "send"])
    /\ UNCHANGED <<hky_cycle, reload, dying, hky_time, doubled, hky_process>>

\* Sent, or left out because the socket would block.
Send ==
    /\ At("send") /\ peer.fd \in DOMAIN sockets
    /\ stack' = Replace([call EXCEPT !.step = "sent"])
    /\ UNCHANGED <<cycles, hky_cycle, reload, dying, sockets, hky_time, doubled, hky_process>>

\* hky_connection_error, of an error that is expected or not.
SendFails(level) ==
    /\ At("send")
    /\ stack' = Complain([call EXCEPT !.step = IF peer.server = "unix" THEN "close" ELSE "sent"],
                         level)
    /\ UNCHANGED <<cycles, hky_cycle, reload, dying, sockets, hky_time, doubled, hky_process>>

\* Mutant: the number of the socket is kept after it is closed.
ForgottenKept == UNCHANGED cycles

Forgotten == SetPeer("fd", -1)

\* A unix socket is of no use after an error; the next message connects again.
CloseUnix ==
    /\ At("close")
    /\ Close(peer.fd)
    /\ stack' = IF peer.fd \in DOMAIN sockets THEN Replace([call EXCEPT !.step = "sent"])
                ELSE Complain([call EXCEPT !.step = "sent"], ALERT)
    /\ Forgotten
    /\ UNCHANGED <<hky_cycle, reload, dying, hky_time, doubled, hky_process>>

-----------------------------------------------------------------------------
(* What others do: they log, time goes on, configurations are loaded.        *)

Idle == stack = <<>> /\ dying = NotDying

\* Whose log a part may use: that of the cycle in force, of the one that is
\* being loaded once its files are open, and of those that still have clients.
Speaking(c) ==
    /\ cycles[c] # Gone
    /\ c = reload.cycle => reload.phase = "made"

Message(c, level) ==
    /\ Idle /\ Speaking(c)
    /\ cycles[c].logs[1].log_level >= level
    /\ stack' = LogError(stack, c, level)
    /\ UNCHANGED <<cycles, hky_cycle, reload, dying, sockets, hky_time, doubled, hky_process>>

Tick ==
    /\ Idle /\ hky_time < MaxTime
    /\ hky_time' = hky_time + 1
    /\ UNCHANGED <<cycles, hky_cycle, reload, dying, sockets, stack, doubled, hky_process>>

Begin(conf) ==
    /\ Idle /\ reload = NoReload /\ Len(cycles) < MaxCycles
    /\ cycles' = Append(cycles, [conf |-> conf, logs |-> <<NewLog>>,
                                 peers |-> <<>>, cleanups |-> <<>>])
    /\ reload' = [phase |-> "conf", cycle |-> Len(cycles) + 1, left |-> conf]
    /\ UNCHANGED <<hky_cycle, dying, sockets, stack, hky_time, doubled, hky_process>>

ErrorLog ==
    /\ Idle /\ reload.phase = "conf" /\ reload.left # <<>>
    /\ ~Refused(Head(reload.left))
    /\ cycles' = [cycles EXCEPT ![reload.cycle] = SetLog(@, Head(reload.left))]
    /\ reload' = [reload EXCEPT !.left = Tail(@)]
    /\ UNCHANGED <<hky_cycle, dying, sockets, stack, hky_time, doubled, hky_process>>

OpenLogs ==
    /\ Idle /\ reload.phase = "conf" /\ reload.left = <<>>
    /\ cycles' = [cycles EXCEPT ![reload.cycle].logs = LogOpenDefault(@)]
    /\ reload' = [reload EXCEPT !.phase = "made"]
    /\ UNCHANGED <<hky_cycle, dying, sockets, stack, hky_time, doubled, hky_process>>

\* A directive is refused, or a later part of the reload fails: this is
\* reported to the old log before the new pool is destroyed.
Fail ==
    /\ Idle /\ reload.phase \in {"conf", "made"}
    /\ reload' = [reload EXCEPT !.phase = "failed"]
    /\ stack' = LogError(stack, hky_cycle, EMERG)
    /\ UNCHANGED <<cycles, hky_cycle, dying, sockets, hky_time, doubled, hky_process>>

Destroying(c) == [cycle |-> c, left |-> cycles[c].cleanups, run |-> {}]

DestroyNew ==
    /\ Idle /\ reload.phase = "failed"
    /\ dying' = Destroying(reload.cycle)
    /\ UNCHANGED <<cycles, hky_cycle, reload, sockets, stack, hky_time, doubled, hky_process>>

\* A master, and whoever loads the first configuration, destroys the old pool
\* at once.  The caller has not set hky_cycle by then.
DestroyOld ==
    /\ Idle /\ reload.phase = "made"
    /\ hky_process = "master" \/ hky_cycle = 1
    /\ reload' = [reload EXCEPT !.phase = "done"]
    /\ dying' = Destroying(hky_cycle)
    /\ UNCHANGED <<cycles, hky_cycle, sockets, stack, hky_time, doubled, hky_process>>

\* A single process retires the old cycle.
Retire ==
    /\ Idle /\ reload.phase = "made"
    /\ hky_process # "master" /\ hky_cycle # 1
    /\ hky_cycle' = reload.cycle /\ reload' = NoReload
    /\ UNCHANGED <<cycles, dying, sockets, stack, hky_time, doubled, hky_process>>

\* hky_clean_old_cycles, one of the cycles it finds without connections.
CleanOld(c) ==
    /\ Idle /\ reload = NoReload
    /\ c # hky_cycle /\ cycles[c] # Gone
    /\ dying' = Destroying(c)
    /\ UNCHANGED <<cycles, hky_cycle, reload, sockets, stack, hky_time, doubled, hky_process>>

-----------------------------------------------------------------------------
(* hky_destroy_pool with hky_syslog_cleanup *)

CleanedUp(c, k) == [cycles EXCEPT ![c].peers[k].busy = TRUE]

SyslogCleanup ==
    /\ stack = <<>> /\ dying.left # <<>>
    /\ LET k == Head(dying.left)
           fd == cycles[dying.cycle].peers[k].fd
       IN  /\ cycles' = CleanedUp(dying.cycle, k)
           /\ dying' = [dying EXCEPT !.left = Tail(@), !.run = @ \cup {k}]
           /\ Close(fd)
           /\ doubled' = (doubled \/ (fd # -1 /\ k \in dying.run))
           /\ stack' = IF fd = -1 \/ fd \in DOMAIN sockets THEN stack
                       ELSE LogError(stack, hky_cycle, ALERT)
    /\ UNCHANGED <<hky_cycle, reload, hky_time, hky_process>>

\* The pool is freed; after a reload the caller sets hky_cycle.
FreePool ==
    /\ stack = <<>> /\ dying # NotDying /\ dying.left = <<>>
    /\ cycles' = [cycles EXCEPT ![dying.cycle] = Gone]
    /\ dying' = NotDying
    /\ hky_cycle' = IF reload.phase = "done" THEN reload.cycle ELSE hky_cycle
    /\ reload' = NoReload
    /\ UNCHANGED <<sockets, stack, hky_time, doubled, hky_process>>

LogStep ==
    \/ SkipFullDisk
    \/ \E full \in BOOLEAN : WriteFile(full)
    \/ EndWalk \/ Return
    \/ WriterBusy \/ SyslogWriter \/ WriterDone
    \/ SocketFails \/ ConnectFails \/ NoCleanup \/ CloseFailed \/ InitPeer
    \/ Send \/ CloseUnix
    \/ \E level \in {ALERT, ERR} : SendFails(level)

Next ==
    \/ LogStep
    \/ \E c \in DOMAIN cycles, level \in Levels : Message(c, level)
    \/ Tick
    \/ \E conf \in Confs : Begin(conf)
    \/ ErrorLog \/ OpenLogs \/ Fail
    \/ DestroyNew \/ DestroyOld \/ Retire
    \/ \E c \in DOMAIN cycles : CleanOld(c)
    \/ SyslogCleanup \/ FreePool

Spec == Init /\ [][Next]_vars

-----------------------------------------------------------------------------
\* What the words of a directive ask for, by their documented meaning.
Wants(directive, level) ==
    LET plain == {n \in DOMAIN LevelNames : LevelNames[n] \in ToSet(directive.words)}
    IN  CASE directive.words = <<>> -> level <= ERR
          [] plain # {}             -> \A n \in plain : level <= n
          [] OTHER                  -> TRUE

\* A configuration that names no file gets the default one.
Asked(conf) ==
    conf \o IF \E i \in DOMAIN conf : conf[i].to = "file" THEN <<>>
            ELSE <<FileDirective(DefaultFile, <<>>)>>

\* What a directive names; the peers of a configuration are numbered.
TargetOf(all, i) ==
    IF all[i].to = "file" THEN [file |-> all[i].file, peer |-> 0]
    ELSE [file |-> NoFile, peer |-> Cardinality({j \in 1..i : all[j].to = "syslog"})]

\* The targets of a configuration that want a message.
Promised(conf, level) ==
    LET all == Asked(conf)
    IN  [i \in {j \in DOMAIN all : Wants(all[j], level)} |-> TargetOf(all, i)]

(* A call of hky_log_error_core is over with no more and no fewer logs seen   *)
(* than the directives of the cycle ask for at the level of the message,      *)
(* whatever their order in the file, whatever happened to a log before; a     *)
(* warning or worse is on the console; and a message that the head of the     *)
(* chain keeps from being a call at all is one that no directive asks for.    *)
EachLogReached ==
    /\ At("told") =>
         /\ ToBag(call.reached) = ToBag(Promised(cycles[call.cycle].conf, call.level))
         /\ call.level <= WARN => call.wrote_stderr
    /\ \A c \in DOMAIN cycles, level \in Levels :
         Speaking(c) /\ cycles[c].logs[1].log_level < level
           => DOMAIN Promised(cycles[c].conf, level) = {}

\* The peer a call is writing to.
InWriter(n) == stack[n].step \notin {"walk", "told"}
PeerOf(n) == <<stack[n].cycle, cycles[stack[n].cycle].logs[stack[n].at].peer>>

(* The errors of a peer are logged, but not through the peer that is writing, *)
(* nor through one whose cleanup has run; and a peer that nobody is in takes  *)
(* the next message, whichever way the last one ended.                       *)
SendsGuarded ==
    /\ \A m, n \in DOMAIN stack :
         InWriter(m) /\ InWriter(n) /\ PeerOf(m) = PeerOf(n) => m = n
    /\ \A n \in DOMAIN stack :
         InWriter(n) /\ PeerOf(n)[1] = dying.cycle => PeerOf(n)[2] \notin dying.run
    /\ \A c \in DOMAIN cycles : \A k \in DOMAIN cycles[c].peers :
         cycles[c].peers[k].busy =>
           \/ c = dying.cycle /\ k \in dying.run
           \/ \E n \in DOMAIN stack : InWriter(n) /\ PeerOf(n) = <<c, k>>

(* No socket is forgotten and none is used that is not the peer's own, through *)
(* errors, reconnects and reloads: an open socket is that of a peer whose     *)
(* cleanup is to come, or of one that is connecting; and a peer's number is   *)
(* its own socket.  This ends with the second cleanup of a peer that had to   *)
(* connect twice, for hky_syslog_cleanup closes the same number again.        *)
SocketsOwned ==
    ~doubled =>
        /\ \A fd \in DOMAIN sockets :
             LET c == sockets[fd][1]
                 k == sockets[fd][2]
             IN  \/ /\ cycles[c] # Gone /\ cycles[c].peers[k].fd = fd
                    /\ k \in ToSet(IF c = dying.cycle THEN dying.left ELSE cycles[c].cleanups)
                 \/ \E n \in DOMAIN stack :
                      InWriter(n) /\ stack[n].fd = fd /\ PeerOf(n) = sockets[fd]
        /\ \A c \in DOMAIN cycles : \A k \in DOMAIN cycles[c].peers :
             LET fd == cycles[c].peers[k].fd IN
             \/ fd = -1
             \/ c = dying.cycle /\ k \in dying.run
             \/ fd \in DOMAIN sockets /\ sockets[fd] = <<c, k>>
=============================================================================
