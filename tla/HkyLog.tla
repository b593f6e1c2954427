------------------------------- MODULE HkyLog -------------------------------
(***************************************************************************)
(* The chain of logs of a cycle (core/hky_log.c): how error_log directives *)
(* build it.  The logs of a cycle are a sequence; a pointer to a log is its *)
(* position, &cycle->new_log is 1 and NULL is 0.  A log writes to a file or *)
(* to a syslog peer (core/hky_syslog.c), which is a position among the      *)
(* peers of the cycle.                                                      *)
(***************************************************************************)
EXTENDS HkyOrder, Sequences, SequencesExt

LevelNames == <<"emerg", "alert", "crit", "error", "warn", "notice", "info", "debug">>
EMERG == 1
ALERT == 2
ERR == 4
WARN == 5
NOTICE == 6
DEBUG == 8

DebugNames == <<"debug_core", "debug_alloc", "debug_mutex", "debug_event",
                "debug_http", "debug_mail", "debug_stream">>
DebugBits == <<16, 32, 64, 128, 256, 512, 1024>>
DebugBit(n) == DebugBits[n]
HasBit(level, n) == (level \div DebugBit(n)) % 2 = 1

Invalid == -1
Unset == "unset"
NoFile == "none"
Stderr == "stderr"
DefaultFile == "error.log"    \* HKY_ERROR_LOG_PATH

-----------------------------------------------------------------------------
(* hky_log_set_levels *)

\* A plain level stands alone; kinds of debug messages may stand together.
SetLevel(level, word) ==
    LET plain == {n \in 1..(DEBUG - 1) : LevelNames[n] = word}
        bits  == {n \in DOMAIN DebugNames : DebugNames[n] = word}
    IN  CASE level = Invalid                      -> Invalid
          [] plain # {} /\ level = 0              -> FirstOf(plain)
          [] bits # {} /\ level % DebugBit(1) = 0 ->
                LET n == FirstOf(bits) IN
                IF HasBit(level, n) THEN level ELSE level + DebugBit(n)
          [] OTHER                                -> Invalid

\* The last test of the function, for HKY_LOG_DEBUG, is dead: no word sets it.
SetLevels(words) ==
    LET level[n \in 0..Len(words)] ==
            IF n = 0 THEN 0 ELSE SetLevel(level[n - 1], words[n])
    IN  IF words = <<>> THEN ERR ELSE level[Len(words)]

-----------------------------------------------------------------------------
(* hky_syslog_process_conf: an argument has a key and a value; the value     *)
(* "bad" is one that the parsers of addresses, names and tags refuse.        *)

NoPeer == [server |-> Unset, given |-> {}, refused |-> FALSE]

Single == {"server", "facility", "severity", "tag"}

ParseArg(peer, arg) ==
    [server  |-> IF arg.key = "server" THEN arg.value ELSE peer.server,
     given   |-> peer.given \cup {arg.key},
     refused |-> \/ peer.refused \/ arg.value = "bad"
                 \/ arg.key \in Single \cap peer.given
                 \/ arg.key \notin Single \cup {"nohostname"}]

ParseArgs(args) == FoldLeft(ParseArg, NoPeer, args)

PeerRefused(args) ==
    LET peer == ParseArgs(args) IN peer.refused \/ "server" \notin peer.given

\* Of what was parsed, sending depends on the family of the server only: the
\* severity is overwritten for each message, the rest is text.
SyslogPeer(args) == [server |-> ParseArgs(args).server, fd |-> -1, busy |-> FALSE]

-----------------------------------------------------------------------------
(* The chain *)

NewLog == [log_level |-> 0, file |-> NoFile, peer |-> 0, next |-> 0, disk_full_time |-> 0]

\* Where a loop from the head comes to that goes on to the next log from those
\* in "passed": the least set of logs with the head that is closed under that.
Visited(logs, passed) ==
    LET Closed(S) == 1 \in S /\ \A p \in S \cap passed : logs[p].next \in S \cup {0}
    IN  {p \in DOMAIN logs : \A S \in SUBSET DOMAIN logs : Closed(S) => p \in S}

\* The log that the new one comes behind: the first whose next is lower, or the last.
Fits(logs, i, p) ==
    \/ logs[p].next = 0
    \/ logs[i].log_level > logs[logs[p].next].log_level

Before(logs, i) ==
    CHOOSE p \in Visited(logs, {p \in DOMAIN logs : ~Fits(logs, i, p)}) : Fits(logs, i, p)

\* Mutant: a log of a higher level is put behind the head, not in its place.
LogInsertBehind(logs, i) ==
    LET b == Before(logs, i)
    IN  [logs EXCEPT ![i].next = logs[b].next, ![b].next = i]

\* A log that is higher than the head changes places with it, by value.
LogInsert(logs, i) ==
    IF logs[i].log_level > logs[1].log_level
    THEN [logs EXCEPT ![1] = [logs[i] EXCEPT !.next = i], ![i] = logs[1]]
    ELSE LET b == Before(logs, i)
         IN  [logs EXCEPT ![i].next = logs[b].next, ![b].next = i]

\* Into the head while it is unused, else into a log of its own.
AddLog(logs, log) ==
    IF logs[1].log_level = 0 THEN [logs EXCEPT ![1] = log]
    ELSE LogInsert(Append(logs, log), Len(logs) + 1)

-----------------------------------------------------------------------------
(* The directive error_log, hky_log_set_log, of a build without debug        *)
(* support: a log in memory is refused.                                      *)

Refused(directive) ==
    \/ directive.to = "memory"
    \/ directive.to = "syslog" /\ PeerRefused(directive.args)
    \/ SetLevels(directive.words) = Invalid

FileLog(name, level) == [NewLog EXCEPT !.file = name, !.log_level = level]
PeerLog(k, level) == [NewLog EXCEPT !.peer = k, !.log_level = level]

SetLog(cycle, directive) ==
    LET level == SetLevels(directive.words) IN
    IF directive.to = "syslog"
    THEN [cycle EXCEPT !.peers = Append(@, SyslogPeer(directive.args)),
                       !.logs = AddLog(@, PeerLog(Len(cycle.peers) + 1, level))]
    ELSE [cycle EXCEPT !.logs = AddLog(@, FileLog(directive.file, level))]

HasFileLog(logs) == \E p \in Visited(logs, DOMAIN logs) : logs[p].file # NoFile

LogOpenDefault(logs) ==
    IF HasFileLog(logs) THEN logs ELSE AddLog(logs, FileLog(DefaultFile, ERR))
=============================================================================
