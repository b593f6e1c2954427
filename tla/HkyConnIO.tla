----------------------------- MODULE HkyConnIO ------------------------------
(* A stream connection between a process that sends a chain of buffers       *)
(* (hky_writev_chain, hky_unix_send) and one that receives (hky_unix_recv,   *)
(* hky_readv_chain), over a kernel that takes any part of a write and moves  *)
(* bytes when it likes.  The event loop of either side is external: it sets  *)
(* the bits of an event when the kernel reports one, and the way the kernel  *)
(* reports depends on the method of hky_event_flags.  A system call that was *)
(* interrupted is made again, which changes nothing, except in hky_unix_send.*)
EXTENDS HkyChain

CONSTANTS
    Chains,         \* the chains a caller may ask to send
    Limits,         \* the limits it may give, 0 for none
    ReadChains,     \* the chains of free space a reader may offer
    ReadSizes,      \* the sizes it may offer to hky_unix_recv
    SendIovs,       \* HKY_IOVS_PREALLOCATE
    ReadIovs,       \* IOV_MAX
    Capacity,       \* bytes the kernel holds between the two processes
    Methods         \* of the event loop: "level", "epoll", "rdhup", "kqueue"

\* No buffer without room: a read of nothing looks like the end of the stream,
\* and hky_writev_chain does not return from a chain that ends in an empty one.
\* The buffers of a reader do not overlap.
ASSUME ConnAssumption ==
    /\ Chains \subseteq Seq([kind : STRING, pos : Nat, last : Nat])
    /\ ReadChains \subseteq Seq([last : Nat, end : Nat])
    /\ \A c \in Chains : \A i \in DOMAIN c : c[i].kind = "memory" => c[i].pos < c[i].last
    /\ \A c \in ReadChains : c # <<>> /\ \A i \in DOMAIN c : c[i].last < c[i].end
    /\ \A c \in ReadChains : \A i, j \in DOMAIN c :
          i # j => c[i].end <= c[j].last \/ c[j].end <= c[i].last
    /\ Limits \subseteq Nat /\ ReadSizes \subseteq Nat \ {0}
    /\ Methods \subseteq {"level", "epoll", "rdhup", "kqueue"}
    /\ SendIovs \in Nat \ {0} /\ ReadIovs \in Nat \ {0} /\ Capacity \in Nat \ {0}

VARIABLES
    method, lenient,    \* the event method; c->log_error is IGNORE_ECONNRESET
    asked,              \* all bytes of the chain that is to be sent
    in,                 \* the chain that is left
    sent,               \* c->sent
    wev,                \* c->write
    call,               \* the hky_writev_chain in progress
    failed,             \* the sender was told HKY_ERROR
    stale,              \* "ready" of the sender is off, and no event will say otherwise
    net, rcv,           \* bytes under way, and those that have arrived
    ending,             \* "open"; "closed" by the sender; "fin" has arrived; "reset"
    wreport, rreport,   \* the kernel has a change to report to the sender, the reader
    rev,                \* c->read of the reader
    reading,            \* the hky_readv_chain in progress
    got,                \* the bytes the reader has
    told                \* what its last call said: "open", "eof" or "error"

senderVars == <<asked, in, sent, wev, call, failed, stale>>
readerVars == <<rev, reading, got, told>>
kernelVars == <<net, rcv, ending, wreport, rreport>>
vars == <<method, lenient, senderVars, readerVars, kernelVars>>

Idle == [active |-> FALSE]
NoLimit == 1000000      \* HKY_MAX_SIZE_T_VALUE - hky_pagesize: more than there is

InFile(chain, stop) == stop \in DOMAIN chain /\ chain[stop].kind = "file"
Room == Capacity - Len(net) - Len(rcv)

Init ==
    /\ method \in Methods
    /\ lenient \in BOOLEAN
    /\ in \in Chains
    /\ asked = Content(in)
    /\ sent = 0
    /\ wev = [ready |-> TRUE, error |-> FALSE, pending_eof |-> FALSE]
    /\ call = Idle
    /\ failed = FALSE
    /\ stale = FALSE
    /\ net = <<>> /\ rcv = <<>>
    /\ ending = "open"
    /\ wreport = FALSE /\ rreport = FALSE
    /\ rev = [ready |-> FALSE, available |-> 0, pending_eof |-> FALSE,
              eof |-> FALSE, error |-> FALSE]
    /\ reading = Idle
    /\ got = <<>>
    /\ told = "open"

-----------------------------------------------------------------------------
(* The sender. *)

SenderReady == ~call.active /\ ~failed /\ ending \in {"open", "reset"} /\ in # <<>>

(* The kernel takes n of the bytes: none when it is full (or there are none), *)
(* and any number else.  It reports when it can go on after it took too few. *)
Takes(bytes, n) ==
    /\ ending = "open"
    /\ n <= Room
    /\ n = 0 => Room = 0 \/ bytes = <<>>
    /\ net' = net \o SubSeq(bytes, 1, n)
    /\ wreport' = (wreport \/ n < Len(bytes))
    /\ sent' = sent + n
    /\ in' = UpdateSent(in, n)
    /\ UNCHANGED <<rcv, ending, rreport>>

(* hky_writev_chain up to its loop.  Without "ready" it returns at once. *)
WritevChain(limit) ==
    /\ SenderReady
    /\ wev.ready
    /\ IF method = "kqueue" /\ wev.pending_eof
         THEN /\ wev' = [wev EXCEPT !.error = TRUE]
              /\ failed' = TRUE
              /\ UNCHANGED call
         ELSE /\ call' = [active |-> TRUE, gathered |-> FALSE, bytes |-> <<>>,
                          send |-> 0, first |-> sent,
                          limit |-> IF limit = 0 THEN NoLimit ELSE limit]
              /\ UNCHANGED <<wev, failed>>
    /\ UNCHANGED <<method, lenient, asked, in, sent, stale, readerVars, kernelVars>>

(* One turn of its loop offers at most what the limit leaves. *)
Rest == call.limit - call.send

WritevGather ==
    /\ call.active /\ ~call.gathered
    /\ \E v \in {OutputChainToIovec(in, Rest, SendIovs)} :
         IF v.bad \/ InFile(in, v.stop)
           THEN call' = Idle /\ failed' = TRUE
           ELSE /\ call' = [call EXCEPT !.gathered = TRUE, !.bytes = v.bytes]
                /\ UNCHANGED failed
    /\ UNCHANGED <<method, lenient, asked, in, sent, wev, stale, readerVars, kernelVars>>

ReadyAfter(took) == wev.ready /\ took = Len(call.bytes)

(* hky_writev, and the rest of the turn. *)
Writev ==
    /\ call.active /\ call.gathered
    /\ \E n \in 0..Len(call.bytes) :
         /\ Takes(call.bytes, n)
         /\ wev' = [wev EXCEPT !.ready = ReadyAfter(n)]
         /\ call' = IF /\ n = Len(call.bytes)
                       /\ call.send + n < call.limit
                       /\ in' # <<>>
                      THEN [call EXCEPT !.send = @ + n, !.gathered = FALSE, !.bytes = <<>>]
                      ELSE Idle
    /\ UNCHANGED <<method, lenient, asked, failed, stale, readerVars>>

WritevFails ==
    /\ call.active /\ call.gathered
    /\ ending = "reset"
    /\ call' = Idle
    /\ wev' = [wev EXCEPT !.error = TRUE]
    /\ failed' = TRUE
    /\ UNCHANGED <<method, lenient, asked, in, sent, stale, readerVars, kernelVars>>

(* hky_unix_send of the first buffer; the caller advances its chain by what  *)
(* was sent.  An interruption clears "ready" and the call is made again; when *)
(* the kernel then takes all, nobody sets the bit again.                     *)
SendTakes(interrupted) ==
    LET bytes == Content(<<in[1]>>)
    IN  \E n \in 0..Len(bytes) :
          /\ Takes(bytes, n)
          /\ wev' = [wev EXCEPT !.ready = @ /\ ~interrupted /\ n = Len(bytes)]
          /\ stale' = (stale \/ (interrupted /\ wev.ready /\ ~wreport /\ n = Len(bytes)))
          /\ UNCHANGED failed

SendFails ==
    /\ (method = "kqueue" /\ wev.pending_eof) \/ ending = "reset"
    /\ wev' = [wev EXCEPT !.error = TRUE]
    /\ failed' = TRUE
    /\ UNCHANGED <<in, sent, stale, kernelVars>>

Send ==
    /\ SenderReady
    /\ in[1].kind = "memory"
    /\ SendFails \/ (\E i \in BOOLEAN : SendTakes(i))
    /\ UNCHANGED <<method, lenient, asked, call, readerVars>>

(* The sender closes the connection when it has sent all, or was told of an  *)
(* error that is not the connection's.                                       *)
CloseSender ==
    /\ ~call.active
    /\ in = <<>> \/ failed
    /\ ending = "open"
    /\ ending' = "closed"
    /\ UNCHANGED <<method, lenient, senderVars, readerVars, net, rcv, wreport, rreport>>

-----------------------------------------------------------------------------
(* The kernel and the event loops. *)

Arrive ==
    /\ \E n \in 1..Len(net) :
         /\ rcv' = rcv \o SubSeq(net, 1, n)
         /\ net' = SubSeq(net, n + 1, Len(net))
    /\ rreport' = TRUE
    /\ UNCHANGED <<method, lenient, senderVars, readerVars, ending, wreport>>

ArriveFin ==
    /\ ending = "closed" /\ net = <<>>
    /\ ending' = "fin"
    /\ rreport' = TRUE
    /\ UNCHANGED <<method, lenient, senderVars, readerVars, net, rcv, wreport>>

Reset ==
    /\ ending \in {"open", "closed"}
    /\ ending' = "reset"
    /\ net' = <<>> /\ rcv' = <<>>
    /\ wreport' = TRUE /\ rreport' = TRUE
    /\ UNCHANGED <<method, lenient, senderVars, readerVars>>

Over == ending \in {"fin", "reset"}
Readable == rcv # <<>> \/ Over

PollWrite ==
    /\ ~call.active /\ ~failed
    /\ wreport \/ (method = "level" /\ ~wev.ready)
    /\ Room > 0 \/ ending = "reset"
    /\ wev' = [wev EXCEPT !.ready = TRUE,
                          !.pending_eof = (method = "kqueue" /\ ending = "reset")]
    /\ wreport' = FALSE
    /\ stale' = FALSE
    /\ UNCHANGED <<method, lenient, asked, in, sent, call, failed, readerVars,
                   net, rcv, ending, rreport>>

(* "available" is a bit, but the number of bytes under kqueue. *)
PollRead ==
    /\ ~reading.active /\ told = "open"
    /\ rreport \/ (method = "level" /\ ~rev.ready)
    /\ Readable
    /\ rev' = [rev EXCEPT !.ready = TRUE,
                          !.available = IF method = "kqueue" THEN Len(rcv) ELSE 1,
                          !.pending_eof = Over /\ method \in {"rdhup", "kqueue"}]
    /\ rreport' = FALSE
    /\ UNCHANGED <<method, lenient, senderVars, reading, got, told,
                   net, rcv, ending, wreport>>

-----------------------------------------------------------------------------
(* The reader. *)

(* What the event says without a system call. *)
SaysEof == method = "kqueue" /\ rev.available = 0 /\ rev.pending_eof
SaysNothing ==
    /\ method \in {"epoll", "rdhup", "kqueue"}
    /\ rev.available = 0 /\ ~rev.pending_eof
AsksKernel == ~SaysEof /\ ~SaysNothing

(* hky_connection_error: a reader may have asked to ignore resets. *)
ToldOfReset == IF lenient THEN "eof" ELSE "error"

(* Mutant: a pending end of file does not keep the bit "ready". *)
DrainedForGood(n) == [rev EXCEPT !.ready = FALSE, !.available = 0]

(* The event after n bytes were read where "size" were asked for. *)
Drained(n) ==
    [rev EXCEPT !.ready = @ /\ rev.pending_eof, !.available = 0]

(* Mutant: the test of the greedy flag is forgotten. *)
EventAfterShort(n, size) ==
    IF method = "kqueue" THEN
      IF rev.available <= n THEN Drained(n) ELSE [rev EXCEPT !.available = @ - n]
    ELSE IF method = "rdhup" THEN
      IF n < size THEN Drained(n) ELSE rev
    ELSE [rev EXCEPT !.ready = @ /\ n = size]

EventAfter(n, size) ==
    IF method = "kqueue" THEN
      IF rev.available <= n THEN Drained(n) ELSE [rev EXCEPT !.available = @ - n]
    ELSE IF method = "rdhup" THEN
      IF n < size THEN Drained(n) ELSE rev
    ELSE [rev EXCEPT !.ready = @ /\ (n = size \/ method = "epoll")]

EventAtEof == [rev EXCEPT !.ready = FALSE, !.eof = TRUE,
                          !.available = IF method = "kqueue" THEN 0 ELSE @]

(* The kernel gives the reader min(size, what has arrived), which the reader *)
(* finds in its buffers as "found".                                          *)
Arrived(size) == SubSeq(rcv, 1, AtMost(size, Len(rcv)))
Gives(size, found) ==
    LET n == Len(Arrived(size))
    IN  /\ n > 0
        /\ got' = got \o found
        /\ rcv' = SubSeq(rcv, n + 1, Len(rcv))
        /\ rev' = EventAfter(n, size)
        /\ UNCHANGED <<told, net, ending, wreport, rreport>>

GivesEof ==
    /\ rcv = <<>> /\ ending = "fin"
    /\ rev' = EventAtEof
    /\ told' = "eof"
    /\ UNCHANGED <<got, kernelVars>>

GivesError ==
    /\ ending = "reset"
    /\ rev' = [rev EXCEPT !.ready = FALSE, !.error = @ \/ ~lenient]
    /\ told' = ToldOfReset
    /\ UNCHANGED <<got, kernelVars>>

GivesNothing ==
    /\ ~Readable
    /\ rev' = [rev EXCEPT !.ready = FALSE]
    /\ UNCHANGED <<got, told, kernelVars>>

ReaderReady == ~reading.active /\ told = "open"

(* The end of the stream as kqueue told it, without a call of the kernel. *)
EofFromEvent(resetSays) ==
    /\ SaysEof
    /\ rev' = [rev EXCEPT !.ready = FALSE, !.eof = TRUE, !.error = (ending = "reset")]
    /\ told' = IF ending = "reset" THEN resetSays ELSE "eof"
    /\ UNCHANGED <<got, kernelVars>>

(* hky_unix_recv *)
Recv(size) ==
    /\ ReaderReady
    /\ \/ EofFromEvent(ToldOfReset)
       \/ /\ SaysNothing
          /\ rev' = [rev EXCEPT !.ready = FALSE]
          /\ UNCHANGED <<got, told, kernelVars>>
       \/ /\ AsksKernel
          /\ Gives(size, Arrived(size)) \/ GivesEof \/ GivesError \/ GivesNothing
    /\ UNCHANGED <<method, lenient, senderVars, reading>>

(* hky_readv_chain up to its loop.  When the event says that there is        *)
(* nothing it returns HKY_AGAIN and leaves the event alone.                  *)
ReadvChain(chain, limit) ==
    /\ ReaderReady
    /\ \/ EofFromEvent("error") /\ UNCHANGED reading
       \/ /\ AsksKernel
          /\ \E v \in {InputChainToIovec(chain, limit, ReadIovs)} :
                reading' = [active |-> TRUE, into |-> v.into, space |-> v.space]
          /\ UNCHANGED <<rev, got, told, kernelVars>>
    /\ UNCHANGED <<method, lenient, senderVars>>

(* Its loop.  The condition "err = HKY_EINTR" assigns, so that EAGAIN, too,  *)
(* makes the call again: the reader does nothing else until there is a       *)
(* byte, an end or an error.                                                 *)
ReadvReturns ==
    /\ reading.active
    /\ \/ Gives(Len(reading.into), ReadBack(reading, Arrived(Len(reading.into))))
       \/ GivesEof
       \/ GivesError
    /\ reading' = Idle
    /\ UNCHANGED <<method, lenient, senderVars>>

-----------------------------------------------------------------------------
SenderStep ==
    \/ \E limit \in Limits : WritevChain(limit)
    \/ Send

ReaderStep ==
    \/ \E size \in ReadSizes : Recv(size)
    \/ \E chain \in ReadChains, limit \in Limits : ReadvChain(chain, limit)

Next ==
    \/ SenderStep
    \/ WritevGather \/ Writev \/ WritevFails
    \/ CloseSender
    \/ Arrive \/ ArriveFin \/ Reset
    \/ PollWrite \/ PollRead
    \/ ReaderStep
    \/ ReadvReturns

(* Each process goes on with a call it is in; its handler sends, or reads,   *)
(* while the event is ready, and closes in the end; the event loops report;  *)
(* the network delivers.                                                     *)
Fairness ==
    /\ WF_vars(WritevGather \/ Writev \/ WritevFails)
    /\ WF_vars(wev.ready /\ SenderStep)
    /\ WF_vars(CloseSender)
    /\ WF_vars(Arrive \/ ArriveFin)
    /\ WF_vars(PollWrite)
    /\ WF_vars(PollRead)
    /\ WF_vars(rev.ready /\ ReaderStep)
    /\ WF_vars(ReadvReturns)

Spec == Init /\ [][Next]_vars /\ Fairness

-----------------------------------------------------------------------------
(* Edge-triggered events are reported once, so a bit "ready" that is off      *)
(* while there is work for the process, and nothing left to report, is work  *)
(* that is never done: neither side forgets a byte, an end or free room.     *)
NoEventLost ==
    /\ ~wev.ready /\ ~stale /\ ~failed => wreport \/ method = "level"
    /\ ~rev.ready /\ told = "open" /\ Readable => rreport \/ method = "level"

(* The reader hears of the end, with all bytes before it, whatever the       *)
(* kernel's timing; only a sender whose hky_unix_send was interrupted may     *)
(* wait for ever.                                                            *)
Completes == <>(told # "open") \/ <>[](stale /\ in # <<>>)
=============================================================================
