---------------------------- MODULE HkyDatagram -----------------------------
(* A datagram socket: a process that sends a chain of buffers, cut into       *)
(* datagrams at its "flush" and "last_buf" bits (hky_udp_unix_sendmsg_chain), *)
(* or buffer by buffer (hky_udp_unix_send), and one that receives             *)
(* (hky_udp_unix_recv).  The kernel takes a datagram whole or not at all; the *)
(* network loses datagrams and changes their order.  A system call that was   *)
(* interrupted is made again, which changes nothing.                          *)
EXTENDS HkyChain

CONSTANTS
    DatagramChains,     \* chains; a buffer has a bit "ends": flush or last_buf
    DatagramLimits,     \* limits of a call, 0 for none
    DatagramSizes,      \* sizes the reader offers
    DatagramIovs,       \* HKY_IOVS_PREALLOCATE
    KernelRoom          \* datagrams the kernel of either side holds

\* An empty buffer in memory that ends a datagram is sent for ever: after its
\* datagram of no bytes hky_chain_update_sent leaves the chain as it was.
\* HkySockets, which takes this module as an instance, assumes it.
DatagramAssumption ==
    /\ DatagramChains \subseteq Seq([kind : STRING, pos : Nat, last : Nat, ends : BOOLEAN])
    /\ \A c \in DatagramChains : \A i \in DOMAIN c :
          c[i].kind = "memory" => c[i].pos < c[i].last
    /\ DatagramLimits \subseteq Nat /\ DatagramSizes \subseteq Nat \ {0}
    /\ DatagramIovs \in Nat \ {0} /\ KernelRoom \in Nat \ {0}

VARIABLES
    method,             \* of the event loop
    way,                \* "chain" or "buffer": which of the two functions sends
    chain,              \* what is left to send
    handed,             \* the datagrams the kernel has taken
    ready, wreport,     \* c->write->ready; the kernel has room to report
    call,               \* the call in progress: the bytes it has sent, its limit
    error,              \* the sender was told HKY_ERROR
    net, queue,         \* datagrams under way, and those that wait to be read
    rev, rreport,       \* c->read of the reader; arrivals to report
    got, refused        \* what it has read; it was told HKY_ERROR

senderVars == <<way, chain, handed, ready, wreport, call, error>>
readerVars == <<rev, rreport, got, refused>>
vars == <<method, senderVars, net, queue, readerVars>>

Idle == [active |-> FALSE, send |-> 0, limit |-> 0]

(* The parts of a chain that its ends cut off, each up to and with its end.  *)
Ends(c) == {i \in DOMAIN c : c[i].ends}

(* Mutant: the loop does not stop at an end, so that datagrams are joined.   *)
EndAtLast(c) == IF Ends(c) = {} THEN Len(c) + 1 ELSE LastOf(Ends(c))

(* Where the loop over a chain ends: behind the first end, if there is one.  *)
EndOfDatagram(c) == FirstOf(Ends(c) \cup {Len(c) + 1})

(* hky_udp_output_chain_to_iovec and the tests behind it: the bytes of the   *)
(* next datagram, or that there is none yet, or that the chain is in error:  *)
(* a buffer that holds nothing, one in a file, more iovecs than there are.   *)
(* A file before any end is only seen by the caller if it comes first.       *)
NextDatagram(c) ==
    LET spans == Sources(c)
        end   == EndOfDatagram(c)
        stop  == Stop(spans, {i \in DOMAIN c : c[i].kind \in {"file", "bad"}},
                      Before(spans, Len(c) + 1) + 1, DatagramIovs)
        none(how) == [how |-> how, bytes |-> <<>>]
    IN  IF stop <= Len(c) /\ stop <= end
          THEN IF c[stop].kind # "file" \/ stop \in {1, end} THEN none("error")
               ELSE none("wait")
        ELSE IF end = Len(c) + 1 THEN none("wait")
        ELSE [how |-> "send", bytes |-> Gathered(SubSeq(spans, 1, end), Before(spans, end + 1))]

Init ==
    /\ way \in {"chain", "buffer"}
    /\ chain \in DatagramChains
    /\ way = "buffer" => \A i \in DOMAIN chain : chain[i].kind = "memory"
    /\ handed = <<>>
    /\ ready = TRUE /\ wreport = FALSE
    /\ call = Idle
    /\ error = FALSE
    /\ net = <<>> /\ queue = <<>>
    /\ rev = [ready |-> FALSE, available |-> 0] /\ rreport = FALSE
    /\ got = <<>> /\ refused = FALSE

-----------------------------------------------------------------------------
(* The kernel takes a datagram; where it has no room it will report some.    *)
HasRoom == Len(net) < KernelRoom

Taken(bytes) ==
    /\ HasRoom
    /\ net' = Append(net, bytes)
    /\ handed' = Append(handed, bytes)
    /\ UNCHANGED <<wreport, error>>

Full ==
    /\ ~HasRoom
    /\ ready' = FALSE
    /\ wreport' = TRUE
    /\ UNCHANGED <<chain, handed, error, net>>

Fails ==
    /\ error' = TRUE
    /\ UNCHANGED <<chain, handed, ready, wreport, net>>

(* hky_udp_unix_sendmsg_chain up to its loop.                                *)
SendmsgChain(limit) ==
    /\ way = "chain" /\ chain # <<>> /\ ready
    /\ ~call.active /\ ~error
    /\ call' = [active |-> TRUE, send |-> 0, limit |-> limit]
    /\ UNCHANGED <<method, way, chain, handed, ready, wreport, error, net, queue,
                   readerVars>>

(* Mutant: a datagram that was taken clears the bit, as if it were short.    *)
ReadyNever == FALSE

(* The event after a datagram that the kernel took.                          *)
ReadyAfterSend == ready

(* A turn of its loop.  The limit is looked at between two datagrams only.   *)
SendTurn ==
    LET d == NextDatagram(chain)
    IN  /\ d.how = "send"
        /\ \/ /\ Taken(d.bytes)
              /\ ready' = ReadyAfterSend
              /\ chain' = UpdateSent(chain, Len(d.bytes))
              /\ LET send == call.send + Len(d.bytes)
                 IN  call' = IF \/ call.limit # 0 /\ send >= call.limit
                                \/ chain' = <<>>
                             THEN Idle ELSE [call EXCEPT !.send = send]
           \/ Full /\ call' = Idle
           \/ Fails /\ call' = Idle

NoneTurn ==
    LET d == NextDatagram(chain)
    IN  /\ d.how # "send"
        /\ error' = (d.how = "error")
        /\ call' = Idle
        /\ UNCHANGED <<chain, handed, ready, wreport, net>>

Turn ==
    /\ call.active
    /\ SendTurn \/ NoneTurn
    /\ UNCHANGED <<method, way, queue, readerVars>>

(* hky_udp_unix_send of the first buffer, whatever the event says; the       *)
(* caller goes on with the next one.                                         *)
UdpSend ==
    /\ way = "buffer" /\ chain # <<>> /\ ~error
    /\ \/ /\ Taken(Content(<<chain[1]>>))
          /\ chain' = Tail(chain)
          /\ UNCHANGED ready
       \/ Full
       \/ Fails
    /\ UNCHANGED <<method, way, call, queue, readerVars>>

PollWrite ==
    /\ ~call.active /\ ~error
    /\ wreport \/ (method = "level" /\ ~ready)
    /\ HasRoom
    /\ ready' = TRUE
    /\ wreport' = FALSE
    /\ UNCHANGED <<method, way, chain, handed, call, error, net, queue, readerVars>>

-----------------------------------------------------------------------------
Without(s, i) == SubSeq(s, 1, i - 1) \o SubSeq(s, i + 1, Len(s))

(* Any datagram under way may be the next to arrive, or be lost.             *)
Arrive ==
    /\ Len(queue) < KernelRoom
    /\ \E i \in DOMAIN net : queue' = Append(queue, net[i]) /\ net' = Without(net, i)
    /\ rreport' = TRUE
    /\ UNCHANGED <<method, senderVars, rev, got, refused>>

Lose ==
    /\ \E i \in DOMAIN net : net' = Without(net, i)
    /\ UNCHANGED <<method, senderVars, queue, readerVars>>

BytesWaiting ==
    Before([i \in DOMAIN queue |-> Span(0, Len(queue[i]))], Len(queue) + 1)

PollRead ==
    /\ ~refused
    /\ rreport \/ (method = "level" /\ ~rev.ready)
    /\ queue # <<>>
    /\ rev' = [ready |-> TRUE,
               available |-> IF method = "kqueue" THEN BytesWaiting ELSE 1]
    /\ rreport' = FALSE
    /\ UNCHANGED <<method, senderVars, net, queue, got, refused>>

(* The event after n bytes of a datagram.  Only kqueue counts them; the part  *)
(* of a datagram that did not fit is not read, but stays counted.             *)
EventAfter(n) ==
    IF method # "kqueue" THEN rev
    ELSE IF rev.available <= n THEN [ready |-> FALSE, available |-> 0]
    ELSE [rev EXCEPT !.available = @ - n]

(* hky_udp_unix_recv: a datagram, cut to the size of the buffer; nothing; or  *)
(* an error.                                                                  *)
UdpRecv(size) ==
    /\ rev.ready /\ ~refused
    /\ IF queue # <<>>
       THEN LET read == SubSeq(queue[1], 1, IF size < Len(queue[1]) THEN size
                                            ELSE Len(queue[1]))
            IN  /\ got' = Append(got, read)
                /\ queue' = Tail(queue)
                /\ rev' = EventAfter(Len(read))
       ELSE /\ rev' = [rev EXCEPT !.ready = FALSE]
            /\ UNCHANGED <<got, queue>>
    /\ UNCHANGED <<method, senderVars, net, rreport, refused>>

UdpRecvFails ==
    /\ rev.ready /\ ~refused
    /\ rev' = [rev EXCEPT !.ready = FALSE]
    /\ refused' = TRUE
    /\ UNCHANGED <<method, senderVars, net, queue, rreport, got>>

-----------------------------------------------------------------------------
Next ==
    \/ (\E limit \in DatagramLimits : SendmsgChain(limit)) \/ UdpSend
    \/ Turn \/ PollWrite
    \/ Arrive \/ Lose
    \/ PollRead \/ (\E size \in DatagramSizes : UdpRecv(size)) \/ UdpRecvFails

-----------------------------------------------------------------------------
(* The messages of a chain: its bytes, and after how many of them one ends:  *)
(* at the ends of the chain, or with each buffer.  A message of no bytes is    *)
(* none.                                                                      *)
Cuts(c) ==
    {Before(Sources(c), i + 1) : i \in IF way = "chain" THEN Ends(c) ELSE DOMAIN c} \ {0}

Messages(c) == [bytes |-> Content(c), cuts |-> Cuts(c)]

(* The bytes of the datagrams in front of the i-th that was handed over.      *)
HandedBefore(i) == Before([j \in DOMAIN handed |-> Span(0, Len(handed[j]))], i)
=============================================================================
