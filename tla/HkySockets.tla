----------------------------- MODULE HkySockets -----------------------------
(* The two halves of hky_os_io: a process with a stream connection            *)
(* (HkyConnIO) and a datagram socket (HkyDatagram) under one event loop, each  *)
(* with the functions the table holds for it.                                 *)
EXTENDS HkyConnIO

CONSTANTS DatagramChains, DatagramLimits, DatagramSizes, DatagramIovs, KernelRoom

VARIABLES
    using,              \* which of the two has something to send
    way, chain, handed, ready, uwreport, ucall, error, unet, queue,
    urev, urreport, ugot, refused,
    messages            \* the messages of the chain of the datagram socket

Udp == INSTANCE HkyDatagram WITH
    wreport <- uwreport, call <- ucall, net <- unet, rev <- urev,
    rreport <- urreport, got <- ugot

ASSUME SocketsAssumption == Udp!DatagramAssumption

udpVars == <<way, chain, handed, ready, uwreport, ucall, error, unet, queue,
             urev, urreport, ugot, refused>>

(* A stream connection that has come to its end: no step of it is possible.   *)
Ended ==
    /\ lenient = FALSE
    /\ in = <<>> /\ asked = <<>> /\ sent = 0 /\ call = Idle
    /\ wev = [ready |-> TRUE, error |-> FALSE, pending_eof |-> FALSE]
    /\ failed = FALSE /\ stale = FALSE
    /\ net = <<>> /\ rcv = <<>> /\ ending = "fin"
    /\ wreport = FALSE /\ rreport = FALSE
    /\ rev = [ready |-> FALSE, available |-> 0, pending_eof |-> FALSE,
              eof |-> TRUE, error |-> FALSE]
    /\ reading = Idle /\ got = <<>> /\ told = "eof"

(* The functions for datagrams do not look at EPOLLRDHUP.                     *)
SocketsInit ==
    /\ Udp!Init
    /\ messages = Udp!Messages(chain)
    /\ \/ using = "stream" /\ Init /\ chain = <<>> /\ way = "chain"
       \/ using = "datagram" /\ method \in Methods \ {"rdhup"} /\ Ended /\ chain # <<>>

SocketsNext ==
    /\ \/ Next /\ UNCHANGED udpVars
       \/ Udp!Next /\ UNCHANGED <<lenient, senderVars, readerVars, kernelVars>>
    /\ UNCHANGED <<using, messages>>

SocketsSpec ==
    /\ SocketsInit /\ [][SocketsNext]_<<vars, udpVars, using, messages>>
    /\ Fairness

-----------------------------------------------------------------------------
(* The connection is a byte stream: what the reader finds in its buffers is  *)
(* what the chain held, in order, each byte once, however the iovecs were     *)
(* cut and merged on either side and whatever the kernel took at a time; and *)
(* an end is reported only when nothing is missing.                          *)
Stream == INSTANCE HkyByteStream WITH
    written <- sent,
    state <- IF using = "datagram" THEN "open"
             ELSE IF ending = "fin" THEN "closed" ELSE ending,
    told <- IF using = "datagram" THEN "open" ELSE told
StreamSpec == Stream!Spec

(* Each message of the chain is handed to the kernel once, whole and in       *)
(* order, also over calls that the kernel or a limit stopped in the middle    *)
(* of the chain: the datagrams end where messages end and nowhere else, their *)
(* bytes are those up to there, and the chain holds the other bytes, cut as    *)
(* they were.  All the reader gets is the start of a datagram that was handed  *)
(* over, each at most once.                                                   *)
DatagramsWhole ==
    LET written == Udp!HandedBefore(Len(handed) + 1)
    IN  /\ \A i \in DOMAIN handed :
              handed[i] = SubSeq(messages.bytes, Udp!HandedBefore(i) + 1, Udp!HandedBefore(i + 1))
        /\ {Udp!HandedBefore(i + 1) : i \in DOMAIN handed} \ {0}
              = {c \in messages.cuts : c <= written}
        /\ Content(chain) = SubSeq(messages.bytes, written + 1, Len(messages.bytes))
        /\ Udp!Cuts(chain) = {c - written : c \in {m \in messages.cuts : m > written}}
        /\ \A d \in ToSet(ugot) :
              Cardinality({i \in DOMAIN ugot : ugot[i] = d})
                <= Cardinality({i \in DOMAIN handed : IsPrefix(d, handed[i])})

(* Neither side of the datagram socket waits with a bit "ready" that is off    *)
(* and that no event will set: not the sender after the kernel refused a       *)
(* datagram, nor the reader while there are bytes to read.  Only a datagram of *)
(* no bytes can be left behind, where kqueue counts bytes.                     *)
NoDatagramStuck ==
    /\ ~ready /\ ~error => uwreport \/ method = "level"
    /\ ~urev.ready /\ ~refused /\ (\E i \in DOMAIN queue : queue[i] # <<>>) =>
          urreport \/ method = "level"
=============================================================================
