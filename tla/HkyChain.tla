------------------------------ MODULE HkyChain ------------------------------
(* Chains of buffers (core/hky_buf.h, core/hky_buf.c) and the iovecs that   *)
(* are built from them.  A byte is named by its address, so that what is     *)
(* sent tells where it was taken from.  A chain is a sequence of buffers; a  *)
(* buffer of kind "memory" holds the bytes pos..last-1, a "special" one only *)
(* flags, a "file" one a part of a file, and a "bad" one nothing at all.     *)
EXTENDS Integers, Sequences, SequencesExt, HkyOrder

AtMost(a, b) == IF a <= b THEN a ELSE b

(* Memory between two addresses; what a chain sends, and what it can take.   *)
Span(first, end) == [first |-> first, end |-> end]
Sources(chain) ==
    [i \in DOMAIN chain |->
        IF chain[i].kind = "memory" THEN Span(chain[i].pos, chain[i].last) ELSE Span(0, 0)]
FreeSpace(chain) == [i \in DOMAIN chain |-> Span(chain[i].last, chain[i].end)]

Filled(spans) == {i \in DOMAIN spans : spans[i].first < spans[i].end}

(* How many bytes the spans before the i-th have. *)
Before(spans, i) ==
    Cardinality(UNION {{j} \X (spans[j].first..(spans[j].end - 1)) : j \in 1..(i - 1)})

(* The first n bytes, when memory is read on from the start of a span in     *)
(* "starts" until the next of them.                                          *)
Run(spans, starts, n) ==
    [k \in 1..n |->
        LET s == LastOf({i \in starts : Before(spans, i) < k})
        IN  spans[s].first + (k - 1 - Before(spans, s))]

Bytes(spans) == Run(spans, Filled(spans), Before(spans, Len(spans) + 1))

(* The bytes a chain still holds. *)
Content(chain) == Bytes(Sources(chain))

(* hky_chain_update_sent: the rest of the chain when "sent" of its bytes are *)
(* gone.  It begins at the first buffer that is not special and not sent.    *)
UpdateSent(chain, sent) ==
    LET Gone(i) == Before(Sources(chain), i)
        Left == {i \in DOMAIN chain : /\ chain[i].kind # "special"
                                      /\ Gone(i) = sent \/ Gone(i + 1) > sent}
        i == FirstOf(Left)
    IN  IF Left = {} THEN <<>>
        ELSE <<[chain[i] EXCEPT !.pos = @ + (sent - Gone(i))]>>
               \o SubSeq(chain, i + 1, Len(chain))

(* Mutant: every span is taken to follow the one before in memory. *)
StartsOnce(spans) == {i \in Filled(spans) : Filled(spans) \cap 1..(i - 1) = {}}

(* The spans that start an iovec; any other continues the iovec of the one   *)
(* before, because the memory does: prev == b->pos.                          *)
Starts(spans) ==
    {i \in Filled(spans) :
        LET prior == Filled(spans) \cap 1..(i - 1)
        IN  prior = {} \/ spans[LastOf(prior)].end # spans[i].first}

(* Where a loop over a chain stops: at a buffer it must not touch, after     *)
(* "limit" bytes, or where it would need one iovec more than there are.      *)
Stop(spans, blocked, limit, nalloc) ==
    FirstOf({Len(spans) + 1} \cup
          {i \in DOMAIN spans :
              \/ i \in blocked
              \/ Before(spans, i) >= limit
              \/ i \in Starts(spans) /\ Cardinality(Starts(spans) \cap 1..i) > nalloc})

(* What the iovecs for the first n bytes stand for. *)
Gathered(spans, n) == Run(spans, Starts(spans), n)

(* hky_output_chain_to_iovec; "stop" is the buffer it returns. *)
OutputChainToIovec(chain, limit, nalloc) ==
    LET spans == Sources(chain)
        stop == Stop(spans, {i \in DOMAIN chain : chain[i].kind \in {"file", "bad"}},
                     limit, nalloc)
    IN  [bytes |-> Gathered(spans, AtMost(limit, Before(spans, stop))),
         stop |-> stop,
         bad |-> stop \in DOMAIN chain /\ chain[stop].kind = "bad"
                   /\ Before(spans, stop) < limit]

(* The loop of hky_readv_chain: the addresses it lets the kernel fill, and   *)
(* those where the owner of the chain will look.  A limit of 0 is none.      *)
InputChainToIovec(chain, limit, max) ==
    LET spans == FreeSpace(chain)
        most == IF limit = 0 THEN Len(Bytes(spans)) ELSE limit
    IN  [into |-> Gathered(spans, AtMost(most, Before(spans, Stop(spans, {}, most, max)))),
         space |-> Bytes(spans)]

(* What the owner finds after data was written through the iovecs; 0 is a    *)
(* byte nobody wrote.                                                        *)
ReadBack(v, data) ==
    [k \in DOMAIN data |->
        LET J == {j \in DOMAIN data : v.into[j] = v.space[k]}
        IN  IF J = {} THEN 0 ELSE data[CHOOSE j \in J : TRUE]]
=============================================================================
