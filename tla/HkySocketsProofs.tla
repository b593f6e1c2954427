-------------------------- MODULE HkySocketsProofs --------------------------
(***************************************************************************)
(* What the sockets promise, for any chains, limits, sizes, numbers of      *)
(* iovecs, room in the kernel and event methods: a connection is a byte     *)
(* stream, and neither it nor a datagram socket waits for an event that     *)
(* never comes.                                                            *)
(***************************************************************************)
EXTENDS HkySockets, SequenceTheorems, FiniteSetTheorems

-----------------------------------------------------------------------------
(* Types.                                                                   *)

Buffer == [kind : STRING, pos : Int, last : Int]
Sound(bufs) == \A i \in DOMAIN bufs : bufs[i].kind = "memory" => bufs[i].pos < bufs[i].last

WriteTypes ==
    /\ in \in Seq(Buffer)
    /\ Sound(in)
    /\ wev \in [ready : BOOLEAN, error : BOOLEAN, pending_eof : BOOLEAN]
    /\ failed \in BOOLEAN /\ stale \in BOOLEAN /\ wreport \in BOOLEAN
    /\ call = Idle \/ call \in [active : {TRUE}, gathered : BOOLEAN, bytes : Seq(Int),
                                send : Nat, first : Int, limit : Nat]
    /\ call.active /\ call.gathered =>
          /\ Len(call.bytes) <= Len(Content(in))
          /\ call.bytes = SubSeq(Content(in), 1, Len(call.bytes))
    /\ call.active => call.send <= call.limit

ReadTypes ==
    /\ rev \in [ready : BOOLEAN, available : Nat, pending_eof : BOOLEAN,
                eof : BOOLEAN, error : BOOLEAN]
    /\ rreport \in BOOLEAN
    /\ told \in {"open", "eof", "error"} /\ lenient \in BOOLEAN
    /\ method \in {"level", "epoll", "rdhup", "kqueue"}
    /\ ending \in {"open", "closed", "fin", "reset"}
    /\ reading = Idle \/ reading \in [active : {TRUE}, into : Seq(Int), space : Seq(Int)]
    /\ reading.active =>
          /\ told = "open"
          /\ Len(reading.into) <= Len(reading.space)
          /\ reading.into = SubSeq(reading.space, 1, Len(reading.into))
          /\ \A i, j \in 1..Len(reading.space) : reading.space[i] = reading.space[j] => i = j

\* The bytes are in five places: read, arrived, under way, not sent.
BytesInOrder ==
    /\ asked \in Seq(Int) /\ sent \in 0..Len(asked)
    /\ net \in Seq(Int) /\ rcv \in Seq(Int) /\ got \in Seq(Int)
    /\ Content(in) = SubSeq(asked, sent + 1, Len(asked))
    /\ got \o rcv \o net = SubSeq(asked, 1, Len(got \o rcv \o net))
    /\ Len(got \o rcv \o net) <= sent
    /\ ending # "reset" => Len(got \o rcv \o net) = sent
    /\ ending = "reset" => rcv = <<>>
    /\ ending \in {"fin", "reset"} => net = <<>>

-----------------------------------------------------------------------------
(* Events.                                                                  *)

WriteReported == ~wev.ready /\ ~stale /\ ~failed => wreport \/ method = "level"

\* What the event of the reader says is what there is to read, until the
\* kernel has more to report.
ReadReported ==
    told = "open" =>
      /\ method \in {"epoll", "rdhup", "kqueue"} /\ ~rreport =>
           /\ rev.ready \/ ~Readable
           /\ method \in {"rdhup", "kqueue"} => (Over => rev.pending_eof)
           /\ method = "epoll" /\ rev.available = 0 => ~Readable
           /\ method = "rdhup" /\ rev.available = 0 => rcv = <<>>
           /\ method = "kqueue" => rev.available = Len(rcv)
      /\ rev.pending_eof => Over
      /\ method = "kqueue" /\ rev.pending_eof => rev.available = Len(rcv)

SInv == WriteTypes /\ ReadTypes /\ BytesInOrder /\ WriteReported /\ ReadReported

\* The datagram socket: what it holds, and what its events say.
Part == [kind : STRING, pos : Int, last : Int, ends : BOOLEAN]

UTypes ==
    /\ chain \in Seq(Part) /\ Sound(chain)
    /\ unet \in Seq(Seq(Int)) /\ queue \in Seq(Seq(Int))
    /\ urev \in [ready : BOOLEAN, available : Nat]
    /\ ready \in BOOLEAN /\ error \in BOOLEAN /\ refused \in BOOLEAN
    /\ uwreport \in BOOLEAN /\ urreport \in BOOLEAN

UInv ==
    /\ ucall.active => way = "chain" /\ ~error
    /\ ~ready /\ ~error => uwreport \/ method = "level"
    /\ ~refused /\ ~urreport =>
         /\ method \in {"epoll", "rdhup"} => urev.ready \/ queue = <<>>
         /\ method = "kqueue" => Udp!BytesWaiting <= urev.available
         /\ method = "kqueue" => urev.ready \/ Udp!BytesWaiting = 0

-----------------------------------------------------------------------------
(* Sequences, and bytes before a span.                                      *)

SpanType == [first : Int, end : Int]
Size(span) == IF span.first < span.end THEN span.end - span.first ELSE 0

\* A function on an interval from one is a sequence.
LEMMA FunctionIsSeq ==
    ASSUME NEW S, NEW n \in Nat, NEW f \in [1..n -> S]
    PROVE  f \in Seq(S) /\ Len(f) = n
  <1>1. f \in Seq(S) BY SeqDef
  <1>2. DOMAIN f = 1..n /\ DOMAIN f = 1..Len(f) /\ Len(f) \in Nat BY <1>1, LenProperties
  <1> QED BY <1>1, <1>2

LEMMA BeforeIsFinite ==
    ASSUME NEW s \in Seq(SpanType), NEW i \in 1..(Len(s) + 1)
    PROVE  IsFiniteSet(UNION {{j} \X (s[j].first..(s[j].end - 1)) : j \in 1..(i - 1)})
  <1> DEFINE cells == [j \in 1..(i - 1) |-> {j} \X (s[j].first..(s[j].end - 1))]
             all == {{j} \X (s[j].first..(s[j].end - 1)) : j \in 1..(i - 1)}
  <1>1. IsFiniteSet(1..(i - 1)) BY FS_Interval
  <1>2. cells \in Surjection(1..(i - 1), all)
    <2>1. cells \in [1..(i - 1) -> all] OBVIOUS
    <2>2. \A c \in all : \E j \in 1..(i - 1) : cells[j] = c OBVIOUS
    <2> QED BY <2>1, <2>2 DEF Surjection
  <1>3. IsFiniteSet(all) BY <1>1, <1>2, FS_Surjection
  <1>4. ASSUME NEW j \in 1..(i - 1) PROVE IsFiniteSet({j} \X (s[j].first..(s[j].end - 1)))
    <2>1. s[j] \in SpanType OBVIOUS
    <2>2. s[j].first \in Int /\ s[j].end - 1 \in Int BY <2>1 DEF SpanType
    <2>3. IsFiniteSet(s[j].first..(s[j].end - 1)) BY <2>2, FS_Interval
    <2> QED BY <2>3, FS_Singleton, FS_Product
  <1>5. \A c \in all : IsFiniteSet(c) BY <1>4
  <1> QED BY <1>3, <1>5, FS_UNION

LEMMA BeforeType ==
    ASSUME NEW s \in Seq(SpanType), NEW i \in 1..(Len(s) + 1)
    PROVE  Before(s, i) \in Nat
  BY BeforeIsFinite, FS_CardinalityType DEF Before

LEMMA BeforeFirst == ASSUME NEW s PROVE Before(s, 1) = 0
  <1>1. UNION {{j} \X (s[j].first..(s[j].end - 1)) : j \in 1..(1 - 1)} = {} OBVIOUS
  <1> QED BY <1>1, FS_EmptySet DEF Before

LEMMA BeforeNext ==
    ASSUME NEW s \in Seq(SpanType), NEW i \in 1..Len(s)
    PROVE  Before(s, i + 1) = Before(s, i) + Size(s[i])
  <1> DEFINE cells(k) == UNION {{j} \X (s[j].first..(s[j].end - 1)) : j \in 1..(k - 1)}
             here == {i} \X (s[i].first..(s[i].end - 1))
  <1>1. s[i] \in SpanType /\ s[i].first \in Int /\ s[i].end \in Int
    <2>1. s[i] \in SpanType OBVIOUS
    <2> QED BY <2>1 DEF SpanType
  <1>2. cells(i + 1) = cells(i) \cup here
    <2>1. 1..((i + 1) - 1) = (1..(i - 1)) \cup {i} OBVIOUS
    <2> QED BY <2>1
  <1>3. cells(i) \cap here = {} OBVIOUS
  <1>4. IsFiniteSet(cells(i)) BY BeforeIsFinite
  <1>5. IsFiniteSet(here) /\ Cardinality(here) = Size(s[i])
    <2>1. /\ IsFiniteSet(s[i].first..(s[i].end - 1))
          /\ Cardinality(s[i].first..(s[i].end - 1)) = Size(s[i])
      <3>1. s[i].end - 1 \in Int BY <1>1
      <3>2. /\ IsFiniteSet(s[i].first..(s[i].end - 1))
            /\ Cardinality(s[i].first..(s[i].end - 1)) =
                 IF s[i].first > s[i].end - 1 THEN 0 ELSE s[i].end - 1 - s[i].first + 1
        BY <1>1, <3>1, FS_Interval
      <3> QED BY <1>1, <3>2 DEF Size
    <2>2. Size(s[i]) \in Nat BY <1>1 DEF Size
    <2>3. IsFiniteSet({i}) /\ Cardinality({i}) = 1 BY FS_Singleton
    <2>4. /\ IsFiniteSet(here)
          /\ Cardinality(here) = Cardinality({i}) * Cardinality(s[i].first..(s[i].end - 1))
      BY <2>1, <2>3, FS_Product
    <2>5. Cardinality(here) = 1 * Size(s[i]) BY <2>1, <2>3, <2>4
    <2> QED BY <2>2, <2>4, <2>5
  <1>6. Cardinality(cells(i + 1)) = Cardinality(cells(i)) + Cardinality(here) - Cardinality({})
    <2>1. Cardinality(cells(i) \cup here)
            = Cardinality(cells(i)) + Cardinality(here) - Cardinality(cells(i) \cap here)
      <3> HIDE DEF cells, here
      <3> QED BY <1>4, <1>5, FS_Union
    <2> HIDE DEF cells, here
    <2> QED BY <1>2, <1>3, <2>1
  <1>7. Cardinality(cells(i)) \in Nat /\ Size(s[i]) \in Nat
    BY <1>1, <1>4, FS_CardinalityType DEF Size
  <1> QED BY <1>5, <1>6, <1>7, FS_EmptySet DEF Before

LEMMA BeforeGrows ==
    ASSUME NEW s \in Seq(SpanType), NEW i \in 1..(Len(s) + 1), NEW j \in 1..(Len(s) + 1), i <= j
    PROVE  Before(s, i) <= Before(s, j)
  <1> DEFINE cells(k) == UNION {{n} \X (s[n].first..(s[n].end - 1)) : n \in 1..(k - 1)}
  <1>1. cells(i) \subseteq cells(j)
    <2>1. 1..(i - 1) \subseteq 1..(j - 1) OBVIOUS
    <2> QED BY <2>1
  <1>2. IsFiniteSet(cells(j)) BY BeforeIsFinite
  <1>3. Cardinality(cells(i)) <= Cardinality(cells(j)) BY <1>1, <1>2, FS_Subset
  <1> QED BY <1>3 DEF Before

LEMMA BeforeSkips ==
    ASSUME NEW s \in Seq(SpanType), NEW i \in 1..(Len(s) + 1), NEW j \in 1..(Len(s) + 1), i <= j,
           \A k \in Filled(s) : k < i \/ k >= j
    PROVE  Before(s, i) = Before(s, j)
  <1> DEFINE cells(k) == UNION {{n} \X (s[n].first..(s[n].end - 1)) : n \in 1..(k - 1)}
  <1>1. cells(i) \subseteq cells(j)
    <2>1. 1..(i - 1) \subseteq 1..(j - 1) OBVIOUS
    <2> QED BY <2>1
  <1>2. ASSUME NEW n \in 1..(j - 1), NEW c \in {n} \X (s[n].first..(s[n].end - 1))
        PROVE  n \in 1..(i - 1)
    <2>1. n \in DOMAIN s /\ s[n] \in SpanType OBVIOUS
    <2>2. c[2] \in s[n].first..(s[n].end - 1) OBVIOUS
    <2>3. s[n].first < s[n].end BY <2>1, <2>2 DEF SpanType
    <2>4. n \in Filled(s) BY <2>1, <2>3 DEF Filled
    <2> QED BY <2>4
  <1>3. cells(j) \subseteq cells(i)
    <2> SUFFICES ASSUME NEW n \in 1..(j - 1), NEW c \in {n} \X (s[n].first..(s[n].end - 1))
                 PROVE  c \in cells(i)
      OBVIOUS
    <2>1. n \in 1..(i - 1) BY <1>2
    <2> QED BY <2>1
  <1>4. cells(i) = cells(j) BY <1>1, <1>3
  <1> QED BY <1>4 DEF Before

-----------------------------------------------------------------------------
(* The k-th byte of a chain lies in the span that has the first k - 1 before *)
(* it or in it.                                                             *)

Holds(s, i, k) == i \in Filled(s) /\ Before(s, i) < k /\ k <= Before(s, i + 1)
Total(s) == Before(s, Len(s) + 1)

LEMMA FilledSpan ==
    ASSUME NEW s \in Seq(SpanType), NEW i \in Filled(s)
    PROVE  /\ i \in 1..Len(s) /\ i \in 1..(Len(s) + 1) /\ i + 1 \in 1..(Len(s) + 1)
           /\ s[i].first \in Int /\ s[i].end \in Int /\ s[i].first < s[i].end
           /\ Before(s, i) \in Nat /\ Before(s, i + 1) \in Nat
           /\ Before(s, i + 1) = Before(s, i) + (s[i].end - s[i].first)
  <1>1. i \in 1..Len(s) /\ s[i] \in SpanType BY DEF Filled
  <1>2. s[i].first \in Int /\ s[i].end \in Int /\ s[i].first < s[i].end
    BY <1>1 DEF Filled, SpanType
  <1>3. i \in 1..(Len(s) + 1) /\ i + 1 \in 1..(Len(s) + 1) BY <1>1
  <1>4. Before(s, i) \in Nat /\ Before(s, i + 1) \in Nat BY <1>3, BeforeType
  <1>5. Before(s, i + 1) = Before(s, i) + Size(s[i]) BY <1>1, BeforeNext
  <1> QED BY <1>1, <1>2, <1>3, <1>4, <1>5 DEF Size

LEMMA TotalType == ASSUME NEW s \in Seq(SpanType) PROVE Total(s) \in Nat
  <1>1. Len(s) + 1 \in 1..(Len(s) + 1) OBVIOUS
  <1> QED BY <1>1, BeforeType DEF Total

\* The last of the spans in R with less than k bytes before it.
LEMMA LastBefore ==
    ASSUME NEW s \in Seq(SpanType), NEW R \in SUBSET Filled(s), NEW k \in Int,
           NEW i \in R, Before(s, i) < k
    PROVE  LET l == LastOf({j \in R : Before(s, j) < k}) IN
           /\ l \in R /\ Before(s, l) < k
           /\ \A j \in R : Before(s, j) < k => j <= l
  <1> DEFINE S == {j \in R : Before(s, j) < k}
  <1>1. S \in SUBSET (0..Len(s)) /\ S # {} /\ Len(s) \in Nat
    <2>1. \A j \in Filled(s) : j \in 0..Len(s) BY FilledSpan
    <2> QED BY <2>1
  <1>2. LastOf(S) \in S /\ \A j \in S : j <= LastOf(S)
    <2> HIDE DEF S
    <2> QED BY <1>1, LastOfIn
  <1> QED BY <1>2

LEMMA OneHolds ==
    ASSUME NEW s \in Seq(SpanType), NEW k \in 1..Total(s)
    PROVE  \E i \in Filled(s) : Holds(s, i, k)
  <1> DEFINE S == {i \in 1..(Len(s) + 1) : k <= Before(s, i)}
  <1>0. Total(s) \in Nat BY TotalType
  <1>1. S \in SUBSET Nat /\ S # {}
    <2>1. Len(s) + 1 \in S BY DEF Total
    <2> QED BY <2>1
  <1>2. PICK m \in S : \A j \in S : m <= j
    <2> HIDE DEF S
    <2> QED BY <1>1, FirstOfIn
  <1>3. m # 1
    <2>1. Before(s, 1) = 0 BY BeforeFirst
    <2> QED BY <1>0, <1>2, <2>1
  <1>4. m - 1 \in 1..Len(s) /\ m - 1 \in 1..(Len(s) + 1) /\ (m - 1) + 1 = m BY <1>3
  <1>5. Before(s, m - 1) \in Nat /\ Before(s, m) = Before(s, m - 1) + Size(s[m - 1])
    <2>1. Before(s, (m - 1) + 1) = Before(s, m - 1) + Size(s[m - 1]) BY <1>4, BeforeNext
    <2> QED BY <1>4, <2>1, BeforeType
  <1>6. ~(k <= Before(s, m - 1)) BY <1>2, <1>4
  <1>7. s[m - 1].first < s[m - 1].end
    <2> SUFFICES ASSUME ~(s[m - 1].first < s[m - 1].end) PROVE FALSE OBVIOUS
    <2>1. Before(s, m) = Before(s, m - 1) BY <1>5 DEF Size
    <2> QED BY <1>6, <2>1
  <1>8. m - 1 \in Filled(s) BY <1>4, <1>7 DEF Filled
  <1>9. Before(s, m - 1) < k /\ k <= Before(s, (m - 1) + 1) BY <1>0, <1>4, <1>5, <1>6
  <1> QED BY <1>8, <1>9 DEF Holds

\* A byte is in one span, the last one with fewer bytes before it.
LEMMA HolderIsLast ==
    ASSUME NEW s \in Seq(SpanType), NEW k \in Int, NEW i, Holds(s, i, k),
           NEW j \in Filled(s), Before(s, j) < k
    PROVE  j <= i
  <1>1. i \in Filled(s) /\ Before(s, i) < k /\ k <= Before(s, i + 1) BY DEF Holds
  <1>2. /\ i \in 1..Len(s) /\ i + 1 \in 1..(Len(s) + 1) /\ Before(s, i + 1) \in Nat
        /\ j \in 1..(Len(s) + 1) /\ Before(s, j) \in Nat
    BY <1>1, FilledSpan
  <1>3. ASSUME j > i PROVE FALSE
    <2>1. i + 1 <= j BY <1>2, <1>3
    <2>2. Before(s, i + 1) <= Before(s, j) BY <1>2, <2>1, BeforeGrows
    <2> QED BY <1>1, <1>2, <2>2
  <1> QED BY <1>2, <1>3

LEMMA HolderRange ==
    ASSUME NEW s \in Seq(SpanType), NEW k \in Int, NEW i, Holds(s, i, k)
    PROVE  k \in 1..Total(s)
  <1>1. i \in Filled(s) /\ Before(s, i) < k /\ k <= Before(s, i + 1) BY DEF Holds
  <1>2. /\ i \in 1..Len(s) /\ i + 1 \in 1..(Len(s) + 1) /\ Before(s, i + 1) \in Nat
        /\ Before(s, i) \in Nat
    BY <1>1, FilledSpan
  <1>3. Before(s, i + 1) <= Total(s) BY <1>2, BeforeGrows DEF Total
  <1> QED BY <1>1, <1>2, <1>3, TotalType

LEMMA BytesType ==
    ASSUME NEW s \in Seq(SpanType)
    PROVE  /\ Bytes(s) \in Seq(Int) /\ Len(Bytes(s)) = Total(s)
           /\ \A i : \A k \in 1..Total(s) :
                Holds(s, i, k) => Bytes(s)[k] = s[i].first + (k - 1 - Before(s, i))
  <1>1. Total(s) \in Nat BY TotalType
  <1>2. Bytes(s) = [k \in 1..Total(s) |->
                      LET l == LastOf({j \in Filled(s) : Before(s, j) < k})
                      IN  s[l].first + (k - 1 - Before(s, l))]
    BY DEF Bytes, Run, Total
  <1>3. ASSUME NEW k \in 1..Total(s), NEW i, Holds(s, i, k)
        PROVE  /\ Bytes(s)[k] = s[i].first + (k - 1 - Before(s, i))
               /\ Bytes(s)[k] \in Int
    <2> DEFINE l == LastOf({j \in Filled(s) : Before(s, j) < k})
    <2>1. i \in Filled(s) /\ Before(s, i) < k BY <1>3 DEF Holds
    <2>2. /\ l \in Filled(s) /\ Before(s, l) < k
          /\ \A j \in Filled(s) : Before(s, j) < k => j <= l
      <3>1. k \in Int OBVIOUS
      <3> QED BY <2>1, <3>1, LastBefore
    <2>3. l <= i BY <1>3, <2>2, HolderIsLast
    <2>4. i \in Int /\ l \in Int /\ s[i].first \in Int /\ Before(s, i) \in Nat
      BY <2>1, <2>2, FilledSpan
    <2>5. l = i BY <2>1, <2>2, <2>3, <2>4
    <2> HIDE DEF l
    <2> QED BY <1>1, <1>2, <2>4, <2>5 DEF l
  <1>4. Bytes(s) \in [1..Total(s) -> Int]
    <2>1. \A k \in 1..Total(s) : Bytes(s)[k] \in Int BY <1>3, OneHolds
    <2>2. Bytes(s) = [k \in 1..Total(s) |-> Bytes(s)[k]] BY <1>2
    <2> QED BY <2>1, <2>2
  <1>5. Bytes(s) \in Seq(Int) /\ Len(Bytes(s)) = Total(s) BY <1>1, <1>4, FunctionIsSeq
  <1> QED BY <1>3, <1>5

-----------------------------------------------------------------------------
(* Merging spans that follow each other in memory changes no byte: the       *)
(* iovecs stand for the first bytes of the chain.                            *)

\* Until the first byte of span i, as far as it has bytes before it.
Offset(s, i) == s[i].first - Before(s, i)
StartOf(s, i) == LastOf(Starts(s) \cap 1..i)

LEMMA StartsUpTo ==
    ASSUME NEW s \in Seq(SpanType), NEW i \in Filled(s)
    PROVE  /\ Starts(s) \cap 1..i # {} /\ Starts(s) \subseteq Filled(s)
           /\ StartOf(s, i) \in Starts(s) /\ StartOf(s, i) <= i
           /\ \A j \in Starts(s) : j <= i => j <= StartOf(s, i)
  <1>1. i \in 1..Len(s) BY FilledSpan
  <1>2. Filled(s) \cap 1..i \in SUBSET Nat /\ Filled(s) \cap 1..i # {} BY <1>1
  <1>3. PICK m \in Filled(s) \cap 1..i : \A j \in Filled(s) \cap 1..i : m <= j
    <2>1. \A S \in SUBSET Nat : S # {} => FirstOf(S) \in S /\ \A j \in S : FirstOf(S) <= j
      BY FirstOfIn
    <2> QED BY <1>2, <2>1
  <1>4. Filled(s) \cap 1..(m - 1) = {}
    <2>1. \A j \in Filled(s) \cap 1..(m - 1) : j \in 1..i /\ j < m BY <1>1, <1>3
    <2> QED BY <1>3, <2>1
  <1>5. m \in Starts(s) BY <1>3, <1>4 DEF Starts
  <1>6. Starts(s) \cap 1..i \in SUBSET (0..i) /\ Starts(s) \cap 1..i # {} /\ i \in Nat
    BY <1>1, <1>3, <1>5
  <1>7. /\ LastOf(Starts(s) \cap 1..i) \in Starts(s) \cap 1..i
        /\ \A j \in Starts(s) \cap 1..i : j <= LastOf(Starts(s) \cap 1..i)
    BY <1>6, LastOfIn
  <1>8. Starts(s) \subseteq Filled(s) BY DEF Starts
  <1>9. \A j \in Starts(s) : j \in 1..Len(s) BY <1>8, FilledSpan
  <1>10. \A j \in Starts(s) : j <= i => j \in 1..i BY <1>1, <1>9
  <1>11. /\ StartOf(s, i) \in Starts(s) /\ StartOf(s, i) \in 1..i
         /\ \A j \in Starts(s) \cap 1..i : j <= StartOf(s, i)
    BY <1>7 DEF StartOf
  <1>12. StartOf(s, i) <= i BY <1>1, <1>11
  <1> QED BY <1>6, <1>8, <1>10, <1>11, <1>12

LEMMA OffsetFollows ==
    ASSUME NEW s \in Seq(SpanType), NEW i \in Filled(s) \ Starts(s)
    PROVE  \E p \in Filled(s) :
              p < i /\ Offset(s, p) = Offset(s, i) /\ StartOf(s, p) = StartOf(s, i)
  <1> DEFINE prior == Filled(s) \cap 1..(i - 1)
             p == LastOf(prior)
  <1>1. i \in 1..Len(s) BY FilledSpan
  <1>2. prior # {} /\ s[p].end = s[i].first BY DEF Starts
  <1>3. p \in prior /\ \A j \in prior : j <= p
    <2>1. prior \in SUBSET (0..(i - 1)) /\ i - 1 \in Nat BY <1>1
    <2> HIDE DEF prior
    <2> QED BY <1>2, <2>1, LastOfIn
  <1>4. p \in Filled(s) /\ p < i /\ p \in Int BY <1>1, <1>3
  <1>5. Before(s, p + 1) = Before(s, i)
    <2>1. p + 1 \in 1..(Len(s) + 1) /\ i \in 1..(Len(s) + 1) /\ p + 1 <= i
      BY <1>1, <1>4, FilledSpan
    <2>2. \A k \in Filled(s) : k < p + 1 \/ k >= i
      <3> SUFFICES ASSUME NEW k \in Filled(s), ~(k >= i) PROVE k < p + 1 OBVIOUS
      <3>1. k \in 1..Len(s) BY FilledSpan
      <3>2. k \in prior BY <1>1, <3>1
      <3>3. k <= p BY <1>3, <3>2
      <3> HIDE DEF p
      <3> QED BY <1>4, <3>1, <3>3
    <2> QED BY <2>1, <2>2, BeforeSkips
  <1>6. Offset(s, p) = Offset(s, i)
    <2>1. /\ Before(s, p + 1) = Before(s, p) + (s[p].end - s[p].first)
          /\ Before(s, p) \in Nat /\ s[p].end \in Int /\ s[p].first \in Int
      BY <1>4, FilledSpan
    <2>2. Before(s, i) = Before(s, p) + (s[i].first - s[p].first) BY <1>2, <1>5, <2>1
    <2> QED BY <1>2, <2>1, <2>2 DEF Offset
  <1>7. Starts(s) \cap 1..i = Starts(s) \cap 1..p
    <2>1. ASSUME NEW j \in Starts(s) \cap 1..i PROVE j \in 1..p
      <3>1. j \in Filled(s) /\ j # i BY <2>1 DEF Starts
      <3>2. j \in prior BY <1>1, <3>1
      <3>3. j <= p BY <1>3, <3>2
      <3>4. j \in 1..i /\ i \in Int BY <1>1
      <3> HIDE DEF p
      <3> QED BY <1>4, <3>3, <3>4
    <2>2. 1..p \subseteq 1..i BY <1>1, <1>4
    <2> QED BY <2>1, <2>2
  <1> QED BY <1>4, <1>6, <1>7 DEF StartOf

LEMMA OffsetOfStart ==
    ASSUME NEW s \in Seq(SpanType), NEW i \in Filled(s)
    PROVE  Offset(s, StartOf(s, i)) = Offset(s, i)
  <1> DEFINE Wrong == {j \in Filled(s) : Offset(s, StartOf(s, j)) # Offset(s, j)}
  <1> SUFFICES ASSUME Wrong # {} PROVE FALSE OBVIOUS
  <1>1. Wrong \in SUBSET Nat
    <2>1. \A j \in Filled(s) : j \in Nat BY FilledSpan
    <2> QED BY <2>1
  <1>2. PICK m \in Wrong : \A j \in Wrong : m <= j
    <2> HIDE DEF Wrong
    <2> QED BY <1>1, FirstOfIn
  <1>3. CASE m \in Starts(s)
    <2>1. StartOf(s, m) \in Int /\ m \in Int /\ StartOf(s, m) <= m /\ m <= StartOf(s, m)
      <3>1. m \in Filled(s) /\ m \in Int /\ m <= m BY <1>1, <1>2
      <3>2. /\ StartOf(s, m) \in Filled(s) /\ StartOf(s, m) <= m
            /\ \A j \in Starts(s) : j <= m => j <= StartOf(s, m)
        BY <3>1, StartsUpTo
      <3>3. StartOf(s, m) \in Int BY <3>2, FilledSpan
      <3> QED BY <1>3, <3>1, <3>2, <3>3
    <2>2. StartOf(s, m) = m BY <2>1
    <2> QED BY <1>2, <2>2
  <1>4. CASE m \notin Starts(s)
    <2>1. PICK p \in Filled(s) :
            p < m /\ Offset(s, p) = Offset(s, m) /\ StartOf(s, p) = StartOf(s, m)
      BY <1>2, <1>4, OffsetFollows
    <2>2. p \in Int /\ m \in Int BY <1>1, <1>2, FilledSpan
    <2>3. p \notin Wrong BY <1>2, <2>1, <2>2
    <2> QED BY <1>2, <2>1, <2>3
  <1> QED BY <1>3, <1>4

\* What the iovecs for n bytes stand for are the first n bytes.
LEMMA GatheredRight ==
    ASSUME NEW s \in Seq(SpanType), NEW n \in Int, n <= Total(s)
    PROVE  /\ Gathered(s, n) = SubSeq(Bytes(s), 1, n)
           /\ Gathered(s, n) \in Seq(Int)
           /\ Len(Gathered(s, n)) = IF n >= 0 THEN n ELSE 0
  <1>1. Total(s) \in Nat /\ Bytes(s) \in Seq(Int) /\ Len(Bytes(s)) = Total(s)
    BY TotalType, BytesType
  <1>2. ASSUME NEW k \in 1..n
        PROVE  /\ Gathered(s, n)[k] = Bytes(s)[k] /\ Bytes(s)[k] \in Int
    <2> DEFINE l == LastOf({j \in Starts(s) : Before(s, j) < k})
    <2>1. k \in 1..Total(s) BY <1>1
    <2>2. PICK i \in Filled(s) : Holds(s, i, k) BY <2>1, OneHolds
    <2>3. Bytes(s)[k] = s[i].first + (k - 1 - Before(s, i)) BY <2>1, <2>2, BytesType
    <2>4. Gathered(s, n)[k] = s[l].first + (k - 1 - Before(s, l)) BY DEF Gathered, Run
    <2>5. /\ Starts(s) \subseteq Filled(s) /\ StartOf(s, i) \in Starts(s)
          /\ StartOf(s, i) <= i /\ \A j \in Starts(s) : j <= i => j <= StartOf(s, i)
      BY StartsUpTo
    <2>6. StartOf(s, i) \in 1..Len(s) /\ i \in 1..Len(s) BY <2>5, FilledSpan
    <2>7. Before(s, StartOf(s, i)) < k
      <3>1. Before(s, StartOf(s, i)) <= Before(s, i) BY <2>5, <2>6, BeforeGrows
      <3>2. Before(s, i) < k /\ Before(s, i) \in Nat /\ Before(s, StartOf(s, i)) \in Nat
        BY <2>2, <2>5, FilledSpan DEF Holds
      <3> QED BY <3>1, <3>2
    <2>8. /\ l \in Starts(s) /\ Before(s, l) < k
          /\ \A j \in Starts(s) : Before(s, j) < k => j <= l
      <3>1. k \in Int /\ Starts(s) \in SUBSET Filled(s) BY <2>5
      <3> QED BY <2>5, <2>7, <3>1, LastBefore
    <2>9. l <= i BY <2>1, <2>2, <2>5, <2>8, HolderIsLast
    <2>10. l = StartOf(s, i)
      <3>1. l \in Int BY <2>5, <2>8, FilledSpan
      <3>2. l <= StartOf(s, i) BY <2>5, <2>8, <2>9
      <3>3. StartOf(s, i) <= l BY <2>5, <2>7, <2>8
      <3> HIDE DEF l
      <3> QED BY <2>6, <3>1, <3>2, <3>3
    <2>11. Offset(s, l) = Offset(s, i) BY <2>10, OffsetOfStart
    <2>12. /\ s[l].first \in Int /\ s[i].first \in Int
           /\ Before(s, l) \in Nat /\ Before(s, i) \in Nat
      BY <2>5, <2>8, FilledSpan
    <2>13. k \in Int OBVIOUS
    <2> HIDE DEF l
    <2>14. s[l].first - Before(s, l) = s[i].first - Before(s, i) BY <2>11 DEF Offset
    <2>15. s[l].first + (k - 1 - Before(s, l)) = s[i].first + (k - 1 - Before(s, i))
      <3> DEFINE a == s[l].first
                 b == Before(s, l)
                 c == s[i].first
                 d == Before(s, i)
      <3>1. a \in Int /\ b \in Int /\ c \in Int /\ d \in Int /\ a - b = c - d
        BY <2>12, <2>14
      <3>2. a + (k - 1 - b) = c + (k - 1 - d)
        <4> HIDE DEF a, b, c, d
        <4> QED BY <2>13, <3>1
      <3> QED BY <3>2
    <2>16. s[i].first + (k - 1 - Before(s, i)) \in Int BY <2>12, <2>13
    <2> QED BY <2>3, <2>4, <2>15, <2>16
  <1>3. CASE n >= 0
    <2>1. Gathered(s, n) \in [1..n -> Int]
      <3>1. Gathered(s, n) = [k \in 1..n |-> Gathered(s, n)[k]] BY DEF Gathered, Run
      <3> QED BY <1>2, <3>1
    <2>2. Gathered(s, n) \in Seq(Int) /\ Len(Gathered(s, n)) = n
      BY <1>3, <2>1, FunctionIsSeq
    <2>3. /\ SubSeq(Bytes(s), 1, n) \in Seq(Int) /\ Len(SubSeq(Bytes(s), 1, n)) = n
          /\ \A k \in 1..n : SubSeq(Bytes(s), 1, n)[k] = Bytes(s)[k]
      <3>1. \A k \in 1..n : Bytes(s)[k] \in Int BY <1>2
      <3>2. /\ SubSeq(Bytes(s), 1, n) \in Seq(Int)
            /\ Len(SubSeq(Bytes(s), 1, n)) = IF 1 <= n THEN n - 1 + 1 ELSE 0
            /\ \A k \in 1..(n - 1 + 1) : SubSeq(Bytes(s), 1, n)[k] = Bytes(s)[1 + k - 1]
        BY <3>1, SubSeqProperties
      <3> QED BY <1>3, <3>2
    <2>4. \A k \in 1..Len(Gathered(s, n)) : Gathered(s, n)[k] = SubSeq(Bytes(s), 1, n)[k]
      BY <1>2, <2>2, <2>3
    <2>5. Gathered(s, n) = SubSeq(Bytes(s), 1, n) BY <2>2, <2>3, <2>4, SeqEqual
    <2> QED BY <1>3, <2>2, <2>5
  <1>4. CASE n < 0
    <2>1. Gathered(s, n) \in [1..0 -> Int] BY <1>4 DEF Gathered, Run
    <2>2. Gathered(s, n) \in Seq(Int) /\ Len(Gathered(s, n)) = 0 BY <2>1, FunctionIsSeq
    <2>3. SubSeq(Bytes(s), 1, n) = <<>> BY <1>4, SubSeqEmpty
    <2>4. Gathered(s, n) = <<>> BY <2>2, EmptySeq
    <2> QED BY <1>4, <2>2, <2>3, <2>4
  <1> QED BY <1>3, <1>4

-----------------------------------------------------------------------------
(* Chains: sequences of buffers of any kind that keeps its kind and its end  *)
(* when its position moves.                                                 *)

Buffers(B) ==
    \A b \in B :
       /\ b.pos \in Int /\ b.last \in Int
       /\ \A p \in Int : LET m == [b EXCEPT !.pos = p] IN
            m \in B /\ m.pos = p /\ m.last = b.last /\ m.kind = b.kind

\* A part of a sequence.
LEMMA PartOf ==
    ASSUME NEW S, NEW s \in Seq(S), NEW m \in 1..(Len(s) + 1), NEW n \in 0..Len(s), m <= n + 1
    PROVE  /\ SubSeq(s, m, n) \in Seq(S) /\ Len(SubSeq(s, m, n)) = n - m + 1
           /\ \A i \in 1..(n - m + 1) : SubSeq(s, m, n)[i] = s[i + m - 1]
  <1>1. \A i \in m..n : s[i] \in S OBVIOUS
  <1>2. /\ SubSeq(s, m, n) \in Seq(S)
        /\ Len(SubSeq(s, m, n)) = IF m <= n THEN n - m + 1 ELSE 0
        /\ \A i \in 1..(n - m + 1) : SubSeq(s, m, n)[i] = s[m + i - 1]
    BY <1>1, SubSeqProperties
  <1>3. \A i \in 1..(n - m + 1) : m + i - 1 = i + m - 1 OBVIOUS
  <1> QED BY <1>2, <1>3

LEMMA SourcesType ==
    ASSUME NEW B, Buffers(B), NEW bufs \in Seq(B)
    PROVE  /\ Sources(bufs) \in Seq(SpanType) /\ Len(Sources(bufs)) = Len(bufs)
           /\ \A i \in 1..Len(bufs) :
                /\ Sources(bufs)[i] = IF bufs[i].kind = "memory"
                                       THEN [first |-> bufs[i].pos, end |-> bufs[i].last]
                                       ELSE [first |-> 0, end |-> 0]
                /\ bufs[i].pos \in Int /\ bufs[i].last \in Int
           /\ \A i \in Filled(Sources(bufs)) : bufs[i].kind = "memory"
  <1>1. DOMAIN bufs = 1..Len(bufs) /\ Len(bufs) \in Nat OBVIOUS
  <1>2. \A i \in 1..Len(bufs) : bufs[i].pos \in Int /\ bufs[i].last \in Int
    BY DEF Buffers
  <1>3. \A i \in 1..Len(bufs) :
          Sources(bufs)[i] = IF bufs[i].kind = "memory"
                              THEN [first |-> bufs[i].pos, end |-> bufs[i].last]
                              ELSE [first |-> 0, end |-> 0]
    BY <1>1 DEF Sources, Span
  <1>4. ASSUME NEW i \in 1..Len(bufs) PROVE Sources(bufs)[i] \in SpanType
    <2>1. [first |-> bufs[i].pos, end |-> bufs[i].last] \in SpanType BY <1>2 DEF SpanType
    <2>2. [first |-> 0, end |-> 0] \in SpanType BY DEF SpanType
    <2> QED BY <1>3, <2>1, <2>2
  <1>5. Sources(bufs) = [i \in 1..Len(bufs) |-> Sources(bufs)[i]] BY <1>1 DEF Sources
  <1>6. Sources(bufs) \in [1..Len(bufs) -> SpanType] BY <1>4, <1>5
  <1>7. Sources(bufs) \in Seq(SpanType) /\ Len(Sources(bufs)) = Len(bufs)
    BY <1>1, <1>6, FunctionIsSeq
  <1>8. ASSUME NEW i \in Filled(Sources(bufs)) PROVE bufs[i].kind = "memory"
    <2>1. i \in 1..Len(bufs) /\ Sources(bufs)[i].first < Sources(bufs)[i].end
      BY <1>6, <1>7, <1>8 DEF Filled
    <2>2. CASE bufs[i].kind # "memory"
      <3>1. Sources(bufs)[i] = [first |-> 0, end |-> 0] BY <1>3, <2>1, <2>2
      <3> QED BY <2>1, <3>1
    <2> QED BY <2>2
  <1> QED BY <1>2, <1>3, <1>7, <1>8

LEMMA ContentType ==
    ASSUME NEW B, Buffers(B), NEW bufs \in Seq(B)
    PROVE  Content(bufs) \in Seq(Int) /\ Len(Content(bufs)) = Total(Sources(bufs))
  BY SourcesType, BytesType DEF Content

LEMMA StopInside ==
    ASSUME NEW s \in Seq(SpanType), NEW blocked, NEW limit, NEW nalloc
    PROVE  /\ Stop(s, blocked, limit, nalloc) \in 1..(Len(s) + 1)
           /\ Before(s, Stop(s, blocked, limit, nalloc)) \in Nat
           /\ Before(s, Stop(s, blocked, limit, nalloc)) <= Total(s)
  <1> DEFINE stop == Stop(s, blocked, limit, nalloc)
  <1>1. Len(s) + 1 \in 1..(Len(s) + 1) /\ DOMAIN s = 1..Len(s) OBVIOUS
  <1>2. stop \in 1..(Len(s) + 1)
    <2> DEFINE S == {Len(s) + 1} \cup
          {i \in DOMAIN s :
              \/ i \in blocked
              \/ Before(s, i) >= limit
              \/ i \in Starts(s) /\ Cardinality(Starts(s) \cap 1..i) > nalloc}
    <2>1. S \subseteq 1..(Len(s) + 1) /\ S # {} BY <1>1
    <2>2. S \in SUBSET Nat BY <2>1
    <2>3. FirstOf(S) \in S
      <3> HIDE DEF S
      <3> QED BY <2>1, <2>2, FirstOfIn
    <2>4. stop = FirstOf(S) BY DEF Stop
    <2> HIDE DEF S, stop
    <2> QED BY <2>1, <2>3, <2>4
  <1> HIDE DEF stop
  <1>3. Before(s, stop) \in Nat BY <1>2, BeforeType
  <1>4. stop <= Len(s) + 1 BY <1>2
  <1>5. Before(s, stop) <= Total(s) BY <1>1, <1>2, <1>4, BeforeGrows DEF Total
  <1> QED BY <1>2, <1>3, <1>5 DEF stop

\* The iovecs of a turn stand for the first bytes of the chain.
LEMMA IovecsRight ==
    ASSUME NEW B, Buffers(B), NEW bufs \in Seq(B), NEW limit \in Nat, NEW nalloc
    PROVE  LET v == OutputChainToIovec(bufs, limit, nalloc) IN
           /\ v.bytes \in Seq(Int) /\ Len(v.bytes) <= Len(Content(bufs))
           /\ v.bytes = SubSeq(Content(bufs), 1, Len(v.bytes)) /\ Len(v.bytes) <= limit
  <1> DEFINE s == Sources(bufs)
             blocked == {i \in DOMAIN bufs : bufs[i].kind \in {"file", "bad"}}
             n == AtMost(limit, Before(s, Stop(s, blocked, limit, nalloc)))
             v == OutputChainToIovec(bufs, limit, nalloc)
  <1>1. s \in Seq(SpanType) BY SourcesType
  <1>2. /\ Before(s, Stop(s, blocked, limit, nalloc)) \in Nat
        /\ Before(s, Stop(s, blocked, limit, nalloc)) <= Total(s)
    <2> HIDE DEF s, blocked
    <2> QED BY <1>1, StopInside
  <1>3. n \in Nat /\ n <= Total(s) /\ n <= limit
    <2> HIDE DEF s, blocked
    <2> QED BY <1>1, <1>2, TotalType DEF AtMost
  <1>4. v.bytes = Gathered(s, n) BY DEF OutputChainToIovec
  <1>5. Len(Content(bufs)) = Total(s) /\ Content(bufs) = Bytes(s)
    BY ContentType DEF Content
  <1>6. /\ Gathered(s, n) = SubSeq(Bytes(s), 1, n) /\ Gathered(s, n) \in Seq(Int)
        /\ Len(Gathered(s, n)) = n
    <2> HIDE DEF s, n
    <2> QED BY <1>1, <1>3, GatheredRight
  <1> HIDE DEF s, n, v
  <1>7. Len(v.bytes) = n BY <1>4, <1>6
  <1> QED BY <1>3, <1>4, <1>5, <1>6, <1>7 DEF v

-----------------------------------------------------------------------------
(* hky_chain_update_sent drops the bytes that were sent, and no other.       *)

\* t is s without its first n bytes, which end in span i.
Drops(s, i, n, t) ==
    /\ i \in 1..Len(s) /\ n \in Nat /\ Before(s, i) <= n /\ n <= Before(s, i + 1)
    /\ Len(t) = Len(s) - i + 1
    /\ \A j \in 2..Len(t) : t[j] = s[j + i - 1]
    /\ Size(t[1]) = Before(s, i + 1) - n
    /\ Size(t[1]) > 0 => t[1].first = s[i].first + (n - Before(s, i))

LEMMA DroppedBefore ==
    ASSUME NEW s \in Seq(SpanType), NEW t \in Seq(SpanType), NEW i, NEW n, Drops(s, i, n, t)
    PROVE  /\ \A j \in 2..(Len(t) + 1) : Before(t, j) = Before(s, j + i - 1) - n
           /\ Total(t) = Total(s) - n
  <1> DEFINE Wrong == {j \in 2..(Len(t) + 1) : Before(t, j) # Before(s, j + i - 1) - n}
  <1>1. /\ i \in 1..Len(s) /\ n \in Nat /\ Len(t) = Len(s) - i + 1 /\ Len(s) \in Nat
        /\ \A j \in 2..Len(t) : t[j] = s[j + i - 1]
    BY DEF Drops
  <1>2. Len(t) \in Nat /\ 1 \in 1..Len(t) BY <1>1
  <1>3. Before(t, 2) = Before(s, i + 1) - n
    <2>1. Before(t, 1 + 1) = Before(t, 1) + Size(t[1]) BY <1>2, BeforeNext
    <2>2. Before(s, i + 1) \in Nat
      <3>1. i + 1 \in 1..(Len(s) + 1) BY <1>1
      <3> QED BY <3>1, BeforeType
    <2> QED BY <1>1, <2>1, <2>2, BeforeFirst DEF Drops
  <1>4. ASSUME Wrong # {} PROVE FALSE
    <2>1. PICK m \in Wrong : \A j \in Wrong : m <= j
      <3>1. Wrong \in SUBSET Nat OBVIOUS
      <3> HIDE DEF Wrong
      <3> QED BY <1>4, <3>1, FirstOfIn
    <2>2. m # 2
      <3>1. 2 + i - 1 = i + 1 BY <1>1
      <3> QED BY <1>3, <2>1, <3>1
    <2>3. m - 1 \in 2..(Len(t) + 1) /\ m - 1 \in 2..Len(t) /\ m - 1 \in 1..Len(t) /\ m \in Int
      BY <1>2, <2>1, <2>2
    <2>4. m - 1 \notin Wrong BY <2>1, <2>3
    <2>5. Before(t, m - 1) = Before(s, (m - 1) + i - 1) - n BY <2>3, <2>4
    <2>6. t[m - 1] = s[(m - 1) + i - 1] BY <1>1, <2>3
    <2>7. (m - 1) + i - 1 \in 1..Len(s) /\ (m - 1) + i - 1 \in 1..(Len(s) + 1)
      BY <1>1, <2>3
    <2>8. Before(t, (m - 1) + 1) = Before(t, m - 1) + Size(t[m - 1]) BY <2>3, BeforeNext
    <2>9. Before(s, ((m - 1) + i - 1) + 1)
            = Before(s, (m - 1) + i - 1) + Size(s[(m - 1) + i - 1])
      BY <2>7, BeforeNext
    <2>10. (m - 1) + 1 = m /\ ((m - 1) + i - 1) + 1 = m + i - 1 BY <1>1, <2>3
    <2>11. /\ Before(s, (m - 1) + i - 1) \in Int
           /\ Size(s[(m - 1) + i - 1]) \in Int
      <3> DEFINE h == (m - 1) + i - 1
      <3>1. h \in 1..Len(s) /\ h \in 1..(Len(s) + 1) BY <2>7
      <3> HIDE DEF h
      <3>2. s[h] \in SpanType BY <3>1
      <3>3. s[h].first \in Int /\ s[h].end \in Int BY <3>2 DEF SpanType
      <3>4. Size(s[h]) \in Int BY <3>3 DEF Size
      <3>5. Before(s, h) \in Int BY <3>1, BeforeType
      <3> QED BY <3>4, <3>5 DEF h
    <2>12. Before(t, m) = Before(s, m + i - 1) - n
      BY <1>1, <2>5, <2>6, <2>8, <2>9, <2>10, <2>11
    <2> QED BY <2>1, <2>12
  <1>5. \A j \in 2..(Len(t) + 1) : Before(t, j) = Before(s, j + i - 1) - n BY <1>4
  <1>6. Len(t) + 1 \in 2..(Len(t) + 1) /\ (Len(t) + 1) + i - 1 = Len(s) + 1 BY <1>1, <1>2
  <1> QED BY <1>5, <1>6 DEF Total

LEMMA DroppedBytes ==
    ASSUME NEW s \in Seq(SpanType), NEW t \in Seq(SpanType), NEW i, NEW n, Drops(s, i, n, t)
    PROVE  Bytes(t) = SubSeq(Bytes(s), n + 1, Total(s))
  <1>1. /\ i \in 1..Len(s) /\ n \in Nat /\ Before(s, i) <= n /\ n <= Before(s, i + 1)
        /\ Len(t) = Len(s) - i + 1 /\ Len(s) \in Nat /\ Len(t) \in Nat
        /\ \A j \in 2..Len(t) : t[j] = s[j + i - 1]
        /\ Size(t[1]) = Before(s, i + 1) - n
        /\ Size(t[1]) > 0 => t[1].first = s[i].first + (n - Before(s, i))
    BY DEF Drops
  <1>2. /\ \A j \in 2..(Len(t) + 1) : Before(t, j) = Before(s, j + i - 1) - n
        /\ Total(t) = Total(s) - n
    BY DroppedBefore
  <1>3. /\ Total(t) \in Nat /\ Total(s) \in Nat
        /\ Bytes(t) \in Seq(Int) /\ Len(Bytes(t)) = Total(t)
        /\ Bytes(s) \in Seq(Int) /\ Len(Bytes(s)) = Total(s)
    BY TotalType, BytesType
  <1>4. ASSUME NEW k \in 1..Total(t) PROVE Bytes(t)[k] = Bytes(s)[k + n]
    <2>1. k + n \in 1..Total(s) /\ k \in Int BY <1>1, <1>2, <1>3
    <2>2. PICK j \in Filled(t) : Holds(t, j, k) BY OneHolds
    <2>3. Bytes(t)[k] = t[j].first + (k - 1 - Before(t, j)) BY <2>2, BytesType
    <2>4. /\ j \in 1..Len(t) /\ t[j].first \in Int /\ t[j].first < t[j].end
          /\ Before(t, j) < k /\ k <= Before(t, j + 1)
          /\ Before(t, j) \in Nat /\ Before(t, j + 1) \in Nat
      BY <2>2, FilledSpan DEF Holds
    <2>5. CASE j = 1
      <3>1. Before(t, 1) = 0 /\ Before(t, 2) = Before(s, i + 1) - n
        <4>1. 2 \in 2..(Len(t) + 1) /\ 2 + i - 1 = i + 1 BY <1>1, <2>4
        <4> QED BY <1>2, <4>1, BeforeFirst
      <3>2. Before(s, i + 1) \in Nat /\ Before(s, i) \in Nat
        <4>1. i \in 1..(Len(s) + 1) /\ i + 1 \in 1..(Len(s) + 1) BY <1>1
        <4> QED BY <4>1, BeforeType
      <3>3. Size(t[1]) > 0 BY <1>1, <2>4, <2>5, <3>1, <3>2
      <3>4. i \in Filled(s)
        <4>1. Before(s, i + 1) = Before(s, i) + Size(s[i]) BY <1>1, BeforeNext
        <4>2. Size(s[i]) # 0 BY <1>1, <3>2, <3>3, <4>1
        <4>3. s[i].first < s[i].end BY <4>2 DEF Size
        <4> QED BY <1>1, <4>3 DEF Filled
      <3>5. Holds(s, i, k + n) BY <1>1, <2>1, <2>4, <2>5, <3>1, <3>2, <3>4, SMTT(30) DEF Holds
      <3>6. Bytes(s)[k + n] = s[i].first + (k + n - 1 - Before(s, i))
        <4>1. PICK m \in Int : m = k + n BY <1>1, <2>1
        <4>2. Bytes(s)[m] = s[i].first + (m - 1 - Before(s, i))
          <5>1. Holds(s, i, m) /\ m \in 1..Total(s) BY <2>1, <3>5, <4>1
          <5> QED BY <5>1, BytesType
        <4>3. Before(s, i) \in Int /\ s[i].first \in Int BY <3>2, <3>4, FilledSpan
        <4> QED BY <1>1, <2>1, <4>1, <4>2, <4>3
      <3>7. s[i].first \in Int BY <3>4, FilledSpan
      <3>8. Bytes(t)[k] = s[i].first + (n - Before(s, i)) + (k - 1 - 0)
        BY <1>1, <2>3, <2>5, <3>1, <3>3
      <3> DEFINE f == s[i].first
                 b == Before(s, i)
      <3>9. f + (n - b) + (k - 1 - 0) = f + (k + n - 1 - b)
        <4>1. f \in Int /\ b \in Int BY <3>2, <3>7
        <4> HIDE DEF f, b
        <4> QED BY <1>1, <2>1, <4>1
      <3> QED BY <3>6, <3>8, <3>9
    <2>6. CASE j # 1
      <3> DEFINE h == j + i - 1
      <3>1. /\ j \in 2..Len(t) /\ j \in 2..(Len(t) + 1) /\ j + 1 \in 2..(Len(t) + 1)
            /\ h \in 1..Len(s) /\ (j + 1) + i - 1 = h + 1
        BY <1>1, <2>4, <2>6
      <3>2. t[j] = s[h] /\ Before(t, j) = Before(s, h) - n /\ Before(t, j + 1) = Before(s, h + 1) - n
        BY <1>1, <1>2, <3>1
      <3>3. h \in Filled(s) BY <2>4, <3>1, <3>2 DEF Filled
      <3>4. Before(s, h) \in Nat /\ Before(s, h + 1) \in Nat BY <3>3, FilledSpan
      <3> HIDE DEF h
      <3>5. Holds(s, h, k + n)
        <4>1. Before(s, h) - n < k /\ k <= Before(s, h + 1) - n BY <2>4, <3>2
        <4>2. Before(s, h) < k + n /\ k + n <= Before(s, h + 1)
          BY <1>1, <2>1, <3>4, <4>1
        <4> QED BY <3>3, <4>2 DEF Holds
      <3>6. Bytes(s)[k + n] = s[h].first + (k + n - 1 - Before(s, h))
        <4>1. PICK m \in Int : m = k + n BY <1>1, <2>1
        <4>2. Bytes(s)[m] = s[h].first + (m - 1 - Before(s, h))
          <5>1. Holds(s, h, m) /\ m \in 1..Total(s) BY <2>1, <3>5, <4>1
          <5> QED BY <5>1, BytesType
        <4>3. Before(s, h) \in Int /\ s[h].first \in Int BY <2>4, <3>2, <3>4
        <4> QED BY <1>1, <2>1, <4>1, <4>2, <4>3
      <3>7. Bytes(t)[k] = s[h].first + (k - 1 - (Before(s, h) - n)) BY <2>3, <3>2
      <3> DEFINE f == s[h].first
                 b == Before(s, h)
      <3>8. f + (k - 1 - (b - n)) = f + (k + n - 1 - b)
        <4>1. f \in Int /\ b \in Int BY <2>4, <3>2, <3>4
        <4> HIDE DEF f, b
        <4> QED BY <1>1, <2>1, <4>1
      <3> QED BY <3>6, <3>7, <3>8
    <2> QED BY <2>5, <2>6
  <1>5. n + 1 \in 1..(Len(Bytes(s)) + 1) /\ Total(s) \in 0..Len(Bytes(s)) /\ n + 1 <= Total(s) + 1
    BY <1>1, <1>2, <1>3
  <1>6. /\ SubSeq(Bytes(s), n + 1, Total(s)) \in Seq(Int)
        /\ Len(SubSeq(Bytes(s), n + 1, Total(s))) = Total(s) - (n + 1) + 1
        /\ \A k \in 1..(Total(s) - (n + 1) + 1) :
              SubSeq(Bytes(s), n + 1, Total(s))[k] = Bytes(s)[k + (n + 1) - 1]
    BY <1>3, <1>5, PartOf
  <1>7. Total(s) - (n + 1) + 1 = Total(t) BY <1>1, <1>2, <1>3
  <1>8. \A k \in 1..Total(t) : SubSeq(Bytes(s), n + 1, Total(s))[k] = Bytes(t)[k]
    <2>1. \A k \in 1..Total(t) : k + (n + 1) - 1 = k + n BY <1>1
    <2> QED BY <1>4, <1>6, <1>7, <2>1
  <1> QED BY <1>3, <1>6, <1>7, <1>8, SeqEqual

\* The buffers a rest of the chain may begin with.
Leftover(bufs, n) ==
    {i \in DOMAIN bufs : /\ bufs[i].kind # "special"
                          /\ \/ Before(Sources(bufs), i) = n
                             \/ Before(Sources(bufs), i + 1) > n}

LEMMA LeftoverHolds ==
    ASSUME NEW B, Buffers(B), NEW bufs \in Seq(B),
           NEW n \in Nat, n < Total(Sources(bufs))
    PROVE  \E i \in Leftover(bufs, n) : Before(Sources(bufs), i) <= n
  <1> DEFINE s == Sources(bufs)
  <1>1. /\ s \in Seq(SpanType) /\ Len(s) = Len(bufs)
        /\ \A i \in Filled(s) : bufs[i].kind = "memory"
    BY SourcesType
  <1> HIDE DEF s
  <1>2. n + 1 \in 1..Total(s) /\ Total(s) \in Nat BY <1>1, TotalType DEF s
  <1>3. PICK i \in Filled(s) : Holds(s, i, n + 1) BY <1>1, <1>2, OneHolds
  <1>4. /\ i \in 1..Len(s) /\ Before(s, i) < n + 1 /\ n + 1 <= Before(s, i + 1)
        /\ Before(s, i) \in Nat /\ Before(s, i + 1) \in Nat
    BY <1>1, <1>3, FilledSpan DEF Holds
  <1>5. Before(s, i) <= n /\ Before(s, i + 1) > n BY <1>4
  <1>6. i \in DOMAIN bufs /\ bufs[i].kind = "memory" BY <1>1, <1>3, <1>4
  <1>7. i \in Leftover(bufs, n) BY <1>5, <1>6 DEF Leftover, s
  <1> QED BY <1>5, <1>7 DEF s

\* The rest of a chain without n bytes: buffers of the chain, the first of them
\* perhaps in part.
Remains(bufs, n, rest) ==
    \/ rest = <<>> /\ n = Total(Sources(bufs))
    \/ \E i \in 1..Len(bufs), p \in Int :
          /\ Drops(Sources(bufs), i, n, Sources(rest))
          /\ Len(rest) = Len(bufs) - i + 1
          /\ rest[1] = [bufs[i] EXCEPT !.pos = p]
          /\ \A j \in 2..Len(rest) : rest[j] = bufs[j + i - 1]

LEMMA UpdateSentRight ==
    ASSUME NEW B, Buffers(B), NEW bufs \in Seq(B), Sound(bufs),
           NEW n \in Nat, n <= Len(Content(bufs))
    PROVE  LET rest == UpdateSent(bufs, n) IN
           /\ rest \in Seq(B) /\ Sound(rest)
           /\ Content(rest) = SubSeq(Content(bufs), n + 1, Len(Content(bufs)))
           /\ Remains(bufs, n, rest)
  <1> DEFINE s == Sources(bufs)
             rest == UpdateSent(bufs, n)
             Left == Leftover(bufs, n)
             i == FirstOf(Left)
  <1>1. /\ s \in Seq(SpanType) /\ Len(s) = Len(bufs) /\ Len(bufs) \in Nat
        /\ DOMAIN bufs = 1..Len(bufs)
        /\ \A k \in 1..Len(bufs) :
             /\ s[k] = IF bufs[k].kind = "memory"
                       THEN [first |-> bufs[k].pos, end |-> bufs[k].last]
                       ELSE [first |-> 0, end |-> 0]
             /\ bufs[k].pos \in Int /\ bufs[k].last \in Int
    BY SourcesType
  <1>2. Content(bufs) = Bytes(s) /\ Len(Content(bufs)) = Total(s) /\ Total(s) \in Nat
    BY <1>1, ContentType, TotalType DEF Content
  <1>3. rest = IF Left = {} THEN <<>>
               ELSE <<[bufs[i] EXCEPT !.pos = @ + (n - Before(s, i))]>>
                      \o SubSeq(bufs, i + 1, Len(bufs))
    BY DEF UpdateSent, Leftover
  <1>4. CASE Left = {}
    <2>1. n = Total(s) BY <1>2, <1>4, LeftoverHolds
    <2>2. rest = <<>> BY <1>3, <1>4
    <2>3. rest \in Seq(B) /\ Len(rest) = 0 /\ DOMAIN rest = {} BY <2>2
    <2>4. Content(rest) = <<>>
      <3>1. /\ Sources(rest) \in Seq(SpanType) /\ Len(Sources(rest)) = 0
        BY <2>3, SourcesType
      <3>2. Total(Sources(rest)) = 0 BY <3>1, BeforeFirst DEF Total
      <3>3. Content(rest) \in Seq(Int) /\ Len(Content(rest)) = 0 BY <2>3, <3>2, ContentType
      <3> QED BY <3>3, EmptySeq
    <2>5. SubSeq(Content(bufs), n + 1, Len(Content(bufs))) = <<>>
      BY <1>2, <2>1, SubSeqEmpty
    <2> QED BY <2>1, <2>2, <2>3, <2>4, <2>5 DEF Sound, Remains
  <1>5. CASE Left # {}
    <2>1. i \in Left /\ \A j \in Left : i <= j
      <3>1. Left \in SUBSET Nat BY <1>1 DEF Leftover
      <3> HIDE DEF Left
      <3> QED BY <1>5, <3>1, FirstOfIn
    <2> HIDE DEF i
    <2>2. /\ i \in 1..Len(s) /\ i \in 1..(Len(s) + 1) /\ i + 1 \in 1..(Len(s) + 1)
          /\ Before(s, i) = n \/ Before(s, i + 1) > n
      BY <1>1, <2>1 DEF Leftover
    <2>3. /\ Before(s, i) \in Nat /\ Before(s, i + 1) \in Nat
          /\ Before(s, i + 1) = Before(s, i) + Size(s[i]) /\ Size(s[i]) \in Nat
      <3>1. s[i].first \in Int /\ s[i].end \in Int
        <4>1. s[i] \in SpanType BY <1>1, <2>2
        <4> QED BY <4>1 DEF SpanType
      <3>2. Size(s[i]) \in Nat BY <3>1 DEF Size
      <3> QED BY <1>1, <2>2, <3>2, BeforeType, BeforeNext
    <2>4. Before(s, i) <= n
      <3>1. ASSUME n < Before(s, i) PROVE FALSE
        <4>1. Before(s, i) <= Total(s)
          <5>1. Len(s) + 1 \in 1..(Len(s) + 1) /\ i <= Len(s) + 1 BY <1>1, <2>2
          <5> QED BY <1>1, <2>2, <5>1, BeforeGrows DEF Total
        <4>2. n < Total(s) BY <1>2, <2>3, <3>1, <4>1
        <4>3. PICK j \in Left : Before(s, j) <= n BY <4>2, LeftoverHolds
        <4>4. i <= j /\ j \in 1..(Len(s) + 1) BY <1>1, <2>1, <4>3 DEF Leftover
        <4>5. Before(s, i) <= Before(s, j) /\ Before(s, j) \in Nat
          BY <1>1, <2>2, <4>4, BeforeGrows, BeforeType
        <4> QED BY <2>3, <3>1, <4>3, <4>5
      <3> QED BY <2>3, <3>1
    <2>5. n <= Before(s, i + 1) BY <2>2, <2>3, <2>4
    <2> DEFINE p == bufs[i].pos + (n - Before(s, i))
               b == [bufs[i] EXCEPT !.pos = p]
               behind == SubSeq(bufs, i + 1, Len(bufs))
    <2>6. /\ bufs[i].pos \in Int /\ p \in Int /\ b \in B
          /\ b.pos = p /\ b.last = bufs[i].last /\ b.kind = bufs[i].kind
      <3>1. bufs[i] \in B /\ bufs[i].pos \in Int
        <4>1. i \in 1..Len(bufs) BY <1>1, <2>2
        <4> QED BY <1>1, <4>1, ElementOfSeq
      <3>2. p \in Int BY <2>3, <3>1
      <3> HIDE DEF p
      <3> QED BY <3>1, <3>2 DEF Buffers
    <2> HIDE DEF b, p
    <2>7. /\ behind \in Seq(B) /\ Len(behind) = Len(bufs) - i
          /\ \A j \in 1..(Len(bufs) - i) : behind[j] = bufs[j + i]
      <3>1. /\ behind \in Seq(B) /\ Len(behind) = Len(bufs) - (i + 1) + 1
            /\ \A j \in 1..(Len(bufs) - (i + 1) + 1) : behind[j] = bufs[j + (i + 1) - 1]
        <4>1. i + 1 \in 1..(Len(bufs) + 1) /\ Len(bufs) \in 0..Len(bufs) /\ i + 1 <= Len(bufs) + 1
          BY <1>1, <2>2
        <4> QED BY <4>1, PartOf
      <3>2. Len(bufs) - (i + 1) + 1 = Len(bufs) - i BY <1>1, <2>2
      <3>3. \A j \in 1..(Len(bufs) - i) : j + (i + 1) - 1 = j + i BY <2>2
      <3> QED BY <3>1, <3>2, <3>3
    <2> HIDE DEF behind
    <2>8. rest = <<b>> \o behind BY <1>3, <1>5 DEF b, p, behind
    <2>9. /\ rest \in Seq(B) /\ Len(rest) = Len(bufs) - i + 1 /\ rest[1] = b
          /\ \A j \in 2..Len(rest) : rest[j] = bufs[j + i - 1]
      <3>1. <<b>> \in Seq(B) /\ Len(<<b>>) = 1 /\ <<b>>[1] = b BY <2>6
      <3>2. /\ rest \in Seq(B) /\ Len(rest) = 1 + Len(behind)
            /\ \A j \in 1..(1 + Len(behind)) :
                  rest[j] = IF j <= 1 THEN <<b>>[j] ELSE behind[j - 1]
        BY <2>7, <2>8, <3>1, ConcatProperties
      <3>3. Len(rest) = Len(bufs) - i + 1 /\ Len(rest) \in Nat /\ 1 \in 1..Len(rest)
        BY <1>1, <2>2, <2>7, <3>2
      <3>4. ASSUME NEW j \in 2..Len(rest) PROVE rest[j] = bufs[j + i - 1]
        <4>1. rest[j] = behind[j - 1] BY <3>2, <3>3
        <4>2. j - 1 \in 1..(Len(bufs) - i) /\ (j - 1) + i = j + i - 1 BY <1>1, <2>2, <3>3
        <4> QED BY <2>7, <4>1, <4>2
      <3> QED BY <3>1, <3>2, <3>3, <3>4
    <2> HIDE DEF rest
    <2>10. Sound(rest)
      <3> SUFFICES ASSUME NEW j \in 1..Len(rest), rest[j].kind = "memory"
                   PROVE  rest[j].pos < rest[j].last
        BY <2>9 DEF Sound
      <3>1. CASE j = 1
        <4>1. bufs[i].kind = "memory" /\ i \in DOMAIN bufs BY <1>1, <2>2, <2>6, <2>9, <3>1
        <4>2. bufs[i].pos < bufs[i].last /\ bufs[i].last \in Int BY <1>1, <4>1 DEF Sound
        <4>3. s[i] = [first |-> bufs[i].pos, end |-> bufs[i].last] BY <1>1, <4>1
        <4>4. Size(s[i]) = bufs[i].last - bufs[i].pos BY <4>2, <4>3 DEF Size
        <4>5. n - Before(s, i) < bufs[i].last - bufs[i].pos
          <5>1. CASE Before(s, i) = n BY <2>6, <4>2, <5>1
          <5>2. CASE Before(s, i + 1) > n BY <2>3, <4>4, <5>2
          <5> QED BY <2>2, <5>1, <5>2
        <4>6. p < bufs[i].last BY <2>3, <2>6, <4>2, <4>5, SMTT(30) DEF p
        <4> QED BY <2>6, <2>9, <3>1, <4>6
      <3>2. CASE j # 1
        <4>1. j \in 2..Len(rest) BY <3>2
        <4>2. rest[j] = bufs[j + i - 1] /\ j + i - 1 \in DOMAIN bufs
          BY <1>1, <2>2, <2>9, <4>1
        <4> QED BY <4>2 DEF Sound
      <3> QED BY <3>1, <3>2
    <2> DEFINE t == Sources(rest)
    <2>11. /\ t \in Seq(SpanType) /\ Len(t) = Len(rest)
           /\ \A k \in 1..Len(rest) :
                t[k] = IF rest[k].kind = "memory"
                       THEN [first |-> rest[k].pos, end |-> rest[k].last]
                       ELSE [first |-> 0, end |-> 0]
      BY <2>9, SourcesType
    <2> HIDE DEF t
    <2>12. 1 \in 1..Len(rest) BY <1>1, <2>2, <2>9
    <2>13. /\ Size(t[1]) = Before(s, i + 1) - n
           /\ Size(t[1]) > 0 => t[1].first = s[i].first + (n - Before(s, i))
      <3>1. CASE bufs[i].kind = "memory"
        <4>1. t[1] = [first |-> p, end |-> bufs[i].last]
          BY <2>6, <2>9, <2>11, <2>12, <3>1
        <4>2. s[i] = [first |-> bufs[i].pos, end |-> bufs[i].last] BY <1>1, <2>2, <3>1
        <4>3. bufs[i].pos < bufs[i].last /\ bufs[i].last \in Int
          BY <1>1, <2>2, <3>1 DEF Sound
        <4>4. Before(s, i + 1) = Before(s, i) + (bufs[i].last - bufs[i].pos)
          BY <2>3, <4>2, <4>3 DEF Size
        <4>5. t[1].first = p /\ t[1].end = bufs[i].last BY <4>1
        <4>6. Size(t[1]) = IF p < bufs[i].last THEN bufs[i].last - p ELSE 0
          BY <4>5 DEF Size
        <4>7. s[i].first = bufs[i].pos BY <4>2
        <4>8. p = bufs[i].pos + (n - Before(s, i)) BY DEF p
        <4> DEFINE a == bufs[i].pos
                   l == bufs[i].last
                   x == Before(s, i)
                   y == Before(s, i + 1)
        <4>9. l - p = y - n
          <5>1. a \in Int /\ l \in Int /\ x \in Int /\ p = a + (n - x) /\ y = x + (l - a)
            BY <2>3, <2>6, <4>3, <4>4, <4>8
          <5> HIDE DEF a, l, x, y
          <5> QED BY <5>1
        <4>10. Size(t[1]) = Before(s, i + 1) - n BY <2>3, <2>5, <2>6, <4>3, <4>6, <4>9
        <4> QED BY <4>5, <4>7, <4>8, <4>10
      <3>2. CASE bufs[i].kind # "memory"
        <4>1. t[1] = [first |-> 0, end |-> 0] BY <2>6, <2>9, <2>11, <2>12, <3>2
        <4>2. s[i] = [first |-> 0, end |-> 0] BY <1>1, <2>2, <3>2
        <4>3. Size(t[1]) = 0 /\ Size(s[i]) = 0 BY <4>1, <4>2 DEF Size
        <4> QED BY <2>3, <2>4, <2>5, <4>3
      <3> QED BY <3>1, <3>2
    <2>14. \A j \in 2..Len(t) : t[j] = s[j + i - 1]
      <3> TAKE j \in 2..Len(t)
      <3>1. /\ rest[j] = bufs[j + i - 1] /\ j \in 1..Len(rest) /\ j + i - 1 \in 1..Len(bufs)
        BY <1>1, <2>2, <2>9, <2>11
      <3> QED BY <1>1, <2>11, <3>1
    <2>15. Drops(s, i, n, t)
      BY <1>1, <2>2, <2>4, <2>5, <2>9, <2>11, <2>13, <2>14 DEF Drops
    <2>16. Bytes(t) = SubSeq(Bytes(s), n + 1, Total(s)) BY <1>1, <2>11, <2>15, DroppedBytes
    <2>17. Content(rest) = Bytes(t) BY DEF Content, t
    <2>18. Remains(bufs, n, rest)
      <3>1. rest[1] = [bufs[i] EXCEPT !.pos = p] /\ p \in Int /\ i \in 1..Len(bufs)
        BY <1>1, <2>2, <2>6, <2>9 DEF b
      <3> QED BY <2>9, <2>15, <3>1 DEF Remains, t
    <2> QED BY <1>2, <2>9, <2>10, <2>16, <2>17, <2>18 DEF rest
  <1> QED BY <1>4, <1>5

\* The bytes of the first spans are the first bytes.
LEMMA StartOfBytes ==
    ASSUME NEW s \in Seq(SpanType), NEW t \in Seq(SpanType), Len(t) <= Len(s),
           \A i \in 1..Len(t) : t[i] = s[i]
    PROVE  /\ \A i \in 1..(Len(t) + 1) : Before(t, i) = Before(s, i)
           /\ Total(t) = Before(s, Len(t) + 1) /\ Total(t) <= Total(s)
           /\ Bytes(t) = SubSeq(Bytes(s), 1, Total(t))
  <1> DEFINE m == Len(t)
             n == Len(s)
  <1>1. m \in Nat /\ n \in Nat /\ m <= n /\ DOMAIN s = 1..n /\ DOMAIN t = 1..m
    BY LenProperties
  <1>2. ASSUME NEW i \in 1..(m + 1) PROVE Before(t, i) = Before(s, i)
    <2> DEFINE cells(x) == {{j} \X (x[j].first..(x[j].end - 1)) : j \in 1..(i - 1)}
    <2>1. \A j \in 1..(i - 1) :
            {j} \X (t[j].first..(t[j].end - 1)) = {j} \X (s[j].first..(s[j].end - 1))
      BY <1>1
    <2>2. cells(t) = cells(s) BY <2>1, Zenon
    <2> HIDE DEF cells
    <2>3. UNION cells(t) = UNION cells(s) BY <2>2
    <2> QED BY <2>3 DEF Before, cells
  <1> HIDE DEF m, n
  <1>3. m + 1 \in 1..(m + 1) /\ m + 1 \in 1..(n + 1) /\ n + 1 \in 1..(n + 1) /\ m + 1 <= n + 1
    BY <1>1
  <1>4. Total(t) = Before(s, m + 1) BY <1>2, <1>3 DEF Total, m
  <1>5. Before(s, m + 1) <= Total(s) BY <1>3, BeforeGrows DEF Total, n
  <1>6. /\ Total(s) \in Nat /\ Total(t) \in Nat /\ Total(t) <= Total(s)
        /\ Bytes(s) \in Seq(Int) /\ Len(Bytes(s)) = Total(s)
        /\ Bytes(t) \in Seq(Int) /\ Len(Bytes(t)) = Total(t)
    BY <1>4, <1>5, TotalType, BytesType
  <1>7. ASSUME NEW k \in 1..Total(t) PROVE Bytes(t)[k] = Bytes(s)[k]
    <2>1. k \in 1..Total(s) /\ k \in Int BY <1>6
    <2>2. PICK j \in Filled(t) : Holds(t, j, k) BY OneHolds
    <2>3. /\ j \in 1..m /\ j \in 1..n /\ j \in 1..(m + 1) /\ j + 1 \in 1..(m + 1)
          /\ t[j].first < t[j].end
      <3>1. j \in 1..m /\ t[j].first < t[j].end BY <2>2, FilledSpan DEF m
      <3> QED BY <1>1, <3>1
    <2>4. t[j] = s[j] /\ Before(t, j) = Before(s, j) /\ Before(t, j + 1) = Before(s, j + 1)
      BY <1>2, <2>3 DEF m
    <2>5. Holds(s, j, k) BY <1>1, <2>2, <2>3, <2>4 DEF Holds, Filled
    <2>6. Bytes(s)[k] = s[j].first + (k - 1 - Before(s, j)) BY <2>1, <2>5, BytesType
    <2>7. Bytes(t)[k] = t[j].first + (k - 1 - Before(t, j)) BY <2>2, BytesType
    <2> QED BY <2>4, <2>6, <2>7
  <1> DEFINE start == SubSeq(Bytes(s), 1, Total(t))
  <1>8. /\ start \in Seq(Int) /\ Len(start) = Total(t)
        /\ \A k \in 1..Total(t) : start[k] = Bytes(s)[k]
    <2>1. /\ Bytes(s) \in Seq(Int) /\ 1 \in 1..(Len(Bytes(s)) + 1)
          /\ Total(t) \in 0..Len(Bytes(s)) /\ 1 <= Total(t) + 1 /\ Total(t) - 1 + 1 = Total(t)
      BY <1>6
    <2>2. /\ start \in Seq(Int) /\ Len(start) = Total(t) - 1 + 1
          /\ \A k \in 1..(Total(t) - 1 + 1) : start[k] = Bytes(s)[k + 1 - 1]
      BY <2>1, PartOf
    <2>3. \A k \in 1..Total(t) : k + 1 - 1 = k BY <1>6
    <2> HIDE DEF start
    <2> QED BY <2>1, <2>2, <2>3
  <1> HIDE DEF start
  <1>9. Bytes(t) = start BY <1>6, <1>7, <1>8, SeqEqual
  <1> QED BY <1>2, <1>4, <1>6, <1>9 DEF m, start

LEMMA FirstBuffer ==
    ASSUME NEW B, Buffers(B), NEW bufs \in Seq(B), bufs # <<>>
    PROVE  LET bytes == Content(<<bufs[1]>>) IN
           /\ bytes \in Seq(Int) /\ Len(bytes) <= Len(Content(bufs))
           /\ bytes = SubSeq(Content(bufs), 1, Len(bytes))
           /\ Len(bytes) = Before(Sources(bufs), 2)
  <1> DEFINE one == <<bufs[1]>>
             s == Sources(bufs)
             t == Sources(one)
  <1>1. Len(bufs) \in Nat \ {0} /\ 1 \in 1..Len(bufs) /\ bufs[1] \in B BY EmptySeq
  <1>2. one \in Seq(B) /\ Len(one) = 1 /\ one[1] = bufs[1] /\ 1 \in 1..Len(one) BY <1>1
  <1> HIDE DEF one
  <1>3. /\ s \in Seq(SpanType) /\ Len(s) = Len(bufs)
        /\ s[1] = IF bufs[1].kind = "memory"
                  THEN [first |-> bufs[1].pos, end |-> bufs[1].last]
                  ELSE [first |-> 0, end |-> 0]
    BY <1>1, SourcesType
  <1>4. /\ t \in Seq(SpanType) /\ Len(t) = 1
        /\ t[1] = IF one[1].kind = "memory"
                  THEN [first |-> one[1].pos, end |-> one[1].last]
                  ELSE [first |-> 0, end |-> 0]
    BY <1>2, SourcesType
  <1>5. /\ Content(bufs) = Bytes(s) /\ Content(one) = Bytes(t)
        /\ Content(bufs) \in Seq(Int) /\ Len(Content(bufs)) = Total(s)
        /\ Content(one) \in Seq(Int) /\ Len(Content(one)) = Total(t)
    BY <1>2, ContentType DEF Content
  <1> HIDE DEF s, t
  <1>6. Len(t) <= Len(s) /\ \A i \in 1..Len(t) : t[i] = s[i] BY <1>1, <1>2, <1>3, <1>4
  <1>7. /\ Total(t) = Before(s, Len(t) + 1) /\ Total(t) <= Total(s)
        /\ Bytes(t) = SubSeq(Bytes(s), 1, Total(t))
    BY <1>3, <1>4, <1>6, StartOfBytes
  <1>8. Before(s, Len(t) + 1) = Before(s, 2) BY <1>4
  <1> QED BY <1>5, <1>7, <1>8 DEF one, s

-----------------------------------------------------------------------------
(* The reader's iovecs stand for the first free bytes of its chain, and what *)
(* the kernel puts there is found in order.                                  *)

FreeBuffers == Seq([last : Nat, end : Nat])

LEMMA FreeSpaceRight ==
    ASSUME NEW bufs \in ReadChains
    PROVE  LET s == FreeSpace(bufs) IN
           /\ s \in Seq(SpanType) /\ Bytes(s) \in Seq(Int)
           /\ \A k, m \in 1..Len(Bytes(s)) : Bytes(s)[k] = Bytes(s)[m] => k = m
  <1> DEFINE s == FreeSpace(bufs)
  <1>1. /\ bufs \in FreeBuffers /\ Len(bufs) \in Nat /\ DOMAIN bufs = 1..Len(bufs)
        /\ \A i, j \in 1..Len(bufs) :
             i # j => bufs[i].end <= bufs[j].last \/ bufs[j].end <= bufs[i].last
    <2>1. bufs \in FreeBuffers BY ConnAssumption DEF FreeBuffers
    <2>2. Len(bufs) \in Nat /\ DOMAIN bufs = 1..Len(bufs) BY <2>1, LenProperties DEF FreeBuffers
    <2> QED BY <2>1, <2>2, ConnAssumption
  <1>2. \A i \in 1..Len(bufs) :
          /\ s[i].first = bufs[i].last /\ s[i].end = bufs[i].end
          /\ s[i] = [first |-> bufs[i].last, end |-> bufs[i].end]
    BY <1>1 DEF FreeSpace, Span
  <1>3. ASSUME NEW i \in 1..Len(bufs)
        PROVE  /\ bufs[i].last \in Nat /\ bufs[i].end \in Nat
               /\ [first |-> bufs[i].last, end |-> bufs[i].end] \in SpanType
    <2>1. bufs[i] \in [last : Nat, end : Nat] BY <1>1, ElementOfSeq DEF FreeBuffers
    <2> QED BY <2>1 DEF SpanType
  <1>4. s \in Seq(SpanType) /\ Len(s) = Len(bufs)
    <2>1. s = [i \in 1..Len(bufs) |-> s[i]] BY <1>1 DEF FreeSpace
    <2>2. \A i \in 1..Len(bufs) : s[i] \in SpanType BY <1>2, <1>3
    <2>3. s \in [1..Len(bufs) -> SpanType] BY <2>1, <2>2
    <2> QED BY <1>1, <2>3, FunctionIsSeq
  <1> HIDE DEF s
  <1>5. Bytes(s) \in Seq(Int) /\ Len(Bytes(s)) = Total(s) BY <1>4, BytesType
  <1>6. ASSUME NEW k \in 1..Total(s), NEW m \in 1..Total(s), Bytes(s)[k] = Bytes(s)[m]
        PROVE  k = m
    <2>0. k \in Int /\ m \in Int BY <1>4, TotalType
    <2>1. PICK i \in Filled(s) : Holds(s, i, k) BY <1>4, OneHolds
    <2>2. PICK j \in Filled(s) : Holds(s, j, m) BY <1>4, OneHolds
    <2>3. /\ i \in 1..Len(bufs) /\ s[i].first \in Int /\ s[i].end \in Int
          /\ Before(s, i) \in Nat /\ Before(s, i + 1) = Before(s, i) + (s[i].end - s[i].first)
          /\ Before(s, i) < k /\ k <= Before(s, i + 1)
          /\ Bytes(s)[k] = s[i].first + (k - 1 - Before(s, i))
      BY <1>4, <2>1, FilledSpan, BytesType DEF Holds
    <2>4. /\ j \in 1..Len(bufs) /\ s[j].first \in Int /\ s[j].end \in Int
          /\ Before(s, j) \in Nat /\ Before(s, j + 1) = Before(s, j) + (s[j].end - s[j].first)
          /\ Before(s, j) < m /\ m <= Before(s, j + 1)
          /\ Bytes(s)[m] = s[j].first + (m - 1 - Before(s, j))
      BY <1>4, <2>2, FilledSpan, BytesType DEF Holds
    <2>5. s[i].first <= Bytes(s)[k] /\ Bytes(s)[k] < s[i].end BY <2>0, <2>3
    <2>6. s[j].first <= Bytes(s)[k] /\ Bytes(s)[k] < s[j].end BY <1>6, <2>0, <2>4
    <2>7. i = j
      <3> DEFINE byte == Bytes(s)[k]
                 a == s[i].first
                 b == s[i].end
                 c == s[j].first
                 d == s[j].end
      <3>1. /\ byte \in Int /\ a \in Int /\ b \in Int /\ c \in Int /\ d \in Int
            /\ a <= byte /\ byte < b /\ c <= byte /\ byte < d
        <4>1. byte \in Int BY <1>5, <1>6, ElementOfSeq
        <4> QED BY <2>3, <2>4, <2>5, <2>6, <4>1
      <3>2. i # j => b <= c \/ d <= a BY <1>1, <1>2, <2>3, <2>4
      <3> HIDE DEF byte, a, b, c, d
      <3> QED BY <3>1, <3>2
    <2> DEFINE a == s[i].first
               before == Before(s, i)
    <2>8. a + (k - 1 - before) = a + (m - 1 - before)
      <3>1. Bytes(s)[m] = s[i].first + (m - 1 - Before(s, i)) BY <2>4, <2>7, Zenon
      <3>2. Bytes(s)[k] = s[i].first + (k - 1 - Before(s, i)) BY <2>3
      <3> QED BY <1>6, <3>1, <3>2, Zenon
    <2>9. a \in Int /\ before \in Int BY <2>3
    <2> HIDE DEF a, before
    <2> QED BY <2>0, <2>8, <2>9
  <1> QED BY <1>4, <1>5, <1>6 DEF s

LEMMA InputRight ==
    ASSUME NEW bufs \in ReadChains, NEW limit \in Nat, NEW max
    PROVE  LET v == InputChainToIovec(bufs, limit, max) IN
           /\ v.into \in Seq(Int) /\ v.space \in Seq(Int)
           /\ Len(v.into) <= Len(v.space) /\ v.into = SubSeq(v.space, 1, Len(v.into))
           /\ \A i, j \in 1..Len(v.space) : v.space[i] = v.space[j] => i = j
  <1> DEFINE s == FreeSpace(bufs)
             most == IF limit = 0 THEN Len(Bytes(s)) ELSE limit
             n == AtMost(most, Before(s, Stop(s, {}, most, max)))
             v == InputChainToIovec(bufs, limit, max)
  <1>1. /\ s \in Seq(SpanType) /\ Bytes(s) \in Seq(Int)
        /\ \A k, m \in 1..Len(Bytes(s)) : Bytes(s)[k] = Bytes(s)[m] => k = m
    BY FreeSpaceRight
  <1>2. v.into = Gathered(s, n) /\ v.space = Bytes(s) BY DEF InputChainToIovec
  <1> HIDE DEF s, v
  <1>3. Len(Bytes(s)) = Total(s) /\ Total(s) \in Nat BY <1>1, BytesType, TotalType
  <1>4. most \in Nat BY <1>3
  <1>5. n \in Nat /\ n <= Total(s)
    <2>1. /\ Before(s, Stop(s, {}, most, max)) \in Nat
          /\ Before(s, Stop(s, {}, most, max)) <= Total(s)
      BY <1>1, StopInside
    <2> HIDE DEF most
    <2> QED BY <1>3, <1>4, <2>1 DEF AtMost
  <1>6. /\ Gathered(s, n) = SubSeq(Bytes(s), 1, n) /\ Gathered(s, n) \in Seq(Int)
        /\ Len(Gathered(s, n)) = n
    <2> HIDE DEF n
    <2> QED BY <1>1, <1>5, GatheredRight
  <1> HIDE DEF n
  <1> QED BY <1>1, <1>2, <1>3, <1>5, <1>6 DEF v

LEMMA ReadBackRight ==
    ASSUME NEW v, NEW data \in Seq(Int), Len(data) <= Len(v.into),
           v.into \in Seq(Int), v.space \in Seq(Int), Len(v.into) <= Len(v.space),
           v.into = SubSeq(v.space, 1, Len(v.into)),
           \A i, j \in 1..Len(v.space) : v.space[i] = v.space[j] => i = j
    PROVE  ReadBack(v, data) = data
  <1>1. /\ Len(data) \in Nat /\ DOMAIN data = 1..Len(data)
        /\ Len(v.into) \in Nat /\ Len(v.space) \in Nat
        /\ 1..Len(data) \subseteq 1..Len(v.space)
    <2> DEFINE n == Len(data)
               m == Len(v.into)
               o == Len(v.space)
    <2>1. n \in Nat /\ m \in Nat /\ o \in Nat /\ DOMAIN data = 1..n BY LenProperties
    <2>2. n <= m /\ m <= o OBVIOUS
    <2> HIDE DEF n, m, o
    <2>3. 1..n \subseteq 1..o BY <2>1, <2>2
    <2> QED BY <2>1, <2>3 DEF n, m, o
  <1>2. ASSUME NEW k \in 1..Len(data) PROVE v.into[k] = v.space[k]
    <2>1. /\ 1 \in 1..(Len(v.space) + 1) /\ Len(v.into) \in 0..Len(v.space)
          /\ 1 <= Len(v.into) + 1 /\ k \in 1..(Len(v.into) - 1 + 1) /\ k + 1 - 1 = k
      BY <1>1, SMTT(30)
    <2>2. SubSeq(v.space, 1, Len(v.into))[k] = v.space[k + 1 - 1] BY <2>1, PartOf
    <2> QED BY <2>1, <2>2
  <1>3. ASSUME NEW k \in 1..Len(data) PROVE ReadBack(v, data)[k] = data[k]
    <2> DEFINE J == {j \in DOMAIN data : v.into[j] = v.space[k]}
    <2>1. J = {k}
      <3>1. k \in J BY <1>1, <1>2
      <3>2. ASSUME NEW j \in J PROVE j = k
        <4>1. j \in 1..Len(data) /\ v.space[j] = v.space[k] BY <1>1, <1>2
        <4>2. j \in 1..Len(v.space) /\ k \in 1..Len(v.space) BY <1>1, <4>1
        <4> QED BY <4>1, <4>2
      <3> QED BY <3>1, <3>2
    <2>2. (CHOOSE j \in J : TRUE) = k BY <2>1
    <2>3. ReadBack(v, data)[k] = IF J = {} THEN 0 ELSE data[CHOOSE j \in J : TRUE]
      BY <1>1 DEF ReadBack
    <2> HIDE DEF J
    <2> QED BY <2>1, <2>2, <2>3
  <1>4. ReadBack(v, data) = [k \in 1..Len(data) |-> ReadBack(v, data)[k]]
    BY <1>1 DEF ReadBack
  <1>5. data = [k \in 1..Len(data) |-> data[k]] BY <1>1
  <1> QED BY <1>3, <1>4, <1>5

-----------------------------------------------------------------------------
(* The bytes that are sent leave the chain at its start.                    *)

LEMMA BufferIsBuffer == Buffers(Buffer)
  <1> SUFFICES ASSUME NEW b \in Buffer, NEW p \in Int
               PROVE  /\ b.pos \in Int /\ b.last \in Int
                      /\ LET m == [b EXCEPT !.pos = p] IN
                           m \in Buffer /\ m.pos = p /\ m.last = b.last /\ m.kind = b.kind
    <2>1. 0 \in Int OBVIOUS
    <2> QED BY <2>1, Zenon DEF Buffers
  <1> QED BY DEF Buffer

\* A part of a part of a sequence.
LEMMA PartOfPart ==
    ASSUME NEW S, NEW s \in Seq(S), NEW a \in 1..(Len(s) + 1), NEW b \in 0..Len(s), a <= b + 1,
           NEW c \in Nat, NEW d \in Nat, 1 <= c, c <= d + 1, d <= b - a + 1
    PROVE  SubSeq(SubSeq(s, a, b), c, d) = SubSeq(s, a + c - 1, a + d - 1)
  <1> DEFINE t == SubSeq(s, a, b)
             u == SubSeq(t, c, d)
             v == SubSeq(s, a + c - 1, a + d - 1)
  <1>0. Len(s) \in Nat OBVIOUS
  <1>1. /\ t \in Seq(S) /\ Len(t) = b - a + 1
        /\ \A i \in 1..(b - a + 1) : t[i] = s[i + a - 1]
    BY PartOf
  <1> HIDE DEF t
  <1>2. /\ u \in Seq(S) /\ Len(u) = d - c + 1
        /\ \A i \in 1..(d - c + 1) : u[i] = t[i + c - 1]
    <2>1. c \in 1..(Len(t) + 1) /\ d \in 0..Len(t) BY <1>0, <1>1
    <2> QED BY <1>1, <2>1, PartOf
  <1> HIDE DEF u
  <1>3. /\ v \in Seq(S) /\ Len(v) = d - c + 1
        /\ \A i \in 1..(d - c + 1) : v[i] = s[i + (a + c - 1) - 1]
    <2> DEFINE e == a + c - 1
               g == a + d - 1
    <2>1. e \in 1..(Len(s) + 1) /\ g \in 0..Len(s) /\ e <= g + 1 /\ g - e + 1 = d - c + 1
      BY <1>0
    <2> HIDE DEF e, g
    <2>2. /\ SubSeq(s, e, g) \in Seq(S) /\ Len(SubSeq(s, e, g)) = g - e + 1
          /\ \A i \in 1..(g - e + 1) : SubSeq(s, e, g)[i] = s[i + e - 1]
      BY <2>1, PartOf
    <2> QED BY <2>1, <2>2 DEF e, g
  <1> HIDE DEF v
  <1>4. ASSUME NEW i \in 1..(d - c + 1) PROVE u[i] = v[i]
    <2>1. i + c - 1 \in 1..(b - a + 1) /\ (i + c - 1) + a - 1 = i + (a + c - 1) - 1
      BY <1>0
    <2>2. t[i + c - 1] = s[(i + c - 1) + a - 1] BY <1>1, <2>1
    <2> QED BY <1>2, <1>3, <2>1, <2>2
  <1>5. Len(u) = Len(v) /\ \A i \in 1..Len(u) : u[i] = v[i] BY <1>2, <1>3, <1>4
  <1>6. u = v BY <1>2, <1>3, <1>5, SeqEqual
  <1> QED BY <1>6 DEF t, u, v

\* What is taken from the start of the rest of a sequence joins what is gone.
Continued(s, m, rest, n) ==
    /\ Len(rest) = Len(s) - m /\ m + n \in 0..Len(s)
    /\ SubSeq(rest, n + 1, Len(rest)) = SubSeq(s, m + n + 1, Len(s))
    /\ SubSeq(rest, 1, n) \in Seq(Int) /\ Len(SubSeq(rest, 1, n)) = n
    /\ SubSeq(s, 1, m) \o SubSeq(rest, 1, n) = SubSeq(s, 1, m + n)
    /\ Len(SubSeq(s, 1, m + n)) = m + n

LEMMA TakenFromRest ==
    ASSUME NEW s \in Seq(Int), NEW m \in 0..Len(s), NEW rest,
           rest = SubSeq(s, m + 1, Len(s)), NEW n \in Nat, n <= Len(rest)
    PROVE  Continued(s, m, rest, n)
  <1> DEFINE len == Len(s)
  <1>1. len \in Nat /\ m \in Nat /\ m <= len BY LenProperties
  <1>2. rest \in Seq(Int) /\ Len(rest) = len - m
    <2>1. m + 1 \in 1..(len + 1) /\ len \in 0..len /\ m + 1 <= len + 1 BY <1>1
    <2>2. rest \in Seq(Int) /\ Len(rest) = len - (m + 1) + 1 BY <2>1, PartOf
    <2> HIDE DEF len
    <2> QED BY <1>1, <2>2
  <1> HIDE DEF len
  <1>3. n <= len - m BY <1>2
  <1>4. m + n \in 0..len BY <1>1, <1>3
  <1>5. SubSeq(rest, n + 1, Len(rest)) = SubSeq(s, m + n + 1, len)
    <2>1. /\ m + 1 \in 1..(len + 1) /\ len \in 0..len /\ m + 1 <= len + 1
          /\ n + 1 \in Nat /\ 1 <= n + 1 /\ n + 1 <= (len - m) + 1 /\ len - m \in Nat
          /\ len - m <= len - (m + 1) + 1
          /\ m + 1 + (n + 1) - 1 = m + n + 1 /\ m + 1 + (len - m) - 1 = len
      BY <1>1, <1>3
    <2>2. SubSeq(SubSeq(s, m + 1, len), n + 1, len - m)
            = SubSeq(s, m + 1 + (n + 1) - 1, m + 1 + (len - m) - 1)
      BY <2>1, PartOfPart, SMTT(30) DEF len
    <2> QED BY <1>2, <2>1, <2>2 DEF len
  <1>6. SubSeq(rest, 1, n) = SubSeq(s, m + 1, m + n)
    <2>1. /\ m + 1 \in 1..(len + 1) /\ len \in 0..len /\ m + 1 <= len + 1
          /\ 1 \in Nat /\ 1 <= 1 /\ 1 <= n + 1 /\ n <= len - (m + 1) + 1
          /\ m + 1 + 1 - 1 = m + 1 /\ m + 1 + n - 1 = m + n
      BY <1>1, <1>3
    <2>2. SubSeq(SubSeq(s, m + 1, len), 1, n) = SubSeq(s, m + 1 + 1 - 1, m + 1 + n - 1)
      BY <2>1, PartOfPart DEF len
    <2> QED BY <2>1, <2>2 DEF len
  <1>7. SubSeq(rest, 1, n) \in Seq(Int) /\ Len(SubSeq(rest, 1, n)) = n
    <2>1. 1 \in 1..(Len(rest) + 1) /\ n \in 0..Len(rest) /\ 1 <= n + 1 /\ n - 1 + 1 = n
      BY <1>1, <1>2, <1>3
    <2>2. Len(SubSeq(rest, 1, n)) = n - 1 + 1 /\ SubSeq(rest, 1, n) \in Seq(Int)
      BY <1>2, <2>1, PartOf
    <2> QED BY <2>1, <2>2
  <1>8. SubSeq(s, 1, m) \o SubSeq(s, m + 1, m + n) = SubSeq(s, 1, m + n)
    <2>1. 1 \in 1..(len + 1) /\ m \in (1 - 1)..len /\ m + n \in m..len BY <1>1, <1>4
    <2> QED BY <2>1, ConcatAdjacentSubSeq DEF len
  <1>9. Len(SubSeq(s, 1, m + n)) = m + n
    <2>1. /\ 1 \in 1..(len + 1) /\ m + n \in 0..len /\ 1 <= m + n + 1
          /\ m + n - 1 + 1 = m + n
      BY <1>1, <1>4
    <2>2. Len(SubSeq(s, 1, m + n)) = m + n - 1 + 1 BY <2>1, PartOf DEF len
    <2> QED BY <2>1, <2>2
  <1> QED BY <1>2, <1>4, <1>5, <1>6, <1>7, <1>8, <1>9 DEF len, Continued

LEMMA TakesRight ==
    ASSUME WriteTypes, BytesInOrder, NEW bytes \in Seq(Int), NEW n \in 0..Len(bytes),
           Len(bytes) <= Len(Content(in)), bytes = SubSeq(Content(in), 1, Len(bytes)),
           Takes(bytes, n), asked' = asked, got' = got
    PROVE  in' \in Seq(Buffer) /\ Sound(in') /\ BytesInOrder'
  <1> DEFINE c == Content(in)
             gone == got \o rcv \o net
             more == SubSeq(bytes, 1, n)
  <1>1. /\ in \in Seq(Buffer) /\ Sound(in) /\ asked \in Seq(Int) /\ sent \in 0..Len(asked)
        /\ net \in Seq(Int) /\ rcv \in Seq(Int) /\ got \in Seq(Int)
        /\ c = SubSeq(asked, sent + 1, Len(asked)) /\ gone = SubSeq(asked, 1, Len(gone))
        /\ Len(gone) = sent /\ ending = "open"
    BY DEF WriteTypes, BytesInOrder, Takes
  <1>2. /\ net' = net \o more /\ sent' = sent + n /\ in' = UpdateSent(in, n)
        /\ rcv' = rcv /\ ending' = ending
    BY DEF Takes
  <1>3. c \in Seq(Int) /\ Len(c) \in Nat /\ Len(bytes) \in Nat /\ n \in Nat /\ n <= Len(c)
    <2>1. c \in Seq(Int) BY <1>1, BufferIsBuffer, ContentType
    <2>2. Len(c) \in Nat /\ Len(bytes) \in Nat BY <2>1, LenProperties
    <2>3. Len(bytes) <= Len(c) OBVIOUS
    <2> HIDE DEF c
    <2> QED BY <2>1, <2>2, <2>3
  <1>4. /\ in' \in Seq(Buffer) /\ Sound(in')
        /\ Content(in') = SubSeq(c, n + 1, Len(c))
    BY <1>1, <1>2, <1>3, BufferIsBuffer, UpdateSentRight
  <1>5. more = SubSeq(c, 1, n)
    <2> DEFINE m == Len(bytes)
    <2>1. m \in Nat /\ m <= Len(c) /\ n <= m BY <1>3
    <2>2. bytes = SubSeq(c, 1, m) OBVIOUS
    <2> HIDE DEF c, m
    <2>3. /\ 1 \in 1..(Len(c) + 1) /\ m \in 0..Len(c) /\ 1 <= m + 1 /\ 1 \in Nat
          /\ 1 <= n + 1 /\ 1 <= 1 /\ n <= m - 1 + 1 /\ 1 + 1 - 1 = 1 /\ 1 + n - 1 = n
      BY <1>3, <2>1
    <2>4. SubSeq(SubSeq(c, 1, m), 1, n) = SubSeq(c, 1 + 1 - 1, 1 + n - 1)
      BY <1>3, <2>3, PartOfPart
    <2> QED BY <2>2, <2>3, <2>4
  <1> HIDE DEF c
  <1>6. /\ sent + n \in 0..Len(asked)
        /\ SubSeq(c, n + 1, Len(c)) = SubSeq(asked, sent + n + 1, Len(asked))
        /\ more \in Seq(Int)
        /\ gone \o more = SubSeq(asked, 1, sent + n) /\ Len(SubSeq(asked, 1, sent + n)) = sent + n
    <2>1. c = SubSeq(asked, sent + 1, Len(asked)) /\ sent \in 0..Len(asked) /\ asked \in Seq(Int)
      BY <1>1
    <2>2. gone = SubSeq(asked, 1, sent)
      <3> HIDE DEF gone
      <3> QED BY <1>1
    <2> HIDE DEF gone, more
    <2>3. n \in Nat /\ n <= Len(c) BY <1>3
    <2>4. Continued(asked, sent, c, n) BY <2>1, <2>3, TakenFromRest
    <2> QED BY <1>5, <2>2, <2>4 DEF Continued
  <1> HIDE DEF more
  <1>7. (got \o rcv) \o (net \o more) = gone \o more
    <2> DEFINE e == got \o rcv
    <2>1. net \in Seq(Int) /\ more \in Seq(Int) /\ e \in Seq(Int)
      BY <1>1, <1>6, ConcatProperties
    <2> HIDE DEF e
    <2>2. e \o (net \o more) = (e \o net) \o more BY ONLY <2>1
    <2> QED BY <2>2 DEF e
  <1>8. net \o more \in Seq(Int) BY <1>1, <1>6, ConcatProperties
  <1> HIDE DEF gone
  <1>9. BytesInOrder'
    <2>1. /\ got' \o rcv' \o net' = SubSeq(asked', 1, sent')
          /\ Len(got' \o rcv' \o net') = sent'
      BY <1>2, <1>6, <1>7
    <2>2. Content(in') = SubSeq(asked', sent' + 1, Len(asked')) BY <1>2, <1>4, <1>6
    <2>3. /\ asked' \in Seq(Int) /\ sent' \in 0..Len(asked')
          /\ net' \in Seq(Int) /\ rcv' \in Seq(Int) /\ got' \in Seq(Int)
      <3>1. asked' \in Seq(Int) /\ rcv' \in Seq(Int) /\ got' \in Seq(Int) BY <1>1, <1>2
      <3>2. net' \in Seq(Int) BY <1>2, <1>8
      <3>3. sent' \in 0..Len(asked') BY <1>2, <1>6
      <3> QED BY <3>1, <3>2, <3>3
    <2>4. sent' <= sent'
      <3>1. sent' \in Int BY <1>2, <1>6, <1>1
      <3> QED BY <3>1
    <2>5. ending' = "open" BY <1>1, <1>2
    <2>6. /\ got' \o rcv' \o net' = SubSeq(asked', 1, Len(got' \o rcv' \o net'))
          /\ Len(got' \o rcv' \o net') <= sent'
      BY <2>1, <2>4
    <2> QED BY <2>1, <2>2, <2>3, <2>5, <2>6 DEF BytesInOrder
  <1> QED BY <1>4, <1>9

LEMMA Associative ==
    \A a, b, c \in Seq(Int) : (a \o b) \o c = a \o (b \o c)
  BY SMTT(30)

\* A sequence is its two parts, and the start of a start is a start.
LEMMA TwoParts ==
    ASSUME NEW s \in Seq(Int), NEW n \in 0..Len(s)
    PROVE  /\ SubSeq(s, 1, n) \in Seq(Int) /\ Len(SubSeq(s, 1, n)) = n
           /\ SubSeq(s, n + 1, Len(s)) \in Seq(Int) /\ Len(SubSeq(s, n + 1, Len(s))) = Len(s) - n
           /\ SubSeq(s, 1, n) \o SubSeq(s, n + 1, Len(s)) = s
  <1> DEFINE len == Len(s)
  <1>1. len \in Nat /\ n \in Nat /\ n <= len BY LenProperties
  <1> HIDE DEF len
  <1>2. SubSeq(s, 1, n) \in Seq(Int) /\ Len(SubSeq(s, 1, n)) = n
    <2>1. 1 \in 1..(len + 1) /\ n \in 0..len /\ 1 <= n + 1 /\ n - 1 + 1 = n BY <1>1
    <2>2. SubSeq(s, 1, n) \in Seq(Int) /\ Len(SubSeq(s, 1, n)) = n - 1 + 1
      BY <2>1, PartOf DEF len
    <2> QED BY <2>1, <2>2
  <1>3. SubSeq(s, n + 1, len) \in Seq(Int) /\ Len(SubSeq(s, n + 1, len)) = len - n
    <2>1. /\ n + 1 \in 1..(len + 1) /\ len \in 0..len /\ n + 1 <= len + 1
          /\ len - (n + 1) + 1 = len - n
      BY <1>1, SMTT(30)
    <2>2. SubSeq(s, n + 1, len) \in Seq(Int) /\ Len(SubSeq(s, n + 1, len)) = len - (n + 1) + 1
      BY <2>1, PartOf DEF len
    <2> QED BY <2>1, <2>2
  <1>4. SubSeq(s, 1, n) \o SubSeq(s, n + 1, len) = SubSeq(s, 1, len)
    <2>1. 1 \in 1..(len + 1) /\ n \in (1 - 1)..len /\ len \in n..len BY <1>1
    <2> QED BY <2>1, ConcatAdjacentSubSeq DEF len
  <1>5. SubSeq(s, 1, len) = s BY SubSeqFull DEF len
  <1> QED BY <1>2, <1>3, <1>4, <1>5 DEF len

LEMMA StartOfStart ==
    ASSUME NEW s \in Seq(Int), NEW t \in Seq(Int), NEW u \in Seq(Int),
           s \o t = SubSeq(u, 1, Len(s \o t)), Len(s \o t) <= Len(u)
    PROVE  s = SubSeq(u, 1, Len(s)) /\ Len(s) <= Len(u) /\ Len(s \o t) = Len(s) + Len(t)
  <1> DEFINE m == Len(s)
             n == Len(s \o t)
             o == Len(u)
  <1>1. m \in Nat /\ n \in Nat /\ n = m + Len(t) /\ Len(t) \in Nat /\ o \in Nat /\ n <= o
    BY ConcatProperties, LenProperties
  <1>2. \A i \in 1..m : (s \o t)[i] = s[i] BY <1>1, ConcatProperties
  <1>3. s \o t = SubSeq(u, 1, n) OBVIOUS
  <1> HIDE DEF n, o
  <1>4. m <= n /\ m <= o BY <1>1
  <1>5. \A i \in 1..n : SubSeq(u, 1, n)[i] = u[i]
    <2>1. 1 \in 1..(o + 1) /\ n \in 0..o /\ 1 <= n + 1 /\ n - 1 + 1 = n BY <1>1
    <2>2. \A i \in 1..(n - 1 + 1) : SubSeq(u, 1, n)[i] = u[i + 1 - 1]
      BY <2>1, PartOf DEF o
    <2>3. \A i \in 1..n : i + 1 - 1 = i BY <1>1
    <2> QED BY <2>1, <2>2, <2>3
  <1>6. /\ SubSeq(u, 1, m) \in Seq(Int) /\ Len(SubSeq(u, 1, m)) = m
        /\ \A i \in 1..m : SubSeq(u, 1, m)[i] = u[i]
    <2>1. 1 \in 1..(o + 1) /\ m \in 0..o /\ 1 <= m + 1 /\ m - 1 + 1 = m BY <1>1, <1>4
    <2>2. /\ SubSeq(u, 1, m) \in Seq(Int) /\ Len(SubSeq(u, 1, m)) = m - 1 + 1
          /\ \A i \in 1..(m - 1 + 1) : SubSeq(u, 1, m)[i] = u[i + 1 - 1]
      BY <2>1, PartOf DEF o
    <2>3. \A i \in 1..m : i + 1 - 1 = i BY <1>1
    <2> QED BY <2>1, <2>2, <2>3
  <1>7. \A i \in 1..m : i \in 1..n BY <1>1, <1>4
  <1>8. \A i \in 1..m : s[i] = SubSeq(u, 1, m)[i] BY <1>2, <1>3, <1>5, <1>6, <1>7
  <1>9. s = SubSeq(u, 1, m) BY <1>6, <1>8, SeqEqual
  <1> QED BY <1>1, <1>4, <1>9 DEF n, o

LEMMA GotIsStart ==
    ASSUME BytesInOrder
    PROVE  /\ got = SubSeq(asked, 1, Len(got)) /\ Len(got) \in Nat /\ Len(rcv) \in Nat
           /\ Len(net) \in Nat /\ Len(asked) \in Nat
           /\ Len(got \o rcv \o net) = Len(got) + Len(rcv) + Len(net)
  <1> DEFINE e == got \o rcv
  <1>1. /\ got \in Seq(Int) /\ rcv \in Seq(Int) /\ net \in Seq(Int) /\ asked \in Seq(Int)
        /\ e \o net = SubSeq(asked, 1, Len(e \o net)) /\ Len(e \o net) <= sent
        /\ sent \in 0..Len(asked)
    BY DEF BytesInOrder
  <1>2. e \in Seq(Int) /\ Len(e \o net) \in Nat BY <1>1, ConcatProperties, LenProperties
  <1> HIDE DEF e
  <1>3. Len(e \o net) <= Len(asked) BY <1>1, <1>2, LenProperties
  <1>4. e = SubSeq(asked, 1, Len(e)) /\ Len(e) <= Len(asked) /\ Len(e \o net) = Len(e) + Len(net)
    BY <1>1, <1>2, <1>3, StartOfStart
  <1>5. got = SubSeq(asked, 1, Len(got)) /\ Len(e) = Len(got) + Len(rcv)
    BY <1>1, <1>4, StartOfStart DEF e
  <1> QED BY <1>1, <1>4, <1>5, LenProperties DEF e

LEMMA ArriveKeeps == ASSUME BytesInOrder, Arrive PROVE BytesInOrder'
  <1>1. PICK n \in 1..Len(net) : /\ rcv' = rcv \o SubSeq(net, 1, n)
                                 /\ net' = SubSeq(net, n + 1, Len(net))
    BY DEF Arrive
  <1>2. got' = got /\ asked' = asked /\ sent' = sent /\ in' = in /\ ending' = ending
    BY DEF Arrive, readerVars, senderVars
  <1> DEFINE a == SubSeq(net, 1, n)
             b == SubSeq(net, n + 1, Len(net))
  <1>3. /\ got \in Seq(Int) /\ rcv \in Seq(Int) /\ net \in Seq(Int)
        /\ ending \in {"fin", "reset"} => net = <<>>
    BY DEF BytesInOrder
  <1>4. n \in 0..Len(net) /\ net # <<>> BY <1>3
  <1>5. a \in Seq(Int) /\ b \in Seq(Int) /\ a \o b = net BY <1>3, <1>4, TwoParts
  <1>6. rcv' = rcv \o a /\ net' = b BY <1>1
  <1> HIDE DEF a, b
  <1>7. rcv' \in Seq(Int) /\ net' \in Seq(Int) BY <1>3, <1>5, <1>6, ConcatProperties
  <1>8. (got \o (rcv \o a)) \o b = (got \o rcv) \o (a \o b)
    <2> DEFINE e == got \o rcv
    <2>1. got \o (rcv \o a) = e \o a BY <1>3, <1>5, Associative, Zenon
    <2>2. e \in Seq(Int) BY <1>3, ConcatProperties
    <2> HIDE DEF e
    <2>3. (e \o a) \o b = e \o (a \o b) BY <1>5, <2>2, Associative, Zenon
    <2> QED BY <2>1, <2>3 DEF e
  <1>9. got' \o rcv' \o net' = got \o rcv \o net BY <1>2, <1>5, <1>6, <1>8
  <1> QED BY <1>2, <1>3, <1>4, <1>7, <1>9 DEF BytesInOrder

LEMMA ResetKeeps == ASSUME BytesInOrder, Reset PROVE BytesInOrder'
  <1>1. /\ got' = got /\ asked' = asked /\ sent' = sent /\ in' = in /\ ending' = "reset"
        /\ net' = <<>> /\ rcv' = <<>>
    BY DEF Reset, readerVars, senderVars
  <1>2. got \in Seq(Int) /\ Len(got \o rcv \o net) <= sent /\ sent \in Int
    BY DEF BytesInOrder
  <1>3. got' \o rcv' \o net' = got
    <2>1. got \o <<>> = got BY <1>2, ConcatEmptySeq
    <2> QED BY <1>1, <2>1
  <1>4. got = SubSeq(asked, 1, Len(got)) BY GotIsStart
  <1>5. Len(got) <= sent BY <1>2, GotIsStart
  <1>6. net' \in Seq(Int) /\ rcv' \in Seq(Int) BY <1>1
  <1> QED BY <1>1, <1>2, <1>3, <1>4, <1>5, <1>6 DEF BytesInOrder

LEMMA GivesKeeps ==
    ASSUME BytesInOrder, NEW size \in Nat, NEW found, found = Arrived(size), Gives(size, found),
           asked' = asked, sent' = sent, in' = in
    PROVE  /\ BytesInOrder' /\ rcv # <<>> /\ ending # "reset"
           /\ Len(Arrived(size)) \in Nat /\ Len(Arrived(size)) <= Len(rcv)
           /\ Len(Arrived(size)) = AtMost(size, Len(rcv))
           /\ Len(rcv') = Len(rcv) - Len(Arrived(size))
           /\ Len(got') > Len(got) /\ Len(got') <= sent
  <1> DEFINE n == AtMost(size, Len(rcv))
             a == SubSeq(rcv, 1, n)
             b == SubSeq(rcv, n + 1, Len(rcv))
  <1>1. /\ got \in Seq(Int) /\ rcv \in Seq(Int) /\ net \in Seq(Int)
        /\ ending = "reset" => rcv = <<>>
    BY DEF BytesInOrder
  <1>2. n \in Nat /\ n <= Len(rcv) /\ n \in 0..Len(rcv) BY <1>1, LenProperties DEF AtMost
  <1>3. a = Arrived(size) BY DEF Arrived
  <1> HIDE DEF n
  <1>4. /\ a \in Seq(Int) /\ b \in Seq(Int) /\ a \o b = rcv /\ Len(a) = n
        /\ Len(b) = Len(rcv) - n
    BY <1>1, <1>2, TwoParts
  <1>5. /\ n > 0 /\ got' = got \o a /\ rcv' = b /\ net' = net /\ ending' = ending
    BY <1>3, <1>4 DEF Gives
  <1> HIDE DEF a, b
  <1>6. got' \in Seq(Int) /\ rcv' \in Seq(Int) BY <1>1, <1>4, <1>5, ConcatProperties
  <1>7. (got \o a) \o b = got \o (a \o b) BY <1>1, <1>4, Associative, Zenon
  <1>8. got' \o rcv' \o net' = got \o rcv \o net BY <1>4, <1>5, <1>7
  <1>9. rcv # <<>> /\ ending # "reset" BY <1>1, <1>2, <1>5
  <1>10. BytesInOrder' BY <1>1, <1>5, <1>6, <1>8, <1>9 DEF BytesInOrder
  <1>11. Len(got') = Len(got) + n BY <1>1, <1>4, <1>5, ConcatProperties
  <1>12. Len(got') <= sent
    <2>1. Len(got) + Len(rcv) + Len(net) <= sent BY GotIsStart DEF BytesInOrder
    <2>2. sent \in Int BY DEF BytesInOrder
    <2> QED BY <1>2, <1>11, <2>1, <2>2, GotIsStart
  <1>13. Len(got) \in Nat BY GotIsStart
  <1> QED BY <1>2, <1>3, <1>4, <1>5, <1>9, <1>10, <1>11, <1>12, <1>13 DEF n

-----------------------------------------------------------------------------
(* The sender's steps.                                                      *)

Call == [active : {TRUE}, gathered : BOOLEAN, bytes : Seq(Int), send : Nat, first : Int,
         limit : Nat]

\* A step that leaves a side alone keeps what is known of that side.
LEMMA SenderAlone ==
    ASSUME WriteTypes, WriteReported, UNCHANGED <<method, senderVars>>, wreport' \in BOOLEAN,
           wreport => wreport'
    PROVE  WriteTypes' /\ WriteReported'
  BY DEF WriteTypes, WriteReported, senderVars

LEMMA ReaderAlone ==
    ASSUME ReadTypes, ReadReported, UNCHANGED <<method, lenient, readerVars, rcv, ending, rreport>>
    PROVE  ReadTypes' /\ ReadReported'
  <1>1. /\ method' = method /\ lenient' = lenient /\ rev' = rev /\ reading' = reading
        /\ got' = got /\ told' = told /\ rcv' = rcv /\ ending' = ending /\ rreport' = rreport
    BY DEF readerVars
  <1>2. ReadTypes' BY ONLY ReadTypes, <1>1, ZenonT(60) DEF ReadTypes
  <1>3. ReadReported' BY <1>1 DEF ReadReported, Readable, Over
  <1> QED BY <1>2, <1>3

LEMMA BytesAlone ==
    ASSUME BytesInOrder, UNCHANGED <<asked, in, sent, net, rcv, got, ending>>
    PROVE  BytesInOrder'
  BY DEF BytesInOrder

LEMMA InCall ==
    ASSUME WriteTypes, call.active
    PROVE  call \in Call /\ call.send <= call.limit
  <1>1. call # Idle BY DEF Idle
  <1>2. call = Idle \/ call \in Call BY Zenon DEF WriteTypes, Call
  <1> QED BY <1>1, <1>2, Zenon DEF WriteTypes

LEMMA WritevChainKeeps ==
    ASSUME SInv, NEW limit \in Limits, WritevChain(limit) PROVE SInv'
  <1>1. /\ UNCHANGED <<method, lenient, asked, in, sent, stale>> /\ UNCHANGED readerVars
        /\ UNCHANGED kernelVars
    BY DEF WritevChain
  <1>2. ReadTypes' /\ ReadReported' /\ BytesInOrder'
    BY <1>1, ReaderAlone, BytesAlone DEF SInv, readerVars, kernelVars
  <1>3. WriteTypes /\ WriteReported /\ sent \in Int /\ limit \in Nat
    BY ConnAssumption DEF SInv, BytesInOrder
  <1>4. WriteTypes' /\ WriteReported'
    <2>1. CASE method = "kqueue" /\ wev.pending_eof
      <3>1. wev' = [wev EXCEPT !.error = TRUE] /\ failed' = TRUE /\ call' = call
        BY <2>1 DEF WritevChain
      <3> QED BY <1>1, <1>3, <3>1 DEF WriteTypes, WriteReported, kernelVars
    <2>2. CASE ~(method = "kqueue" /\ wev.pending_eof)
      <3>1. /\ call' = [active |-> TRUE, gathered |-> FALSE, bytes |-> <<>>, send |-> 0,
                        first |-> sent, limit |-> IF limit = 0 THEN NoLimit ELSE limit]
            /\ wev' = wev /\ failed' = failed
        BY <2>2 DEF WritevChain
      <3>2. call' \in Call /\ call'.active /\ ~call'.gathered /\ call'.send <= call'.limit
        BY <1>3, <3>1 DEF Call, NoLimit
      <3> QED BY <1>1, <1>3, <3>1, <3>2 DEF WriteTypes, WriteReported, kernelVars, Call
    <2> QED BY <2>1, <2>2
  <1> QED BY <1>2, <1>4 DEF SInv

LEMMA WritevGatherKeeps == ASSUME SInv, WritevGather PROVE SInv'
  <1>1. /\ UNCHANGED <<method, lenient, asked, in, sent, wev, stale>> /\ UNCHANGED readerVars
        /\ UNCHANGED kernelVars /\ call.active
    BY DEF WritevGather
  <1>2. ReadTypes' /\ ReadReported' /\ BytesInOrder'
    BY <1>1, ReaderAlone, BytesAlone DEF SInv, readerVars, kernelVars
  <1>3. WriteTypes /\ WriteReported /\ call \in Call /\ call.send <= call.limit
    BY <1>1, InCall DEF SInv
  <1> DEFINE v == OutputChainToIovec(in, Rest, SendIovs)
  <1>4. Rest \in Nat BY <1>3 DEF Rest, Call
  <1>5. /\ v.bytes \in Seq(Int) /\ Len(v.bytes) <= Len(Content(in))
        /\ v.bytes = SubSeq(Content(in), 1, Len(v.bytes))
    BY <1>3, <1>4, BufferIsBuffer, IovecsRight DEF WriteTypes
  <1>6. WriteTypes' /\ WriteReported'
    <2>1. CASE call' = Idle /\ failed' = TRUE
      BY <1>1, <1>3, <2>1 DEF WriteTypes, WriteReported, kernelVars, Idle
    <2>2. CASE /\ call' = [call EXCEPT !.gathered = TRUE, !.bytes = v.bytes]
               /\ failed' = failed
      <3> HIDE DEF v
      <3>1. /\ call' \in Call /\ call'.bytes = v.bytes /\ call'.send = call.send
            /\ call'.limit = call.limit
        BY <1>3, <1>5, <2>2 DEF Call
      <3> QED BY <1>1, <1>3, <1>5, <2>2, <3>1 DEF WriteTypes, WriteReported, kernelVars, Call
    <2> QED BY <2>1, <2>2 DEF WritevGather
  <1> QED BY <1>2, <1>6 DEF SInv

LEMMA WritevKeeps == ASSUME SInv, Writev PROVE SInv'
  <1>1. /\ UNCHANGED <<method, lenient, asked, failed, stale>> /\ UNCHANGED readerVars
        /\ call.active /\ call.gathered
    BY DEF Writev
  <1>2. PICK n \in 0..Len(call.bytes) :
          /\ Takes(call.bytes, n)
          /\ wev' = [wev EXCEPT !.ready = ReadyAfter(n)]
          /\ call' = IF /\ n = Len(call.bytes)
                        /\ call.send + n < call.limit
                        /\ in' # <<>>
                     THEN [call EXCEPT !.send = @ + n, !.gathered = FALSE, !.bytes = <<>>]
                     ELSE Idle
    BY DEF Writev
  <1>3. WriteTypes /\ WriteReported /\ BytesInOrder /\ call \in Call
    BY <1>1, InCall DEF SInv
  <1>4. /\ UNCHANGED <<rcv, ending, rreport>> /\ wreport' = (wreport \/ n < Len(call.bytes))
    BY <1>2 DEF Takes
  <1>5. ReadTypes' /\ ReadReported' BY <1>1, <1>4, ReaderAlone DEF SInv, readerVars
  <1>6. in' \in Seq(Buffer) /\ Sound(in') /\ BytesInOrder'
    <2>1. /\ call.bytes \in Seq(Int) /\ Len(call.bytes) <= Len(Content(in))
          /\ call.bytes = SubSeq(Content(in), 1, Len(call.bytes)) /\ asked' = asked /\ got' = got
      BY <1>1, <1>3 DEF WriteTypes, Call, readerVars
    <2> QED BY <1>2, <1>3, <2>1, TakesRight
  <1>7. n \in Nat /\ Len(call.bytes) \in Nat /\ n <= Len(call.bytes)
    <2>1. call.bytes \in Seq(Int) BY <1>3 DEF Call
    <2> QED BY <2>1
  <1>8. \/ call' = Idle /\ ~call'.active
        \/ call' \in Call /\ ~call'.gathered /\ call'.send <= call'.limit
    <2>1. CASE call' = [call EXCEPT !.send = @ + n, !.gathered = FALSE, !.bytes = <<>>]
               /\ call.send + n < call.limit
      <3>1. /\ call'.send = call.send + n /\ call'.limit = call.limit /\ ~call'.gathered
            /\ call' = [call EXCEPT !.send = call.send + n, !.gathered = FALSE, !.bytes = <<>>]
        BY <1>3, <2>1 DEF Call
      <3>2. call.send + n \in Nat /\ <<>> \in Seq(Int) BY <1>3, <1>7 DEF Call
      <3>3. call' \in Call BY <1>3, <3>1, <3>2 DEF Call
      <3>4. call.send + n <= call.limit
        <4>1. call.send \in Int /\ call.limit \in Int BY <1>3 DEF Call
        <4> QED BY <1>7, <2>1, <4>1
      <3> QED BY <3>1, <3>3, <3>4
    <2>2. CASE call' = Idle BY <2>2 DEF Idle
    <2> QED BY <1>2, <2>1, <2>2
  <1>9. wev' = [wev EXCEPT !.ready = wev.ready /\ n = Len(call.bytes)]
    BY <1>2 DEF ReadyAfter
  <1>10. /\ wev' \in [ready : BOOLEAN, error : BOOLEAN, pending_eof : BOOLEAN]
         /\ wreport' \in BOOLEAN
    BY <1>3, <1>4, <1>9 DEF WriteTypes
  <1>11. WriteReported'
    <2>1. ~wev'.ready => ~wev.ready \/ n < Len(call.bytes)
      BY <1>3, <1>7, <1>9 DEF WriteTypes
    <2> QED BY <1>1, <1>3, <1>4, <2>1 DEF WriteReported
  <1>12. WriteTypes'
    BY <1>1, <1>3, <1>6, <1>8, <1>10 DEF WriteTypes, Call, Idle
  <1> QED BY <1>5, <1>6, <1>11, <1>12 DEF SInv

LEMMA WritevFailsKeeps == ASSUME SInv, WritevFails PROVE SInv'
  <1>1. /\ UNCHANGED <<method, lenient, asked, in, sent, stale>> /\ UNCHANGED readerVars
        /\ UNCHANGED kernelVars
        /\ call' = Idle /\ wev' = [wev EXCEPT !.error = TRUE] /\ failed' = TRUE
    BY DEF WritevFails
  <1>2. ReadTypes' /\ ReadReported' /\ BytesInOrder'
    BY <1>1, ReaderAlone, BytesAlone DEF SInv, readerVars, kernelVars
  <1>3. WriteTypes' /\ WriteReported'
    BY <1>1 DEF SInv, WriteTypes, WriteReported, kernelVars, Idle
  <1> QED BY <1>2, <1>3 DEF SInv

LEMMA SendKeeps == ASSUME SInv, Send PROVE SInv'
  <1>1. /\ UNCHANGED <<method, lenient, asked, call>> /\ UNCHANGED readerVars
        /\ ~call.active /\ in # <<>> /\ ~failed
    BY DEF Send, SenderReady
  <1>2. WriteTypes /\ WriteReported /\ BytesInOrder BY DEF SInv
  <1>3. CASE SendFails
    <2>1. /\ UNCHANGED <<in, sent, stale>> /\ UNCHANGED kernelVars
          /\ wev' = [wev EXCEPT !.error = TRUE] /\ failed' = TRUE
      BY <1>3 DEF SendFails
    <2>2. ReadTypes' /\ ReadReported' /\ BytesInOrder'
      BY <1>1, <2>1, ReaderAlone, BytesAlone DEF SInv, readerVars, kernelVars
    <2>3. WriteTypes' /\ WriteReported'
      BY <1>1, <1>2, <2>1 DEF WriteTypes, WriteReported, kernelVars
    <2> QED BY <2>2, <2>3 DEF SInv
  <1>4. ASSUME NEW interrupted \in BOOLEAN, SendTakes(interrupted) PROVE SInv'
    <2> DEFINE bytes == Content(<<in[1]>>)
    <2>1. PICK n \in 0..Len(bytes) :
            /\ Takes(bytes, n)
            /\ wev' = [wev EXCEPT !.ready = wev.ready /\ ~interrupted /\ n = Len(bytes)]
            /\ stale' = (stale \/ (interrupted /\ wev.ready /\ ~wreport /\ n = Len(bytes)))
            /\ failed' = failed
      BY <1>4 DEF SendTakes
    <2>2. /\ bytes \in Seq(Int) /\ Len(bytes) <= Len(Content(in))
          /\ bytes = SubSeq(Content(in), 1, Len(bytes))
      BY <1>1, <1>2, BufferIsBuffer, FirstBuffer DEF WriteTypes
    <2> HIDE DEF bytes
    <2>3. n \in Nat /\ Len(bytes) \in Nat /\ n <= Len(bytes) BY <2>2
    <2>4. UNCHANGED <<rcv, ending, rreport>> /\ wreport' = (wreport \/ n < Len(bytes))
      BY <2>1 DEF Takes
    <2>5. ReadTypes' /\ ReadReported' BY <1>1, <2>4, ReaderAlone DEF SInv, readerVars
    <2>6. in' \in Seq(Buffer) /\ Sound(in') /\ BytesInOrder'
      BY <1>1, <1>2, <2>1, <2>2, TakesRight DEF readerVars
    <2>7. wev' \in [ready : BOOLEAN, error : BOOLEAN, pending_eof : BOOLEAN]
      BY <1>2, <2>1 DEF WriteTypes
    <2>8. stale' \in BOOLEAN /\ wreport' \in BOOLEAN /\ failed' \in BOOLEAN
      BY <1>2, <2>1, <2>4 DEF WriteTypes
    <2>9. WriteTypes' BY <1>1, <1>2, <2>6, <2>7, <2>8 DEF WriteTypes
    <2>10. WriteReported'
      <3>1. ~wev'.ready => ~wev.ready \/ interrupted \/ n < Len(bytes)
        BY <1>2, <2>1, <2>3 DEF WriteTypes
      <3>2. /\ ~wev.ready => wreport \/ stale \/ method = "level"
            /\ wev.ready /\ interrupted /\ n = Len(bytes) => stale' \/ wreport
            /\ n < Len(bytes) => wreport'
            /\ wreport => wreport'
            /\ stale => stale'
        BY <1>1, <1>2, <2>1, <2>4 DEF WriteReported
      <3> QED BY <1>1, <2>3, <3>1, <3>2 DEF WriteReported
    <2> QED BY <2>5, <2>6, <2>9, <2>10 DEF SInv
  <1> QED BY <1>3, <1>4 DEF Send

LEMMA CloseSenderKeeps == ASSUME SInv, CloseSender PROVE SInv'
  <1>1. /\ UNCHANGED <<method, lenient>> /\ UNCHANGED senderVars /\ UNCHANGED readerVars
        /\ UNCHANGED <<net, rcv, wreport, rreport>>
        /\ ending = "open" /\ ending' = "closed"
    BY DEF CloseSender
  <1>2. WriteTypes' /\ WriteReported' BY <1>1, SenderAlone DEF SInv, WriteTypes
  <1>3. ReadTypes' /\ ReadReported'
    BY <1>1 DEF SInv, ReadTypes, ReadReported, readerVars, Readable, Over
  <1>4. BytesInOrder' BY <1>1 DEF SInv, BytesInOrder, senderVars, readerVars
  <1> QED BY <1>2, <1>3, <1>4 DEF SInv

LEMMA PollWriteKeeps == ASSUME SInv, PollWrite PROVE SInv'
  <1>1. /\ UNCHANGED <<method, lenient, asked, in, sent, call, failed>> /\ UNCHANGED readerVars
        /\ UNCHANGED <<net, rcv, ending, rreport>>
        /\ wev' = [wev EXCEPT !.ready = TRUE,
                              !.pending_eof = (method = "kqueue" /\ ending = "reset")]
        /\ wreport' = FALSE /\ stale' = FALSE
    BY DEF PollWrite
  <1>2. ReadTypes' /\ ReadReported' /\ BytesInOrder'
    BY <1>1, ReaderAlone, BytesAlone DEF SInv, readerVars
  <1>3. /\ wev' \in [ready : BOOLEAN, error : BOOLEAN, pending_eof : BOOLEAN]
        /\ wev'.ready
    BY <1>1 DEF SInv, WriteTypes
  <1>4. WriteTypes' /\ WriteReported' BY <1>1, <1>3 DEF SInv, WriteTypes, WriteReported
  <1> QED BY <1>2, <1>4 DEF SInv

-----------------------------------------------------------------------------
(* The kernel's steps, and the reader's.                                    *)

Event == [ready : BOOLEAN, available : Nat, pending_eof : BOOLEAN,
          eof : BOOLEAN, error : BOOLEAN]

LEMMA ArriveStepKeeps == ASSUME SInv, Arrive PROVE SInv'
  <1>1. /\ UNCHANGED <<method, lenient>> /\ UNCHANGED senderVars /\ UNCHANGED readerVars
        /\ ending' = ending /\ wreport' = wreport /\ rreport' = TRUE /\ net # <<>>
    <2>1. net # <<>> BY DEF SInv, BytesInOrder, Arrive
    <2> QED BY <2>1 DEF Arrive
  <1>2. WriteTypes' /\ WriteReported' BY <1>1, SenderAlone DEF SInv, WriteTypes
  <1>3. ~Over BY <1>1 DEF SInv, BytesInOrder, Over
  <1>4. ReadTypes' BY <1>1 DEF SInv, ReadTypes, readerVars
  <1>5. ReadReported' BY <1>1, <1>3 DEF SInv, ReadReported, readerVars, Over
  <1>6. BytesInOrder' BY ArriveKeeps DEF SInv
  <1> QED BY <1>2, <1>4, <1>5, <1>6 DEF SInv

LEMMA ArriveFinKeeps == ASSUME SInv, ArriveFin PROVE SInv'
  <1>1. /\ UNCHANGED <<method, lenient>> /\ UNCHANGED senderVars /\ UNCHANGED readerVars
        /\ UNCHANGED <<net, rcv, wreport>> /\ rreport' = TRUE
        /\ ending = "closed" /\ net = <<>> /\ ending' = "fin"
    BY DEF ArriveFin
  <1>2. WriteTypes' /\ WriteReported' BY <1>1, SenderAlone DEF SInv, WriteTypes
  <1>3. ReadTypes' BY <1>1 DEF SInv, ReadTypes, readerVars
  <1>4. ReadReported' BY <1>1 DEF SInv, ReadReported, readerVars, Over
  <1>5. BytesInOrder' BY <1>1 DEF SInv, BytesInOrder, senderVars, readerVars
  <1> QED BY <1>2, <1>3, <1>4, <1>5 DEF SInv

LEMMA ResetStepKeeps == ASSUME SInv, Reset PROVE SInv'
  <1>1. /\ UNCHANGED <<method, lenient>> /\ UNCHANGED senderVars /\ UNCHANGED readerVars
        /\ wreport' = TRUE /\ rreport' = TRUE /\ ending \in {"open", "closed"}
        /\ ending' = "reset"
    BY DEF Reset
  <1>2. WriteTypes' /\ WriteReported' BY <1>1, SenderAlone DEF SInv, WriteTypes
  <1>3. ReadTypes' BY <1>1 DEF SInv, ReadTypes, readerVars
  <1>4. ReadReported' BY <1>1 DEF SInv, ReadReported, readerVars, Over
  <1>5. BytesInOrder' BY ResetKeeps DEF SInv
  <1> QED BY <1>2, <1>3, <1>4, <1>5 DEF SInv

LEMMA PollReadKeeps == ASSUME SInv, PollRead PROVE SInv'
  <1>1. /\ UNCHANGED <<method, lenient, reading, got, told, net, rcv, ending, wreport>>
        /\ UNCHANGED senderVars /\ rreport' = FALSE /\ ~reading.active
        /\ rev' = [rev EXCEPT !.ready = TRUE,
                              !.available = IF method = "kqueue" THEN Len(rcv) ELSE 1,
                              !.pending_eof = Over /\ method \in {"rdhup", "kqueue"}]
    BY DEF PollRead
  <1>2. WriteTypes' /\ WriteReported' BY <1>1, SenderAlone DEF SInv, WriteTypes
  <1>3. BytesInOrder' BY <1>1, BytesAlone DEF SInv, senderVars
  <1>4. rev \in Event /\ Len(rcv) \in Nat BY DEF SInv, ReadTypes, Event, BytesInOrder
  <1>5. /\ rev' \in Event /\ rev'.ready
        /\ rev'.available = (IF method = "kqueue" THEN Len(rcv) ELSE 1)
        /\ rev'.pending_eof = (Over /\ method \in {"rdhup", "kqueue"})
    BY <1>1, <1>4 DEF Event, Over
  <1>6. ReadTypes' BY <1>1, <1>5 DEF SInv, ReadTypes, Event
  <1>7. ReadReported'
    <2>1. Over' = Over /\ Readable' = Readable BY <1>1 DEF Over, Readable
    <2>2. method = "kqueue" => rev'.available = Len(rcv) BY <1>5
    <2>3. method # "kqueue" => rev'.available # 0 BY <1>5
    <2>4. method \in {"rdhup", "kqueue"} => (Over => rev'.pending_eof) BY <1>5
    <2>5. rev'.pending_eof => Over BY <1>5
    <2> QED BY <1>1, <1>5, <2>1, <2>2, <2>3, <2>4, <2>5 DEF ReadReported
  <1> QED BY <1>2, <1>3, <1>6, <1>7 DEF SInv

\* A reader that was told of an end or an error needs no event.
LEMMA ToldKeeps ==
    ASSUME SInv, told' \in {"eof", "error"}, rev' \in Event, reading' = Idle,
           UNCHANGED <<method, lenient, got>>, UNCHANGED senderVars, UNCHANGED kernelVars
    PROVE  SInv'
  <1>1. WriteTypes' /\ WriteReported' BY SenderAlone DEF SInv, WriteTypes, kernelVars
  <1>2. BytesInOrder' BY BytesAlone DEF SInv, senderVars, kernelVars
  <1>3. ReadTypes' BY DEF SInv, ReadTypes, kernelVars, Event, Idle
  <1>4. ReadReported' BY DEF ReadReported
  <1> QED BY <1>1, <1>2, <1>3, <1>4 DEF SInv

LEMMA EventTypes ==
    ASSUME SInv
    PROVE  /\ rev \in Event
           /\ [rev EXCEPT !.ready = FALSE] \in Event
           /\ EventAtEof \in Event
           /\ [rev EXCEPT !.ready = FALSE, !.error = rev.error \/ ~lenient] \in Event
           /\ [rev EXCEPT !.ready = FALSE, !.eof = TRUE, !.error = (ending = "reset")] \in Event
  BY DEF SInv, ReadTypes, Event, EventAtEof

\* The event after a read of n of the bytes that have arrived.
LEMMA EventAfterRight ==
    ASSUME SInv, told = "open", NEW size \in Nat, NEW n \in Nat, n > 0, n <= Len(rcv),
           n = AtMost(size, Len(rcv)), rcv # <<>>, rcv' \in Seq(Int), Len(rcv') = Len(rcv) - n,
           rev' = EventAfter(n, size), UNCHANGED <<method, told, ending, rreport>>
    PROVE  rev' \in Event /\ ReadReported'
  <1>1. rev \in Event /\ ReadReported /\ Len(rcv) \in Nat
    BY DEF SInv, ReadTypes, Event, BytesInOrder
  <1>2. n < size => n = Len(rcv) BY <1>1 DEF AtMost
  <1>3. rcv' = <<>> <=> n = Len(rcv)
    <2>1. rcv' = <<>> <=> Len(rcv') = 0 BY EmptySeq, LenProperties
    <2> QED BY <1>1, <2>1
  <1>4. CASE method = "kqueue" /\ rev.available <= n
    <2>1. rev' = [rev EXCEPT !.ready = rev.ready /\ rev.pending_eof, !.available = 0]
      BY <1>4 DEF EventAfter, Drained
    <2>2. /\ rev' \in Event /\ rev'.available = 0 /\ rev'.pending_eof = rev.pending_eof
          /\ rev'.ready = (rev.ready /\ rev.pending_eof)
      <3>1. PICK both \in BOOLEAN : both = (rev.ready /\ rev.pending_eof) OBVIOUS
      <3>2. rev' = [rev EXCEPT !.ready = both, !.available = 0] BY <2>1, <3>1
      <3>3. rev' \in Event BY ONLY <1>1, <3>2 DEF Event
      <3>4. rev'.ready = both /\ rev'.available = 0 /\ rev'.pending_eof = rev.pending_eof
        BY <1>1, <3>2 DEF Event
      <3> QED BY <3>1, <3>3, <3>4
    <2>3. rev.available \in Nat BY <1>1 DEF Event
    <2>4. rev.available = Len(rcv) => n = Len(rcv) /\ rcv' = <<>> /\ Len(rcv') = 0
      BY <1>1, <1>3, <1>4, <2>3
    <2> QED BY <1>1, <1>4, <2>2, <2>4 DEF ReadReported, Readable, Over
  <1>5. CASE method = "kqueue" /\ ~(rev.available <= n)
    <2>1. rev' = [rev EXCEPT !.available = rev.available - n]
      BY <1>5 DEF EventAfter
    <2>2. rev.available \in Nat BY <1>1 DEF Event
    <2>3. rev.available - n \in Nat BY <1>5, <2>2
    <2>4. /\ rev' \in Event /\ rev'.ready = rev.ready
          /\ rev'.available = rev.available - n /\ rev'.pending_eof = rev.pending_eof
      BY <1>1, <2>1, <2>3 DEF Event
    <2> QED BY <1>1, <1>5, <2>4 DEF ReadReported, Readable, Over
  <1>6. CASE method = "rdhup" /\ n < size
    <2>1. rev' = [rev EXCEPT !.ready = rev.ready /\ rev.pending_eof, !.available = 0]
      BY <1>6 DEF EventAfter, Drained
    <2>2. /\ rev' \in Event /\ rev'.available = 0 /\ rev'.pending_eof = rev.pending_eof
          /\ rev'.ready = (rev.ready /\ rev.pending_eof)
      <3>1. PICK both \in BOOLEAN : both = (rev.ready /\ rev.pending_eof) OBVIOUS
      <3>2. rev' = [rev EXCEPT !.ready = both, !.available = 0] BY <2>1, <3>1
      <3>3. rev' \in Event BY ONLY <1>1, <3>2 DEF Event
      <3>4. rev'.ready = both /\ rev'.available = 0 /\ rev'.pending_eof = rev.pending_eof
        BY <1>1, <3>2 DEF Event
      <3> QED BY <3>1, <3>3, <3>4
    <2>3. rcv' = <<>> BY <1>2, <1>3, <1>6
    <2> QED BY <1>1, <1>6, <2>2, <2>3 DEF ReadReported, Readable, Over
  <1>7. CASE method = "rdhup" /\ ~(n < size)
    <2>1. rev' = rev BY <1>7 DEF EventAfter
    <2> QED BY <1>1, <1>7, <2>1 DEF ReadReported, Readable, Over
  <1>8. CASE method \notin {"kqueue", "rdhup"}
    <2>1. rev' = [rev EXCEPT !.ready = rev.ready /\ (n = size \/ method = "epoll")]
      BY <1>8 DEF EventAfter
    <2>2. /\ rev' \in Event /\ rev'.ready = (rev.ready /\ (n = size \/ method = "epoll"))
          /\ rev'.available = rev.available /\ rev'.pending_eof = rev.pending_eof
      BY <1>1, <2>1 DEF Event
    <2> QED BY <1>1, <1>8, <2>2 DEF ReadReported, Readable, Over
  <1> QED BY <1>4, <1>5, <1>6, <1>7, <1>8

LEMMA GivesStepKeeps ==
    ASSUME SInv, told = "open", NEW size \in Nat, Gives(size, Arrived(size)),
           reading' = reading \/ reading' = Idle,
           UNCHANGED <<method, lenient>>, UNCHANGED senderVars
    PROVE  SInv'
  <1> DEFINE n == Len(Arrived(size))
  <1>1. /\ UNCHANGED <<told, net, ending, wreport, rreport>> /\ rev' = EventAfter(n, size)
        /\ n > 0
    BY DEF Gives
  <1>2. asked' = asked /\ sent' = sent /\ in' = in BY DEF senderVars
  <1>3. /\ BytesInOrder' /\ rcv # <<>> /\ n \in Nat /\ n <= Len(rcv)
        /\ n = AtMost(size, Len(rcv)) /\ Len(rcv') = Len(rcv) - n
    BY <1>2, GivesKeeps DEF SInv
  <1> HIDE DEF n
  <1>4. rcv' \in Seq(Int) BY <1>3 DEF BytesInOrder
  <1>5. rev' \in Event /\ ReadReported' BY <1>1, <1>3, <1>4, EventAfterRight
  <1>6. WriteTypes' /\ WriteReported' BY <1>1, SenderAlone DEF SInv, WriteTypes
  <1>7. ReadTypes'
    <2>1. CASE reading' = reading BY <1>1, <1>5, <2>1 DEF SInv, ReadTypes, Event
    <2>2. CASE reading' = Idle BY <1>1, <1>5, <2>2 DEF SInv, ReadTypes, Event, Idle
    <2> QED BY <2>1, <2>2
  <1> QED BY <1>3, <1>5, <1>6, <1>7 DEF SInv

LEMMA RecvKeeps == ASSUME SInv, NEW size \in ReadSizes, Recv(size) PROVE SInv'
  <1>1. /\ UNCHANGED <<method, lenient, reading>> /\ UNCHANGED senderVars
        /\ ~reading.active /\ told = "open" /\ size \in Nat
    BY ConnAssumption DEF Recv, ReaderReady
  <1>2. reading = Idle BY <1>1 DEF SInv, ReadTypes
  <1>3. CASE EofFromEvent(ToldOfReset)
    <2>1. /\ UNCHANGED got /\ UNCHANGED kernelVars /\ rev' \in Event
          /\ told' \in {"eof", "error"}
      BY <1>3, EventTypes DEF EofFromEvent, ToldOfReset
    <2> QED BY <1>1, <1>2, <2>1, ToldKeeps
  <1>4. ASSUME \/ SaysNothing /\ rev' = [rev EXCEPT !.ready = FALSE]
                  /\ UNCHANGED <<got, told>> /\ UNCHANGED kernelVars
               \/ GivesNothing
        PROVE  SInv'
    <2>1. UNCHANGED <<got, told>> /\ UNCHANGED kernelVars /\ rev' = [rev EXCEPT !.ready = FALSE]
      BY <1>4 DEF GivesNothing
    <2>2. WriteTypes' /\ WriteReported'
      BY <1>1, <2>1, SenderAlone DEF SInv, WriteTypes, kernelVars
    <2>3. BytesInOrder' BY <1>1, <2>1, BytesAlone DEF SInv, senderVars, kernelVars
    <2>4. rev' \in Event /\ rev'.available = rev.available /\ rev'.pending_eof = rev.pending_eof
      BY <2>1, EventTypes DEF Event
    <2>5. ReadTypes' BY <1>1, <2>1, <2>4 DEF SInv, ReadTypes, Event, kernelVars
    <2>6. method \in {"epoll", "rdhup", "kqueue"} /\ ~rreport => ~Readable
      <3>1. Len(rcv) = 0 => rcv = <<>> BY EmptySeq DEF SInv, BytesInOrder
      <3> QED BY <1>1, <1>4, <3>1
            DEF SaysNothing, GivesNothing, SInv, ReadReported, Readable, Over
    <2>7. ReadReported'
      BY <1>1, <2>1, <2>4, <2>6 DEF SInv, ReadReported, Readable, Over, kernelVars
    <2> QED BY <2>2, <2>3, <2>5, <2>7 DEF SInv
  <1>5. CASE Gives(size, Arrived(size)) BY <1>1, <1>5, GivesStepKeeps
  <1>6. CASE GivesEof
    <2>1. /\ UNCHANGED got /\ UNCHANGED kernelVars /\ rev' \in Event
          /\ told' \in {"eof", "error"}
      BY <1>6, EventTypes DEF GivesEof
    <2> QED BY <1>1, <1>2, <2>1, ToldKeeps
  <1>7. CASE GivesError
    <2>1. /\ UNCHANGED got /\ UNCHANGED kernelVars /\ rev' \in Event
          /\ told' \in {"eof", "error"}
      BY <1>7, EventTypes DEF GivesError, ToldOfReset
    <2> QED BY <1>1, <1>2, <2>1, ToldKeeps
  <1> QED BY <1>3, <1>4, <1>5, <1>6, <1>7 DEF Recv

LEMMA ReadvChainKeeps ==
    ASSUME SInv, NEW chain0 \in ReadChains, NEW limit \in Limits, ReadvChain(chain0, limit)
    PROVE  SInv'
  <1>1. /\ UNCHANGED <<method, lenient>> /\ UNCHANGED senderVars
        /\ ~reading.active /\ told = "open" /\ limit \in Nat
    BY ConnAssumption DEF ReadvChain, ReaderReady
  <1>2. reading = Idle BY <1>1 DEF SInv, ReadTypes
  <1>3. CASE EofFromEvent("error") /\ UNCHANGED reading
    <2>1. /\ UNCHANGED got /\ UNCHANGED kernelVars /\ rev' \in Event
          /\ told' \in {"eof", "error"}
      BY <1>3, EventTypes DEF EofFromEvent
    <2> QED BY <1>1, <1>2, <1>3, <2>1, ToldKeeps
  <1>4. CASE ~EofFromEvent("error") \/ ~UNCHANGED reading
    <2> DEFINE v == InputChainToIovec(chain0, limit, ReadIovs)
    <2>1. /\ UNCHANGED <<rev, got, told>> /\ UNCHANGED kernelVars
          /\ reading' = [active |-> TRUE, into |-> v.into, space |-> v.space]
      BY <1>4 DEF ReadvChain
    <2>2. /\ v.into \in Seq(Int) /\ v.space \in Seq(Int)
          /\ Len(v.into) <= Len(v.space) /\ v.into = SubSeq(v.space, 1, Len(v.into))
          /\ \A i, j \in 1..Len(v.space) : v.space[i] = v.space[j] => i = j
      BY <1>1, InputRight
    <2> HIDE DEF v
    <2>3. WriteTypes' /\ WriteReported'
      BY <1>1, <2>1, SenderAlone DEF SInv, WriteTypes, kernelVars
    <2>4. BytesInOrder' BY <1>1, <2>1, BytesAlone DEF SInv, senderVars, kernelVars
    <2>5. /\ reading' \in [active : {TRUE}, into : Seq(Int), space : Seq(Int)]
          /\ reading'.into = v.into /\ reading'.space = v.space
      BY <2>1, <2>2
    <2>6. ReadTypes'
      BY <1>1, <2>1, <2>2, <2>5 DEF SInv, ReadTypes, kernelVars
    <2>7. ReadReported' BY <1>1, <2>1 DEF SInv, ReadReported, Readable, Over, kernelVars
    <2> QED BY <2>3, <2>4, <2>6, <2>7 DEF SInv
  <1> QED BY <1>3, <1>4

LEMMA ReadvFinds ==
    ASSUME SInv, reading.active
    PROVE  /\ told = "open" /\ Len(reading.into) \in Nat
           /\ ReadBack(reading, Arrived(Len(reading.into))) = Arrived(Len(reading.into))
  <1>1. /\ reading.into \in Seq(Int) /\ reading.space \in Seq(Int) /\ told = "open"
        /\ Len(reading.into) <= Len(reading.space)
        /\ reading.into = SubSeq(reading.space, 1, Len(reading.into))
        /\ \A i, j \in 1..Len(reading.space) : reading.space[i] = reading.space[j] => i = j
    <2>1. reading # Idle BY DEF Idle
    <2>2. reading \in [active : {TRUE}, into : Seq(Int), space : Seq(Int)]
      BY <2>1 DEF SInv, ReadTypes
    <2> QED BY <2>2 DEF SInv, ReadTypes
  <1> DEFINE size == Len(reading.into)
             n == AtMost(size, Len(rcv))
  <1>2. rcv \in Seq(Int) /\ Len(rcv) \in Nat /\ size \in Nat
    <2>1. rcv \in Seq(Int) BY DEF SInv, BytesInOrder
    <2> QED BY <1>1, <2>1, LenProperties
  <1> HIDE DEF size
  <1>3. n \in 0..Len(rcv) /\ n <= size BY <1>2 DEF AtMost
  <1> HIDE DEF n
  <1>4. Arrived(size) \in Seq(Int) /\ Len(Arrived(size)) = n
    <2>1. SubSeq(rcv, 1, n) \in Seq(Int) /\ Len(SubSeq(rcv, 1, n)) = n BY <1>2, <1>3, TwoParts
    <2> QED BY <2>1 DEF Arrived, n
  <1>5. Len(Arrived(size)) <= Len(reading.into) BY <1>3, <1>4 DEF size
  <1>6. ReadBack(reading, Arrived(size)) = Arrived(size) BY <1>1, <1>4, <1>5, ReadBackRight
  <1> QED BY <1>1, <1>2, <1>6 DEF size

LEMMA ReadvReturnsKeeps == ASSUME SInv, ReadvReturns PROVE SInv'
  <1>1. /\ UNCHANGED <<method, lenient>> /\ UNCHANGED senderVars
        /\ reading.active /\ reading' = Idle
    BY DEF ReadvReturns
  <1>2. /\ told = "open" /\ Len(reading.into) \in Nat
        /\ ReadBack(reading, Arrived(Len(reading.into))) = Arrived(Len(reading.into))
    BY <1>1, ReadvFinds
  <1>3. CASE Gives(Len(reading.into), ReadBack(reading, Arrived(Len(reading.into))))
    BY <1>1, <1>2, <1>3, GivesStepKeeps
  <1>4. CASE GivesEof
    <2>1. /\ UNCHANGED got /\ UNCHANGED kernelVars /\ rev' \in Event
          /\ told' \in {"eof", "error"}
      BY <1>4, EventTypes DEF GivesEof
    <2> QED BY <1>1, <2>1, ToldKeeps
  <1>5. CASE GivesError
    <2>1. /\ UNCHANGED got /\ UNCHANGED kernelVars /\ rev' \in Event
          /\ told' \in {"eof", "error"}
      BY <1>5, EventTypes DEF GivesError, ToldOfReset
    <2> QED BY <1>1, <2>1, ToldKeeps
  <1> QED BY <1>3, <1>4, <1>5 DEF ReadvReturns

-----------------------------------------------------------------------------
(* The invariant.  With a datagram socket the stream stands still.          *)

IInv == SInv /\ (using = "datagram" => Ended)

LEMMA EndedStops == ASSUME Ended, Next PROVE FALSE
  <1>1. call.active = FALSE /\ reading.active = FALSE BY DEF Ended, Idle
  <1>2. \A n \in 1..Len(net) : FALSE BY DEF Ended
  <1>3. ~Arrive BY <1>2 DEF Arrive
  <1>4. ~PollWrite BY DEF PollWrite, Ended
  <1> QED
    BY <1>1, <1>3, <1>4
    DEF Next, SenderStep, ReaderStep, Ended, WritevChain, Send, SenderReady, WritevGather,
        Writev, WritevFails, CloseSender, ArriveFin, Reset, PollRead, Recv,
        ReadvChain, ReaderReady, ReadvReturns

LEMMA StreamStepKeeps == ASSUME SInv, Next PROVE SInv'
  <1>1. ASSUME NEW limit \in Limits, WritevChain(limit) PROVE SInv' BY <1>1, WritevChainKeeps
  <1>2. CASE Send BY <1>2, SendKeeps
  <1>3. CASE WritevGather BY <1>3, WritevGatherKeeps
  <1>4. CASE Writev BY <1>4, WritevKeeps
  <1>5. CASE WritevFails BY <1>5, WritevFailsKeeps
  <1>6. CASE CloseSender BY <1>6, CloseSenderKeeps
  <1>7. CASE Arrive BY <1>7, ArriveStepKeeps
  <1>8. CASE ArriveFin BY <1>8, ArriveFinKeeps
  <1>9. CASE Reset BY <1>9, ResetStepKeeps
  <1>10. CASE PollWrite BY <1>10, PollWriteKeeps
  <1>11. CASE PollRead BY <1>11, PollReadKeeps
  <1>12. ASSUME NEW size \in ReadSizes, Recv(size) PROVE SInv' BY <1>12, RecvKeeps
  <1>13. ASSUME NEW c \in ReadChains, NEW limit \in Limits, ReadvChain(c, limit) PROVE SInv'
    BY <1>13, ReadvChainKeeps
  <1>14. CASE ReadvReturns BY <1>14, ReadvReturnsKeeps
  <1> QED
    BY <1>1, <1>2, <1>3, <1>4, <1>5, <1>6, <1>7, <1>8, <1>9, <1>10, <1>11, <1>12, <1>13, <1>14
    DEF Next, SenderStep, ReaderStep

\* The first lines of a chain: all its bytes are addresses.
LEMMA ContentOfChain ==
    ASSUME NEW c \in Chains
    PROVE  c \in Seq(Buffer) /\ Sound(c) /\ Content(c) \in Seq(Nat)
  <1>1. c \in Seq([kind : STRING, pos : Nat, last : Nat]) /\ Sound(c)
    BY ConnAssumption DEF Sound
  <1>2. /\ c \in Seq(Buffer) /\ Len(c) \in Nat /\ DOMAIN c = 1..Len(c)
        /\ \A i \in 1..Len(c) : c[i].pos \in Nat
    <2>1. Len(c) \in Nat /\ DOMAIN c = 1..Len(c) BY <1>1, LenProperties
    <2>2. ASSUME NEW i \in 1..Len(c) PROVE c[i] \in Buffer /\ c[i].pos \in Nat
      <3>1. c[i] \in [kind : STRING, pos : Nat, last : Nat] BY <1>1, ElementOfSeq
      <3> QED BY <3>1 DEF Buffer
    <2>3. c = [i \in 1..Len(c) |-> c[i]] BY <1>1, <2>1
    <2>4. c \in [1..Len(c) -> Buffer] BY <2>2, <2>3
    <2> QED BY <2>1, <2>2, <2>4, FunctionIsSeq
  <1> DEFINE s == Sources(c)
  <1>3. s \in Seq(SpanType) /\ \A i \in Filled(s) : c[i].kind = "memory"
    BY <1>2, BufferIsBuffer, SourcesType
  <1>4. \A i \in 1..Len(c) : c[i].kind = "memory" => s[i].first \in Nat
    BY <1>2 DEF Sources, Span
  <1> HIDE DEF s
  <1>5. Bytes(s) \in Seq(Int) /\ Len(Bytes(s)) = Total(s) /\ Total(s) \in Nat
    BY <1>3, BytesType, TotalType
  <1>6. ASSUME NEW k \in 1..Total(s) PROVE Bytes(s)[k] \in Nat
    <2>1. PICK i \in Filled(s) : Holds(s, i, k) BY <1>3, OneHolds
    <2>2. /\ Before(s, i) \in Nat /\ Before(s, i) < k
          /\ Bytes(s)[k] = s[i].first + (k - 1 - Before(s, i))
      BY <1>3, <2>1, FilledSpan, BytesType DEF Holds
    <2>3. s[i].first \in Nat
      <3>1. i \in 1..Len(c) BY <1>2, <1>3, FilledSpan, SourcesType, BufferIsBuffer DEF s
      <3> QED BY <1>3, <1>4, <3>1
    <2> DEFINE a == s[i].first
               b == Before(s, i)
    <2>4. a \in Nat /\ b \in Nat /\ b < k /\ k \in Int /\ Bytes(s)[k] = a + (k - 1 - b)
      BY <1>5, <2>2, <2>3
    <2> HIDE DEF a, b
    <2> QED BY <2>4
  <1>7. Bytes(s) \in Seq(Nat)
    <2>1. Bytes(s) = [k \in 1..Total(s) |-> Bytes(s)[k]] BY <1>5
    <2>2. Bytes(s) \in [1..Total(s) -> Nat] BY <1>6, <2>1
    <2> QED BY <1>5, <2>2, FunctionIsSeq
  <1> QED BY <1>1, <1>2, <1>7 DEF s, Content

LEMMA InitIsSound == ASSUME SocketsInit PROVE IInv
  <1>1. CASE using = "stream" /\ Init
    <2>1. in \in Seq(Buffer) /\ Sound(in) /\ asked \in Seq(Nat) /\ asked = Content(in)
      BY <1>1, ContentOfChain DEF Init
    <2>2. asked \in Seq(Int) /\ Len(asked) \in Nat
      <3>1. Len(asked) \in Nat /\ asked \in [1..Len(asked) -> Nat] BY <2>1, LenProperties
      <3>2. asked \in [1..Len(asked) -> Int] BY <3>1
      <3> QED BY <3>1, <3>2, FunctionIsSeq
    <2>3. /\ net = <<>> /\ rcv = <<>> /\ got = <<>> /\ sent = 0 /\ ending = "open"
          /\ method \in {"level", "epoll", "rdhup", "kqueue"}
      BY <1>1, ConnAssumption DEF Init
    <2>4. BytesInOrder
      <3>1. SubSeq(asked, 0 + 1, Len(asked)) = asked BY <2>2, SubSeqFull
      <3>2. <<>> \in Seq(Int) /\ <<>> \o <<>> \o <<>> = <<>> /\ Len(<<>>) = 0 OBVIOUS
      <3>3. SubSeq(asked, 1, 0) = <<>> BY <2>2, SubSeqEmpty
      <3> QED BY <2>1, <2>2, <2>3, <3>1, <3>2, <3>3 DEF BytesInOrder
    <2>5. WriteTypes BY <1>1, <2>1 DEF Init, WriteTypes, Idle
    <2>6. ReadTypes BY <1>1, <2>3 DEF Init, ReadTypes, Idle
    <2>7. WriteReported BY <1>1 DEF Init, WriteReported
    <2>8. ReadReported BY <1>1, <2>3 DEF Init, ReadReported, Readable, Over
    <2> QED BY <1>1, <2>4, <2>5, <2>6, <2>7, <2>8 DEF IInv, SInv
  <1>2. CASE using = "datagram" /\ Ended /\ method \in Methods
    <2>1. /\ net = <<>> /\ rcv = <<>> /\ got = <<>> /\ sent = 0 /\ ending = "fin" /\ in = <<>>
          /\ asked = <<>> /\ method \in {"level", "epoll", "rdhup", "kqueue"}
      BY <1>2, ConnAssumption DEF Ended
    <2>2. <<>> \in Seq(Buffer) /\ Sound(<<>>) BY DEF Sound
    <2>3. Content(<<>>) = <<>>
      <3>1. /\ Content(<<>>) \in Seq(Int)
            /\ Len(Content(<<>>)) = Total(Sources(<<>>)) /\ Len(Sources(<<>>)) = Len(<<>>)
        BY <2>2, BufferIsBuffer, ContentType, SourcesType
      <3>2. Total(Sources(<<>>)) = 0
        <4>1. Len(Sources(<<>>)) + 1 = 1 BY <3>1
        <4> QED BY <4>1, BeforeFirst DEF Total
      <3> QED BY <3>1, <3>2, EmptySeq
    <2>4. BytesInOrder
      <3>1. <<>> \in Seq(Int) /\ <<>> \o <<>> \o <<>> = <<>> /\ Len(<<>>) = 0 OBVIOUS
      <3>2. SubSeq(<<>>, 1, 0) = <<>> /\ SubSeq(<<>>, 0 + 1, 0) = <<>> BY <3>1, SubSeqEmpty
      <3>3. /\ asked \in Seq(Int) /\ net \in Seq(Int) /\ rcv \in Seq(Int) /\ got \in Seq(Int)
            /\ Len(asked) = 0 /\ sent \in 0..0
        BY <2>1, <3>1
      <3>4. Content(in) = SubSeq(asked, sent + 1, Len(asked))
        BY <2>1, <2>3, <3>2, <3>3
      <3>5. got \o rcv \o net = <<>> /\ Len(got \o rcv \o net) = 0 BY <2>1, <3>1
      <3>6. got \o rcv \o net = SubSeq(asked, 1, Len(got \o rcv \o net))
        BY <2>1, <3>2, <3>5
      <3> QED BY <2>1, <3>3, <3>4, <3>5, <3>6 DEF BytesInOrder
    <2>5. WriteTypes BY <1>2, <2>1, <2>2 DEF Ended, WriteTypes, Idle
    <2>6. ReadTypes BY <1>2, <2>1 DEF Ended, ReadTypes, Idle
    <2>7. WriteReported BY <1>2 DEF Ended, WriteReported
    <2>8. ReadReported BY <1>2 DEF Ended, ReadReported
    <2> QED BY <1>2, <2>4, <2>5, <2>6, <2>7, <2>8 DEF IInv, SInv
  <1> QED BY <1>1, <1>2 DEF SocketsInit

LEMMA MethodStays == ASSUME Udp!Next PROVE method' = method
  BY DEF Udp!Next, Udp!SendmsgChain, Udp!UdpSend, Udp!Turn, Udp!PollWrite, Udp!Arrive,
         Udp!Lose, Udp!PollRead, Udp!UdpRecv, Udp!UdpRecvFails

streamVars == <<lenient, senderVars, readerVars, kernelVars>>
socketsVars == <<vars, udpVars, using, messages>>

LEMMA StreamAlone == ASSUME IInv, method' = method, using' = using, UNCHANGED streamVars PROVE IInv'
  <1>1. UNCHANGED senderVars /\ UNCHANGED readerVars /\ UNCHANGED kernelVars /\ lenient' = lenient
    BY DEF streamVars
  <1>2. WriteTypes' /\ WriteReported'
    BY <1>1, SenderAlone DEF IInv, SInv, WriteTypes, kernelVars
  <1>3. ReadTypes' /\ ReadReported' BY <1>1, ReaderAlone DEF IInv, SInv, readerVars, kernelVars
  <1>4. BytesInOrder' BY <1>1, BytesAlone DEF IInv, SInv, senderVars, readerVars, kernelVars
  <1>5. (using = "datagram" => Ended)'
    BY <1>1 DEF IInv, Ended, senderVars, readerVars, kernelVars
  <1> QED BY <1>2, <1>3, <1>4, <1>5 DEF IInv, SInv

LEMMA StepIsSound == ASSUME IInv, [SocketsNext]_socketsVars PROVE IInv'
  <1>1. CASE Next /\ UNCHANGED <<using, messages>>
    <2>1. SInv' BY <1>1, StreamStepKeeps DEF IInv
    <2>2. using # "datagram" BY <1>1, EndedStops DEF IInv
    <2> QED BY <1>1, <2>1, <2>2 DEF IInv
  <1>2. CASE /\ Udp!Next /\ UNCHANGED <<lenient, senderVars, readerVars, kernelVars>>
             /\ UNCHANGED <<using, messages>>
    BY <1>2, MethodStays, StreamAlone DEF streamVars
  <1>3. CASE UNCHANGED socketsVars
    <2>1. UNCHANGED vars /\ using' = using BY <1>3 DEF socketsVars
    <2>2. method' = method /\ UNCHANGED streamVars BY <2>1 DEF vars, streamVars
    <2> QED BY <2>1, <2>2, StreamAlone
  <1> QED BY <1>1, <1>2, <1>3 DEF SocketsNext

\* The bytes of a stream are, in order, read, arrived, under way or not sent;
\* what an event says of them is so until the kernel has a change to report.
THEOREM Invariance == SocketsSpec => []IInv
  <1>1. SocketsInit => IInv BY InitIsSound
  <1>2. IInv /\ [SocketsNext]_socketsVars => IInv' BY StepIsSound
  <1> QED BY <1>1, <1>2, PTL DEF SocketsSpec, socketsVars

\* No event is lost (hky_writev_chain, hky_unix_send, hky_unix_recv,
\* hky_readv_chain): a side that waits will hear of what it waits for.
THEOREM EventsKept == SocketsSpec => []NoEventLost
  <1>1. IInv => NoEventLost
    BY DEF IInv, SInv, ReadTypes, WriteReported, ReadReported, NoEventLost
  <1> QED BY <1>1, Invariance, PTL

-----------------------------------------------------------------------------
(* The refinement of the byte stream.                                       *)

LEMMA StreamInit == ASSUME SocketsInit PROVE Stream!Init
  <1>1. CASE using = "stream" /\ Init
    <2>1. asked \in Seq(Nat) BY <1>1, ContentOfChain DEF Init
    <2> QED BY <1>1, <2>1 DEF Init, Stream!Init
  <1>2. CASE using = "datagram" /\ Ended
    <2>1. <<>> \in Seq(Nat) OBVIOUS
    <2> QED BY <1>2, <2>1 DEF Ended, Stream!Init
  <1> QED BY <1>1, <1>2 DEF SocketsInit

Open == using # "datagram"

LEMMA SendsAsWrite ==
    ASSUME SInv, Open, using' = using, NEW bytes \in Seq(Int), NEW n \in 0..Len(bytes),
           Len(bytes) <= Len(Content(in)), bytes = SubSeq(Content(in), 1, Len(bytes)),
           Takes(bytes, n), UNCHANGED <<method, lenient, asked, readerVars>>
    PROVE  Stream!Write \/ UNCHANGED Stream!vars
  <1>1. /\ asked' = asked /\ got' = got /\ told' = told /\ lenient' = lenient
        /\ ending = "open" /\ ending' = ending /\ sent' = sent + n
    BY DEF Takes, readerVars
  <1>2. sent' \in 0..Len(asked') BY <1>1, TakesRight DEF SInv, BytesInOrder
  <1>3. n \in Nat /\ sent \in Nat /\ Len(asked) \in Nat BY DEF SInv, BytesInOrder
  <1>4. CASE n = 0 BY <1>1, <1>3, <1>4 DEF Stream!vars, Open
  <1>5. CASE n > 0
    <2>1. sent' \in (sent + 1)..Len(asked) BY <1>1, <1>2, <1>3, <1>5
    <2> QED BY <1>1, <2>1 DEF Stream!Write, Open
  <1> QED BY <1>3, <1>4, <1>5

LEMMA GivesAsRead ==
    ASSUME SInv, Open, using' = using, told = "open", NEW size \in Nat,
           Gives(size, Arrived(size)), UNCHANGED <<method, lenient, senderVars>>
    PROVE  Stream!Read
  <1>1. /\ asked' = asked /\ sent' = sent /\ in' = in /\ told' = told /\ lenient' = lenient
        /\ ending' = ending
    BY DEF Gives, senderVars
  <1>2. /\ BytesInOrder' /\ ending # "reset" /\ Len(got') > Len(got) /\ Len(got') <= sent
    BY <1>1, GivesKeeps DEF SInv
  <1>3. got' = SubSeq(asked, 1, Len(got')) /\ Len(got') \in Nat
    <2>1. (got = SubSeq(asked, 1, Len(got)) /\ Len(got) \in Nat)'
      <3>1. got' \in Seq(Int) /\ rcv' \in Seq(Int) /\ net' \in Seq(Int) /\ asked' \in Seq(Int)
        BY <1>2 DEF BytesInOrder
      <3> DEFINE e == got' \o rcv'
      <3>2. /\ e \o net' = SubSeq(asked', 1, Len(e \o net')) /\ Len(e \o net') <= sent'
            /\ sent' \in 0..Len(asked')
        BY <1>2 DEF BytesInOrder
      <3>3. e \in Seq(Int) /\ Len(e \o net') \in Nat BY <3>1, ConcatProperties, LenProperties
      <3> HIDE DEF e
      <3>4. Len(e \o net') <= Len(asked') BY <3>1, <3>2, <3>3, LenProperties
      <3>5. e = SubSeq(asked', 1, Len(e)) /\ Len(e) <= Len(asked')
        BY <3>1, <3>2, <3>3, <3>4, StartOfStart
      <3>6. got' = SubSeq(asked', 1, Len(got')) BY <3>1, <3>5, StartOfStart DEF e
      <3> QED BY <3>1, <3>6, LenProperties
    <2> QED BY <1>1, <2>1
  <1>4. Len(got) \in Nat /\ sent \in Nat BY GotIsStart DEF SInv, BytesInOrder
  <1>5. Len(got') \in (Len(got) + 1)..sent BY <1>2, <1>3, <1>4
  <1> QED BY <1>1, <1>2, <1>3, <1>5 DEF Stream!Read, Open

LEMMA EndAsTell ==
    ASSUME SInv, Open, using' = using, told = "open",
           UNCHANGED <<method, lenient, got, senderVars, kernelVars>>,
           \/ rcv = <<>> /\ ending = "fin" /\ told' = "eof"
           \/ ending = "reset" /\ told' \in {"error", ToldOfReset}
    PROVE  Stream!Tell
  <1>1. asked' = asked /\ sent' = sent /\ ending' = ending /\ got' = got /\ lenient' = lenient
    BY DEF senderVars, kernelVars
  <1>2. CASE rcv = <<>> /\ ending = "fin" /\ told' = "eof"
    <2>1. Len(got) + Len(rcv) + Len(net) = sent /\ net = <<>>
      BY <1>2, GotIsStart DEF SInv, BytesInOrder
    <2>2. Len(got) = sent BY <1>2, <2>1, GotIsStart DEF SInv
    <2> QED BY <1>1, <1>2, <2>2 DEF Stream!Tell, Open
  <1>3. CASE ending = "reset" /\ told' \in {"error", ToldOfReset}
    BY <1>1, <1>3 DEF Stream!Tell, Open, ToldOfReset
  <1> QED BY <1>2, <1>3

LEMMA EofFromEventAsTell ==
    ASSUME SInv, Open, using' = using, told = "open", NEW resetSays \in {"error", ToldOfReset},
           EofFromEvent(resetSays), UNCHANGED <<method, lenient, senderVars>>
    PROVE  Stream!Tell
  <1>1. /\ method = "kqueue" /\ rev.available = 0 /\ rev.pending_eof
        /\ told' = (IF ending = "reset" THEN resetSays ELSE "eof")
        /\ UNCHANGED <<got, kernelVars>>
    BY DEF EofFromEvent, SaysEof
  <1>2. Over /\ Len(rcv) = 0 BY <1>1 DEF SInv, ReadReported
  <1>3. rcv = <<>> BY <1>2, EmptySeq DEF SInv, BytesInOrder
  <1> QED BY <1>1, <1>2, <1>3, EndAsTell DEF Over

\* Each step of the sockets is one of the byte stream, or does not change it.
LEMMA StreamStep ==
    ASSUME SInv, Open, using' = using, Next
    PROVE  Stream!Next \/ UNCHANGED Stream!vars
  <1> DEFINE Step == Stream!Next \/ UNCHANGED Stream!vars
  <1> USE DEF Stream!Next
  <1> SUFFICES Step OBVIOUS
  <1>1. ASSUME NEW limit \in Limits, WritevChain(limit) PROVE Step
    BY <1>1 DEF WritevChain, readerVars, kernelVars, Stream!vars
  <1>2. CASE Send
    <2>1. UNCHANGED <<method, lenient, asked, readerVars>> /\ in # <<>>
      BY <1>2 DEF Send, SenderReady
    <2>2. CASE SendFails
      BY <2>1, <2>2 DEF SendFails, readerVars, kernelVars, Stream!vars
    <2>3. ASSUME NEW i \in BOOLEAN, SendTakes(i) PROVE Step
      <3> DEFINE bytes == Content(<<in[1]>>)
      <3>1. PICK n \in 0..Len(bytes) : Takes(bytes, n) BY <2>3 DEF SendTakes
      <3>2. /\ bytes \in Seq(Int) /\ Len(bytes) <= Len(Content(in))
            /\ bytes = SubSeq(Content(in), 1, Len(bytes))
        BY <2>1, BufferIsBuffer, FirstBuffer DEF SInv, WriteTypes
      <3> HIDE DEF bytes
      <3> QED BY <2>1, <3>1, <3>2, SendsAsWrite
    <2> QED BY <1>2, <2>2, <2>3 DEF Send
  <1>3. CASE WritevGather
    BY <1>3 DEF WritevGather, readerVars, kernelVars, Stream!vars
  <1>4. CASE Writev
    <2>1. UNCHANGED <<method, lenient, asked, readerVars>> /\ call.active /\ call.gathered
      BY <1>4 DEF Writev
    <2>2. PICK n \in 0..Len(call.bytes) : Takes(call.bytes, n) BY <1>4 DEF Writev
    <2>3. /\ call.bytes \in Seq(Int) /\ Len(call.bytes) <= Len(Content(in))
          /\ call.bytes = SubSeq(Content(in), 1, Len(call.bytes))
      BY <2>1, InCall DEF SInv, WriteTypes, Call
    <2> QED BY <2>1, <2>2, <2>3, SendsAsWrite
  <1>5. CASE WritevFails
    BY <1>5 DEF WritevFails, readerVars, kernelVars, Stream!vars
  <1>6. CASE CloseSender
    <2>1. Stream!Close
      BY <1>6 DEF CloseSender, Stream!Close, senderVars, readerVars, Open
    <2> QED BY <2>1
  <1>7. CASE Arrive
    BY <1>7 DEF Arrive, senderVars, readerVars, Stream!vars
  <1>8. CASE ArriveFin
    BY <1>8 DEF ArriveFin, senderVars, readerVars, Stream!vars
  <1>9. CASE Reset
    <2>1. Stream!Reset
      BY <1>9 DEF Reset, Stream!Reset, senderVars, readerVars, Open
    <2> QED BY <2>1
  <1>10. CASE PollWrite
    BY <1>10 DEF PollWrite, readerVars, Stream!vars
  <1>11. CASE PollRead
    BY <1>11 DEF PollRead, senderVars, Stream!vars
  <1>12. ASSUME NEW size \in ReadSizes, Recv(size) PROVE Step
    <2>1. /\ UNCHANGED <<method, lenient, senderVars>> /\ told = "open" /\ size \in Nat
      BY <1>12, ConnAssumption DEF Recv, ReaderReady
    <2>2. CASE EofFromEvent(ToldOfReset) BY <2>1, <2>2, EofFromEventAsTell
    <2>3. CASE UNCHANGED <<got, told, kernelVars>>
      BY <2>1, <2>3 DEF senderVars, kernelVars, Stream!vars
    <2>4. CASE Gives(size, Arrived(size)) BY <2>1, <2>4, GivesAsRead
    <2>5. CASE GivesEof BY <2>1, <2>5, EndAsTell DEF GivesEof
    <2>6. CASE GivesError BY <2>1, <2>6, EndAsTell DEF GivesError
    <2> QED BY <1>12, <2>2, <2>3, <2>4, <2>5, <2>6 DEF Recv, GivesNothing
  <1>13. ASSUME NEW c \in ReadChains, NEW limit \in Limits, ReadvChain(c, limit) PROVE Step
    <2>1. UNCHANGED <<method, lenient, senderVars>> /\ told = "open"
      BY <1>13 DEF ReadvChain, ReaderReady
    <2>2. CASE EofFromEvent("error") BY <2>1, <2>2, EofFromEventAsTell
    <2>3. CASE UNCHANGED <<rev, got, told, kernelVars>>
      BY <2>1, <2>3 DEF senderVars, kernelVars, Stream!vars
    <2> QED BY <1>13, <2>2, <2>3 DEF ReadvChain
  <1>14. CASE ReadvReturns
    <2>1. UNCHANGED <<method, lenient, senderVars>> /\ reading.active
      BY <1>14 DEF ReadvReturns
    <2>2. /\ told = "open" /\ Len(reading.into) \in Nat
          /\ ReadBack(reading, Arrived(Len(reading.into))) = Arrived(Len(reading.into))
      BY <2>1, ReadvFinds
    <2>3. CASE Gives(Len(reading.into), ReadBack(reading, Arrived(Len(reading.into))))
      BY <2>1, <2>2, <2>3, GivesAsRead
    <2>4. CASE GivesEof BY <2>1, <2>2, <2>4, EndAsTell DEF GivesEof
    <2>5. CASE GivesError BY <2>1, <2>2, <2>5, EndAsTell DEF GivesError
    <2> QED BY <1>14, <2>3, <2>4, <2>5 DEF ReadvReturns
  <1> HIDE DEF Step
  <1> QED
    BY <1>1, <1>2, <1>3, <1>4, <1>5, <1>6, <1>7, <1>8, <1>9, <1>10, <1>11, <1>12, <1>13, <1>14
    DEF Next, SenderStep, ReaderStep

\* A connection is a byte stream, whatever the kernel takes of a write, however
\* the iovecs are cut and merged (hky_output_chain_to_iovec, hky_readv_chain)
\* and whatever the method of the event loop: SocketsSpec implements
\* HkyByteStream.
THEOREM ImplementsByteStream == SocketsSpec => StreamSpec
  <1>1. SocketsInit => Stream!Init BY StreamInit
  <1>2. IInv /\ [SocketsNext]_socketsVars => [Stream!Next]_(Stream!vars)
    <2> SUFFICES ASSUME IInv, [SocketsNext]_socketsVars
                 PROVE  Stream!Next \/ UNCHANGED Stream!vars
      OBVIOUS
    <2>1. CASE Next /\ UNCHANGED <<using, messages>>
      <3>1. Open BY <2>1, EndedStops DEF IInv, Open
      <3> QED BY <2>1, <3>1, StreamStep DEF IInv
    <2>2. CASE /\ Udp!Next /\ UNCHANGED <<lenient, senderVars, readerVars, kernelVars>>
               /\ UNCHANGED <<using, messages>>
      BY <2>2 DEF Stream!vars, senderVars, readerVars, kernelVars
    <2>3. CASE UNCHANGED socketsVars
      BY <2>3 DEF socketsVars, vars, Stream!vars, senderVars, readerVars, kernelVars
    <2> QED BY <2>1, <2>2, <2>3 DEF SocketsNext
  <1> QED BY <1>1, <1>2, Invariance, PTL DEF SocketsSpec, StreamSpec, Stream!Spec, socketsVars

-----------------------------------------------------------------------------
(* The datagram socket: the bytes that wait, and those of a datagram.        *)

Waiting(q) == [i \in DOMAIN q |-> Span(0, Len(q[i]))]

LEMMA WaitingType ==
    ASSUME NEW q \in Seq(Seq(Int))
    PROVE  /\ Waiting(q) \in Seq(SpanType) /\ Len(Waiting(q)) = Len(q) /\ Len(q) \in Nat
           /\ \A i \in 1..Len(q) : Size(Waiting(q)[i]) = Len(q[i]) /\ Len(q[i]) \in Nat
  <1>1. Len(q) \in Nat /\ DOMAIN q = 1..Len(q) BY LenProperties
  <1>2. ASSUME NEW i \in 1..Len(q)
        PROVE  /\ Waiting(q)[i] \in SpanType
               /\ Size(Waiting(q)[i]) = Len(q[i]) /\ Len(q[i]) \in Nat
    <2>1. Len(q[i]) \in Nat BY ElementOfSeq, LenProperties
    <2>2. Waiting(q)[i] = [first |-> 0, end |-> Len(q[i])] BY <1>1 DEF Waiting, Span
    <2> QED BY <2>1, <2>2 DEF SpanType, Size
  <1>3. Waiting(q) = [i \in 1..Len(q) |-> Waiting(q)[i]] BY <1>1 DEF Waiting
  <1>4. Waiting(q) \in [1..Len(q) -> SpanType] BY <1>2, <1>3
  <1> QED BY <1>1, <1>2, <1>4, FunctionIsSeq

\* Without its first span, the others have that span's bytes fewer before them.
LEMMA BeforeTail ==
    ASSUME NEW s \in Seq(SpanType), NEW t \in Seq(SpanType), Len(s) = Len(t) + 1,
           \A i \in 1..Len(t) : t[i] = s[i + 1]
    PROVE  Total(t) = Total(s) - Size(s[1])
  <1> DEFINE n == Len(t)
             Wrong == {j \in 1..(n + 1) : Before(t, j) # Before(s, j + 1) - Size(s[1])}
  <1>1. n \in Nat /\ Len(s) = n + 1 BY LenProperties
  <1>2. Size(s[1]) \in Nat
    <2>1. s[1] \in SpanType BY <1>1, ElementOfSeq
    <2> QED BY <2>1 DEF SpanType, Size
  <1>3. Wrong = {}
    <2> SUFFICES ASSUME Wrong # {} PROVE FALSE OBVIOUS
    <2>1. Wrong \subseteq Nat BY <1>1
    <2> DEFINE k == FirstOf(Wrong)
    <2>2. k \in Wrong /\ \A m \in Wrong : k <= m
      <3> HIDE DEF Wrong
      <3> QED BY <2>1, FirstOfIn
    <2> HIDE DEF k
    <2>3. k \in 1..(n + 1) /\ Before(t, k) # Before(s, k + 1) - Size(s[1]) BY <2>2
    <2>4. CASE k = 1
      <3>1. Before(t, 1) = 0 /\ Before(s, 1) = 0 BY BeforeFirst
      <3>2. 1 \in 1..Len(s) BY <1>1
      <3>3. Before(s, 1 + 1) = Before(s, 1) + Size(s[1]) BY <3>2, BeforeNext
      <3> QED BY <1>2, <2>3, <2>4, <3>1, <3>3
    <2>5. CASE k # 1
      <3> DEFINE j == k - 1
      <3>1. j \in 1..n /\ j + 1 = k /\ j \in 1..(n + 1) /\ j < k BY <1>1, <2>3, <2>5
      <3>2. j \notin Wrong BY <2>2, <3>1
      <3> HIDE DEF j
      <3>3. Before(t, j) = Before(s, j + 1) - Size(s[1]) BY <3>1, <3>2
      <3>4. Before(t, j + 1) = Before(t, j) + Size(t[j]) BY <3>1, BeforeNext
      <3>5. j + 1 \in 1..Len(s) BY <1>1, <3>1
      <3>6. Before(s, (j + 1) + 1) = Before(s, j + 1) + Size(s[j + 1]) BY <3>5, BeforeNext
      <3>7. t[j] = s[j + 1] BY <3>1
      <3> DEFINE a == Before(s, j + 1)
                 b == Size(s[j + 1])
                 c == Size(s[1])
      <3>8. a \in Int /\ b \in Int /\ c \in Int
        <4>1. s[j + 1] \in SpanType BY <3>5, ElementOfSeq
        <4>2. j + 1 \in 1..(Len(s) + 1) BY <1>1, <3>1
        <4>3. a \in Nat BY <4>2, BeforeType
        <4>4. b \in Int BY <4>1 DEF SpanType, Size
        <4> QED BY <1>2, <4>3, <4>4
      <3>9. Before(t, k) = (a - c) + b /\ Before(s, k + 1) = a + b
        BY <3>1, <3>3, <3>4, <3>6, <3>7
      <3> HIDE DEF a, b
      <3> QED BY <2>3, <3>8, <3>9 DEF c
    <2> QED BY <2>4, <2>5
  <1>4. n + 1 \in 1..(n + 1) BY <1>1
  <1>5. Before(t, n + 1) = Before(s, (n + 1) + 1) - Size(s[1]) BY <1>3, <1>4
  <1> QED BY <1>1, <1>5 DEF Total

LEMMA WaitingRead ==
    ASSUME NEW q \in Seq(Seq(Int)), q # <<>>
    PROVE  /\ Tail(q) \in Seq(Seq(Int)) /\ Len(q[1]) \in Nat
           /\ Total(Waiting(Tail(q))) = Total(Waiting(q)) - Len(q[1])
           /\ Total(Waiting(Tail(q))) \in Nat /\ Total(Waiting(q)) \in Nat
  <1> DEFINE t == Tail(q)
  <1>1. /\ t \in Seq(Seq(Int)) /\ Len(t) = Len(q) - 1 /\ \A i \in 1..Len(t) : t[i] = q[i + 1]
    BY HeadTailProperties
  <1> HIDE DEF t
  <1>2. /\ Waiting(q) \in Seq(SpanType) /\ Len(Waiting(q)) = Len(q) /\ Len(q) \in Nat
        /\ \A i \in 1..Len(q) : Size(Waiting(q)[i]) = Len(q[i]) /\ Len(q[i]) \in Nat
    BY WaitingType
  <1>3. Waiting(t) \in Seq(SpanType) /\ Len(Waiting(t)) = Len(t) /\ Len(t) \in Nat
    BY <1>1, WaitingType
  <1>4. Len(q) > 0 /\ 1 \in 1..Len(q) BY <1>2, EmptySeq
  <1>5. \A i \in 1..Len(t) : Waiting(t)[i] = Waiting(q)[i + 1]
    <2>1. DOMAIN t = 1..Len(t) /\ DOMAIN q = 1..Len(q) BY <1>1, LenProperties
    <2>2. \A i \in 1..Len(t) : i + 1 \in 1..Len(q) BY <1>1, <1>2, <1>3
    <2> QED BY <1>1, <2>1, <2>2 DEF Waiting
  <1>6. Len(Waiting(q)) = Len(Waiting(t)) + 1 BY <1>1, <1>2, <1>3
  <1>7. \A i \in 1..Len(Waiting(t)) : Waiting(t)[i] = Waiting(q)[i + 1] BY <1>3, <1>5
  <1>8. Total(Waiting(t)) = Total(Waiting(q)) - Size(Waiting(q)[1])
    BY <1>2, <1>3, <1>6, <1>7, BeforeTail
  <1>9. Size(Waiting(q)[1]) = Len(q[1]) /\ Len(q[1]) \in Nat BY <1>2, <1>4
  <1>10. Total(Waiting(t)) \in Nat /\ Total(Waiting(q)) \in Nat BY <1>2, <1>3, TotalType
  <1> QED BY <1>1, <1>8, <1>9, <1>10 DEF t

LEMMA NothingWaits ==
    ASSUME NEW q \in Seq(Seq(Int)), Total(Waiting(q)) = 0, NEW i \in DOMAIN q
    PROVE  q[i] = <<>>
  <1>1. /\ Waiting(q) \in Seq(SpanType) /\ Len(Waiting(q)) = Len(q) /\ Len(q) \in Nat
        /\ i \in 1..Len(q) /\ Size(Waiting(q)[i]) = Len(q[i]) /\ Len(q[i]) \in Nat
    BY WaitingType, LenProperties
  <1> DEFINE s == Waiting(q)
  <1>2. /\ i \in 1..Len(s) /\ i \in 1..(Len(s) + 1) /\ i + 1 \in 1..(Len(s) + 1)
        /\ Len(s) + 1 \in 1..(Len(s) + 1) /\ i + 1 <= Len(s) + 1
    BY <1>1
  <1>3. Before(s, i + 1) = Before(s, i) + Size(s[i]) BY <1>1, <1>2, BeforeNext
  <1>4. Before(s, i) \in Nat /\ Before(s, i + 1) \in Nat BY <1>1, <1>2, BeforeType
  <1>5. Before(s, i + 1) <= 0 BY <1>1, <1>2, BeforeGrows DEF Total
  <1>6. Len(q[i]) = 0
    <2> DEFINE a == Before(s, i)
               b == Before(s, i + 1)
               c == Len(q[i])
    <2>1. a \in Nat /\ b \in Nat /\ c \in Nat /\ b <= 0 /\ b = a + c BY <1>1, <1>3, <1>4, <1>5
    <2> HIDE DEF a, b, c
    <2>2. c = 0 BY <2>1
    <2> QED BY <2>2 DEF c
  <1> QED BY <1>6, ElementOfSeq, EmptySeq

LEMMA PartIsBuffer == Buffers(Part)
  <1> SUFFICES ASSUME NEW b \in Part, NEW p \in Int
               PROVE  /\ b.pos \in Int /\ b.last \in Int
                      /\ LET m == [b EXCEPT !.pos = p] IN
                           m \in Part /\ m.pos = p /\ m.last = b.last /\ m.kind = b.kind
    <2>1. 0 \in Int OBVIOUS
    <2> QED BY <2>1, Zenon DEF Buffers
  <1> QED BY DEF Part

\* The operators of HkyDatagram on chains are those of HkyConnIO.
LEMMA SameOperators ==
    /\ \A c : Udp!Sources(c) = Sources(c) /\ Udp!Content(c) = Content(c)
    /\ \A s, i : Udp!Before(s, i) = Before(s, i)
    /\ \A s, n : Udp!Gathered(s, n) = Gathered(s, n)
    /\ \A c, n : Udp!UpdateSent(c, n) = UpdateSent(c, n)
    /\ \A s, b, l, n : Udp!Stop(s, b, l, n) = Stop(s, b, l, n)
  <1> USE DEF Udp!Span, Span, Udp!FirstOf, FirstOf, Udp!LastOf, LastOf,
             Udp!Cardinality, Cardinality
  <1>1. \A c : Udp!Sources(c) = Sources(c) BY DEF Udp!Sources, Sources
  <1>2. \A s, i : Udp!Before(s, i) = Before(s, i) BY DEF Udp!Before, Before
  <1>3. \A s, z, n : Udp!Run(s, z, n) = Run(s, z, n) BY DEF Udp!Run, Run, Udp!Before, Before
  <1>4. \A s : Udp!Filled(s) = Filled(s) BY DEF Udp!Filled, Filled
  <1>5. \A s : Udp!Starts(s) = Starts(s) BY DEF Udp!Starts, Starts, Udp!Filled, Filled
  <1>6. \A s : Udp!Bytes(s) = Bytes(s) BY <1>2, <1>3, <1>4 DEF Udp!Bytes, Bytes
  <1>7. \A c : Udp!Content(c) = Content(c) BY <1>1, <1>6 DEF Udp!Content, Content
  <1>8. \A s, n : Udp!Gathered(s, n) = Gathered(s, n) BY <1>3, <1>5 DEF Udp!Gathered, Gathered
  <1>9. \A c, n : Udp!UpdateSent(c, n) = UpdateSent(c, n)
    BY DEF Udp!UpdateSent, UpdateSent, Udp!Sources, Sources, Udp!Before, Before
  <1>10. \A s, b, l, n : Udp!Stop(s, b, l, n) = Stop(s, b, l, n)
    BY DEF Udp!Stop, Stop, Udp!Starts, Starts, Udp!Filled, Filled, Udp!Before, Before
  <1> QED BY <1>1, <1>2, <1>7, <1>8, <1>9, <1>10

LEMMA BytesOfPart ==
    ASSUME NEW s \in Seq(SpanType), NEW e \in 1..Len(s)
    PROVE  /\ SubSeq(s, 1, e) \in Seq(SpanType) /\ Total(SubSeq(s, 1, e)) = Before(s, e + 1)
           /\ Before(s, e + 1) \in Nat /\ Before(s, e + 1) <= Total(s)
           /\ Bytes(SubSeq(s, 1, e)) = SubSeq(Bytes(s), 1, Before(s, e + 1))
  <1> DEFINE t == SubSeq(s, 1, e)
             n == Len(s)
  <1>1. n \in Nat /\ e \in Nat /\ e <= n /\ e >= 1 BY LenProperties
  <1>2. t \in Seq(SpanType) /\ Len(t) = e /\ \A i \in 1..e : t[i] = s[i]
    <2>1. 1 \in 1..(n + 1) /\ e \in 0..n /\ 1 <= e + 1 /\ e - 1 + 1 = e BY <1>1
    <2>2. /\ t \in Seq(SpanType) /\ Len(t) = e - 1 + 1
          /\ \A i \in 1..(e - 1 + 1) : t[i] = s[i + 1 - 1]
      BY <2>1, PartOf
    <2>3. \A i \in 1..e : i + 1 - 1 = i BY <1>1
    <2> HIDE DEF t
    <2> QED BY <2>1, <2>2, <2>3
  <1> HIDE DEF t
  <1>3. Len(t) <= Len(s) /\ \A i \in 1..Len(t) : t[i] = s[i] BY <1>1, <1>2
  <1>4. /\ Total(t) = Before(s, Len(t) + 1) /\ Total(t) <= Total(s)
        /\ Bytes(t) = SubSeq(Bytes(s), 1, Total(t))
    BY <1>2, <1>3, StartOfBytes
  <1>5. Total(t) \in Nat BY <1>2, TotalType
  <1> QED BY <1>2, <1>4, <1>5 DEF t

\* Where the messages of a chain end.
EndsOf(c) == IF way = "chain" THEN {i \in DOMAIN c : c[i].ends} ELSE DOMAIN c

LEMMA CutsAre ==
    ASSUME NEW c \in Seq(Part)
    PROVE  /\ Udp!Cuts(c) = {Before(Sources(c), i + 1) : i \in EndsOf(c)} \ {0}
           /\ EndsOf(c) \subseteq 1..Len(c)
           /\ Udp!Cuts(c) \subseteq 1..Total(Sources(c))
           /\ \A i \in EndsOf(c) : Before(Sources(c), i + 1) \in Nat
  <1> DEFINE s == Sources(c)
  <1>1. s \in Seq(SpanType) /\ Len(s) = Len(c) /\ Len(c) \in Nat /\ DOMAIN c = 1..Len(c)
    BY PartIsBuffer, SourcesType, LenProperties
  <1>2. EndsOf(c) \subseteq 1..Len(c) BY <1>1 DEF EndsOf
  <1>3. EndsOf(c) = IF way = "chain" THEN Udp!Ends(c) ELSE DOMAIN c BY DEF EndsOf, Udp!Ends
  <1>4. Udp!Cuts(c) = {Udp!Before(Udp!Sources(c), i + 1) : i \in EndsOf(c)} \ {0}
    BY <1>3 DEF Udp!Cuts
  <1>5. Udp!Sources(c) = s BY SameOperators
  <1>6. \A i \in EndsOf(c) : Udp!Before(s, i + 1) = Before(s, i + 1) BY SameOperators
  <1> HIDE DEF s
  <1>7. Udp!Cuts(c) = {Before(s, i + 1) : i \in EndsOf(c)} \ {0} BY <1>4, <1>5, <1>6
  <1>8. ASSUME NEW i \in EndsOf(c)
        PROVE  Before(s, i + 1) \in Nat /\ Before(s, i + 1) <= Total(s)
    <2>1. /\ i + 1 \in 1..(Len(s) + 1) /\ Len(s) + 1 \in 1..(Len(s) + 1) /\ i + 1 <= Len(s) + 1
      BY <1>1, <1>2
    <2> QED BY <1>1, <2>1, BeforeType, BeforeGrows DEF Total
  <1>9. Total(s) \in Nat BY <1>1, TotalType
  <1>10. Udp!Cuts(c) \subseteq 1..Total(s) BY <1>7, <1>8, <1>9
  <1> QED BY <1>2, <1>7, <1>8, <1>10 DEF s

\* A message ends after n bytes, and none before.
AtCut(c, n) == (n = 0 \/ n \in Udp!Cuts(c)) /\ \A m \in Udp!Cuts(c) : n <= m

\* A datagram is the first bytes of the chain, up to where the first message ends.
LEMMA DatagramRight ==
    ASSUME NEW c \in Seq(Part), Udp!NextDatagram(c).how = "send", way = "chain"
    PROVE  LET d == Udp!NextDatagram(c) IN
           /\ d.bytes \in Seq(Int) /\ Len(d.bytes) \in Nat /\ Len(d.bytes) <= Len(Content(c))
           /\ d.bytes = SubSeq(Content(c), 1, Len(d.bytes))
           /\ AtCut(c, Len(d.bytes))
  <1> DEFINE s == Sources(c)
             end == Udp!EndOfDatagram(c)
             d == Udp!NextDatagram(c)
  <1>1. s \in Seq(SpanType) /\ Len(s) = Len(c) /\ Len(c) \in Nat /\ DOMAIN c = 1..Len(c)
    BY PartIsBuffer, SourcesType, LenProperties
  <1>2. Len(Content(c)) = Total(s) BY PartIsBuffer, ContentType
  <1>3. /\ end # Len(c) + 1
        /\ d.bytes = Gathered(SubSeq(s, 1, end), Before(s, end + 1))
    <2> DEFINE stop == Udp!Stop(Udp!Sources(c), {i \in DOMAIN c : c[i].kind \in {"file", "bad"}},
                                Udp!Before(Udp!Sources(c), Len(c) + 1) + 1, DatagramIovs)
               none(how) == [how |-> how, bytes |-> <<>>]
               sent0 == [how |-> "send",
                         bytes |-> Udp!Gathered(SubSeq(Udp!Sources(c), 1, end),
                                                Udp!Before(Udp!Sources(c), end + 1))]
    <2>1. d = IF stop <= Len(c) /\ stop <= end
              THEN IF c[stop].kind # "file" \/ stop \in {1, end} THEN none("error")
                   ELSE none("wait")
              ELSE IF end = Len(c) + 1 THEN none("wait") ELSE sent0
      BY DEF Udp!NextDatagram
    <2>2. none("error").how # "send" /\ none("wait").how # "send" OBVIOUS
    <2> HIDE DEF none, stop, d, end
    <2>3. d.how = "send" BY DEF d
    <2>4. end # Len(c) + 1 /\ d = sent0 BY <2>1, <2>2, <2>3
    <2>5. d.bytes = Udp!Gathered(SubSeq(Udp!Sources(c), 1, end),
                                 Udp!Before(Udp!Sources(c), end + 1))
      BY <2>4
    <2>6. Udp!Sources(c) = s BY SameOperators
    <2>7. Udp!Before(s, end + 1) = Before(s, end + 1) BY SameOperators
    <2>8. d.bytes = Udp!Gathered(SubSeq(s, 1, end), Before(s, end + 1)) BY <2>5, <2>6, <2>7
    <2> QED BY <2>4, <2>8, SameOperators
  <1>4. end \in EndsOf(c) /\ end \in 1..Len(c) /\ \A i \in EndsOf(c) : end <= i
    <2> DEFINE E == Udp!Ends(c) \cup {Len(c) + 1}
    <2>1. E \subseteq Nat /\ E # {} /\ E \subseteq 1..(Len(c) + 1)
      BY <1>1 DEF Udp!Ends
    <2>2. end = FirstOf(E) BY DEF Udp!EndOfDatagram, Udp!FirstOf, FirstOf
    <2>3. end \in E /\ \A i \in E : end <= i
      <3> HIDE DEF E, end
      <3> QED BY <2>1, <2>2, FirstOfIn
    <2>4. EndsOf(c) = Udp!Ends(c) BY DEF EndsOf, Udp!Ends
    <2>5. EndsOf(c) \subseteq 1..Len(c) BY CutsAre
    <2> HIDE DEF end
    <2> QED BY <1>3, <2>3, <2>4, <2>5
  <1> HIDE DEF s, end, d
  <1>5. /\ SubSeq(s, 1, end) \in Seq(SpanType) /\ Total(SubSeq(s, 1, end)) = Before(s, end + 1)
        /\ Before(s, end + 1) \in Nat /\ Before(s, end + 1) <= Total(s)
        /\ Bytes(SubSeq(s, 1, end)) = SubSeq(Bytes(s), 1, Before(s, end + 1))
    BY <1>1, <1>4, BytesOfPart
  <1> DEFINE n == Before(s, end + 1)
             t == SubSeq(s, 1, end)
  <1>6. d.bytes \in Seq(Int) /\ Len(d.bytes) = n /\ d.bytes = Bytes(t)
    <2>1. n \in Int /\ n <= Total(t) /\ n >= 0 /\ t \in Seq(SpanType) /\ n = Total(t)
      <3> HIDE DEF t
      <3> QED BY <1>5 DEF t
    <2>2. d.bytes = Gathered(t, n) BY <1>3
    <2> HIDE DEF n, t
    <2>3. /\ Gathered(t, n) \in Seq(Int) /\ Len(Gathered(t, n)) = n
          /\ Gathered(t, n) = SubSeq(Bytes(t), 1, n)
      BY <2>1, GatheredRight
    <2>4. Bytes(t) \in Seq(Int) /\ Len(Bytes(t)) = n BY <2>1, BytesType
    <2>5. SubSeq(Bytes(t), 1, n) = Bytes(t) BY <2>4, SubSeqFull
    <2> QED BY <2>2, <2>3, <2>5
  <1>7. d.bytes = SubSeq(Content(c), 1, n)
    <2>1. Content(c) = Bytes(s) BY DEF Content, s
    <2> QED BY <1>5, <1>6, <2>1
  <1>8. AtCut(c, n)
    <2>1. Udp!Cuts(c) = {Before(s, i + 1) : i \in EndsOf(c)} \ {0} BY CutsAre DEF s
    <2>2. ASSUME NEW i \in EndsOf(c) PROVE n <= Before(s, i + 1)
      <3>1. /\ end + 1 \in 1..(Len(s) + 1) /\ i + 1 \in 1..(Len(s) + 1) /\ end + 1 <= i + 1
        BY <1>1, <1>4, <2>2, CutsAre
      <3> QED BY <1>1, <3>1, BeforeGrows
    <2> HIDE DEF n
    <2>3. \A m \in Udp!Cuts(c) : n <= m BY <2>1, <2>2
    <2>4. n = 0 \/ n \in Udp!Cuts(c) BY <1>4, <2>1 DEF n
    <2> QED BY <2>3, <2>4 DEF AtCut
  <1> QED BY <1>2, <1>5, <1>6, <1>7, <1>8 DEF d, s

-----------------------------------------------------------------------------
(* The steps of the datagram socket.                                        *)

LEMMA UdpTypesKept ==
    ASSUME UTypes, Udp!Turn, way = "chain"
    PROVE  chain' \in Seq(Part) /\ Sound(chain') /\ unet' \in Seq(Seq(Int))
  <1>1. CASE chain' = chain /\ unet' = unet BY <1>1 DEF UTypes
  <1>2. CASE Udp!SendTurn
    <2> DEFINE d == Udp!NextDatagram(chain)
    <2>1. CASE UNCHANGED <<chain, unet>> BY <1>1, <2>1
    <2>2. CASE /\ d.how = "send" /\ unet' = Append(unet, d.bytes)
               /\ chain' = Udp!UpdateSent(chain, Len(d.bytes))
      <3>1. /\ chain \in Seq(Part) /\ Sound(chain) /\ unet \in Seq(Seq(Int))
        BY DEF UTypes
      <3>2. /\ d.bytes \in Seq(Int) /\ Len(d.bytes) \in Nat
            /\ Len(d.bytes) <= Len(Content(chain))
        BY <2>2, <3>1, DatagramRight
      <3> HIDE DEF d
      <3>3. chain' = UpdateSent(chain, Len(d.bytes)) BY <2>2, SameOperators
      <3>4. chain' \in Seq(Part) /\ Sound(chain')
        BY <3>1, <3>2, <3>3, PartIsBuffer, UpdateSentRight
      <3>5. unet' \in Seq(Seq(Int)) BY <2>2, <3>1, <3>2, AppendProperties
      <3> QED BY <3>4, <3>5
    <2> QED BY <1>2, <2>1, <2>2 DEF Udp!SendTurn, Udp!Taken, Udp!Full, Udp!Fails
  <1>3. CASE Udp!NoneTurn BY <1>1, <1>3 DEF Udp!NoneTurn
  <1> QED BY <1>2, <1>3 DEF Udp!Turn

LEMMA TurnKeeps == ASSUME UTypes, UInv, Udp!Turn PROVE UTypes' /\ UInv'
  <1>1. /\ UNCHANGED <<method, way, queue, urev, urreport, ugot, refused>> /\ ucall.active
    BY DEF Udp!Turn, Udp!readerVars
  <1>2. way = "chain" /\ ~error BY <1>1 DEF UInv
  <1>3. chain' \in Seq(Part) /\ Sound(chain') /\ unet' \in Seq(Seq(Int)) BY <1>2, UdpTypesKept
  <1>4. /\ ucall' = Udp!Idle \/ ~error'
        /\ ready' \in BOOLEAN /\ error' \in BOOLEAN /\ uwreport' \in BOOLEAN
        /\ ~ready' /\ ~error' => uwreport' \/ method = "level"
    <2>1. CASE Udp!SendTurn
      <3>1. CASE ready' = ready /\ error' = error /\ uwreport' = uwreport
        BY <1>2, <3>1 DEF UTypes, UInv
      <3>2. CASE Udp!Full /\ ucall' = Udp!Idle BY <1>2, <3>2 DEF Udp!Full, UTypes
      <3>3. CASE Udp!Fails /\ ucall' = Udp!Idle BY <3>3 DEF Udp!Fails, UTypes
      <3> QED BY <2>1, <3>1, <3>2, <3>3 DEF Udp!SendTurn, Udp!Taken, Udp!ReadyAfterSend
    <2>2. CASE Udp!NoneTurn BY <1>2, <2>2 DEF Udp!NoneTurn, UTypes, UInv
    <2> QED BY <2>1, <2>2 DEF Udp!Turn
  <1>5. UTypes' BY <1>1, <1>3, <1>4 DEF UTypes
  <1>6. ucall'.active => ~error' BY <1>4 DEF Udp!Idle
  <1>7. (Udp!BytesWaiting)' = Udp!BytesWaiting BY <1>1 DEF Udp!BytesWaiting
  <1>8. UInv' BY <1>1, <1>2, <1>4, <1>6, <1>7 DEF UInv
  <1> QED BY <1>5, <1>8

LEMMA UdpSendKeeps == ASSUME UTypes, UInv, Udp!UdpSend PROVE UTypes' /\ UInv'
  <1>1. /\ UNCHANGED <<method, way, ucall, queue, urev, urreport, ugot, refused>>
        /\ way = "buffer" /\ chain # <<>> /\ ~error
    BY DEF Udp!UdpSend, Udp!readerVars
  <1>2. CASE Udp!Full \/ Udp!Fails
    <2>1. /\ chain' = chain /\ unet' = unet
          /\ ready' \in BOOLEAN /\ error' \in BOOLEAN /\ uwreport' \in BOOLEAN
          /\ ~ready' /\ ~error' => uwreport' \/ method = "level"
      BY <1>1, <1>2 DEF Udp!Full, Udp!Fails, UTypes
    <2>2. (Udp!BytesWaiting)' = Udp!BytesWaiting BY <1>1 DEF Udp!BytesWaiting
    <2>3. UTypes' BY <1>1, <2>1 DEF UTypes
    <2>4. UInv' BY <1>1, <2>1, <2>2 DEF UInv
    <2> QED BY <2>3, <2>4
  <1>3. CASE /\ unet' = Append(unet, Udp!Content(<<chain[1]>>)) /\ chain' = Tail(chain)
             /\ UNCHANGED <<ready, uwreport, error>>
    <2>1. Udp!Content(<<chain[1]>>) \in Seq(Int)
      <3>1. Content(<<chain[1]>>) \in Seq(Int) BY <1>1, PartIsBuffer, FirstBuffer DEF UTypes
      <3> QED BY <3>1, SameOperators
    <2>2. unet' \in Seq(Seq(Int)) BY <1>3, <2>1, AppendProperties DEF UTypes
    <2>3. chain' \in Seq(Part) /\ Sound(chain')
      <3>1. /\ Tail(chain) \in Seq(Part) /\ Len(Tail(chain)) = Len(chain) - 1
            /\ \A i \in 1..Len(Tail(chain)) : Tail(chain)[i] = chain[i + 1]
        BY <1>1, HeadTailProperties DEF UTypes
      <3>2. Len(chain) \in Nat /\ DOMAIN chain = 1..Len(chain)
            /\ DOMAIN Tail(chain) = 1..Len(Tail(chain))
        BY <3>1, LenProperties DEF UTypes
      <3>3. \A i \in 1..Len(Tail(chain)) : i + 1 \in 1..Len(chain) BY <3>1, <3>2
      <3> QED BY <1>3, <3>1, <3>2, <3>3 DEF UTypes, Sound
    <2>4. (Udp!BytesWaiting)' = Udp!BytesWaiting BY <1>1 DEF Udp!BytesWaiting
    <2>5. UTypes' BY <1>1, <1>3, <2>2, <2>3 DEF UTypes
    <2>6. UInv' BY <1>1, <1>3, <2>4 DEF UInv
    <2> QED BY <2>5, <2>6
  <1> QED BY <1>2, <1>3 DEF Udp!UdpSend, Udp!Taken

LEMMA WithoutOne ==
    ASSUME NEW S, NEW s \in Seq(S), NEW i \in 1..Len(s)
    PROVE  /\ Udp!Without(s, i) \in Seq(S) /\ Len(Udp!Without(s, i)) = Len(s) - 1
           /\ \A j \in 1..(Len(s) - 1) :
                 Udp!Without(s, i)[j] = s[IF j < i THEN j ELSE j + 1]
  <1> DEFINE n == Len(s)
             a == SubSeq(s, 1, i - 1)
             b == SubSeq(s, i + 1, n)
             t == Udp!Without(s, i)
  <1>1. n \in Nat /\ i \in 1..n BY LenProperties
  <1>2. a \in Seq(S) /\ Len(a) = i - 1 /\ \A j \in 1..(i - 1) : a[j] = s[j]
    <2>1. /\ 1 \in 1..(n + 1) /\ i - 1 \in 0..n /\ 1 <= (i - 1) + 1 /\ (i - 1) - 1 + 1 = i - 1
          /\ \A j \in 1..(i - 1) : j + 1 - 1 = j
      BY <1>1
    <2>2. /\ a \in Seq(S) /\ Len(a) = (i - 1) - 1 + 1
          /\ \A j \in 1..((i - 1) - 1 + 1) : a[j] = s[j + 1 - 1]
      BY <2>1, PartOf
    <2> HIDE DEF a
    <2> QED BY <2>1, <2>2
  <1>3. b \in Seq(S) /\ Len(b) = n - i /\ \A j \in 1..(n - i) : b[j] = s[j + i]
    <2>1. /\ i + 1 \in 1..(n + 1) /\ n \in 0..n /\ i + 1 <= n + 1 /\ n - (i + 1) + 1 = n - i
          /\ \A j \in 1..(n - i) : j + (i + 1) - 1 = j + i
      BY <1>1
    <2>2. /\ b \in Seq(S) /\ Len(b) = n - (i + 1) + 1
          /\ \A j \in 1..(n - (i + 1) + 1) : b[j] = s[j + (i + 1) - 1]
      BY <2>1, PartOf
    <2> HIDE DEF b
    <2> QED BY <2>1, <2>2
  <1>4. t = a \o b BY DEF Udp!Without
  <1> HIDE DEF a, b, t, n
  <1>5. /\ t \in Seq(S) /\ Len(t) = (i - 1) + (n - i)
        /\ \A j \in 1..((i - 1) + (n - i)) :
              t[j] = IF j <= i - 1 THEN a[j] ELSE b[j - (i - 1)]
    BY <1>2, <1>3, <1>4, ConcatProperties
  <1>6. (i - 1) + (n - i) = n - 1 BY <1>1
  <1>7. ASSUME NEW j \in 1..(n - 1) PROVE t[j] = s[IF j < i THEN j ELSE j + 1]
    <2>1. CASE j < i
      <3>1. j \in 1..(i - 1) /\ j <= i - 1 BY <1>1, <2>1
      <3> QED BY <1>2, <1>5, <1>6, <2>1, <3>1
    <2>2. CASE ~(j < i)
      <3>1. ~(j <= i - 1) /\ j - (i - 1) \in 1..(n - i) /\ (j - (i - 1)) + i = j + 1
        BY <1>1, <2>2
      <3>2. t[j] = b[j - (i - 1)] BY <1>5, <1>6, <3>1
      <3>3. b[j - (i - 1)] = s[(j - (i - 1)) + i] BY <1>3, <3>1
      <3> QED BY <2>2, <3>1, <3>2, <3>3
    <2> QED BY <2>1, <2>2
  <1> QED BY <1>5, <1>6, <1>7 DEF t, n

LEMMA WaitingIs == ASSUME UTypes PROVE Udp!BytesWaiting = Total(Waiting(queue))
  <1>1. Udp!BytesWaiting = Udp!Before(Waiting(queue), Len(queue) + 1)
    BY DEF Udp!BytesWaiting, Waiting, Udp!Span, Span
  <1>2. Len(Waiting(queue)) = Len(queue) BY WaitingType DEF UTypes
  <1>3. Udp!Before(Waiting(queue), Len(queue) + 1) = Before(Waiting(queue), Len(queue) + 1)
    BY SameOperators
  <1> QED BY <1>1, <1>2, <1>3 DEF Total

LEMMA UdpRecvKeeps ==
    ASSUME UTypes, UInv, NEW size \in DatagramSizes, Udp!UdpRecv(size), size \in Nat,
           method \in {"level", "epoll", "rdhup", "kqueue"}
    PROVE  UTypes' /\ UInv'
  <1>1. /\ UNCHANGED <<method, way, chain, handed, ready, uwreport, ucall, error, unet>>
        /\ UNCHANGED <<urreport, refused>> /\ urev.ready /\ ~refused
    BY DEF Udp!UdpRecv, Udp!senderVars
  <1>2. /\ queue \in Seq(Seq(Int)) /\ urev \in [ready : BOOLEAN, available : Nat]
    BY DEF UTypes
  <1>3. CASE queue # <<>>
    <2> DEFINE read == SubSeq(queue[1], 1, IF size < Len(queue[1]) THEN size ELSE Len(queue[1]))
               n == Len(read)
               before == Total(Waiting(queue))
               after == Total(Waiting(Tail(queue)))
    <2>1. queue' = Tail(queue) /\ urev' = Udp!EventAfter(n)
      BY <1>3 DEF Udp!UdpRecv
    <2>2. /\ Tail(queue) \in Seq(Seq(Int)) /\ Len(queue[1]) \in Nat
          /\ after = before - Len(queue[1]) /\ after \in Nat /\ before \in Nat
      BY <1>2, <1>3, WaitingRead
    <2>3. n \in Nat /\ n <= Len(queue[1])
      <3> DEFINE m == IF size < Len(queue[1]) THEN size ELSE Len(queue[1])
      <3>1. m \in 0..Len(queue[1]) BY <2>2
      <3>2. queue[1] \in Seq(Int)
        <4>1. Len(queue) \in Nat /\ Len(queue) # 0 BY <1>2, <1>3, EmptySeq, LenProperties
        <4>2. 1 \in 1..Len(queue) BY <4>1
        <4> QED BY <1>2, <4>2, ElementOfSeq
      <3> HIDE DEF m
      <3>3. Len(SubSeq(queue[1], 1, m)) = m BY <3>1, <3>2, TwoParts
      <3> QED BY <2>2, <3>1, <3>3 DEF m
    <2> HIDE DEF n, before, after
    <2>4. UTypes' /\ (Udp!BytesWaiting)' = after /\ Udp!BytesWaiting = before
      <3>1. urev' \in [ready : BOOLEAN, available : Nat]
        <4>1. urev.available \in Nat BY <1>2
        <4>2. ~(urev.available <= n) => urev.available - n \in Nat BY <2>3, <4>1
        <4> QED BY <1>2, <2>1, <4>2 DEF Udp!EventAfter
      <3>2. UTypes' BY <1>1, <2>1, <2>2, <3>1 DEF UTypes
      <3>3. (Udp!BytesWaiting = Total(Waiting(queue)))'
        <4>1. (UTypes => Udp!BytesWaiting = Total(Waiting(queue)))' BY WaitingIs, PTL
        <4> QED BY <3>2, <4>1
      <3>4. Udp!BytesWaiting = Total(Waiting(queue)) BY WaitingIs
      <3> QED BY <2>1, <3>2, <3>3, <3>4 DEF after, before
    <2>5. CASE method # "kqueue"
      <3>1. urev' = urev BY <2>1, <2>5 DEF Udp!EventAfter
      <3>2. queue # <<>> BY <1>3
      <3> QED BY <1>1, <2>4, <2>5, <3>1 DEF UInv
    <2>6. CASE method = "kqueue" /\ urev.available <= n
      <3>1. urev' = [ready |-> FALSE, available |-> 0] BY <2>1, <2>6 DEF Udp!EventAfter
      <3>2. ~urreport => after <= 0
        <4>1. ~urreport => before <= urev.available BY <1>1, <2>4, <2>6 DEF UInv
        <4>2. urev.available \in Nat BY <1>2
        <4> QED BY <2>2, <2>3, <2>6, <4>1, <4>2
      <3>3. ~urreport => after = 0 BY <2>2, <3>2
      <3> QED BY <1>1, <2>4, <2>6, <3>1, <3>2, <3>3 DEF UInv
    <2>7. CASE method = "kqueue" /\ ~(urev.available <= n)
      <3>1. urev'.ready = urev.ready /\ urev'.available = urev.available - n
        BY <1>2, <2>1, <2>7 DEF Udp!EventAfter
      <3>2. ~urreport => after <= urev.available - n
        <4>1. ~urreport => before <= urev.available BY <1>1, <2>4, <2>7 DEF UInv
        <4>2. urev.available \in Nat BY <1>2
        <4> QED BY <2>2, <2>3, <2>7, <4>1, <4>2
      <3> QED BY <1>1, <2>4, <2>7, <3>1, <3>2 DEF UInv
    <2> QED BY <2>4, <2>5, <2>6, <2>7
  <1>4. CASE queue = <<>>
    <2>1. queue' = queue /\ urev' = [urev EXCEPT !.ready = FALSE] BY <1>4 DEF Udp!UdpRecv
    <2>2. /\ urev' \in [ready : BOOLEAN, available : Nat] /\ urev'.available = urev.available
      BY <1>2, <2>1
    <2>3. UTypes' BY <1>1, <2>1, <2>2 DEF UTypes
    <2>4. (Udp!BytesWaiting)' = Udp!BytesWaiting BY <2>1 DEF Udp!BytesWaiting
    <2>5. Udp!BytesWaiting = 0
      <3>1. Len(Waiting(queue)) = 0
        <4>1. Len(Waiting(queue)) = Len(queue) BY <1>2, WaitingType
        <4> QED BY <1>4, <4>1
      <3>2. Len(Waiting(queue)) + 1 = 1 BY <3>1
      <3> QED BY <3>2, BeforeFirst, WaitingIs DEF Total
    <2>6. UInv' BY <1>1, <1>4, <2>1, <2>2, <2>4, <2>5 DEF UInv
    <2> QED BY <2>3, <2>6
  <1> QED BY <1>3, <1>4

LEMMA UdpStepKeeps ==
    ASSUME UTypes, UInv, Udp!Next, method \in {"level", "epoll", "rdhup", "kqueue"}
    PROVE  UTypes' /\ UInv'
  <1> DEFINE Kept == UTypes' /\ UInv'
  <1> SUFFICES Kept OBVIOUS
  <1>1. ASSUME queue' = queue PROVE (Udp!BytesWaiting)' = Udp!BytesWaiting
    BY <1>1 DEF Udp!BytesWaiting
  <1>2. ASSUME NEW limit \in DatagramLimits, Udp!SendmsgChain(limit) PROVE Kept
    <2>1. /\ UNCHANGED <<method, way, chain, handed, ready, uwreport, error, unet, queue>>
          /\ UNCHANGED <<urev, urreport, ugot, refused>> /\ way = "chain" /\ ~error
      BY <1>2 DEF Udp!SendmsgChain, Udp!readerVars
    <2>2. UTypes' BY <2>1 DEF UTypes
    <2>3. UInv' BY <1>1, <2>1 DEF UInv
    <2> QED BY <2>2, <2>3
  <1>3. CASE Udp!UdpSend BY <1>3, UdpSendKeeps
  <1>4. CASE Udp!Turn BY <1>4, TurnKeeps
  <1>5. CASE Udp!PollWrite
    <2>1. /\ UNCHANGED <<method, way, chain, handed, ucall, error, unet, queue>>
          /\ UNCHANGED <<urev, urreport, ugot, refused>> /\ ready' = TRUE /\ uwreport' = FALSE
      BY <1>5 DEF Udp!PollWrite, Udp!readerVars
    <2>2. UTypes' BY <2>1 DEF UTypes
    <2>3. UInv' BY <1>1, <2>1 DEF UInv
    <2> QED BY <2>2, <2>3
  <1>6. CASE Udp!Arrive
    <2>1. /\ UNCHANGED <<method, way, chain, handed, ready, uwreport, ucall, error>>
          /\ UNCHANGED <<urev, ugot, refused>> /\ urreport' = TRUE
      BY <1>6 DEF Udp!Arrive, Udp!senderVars
    <2>2. PICK i \in DOMAIN unet : queue' = Append(queue, unet[i]) /\ unet' = Udp!Without(unet, i)
      BY <1>6 DEF Udp!Arrive
    <2>3. unet' \in Seq(Seq(Int)) BY <2>2, WithoutOne, LenProperties DEF UTypes
    <2>4. queue' \in Seq(Seq(Int))
      <3>1. i \in 1..Len(unet) BY <2>2, LenProperties DEF UTypes
      <3>2. unet[i] \in Seq(Int) BY <3>1, ElementOfSeq DEF UTypes
      <3> QED BY <2>2, <3>2, AppendProperties DEF UTypes
    <2>5. UTypes' BY <2>1, <2>3, <2>4 DEF UTypes
    <2>6. UInv' BY <2>1 DEF UInv
    <2> QED BY <2>5, <2>6
  <1>7. CASE Udp!Lose
    <2>1. /\ UNCHANGED <<method, way, chain, handed, ready, uwreport, ucall, error, queue>>
          /\ UNCHANGED <<urev, urreport, ugot, refused>>
      BY <1>7 DEF Udp!Lose, Udp!senderVars, Udp!readerVars
    <2>2. unet' \in Seq(Seq(Int)) BY <1>7, WithoutOne, LenProperties DEF Udp!Lose, UTypes
    <2>3. UTypes' BY <2>1, <2>2 DEF UTypes
    <2>4. UInv' BY <1>1, <2>1 DEF UInv
    <2> QED BY <2>3, <2>4
  <1>8. CASE Udp!PollRead
    <2>1. /\ UNCHANGED <<method, way, chain, handed, ready, uwreport, ucall, error, unet, queue>>
          /\ UNCHANGED <<ugot, refused>> /\ urreport' = FALSE
          /\ urev' = [ready |-> TRUE,
                      available |-> IF method = "kqueue" THEN Udp!BytesWaiting ELSE 1]
      BY <1>8 DEF Udp!PollRead, Udp!senderVars
    <2>2. Udp!BytesWaiting \in Nat
      <3>1. Waiting(queue) \in Seq(SpanType) BY WaitingType DEF UTypes
      <3> QED BY <3>1, TotalType, WaitingIs
    <2>3. /\ urev' \in [ready : BOOLEAN, available : Nat] /\ urev'.ready
          /\ method = "kqueue" => urev'.available = Udp!BytesWaiting
      BY <2>1, <2>2
    <2>4. UTypes' BY <2>1, <2>3 DEF UTypes
    <2>5. UInv' BY <1>1, <2>1, <2>2, <2>3 DEF UInv
    <2> QED BY <2>4, <2>5
  <1>9. ASSUME NEW size \in DatagramSizes, Udp!UdpRecv(size) PROVE Kept
    <2>1. size \in Nat BY SocketsAssumption DEF Udp!DatagramAssumption
    <2> QED BY <1>9, <2>1, UdpRecvKeeps
  <1>10. CASE Udp!UdpRecvFails
    <2>1. /\ UNCHANGED <<method, way, chain, handed, ready, uwreport, ucall, error, unet, queue>>
          /\ UNCHANGED <<ugot, urreport>> /\ refused' = TRUE
          /\ urev' = [urev EXCEPT !.ready = FALSE]
      BY <1>10 DEF Udp!UdpRecvFails, Udp!senderVars
    <2>2. urev' \in [ready : BOOLEAN, available : Nat] BY <2>1 DEF UTypes
    <2>3. UTypes' BY <2>1, <2>2 DEF UTypes
    <2>4. UInv' BY <2>1 DEF UInv
    <2> QED BY <2>3, <2>4
  <1> HIDE DEF Kept
  <1> QED BY <1>2, <1>3, <1>4, <1>5, <1>6, <1>7, <1>8, <1>9, <1>10 DEF Udp!Next

LEMMA UdpInit == ASSUME SocketsInit PROVE UTypes /\ UInv
  <1>1. Udp!Init BY DEF SocketsInit
  <1>2. chain \in Seq(Part) /\ Sound(chain)
    <2>1. /\ chain \in Seq([kind : STRING, pos : Nat, last : Nat, ends : BOOLEAN])
          /\ Sound(chain)
      BY <1>1, SocketsAssumption DEF Udp!Init, Udp!DatagramAssumption, Sound
    <2>2. Len(chain) \in Nat /\ DOMAIN chain = 1..Len(chain) BY <2>1, LenProperties
    <2>3. ASSUME NEW i \in 1..Len(chain) PROVE chain[i] \in Part
      <3>1. chain[i] \in [kind : STRING, pos : Nat, last : Nat, ends : BOOLEAN]
        BY <2>1, ElementOfSeq
      <3> QED BY <3>1 DEF Part
    <2>4. chain = [i \in 1..Len(chain) |-> chain[i]] BY <2>1, <2>2
    <2>5. chain \in [1..Len(chain) -> Part] BY <2>3, <2>4
    <2> QED BY <2>1, <2>2, <2>5, FunctionIsSeq
  <1>3. UTypes
    <2>1. unet \in Seq(Seq(Int)) /\ queue \in Seq(Seq(Int)) BY <1>1 DEF Udp!Init
    <2> QED BY <1>1, <1>2, <2>1 DEF Udp!Init, UTypes
  <1>4. Udp!BytesWaiting = 0
    <2>1. queue = <<>> /\ queue \in Seq(Seq(Int)) BY <1>1 DEF Udp!Init
    <2>2. Len(Waiting(queue)) = Len(queue) BY <2>1, WaitingType
    <2>3. Len(Waiting(queue)) + 1 = 1 BY <2>1, <2>2
    <2> QED BY <1>3, <2>3, BeforeFirst, WaitingIs DEF Total
  <1>5. UInv BY <1>1, <1>4 DEF Udp!Init, Udp!Idle, UInv
  <1> QED BY <1>3, <1>5

LEMMA UdpAlone ==
    ASSUME UTypes, UInv, method' = method, UNCHANGED udpVars
    PROVE  UTypes' /\ UInv'
  <1>1. (Udp!BytesWaiting)' = Udp!BytesWaiting BY DEF Udp!BytesWaiting, udpVars
  <1>2. UTypes' BY DEF UTypes, udpVars
  <1>3. UInv' BY <1>1 DEF UInv, udpVars
  <1> QED BY <1>2, <1>3

LEMMA StreamMethodStays == ASSUME Next PROVE method' = method
  BY DEF Next, SenderStep, ReaderStep, WritevChain, Send, WritevGather, Writev, WritevFails,
         CloseSender, Arrive, ArriveFin, Reset, PollWrite, PollRead, Recv, ReadvChain,
         ReadvReturns

\* Neither side of the datagram socket waits for an event that never comes
\* (hky_udp_unix_sendmsg_chain, hky_udp_unix_send, hky_udp_unix_recv): what the
\* event of the reader counts is never less than what waits to be read.
THEOREM NoDatagramForgotten == SocketsSpec => []NoDatagramStuck
  <1> DEFINE Inv == IInv /\ UTypes /\ UInv
  <1>1. SocketsInit => Inv BY InitIsSound, UdpInit
  <1>2. Inv /\ [SocketsNext]_socketsVars => Inv'
    <2> SUFFICES ASSUME Inv, [SocketsNext]_socketsVars PROVE Inv'
      OBVIOUS
    <2>1. IInv' BY StepIsSound
    <2>2. method \in {"level", "epoll", "rdhup", "kqueue"} BY DEF IInv, SInv, ReadTypes
    <2>3. CASE Next /\ UNCHANGED udpVars
      BY <2>1, <2>3, StreamMethodStays, UdpAlone
    <2>4. CASE Udp!Next BY <2>1, <2>2, <2>4, UdpStepKeeps
    <2>5. CASE UNCHANGED socketsVars
      <3>1. method' = method /\ UNCHANGED udpVars BY <2>5 DEF socketsVars, vars
      <3> QED BY <2>1, <3>1, UdpAlone
    <2> QED BY <2>3, <2>4, <2>5 DEF SocketsNext
  <1>3. Inv => NoDatagramStuck
    <2> SUFFICES ASSUME Inv PROVE NoDatagramStuck OBVIOUS
    <2>1. ~ready /\ ~error => uwreport \/ method = "level" BY DEF UInv
    <2>2. ASSUME ~urev.ready, ~refused, NEW i \in DOMAIN queue, queue[i] # <<>>,
                 ~urreport, method # "level"
          PROVE  FALSE
      <3>1. queue # <<>> BY <2>2
      <3>2. method = "kqueue" BY <2>2, <3>1 DEF UInv, IInv, SInv, ReadTypes
      <3>3. Total(Waiting(queue)) = 0 BY <2>2, <3>2, WaitingIs DEF UInv
      <3> QED BY <2>2, <3>3, NothingWaits DEF UTypes
    <2> QED BY <2>1, <2>2 DEF NoDatagramStuck
  <1> QED BY <1>1, <1>2, <1>3, PTL DEF SocketsSpec, socketsVars

-----------------------------------------------------------------------------
(* The messages: cut as they were, and handed over one after the other.     *)

\* What remains of a chain is cut where the chain was.
LEMMA CutsOfRest ==
    ASSUME NEW c \in Seq(Part), NEW n \in Nat, NEW rest \in Seq(Part), Remains(c, n, rest)
    PROVE  Udp!Cuts(rest) = {m - n : m \in {m \in Udp!Cuts(c) : m > n}}
  <1> DEFINE s == Sources(c)
             t == Sources(rest)
             Behind == {m \in Udp!Cuts(c) : m > n}
  <1>1. /\ s \in Seq(SpanType) /\ Len(s) = Len(c) /\ Len(c) \in Nat /\ DOMAIN c = 1..Len(c)
        /\ t \in Seq(SpanType) /\ Len(t) = Len(rest) /\ Len(rest) \in Nat
        /\ DOMAIN rest = 1..Len(rest)
    BY PartIsBuffer, SourcesType, LenProperties
  <1>2. /\ Udp!Cuts(c) = {Before(s, i + 1) : i \in EndsOf(c)} \ {0}
        /\ EndsOf(c) \subseteq 1..Len(c)
        /\ Udp!Cuts(c) \subseteq 1..Total(s)
        /\ \A i \in EndsOf(c) : Before(s, i + 1) \in Nat
    BY CutsAre
  <1>3. /\ Udp!Cuts(rest) = {Before(t, i + 1) : i \in EndsOf(rest)} \ {0}
        /\ EndsOf(rest) \subseteq 1..Len(rest)
        /\ \A i \in EndsOf(rest) : Before(t, i + 1) \in Nat
    BY CutsAre
  <1> HIDE DEF s, t
  <1>4. CASE rest = <<>> /\ n = Total(s)
    <2>1. EndsOf(rest) = {} BY <1>3, <1>4
    <2>2. Udp!Cuts(rest) = {} BY <1>3, <2>1
    <2>3. Behind = {}
      <3>1. Total(s) \in Nat BY <1>1, TotalType
      <3> QED BY <1>2, <1>4, <3>1
    <2> QED BY <2>2, <2>3
  <1>5. ASSUME NEW i \in 1..Len(c), NEW p \in Int, Drops(s, i, n, t), Len(rest) = Len(c) - i + 1,
               rest[1] = [c[i] EXCEPT !.pos = p],
               \A j \in 2..Len(rest) : rest[j] = c[j + i - 1]
        PROVE  Udp!Cuts(rest) = {m - n : m \in Behind}
    <2>1. \A j \in 1..Len(rest) : j + i - 1 \in 1..Len(c) /\ rest[j].ends = c[j + i - 1].ends
      <3> SUFFICES ASSUME NEW j \in 1..Len(rest)
                   PROVE  j + i - 1 \in 1..Len(c) /\ rest[j].ends = c[j + i - 1].ends
        OBVIOUS
      <3>1. j + i - 1 \in 1..Len(c) BY <1>1, <1>5
      <3>2. CASE j = 1
        <4>1. c[i] \in Part BY <1>1, <1>5, ElementOfSeq
        <4>2. rest[1].ends = c[i].ends BY <1>5, <4>1 DEF Part
        <4>3. j + i - 1 = i BY <1>5, <3>2
        <4> QED BY <3>1, <3>2, <4>2, <4>3
      <3>3. CASE j # 1
        <4>1. j \in 2..Len(rest) BY <1>1, <3>3
        <4> QED BY <1>5, <3>1, <4>1
      <3> QED BY <3>2, <3>3
    <2>2. \A j \in 2..(Len(t) + 1) : Before(t, j) = Before(s, j + i - 1) - n
      BY <1>1, <1>5, DroppedBefore
    <2>3. Before(s, i) <= n BY <1>5 DEF Drops
    <2>4. ASSUME NEW j \in EndsOf(rest)
          PROVE  j + i - 1 \in EndsOf(c) /\ Before(t, j + 1) = Before(s, (j + i - 1) + 1) - n
      <3>1. j \in 1..Len(rest) /\ j + 1 \in 2..(Len(t) + 1) /\ (j + 1) + i - 1 = (j + i - 1) + 1
        <4>1. j \in 1..Len(rest) BY <1>3
        <4>2. j \in Int /\ i \in Int BY <1>1, <1>5, <4>1
        <4> QED BY ONLY <1>1, <4>1, <4>2
      <3>2. j + i - 1 \in EndsOf(c) BY <1>1, <2>1, <3>1 DEF EndsOf
      <3> QED BY <2>2, <3>1, <3>2
    <2>5. ASSUME NEW m \in Udp!Cuts(rest) PROVE m + n \in Behind
      <3>1. PICK j \in EndsOf(rest) : m = Before(t, j + 1) /\ m # 0 BY <1>3
      <3>2. m \in Nat /\ j + i - 1 \in EndsOf(c) BY <1>3, <2>4, <3>1
      <3>3. m + n = Before(s, (j + i - 1) + 1)
        <4>1. Before(s, (j + i - 1) + 1) \in Nat BY <1>2, <3>2
        <4> QED BY <2>4, <3>1, <3>2, <4>1
      <3> QED BY <1>2, <3>1, <3>2, <3>3
    <2>6. ASSUME NEW m \in Behind PROVE m - n \in Udp!Cuts(rest)
      <3>1. PICK k \in EndsOf(c) : m = Before(s, k + 1) BY <1>2
      <3>2. m \in Nat /\ m > n /\ k \in 1..Len(c) BY <1>2, <3>1
      <3>3. k >= i
        <4> SUFFICES ASSUME k + 1 <= i PROVE FALSE BY <3>2
        <4>1. k + 1 \in 1..(Len(s) + 1) /\ i \in 1..(Len(s) + 1) BY <1>1, <3>2
        <4>2. Before(s, k + 1) <= Before(s, i) /\ Before(s, i) \in Nat
          BY <1>1, <4>1, BeforeGrows, BeforeType
        <4> QED BY <2>3, <3>1, <3>2, <4>2
      <3> DEFINE j == k - i + 1
      <3>4. j \in 1..Len(rest) /\ j + i - 1 = k BY <1>1, <1>5, <3>2, <3>3
      <3> HIDE DEF j
      <3>5. j \in EndsOf(rest) BY <1>1, <2>1, <3>1, <3>4 DEF EndsOf
      <3>6. Before(t, j + 1) = m - n BY <2>4, <3>1, <3>4, <3>5
      <3> QED BY <1>3, <3>2, <3>5, <3>6
    <2>7. \A m \in Udp!Cuts(rest) : m \in Nat /\ (m + n) - n = m BY <1>3
    <2> HIDE DEF Behind
    <2> QED BY <2>5, <2>6, <2>7
  <1> QED BY <1>4, <1>5 DEF Remains, s, t

\* A chain without its first buffer.
LEMMA TailRemains ==
    ASSUME NEW c \in Seq(Part), c # <<>>
    PROVE  LET n == Before(Sources(c), 2) IN
           /\ n \in Nat /\ Tail(c) \in Seq(Part)
           /\ Remains(c, n, Tail(c))
           /\ Content(Tail(c)) = SubSeq(Content(c), n + 1, Len(Content(c)))
  <1> DEFINE s == Sources(c)
             rest == Tail(c)
             t == Sources(rest)
             n == Before(s, 2)
  <1>1. /\ Len(c) \in Nat /\ Len(c) >= 1 /\ rest \in Seq(Part) /\ Len(rest) = Len(c) - 1
        /\ \A j \in 1..Len(rest) : rest[j] = c[j + 1]
    BY EmptySeq, HeadTailProperties, LenProperties
  <1> HIDE DEF rest
  <1>2. /\ s \in Seq(SpanType) /\ Len(s) = Len(c)
        /\ \A k \in 1..Len(c) :
             s[k] = IF c[k].kind = "memory" THEN [first |-> c[k].pos, end |-> c[k].last]
                    ELSE [first |-> 0, end |-> 0]
        /\ Content(c) = Bytes(s) /\ Len(Content(c)) = Total(s) /\ Total(s) \in Nat
    BY PartIsBuffer, SourcesType, ContentType, TotalType DEF Content
  <1>3. /\ t \in Seq(SpanType) /\ Len(t) = Len(rest)
        /\ \A k \in 1..Len(rest) :
             t[k] = IF rest[k].kind = "memory" THEN [first |-> rest[k].pos, end |-> rest[k].last]
                    ELSE [first |-> 0, end |-> 0]
        /\ Content(rest) = Bytes(t)
    BY <1>1, PartIsBuffer, SourcesType DEF Content
  <1> HIDE DEF s, t
  <1>4. ASSUME NEW j \in 1..Len(rest) PROVE t[j] = s[j + 1]
    <2>1. j + 1 \in 1..Len(c) /\ rest[j] = c[j + 1] BY <1>1
    <2>2. s[j + 1] = IF c[j + 1].kind = "memory"
                     THEN [first |-> c[j + 1].pos, end |-> c[j + 1].last]
                     ELSE [first |-> 0, end |-> 0]
      BY <1>2, <2>1
    <2>3. t[j] = IF rest[j].kind = "memory" THEN [first |-> rest[j].pos, end |-> rest[j].last]
                 ELSE [first |-> 0, end |-> 0]
      BY <1>3
    <2> QED BY <2>1, <2>2, <2>3
  <1>5. n \in Nat /\ 1 \in 1..Len(s)
    <2>1. 2 \in 1..(Len(s) + 1) /\ 1 \in 1..Len(s) BY <1>1, <1>2
    <2> QED BY <1>2, <2>1, BeforeType
  <1>6. CASE Len(c) = 1
    <2>1. rest = <<>> BY <1>1, <1>6, EmptySeq
    <2>2. n = Total(s) BY <1>2, <1>6 DEF Total
    <2>3. Bytes(t) = <<>>
      <3>1. Len(t) + 1 = 1 BY <1>1, <1>3, <1>6
      <3>2. Total(t) = 0 BY <3>1, BeforeFirst DEF Total
      <3>3. Bytes(t) \in Seq(Int) /\ Len(Bytes(t)) = 0 BY <1>3, <3>2, BytesType
      <3> QED BY <3>3, EmptySeq
    <2>4. SubSeq(Content(c), n + 1, Len(Content(c))) = <<>> BY <1>2, <2>2, SubSeqEmpty
    <2>5. Remains(c, n, rest) BY <2>1, <2>2 DEF Remains, s
    <2> HIDE DEF n
    <2> QED BY <1>1, <1>3, <1>5, <2>3, <2>4, <2>5 DEF rest, n, s
  <1>7. CASE Len(c) # 1
    <2>1. 2 \in 1..Len(c) /\ 1 \in 1..Len(rest) /\ Len(rest) = Len(c) - 2 + 1
      BY <1>1, <1>7
    <2>2. Drops(s, 2, n, t)
      <3>1. Before(s, 2 + 1) = n + Size(s[2]) BY <1>2, <2>1, BeforeNext
      <3>2. t[1] = s[2] BY <1>4, <2>1
      <3>3. s[2].first \in Int /\ s[2].end \in Int
        <4>1. s[2] \in SpanType BY <1>2, <2>1, ElementOfSeq
        <4> QED BY <4>1 DEF SpanType
      <3>4. Size(s[2]) \in Nat BY <3>3 DEF Size
      <3>5. \A j \in 2..Len(t) : t[j] = s[j + 2 - 1] BY <1>1, <1>3, <1>4
      <3> DEFINE z == Size(s[2])
                 y == Before(s, 2 + 1)
      <3>6. y - n = z /\ n <= y
        <4> HIDE DEF n, z, y
        <4> QED BY <1>5, <3>1, <3>4 DEF z, y
      <3>7. Size(t[1]) = y - n /\ t[1].first = s[2].first + (n - n)
        BY <1>5, <3>2, <3>3, <3>6
      <3> HIDE DEF y, z
      <3> QED BY <1>2, <1>3, <1>5, <2>1, <3>5, <3>6, <3>7 DEF Drops, y
    <2>3. rest[1] = [c[2] EXCEPT !.pos = c[2].pos] /\ c[2].pos \in Int
      <3>1. rest[1] = c[2] /\ c[2] \in Part BY <1>1, <2>1, ElementOfSeq
      <3> QED BY <3>1 DEF Part
    <2>4. \A j \in 2..Len(rest) : rest[j] = c[j + 2 - 1] BY <1>1
    <2> HIDE DEF n
    <2>5. Remains(c, n, rest) BY <2>1, <2>2, <2>3, <2>4 DEF Remains, s, t
    <2>6. Bytes(t) = SubSeq(Bytes(s), n + 1, Total(s)) BY <1>2, <1>3, <2>2, DroppedBytes
    <2> QED BY <1>1, <1>2, <1>3, <1>5, <2>5, <2>6 DEF rest, n, s
  <1> QED BY <1>6, <1>7 DEF rest, n, s

\* Of a text of bytes that is cut into messages the datagrams in h were handed
\* over, and "rest" is left, cut at "left".
Whole(bytes, cuts, h, rest, left) ==
    LET written == Total(Waiting(h))
    IN  /\ bytes \in Seq(Int) /\ cuts \subseteq Nat \ {0} /\ h \in Seq(Seq(Int))
        /\ written <= Len(bytes)
        /\ \A i \in 1..Len(h) :
              h[i] = SubSeq(bytes, Before(Waiting(h), i) + 1, Before(Waiting(h), i + 1))
        /\ {Before(Waiting(h), i + 1) : i \in 1..Len(h)} \ {0} = {c \in cuts : c <= written}
        /\ rest = SubSeq(bytes, written + 1, Len(bytes))
        /\ left = {c - written : c \in {m \in cuts : m > written}}

\* The cuts behind the first n bytes, counted from there.
CutsBehind(cuts, n) == {m - n : m \in {m \in cuts : m > n}}

LEMMA HandOver ==
    ASSUME NEW bytes, NEW cuts, NEW h, NEW rest, NEW left, Whole(bytes, cuts, h, rest, left),
           NEW b \in Seq(Int), Len(b) <= Len(rest), b = SubSeq(rest, 1, Len(b)),
           Len(b) = 0 \/ Len(b) \in left, \A m \in left : Len(b) <= m
    PROVE  Whole(bytes, cuts, Append(h, b), SubSeq(rest, Len(b) + 1, Len(rest)),
                 CutsBehind(left, Len(b)))
  <1> DEFINE n == Len(b)
             L == Len(h)
             g == Append(h, b)
             w == Total(Waiting(h))
             s == Waiting(h)
             t == Waiting(g)
  <1>1. /\ bytes \in Seq(Int) /\ cuts \subseteq Nat \ {0} /\ h \in Seq(Seq(Int))
        /\ w <= Len(bytes)
        /\ \A i \in 1..L : h[i] = SubSeq(bytes, Before(s, i) + 1, Before(s, i + 1))
        /\ {Before(s, i + 1) : i \in 1..L} \ {0} = {c \in cuts : c <= w}
        /\ rest = SubSeq(bytes, w + 1, Len(bytes))
        /\ left = {c - w : c \in {m \in cuts : m > w}}
    BY Zenon DEF Whole
  <1>2. /\ g \in Seq(Seq(Int)) /\ Len(g) = L + 1 /\ L \in Nat /\ n \in Nat
        /\ \A i \in 1..L : g[i] = h[i]
        /\ g[L + 1] = b
    BY <1>1, AppendProperties, LenProperties
  <1> HIDE DEF g
  <1>3. /\ s \in Seq(SpanType) /\ Len(s) = L /\ t \in Seq(SpanType) /\ Len(t) = L + 1
        /\ Size(t[L + 1]) = n
        /\ w \in Nat /\ Len(bytes) \in Nat
    <2>1. L + 1 \in 1..Len(g) BY <1>2
    <2> QED BY <1>1, <1>2, <2>1, WaitingType, TotalType, LenProperties
  <1>4. \A i \in 1..L : s[i] = t[i]
    <2>1. DOMAIN h = 1..L /\ DOMAIN g = 1..(L + 1) BY <1>1, <1>2, LenProperties
    <2> QED BY <1>2, <2>1 DEF Waiting
  <1>5. /\ \A i \in 1..(L + 1) : Before(s, i) = Before(t, i)
        /\ w = Before(t, L + 1) /\ w = Before(s, L + 1)
    <2>1. Len(s) <= Len(t) /\ \A i \in 1..Len(s) : s[i] = t[i] BY <1>2, <1>3, <1>4
    <2> QED BY <1>2, <1>3, <2>1, StartOfBytes DEF Total
  <1> HIDE DEF s, t, w, n, L
  <1>6. Total(t) = w + n /\ Before(t, L + 2) = w + n
    <2>1. L + 1 \in 1..Len(t) /\ (L + 1) + 1 = L + 2 /\ Len(t) + 1 = L + 2
      <3>1. L \in Nat /\ Len(t) = L + 1 BY <1>2, <1>3
      <3> QED BY ONLY <3>1
    <2>2. Before(t, (L + 1) + 1) = Before(t, L + 1) + Size(t[L + 1]) BY <1>3, <2>1, BeforeNext
    <2> QED BY <1>3, <1>5, <2>1, <2>2 DEF Total
  <1> DEFINE len == Len(bytes)
  <1>7. /\ Len(rest) = len - w /\ w + n \in 0..len
        /\ SubSeq(rest, n + 1, Len(rest)) = SubSeq(bytes, w + n + 1, len)
    <2>1. w \in 0..len /\ n <= Len(rest) BY <1>1, <1>3 DEF n
    <2>2. Continued(bytes, w, rest, n) BY <1>1, <1>2, <2>1, TakenFromRest
    <2> QED BY <2>2 DEF Continued
  <1>8. b = SubSeq(bytes, w + 1, w + n)
    <2>1. /\ w + 1 \in 1..(len + 1) /\ len \in 0..len /\ w + 1 <= len + 1
          /\ 1 \in Nat /\ 1 <= 1 /\ 1 <= n + 1 /\ n <= len - (w + 1) + 1
          /\ (w + 1) + 1 - 1 = w + 1 /\ (w + 1) + n - 1 = w + n
      BY <1>1, <1>2, <1>3, <1>7
    <2>2. SubSeq(SubSeq(bytes, w + 1, len), 1, n)
            = SubSeq(bytes, (w + 1) + 1 - 1, (w + 1) + n - 1)
      <3>1. bytes \in Seq(Int) /\ n \in Nat BY <1>1, <1>2
      <3> QED BY ONLY <2>1, <3>1, PartOfPart, Zenon
    <2>3. b = SubSeq(SubSeq(bytes, w + 1, len), 1, n) BY <1>1 DEF n
    <2> QED BY <2>1, <2>2, <2>3
  <1>9. \A i \in 1..Len(g) : g[i] = SubSeq(bytes, Before(t, i) + 1, Before(t, i + 1))
    <2> SUFFICES ASSUME NEW i \in 1..Len(g)
                 PROVE  g[i] = SubSeq(bytes, Before(t, i) + 1, Before(t, i + 1))
      OBVIOUS
    <2>1. CASE i = L + 1
      <3>1. i + 1 = L + 2 BY <1>2, <2>1
      <3>2. Before(t, i) = w /\ Before(t, i + 1) = w + n BY <1>5, <1>6, <2>1, <3>1
      <3>3. g[i] = b BY <1>2, <2>1
      <3> QED BY <1>8, <3>2, <3>3
    <2>2. CASE i # L + 1
      <3>1. i \in 1..L /\ i \in 1..(L + 1) /\ i + 1 \in 1..(L + 1) BY <1>2, <2>2
      <3>2. Before(t, i) = Before(s, i) /\ Before(t, i + 1) = Before(s, i + 1) BY <1>5, <3>1
      <3> QED BY <1>1, <1>2, <3>1, <3>2
    <2> QED BY <2>1, <2>2
  <1>10. {Before(t, i + 1) : i \in 1..Len(g)} = {Before(s, i + 1) : i \in 1..L} \cup {w + n}
    <2>1. ASSUME NEW i \in 1..Len(g)
          PROVE  Before(t, i + 1) \in {Before(s, k + 1) : k \in 1..L} \cup {w + n}
      <3>1. CASE i = L + 1
        <4>1. i + 1 = L + 2 BY <1>2, <3>1
        <4> QED BY <1>6, <4>1
      <3>2. CASE i # L + 1
        <4>1. i \in 1..L /\ i + 1 \in 1..(L + 1) BY <1>2, <3>2
        <4> QED BY <1>5, <4>1
      <3> QED BY <3>1, <3>2
    <2>2. ASSUME NEW i \in 1..L PROVE Before(s, i + 1) \in {Before(t, k + 1) : k \in 1..Len(g)}
      <3>1. i \in 1..Len(g) /\ i + 1 \in 1..(L + 1) BY <1>2
      <3> QED BY <1>5, <3>1
    <2>3. w + n \in {Before(t, k + 1) : k \in 1..Len(g)}
      <3>1. L + 1 \in 1..Len(g) /\ (L + 1) + 1 = L + 2 BY <1>2
      <3> QED BY <1>6, <3>1
    <2> QED BY <2>1, <2>2, <2>3
  <1> DEFINE Old == {Before(s, i + 1) : i \in 1..L}
  <1>11. w \in Old \/ w = 0
    <2>1. CASE L = 0
      <3>1. w = Before(s, 1) BY <1>5, <2>1
      <3> QED BY <3>1, BeforeFirst
    <2>2. CASE L # 0
      <3>1. L \in 1..L BY <1>2, <2>2
      <3> QED BY <1>5, <3>1
    <2> QED BY <2>1, <2>2
  <1> HIDE DEF Old, len
  <1>12. (Old \cup {w + n}) \ {0} = {c \in cuts : c <= w + n}
    <2>1. Old \ {0} = {c \in cuts : c <= w} BY <1>1 DEF Old
    <2>2. ASSUME NEW c \in cuts, c <= w + n PROVE c \in (Old \cup {w + n}) \ {0}
      <3>1. c \in Nat \ {0} BY <1>1
      <3>2. CASE c <= w BY <2>1, <2>2, <3>2
      <3>3. CASE c > w
        <4>1. c - w \in left BY <1>1, <3>3
        <4>2. n <= c - w BY <4>1 DEF n
        <4>3. c = w + n BY <1>2, <1>3, <2>2, <3>1, <4>2
        <4> QED BY <3>1, <4>3
      <3> QED BY <1>3, <3>1, <3>2, <3>3
    <2>3. ASSUME NEW c \in Old, c # 0 PROVE c \in cuts /\ c <= w + n
      <3>1. c \in cuts /\ c <= w BY <2>1, <2>3
      <3> QED BY <1>1, <1>2, <1>3, <3>1
    <2>4. ASSUME w + n # 0 PROVE w + n \in cuts
      <3>1. CASE n = 0
        <4>1. w + n = w /\ w # 0 BY <1>3, <2>4, <3>1
        <4> QED BY <1>11, <2>1, <4>1
      <3>2. CASE n \in left
        <4>1. PICK c \in cuts : n = c - w BY <1>1, <3>2
        <4>2. c \in Nat BY <1>1
        <4>3. c = w + n BY <1>2, <1>3, <4>1, <4>2
        <4> QED BY <4>3
      <3> QED BY <3>1, <3>2 DEF n
    <2>5. w + n <= w + n BY <1>2, <1>3
    <2> QED BY <2>2, <2>3, <2>4, <2>5
  <1>13. {m - n : m \in {m \in left : m > n}}
           = {c - (w + n) : c \in {m \in cuts : m > w + n}}
    <2>1. ASSUME NEW m \in left, m > n
          PROVE  \E c \in cuts : c > w + n /\ m - n = c - (w + n)
      <3>1. PICK c \in cuts : c > w /\ m = c - w BY <1>1
      <3>2. c \in Nat BY <1>1
      <3>3. c > w + n /\ m - n = c - (w + n) BY <1>2, <1>3, <2>1, <3>1, <3>2
      <3> QED BY <3>3
    <2>2. ASSUME NEW c \in cuts, c > w + n
          PROVE  c - w \in left /\ c - w > n /\ (c - w) - n = c - (w + n)
      <3>1. c \in Nat BY <1>1
      <3>2. c > w /\ c - w > n /\ (c - w) - n = c - (w + n) BY <1>2, <1>3, <2>2, <3>1
      <3> QED BY <1>1, <3>2
    <2> QED BY <2>1, <2>2
  <1>14. Total(t) <= Len(bytes) BY <1>6, <1>7 DEF len
  <1>15. {Before(t, i + 1) : i \in 1..Len(g)} \ {0} = {c \in cuts : c <= Total(t)}
    BY <1>6, <1>10, <1>12 DEF Old
  <1>16. /\ SubSeq(rest, n + 1, Len(rest)) = SubSeq(bytes, Total(t) + 1, Len(bytes))
         /\ {m - n : m \in {m \in left : m > n}}
              = {c - Total(t) : c \in {m \in cuts : m > Total(t)}}
    BY <1>6, <1>7, <1>13 DEF len
  <1>17. Whole(bytes, cuts, g, SubSeq(rest, n + 1, Len(rest)),
               {m - n : m \in {m \in left : m > n}})
    BY <1>1, <1>2, <1>9, <1>14, <1>15, <1>16, Zenon DEF Whole, t
  <1> QED BY <1>17 DEF g, n, CutsBehind

-----------------------------------------------------------------------------
(* Each datagram under way, waiting or read is one that was handed over.     *)

Distinct(f) == \A i, j \in DOMAIN f : f[i] = f[j] => i = j
Apart(f, g) == \A i \in DOMAIN f : \A j \in DOMAIN g : f[i] # g[j]

\* From which of the datagrams in h those in a and b and the starts in c are:
\* no two of them from one.
Traces(h, a, b, c, f, g, k) ==
    /\ f \in [1..Len(a) -> 1..Len(h)] /\ g \in [1..Len(b) -> 1..Len(h)]
    /\ k \in [1..Len(c) -> 1..Len(h)]
    /\ Distinct(f) /\ Distinct(g) /\ Distinct(k)
    /\ Apart(f, g) /\ Apart(f, k) /\ Apart(g, k)
    /\ \A i \in 1..Len(a) : a[i] = h[f[i]]
    /\ \A i \in 1..Len(b) : b[i] = h[g[i]]
    /\ \A i \in 1..Len(c) : IsPrefix(c[i], h[k[i]])

Traced(h, a, b, c) ==
    /\ h \in Seq(Seq(Int)) /\ a \in Seq(Seq(Int)) /\ b \in Seq(Seq(Int)) /\ c \in Seq(Seq(Int))
    /\ \E f, g, k : Traces(h, a, b, c, f, g, k)

LEMMA TracedHanded ==
    ASSUME NEW h, NEW a, NEW b, NEW c, Traced(h, a, b, c), NEW x \in Seq(Int)
    PROVE  Traced(Append(h, x), Append(a, x), b, c)
  <1> DEFINE H == Append(h, x)
             A == Append(a, x)
             m == Len(a)
             n == Len(h)
  <1>1. PICK f, g, k : Traces(h, a, b, c, f, g, k) BY DEF Traced
  <1>2. /\ h \in Seq(Seq(Int)) /\ a \in Seq(Seq(Int)) /\ b \in Seq(Seq(Int))
        /\ c \in Seq(Seq(Int))
    BY DEF Traced
  <1>3. /\ H \in Seq(Seq(Int)) /\ Len(H) = n + 1 /\ n \in Nat /\ H[n + 1] = x
        /\ \A i \in 1..n : H[i] = h[i]
        /\ A \in Seq(Seq(Int)) /\ Len(A) = m + 1 /\ m \in Nat /\ A[m + 1] = x
        /\ \A i \in 1..m : A[i] = a[i]
    BY <1>2, AppendProperties, LenProperties
  <1> HIDE DEF H, A
  <1> DEFINE F == [i \in 1..(m + 1) |-> IF i = m + 1 THEN n + 1 ELSE f[i]]
  <1>4. /\ f \in [1..m -> 1..n] /\ g \in [1..Len(b) -> 1..n] /\ k \in [1..Len(c) -> 1..n]
        /\ Distinct(f) /\ Distinct(g) /\ Distinct(k)
        /\ Apart(f, g) /\ Apart(f, k) /\ Apart(g, k)
        /\ \A i \in 1..m : a[i] = h[f[i]]
        /\ \A i \in 1..Len(b) : b[i] = h[g[i]]
        /\ \A i \in 1..Len(c) : IsPrefix(c[i], h[k[i]])
    BY <1>1 DEF Traces
  <1> HIDE DEF m, n
  <1>5. \A i \in 1..m : F[i] = f[i] /\ f[i] \in 1..n /\ i \in 1..(m + 1) BY <1>3, <1>4
  <1>6. F[m + 1] = n + 1 /\ DOMAIN F = 1..(m + 1) BY <1>3
  <1>7. \A i \in 1..(m + 1) : i = m + 1 \/ i \in 1..m BY <1>3
  <1>8. F \in [1..(m + 1) -> 1..(n + 1)]
    <2>1. \A i \in 1..(m + 1) : (IF i = m + 1 THEN n + 1 ELSE f[i]) \in 1..(n + 1)
      <3>1. \A i \in 1..m : f[i] \in 1..n BY <1>5
      <3>2. m \in Nat /\ n \in Nat BY <1>3
      <3> QED BY ONLY <1>7, <3>1, <3>2
    <2> QED BY ONLY <2>1
  <1> HIDE DEF F
  <1>9. Distinct(F)
    <2> SUFFICES ASSUME NEW i \in 1..(m + 1), NEW j \in 1..(m + 1), F[i] = F[j] PROVE i = j
      BY <1>6 DEF Distinct
    <2>1. DOMAIN f = 1..m BY <1>4
    <2> QED BY <1>3, <1>4, <1>5, <1>6, <1>7, <2>1, SMTT(30) DEF Distinct
  <1>10. ASSUME NEW S, NEW z \in [S -> 1..n], Apart(f, z) PROVE Apart(F, z)
    <2> SUFFICES ASSUME NEW i \in 1..(m + 1), NEW j \in S PROVE F[i] # z[j]
      BY <1>6 DEF Apart
    <2>1. z[j] \in 1..n OBVIOUS
    <2>2. CASE i = m + 1 BY <1>3, <1>6, <2>1, <2>2
    <2>3. CASE i \in 1..m
      <3>1. DOMAIN f = 1..m /\ DOMAIN z = S BY <1>4
      <3> QED BY <1>5, <1>10, <2>3, <3>1 DEF Apart
    <2> QED BY <1>7, <2>2, <2>3
  <1>11. Apart(F, g) /\ Apart(F, k) BY <1>4, <1>10
  <1>12. ASSUME NEW i \in 1..(m + 1) PROVE A[i] = H[F[i]]
    <2>1. CASE i = m + 1 BY <1>3, <1>6, <2>1
    <2>2. CASE i \in 1..m
      <3>1. F[i] = f[i] /\ f[i] \in 1..n BY <1>5, <2>2
      <3>2. A[i] = a[i] /\ H[f[i]] = h[f[i]] BY <1>3, <2>2, <3>1
      <3>3. a[i] = h[f[i]] BY <1>4, <2>2
      <3> QED BY ONLY <3>1, <3>2, <3>3
    <2> QED BY <1>7, <2>1, <2>2
  <1>13. /\ g \in [1..Len(b) -> 1..(n + 1)] /\ k \in [1..Len(c) -> 1..(n + 1)]
         /\ \A i \in 1..Len(b) : b[i] = H[g[i]]
         /\ \A i \in 1..Len(c) : IsPrefix(c[i], H[k[i]])
    <2>1. 1..n \subseteq 1..(n + 1) BY <1>3
    <2>2. /\ g \in [1..Len(b) -> 1..(n + 1)] /\ k \in [1..Len(c) -> 1..(n + 1)]
          /\ \A i \in 1..Len(b) : g[i] \in 1..n
          /\ \A i \in 1..Len(c) : k[i] \in 1..n
      BY <1>4, <2>1
    <2> QED BY <1>3, <1>4, <2>2
  <1>14. Traces(H, A, b, c, F, g, k)
    BY <1>3, <1>4, <1>8, <1>9, <1>11, <1>12, <1>13 DEF Traces
  <1> QED BY <1>2, <1>3, <1>14 DEF Traced, H, A

\* The same with the i-th of a away, and that from which it came with it.
TracesWithout(h, a, i, b, c, f, g, k) ==
    \E F : /\ Traces(h, Udp!Without(a, i), b, c, F, g, k)
           /\ \A j \in DOMAIN F : F[j] # f[i]

\* A datagram less under way: those behind it move up.
LEMMA TracedWithout ==
    ASSUME NEW h, NEW a, NEW b, NEW c, NEW f, NEW g, NEW k, Traces(h, a, b, c, f, g, k),
           a \in Seq(Seq(Int)), NEW i \in 1..Len(a)
    PROVE  TracesWithout(h, a, i, b, c, f, g, k)
  <1> DEFINE m == Len(a)
             A == Udp!Without(a, i)
             old(j) == IF j < i THEN j ELSE j + 1
             n == Len(h)
             F == [j \in 1..(m - 1) |-> f[old(j)]]
  <1>1. /\ f \in [1..m -> 1..Len(h)] /\ Distinct(f) /\ Apart(f, g) /\ Apart(f, k)
        /\ \A j \in 1..m : a[j] = h[f[j]]
    BY DEF Traces
  <1>2. /\ A \in Seq(Seq(Int)) /\ Len(A) = m - 1 /\ m \in Nat
        /\ \A j \in 1..(m - 1) : A[j] = a[old(j)]
    BY WithoutOne, LenProperties
  <1> HIDE DEF m, A
  <1>3. \A j \in 1..(m - 1) : old(j) \in 1..m /\ old(j) # i BY <1>2 DEF m
  <1>4. F \in [1..(m - 1) -> 1..Len(h)] BY <1>1, <1>3
  <1>5. \A j, l \in 1..(m - 1) : old(j) = old(l) => j = l BY <1>2 DEF m
  <1>6. \A j \in 1..(m - 1) : F[j] = f[old(j)] OBVIOUS
  <1> HIDE DEF F, old
  <1>7. DOMAIN F = 1..(m - 1) /\ DOMAIN f = 1..m BY <1>1, <1>4
  <1>8. Distinct(F) BY <1>1, <1>3, <1>5, <1>6, <1>7 DEF Distinct
  <1>9. Apart(F, g) /\ Apart(F, k) BY <1>1, <1>3, <1>6, <1>7 DEF Apart
  <1>10. \A j \in DOMAIN F : F[j] # f[i]
    <2>1. i \in 1..m BY DEF m
    <2> QED BY <1>1, <1>3, <1>6, <1>7, <2>1 DEF Distinct
  <1>11. \A j \in 1..(m - 1) : A[j] = h[F[j]] BY <1>1, <1>2, <1>3, <1>6
  <1>12. Traces(h, A, b, c, F, g, k)
    BY <1>2, <1>4, <1>8, <1>9, <1>11 DEF Traces
  <1> QED BY <1>10, <1>12 DEF A, TracesWithout

LEMMA TracedLost ==
    ASSUME NEW h, NEW a, NEW b, NEW c, Traced(h, a, b, c), NEW i \in 1..Len(a)
    PROVE  Traced(h, Udp!Without(a, i), b, c)
  <1>1. PICK f, g, k : Traces(h, a, b, c, f, g, k) BY DEF Traced
  <1>2. PICK F : Traces(h, Udp!Without(a, i), b, c, F, g, k)
    <2>1. a \in Seq(Seq(Int)) BY DEF Traced
    <2>2. TracesWithout(h, a, i, b, c, f, g, k) BY <1>1, <2>1, TracedWithout
    <2> QED BY <2>2 DEF TracesWithout
  <1>3. Udp!Without(a, i) \in Seq(Seq(Int)) BY WithoutOne DEF Traced
  <1> QED BY <1>2, <1>3 DEF Traced

\* The function f on 1..m with a value more.
More(f, m, x) == [i \in 1..(m + 1) |-> IF i = m + 1 THEN x ELSE f[i]]

MoreOf(f, m, n, x) ==
    /\ More(f, m, x) \in [1..(m + 1) -> 1..n] /\ Distinct(More(f, m, x))
    /\ More(f, m, x)[m + 1] = x
    /\ \A i \in 1..m : More(f, m, x)[i] = f[i]

LEMMA OneMore ==
    ASSUME NEW m \in Nat, NEW n \in Nat, NEW f \in [1..m -> 1..n], NEW x \in 1..n,
           Distinct(f), \A i \in 1..m : f[i] # x
    PROVE  MoreOf(f, m, n, x)
  <1> DEFINE F == More(f, m, x)
  <1>1. \A i \in 1..(m + 1) : F[i] = IF i = m + 1 THEN x ELSE f[i] BY DEF More
  <1>2. \A i \in 1..(m + 1) : i = m + 1 \/ (i \in 1..m /\ i # m + 1) OBVIOUS
  <1>3. \A i \in 1..m : i \in 1..(m + 1) /\ i # m + 1 OBVIOUS
  <1>4. m + 1 \in 1..(m + 1) OBVIOUS
  <1>5. DOMAIN F = 1..(m + 1) /\ DOMAIN f = 1..m BY DEF More
  <1>6. F \in [1..(m + 1) -> 1..n]
    <2>1. \A i \in 1..(m + 1) : (IF i = m + 1 THEN x ELSE f[i]) \in 1..n BY <1>2
    <2> QED BY ONLY <2>1 DEF More
  <1> HIDE DEF F
  <1>7. F[m + 1] = x /\ \A i \in 1..m : F[i] = f[i] BY <1>1, <1>3, <1>4
  <1>8. Distinct(F)
    <2> SUFFICES ASSUME NEW i \in 1..(m + 1), NEW j \in 1..(m + 1), F[i] = F[j] PROVE i = j
      BY <1>5 DEF Distinct
    <2>1. CASE i = m + 1 BY <1>2, <1>7, <2>1
    <2>2. CASE j = m + 1 BY <1>2, <1>7, <2>2
    <2>3. CASE i # m + 1 /\ j # m + 1
      <3>1. i \in 1..m /\ j \in 1..m BY <1>2, <2>3
      <3> QED BY <1>5, <1>7, <3>1 DEF Distinct
    <2> QED BY <2>1, <2>2, <2>3
  <1> QED BY <1>6, <1>7, <1>8 DEF F, MoreOf

LEMMA MoreApart ==
    ASSUME NEW m \in Nat, NEW f, DOMAIN f = 1..m, NEW x, NEW z, Apart(f, z),
           \A j \in DOMAIN z : z[j] # x
    PROVE  Apart(More(f, m, x), z) /\ Apart(z, More(f, m, x))
  <1>1. \A i \in 1..(m + 1) : i = m + 1 \/ (i \in 1..m /\ i # m + 1) OBVIOUS
  <1>2. DOMAIN More(f, m, x) = 1..(m + 1)
        /\ \A i \in 1..(m + 1) : More(f, m, x)[i] = IF i = m + 1 THEN x ELSE f[i]
    BY DEF More
  <1>3. \A i \in 1..(m + 1) : \A j \in DOMAIN z : More(f, m, x)[i] # z[j]
    BY <1>1, <1>2 DEF Apart
  <1> QED BY <1>2, <1>3 DEF Apart

\* A datagram arrives.
LEMMA TracedArrives ==
    ASSUME NEW h, NEW a, NEW b, NEW c, Traced(h, a, b, c), NEW i \in 1..Len(a)
    PROVE  Traced(h, Udp!Without(a, i), Append(b, a[i]), c)
  <1> DEFINE A == Udp!Without(a, i)
             B == Append(b, a[i])
             m == Len(b)
             n == Len(h)
  <1>1. /\ h \in Seq(Seq(Int)) /\ a \in Seq(Seq(Int)) /\ b \in Seq(Seq(Int))
        /\ c \in Seq(Seq(Int))
    BY DEF Traced
  <1>2. PICK f, g, k : Traces(h, a, b, c, f, g, k) BY DEF Traced
  <1>3. PICK F : Traces(h, A, b, c, F, g, k) /\ \A j \in DOMAIN F : F[j] # f[i]
    <2>1. TracesWithout(h, a, i, b, c, f, g, k) BY <1>1, <1>2, TracedWithout
    <2> QED BY <2>1 DEF TracesWithout
  <1>4. A \in Seq(Seq(Int)) BY <1>1, WithoutOne
  <1>5. a[i] \in Seq(Int) BY <1>1, ElementOfSeq
  <1>6. /\ B \in Seq(Seq(Int)) /\ Len(B) = m + 1 /\ m \in Nat /\ n \in Nat /\ B[m + 1] = a[i]
        /\ \A j \in 1..m : B[j] = b[j]
    BY <1>1, <1>5, AppendProperties, LenProperties
  <1> HIDE DEF A, B
  <1>7. /\ DOMAIN f = 1..Len(a) /\ f[i] \in 1..n /\ a[i] = h[f[i]]
        /\ \A j \in DOMAIN g : f[i] # g[j]
        /\ \A j \in DOMAIN k : f[i] # k[j]
    BY <1>2 DEF Traces, Apart
  <1>8. /\ F \in [1..Len(A) -> 1..n] /\ g \in [1..m -> 1..n] /\ k \in [1..Len(c) -> 1..n]
        /\ Distinct(F) /\ Distinct(g) /\ Distinct(k)
        /\ Apart(F, g) /\ Apart(F, k) /\ Apart(g, k)
        /\ \A j \in 1..Len(A) : A[j] = h[F[j]]
        /\ \A j \in 1..m : b[j] = h[g[j]]
        /\ \A j \in 1..Len(c) : IsPrefix(c[j], h[k[j]])
    BY <1>3 DEF Traces
  <1> HIDE DEF m, n
  <1> DEFINE x == f[i]
             G == More(g, m, x)
  <1>9. x \in 1..n /\ (\A j \in 1..m : g[j] # x) /\ DOMAIN g = 1..m /\ DOMAIN k = 1..Len(c)
    BY <1>7, <1>8
  <1>10. \A j \in DOMAIN F : F[j] # x BY <1>3
  <1>11. a[i] = h[x] /\ \A j \in DOMAIN k : k[j] # x BY <1>7
  <1> HIDE DEF x
  <1>12. /\ G \in [1..(m + 1) -> 1..n] /\ Distinct(G) /\ G[m + 1] = x
         /\ \A j \in 1..m : G[j] = g[j]
    <2>1. Distinct(g) /\ g \in [1..m -> 1..n] BY <1>8
    <2>2. m \in Nat /\ n \in Nat BY <1>6
    <2>3. MoreOf(g, m, n, x) BY <1>9, <2>1, <2>2, OneMore
    <2> QED BY <2>3, Zenon DEF MoreOf
  <1>13. Apart(g, F) BY <1>8 DEF Apart
  <1>14. Apart(F, G) BY <1>6, <1>9, <1>10, <1>13, MoreApart
  <1>15. Apart(G, k) BY <1>6, <1>8, <1>9, <1>11, MoreApart
  <1> HIDE DEF G
  <1>16. ASSUME NEW j \in 1..(m + 1) PROVE B[j] = h[G[j]]
    <2>1. CASE j = m + 1 BY <1>6, <1>11, <1>12, <2>1
    <2>2. CASE j # m + 1
      <3>1. j \in 1..m BY <1>6, <2>2
      <3> QED BY <1>6, <1>8, <1>12, <3>1
    <2> QED BY <2>1, <2>2
  <1>17. Traces(h, A, B, c, F, G, k)
    BY <1>6, <1>8, <1>12, <1>14, <1>15, <1>16 DEF Traces, n
  <1> QED BY <1>1, <1>4, <1>6, <1>17 DEF Traced, A, B

\* The first datagram that waits is read, or the start of it.
LEMMA TracedRead ==
    ASSUME NEW h, NEW a, NEW b, NEW c, Traced(h, a, b, c), b # <<>>, NEW d \in Seq(Int),
           IsPrefix(d, b[1])
    PROVE  Traced(h, a, Tail(b), Append(c, d))
  <1> DEFINE B == Tail(b)
             C == Append(c, d)
             m == Len(c)
             n == Len(h)
  <1>1. /\ h \in Seq(Seq(Int)) /\ a \in Seq(Seq(Int)) /\ b \in Seq(Seq(Int))
        /\ c \in Seq(Seq(Int))
    BY DEF Traced
  <1>2. PICK f, g, k : Traces(h, a, b, c, f, g, k) BY DEF Traced
  <1>3. 1 \in 1..Len(b) /\ Len(b) \in Nat
    <2>1. Len(b) \in Nat /\ Len(b) # 0 BY <1>1, EmptySeq, LenProperties
    <2> QED BY <2>1
  <1>4. Udp!Without(b, 1) = B /\ B \in Seq(Seq(Int))
    <2>1. /\ Udp!Without(b, 1) \in Seq(Seq(Int)) /\ Len(Udp!Without(b, 1)) = Len(b) - 1
          /\ \A j \in 1..(Len(b) - 1) : Udp!Without(b, 1)[j] = b[j + 1]
      <3>1. /\ Udp!Without(b, 1) \in Seq(Seq(Int)) /\ Len(Udp!Without(b, 1)) = Len(b) - 1
            /\ \A j \in 1..(Len(b) - 1) :
                  Udp!Without(b, 1)[j] = b[IF j < 1 THEN j ELSE j + 1]
        BY <1>1, <1>3, WithoutOne
      <3>2. \A j \in 1..(Len(b) - 1) : (IF j < 1 THEN j ELSE j + 1) = j + 1 OBVIOUS
      <3> QED BY <3>1, <3>2
    <2>2. /\ B \in Seq(Seq(Int)) /\ Len(B) = Len(b) - 1
          /\ \A j \in 1..(Len(b) - 1) : B[j] = b[j + 1]
      BY <1>1, HeadTailProperties
    <2> QED BY <2>1, <2>2, SeqEqual
  <1>5. Traces(h, b, a, c, g, f, k) BY <1>2 DEF Traces, Apart
  <1>6. PICK G : Traces(h, B, a, c, G, f, k) /\ \A j \in DOMAIN G : G[j] # g[1]
    <2>1. TracesWithout(h, b, 1, a, c, g, f, k) BY <1>1, <1>3, <1>5, TracedWithout
    <2> QED BY <1>4, <2>1 DEF TracesWithout
  <1>7. /\ C \in Seq(Seq(Int)) /\ Len(C) = m + 1 /\ m \in Nat /\ n \in Nat /\ C[m + 1] = d
        /\ \A j \in 1..m : C[j] = c[j]
    BY <1>1, AppendProperties, LenProperties
  <1> HIDE DEF B, C
  <1>8. /\ g[1] \in 1..n /\ b[1] = h[g[1]]
        /\ \A j \in DOMAIN f : f[j] # g[1]
        /\ \A j \in DOMAIN k : g[1] # k[j]
    <2>1. g \in [1..Len(b) -> 1..n] /\ Apart(f, g) /\ Apart(g, k)
          /\ \A j \in 1..Len(b) : b[j] = h[g[j]]
      BY <1>2 DEF Traces
    <2>2. 1 \in DOMAIN g BY <1>3, <2>1
    <2> QED BY <1>3, <2>1, <2>2 DEF Apart
  <1>9. /\ G \in [1..Len(B) -> 1..n] /\ f \in [1..Len(a) -> 1..n] /\ k \in [1..m -> 1..n]
        /\ Distinct(G) /\ Distinct(f) /\ Distinct(k)
        /\ Apart(f, G) /\ Apart(k, f) /\ Apart(k, G)
        /\ \A j \in 1..Len(a) : a[j] = h[f[j]]
        /\ \A j \in 1..Len(B) : B[j] = h[G[j]]
        /\ \A j \in 1..m : IsPrefix(c[j], h[k[j]])
    BY <1>6 DEF Traces, Apart
  <1> HIDE DEF m, n
  <1> DEFINE x == g[1]
             K == More(k, m, x)
  <1>10. x \in 1..n /\ (\A j \in 1..m : k[j] # x) /\ DOMAIN k = 1..m BY <1>8, <1>9
  <1>11. b[1] = h[x] /\ (\A j \in DOMAIN f : f[j] # x) /\ (\A j \in DOMAIN G : G[j] # x)
    BY <1>6, <1>8
  <1> HIDE DEF x
  <1>12. /\ K \in [1..(m + 1) -> 1..n] /\ Distinct(K) /\ K[m + 1] = x
         /\ \A j \in 1..m : K[j] = k[j]
    <2>1. Distinct(k) /\ k \in [1..m -> 1..n] BY <1>9
    <2>2. m \in Nat /\ n \in Nat BY <1>7
    <2>3. MoreOf(k, m, n, x) BY <1>10, <2>1, <2>2, OneMore
    <2> QED BY <2>3, Zenon DEF MoreOf
  <1>13. Apart(f, K) BY <1>7, <1>9, <1>10, <1>11, MoreApart
  <1>14. Apart(G, K) BY <1>7, <1>9, <1>10, <1>11, MoreApart
  <1> HIDE DEF K
  <1>15. ASSUME NEW j \in 1..(m + 1) PROVE IsPrefix(C[j], h[K[j]])
    <2>1. CASE j = m + 1
      <3>1. C[j] = d /\ h[K[j]] = b[1] BY <1>7, <1>11, <1>12, <2>1
      <3> QED BY ONLY IsPrefix(d, b[1]), <3>1
    <2>2. CASE j # m + 1
      <3>1. j \in 1..m BY <1>7, <2>2
      <3>2. C[j] = c[j] /\ K[j] = k[j] BY <1>7, <1>12, <3>1
      <3>3. IsPrefix(c[j], h[k[j]]) BY <1>9, <3>1
      <3> QED BY ONLY <3>2, <3>3
    <2> QED BY <2>1, <2>2
  <1>16. Traces(h, a, B, C, f, G, K)
    BY <1>7, <1>9, <1>12, <1>13, <1>14, <1>15 DEF Traces, n
  <1> QED BY <1>1, <1>4, <1>7, <1>16 DEF Traced, B, C

\* However often a datagram is read, as many were handed over that begin with it.
LEMMA Counted ==
    ASSUME NEW h, NEW a, NEW b, NEW c, Traced(h, a, b, c), NEW d
    PROVE  Cardinality({i \in DOMAIN c : c[i] = d})
             <= Cardinality({i \in DOMAIN h : IsPrefix(d, h[i])})
  <1> DEFINE S == {i \in DOMAIN c : c[i] = d}
             T == {i \in DOMAIN h : IsPrefix(d, h[i])}
  <1>1. PICK f, g, k : Traces(h, a, b, c, f, g, k) BY DEF Traced
  <1>2. DOMAIN h = 1..Len(h) /\ DOMAIN c = 1..Len(c) /\ Len(h) \in Nat
    BY LenProperties DEF Traced
  <1>3. /\ k \in [1..Len(c) -> 1..Len(h)] /\ Distinct(k)
        /\ \A i \in 1..Len(c) : IsPrefix(c[i], h[k[i]])
    BY <1>1 DEF Traces
  <1> DEFINE F == [i \in S |-> k[i]]
  <1>4. ASSUME NEW i \in S PROVE k[i] \in T /\ i \in 1..Len(c)
    <2>1. i \in 1..Len(c) /\ c[i] = d BY <1>2
    <2>2. IsPrefix(c[i], h[k[i]]) /\ k[i] \in 1..Len(h) BY <1>3, <2>1
    <2>3. IsPrefix(d, h[k[i]]) BY ONLY <2>1, <2>2
    <2> QED BY <1>2, <2>1, <2>2, <2>3
  <1>5. F \in [S -> T] BY <1>4
  <1>6. \A i, j \in S : F[i] = F[j] => i = j
    <2>1. DOMAIN k = 1..Len(c) BY <1>3
    <2> QED BY <1>3, <1>4, <2>1 DEF Distinct
  <1>7. DOMAIN F = S OBVIOUS
  <1>8. IsFiniteSet(T)
    <2>1. IsFiniteSet(1..Len(h)) BY <1>2, FS_Interval
    <2>2. T \in SUBSET (1..Len(h)) BY <1>2
    <2> QED BY <2>1, <2>2, FS_Subset
  <1> HIDE DEF S, T, F
  <1>9. F \in Injection(S, T) BY <1>5, <1>6, <1>7 DEF Injection, IsInjective
  <1>10. Cardinality(S) <= Cardinality(T) BY <1>8, <1>9, FS_Injection
  <1> QED BY <1>10 DEF S, T

-----------------------------------------------------------------------------
(* The messages are kept by every step.                                     *)

MInv ==
    /\ Whole(messages.bytes, messages.cuts, handed, Content(chain), Udp!Cuts(chain))
    /\ Traced(handed, unet, queue, ugot)

LEMMA CutsAfter == ASSUME way' = way PROVE (Udp!Cuts(chain))' = Udp!Cuts(chain')
  BY DEF Udp!Cuts, Udp!Ends

LEMMA MessagesInit == ASSUME SocketsInit PROVE MInv
  <1>1. Udp!Init /\ messages = Udp!Messages(chain) BY DEF SocketsInit
  <1>2. chain \in Seq(Part) BY UdpInit DEF UTypes
  <1> DEFINE bytes == Content(chain)
             cuts == Udp!Cuts(chain)
  <1>3. messages.bytes = bytes /\ messages.cuts = cuts
    <2>1. Udp!Content(chain) = Content(chain) BY SameOperators
    <2> QED BY <1>1, <2>1 DEF Udp!Messages
  <1>4. bytes \in Seq(Int) /\ Len(bytes) \in Nat
    BY <1>2, PartIsBuffer, ContentType, LenProperties
  <1>5. cuts \subseteq Nat \ {0}
    <2>1. cuts \subseteq 1..Total(Sources(chain)) BY <1>2, CutsAre
    <2> HIDE DEF cuts
    <2> QED BY <2>1
  <1>6. handed = <<>> /\ unet = <<>> /\ queue = <<>> /\ ugot = <<>> BY <1>1 DEF Udp!Init
  <1> HIDE DEF bytes, cuts
  <1>7. <<>> \in Seq(Seq(Int)) /\ Len(<<>>) = 0 OBVIOUS
  <1>8. Total(Waiting(<<>>)) = 0
    <2>1. Len(Waiting(<<>>)) = 0 BY <1>7, WaitingType
    <2>2. Len(Waiting(<<>>)) + 1 = 1 BY <2>1
    <2> QED BY <2>2, BeforeFirst DEF Total
  <1>9. Whole(bytes, cuts, <<>>, bytes, cuts)
    <2>1. 1..Len(<<>>) = {} BY <1>7
    <2>2. {Before(Waiting(<<>>), i + 1) : i \in 1..Len(<<>>)} = {} BY <2>1
    <2>3. {c \in cuts : c <= 0} = {}
      <3>1. \A c \in cuts : ~(c <= 0) BY <1>5
      <3> QED BY <3>1
    <2>4. bytes = SubSeq(bytes, 0 + 1, Len(bytes)) BY <1>4, SubSeqFull
    <2>5. cuts = {c - 0 : c \in {m \in cuts : m > 0}}
      <3>1. \A c \in cuts : c > 0 /\ c - 0 = c BY <1>5
      <3>2. {m \in cuts : m > 0} = cuts BY <3>1
      <3> QED BY <3>1, <3>2
    <2> QED BY <1>4, <1>5, <1>7, <1>8, <2>1, <2>2, <2>3, <2>4, <2>5 DEF Whole
  <1>10. Traced(<<>>, <<>>, <<>>, <<>>)
    <2> DEFINE f == [i \in 1..0 |-> i]
    <2>1. /\ f \in [1..Len(<<>>) -> 1..Len(<<>>)] /\ DOMAIN f = {} BY <1>7
    <2>2. Distinct(f) /\ Apart(f, f) BY <2>1 DEF Distinct, Apart
    <2>3. 1..Len(<<>>) = {} BY <1>7
    <2> HIDE DEF f
    <2>4. Traces(<<>>, <<>>, <<>>, <<>>, f, f, f) BY <2>1, <2>2, <2>3 DEF Traces
    <2> QED BY <1>7, <2>4 DEF Traced
  <1> QED BY <1>3, <1>6, <1>9, <1>10 DEF MInv, bytes, cuts

LEMMA MessagesAlone ==
    ASSUME MInv, UNCHANGED <<way, chain, handed, unet, queue, ugot, messages>>
    PROVE  MInv'
  <1>1. (Udp!Cuts(chain))' = Udp!Cuts(chain) BY CutsAfter
  <1> QED BY <1>1 DEF MInv

\* The kernel takes the bytes up to where the first message ends.
LEMMA MessagesTaken ==
    ASSUME UTypes, MInv, UNCHANGED <<way, queue, ugot, messages>>, NEW b \in Seq(Int),
           Len(b) <= Len(Content(chain)), b = SubSeq(Content(chain), 1, Len(b)),
           AtCut(chain, Len(b)), handed' = Append(handed, b), unet' = Append(unet, b),
           chain' \in Seq(Part), Remains(chain, Len(b), chain'),
           Content(chain') = SubSeq(Content(chain), Len(b) + 1, Len(Content(chain)))
    PROVE  MInv'
  <1> DEFINE left == CutsBehind(Udp!Cuts(chain), Len(b))
  <1>1. (Udp!Cuts(chain))' = left
    <2>1. chain \in Seq(Part) /\ Len(b) \in Nat BY LenProperties DEF UTypes
    <2>2. Udp!Cuts(chain') = left BY <2>1, CutsOfRest DEF CutsBehind
    <2> QED BY <2>2, CutsAfter
  <1>2. Whole(messages.bytes, messages.cuts, Append(handed, b),
              SubSeq(Content(chain), Len(b) + 1, Len(Content(chain))), left)
    <2>1. Whole(messages.bytes, messages.cuts, handed, Content(chain), Udp!Cuts(chain))
      BY DEF MInv
    <2>2. (Len(b) = 0 \/ Len(b) \in Udp!Cuts(chain)) /\ \A m \in Udp!Cuts(chain) : Len(b) <= m
      BY DEF AtCut
    <2> QED BY <2>1, <2>2, HandOver
  <1>3. Traced(Append(handed, b), Append(unet, b), queue, ugot) BY TracedHanded DEF MInv
  <1> HIDE DEF left
  <1> QED BY <1>1, <1>2, <1>3 DEF MInv

LEMMA MessagesTurn ==
    ASSUME UTypes, UInv, MInv, Udp!Turn, messages' = messages PROVE MInv'
  <1>1. UNCHANGED <<way, queue, ugot>> /\ way = "chain"
    BY DEF Udp!Turn, Udp!readerVars, UInv
  <1>2. CASE UNCHANGED <<chain, handed, unet>> BY <1>1, <1>2, MessagesAlone
  <1> DEFINE d == Udp!NextDatagram(chain)
             b == d.bytes
  <1>3. CASE /\ d.how = "send" /\ unet' = Append(unet, b) /\ handed' = Append(handed, b)
             /\ chain' = Udp!UpdateSent(chain, Len(b))
    <2>1. chain \in Seq(Part) /\ Sound(chain) BY DEF UTypes
    <2>2. /\ b \in Seq(Int) /\ Len(b) \in Nat /\ Len(b) <= Len(Content(chain))
          /\ b = SubSeq(Content(chain), 1, Len(b))
          /\ AtCut(chain, Len(b))
      BY <1>1, <1>3, <2>1, DatagramRight
    <2> HIDE DEF b
    <2>3. chain' = UpdateSent(chain, Len(b)) BY <1>3, SameOperators
    <2>4. /\ chain' \in Seq(Part)
          /\ Content(chain') = SubSeq(Content(chain), Len(b) + 1, Len(Content(chain)))
          /\ Remains(chain, Len(b), chain')
      BY <2>1, <2>2, <2>3, PartIsBuffer, UpdateSentRight
    <2> QED BY <1>1, <1>3, <2>2, <2>4, MessagesTaken
  <1> QED BY <1>2, <1>3 DEF Udp!Turn, Udp!SendTurn, Udp!NoneTurn, Udp!Taken, Udp!Full, Udp!Fails

LEMMA MessagesSend ==
    ASSUME UTypes, MInv, Udp!UdpSend, messages' = messages PROVE MInv'
  <1>1. UNCHANGED <<way, queue, ugot>> /\ way = "buffer" /\ chain # <<>>
    BY DEF Udp!UdpSend, Udp!readerVars
  <1>2. CASE UNCHANGED <<chain, handed, unet>> BY <1>1, <1>2, MessagesAlone
  <1> DEFINE b == Content(<<chain[1]>>)
             s == Sources(chain)
  <1>3. CASE /\ unet' = Append(unet, Udp!Content(<<chain[1]>>))
             /\ handed' = Append(handed, Udp!Content(<<chain[1]>>))
             /\ chain' = Tail(chain)
    <2>1. chain \in Seq(Part) BY DEF UTypes
    <2>2. /\ b \in Seq(Int) /\ Len(b) <= Len(Content(chain))
          /\ b = SubSeq(Content(chain), 1, Len(b))
          /\ Len(b) = Before(s, 2)
      BY <1>1, <2>1, PartIsBuffer, FirstBuffer
    <2>3. Udp!Content(<<chain[1]>>) = b BY SameOperators
    <2> HIDE DEF b
    <2>4. /\ Len(b) \in Nat /\ chain' \in Seq(Part)
          /\ Remains(chain, Len(b), chain')
          /\ Content(chain') = SubSeq(Content(chain), Len(b) + 1, Len(Content(chain)))
      BY <1>1, <1>3, <2>1, <2>2, TailRemains
    <2>5. AtCut(chain, Len(b))
      <3>1. /\ s \in Seq(SpanType) /\ Len(s) = Len(chain) /\ Len(chain) \in Nat
            /\ DOMAIN chain = 1..Len(chain) /\ Len(chain) # 0
        BY <1>1, <2>1, EmptySeq, PartIsBuffer, SourcesType, LenProperties
      <3>2. EndsOf(chain) = 1..Len(chain) BY <1>1, <3>1 DEF EndsOf
      <3>3. Udp!Cuts(chain) = {Before(s, i + 1) : i \in 1..Len(chain)} \ {0}
        BY <2>1, <3>2, CutsAre
      <3> HIDE DEF s
      <3>4. Len(b) = 0 \/ Len(b) \in Udp!Cuts(chain)
        <4>1. 1 \in 1..Len(chain) /\ 1 + 1 = 2 BY <3>1
        <4> QED BY <2>2, <3>3, <4>1
      <3>5. ASSUME NEW i \in 1..Len(chain) PROVE Len(b) <= Before(s, i + 1)
        <4>1. 2 \in 1..(Len(s) + 1) /\ i + 1 \in 1..(Len(s) + 1) /\ 2 <= i + 1 BY <3>1
        <4> QED BY <2>2, <3>1, <4>1, BeforeGrows
      <3> QED BY <3>3, <3>4, <3>5 DEF AtCut
    <2> QED BY <1>1, <1>3, <2>2, <2>3, <2>4, <2>5, MessagesTaken
  <1> QED BY <1>2, <1>3 DEF Udp!UdpSend, Udp!Taken, Udp!Full, Udp!Fails

LEMMA MessagesRecv ==
    ASSUME UTypes, MInv, NEW size \in DatagramSizes, size \in Nat, Udp!UdpRecv(size),
           messages' = messages
    PROVE  MInv'
  <1>1. UNCHANGED <<way, chain, handed, unet>> BY DEF Udp!UdpRecv, Udp!senderVars
  <1>2. CASE queue = <<>>
    <2>1. ugot' = ugot /\ queue' = queue BY <1>2 DEF Udp!UdpRecv
    <2> QED BY <1>1, <2>1, MessagesAlone
  <1>3. CASE queue # <<>>
    <2> DEFINE n == IF size < Len(queue[1]) THEN size ELSE Len(queue[1])
               d == SubSeq(queue[1], 1, n)
    <2>1. ugot' = Append(ugot, d) /\ queue' = Tail(queue) BY <1>3 DEF Udp!UdpRecv
    <2>2. queue[1] \in Seq(Int) /\ Len(queue[1]) \in Nat
      <3>1. Len(queue) \in Nat /\ Len(queue) # 0 /\ queue \in Seq(Seq(Int))
        BY <1>3, EmptySeq, LenProperties DEF UTypes
      <3>2. 1 \in 1..Len(queue) BY <3>1
      <3> QED BY <3>1, <3>2, ElementOfSeq, LenProperties
    <2>3. n \in 0..Len(queue[1]) BY <2>2
    <2> HIDE DEF n
    <2>4. d \in Seq(Int) /\ Len(d) = n BY <2>2, <2>3, TwoParts
    <2>5. IsPrefix(d, queue[1])
      <3>1. SubSeq(d, 1, Len(d)) = d BY <2>4, SubSeqFull
      <3> QED BY <2>2, <2>3, <2>4, <3>1 DEF IsPrefix
    <2> HIDE DEF d
    <2>6. Traced(handed, unet, Tail(queue), Append(ugot, d))
      BY <1>3, <2>4, <2>5, TracedRead DEF MInv
    <2>7. (Udp!Cuts(chain))' = Udp!Cuts(chain) BY <1>1, CutsAfter
    <2> QED BY <1>1, <2>1, <2>6, <2>7 DEF MInv
  <1> QED BY <1>2, <1>3

LEMMA MessagesStep ==
    ASSUME UTypes, UInv, MInv, Udp!Next, messages' = messages PROVE MInv'
  <1>1. ASSUME UNCHANGED <<way, chain, handed, unet, queue, ugot>> PROVE MInv'
    BY <1>1, MessagesAlone
  <1>2. ASSUME NEW limit \in DatagramLimits, Udp!SendmsgChain(limit) PROVE MInv'
    BY <1>1, <1>2 DEF Udp!SendmsgChain, Udp!readerVars
  <1>3. CASE Udp!UdpSend BY <1>3, MessagesSend
  <1>4. CASE Udp!Turn BY <1>4, MessagesTurn
  <1>5. CASE Udp!PollWrite BY <1>1, <1>5 DEF Udp!PollWrite, Udp!readerVars
  <1>6. CASE Udp!Arrive
    <2>1. UNCHANGED <<way, chain, handed, ugot>> BY <1>6 DEF Udp!Arrive, Udp!senderVars
    <2>2. PICK i \in DOMAIN unet : queue' = Append(queue, unet[i]) /\ unet' = Udp!Without(unet, i)
      BY <1>6 DEF Udp!Arrive
    <2>3. i \in 1..Len(unet) BY <2>2, LenProperties DEF UTypes
    <2>4. Traced(handed, Udp!Without(unet, i), Append(queue, unet[i]), ugot)
      BY <2>3, TracedArrives DEF MInv
    <2>5. (Udp!Cuts(chain))' = Udp!Cuts(chain) BY <2>1, CutsAfter
    <2> QED BY <2>1, <2>2, <2>4, <2>5 DEF MInv
  <1>7. CASE Udp!Lose
    <2>1. UNCHANGED <<way, chain, handed, queue, ugot>>
      BY <1>7 DEF Udp!Lose, Udp!senderVars, Udp!readerVars
    <2>2. PICK i \in DOMAIN unet : unet' = Udp!Without(unet, i) BY <1>7 DEF Udp!Lose
    <2>3. i \in 1..Len(unet) BY <2>2, LenProperties DEF UTypes
    <2>4. Traced(handed, Udp!Without(unet, i), queue, ugot) BY <2>3, TracedLost DEF MInv
    <2>5. (Udp!Cuts(chain))' = Udp!Cuts(chain) BY <2>1, CutsAfter
    <2> QED BY <2>1, <2>2, <2>4, <2>5 DEF MInv
  <1>8. CASE Udp!PollRead BY <1>1, <1>8 DEF Udp!PollRead, Udp!senderVars
  <1>9. ASSUME NEW size \in DatagramSizes, Udp!UdpRecv(size) PROVE MInv'
    <2>1. size \in Nat BY SocketsAssumption DEF Udp!DatagramAssumption
    <2> QED BY <1>9, <2>1, MessagesRecv
  <1>10. CASE Udp!UdpRecvFails BY <1>1, <1>10 DEF Udp!UdpRecvFails, Udp!senderVars
  <1> QED BY <1>2, <1>3, <1>4, <1>5, <1>6, <1>7, <1>8, <1>9, <1>10 DEF Udp!Next

LEMMA MessagesAreWhole == ASSUME MInv PROVE DatagramsWhole
  <1> DEFINE s == Waiting(handed)
             n == Len(handed)
             bytes == messages.bytes
             cuts == messages.cuts
             w == Total(s)
  <1>1. /\ handed \in Seq(Seq(Int)) /\ w <= Len(bytes)
        /\ \A i \in 1..n : handed[i] = SubSeq(bytes, Before(s, i) + 1, Before(s, i + 1))
        /\ {Before(s, i + 1) : i \in 1..n} \ {0} = {c \in cuts : c <= w}
        /\ Content(chain) = SubSeq(bytes, w + 1, Len(bytes))
        /\ Udp!Cuts(chain) = {c - w : c \in {m \in cuts : m > w}}
    BY Zenon DEF MInv, Whole
  <1>2. DOMAIN handed = 1..n /\ Len(s) = n BY <1>1, WaitingType, LenProperties
  <1>3. \A i : Udp!HandedBefore(i) = Before(s, i)
    <2> SUFFICES ASSUME NEW i PROVE Udp!HandedBefore(i) = Before(s, i) OBVIOUS
    <2>1. Udp!HandedBefore(i) = Udp!Before(s, i)
      BY DEF Udp!HandedBefore, Waiting, Udp!Span, Span
    <2> QED BY <2>1, SameOperators
  <1>4. Udp!HandedBefore(n + 1) = w BY <1>2, <1>3 DEF Total
  <1>5. \A d : Cardinality({i \in DOMAIN ugot : ugot[i] = d})
                 <= Cardinality({i \in DOMAIN handed : IsPrefix(d, handed[i])})
    BY Counted DEF MInv
  <1>6. {Udp!HandedBefore(i + 1) : i \in DOMAIN handed} = {Before(s, i + 1) : i \in 1..n}
    BY <1>2, <1>3
  <1> HIDE DEF s, w
  <1>7. \A i \in DOMAIN handed :
           handed[i] = SubSeq(bytes, Udp!HandedBefore(i) + 1, Udp!HandedBefore(i + 1))
    BY <1>1, <1>2, <1>3
  <1> QED BY <1>1, <1>4, <1>5, <1>6, <1>7 DEF DatagramsWhole

\* Each message of a chain becomes one datagram, whole and in order, and the
\* chain keeps the others (hky_udp_unix_sendmsg_chain, hky_udp_unix_send); what
\* hky_udp_unix_recv returns began a datagram that was handed over, each once.
THEOREM MessagesKept == SocketsSpec => []DatagramsWhole
  <1> DEFINE Inv == IInv /\ UTypes /\ UInv /\ MInv
  <1>1. SocketsInit => Inv BY InitIsSound, UdpInit, MessagesInit
  <1>2. Inv /\ [SocketsNext]_socketsVars => Inv'
    <2> SUFFICES ASSUME Inv, [SocketsNext]_socketsVars PROVE Inv'
      OBVIOUS
    <2>1. IInv' BY StepIsSound
    <2>2. method \in {"level", "epoll", "rdhup", "kqueue"} BY DEF IInv, SInv, ReadTypes
    <2>3. CASE Next /\ UNCHANGED udpVars /\ messages' = messages
      <3>1. UNCHANGED <<way, chain, handed, unet, queue, ugot, messages>>
        BY <2>3 DEF udpVars
      <3> QED BY <2>1, <2>3, <3>1, StreamMethodStays, UdpAlone, MessagesAlone
    <2>4. CASE Udp!Next /\ messages' = messages
      BY <2>1, <2>2, <2>4, UdpStepKeeps, MessagesStep
    <2>5. CASE UNCHANGED socketsVars
      <3>1. /\ method' = method /\ UNCHANGED udpVars
            /\ UNCHANGED <<way, chain, handed, unet, queue, ugot, messages>>
        BY <2>5 DEF socketsVars, vars, udpVars
      <3> QED BY <2>1, <3>1, UdpAlone, MessagesAlone
    <2> QED BY <2>3, <2>4, <2>5 DEF SocketsNext
  <1>3. Inv => DatagramsWhole BY MessagesAreWhole
  <1> QED BY <1>1, <1>2, <1>3, PTL DEF SocketsSpec, socketsVars
=============================================================================
