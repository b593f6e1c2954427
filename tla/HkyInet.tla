------------------------------ MODULE HkyInet -------------------------------
(***************************************************************************)
(* Addresses and URLs as texts: src/core/hky_inet.c, without               *)
(* hky_cmp_sockaddr, which HkyCycle has.  An IPv4 address is four octets,  *)
(* an IPv6 address sixteen.  The branches under HKY_HAVE_INET6 and         *)
(* HKY_HAVE_UNIX_DOMAIN are modelled as they are written; the identifiers  *)
(* in them that do not exist (null, post, u->addr, sum_path) are read as   *)
(* NULL, port, u->addrs and sun_path.                                      *)
(***************************************************************************)
EXTENDS HkyFormat, HkyCompare

CONSTANTS
    HaveInet6,      \* HKY_HAVE_INET6, with HKY_HAVE_GETADDRINFO
    HaveUnix,       \* HKY_HAVE_UNIX_DOMAIN
    SunPath         \* sizeof(saun->sun_path)

ASSUME InetAssumption ==
    /\ HaveInet6 \in BOOLEAN /\ HaveUnix \in BOOLEAN /\ SunPath \in Nat

AddrNone == <<255, 255, 255, 255>>      \* INADDR_NONE
AddrAny  == <<0, 0, 0, 0>>              \* INADDR_ANY
InetStrLen  == 15                       \* HKY_INET_ADDRSTRLEN
Inet6StrLen == 45                       \* HKY_INET6_ADDRSTRLEN
PortLen     == 6                        \* sizeof(":65535") - 1

-----------------------------------------------------------------------------
(* hky_inet_addr: an octet is tested while it grows; only a text with      *)
(* three dots is an address.  INADDR_NONE, which says that it is not one,  *)
(* is the address 255.255.255.255 as well.                                 *)
InetAddr(text) ==
    LET step(s, c) ==
            IF IsDigit(c) /\ s.octet * 10 + c - ZERO <= 255
            THEN [s EXCEPT !.octet = @ * 10 + c - ZERO]
            ELSE IF c = DOT
            THEN [s EXCEPT !.addr = Append(@, s.octet), !.octet = 0]
            ELSE [s EXCEPT !.ok = FALSE]
        read == FoldLeft(step, [addr |-> <<>>, octet |-> 0, ok |-> TRUE], text)
    IN IF read.ok /\ Len(read.addr) = 3
       THEN Append(read.addr, read.octet) ELSE AddrNone

Unsigned(n) == [Directive("d", n) EXCEPT !.flags = <<"u">>]
Hex(n)      == [Directive("d", n) EXCEPT !.flags = <<"x">>]

Dotted(a) == <<Unsigned(a[1]), Plain(DOT), Unsigned(a[2]), Plain(DOT),
               Unsigned(a[3]), Plain(DOT), Unsigned(a[4])>>

-----------------------------------------------------------------------------
(* hky_inet6_ntop.  The first of the longest runs of two or more zero      *)
(* words becomes "::"; zero is its first word, max its length.             *)
WordAt(a, i) == (a[2 * i + 1] * 256) + a[2 * i + 2]     \* i in 0..7

ZeroRun(a) ==
    LET runs == {<<i, n>> \in (0..7) \X (2..8) :
                    i + n <= 8 /\ \A k \in i..i + n - 1 : WordAt(a, k) = 0}
        longest == {r \in runs : \A q \in runs : q[2] <= r[2]}
    IN IF runs = {} THEN [zero |-> 8, max |-> 1]
       ELSE LET r == CHOOSE r \in longest : \A q \in longest : r[1] <= q[1]
            IN [zero |-> r[1], max |-> r[2]]

EmbedsV4(a) ==
    LET run == ZeroRun(a)
    IN run.zero = 0 /\ \/ run.max = 5 /\ a[11] = 255 /\ a[12] = 255
                       \/ run.max = 6
                       \/ run.max = 7 /\ a[15] /= 0 /\ a[16] /= 1

Inet6Ntop(a) ==
    LET run   == ZeroRun(a)
        words == IF EmbedsV4(a) THEN 6 ELSE 8
        loop[i \in 0..16] ==
            IF i >= words THEN <<>>
            ELSE IF i = run.zero THEN <<Plain(COLON)>> \o loop[i + run.max]
            ELSE <<Hex(WordAt(a, i))>> \o (IF i < 7 THEN <<Plain(COLON)>> ELSE <<>>)
                 \o loop[i + 1]
    IN Sprintf((IF run.zero = 0 THEN <<Plain(COLON)>> ELSE <<>>) \o loop[0]
            \o (IF EmbedsV4(a) THEN Dotted(SubSeq(a, 13, 16)) ELSE <<>>))

(* hky_inet6_addr.  The loop over the text: `addr' has the words so far,   *)
(* `zero' is one more than the bytes before the "::" or 0, `digit' the     *)
(* start of the current group once a colon was seen, n the words still to  *)
(* come.  A dot in a group makes the group an IPv4 address; its first two  *)
(* octets are multiplied by 0xff where the code's author meant a mask.     *)
Unread == [addr |-> <<>>, zero |-> 0, digit |-> 0, nibbles |-> 0, word |-> 0,
           n |-> 8, end |-> FALSE, bad |-> FALSE]

DottedEnd(s, v4) ==
    IF s.n < 2 \/ s.digit = 0 \/ v4 = AddrNone THEN [s EXCEPT !.bad = TRUE]
    ELSE [s EXCEPT !.addr = @ \o <<(v4[1] * 255) % 256, (v4[2] * 255) % 256>>,
                   !.word = (v4[3] * 256) + v4[4],
                   !.n = @ - 1, !.end = TRUE]

Inet6Step(s, i, text) ==
    LET c      == text[i]
        failed == [s EXCEPT !.bad = TRUE]
    IN IF s.bad \/ s.end THEN s
       ELSE IF c = COLON
       THEN IF s.nibbles > 0 /\ s.n > 1
            THEN [s EXCEPT !.digit = i + 1, !.n = @ - 1, !.nibbles = 0, !.word = 0,
                           !.addr = @ \o <<s.word \div 256, s.word % 256>>]
            ELSE IF s.nibbles = 0 /\ s.zero = 0
            THEN [s EXCEPT !.digit = i + 1, !.zero = Len(s.addr) + 1]
            ELSE failed
       ELSE IF c = DOT /\ s.nibbles > 0
       THEN DottedEnd(s, InetAddr(SubSeq(text, s.digit, Len(text))))
       ELSE IF s.nibbles = 4 \/ HexValue(c) = NotHex THEN failed
       ELSE [s EXCEPT !.nibbles = @ + 1, !.word = @ * 16 + HexValue(c)]

NotInet6 == <<>>

(* Behind the loop the last word is stored and the bytes from the "::" on  *)
(* are moved to the end.  A text without "::" needs all eight words, with  *)
(* it at most seven.                                                       *)
Inet6Addr(text) ==
    LET from == IF text /= <<>> /\ text[1] = COLON THEN 2 ELSE 1
        s    == FoldLeft(LAMBDA t, i : Inet6Step(t, i, text), Unread,
                         [k \in 1..Len(text) - from + 1 |-> k + from - 1])
        addr == s.addr \o <<s.word \div 256, s.word % 256>>
        gap  == 2 * (s.n - 1)
    IN IF text = <<>> \/ s.bad \/ (s.nibbles = 0 /\ s.zero = 0) THEN NotInet6
       ELSE IF gap > 0 /\ s.zero > 0
       THEN Prefix(addr, s.zero - 1) \o Repeat(0, gap)
            \o SubSeq(addr, s.zero, Len(addr))
       ELSE IF gap = 0 /\ s.zero = 0 THEN addr
       ELSE NotInet6

-----------------------------------------------------------------------------
(* hky_sock_ntop into len bytes.  An address of the family "unix" is its   *)
(* path, empty for a socket without a name.  hky_inet6_ntop writes nothing *)
(* if len is too small; the brackets and the port are written all the same *)
(* (every caller gives more room than that).                               *)
SockNtop(family, addr, portNumber, len, port) ==
    CASE family = "inet" ->
            Snprintf(len, Dotted(addr) \o
                (IF port THEN <<Plain(COLON), Directive("d", portNumber)>> ELSE <<>>))
      [] family = "inet6" /\ HaveInet6 ->
            LET text == IF len < Inet6StrLen THEN <<>> ELSE Inet6Ntop(addr)
            IN IF port
               THEN <<91>> \o text
                    \o Sprintf(<<Plain(93), Plain(COLON), Directive("d", portNumber)>>)
               ELSE text
      [] family = "unix" /\ HaveUnix ->
            LET text == Snprintf(len, <<Plain(117), Plain(110), Plain(105),
                            Plain(120), Plain(COLON), Directive("V", addr),
                            Directive("Z", 0)>>)
            IN SubSeq(text, 1, Len(text) - 1)
      [] OTHER -> <<>>

-----------------------------------------------------------------------------
(***************************************************************************)
(* hky_parse_url and hky_inet_resolve_host of src/core/hky_inet.c 327-867. *)
(* A URL is given with the fields its caller sets: listen, uri_part,       *)
(* no_resolve and default_port.  Allocations may fail: `allocs' is how     *)
(* many of them the pool grants.  `answer' is what the resolver says: a    *)
(* sequence of addresses, each with its family; the empty one stands for   *)
(* an error of getaddrinfo or gethostbyname.                               *)
(***************************************************************************)
None == <<>>        \* a field of hky_url_t that is not set

Failed(err) == [ok |-> FALSE, err |-> err]

Parsing(family, u) ==
    [ok |-> TRUE, err |-> "none", family |-> family, host |-> None, uri |-> None,
     port_text |-> None, port |-> 0, no_port |-> FALSE, wildcard |-> FALSE,
     addr |-> AddrAny, addrs |-> <<>>]

IsPort(n) == n \in 1..65535

Address(family, addr, name) == [family |-> family, addr |-> addr, name |-> name]

(* "%V:%d" of the host and the port.                                       *)
HostAndPort(host, port) ==
    Sprintf(<<Directive("V", host), Plain(COLON), Directive("d", port)>>)

-----------------------------------------------------------------------------
(* hky_inet_resolve_host with getaddrinfo: a copy of the host, the array,  *)
(* then for each address the socket address and its name; IPv4 addresses   *)
(* come first, other families are passed over.                             *)
ResolveBoth(v, answer, allocs) ==
    LET known == SelectSeq(answer, LAMBDA r : r.family = "inet")
                 \o SelectSeq(answer, LAMBDA r : r.family = "inet6")
        strlen(f) == IF f = "inet" THEN InetStrLen + PortLen
                     ELSE Inet6StrLen + PortLen + 2
    IN IF allocs = 0 THEN Failed("none")
       ELSE IF known = <<>> THEN Failed("host not found")
       ELSE IF allocs < 2 + 2 * Len(known) THEN Failed("none")
       ELSE [v EXCEPT !.addrs = [i \in DOMAIN known |->
                Address(known[i].family, known[i].addr,
                        SockNtop(known[i].family, known[i].addr, v.port,
                                 strlen(known[i].family), TRUE))]]

(* The same with gethostbyname, which knows IPv4 only.  A host that is an  *)
(* address is not looked up.                                               *)
ResolveInet(v, answer, allocs) ==
    LET literal == InetAddr(v.host)
    IN IF literal /= AddrNone
       THEN IF allocs < 3 THEN Failed("none")
            ELSE [v EXCEPT !.addrs = <<Address("inet", literal,
                                               HostAndPort(v.host, v.port))>>]
       ELSE IF allocs = 0 THEN Failed("none")
       ELSE IF answer = <<>> THEN Failed("host not found")
       ELSE IF allocs < 2 + 2 * Len(answer) THEN Failed("none")
       ELSE [v EXCEPT !.addrs = [i \in DOMAIN answer |->
                Address("inet", answer[i].addr,
                        SockNtop("inet", answer[i].addr, v.port,
                                 InetStrLen + PortLen, TRUE))]]

InetResolveHost(v, answer, allocs) ==
    IF HaveInet6 THEN ResolveBoth(v, answer, allocs)
    ELSE ResolveInet(v, answer, allocs)

-----------------------------------------------------------------------------
AnyAddr(a) == \A i \in DOMAIN a : a[i] = 0

(* The end of hky_parse_inet_url, with the host known.  The family and the *)
(* address of a resolved URL are those of the first address.               *)
FirstOfThem(resolved) ==
    IF ~resolved.ok THEN resolved
    ELSE LET first == resolved.addrs[1]
         IN [resolved EXCEPT !.family = first.family, !.addr = first.addr,
                             !.wildcard = AnyAddr(first.addr)]

KnownHost(v, literal, allocs) ==
    IF allocs < 3 THEN Failed("none")
    ELSE [v EXCEPT !.wildcard = AnyAddr(literal), !.addr = literal,
                   !.addrs = <<Address("inet", literal, HostAndPort(v.host, v.port))>>]

InetHost(u, v, answer, allocs) ==
    LET literal == InetAddr(v.host)
    IN IF v.host = <<>> THEN Failed("no host")
       ELSE IF u.listen /\ v.host = <<42>> THEN [v EXCEPT !.wildcard = TRUE]
       ELSE IF literal /= AddrNone THEN KnownHost(v, literal, allocs)
       ELSE IF u.no_resolve THEN [v EXCEPT !.addr = AddrNone]
       ELSE FirstOfThem(InetResolveHost(v, answer, allocs))

(* A mutant: a ':' behind the '/' is taken for the one of the port.        *)
ParseInetUrlLateColon(u, answer, allocs) ==
    LET url   == u.url
        colon == Strlchr(url, COLON)
        uri   == Strlchr(url, SLASH)
        last  == IF uri = NotFound THEN Len(url) ELSE uri - 1
        text  == IF colon = NotFound THEN None ELSE SubSeq(url, colon + 1, last)
        v     == [Parsing("inet", u) EXCEPT
                    !.uri = IF uri = NotFound THEN None ELSE Rest(url, uri - 1),
                    !.port_text = text, !.no_port = colon = NotFound,
                    !.port = IF colon = NotFound THEN u.default_port ELSE Atoi(text),
                    !.host = Prefix(url, IF colon = NotFound THEN last ELSE colon - 1)]
    IN IF colon /= NotFound /\ ~IsPort(Atoi(text)) THEN Failed("invalid port")
       ELSE InetHost(u, v, answer, allocs)

(* hky_parse_inet_url: the first '/' or '?' starts the URI; a ':' before   *)
(* it starts the port.  Of a URL to listen at, a number alone is a port.   *)
BeforeUri(u, v, url, colon, answer, allocs) ==
    LET text == Rest(url, IF colon = NotFound THEN 0 ELSE colon)
        n    == Atoi(text)
        bare == colon = NotFound /\ v.uri = None /\ u.listen /\ n /= Error
    IN IF (colon /= NotFound \/ bare) /\ ~IsPort(n) THEN Failed("invalid port")
       ELSE IF bare THEN [v EXCEPT !.port = n, !.port_text = text, !.wildcard = TRUE]
       ELSE InetHost(u, IF colon /= NotFound
                        THEN [v EXCEPT !.port = n, !.port_text = text,
                                       !.host = Prefix(url, colon - 1)]
                        ELSE [v EXCEPT !.port = u.default_port, !.no_port = TRUE,
                                       !.host = text],
                     answer, allocs)

ParseInetUrl(u, answer, allocs) ==
    LET url  == u.url
        uri  == FirstStart({Strlchr(url, SLASH), Strlchr(url, QUESTION)}
                               \ {NotFound})
        last == IF uri = NotFound THEN Len(url) ELSE uri - 1
    IN IF uri /= NotFound /\ (u.listen \/ ~u.uri_part) THEN Failed("invalid host")
       ELSE BeforeUri(u, [Parsing("inet", u) EXCEPT
                            !.uri = IF uri = NotFound THEN None ELSE Rest(url, uri - 1)],
                      Prefix(url, last), Strlchr(Prefix(url, last), COLON),
                      answer, allocs)

-----------------------------------------------------------------------------
(* hky_parse_unix_domain_url: the path behind "unix:", up to the next ':'  *)
(* if a URI may follow.  The name of the address is the URL up to there.   *)
ParseUnixUrl(u, allocs) ==
    LET rest  == Rest(u.url, 5)
        colon == IF u.uri_part THEN Strlchr(rest, COLON) ELSE NotFound
        path  == IF colon = NotFound THEN rest ELSE Prefix(rest, colon - 1)
    IN IF ~HaveUnix
       THEN Failed("the unix domain sockets are not supported on this platform")
       ELSE IF path = <<>> THEN Failed("no path in the unix domain socket")
       ELSE IF Len(path) + 1 > SunPath
       THEN Failed("too long path in the unix domain socket")
       ELSE IF allocs < 2 THEN Failed("none")
       ELSE [Parsing("unix", u) EXCEPT
                !.host = path, !.addr = Cpystrn(path, Len(path) + 1),
                !.uri = IF colon = NotFound THEN None ELSE Rest(rest, colon),
                !.addrs = <<Address("unix", Cpystrn(path, Len(path) + 1),
                                    Prefix(u.url, Len(path) + 1 + 4))>>]

(* hky_parse_inet6_url: the host stands in brackets; behind them come the  *)
(* port and the URI.                                                       *)
Inet6Host(v, addr, allocs) ==
    IF addr = NotInet6 THEN Failed("invalid IPv6 address")
    ELSE IF allocs < 3 THEN Failed("none")
    ELSE [v EXCEPT !.addr = addr, !.wildcard = AnyAddr(addr),
                   !.addrs = <<Address("inet6", addr, HostAndPort(v.host, v.port))>>]

InBrackets(u, host, port, uri, allocs) ==
    LET text  == Rest(port, 1)
        n     == Atoi(text)
        inner == SubSeq(host, 2, Len(host) - 1)
    IN IF \/ uri /= None /\ (u.listen \/ ~u.uri_part)
          \/ port /= <<>> /\ port[1] /= COLON
       THEN Failed("invalid host")
       ELSE IF port /= <<>> /\ ~IsPort(n) THEN Failed("invalied port")
       ELSE IF inner = <<>> THEN Failed("no host")
       ELSE Inet6Host([Parsing("inet6", u) EXCEPT
                         !.host = host, !.uri = uri, !.no_port = port = <<>>,
                         !.port = IF port = <<>> THEN u.default_port ELSE n,
                         !.port_text = IF port = <<>> THEN None ELSE text],
                      Inet6Addr(inner), allocs)

ParseInet6Url(u, allocs) ==
    LET close  == Strlchr(u.url, 93)
        behind == Rest(u.url, close)
        slash  == Strlchr(behind, SLASH)
    IN IF ~HaveInet6
       THEN Failed("the INET6 socket are not supported on the platform")
       ELSE IF close = NotFound THEN Failed("invalid host")
       ELSE IF slash = NotFound
       THEN InBrackets(u, Prefix(u.url, close), behind, None, allocs)
       ELSE InBrackets(u, Prefix(u.url, close), Prefix(behind, slash - 1),
                       Rest(behind, slash - 1), allocs)

UnixPrefix == <<117, 110, 105, 120, COLON>>     \* "unix:"

ParseUrl(u, answer, allocs) ==
    IF Len(u.url) >= 5 /\ Strncasecmp(u.url, UnixPrefix, 5) = 0
    THEN ParseUnixUrl(u, allocs)
    ELSE IF u.url /= <<>> /\ u.url[1] = 91
    THEN ParseInet6Url(u, allocs)
    ELSE ParseInetUrl(u, answer, allocs)

-----------------------------------------------------------------------------
(* A URL that was accepted is its parts put together again, and each part  *)
(* is what it should be.                                                   *)
Rejoined(u, v) ==
    IF v.family = "unix" THEN Prefix(u.url, 5) \o v.host
         \o (IF v.uri = None THEN <<>> ELSE <<COLON>> \o v.uri)
    ELSE v.host \o (IF v.no_port \/ v.host = None THEN <<>> ELSE <<COLON>>)
         \o v.port_text \o v.uri

PartsRight(u, v) ==
    /\ \/ Rejoined(u, v) = u.url
       \/ v.family = "unix" /\ u.url = Rejoined(u, v) \o <<COLON>>
    /\ v.family /= "unix" =>
          /\ IsPort(v.port)
          /\ v.port = IF v.no_port THEN u.default_port ELSE DecimalValue(v.port_text)
          /\ v.uri /= None => v.uri[1] \in {SLASH, QUESTION} /\ u.uri_part
          /\ v.family = "inet" =>
                ToSet(v.host) \cap {COLON, SLASH, QUESTION} = {}
    /\ v.wildcard => u.listen \/ \A i \in DOMAIN v.addr : v.addr[i] = 0

(* What a caller is given to connect to: every address has its whole name, *)
(* and a URL that was to be resolved has at least one.                     *)
AddrsRight(u, v) ==
    /\ v.addrs = <<>> => u.no_resolve \/ v.wildcard
    /\ \A i \in DOMAIN v.addrs :
          LET a == v.addrs[i]
          IN CASE a.family = "unix" -> a.name = Prefix(u.url, 5) \o CString(a.addr)
               [] a.family = "inet" ->
                    LET c == Strlchr(a.name, COLON)
                    IN /\ Len(a.name) <= Max({Len(v.host), InetStrLen}) + PortLen
                       /\ InetAddr(Prefix(a.name, c - 1)) = a.addr
                       /\ DecimalValue(Rest(a.name, c)) = v.port
               [] a.family = "inet6" ->
                    LET c == Strlchr(a.name, 93)
                    IN /\ Len(a.name) <= Inet6StrLen + PortLen + 2 /\ a.name[1] = 91
                       /\ ~EmbedsV4(a.addr) => Inet6Addr(SubSeq(a.name, 2, c - 1)) = a.addr
                       /\ a.name[c + 1] = COLON
                       /\ DecimalValue(Rest(a.name, c + 1)) = v.port
=============================================================================
