------------------------------- MODULE HkyText ------------------------------
(***************************************************************************)
(* One call of the text functions of core/hky_string.c, core/hky_inet.c    *)
(* and core/hky_times.c, and of what is computed once at the start of the  *)
(* process: the initial state chooses the functions (fn) and their input,  *)
(* the step stores what they return.  The functions keep no state; what is *)
(* checked is their result against a definition that is not made of their  *)
(* steps: positional value, occurrence, lexicographic order, the inverse   *)
(* code, the grammar of a URL, the calendar, what the memory reads after.  *)
(***************************************************************************)
EXTENDS HkyInet, HkyCodec, HkyArithmetic, HkyStart

CONSTANTS
    Lines, Points,          \* texts to convert, decimal places to keep
    Numbers,                \* numbers to print and read back
    Formats, Rooms,         \* formats, sizes of the buffer
    Blobs, Base64Texts,     \* bytes to encode, texts to decode
    Characters, RawTexts,   \* code points, bytes that may be UTF-8
    Behinds,                \* what the memory holds behind a text, before NULs
    Plains, Quoteds,        \* texts to escape, texts with escapes
    Names, Haystacks, Needles,
    NameLists,              \* sequences of names with their hashes
    InetTexts, Inets,       \* texts and IPv4 addresses
    Inet6Texts, Inet6s,
    Urls, Answers,
    Days,
    Titles,                 \* memory with arguments and an environment, title
    Options,                \* prefix, configuration file, working directory
    Inherits,               \* values of the variable HUSKY
    Paths,                  \* directories, user, the calls that fail
    ZoneSizes

VARIABLES fn, input, result, returned

vars == <<fn, input, result, returned>>

UriTypes == {"uri", "args", "component", "html", "refresh", "memcached",
             "mail_auth"}

Init ==
    /\ result = <<>> /\ returned = FALSE
    /\ \/ fn = "convert"  /\ input \in Lines
       \/ fn = "print"    /\ input \in Numbers
       \/ fn = "format"   /\ input \in Formats
       \/ fn = "base64"   /\ input \in Blobs
       \/ fn = "unbase64" /\ input \in Base64Texts
       \/ fn = "utf8"     /\ input \in Characters
       \/ fn = "raw"      /\ input \in RawTexts
       \/ fn = "escape"   /\ input \in Plains
       \/ fn = "unescape" /\ input \in Quoteds
       \/ fn = "compare"  /\ input \in Names \X Names
       \/ fn = "search"   /\ input \in Haystacks \X Needles
       \/ fn = "tree"     /\ input \in NameLists
       \/ fn = "inet"     /\ input \in InetTexts
       \/ fn = "ntop"     /\ input \in Inets
       \/ fn = "inet6"    /\ input \in Inet6Texts
       \/ fn = "ntop6"    /\ input \in Inet6s
       \/ fn = "url"      /\ input \in Urls
       \/ fn = "date"     /\ input \in Days
       \/ fn = "title"    /\ input \in Titles
       \/ fn = "options"  /\ input \in Options
       \/ fn = "inherit"  /\ input \in Inherits
       \/ fn = "paths"    /\ input \in Paths
       \/ fn = "zone"     /\ input \in ZoneSizes

Call(name) ==
    /\ fn = name /\ ~returned
    /\ returned' = TRUE
    /\ UNCHANGED <<fn, input>>

Convert ==
    /\ Call("convert")
    /\ result' = [atoi |-> Atoi(input), atosz |-> Atosz(input),
                  atoof |-> Atoof(input), atotm |-> Atotm(input),
                  hextoi |-> Hextoi(input),
                  atofp |-> [p \in Points |-> Atofp(input, p)]]

PrintNumber ==
    /\ Call("print")
    /\ result' = [decimal |-> SprintfNum(20, input, ZERO, 0, 0),
                  hex |-> SprintfNum(20, input, ZERO, 1, 5),
                  capital |-> SprintfNum(20, input, ZERO, 2, 0),
                  dump |-> HexDump(<<input \div 65536, (input \div 256) % 256,
                                     input % 256>>)]

Format == Call("format") /\ result' = [room \in Rooms |-> Vslprintf(room, input)]

Base64 ==
    /\ Call("base64")
    /\ result' = <<EncodeBase64(input), EncodeBase64Url(input)>>

Unbase64 ==
    /\ Call("unbase64")
    /\ result' = <<DecodeBase64(input), DecodeBase64Url(input)>>

(* The code points encoded; utf8_cpystrn copies 0 to 3 of them.            *)
Utf8Encode(u) ==
    CASE u < 128   -> <<u>>
      [] u \in 128..2047 -> <<192 + (u \div 64), 128 + (u % 64)>>
      [] u \in 2048..65535 -> <<224 + (u \div 4096), 128 + ((u \div 64) % 64),
                                128 + (u % 64)>>
      [] OTHER -> <<240 + (u \div 262144), 128 + ((u \div 4096) % 64),
                    128 + ((u \div 64) % 64), 128 + (u % 64)>>

Utf8Text(points) == FlattenSeq([i \in DOMAIN points |-> Utf8Encode(points[i])])

Utf8 ==
    /\ Call("utf8")
    /\ result' = [b \in Behinds |->
                    [length |-> Utf8Length(Utf8Text(input), b),
                     copies |-> [n \in 0..4 |-> Utf8Cpystrn(Utf8Text(input), b, n)]]]

Raw ==
    /\ Call("raw")
    /\ result' = [b \in Behinds |->
                    [decode |-> Utf8Decode(Memory(input, b), Len(input)),
                     length |-> Utf8Length(input, b), copy |-> Utf8Cpystrn(input, b, 3)]]

Escape ==
    /\ Call("escape")
    /\ result' = [uri  |-> [t \in UriTypes |-> EscapeUri(input, t)],
                  count |-> [t \in UriTypes |-> EscapeUriCount(input, t)],
                  html |-> EscapeHtml(input), htmlCount |-> EscapeHtmlCount(input),
                  json |-> EscapeJson(input), jsonCount |-> EscapeJsonCount(input)]

UnescapeTypes == {"any", "uri", "redirect"}

Unquote ==
    /\ Call("unescape")
    /\ result' = [t \in UnescapeTypes |-> UnescapeUri(input, t)]

Compare ==
    /\ Call("compare")
    /\ LET a == input[1]
           b == input[2]
           n == Min({Len(a), Len(b)})
       IN result' = [case |-> Strcasecmp(a, b), first |-> Strncasecmp(a, b, n),
                     back |-> Rstrncmp(a, b, n), backcase |-> Rstrncasecmp(a, b, n),
                     memn |-> Memn2cmp(a, b), dns |-> DnsStrcmp(a, b),
                     file |-> [k \in 0..3 |-> FilenameCmp(a, b, k)]]

Search ==
    /\ Call("search")
    /\ LET s1 == input[1]
           s2 == input[2]
       IN result' = [strnstr |-> [n \in 0..5 |-> Strnstr(s1, s2, n)],
                     strstrn |-> Strstrn(s1, s2, Len(s2) - 1),
                     strcasestrn |-> Strcasestrn(s1, s2, Len(s2) - 1),
                     strlcasestrn |-> Strlcasestrn(s1, s2, Len(s2) - 1)]

Lookup ==
    /\ Call("tree")
    /\ result' = [sought \in UNION {ToSet(l) : l \in NameLists} |->
                    StrRbtreeLookup(TreeOf(input), input, sought)]

Inet == Call("inet") /\ result' = InetAddr(input)

Ntop ==
    /\ Call("ntop")
    /\ result' = [plain |-> SockNtop("inet", input, 80, InetStrLen, FALSE),
                  port |-> SockNtop("inet", input, 65535, InetStrLen + PortLen, TRUE)]

Inet6 == Call("inet6") /\ result' = Inet6Addr(input)

Ntop6 ==
    /\ Call("ntop6")
    /\ result' = [plain |-> Inet6Ntop(input),
                  port |-> SockNtop("inet6", input, 65535, 53, TRUE)]

ParseUrls ==
    /\ Call("url")
    /\ result' = [c \in Answers \X {0, 2, 3, 9} |-> ParseUrl(input, c[1], c[2])]

Gmtime ==
    /\ Call("date")
    /\ result' = [today |-> Date(input), tomorrow |-> Date(input + 1),
                  wday |-> WeekDay(input), next |-> WeekDay(input + 1),
                  clock |-> Clock(CappedSecond(input, (input * 127) % 86400))]

Title ==
    /\ Call("title")
    /\ result' = Setproctitle(InitSetproctitle(input.mem, input.argv, input.environ,
                                              input.place),
                              input.argv, input.title)

\* The second result is the name, relative to the file, that follows.
OptionsAndNames ==
    /\ Call("options")
    /\ LET cycle == ProcessOptions(input.prefix, input.conf_file, input.cwd)
       IN result' = <<cycle, ConfFullName(cycle, <<120>>, TRUE),
                      ConfFullName(cycle, <<120>>, FALSE)>>

Inherit == Call("inherit") /\ result' = AddInheritedSockets(input)

MakePaths ==
    /\ Call("paths")
    /\ result' = CreatePaths(input.dirs, input.user, input.fails)

Zone == Call("zone") /\ result' = SlabInit(input)

Next ==
    \/ Convert \/ PrintNumber \/ Format
    \/ Base64 \/ Unbase64 \/ Utf8 \/ Raw \/ Escape \/ Unquote
    \/ Compare \/ Search \/ Lookup
    \/ Inet \/ Ntop \/ Inet6 \/ Ntop6 \/ ParseUrls
    \/ Gmtime
    \/ Title \/ OptionsAndNames \/ Inherit \/ MakePaths \/ Zone

Spec == Init /\ [][Next]_vars

Returned(name) == fn = name /\ returned

-----------------------------------------------------------------------------
(* A conversion returns the number that the line stands for, or HKY_ERROR  *)
(* if it stands for none or for one that the type does not hold: the tests *)
(* before each multiplication let through neither an overflow nor turn a   *)
(* number away that fits.  A number that is printed is read back.          *)
NumbersRight ==
    /\ Returned("convert") =>
          /\ result.atoi  = DecimalMeaning(input, MaxInt)
          /\ result.atosz = DecimalMeaning(input, MaxSize)
          /\ result.atoof = DecimalMeaning(input, MaxOff)
          /\ result.atotm = DecimalMeaning(input, MaxTime)
          /\ result.hextoi = HexMeaning(input)
          /\ \A p \in Points : result.atofp[p] = FixedPointMeaning(input, p)
    /\ Returned("print") =>
          /\ Atoi(result.decimal) = input
          /\ Hextoi(result.hex) = input
          /\ Hextoi(result.capital) = input
          /\ Hextoi(result.dump) = input

(* Formatting into a buffer writes what it would write into an endless one *)
(* and stops at its last byte, wherever the format is when the room ends:  *)
(* within a padding, behind the minus, before the point of a fraction.     *)
(* With room enough an integer of the format is printed as itself, and a   *)
(* fraction as the nearest one of its length.                              *)
FormatBounded ==
    Returned("format") =>
        LET whole == result[Max(Rooms)]
            d     == input[1]
        IN /\ \A room \in Rooms : result[room] = Prefix(whole, room)
           /\ Len(input) = 1 /\ d.conv \in (SignedNumbers \cup {"M"}) =>
                LET p == Parsed(d)
                    signed == IF d.conv = "M" THEN d.arg = -1 ELSE p.sign
                    n == IF signed THEN d.arg ELSE d.arg % Word
                IN p.hex = 0 => PrintedNumber(whole) = n /\ Len(whole) >= p.width
           /\ Len(input) = 1 /\ d.conv = "f" /\ d.frac \in 1..3 =>
                LET point == Strlchr(whole, DOT)
                    digits == SelectSeq(whole, LAMBDA c : IsDigit(c))
                    error == DecimalValue(digits) * 10^(3 - d.frac)
                                - (IF d.arg < 0 THEN -d.arg ELSE d.arg)
                IN /\ Len(whole) - point = d.frac
                   /\ 2 * error \in -(10^(3 - d.frac))..10^(3 - d.frac)

(* What is encoded is decoded again, and takes the room the caller was     *)
(* told to provide, byte for byte where the length is announced by a pass  *)
(* of its own.  Not decoded again is what is escaped for refresh, which    *)
(* leaves "%" as it is.                                                    *)
(* hky_utf8_decode accepts a character in its shortest form only and uses  *)
(* no more than the n bytes it is given, so what is behind them does not   *)
(* matter to it.  It does not matter to the length of a text of whole      *)
(* characters either; in one that is cut off hky_utf8_length reads up to   *)
(* three bytes beyond the end, which may decide what it returns, but never *)
(* more than there are bytes.  hky_utf8_cpystrn copies whole characters,   *)
(* those of the text as long as it has as many as are asked for or a NUL   *)
(* is behind it; else it goes on with what is there.                       *)
CodecsInvert ==
    /\ Returned("base64") =>
          /\ DecodeBase64(result[1]) = input
          /\ DecodeBase64Url(result[2]) = input
          /\ Len(result[1]) = Base64EncodedLength(Len(input))
          /\ Len(result[2]) <= Base64EncodedLength(Len(input))
    /\ Returned("unbase64") =>
          \A i \in 1..2 : Len(result[i]) <= Base64DecodedLength(Len(input))
                          \/ result[i] = Declined
    /\ Returned("utf8") =>
          \A b \in Behinds :
             /\ result[b].length = Len(input)
             /\ \A n \in 1..4 : n - 1 <= Len(input) \/ b = <<>> =>
                   result[b].copies[n] = Utf8Text(Prefix(input, n - 1)) \o <<NUL>>
    /\ Returned("raw") /\ input[1] >= 128 =>
          \A b \in Behinds :
             LET character == result[b].decode IN
             /\ character.used <= Len(input)
             /\ \A other \in Behinds : result[other].decode = character
             /\ IsCodePoint(character.point) =>
                   Len(Utf8Encode(character.point)) = character.used
    /\ Returned("raw") =>
          \A b \in Behinds :
             LET copied == Front(result[b].copy) IN
             /\ result[b].length <= Len(input)
             /\ IsPrefix(copied, input \o b) /\ Utf8Length(copied, <<>>) <= 2
    /\ Returned("escape") =>
          /\ \A t \in UriTypes :
                Len(result.uri[t]) = Len(input) + 2 * result.count[t]
          /\ \A t \in UriTypes \ {"refresh"} : UnescapeUri(result.uri[t], "any") = input
          /\ Len(result.html) = Len(input) + result.htmlCount
          /\ ReadHtml(result.html) = input
          /\ Len(result.json) = Len(input) + result.jsonCount
          /\ ReadJson(result.json) = input
    /\ Returned("unescape") =>
          /\ \A t \in UnescapeTypes : Len(result[t]) <= Len(input)
          /\ ToSet(input) \subseteq SPACE + 1..126 =>
                ToSet(result["redirect"]) \subseteq SPACE + 1..126

(* Each comparison is the lexicographic order under the ranks it gives the *)
(* bytes: case folded, a dot or a slash below everything but the end.  A   *)
(* search returns the first occurrence, and a name is found in a tree      *)
(* exactly when it was inserted.  Not so hky_strcasestrn for a needle that *)
(* starts with a byte from 128 on: as a signed char it is widened to what  *)
(* no byte of the text is, so that nothing is found.                       *)
OrdersSound ==
    /\ Returned("compare") =>
          LET a == input[1]
              b == input[2]
              n == Min({Len(a), Len(b)})
              up(s) == [i \in DOMAIN s |-> Upper(s[i])]
          IN /\ Sign(result.case) = Lexicographic(Strlow(a), Strlow(b))
             /\ Sign(result.first) = Lexicographic(Prefix(Strlow(a), n), Prefix(Strlow(b), n))
             /\ Sign(result.memn) = Lexicographic(a, b)
             /\ Sign(result.dns) = Lexicographic(DnsName(a), DnsName(b))
             /\ \A k \in 0..3 : Sign(result.file[k]) =
                    Lexicographic(FileName(Prefix(a, k)), FileName(Prefix(b, k)))
             /\ Sign(result.back) =
                    Lexicographic(Reverse(Prefix(a, n)), Reverse(Prefix(b, n)))
             /\ Sign(result.backcase) =
                    Lexicographic(Reverse(up(Prefix(a, n))), Reverse(up(Prefix(b, n))))
    /\ Returned("search") =>
          LET s1 == input[1]
              s2 == input[2]
          IN /\ \A n \in 0..5 : result.strnstr[n] = FirstOccurrence(Prefix(s1, n), s2)
             /\ result.strstrn = FirstOccurrence(s1, s2)
             /\ result.strlcasestrn = FirstOccurrence(Strlow(s1), Strlow(s2))
             /\ s2[1] < 128 =>
                    result.strcasestrn = FirstOccurrence(Strlow(s1), Strlow(s2))
    /\ Returned("tree") =>
          \A sought \in DOMAIN result :
             IF sought \in ToSet(input)
             THEN result[sought] \in DOMAIN input /\ input[result[sought]] = sought
             ELSE result[sought] = Absent

(* The four numbers of a dotted text, if it is one.                        *)
DottedMeaning(text) ==
    LET dots  == <<0>> \o SetToSortSeq({i \in DOMAIN text : text[i] = DOT},
                                       LAMBDA i, j : i < j) \o <<Len(text) + 1>>
        group(k) == SubSeq(text, dots[k] + 1, dots[k + 1] - 1)
    IN IF /\ Len(dots) = 5
          /\ \A i \in DOMAIN text : IsDigit(text[i]) \/ text[i] = DOT
          /\ \A k \in 1..4 : DecimalValue(group(k)) <= 255
       THEN [k \in 1..4 |-> DecimalValue(group(k))]
       ELSE AddrNone

(* Addresses are read for what they say, and the text of an address is     *)
(* read as that address again: an IPv6 address always if no IPv4 address   *)
(* is embedded in it.  The texts fit the lengths that callers allocate.    *)
(* An accepted URL is its parts put together; its host has no delimiter,   *)
(* its port is one, and the name of every address of it says that address  *)
(* and that port, with the same exception for embedded IPv4 addresses.     *)
AddressesRight ==
    /\ Returned("inet") => result = DottedMeaning(input)
    /\ Returned("ntop") =>
          /\ InetAddr(result.plain) = input
          /\ result.port = result.plain \o <<COLON, 54, 53, 53, 51, 53>>
    /\ Returned("inet6") /\ result /= NotInet6 =>
          /\ Len(result) = 16
          /\ ~EmbedsV4(result) => Inet6Addr(Inet6Ntop(result)) = result
    /\ Returned("ntop6") =>
          /\ Len(result.plain) <= Inet6StrLen
          /\ Len(result.port) <= Inet6StrLen + PortLen + 2
          /\ ~EmbedsV4(input) => Inet6Addr(result.plain) = input
    /\ Returned("url") =>
          \A c \in DOMAIN result : result[c].ok =>
             PartsRight(input, result[c]) /\ AddrsRight(input, result[c])

(* The date of every day is the one after that of the day before, from the *)
(* epoch on, across ends of months, leap days and centuries; weekdays go   *)
(* around, and later times stay at the last second of the year 9999.       *)
DatesRight ==
    Returned("date") =>
        /\ input = 0 => result.today = Epoch /\ result.wday = 4
        /\ input < LastDay =>
              /\ result.tomorrow = NextDate(result.today)
              /\ result.next = (result.wday + 1) % 7
        /\ input >= LastDay =>
              /\ result.today = [year |-> 9999, mon |-> 12, mday |-> 31]
              /\ input > LastDay => result.clock = [hour |-> 23, min |-> 59, sec |-> 59]
        /\ result.clock.hour \in 0..23
        /\ result.clock.min \in 0..59 /\ result.clock.sec \in 0..59

(* The title overwrites the arguments and the environment, and yet every   *)
(* variable reads as before.  A name relative to the configuration file    *)
(* stands beside it, and one relative to the prefix behind the prefix; but *)
(* if that file is directly under the root, its directory is overlooked    *)
(* and the name stands behind the prefix as well.                          *)
(* The sockets taken over are those before the first part of the variable  *)
(* that is none.  After success all directories are usable, after an error *)
(* those behind the first that is not are untouched.  The pages of a zone  *)
(* lie inside it.                                                          *)
SetUpRight ==
    /\ Returned("title") =>
          TitleRight(input.mem, result, input.argv, input.environ, input.place, input.title)
    /\ Returned("options") =>
          LET cycle == result[1]
          IN /\ \/ result[2] = DirectoryOf(cycle.conf_file) \o <<120>>
                \/ DirectoryOf(cycle.conf_file) = <<SLASH>> /\ result[2] = result[3]
             /\ IsPrefix(cycle.prefix, result[3])
             /\ cycle.prefix # <<>> => Last(cycle.prefix) = SLASH
    /\ Returned("inherit") => result = InheritedMeaning(input)
    /\ Returned("paths") =>
          LET usable == {i \in DOMAIN result.dirs : Usable(result.dirs[i], input.user)}
          IN IF result.rc = "ok" THEN usable = DOMAIN result.dirs
             ELSE \E k \in DOMAIN result.dirs :
                    /\ input.fails[k] # {} /\ 1..(k - 1) \subseteq usable
                    /\ \A i \in DOMAIN result.dirs : i > k => result.dirs[i] = input.dirs[i]
    /\ Returned("zone") => PagesFit(result, input)

=============================================================================
