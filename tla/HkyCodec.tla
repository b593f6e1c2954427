------------------------------ MODULE HkyCodec ------------------------------
(***************************************************************************)
(* Encodings of texts: src/core/hky_string.c 907-1135.  Shifts and masks   *)
(* of bytes are written as divisions and remainders.  The escape functions *)
(* are called twice, first without a destination to learn how much longer  *)
(* the text becomes, then to write it: an announced length that is too     *)
(* small is an overrun of the caller's memory.                             *)
(***************************************************************************)
EXTENDS HkyNumbers

-----------------------------------------------------------------------------
(* Base64.  The alphabets as sequences of bytes, digit 0 first.            *)
Letters == [i \in 1..26 |-> 64 + i] \o [i \in 1..26 |-> 96 + i]
           \o [i \in 1..10 |-> 47 + i]
Basis64    == Letters \o <<43, 47>>         \* "+/"
Basis64Url == Letters \o <<DASH, 95>>       \* "-_"
EQUALS == 61

(* The macros of hky_string.h that callers size the destination with.      *)
Base64EncodedLength(len) == ((len + 2) \div 3) * 4
Base64DecodedLength(len) == ((len + 3) \div 4) * 3

(* The sixes of bits of one to three bytes.                                *)
Sextets(s) ==
    CASE Len(s) = 1 -> <<s[1] \div 4, (s[1] % 4) * 16>>
      [] Len(s) = 2 -> <<s[1] \div 4, ((s[1] % 4) * 16) + (s[2] \div 16),
                         (s[2] % 16) * 4>>
      [] OTHER      -> <<s[1] \div 4, ((s[1] % 4) * 16) + (s[2] \div 16),
                         ((s[2] % 16) * 4) + (s[3] \div 64), s[3] % 64>>

(* The pieces of n elements that a loop over a text takes, the last one    *)
(* shorter if need be.                                                     *)
Pieces(text, n) ==
    [k \in 1..(Len(text) + n - 1) \div n |->
        SubSeq(text, n * (k - 1) + 1, Min({n * k, Len(text)}))]

(* hky_encode_base64_internal: a tail of one byte is padded with two '=',  *)
(* of two bytes with one; the URL form has no padding.                     *)
EncodeBase64Internal(src, basis, padding) ==
    LET tail == Len(src) % 3
        code == [k \in DOMAIN Pieces(src, 3) |->
                    LET sextets == Sextets(Pieces(src, 3)[k])
                    IN [i \in DOMAIN sextets |-> basis[sextets[i] + 1]]]
    IN FlattenSeq(code)
       \o (IF padding /\ tail /= 0 THEN Repeat(EQUALS, 3 - tail) ELSE <<>>)

EncodeBase64(src)    == EncodeBase64Internal(src, Basis64, TRUE)
EncodeBase64Url(src) == EncodeBase64Internal(src, Basis64Url, FALSE)

NotInBasis == 77
DigitOf(basis, c) ==
    IF \E i \in DOMAIN basis : basis[i] = c
    THEN (CHOOSE i \in DOMAIN basis : basis[i] = c) - 1
    ELSE NotInBasis

(* The bytes of two to four sixes of bits; bits left over are dropped.     *)
Octets(s) ==
    SubSeq(<<(s[1] * 4) + (s[2] \div 16),
             IF Len(s) > 2 THEN ((s[2] * 16) + (s[3] \div 4)) % 256 ELSE 0,
             IF Len(s) > 3 THEN ((s[3] * 64) + s[4]) % 256 ELSE 0>>, 1, Len(s) - 1)

Declined == <<-1>>      \* HKY_ERROR: no byte is -1

(* hky_decode_base64_internal: the text ends at the first '='; what is     *)
(* behind it is not looked at.  A single digit left over is an error.      *)
DecodeBase64Internal(src, basis) ==
    LET body == IF EQUALS \in ToSet(src)
                THEN Prefix(src, SelectInSeq(src, LAMBDA c : c = EQUALS) - 1)
                ELSE src
        digits == [i \in DOMAIN body |-> DigitOf(basis, body[i])]
        code == Pieces(digits, 4)
    IN IF NotInBasis \in ToSet(digits) \/ Len(body) % 4 = 1
       THEN Declined
       ELSE FlattenSeq([k \in DOMAIN code |-> Octets(code[k])])

DecodeBase64(src)    == DecodeBase64Internal(src, Basis64)
DecodeBase64Url(src) == DecodeBase64Internal(src, Basis64Url)

-----------------------------------------------------------------------------
(* UTF-8.  hky_utf8_decode reads one character of more than one byte at    *)
(* the start of a text of which n bytes are said to be left.  It returns a *)
(* code point and the bytes consumed; Invalid and Short are the return     *)
(* values 0xffffffff and 0xfffffffe, both beyond every code point.         *)
Invalid == -1
Short   == -2
IsCodePoint(u) == u \in 0..1114111      \* not "> 0x10ffff"

(* The tests of the first byte: how many bytes follow, the bits it gives   *)
(* itself, and the largest code point that fewer bytes could hold.         *)
Lead(c) ==
    CASE c >= 240 -> [len |-> 3, bits |-> c % 8,  valid |-> 65535]
      [] c \in 224..239 -> [len |-> 2, bits |-> c % 16, valid |-> 2047]
      [] c \in 194..223 -> [len |-> 1, bits |-> c % 32, valid |-> 127]
      [] OTHER -> [len |-> 0, bits |-> 0, valid |-> 0]

(* A continuation byte is only required to have its highest bit set.       *)
Utf8Decode(text, n) ==
    LET lead  == Lead(text[1])
        bad   == {i \in 2..lead.len + 1 : text[i] < 128}
        point == FoldLeft(LAMBDA u, i : u * 64 + (text[i] % 64), lead.bits,
                          [i \in 1..lead.len |-> i + 1])
    IN IF lead.len = 0 THEN [point |-> Invalid, used |-> 1]
       ELSE IF n - 1 < lead.len THEN [point |-> Short, used |-> 0]
       ELSE IF bad /= {} THEN [point |-> Invalid, used |-> Min(bad)]
       ELSE [point |-> IF point > lead.valid THEN point ELSE Invalid,
             used |-> lead.len + 1]

(* What a reader finds from the first byte of a text on: the text, what    *)
(* the memory holds behind it, and NULs after that.                        *)
Memory(text, behind) == text \o behind \o Repeat(NUL, 4)

(* hky_utf8_length: the number of characters, or of bytes if one of them   *)
(* is not a code point.  Every call is given n, the length of the whole    *)
(* text, so a character cut off by its end is read beyond it.              *)
Utf8Length(text, behind) ==
    LET n == Len(text)
        memory == Memory(text, behind)
        length[i \in 1..n + 4, len \in 0..n] ==
            LET c == Utf8Decode(SubSeq(memory, i, Len(memory)), n)
            IN IF i > n THEN len
               ELSE IF text[i] < 128 THEN length[i + 1, len + 1]
               ELSE IF ~IsCodePoint(c.point) THEN n
               ELSE length[i + c.used, len + 1]
    IN length[1, 0]

(* hky_utf8_cpystrn: at most n - 1 characters, up to a NUL or to what is   *)
(* not UTF-8.  Of the len bytes that are at src nothing but the call of    *)
(* hky_utf8_decode takes notice: the loop reads on behind them, and from   *)
(* there len, which has come to zero and then wraps, limits nothing.  The  *)
(* result is what stands at dst.                                           *)
Unlimited == 4          \* no character is longer

Utf8Cpystrn(src, behind, n) ==
    LET memory == Memory(src, behind)
        left(i) == IF i > Len(src) THEN Unlimited ELSE Len(src) - i + 1
        copy[i \in 1..Len(src) + Len(behind) + 1, k \in 0..n] ==
            LET c == Utf8Decode(SubSeq(memory, i, Len(memory)), left(i))
            IN IF k = 0 \/ memory[i] = NUL THEN <<NUL>>
               ELSE IF memory[i] < 128 THEN <<memory[i]>> \o copy[i + 1, k - 1]
               ELSE IF ~IsCodePoint(c.point) THEN <<NUL>>
               ELSE SubSeq(memory, i, i + c.used - 1) \o copy[i + c.used, k - 1]
    IN IF n = 0 THEN <<>> ELSE copy[1, n - 1]

-----------------------------------------------------------------------------
(***************************************************************************)
(* Escaping of texts: src/core/hky_string.c 1138-1579.  hky_escape_uri     *)
(* announces the number of bytes it escapes, each of which becomes three;  *)
(* hky_escape_html and hky_escape_json announce the bytes they add.  The   *)
(* announcing pass and the writing pass are separate loops in the code and *)
(* separate definitions here.                                              *)
(***************************************************************************)
-----------------------------------------------------------------------------
(* hky_escape_uri.  The bit maps as sets; every type escapes the control   *)
(* characters and the space, all but memcached what is not ASCII too.  The *)
(* comments on the maps list "%" for refresh, whose bit is not set, and    *)
(* leave out the ";" (59) of args, whose bit is.                           *)
Controls == 0..SPACE
Above    == 127..255

Escaped(type) ==
    CASE type = "uri"       -> Controls \cup Above \cup {35, 37, 63}
      [] type = "args"      -> Controls \cup Above \cup {35, 37, 38, 43, 59, 63}
      [] type = "component" ->
             0..255 \ ((48..57) \cup (65..90) \cup (97..122)
                       \cup {45, 46, 95, 126})
      [] type = "html"      -> Controls \cup Above \cup {34, 35, 37, 39}
      [] type = "refresh"   -> Controls \cup Above \cup {34, 39}
      [] type \in {"memcached", "mail_auth"} -> Controls \cup {37}

EscapeUriCount(src, type) ==
    Len(SelectSeq(src, LAMBDA c : c \in Escaped(type)))

EscapeUri(src, type) ==
    FlattenSeq([i \in DOMAIN src |->
        IF src[i] \in Escaped(type)
        THEN <<PERCENT, HexCapital(src[i] \div 16), HexCapital(src[i] % 16)>>
        ELSE <<src[i]>>])

(* hky_unescape_uri.  In "redirect" the escape of a byte that may not stand *)
(* in a header stays as it is; "uri" and "redirect" stop behind a '?'.     *)
Kept(type, c) == type /= "redirect" \/ c \in PERCENT + 1..126

Unescape(type, high, low, c) ==
    IF Kept(type, c) THEN <<c>> ELSE <<PERCENT, high, low>>

(* One step of its automaton on byte ch: a state is the mode, the first    *)
(* digit of the escape that is being read, what is written, and whether a  *)
(* '?' has ended it.  A '%' that is not an escape is dropped; behind a     *)
(* first digit the byte that is no digit is dropped as well.               *)
UnescapeStep(s, ch, type) ==
    LET byte == HexValue(s.digit) * 16 + HexValue(ch)
        stops == type \in {"uri", "redirect"}
    IN CASE s.done -> s
         [] ~s.done /\ s.mode = "usual" ->
                IF ch = QUESTION /\ stops
                THEN [s EXCEPT !.out = Append(@, ch), !.done = TRUE]
                ELSE IF ch = PERCENT THEN [s EXCEPT !.mode = "quoted"]
                ELSE [s EXCEPT !.out = Append(@, ch)]
         [] ~s.done /\ s.mode = "quoted" ->
                IF HexValue(ch) /= NotHex
                THEN [s EXCEPT !.mode = "second", !.digit = ch]
                ELSE [s EXCEPT !.mode = "usual", !.out = Append(@, ch)]
         [] ~s.done /\ s.mode = "second" ->
                IF HexValue(ch) = NotHex THEN [s EXCEPT !.mode = "usual"]
                ELSE IF byte = QUESTION /\ stops
                THEN [s EXCEPT !.out = Append(@, byte), !.done = TRUE]
                ELSE [s EXCEPT !.mode = "usual",
                               !.out = @ \o Unescape(type, s.digit, ch, byte)]

UnescapeUri(src, type) ==
    FoldLeft(LAMBDA s, ch : UnescapeStep(s, ch, type),
             [mode |-> "usual", digit |-> ZERO, out |-> <<>>, done |-> FALSE],
             src).out

-----------------------------------------------------------------------------
(* hky_escape_html.                                                        *)
HtmlEntity(c) ==
    CASE c = 60  -> <<38, 108, 116, 59>>              \* "&lt;"
      [] c = 62  -> <<38, 103, 116, 59>>              \* "&gt;"
      [] c = 38  -> <<38, 97, 109, 112, 59>>          \* "&amp;"
      [] c = 34  -> <<38, 113, 117, 111, 116, 59>>    \* "&quot;"
      [] OTHER   -> <<c>>

EscapeHtml(src) == FlattenSeq([i \in DOMAIN src |-> HtmlEntity(src[i])])

SumOver(src, cost(_)) == FoldLeft(LAMBDA sum, c : sum + cost(c), 0, src)

EscapeHtmlCount(src) ==
    LET added(c) == CASE c \in {60, 62} -> 3
                      [] c = 38 -> 4
                      [] c = 34 -> 5
                      [] OTHER -> 0
    IN SumOver(src, added)

-----------------------------------------------------------------------------
(* hky_escape_json.                                                        *)
BACKSLASH == 92

(* The control characters with an escape of their own, and its letter:     *)
(* \b, \t, \n, \f, \r.                                                     *)
ShortEscapes == {8, 9, 10, 12, 13}
ShortLetter(c) ==
    CASE c = 8 -> 98 [] c = 9 -> 116 [] c = 10 -> 110 [] c = 12 -> 102
      [] c = 13 -> 114

EscapeJsonByte(c) ==
    IF c \in {BACKSLASH, QUOTE} THEN <<BACKSLASH, c>>
    ELSE IF c > 31 THEN <<c>>
    ELSE IF c \in ShortEscapes THEN <<BACKSLASH, ShortLetter(c)>>
    ELSE <<BACKSLASH, 117, ZERO, ZERO, ZERO + (c \div 16), HexCapital(c % 16)>>

EscapeJson(src) == FlattenSeq([i \in DOMAIN src |-> EscapeJsonByte(src[i])])

(* A mutant: the announcing pass knows no escape of six bytes.             *)
EscapeJsonCountShort(src) ==
    LET added(c) == IF c \in {BACKSLASH, QUOTE} \/ c <= 31 THEN 1 ELSE 0
    IN SumOver(src, added)

EscapeJsonCount(src) ==
    LET added(c) == CASE c \in {BACKSLASH, QUOTE} \cup ShortEscapes -> 1
                      [] c \in (0..31) \ ShortEscapes -> 5
                      [] OTHER -> 0
    IN SumOver(src, added)

-----------------------------------------------------------------------------
(* What a reader of HTML or JSON makes of the text.  A reader takes the    *)
(* longest known escape at each position; Unreadable if there is none.     *)
Unreadable == <<-1>>

ReadWith(text, escape(_), Plain) ==
    LET read[i \in 1..Len(text) + 1] ==
            LET here == {c \in 0..127 :
                            /\ Len(escape(c)) > 1
                            /\ i + Len(escape(c)) - 1 <= Len(text)
                            /\ SubSeq(text, i, i + Len(escape(c)) - 1) = escape(c)}
                c == CHOOSE c \in here : TRUE
            IN IF i > Len(text) THEN <<>>
               ELSE IF here /= {} THEN <<c>> \o read[i + Len(escape(c))]
               ELSE IF text[i] \in Plain THEN <<text[i]>> \o read[i + 1]
               ELSE Unreadable
    IN read[1]

ReadHtml(text) == ReadWith(text, HtmlEntity, 0..255 \ {60, 62, 38, 34})
ReadJson(text) == ReadWith(text, EscapeJsonByte, (32..255) \ {BACKSLASH, QUOTE})
=============================================================================
