----------------------------- MODULE HkyNumbers -----------------------------
(***************************************************************************)
(* Bytes and texts as hky_string.c sees them: a byte is a number, a text   *)
(* is a sequence of bytes.  The codes used by more than one module have    *)
(* their names here, with the case folding and the hexadecimal digits that *)
(* many functions of the file repeat in line.                              *)
(***************************************************************************)
EXTENDS Integers, Sequences, FiniteSetsExt, SequencesExt

NUL     == 0
SPACE   == 32
QUOTE   == 34
PERCENT == 37
DASH    == 45
DOT     == 46
SLASH   == 47
ZERO    == 48
COLON   == 58
QUESTION == 63
SmallA  == 97

IsDigit(c) == c \in ZERO..ZERO + 9

(* hky_tolower, and the (c >= 'A' && c <= 'Z') ? (c | 0x20) : c of the     *)
(* comparisons.                                                            *)
Lower(c) == IF c \in 65..90 THEN c + 32 ELSE c

(* hky_toupper, and the c -= 'a' - 'A' of hky_rstrncasecmp.                *)
Upper(c) == IF c \in 97..122 THEN c - 32 ELSE c

NotHex == -1

(* The value of a hexadecimal digit; ch | 0x20 folds its case.             *)
HexValue(c) ==
    IF IsDigit(c) THEN c - ZERO
    ELSE IF Lower(c) \in SmallA..SmallA + 5 THEN Lower(c) - SmallA + 10
    ELSE NotHex

(* hex[n] and HEX[n] of the functions that write hexadecimal.              *)
HexDigit(n) == IF n < 10 THEN ZERO + n ELSE SmallA + n - 10
HexCapital(n) == Upper(HexDigit(n))

(* The first n bytes of a text, or all of it if it is shorter.             *)
Prefix(text, n) == SubSeq(text, 1, Min({n, Len(text)}))

Repeat(c, n) == [i \in 1..n |-> c]

(* A C string ends at its first NUL.                                       *)
CString(text) ==
    IF \E i \in DOMAIN text : text[i] = NUL
    THEN Prefix(text, SelectInSeq(text, LAMBDA c : c = NUL) - 1)
    ELSE text

(* hky_strlow: n bytes of src, each lower case.                            *)
Strlow(src) == [i \in DOMAIN src |-> Lower(src[i])]

(* hky_cpystrn: at most n - 1 bytes of src, and a NUL in any case; n = 0   *)
(* writes nothing.                                                         *)
Cpystrn(src, n) ==
    IF n = 0 THEN <<>> ELSE Prefix(CString(src), n - 1) \o <<NUL>>

-----------------------------------------------------------------------------
(***************************************************************************)
(* Numbers in texts: the conversions of src/core/hky_string.c.  Every      *)
(* integer type of the code has its largest value as a CONSTANT, so that   *)
(* the tests against overflow bite on short lines; HKY_ERROR is -1, which  *)
(* no conversion returns as a value.                                       *)
(***************************************************************************)
CONSTANTS
    MaxInt,     \* HKY_MAX_INT_T_VALUE
    MaxSize,    \* HKY_MAX_SIZE_T_VALUE, of ssize_t
    MaxOff,     \* HKY_MAX_OFF_T_VALUE
    MaxTime     \* HKY_MAX_TIME_T_VALUE

ASSUME LargestAssumption ==
    /\ {MaxInt, MaxSize, MaxOff, MaxTime} \subseteq Nat \ {0}
    /\ MaxInt % 16 = 15         \* 2^w - 1, w >= 4: hky_hextoi relies on it

Error == -1

-----------------------------------------------------------------------------
(* A mutant: the last digit is not compared with max % 10.                 *)
NextDecimalStrict(value, d, max) ==
    IF value >= max \div 10 THEN Error ELSE value * 10 + d

(* One digit more: value * 10 + d, unless that is beyond max.  The test is *)
(* made before the multiplication, with max / 10 and max % 10.             *)
NextDecimal(value, d, max) ==
    LET cutoff == max \div 10
        cutlim == max % 10
    IN IF value >= cutoff /\ (value > cutoff \/ d > cutlim)
       THEN Error
       ELSE value * 10 + d

(* The loop that the four decimal conversions share; after an error the    *)
(* rest of the line is not looked at.                                      *)
Decimal(line, max) ==
    LET step(value, c) == IF value = Error \/ ~IsDigit(c)
                          THEN Error
                          ELSE NextDecimal(value, c - ZERO, max)
    IN IF line = <<>> THEN Error ELSE FoldLeft(step, 0, line)

Atoi(line)  == Decimal(line, MaxInt)
Atosz(line) == Decimal(line, MaxSize)
Atoof(line) == Decimal(line, MaxOff)
Atotm(line) == Decimal(line, MaxTime)

(* hky_atofp: a decimal fraction as an integer with `point' decimal        *)
(* places.  `point' counts down the places still free, and is tested for   *)
(* every character, so that with point = 0 no line is accepted.  The       *)
(* places the line leaves free are filled with zeros at the end.           *)
Atofp(line, point) ==
    LET failed == [value |-> Error, dot |-> 0, point |-> 0]
        step(s, c) ==
            IF s.value = Error \/ s.point = 0 THEN failed
            ELSE IF c = DOT
                 THEN IF s.dot = 1 THEN failed ELSE [s EXCEPT !.dot = 1]
            ELSE IF ~IsDigit(c) \/ NextDecimal(s.value, c - ZERO, MaxInt) = Error
                 THEN failed
            ELSE [s EXCEPT !.value = NextDecimal(@, c - ZERO, MaxInt),
                           !.point = @ - s.dot]
        read == FoldLeft(step, [value |-> 0, dot |-> 0, point |-> point], line)
        scale(value, i) ==
            IF value = Error \/ value > MaxInt \div 10 THEN Error ELSE value * 10
    IN IF line = <<>> \/ read.value = Error THEN Error
       ELSE FoldLeft(scale, read.value, [i \in 1..read.point |-> i])

(* One hexadecimal digit more.  The value is compared with max / 16 only,  *)
(* which is enough because max % 16 is the largest digit.                  *)
NextHex(value, d, max) ==
    IF value > max \div 16 THEN Error ELSE value * 16 + d

(* hky_hextoi: the test of the value comes before each digit, that it is a *)
(* digit only after.                                                       *)
Hextoi(line) ==
    LET step(value, c) ==
            IF value = Error \/ HexValue(c) = NotHex THEN Error
            ELSE NextHex(value, HexValue(c), MaxInt)
    IN IF line = <<>> THEN Error ELSE FoldLeft(step, 0, line)

(* hky_hex_dump: two digits for each byte, the high one first.             *)
HexDump(src) ==
    FlattenSeq([i \in DOMAIN src |->
                    <<HexDigit(src[i] \div 16), HexDigit(src[i] % 16)>>])

-----------------------------------------------------------------------------
(* The digits of a number, most significant first; 0 has one digit.        *)
Digits(n, base) ==
    LET digits[k \in Nat] ==
            IF k < base THEN <<k>> ELSE Append(digits[k \div base], k % base)
    IN digits[n]

(* hky_sprintf_num: `hex' is 0 for decimal, 1 for "x", 2 for "X".  Padding *)
(* and digits stop at the end of the buffer, of which `room' is left.      *)
SprintfNum(room, n, zero, hex, width) ==
    LET digits == [i \in DOMAIN Digits(n, IF hex = 0 THEN 10 ELSE 16) |->
                     LET d == Digits(n, IF hex = 0 THEN 10 ELSE 16)[i]
                     IN IF hex = 2 THEN HexCapital(d) ELSE HexDigit(d)]
        pad    == Repeat(zero, Min({Max({width - Len(digits), 0}), room}))
    IN pad \o Prefix(digits, room - Len(pad))

-----------------------------------------------------------------------------
(* What the conversions should return, from the powers of ten.             *)
DecimalValue(line) ==
    LET n == Len(line)
    IN FoldLeft(LAMBDA sum, i : sum + (line[i] - ZERO) * 10^(n - i), 0,
                [i \in 1..n |-> i])

Fits(value, max) == IF value <= max THEN value ELSE Error

DecimalMeaning(line, max) ==
    IF line /= <<>> /\ \A i \in DOMAIN line : IsDigit(line[i])
    THEN Fits(DecimalValue(line), max)
    ELSE Error

HexMeaning(line) ==
    LET n == Len(line)
    IN IF line /= <<>> /\ \A i \in 1..n : HexValue(line[i]) /= NotHex
       THEN Fits(FoldLeft(LAMBDA sum, i : sum + HexValue(line[i]) * 16^(n - i),
                          0, [i \in 1..n |-> i]), MaxInt)
       ELSE Error

(* The line without its dot, times ten for each place it leaves free.      *)
FixedPointMeaning(line, point) ==
    LET dots   == {i \in DOMAIN line : line[i] = DOT}
        dot    == IF dots = {} THEN Len(line) ELSE Max(dots)
        places == Len(line) - dot
        digits == SelectSeq(line, LAMBDA c : c /= DOT)
    IN IF /\ line /= <<>>
          /\ point > 0
          /\ Cardinality(dots) <= 1
          /\ places <= point
          /\ \A i \in DOMAIN digits : IsDigit(digits[i])
       THEN Fits(DecimalValue(digits) * 10^(point - places), MaxInt)
       ELSE Error
=============================================================================
