------------------------------ MODULE HkyFormat -----------------------------
(***************************************************************************)
(* hky_vslprintf of src/core/hky_string.c 82-409, behind hky_sprintf,      *)
(* hky_snprintf and hky_slprintf.  A format is a sequence of directives    *)
(* with their arguments; what each character of a directive sets is        *)
(* Parsed, what the directive writes into the room that is left is Emit.   *)
(* Several branches write one byte without a test of their own: only the   *)
(* test of the loop stands before them.                                    *)
(***************************************************************************)
EXTENDS HkyNumbers

CONSTANTS
    IntWidth,       \* HKY_INT_T_LEN, the width that "m" asks for
    PointerWidth    \* 2 * sizeof(void *), of "%p"

ASSUME WidthAssumption == IntWidth \in Nat /\ PointerWidth \in Nat

Word == 2 * (MaxInt + 1)        \* values of the unsigned type of MaxInt

(* A directive: a character of the format, or conv with its flags.  The    *)
(* flags are those of "u", "m", "x" and "X" in their order; width and frac *)
(* are the numbers before and after the dot; arg is the argument, and len  *)
(* the one of "*" or NoLen.                                                *)
NoLen == -1
Plain(c) == [conv |-> "plain", arg |-> c]
Directive(conv, arg) ==
    [conv |-> conv, arg |-> arg, zero |-> FALSE, width |-> 0,
     flags |-> <<>>, frac |-> 0, len |-> NoLen]

(* The loop over the flags: "x" and "X" make a number unsigned as well.    *)
(* "O", "P", "T" and "r" are signed whatever the flags say.                *)
Parsed(d) ==
    LET flags == ToSet(d.flags)
        hexes == SelectSeq(d.flags, LAMBDA f : f \in {"x", "X"})
    IN [sign  |-> flags \cap {"u", "x", "X"} = {} \/ d.conv \in {"O", "P", "T", "r"},
        hex   |-> IF hexes = <<>> THEN 0
                  ELSE IF Last(hexes) = "x" THEN 1 ELSE 2,
        width |-> IF "m" \in flags /\ d.conv \in {"i", "A"} THEN IntWidth
                  ELSE d.width,
        pad   |-> IF d.zero THEN ZERO ELSE SPACE]

SignedNumbers == {"O", "P", "T", "r", "z", "i", "d", "l", "D", "L", "A"}

(* A mutant: the minus sign is not counted in the room that is left.       *)
EmitNumberMinusFree(room, d) ==
    LET p == Parsed(d)
    IN IF p.sign /\ d.arg < 0
       THEN <<DASH>> \o SprintfNum(room, -d.arg, p.pad, p.hex, p.width)
       ELSE SprintfNum(room, d.arg % Word, p.pad, p.hex, p.width)

(* The integers: the minus is written without a test, the loop's one       *)
(* stands for it; -i64 is taken as an unsigned number, so the smallest one *)
(* is right too.                                                           *)
EmitNumber(room, d) ==
    LET p == Parsed(d)
    IN IF p.sign /\ d.arg < 0
       THEN <<DASH>> \o SprintfNum(room - 1, -d.arg, p.pad, p.hex, p.width)
       ELSE SprintfNum(room, d.arg % Word, p.pad, p.hex, p.width)

(* "%M": -1 is HKY_CONF_UNSET_MSEC and printed signed, without the width   *)
(* having changed; everything else is unsigned.                            *)
EmitMsec(room, d) ==
    EmitNumber(room, IF d.arg = -1 THEN [d EXCEPT !.flags = <<>>]
                     ELSE [d EXCEPT !.flags = <<"u">> \o @])

(* "%f" of a number given in thousandths: the fraction is rounded to the   *)
(* places asked for, and a fraction that rounds up to one is carried.      *)
EmitFloat(room, d) ==
    LET f     == IF d.arg < 0 THEN -d.arg ELSE d.arg
        minus == IF d.arg < 0 THEN <<DASH>> ELSE <<>>
        scale == 10^d.frac
        near  == ((f % 1000) * scale + 500) \div 1000
        carry == d.frac > 0 /\ near = scale
        whole == IF carry THEN (f \div 1000) + 1 ELSE f \div 1000
        int   == minus \o SprintfNum(room - Len(minus), whole, Parsed(d).pad, 0,
                                     d.width)
        dot   == int \o (IF Len(int) < room THEN <<DOT>> ELSE <<>>)
    IN IF d.frac = 0 THEN int
       ELSE dot \o SprintfNum(room - Len(dot), IF carry THEN 0 ELSE near, ZERO,
                              0, d.frac)

(* "%V", "%v", "%s" and "%*s": a text, cut at the end of the buffer.       *)
EmitText(room, d) ==
    IF d.conv = "s" /\ d.len /= NoLen
    THEN Prefix(Prefix(d.arg, d.len), room)
    ELSE IF d.conv = "s" THEN Prefix(CString(d.arg), room)
    ELSE Prefix(d.arg, room)

Emit(room, d) ==
    CASE d.conv = "plain" -> <<d.arg>>
      [] d.conv \in SignedNumbers -> EmitNumber(room, d)
      [] d.conv = "M" -> EmitMsec(room, d)
      [] d.conv = "f" -> EmitFloat(room, d)
      [] d.conv = "p" -> SprintfNum(room, d.arg, ZERO, 2, PointerWidth)
      [] d.conv \in {"V", "v", "s"} -> EmitText(room, d)
      [] d.conv = "c" -> <<d.arg % 256>>
      [] d.conv = "Z" -> <<NUL>>
      [] d.conv = "N" -> <<10>>
      [] d.conv = "%" -> <<PERCENT>>

(* The loop ends with the format or with the buffer.                       *)
Vslprintf(room, fmt) ==
    FoldLeft(LAMBDA buf, d : IF Len(buf) < room
                             THEN buf \o Emit(room - Len(buf), d) ELSE buf,
             <<>>, fmt)

(* hky_snprintf and hky_slprintf are given the end of the buffer, in       *)
(* hky_sprintf it is the end of the address space.                         *)
Endless == 1000
Sprintf(fmt) == Vslprintf(Endless, fmt)
Snprintf(max, fmt) == Vslprintf(max, fmt)

-----------------------------------------------------------------------------
(* What a directive should print, where nothing is cut: the number that    *)
(* the digits of the text stand for, with the sign that goes with it.      *)
Unpadded(text) ==
    LET kept == {i \in DOMAIN text : text[i] \notin {SPACE, DASH, ZERO}}
    IN IF kept = {} THEN <<>> ELSE SubSeq(text, Min(kept), Len(text))

PrintedNumber(text) ==
    IF text /= <<>> /\ text[1] = DASH
    THEN -DecimalValue(Unpadded(text)) ELSE DecimalValue(Unpadded(text))

=============================================================================
