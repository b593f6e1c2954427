--------------------------- MODULE HkyConfReader ----------------------------
(* The parser of configuration files (core/hky_conf_file.c): a token reader  *)
(* that sees a file through a buffer of fixed size, and hky_conf_parse, which *)
(* the handlers of blocks and of included files enter again.  The -g option  *)
(* is read first, then the main file.  Positions count characters; those in  *)
(* the buffer count from its start.                                          *)
EXTENDS Integers, Sequences, SequencesExt, FiniteSets

CONSTANTS
    Inputs,         \* what stands behind -g, and the files, a function from their names
    Main,           \* the name of the main file
    Buffer,         \* HKY_CONF_BUFFER
    Commands,       \* the directives of all modules, in the order of the modules
    Garbage,        \* what an uninitialised stat may say of a size
    TopContext      \* module_type and cmd_type at the start

\* A directive has a name, the contexts it is allowed in, whether it opens a
\* block, how many words it may have, and what its handler does with the rest.
ASSUME ConfAssumption ==
    /\ Buffer \in Nat \ {0} /\ Garbage \subseteq Nat
    /\ \A i \in Inputs : Main \in DOMAIN i.disk
    /\ \A i \in DOMAIN Commands :
         /\ Commands[i].sets \in {"value", "block", "file"}
         /\ Commands[i].block <=> Commands[i].sets = "block"
         /\ Commands[i].sets = "file" => 1 \notin Commands[i].counts

-----------------------------------------------------------------------------
(* The text of a configuration as its reader should see it: whole, one       *)
(* character after the other, without a window.  A token is what one call of *)
(* hky_conf_read_token is to return: the words up to ";" or "{", a "}", the   *)
(* end of the text, or an error.                                             *)

Blank == {" ", "\t", "\r", "\n"}

(* What a backslash before a character stands for. *)
Control == [t |-> "\t", r |-> "\r", n |-> "\n"]
Escape(ch) ==
    IF ch \in DOMAIN Control THEN <<Control[ch]>>
    ELSE IF ch \in {"\"", "'", "\\"} THEN <<ch>>
    ELSE <<"\\", ch>>

(* A reader between two characters.  "word" is the word it is in, "dollar"   *)
(* holds after a dollar sign and the braces that follow it.                  *)
Fresh == [mode |-> "gap", escaped |-> FALSE, dollar |-> FALSE,
          word |-> <<>>, words |-> <<>>, rc |-> "more", used |-> 0]

WordDone(r, mode) == [r EXCEPT !.mode = mode, !.words = Append(@, r.word), !.word = <<>>]

Ended(r, ch) ==
    [r EXCEPT !.rc = IF r.words = <<>> THEN "error"
                     ELSE IF ch = ";" THEN "ok" ELSE "block_start"]

(* Within a word, bare or in quotes. *)
InText(r, ch) ==
    IF ch = "\\" THEN [r EXCEPT !.escaped = TRUE, !.dollar = FALSE]
    ELSE [r EXCEPT !.word = Append(@, ch),
                   !.dollar = ch = "$" \/ (ch = "{" /\ r.dollar)]

InGap(r, ch) ==
    CASE ch \in Blank -> r
      [] ch = "#" -> [r EXCEPT !.mode = "comment"]
      [] ch \in {";", "{"} -> Ended(r, ch)
      [] ch = "}" -> [r EXCEPT !.rc = IF r.words = <<>> THEN "block_done" ELSE "error"]
      [] ch \in {"\"", "'"} -> [r EXCEPT !.mode = ch]
      [] OTHER -> InText([r EXCEPT !.mode = "bare"], ch)

InBare(r, ch) ==
    CASE ch = "{" /\ r.dollar -> InText(r, ch)
      [] ch \in Blank -> WordDone(r, "gap")
      [] ch \in {";", "{"} -> Ended(WordDone(r, "gap"), ch)
      [] OTHER -> InText(r, ch)

InQuotes(r, ch) == IF ch = r.mode THEN WordDone(r, "closed") ELSE InText(r, ch)

(* After a closing quote only a blank, an end or ")" may come. *)
AfterQuotes(r, ch) ==
    CASE ch \in Blank -> [r EXCEPT !.mode = "gap"]
      [] ch \in {";", "{"} -> Ended(r, ch)
      [] ch = ")" -> InText([r EXCEPT !.mode = "bare"], ch)
      [] OTHER -> [r EXCEPT !.rc = "error"]

InComment(r, ch) == IF ch = "\n" THEN [r EXCEPT !.mode = "gap"] ELSE r

Read(r, ch) ==
    LET s == [r EXCEPT !.used = @ + 1]
    IN  IF r.rc # "more" THEN r
        ELSE IF r.escaped THEN [s EXCEPT !.escaped = FALSE, !.word = @ \o Escape(ch)]
        ELSE CASE r.mode = "gap" -> InGap(s, ch)
               [] r.mode = "bare" -> InBare(s, ch)
               [] r.mode = "closed" -> AfterQuotes(s, ch)
               [] r.mode = "comment" -> InComment(s, ch)
               [] OTHER -> InQuotes(s, ch)

TokenAt(text, at) ==
    LET r == FoldLeft(Read, Fresh, SubSeq(text, at + 1, Len(text)))
        rest == r.words = <<>> /\ r.mode \in {"gap", "comment"}
    IN  IF r.rc # "more" THEN r
        ELSE [r EXCEPT !.rc = IF rest THEN "file_done" ELSE "error"]

(* The blocks that are open after the tokens from a place on, when "depth"   *)
(* are open there; -1 for a text that does not nest.                         *)
RECURSIVE DepthAfter(_, _, _)
DepthAfter(text, at, depth) ==
    LET t == TokenAt(text, at)
    IN  IF t.rc = "file_done" THEN depth
        ELSE IF t.rc = "error" \/ (t.rc = "block_done" /\ depth = 0) THEN -1
        ELSE DepthAfter(text, at + t.used,
                        CASE t.rc = "block_start" -> depth + 1
                          [] t.rc = "block_done" -> depth - 1
                          [] OTHER -> depth)

Nests(text) == DepthAfter(text, 0, 0) = 0

-----------------------------------------------------------------------------
(* The parser.                                                               *)

VARIABLES
    param, disk,    \* the texts
    stack,          \* the calls of hky_conf_parse in progress, the last is the innermost
    files,          \* cf->conf_file, the last; before it those in "prev"
    scan,           \* the locals of hky_conf_read_token
    token,          \* what it returned last
    failing,        \* hky_conf_parse is on its way out with an error
    state           \* "param", "main", "ok" or "error"

vars == <<param, disk, stack, files, scan, token, failing, state>>

NoToken == [rc |-> "none"]
None == <<>>          \* the name of the -g text
Top(s) == s[Len(s)]
Pop(s) == SubSeq(s, 1, Len(s) - 1)
Least(a, b) == IF a <= b THEN a ELSE b

Frame(type, context) == [type |-> type, context |-> context]

(* hky_conf_param has the text in its buffer, and a file of no size. *)
ParamFile ==
    [name |-> None, size |-> 0, offset |-> 0, data |-> param, pos |-> 0, line |-> 0, at |-> 0]
OpenedFile(name, size) ==
    [name |-> name, size |-> size, offset |-> 0, data |-> <<>>, pos |-> 0, line |-> 1, at |-> 0]

(* hky_conf_read_token up to its loop. *)
NewScan(f) ==
    [on |-> {"last_space"}, start |-> f.pos, start_line |-> f.line, args |-> <<>>,
     from |-> f.at]

Init ==
    /\ \E input \in Inputs : param = input.param /\ disk = input.disk
    /\ files = <<ParamFile>>
    /\ stack = <<Frame("param", TopContext)>>
    /\ scan = NewScan(ParamFile)
    /\ token = NoToken
    /\ failing = FALSE
    /\ state = "param"

-----------------------------------------------------------------------------
(* hky_conf_read_token *)

file == Top(files)
Reading == stack # <<>> /\ token = NoToken /\ ~failing

Returns(rc) == token' = [rc |-> rc, args |-> scan.args, used |-> file.at - scan.from,
                         line |-> file.line]

Empty == file.pos = Len(file.data)
Kept == file.pos - scan.start

EndOfInput ==
    /\ Reading /\ Empty /\ file.offset >= file.size
    /\ Returns(IF scan.args # <<>> \/ "last_space" \notin scan.on THEN "error" ELSE "file_done")
    /\ UNCHANGED <<param, disk, stack, files, scan, failing, state>>

(* Mutant: off by one. *)
BufferExceeded == Kept > Buffer

BufferFull == Kept = Buffer

TooLong ==
    /\ Reading /\ Empty /\ file.offset < file.size
    /\ BufferFull
    /\ files' = [files EXCEPT ![Len(files)].line = scan.start_line]
    /\ token' = [rc |-> "too_long", args |-> scan.args, used |-> file.at - scan.from,
                 line |-> scan.start_line]
    /\ UNCHANGED <<param, disk, stack, scan, failing, state>>

(* What was kept of the token moves to the front, and as much follows as     *)
(* there is room for.                                                        *)
Wanted == Least(file.size - file.offset, Buffer - Kept)

(* Mutant: what was kept is not moved. *)
RefilledInPlace ==
    [file EXCEPT !.data = SubSeq(@, 1, Kept)
                            \o SubSeq(disk[file.name], file.offset + 1, file.offset + Wanted),
                 !.pos = Kept,
                 !.offset = @ + Wanted]

Refilled ==
    [file EXCEPT !.data = SubSeq(@, scan.start + 1, file.pos)
                            \o SubSeq(disk[file.name], file.offset + 1, file.offset + Wanted),
                 !.pos = Kept,
                 !.offset = @ + Wanted]

Refill ==
    /\ Reading /\ Empty /\ file.offset < file.size
    /\ ~BufferFull
    /\ file.offset + Wanted <= Len(disk[file.name])
    /\ files' = [files EXCEPT ![Len(files)] = Refilled]
    /\ scan' = [scan EXCEPT !.start = 0]
    /\ UNCHANGED <<param, disk, stack, token, failing, state>>

(* The file is shorter than it was said to be. *)
RefillShort ==
    /\ Reading /\ Empty /\ file.offset < file.size
    /\ ~BufferFull
    /\ file.offset + Wanted > Len(disk[file.name])
    /\ Returns("unread")
    /\ UNCHANGED <<param, disk, stack, files, scan, failing, state>>

(* Any read may fail. *)
RefillFails ==
    /\ Reading /\ Empty /\ file.offset < file.size
    /\ ~BufferFull
    /\ Returns("unread")
    /\ UNCHANGED <<param, disk, stack, files, scan, failing, state>>

(* The second pass over a word, which copies it. *)
RECURSIVE Copy(_)
Copy(src) ==
    IF src = <<>> THEN <<>>
    ELSE IF Head(src) = "\\" /\ src[2] \in {"\"", "'", "\\"}
      THEN <<src[2]>> \o Copy(SubSeq(src, 3, Len(src)))
    ELSE IF Head(src) = "\\" /\ src[2] \in DOMAIN Control
      THEN <<Control[src[2]]>> \o Copy(SubSeq(src, 3, Len(src)))
    ELSE <<Head(src)>> \o Copy(Tail(src))

(* One character, which has been taken from the buffer, and the bits of the  *)
(* loop: [scan, rc].                                                         *)
More(s) == [scan |-> s, rc |-> "more"]
Done(s, rc) == [scan |-> s, rc |-> rc]
Bits(s, off, on) == [s EXCEPT !.on = (@ \ off) \cup on]

AfterSpace(s, ch, line) ==
    LET b == [s EXCEPT !.start = file.pos, !.start_line = line]
        word == Bits(b, {"last_space"}, {})
    IN  CASE ch \in Blank -> More(s)
          [] ch \in {";", "{"} ->
               Done(b, IF b.args = <<>> THEN "error" ELSE IF ch = "{" THEN "block_start" ELSE "ok")
          [] ch = "}" -> Done(b, IF b.args # <<>> THEN "error" ELSE "block_done")
          [] ch = "#" -> More(Bits(b, {}, {"sharp_comment"}))
          [] ch = "\\" -> More(Bits(word, {}, {"quoted"}))
          [] ch = "\"" -> More([Bits(word, {}, {"d_quoted"}) EXCEPT !.start = @ + 1])
          [] ch = "'" -> More([Bits(word, {}, {"s_quoted"}) EXCEPT !.start = @ + 1])
          [] ch = "$" -> More(Bits(word, {}, {"variable"}))
          [] OTHER -> More(word)

NeedsSpace(s, ch, line) ==
    LET spaced == Bits(s, {"need_space"}, {"last_space"})
    IN  CASE ch \in Blank -> More(spaced)
          [] ch = ";" -> Done(s, "ok")
          [] ch = "{" -> Done(s, "block_start")
          [] ch = ")" -> AfterSpace(spaced, ch, line)
          [] OTHER -> Done(s, "error")

(* Whether a character ends the word, and the bits after it. *)
Quote(s) == IF "d_quoted" \in s.on THEN "\"" ELSE IF "s_quoted" \in s.on THEN "'" ELSE "none"
EndsWord(s, ch) == IF Quote(s) # "none" THEN ch = Quote(s) ELSE ch \in Blank \cup {";", "{"}
WordEnded(s) ==
    LET bits == IF Quote(s) # "none" THEN Bits(s, {"d_quoted", "s_quoted"}, {"need_space"})
                ELSE Bits(s, {}, {"last_space"})
    IN  [bits EXCEPT !.args = Append(@, Copy(SubSeq(file.data, s.start + 1, file.pos)))]

WithinWord(s, ch) ==
    LET b == Bits(s, {"variable"}, {})
    IN  CASE ch = "{" /\ "variable" \in s.on -> More(s)
          [] ch = "\\" -> More(Bits(b, {}, {"quoted"}))
          [] ch = "$" -> More(Bits(b, {}, {"variable"}))
          [] EndsWord(b, ch) ->
               Done(WordEnded(b), CASE ch = ";" -> "ok" [] ch = "{" -> "block_start" [] OTHER -> "more")
          [] OTHER -> More(b)

Loop(ch, line) ==
    LET s == IF ch = "\n" THEN Bits(scan, {"sharp_comment"}, {}) ELSE scan
    IN  IF "sharp_comment" \in s.on THEN More(s)
        ELSE IF "quoted" \in s.on THEN More(Bits(s, {"quoted"}, {}))
        ELSE IF "need_space" \in s.on THEN NeedsSpace(s, ch, line)
        ELSE IF "last_space" \in s.on THEN AfterSpace(s, ch, line)
        ELSE WithinWord(s, ch)

ReadChar ==
    /\ Reading /\ ~Empty
    /\ LET ch == file.data[file.pos + 1]
           line == IF ch = "\n" THEN file.line + 1 ELSE file.line
           r == Loop(ch, line)
       IN  /\ files' = [files EXCEPT ![Len(files)].pos = @ + 1,
                                     ![Len(files)].at = @ + 1,
                                     ![Len(files)].line = line]
           /\ scan' = r.scan
           /\ token' = IF r.rc = "more" THEN NoToken
                       ELSE [rc |-> r.rc, args |-> r.scan.args,
                             used |-> file.at + 1 - scan.from, line |-> line]
    /\ UNCHANGED <<param, disk, stack, failing, state>>

-----------------------------------------------------------------------------
(* hky_conf_handler: the first directive of that name that is allowed here   *)
(* decides, and may still be refused.                                        *)

Named == {i \in DOMAIN Commands : /\ Commands[i].name = token.args[1]
                                  /\ Top(stack).context \in Commands[i].contexts}
Command == Commands[CHOOSE i \in Named : \A j \in Named : i <= j]
Accepted ==
    /\ Named # {}
    /\ Command.block <=> token.rc = "block_start"
    /\ Len(token.args) \in Command.counts

(* The next call of hky_conf_read_token. *)
GoOn(fs) == scan' = NewScan(Top(fs)) /\ token' = NoToken

Directive == token.rc \in {"ok", "block_start"}
Refused == Top(stack).type = "param" /\ token.rc = "block_start"

Ignores == UNCHANGED <<param, disk, state>>
Fails == failing' = TRUE /\ token' = NoToken /\ UNCHANGED <<stack, files, scan>>

SetValue ==
    /\ Directive /\ ~Refused /\ Accepted /\ Command.sets = "value"
    /\ GoOn(files)
    /\ UNCHANGED <<stack, files, failing>> /\ Ignores

(* The handler of a directive that opens a block parses the block. *)
EnterBlock ==
    /\ Directive /\ ~Refused /\ Accepted /\ Command.sets = "block"
    /\ stack' = Append(stack, Frame("block", Command.inside))
    /\ GoOn(files)
    /\ UNCHANGED <<files, failing>> /\ Ignores

(* The beginning of hky_conf_parse for a file.  A stat that failed is only   *)
(* logged, and what the size then is, nobody knows.                          *)
Opens(name, context) ==
    \E size \in {Len(disk[name])} \cup Garbage :
      /\ stack' = Append(stack, Frame("file", context))
      /\ files' = Append(files, OpenedFile(name, size))
      /\ GoOn(files')

EnterFile ==
    /\ Directive /\ ~Refused /\ Accepted /\ Command.sets = "file"
    /\ \E name \in DOMAIN disk : token.args[2] = name /\ Opens(name, Top(stack).context)
    /\ UNCHANGED failing /\ Ignores

(* No such directive here, one that may not be so, a handler that answers    *)
(* with an error, or a file that cannot be opened.                           *)
DirectiveFails == Directive /\ Fails /\ Ignores

(* Mutant: the end of a file ends whatever is open. *)
EndsAnyway(type, rc) ==
    \/ rc = "block_done" /\ type = "block"
    \/ rc = "file_done"

(* A block ends with "}", and only a block; a file only where it ends. *)
Ends(type, rc) ==
    \/ rc = "block_done" /\ type = "block"
    \/ rc = "file_done" /\ type # "block"

(* hky_conf_parse leaves: it closes its file, and cf->conf_file is what it   *)
(* was.  The handler that entered it answers in the same way.                *)
Leaves ==
    /\ stack' = Pop(stack)
    /\ files' = IF Top(stack).type = "block" THEN files ELSE Pop(files)

EndParse ==
    /\ token # NoToken
    /\ Ends(Top(stack).type, token.rc)
    /\ Leaves
    /\ IF Len(stack) > 1 THEN GoOn(files') ELSE token' = NoToken /\ UNCHANGED scan
    /\ state' = IF Len(stack) = 1 /\ state = "main" THEN "ok" ELSE state
    /\ UNCHANGED <<param, disk, failing>>

(* Tokens that end no call of this type, and errors of the reader; and       *)
(* hky_close_file may fail.                                                  *)
ParseFails ==
    /\ token # NoToken /\ ~Directive
    /\ \/ ~Ends(Top(stack).type, token.rc) /\ Fails
       \/ /\ Ends(Top(stack).type, token.rc) /\ Top(stack).type = "file"
          /\ Leaves /\ failing' = TRUE /\ token' = NoToken /\ UNCHANGED scan
    /\ Ignores

Unwind ==
    /\ failing /\ stack # <<>>
    /\ Leaves
    /\ UNCHANGED <<param, disk, scan, token, failing, state>>

GiveUp ==
    /\ failing /\ stack = <<>> /\ state \in {"param", "main"}
    /\ state' = "error"
    /\ UNCHANGED <<param, disk, stack, files, scan, token, failing>>

(* After hky_conf_param, hky_init_cycle parses the main file. *)
StartMain ==
    /\ state = "param" /\ stack = <<>> /\ ~failing
    /\ state' = "main"
    /\ \/ Opens(Main, TopContext) /\ UNCHANGED failing
       \/ failing' = TRUE /\ UNCHANGED <<stack, files, scan, token>>
    /\ UNCHANGED <<param, disk>>

ReadToken == EndOfInput \/ TooLong \/ Refill \/ RefillShort \/ ReadChar
Handle == SetValue \/ EnterBlock \/ EnterFile \/ DirectiveFails \/ EndParse \/ ParseFails
GoesOn == ReadToken \/ Handle \/ Unwind \/ GiveUp \/ StartMain
Next == GoesOn \/ RefillFails

(* Nothing in the parser waits for anybody; no read has to fail. *)
Spec == Init /\ [][Next]_vars /\ WF_vars(GoesOn)

-----------------------------------------------------------------------------
Types == {"param", "file", "block"}
Bit == {"need_space", "last_space", "sharp_comment", "variable", "quoted", "s_quoted", "d_quoted"}

TypeOK ==
    /\ \A i \in DOMAIN stack : stack[i].type \in Types
    /\ Len(files) = Cardinality({i \in DOMAIN stack : stack[i].type # "block"})
    /\ \A i \in DOMAIN files :
         LET f == files[i]
         IN  /\ f.name = None \/ (Len(f.data) <= Buffer /\ f.offset <= f.size)
             /\ f.pos \in 0..Len(f.data)
    /\ scan.on \subseteq Bit
    /\ stack # <<>> => scan.start \in 0..file.pos
    /\ failing \in BOOLEAN
    /\ state \in {"param", "main", "ok", "error"}

(* What the parser takes for the text of the file it is in. *)
Known(f) == IF f.name = None THEN param
            ELSE SubSeq(disk[f.name], 1, Least(f.size, Len(disk[f.name])))

LinesIn(text) == Cardinality({i \in DOMAIN text : text[i] = "\n"})

(* hky_conf_read_token returns what the text says, wherever the buffer ends   *)
(* and is filled again, with the line it is at; and it calls too long only   *)
(* what, with the comment or the blanks before it, fills the buffer.         *)
TokenRight ==
  /\ TypeOK
  /\ token # NoToken /\ token.rc # "unread" =>
      LET text == Known(file)
          t == TokenAt(text, scan.from)
          first == IF file.name = None THEN 0 ELSE 1
      IN  IF token.rc = "too_long" THEN t.used >= Buffer
          ELSE /\ token.rc = t.rc
               /\ token.used = t.used
               /\ token.rc # "error" => token.args = t.words
               /\ token.line = first + LinesIn(SubSeq(text, 1, scan.from + t.used))

(* A file is left without an error only when each block in it was closed in  *)
(* it: the recursion through the handlers of blocks and included files keeps *)
(* them apart.                                                               *)
AcceptsNested ==
    [][Len(files') < Len(files) /\ ~failing' => Nests(Known(file))]_vars

(* Every configuration is accepted or refused: the reader always gets on,    *)
(* also when a token fills the buffer to the last character.                 *)
Terminates == <>(state \in {"ok", "error"})
=============================================================================
