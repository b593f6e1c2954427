--------------------------- MODULE HkyByteStream ----------------------------
(* What a connection promises: the reader gets a prefix of what was written, *)
(* what was written is a prefix of what was asked for, and an end of file    *)
(* means that there was no more.                                             *)
EXTENDS Naturals, Sequences

VARIABLES
    asked,      \* the bytes that are to be sent
    written,    \* how many of them the connection has taken
    state,      \* "open"; "closed" by the writer; "reset"
    got,        \* the bytes the reader has
    told,       \* what the reader knows: "open", "eof" or "error"
    lenient     \* the reader takes a reset for an end

vars == <<asked, written, state, got, told, lenient>>

Init ==
    /\ asked \in Seq(Nat)
    /\ written = 0
    /\ state = "open"
    /\ got = <<>>
    /\ told = "open"
    /\ lenient \in BOOLEAN

Write ==
    /\ state = "open"
    /\ written' \in (written + 1)..Len(asked)
    /\ UNCHANGED <<asked, state, got, told, lenient>>

Close ==
    /\ state = "open"
    /\ state' = "closed"
    /\ UNCHANGED <<asked, written, got, told, lenient>>

Reset ==
    /\ state # "reset"
    /\ state' = "reset"
    /\ UNCHANGED <<asked, written, got, told, lenient>>

Read ==
    /\ told = "open"
    /\ state # "reset"
    /\ \E n \in (Len(got) + 1)..written : got' = SubSeq(asked, 1, n)
    /\ UNCHANGED <<asked, written, state, told, lenient>>

(* Only a reader that was lenient about resets may take one for the end. *)
Tell ==
    /\ told = "open"
    /\ \/ told' = "eof" /\ state = "closed" /\ Len(got) = written
       \/ told' = "eof" /\ state = "reset" /\ lenient
       \/ told' = "error" /\ state = "reset"
    /\ UNCHANGED <<asked, written, state, got, lenient>>

Next == Write \/ Close \/ Reset \/ Read \/ Tell

Spec == Init /\ [][Next]_vars
=============================================================================
