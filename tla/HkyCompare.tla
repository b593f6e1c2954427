----------------------------- MODULE HkyCompare -----------------------------
(***************************************************************************)
(* Comparing and searching: src/core/hky_string.c 490-722.  Texts are      *)
(* C strings unless a length goes with them: reading past the last byte of *)
(* one finds its NUL.  A comparison returns a difference, of which callers *)
(* use the sign.                                                           *)
(***************************************************************************)
EXTENDS HkyNumbers

At(text, i) == IF i \in DOMAIN text THEN text[i] ELSE NUL

(* The position of the first difference among the first n bytes, a C       *)
(* string ending both; n + 1 if there is none.                             *)
FirstDifference(a, b, n) ==
    LET ends == {i \in 1..n : At(a, i) /= At(b, i) \/ At(a, i) = NUL}
    IN IF ends = {} THEN n + 1 ELSE Min(ends)

(* strncmp, and memcmp of texts that hold no NUL.                          *)
Strncmp(a, b, n) ==
    LET i == FirstDifference(a, b, n)
    IN IF i > n THEN 0 ELSE At(a, i) - At(b, i)

(* hky_strncasecmp and, with n beyond both ends, hky_strcasecmp.           *)
Strncasecmp(a, b, n) == Strncmp(Strlow(a), Strlow(b), n)

Strcasecmp(a, b) == Strncasecmp(a, b, Max({Len(a), Len(b)}) + 1)

(* hky_rstrncmp: the last difference of n bytes of memory decides.         *)
Rstrncmp(a, b, n) ==
    LET differ == {i \in 1..n : a[i] /= b[i]}
    IN IF differ = {} THEN 0 ELSE a[Max(differ)] - b[Max(differ)]

(* hky_rstrncasecmp folds to the upper case, not to the lower.             *)
Rstrncasecmp(a, b, n) ==
    Rstrncmp([i \in DOMAIN a |-> Upper(a[i])], [i \in DOMAIN b |-> Upper(b[i])], n)

(* hky_memn2cmp: the common length first, then the shorter is the smaller. *)
Memn2cmp(a, b) ==
    LET m == Strncmp(a, b, Min({Len(a), Len(b)}))
    IN IF m /= 0 \/ Len(a) = Len(b) THEN m
       ELSE IF Len(a) < Len(b) THEN -1 ELSE 1

(* hky_dns_strcmp: at the first difference a dot counts as a space, so     *)
(* that it is below every character of a label.                            *)
DnsStrcmp(a, b) ==
    LET rank(c) == IF c = DOT THEN SPACE ELSE c
        i == FirstDifference(Strlow(a), Strlow(b), Max({Len(a), Len(b)}) + 1)
    IN IF i > Max({Len(a), Len(b)}) + 1 THEN 0
       ELSE rank(At(Strlow(a), i)) - rank(At(Strlow(b), i))

(* A mutant: the slash is made 0 before the end of a name is looked for.   *)
FilenameCmpSlashFirst(a, b, n) ==
    LET rank(c) == IF c = SLASH THEN 0 ELSE c
        i == FirstDifference(a, b, n)
    IN IF i > n THEN 0 ELSE rank(At(a, i)) - rank(At(b, i))

(* hky_filename_cmp: at the first difference the end of a name comes       *)
(* first, then a slash, then every other byte.                             *)
FilenameCmp(a, b, n) ==
    LET rank(c) == IF c = SLASH THEN 0 ELSE c
        i == FirstDifference(a, b, n)
    IN IF i > n THEN 0
       ELSE IF At(a, i) = NUL \/ At(b, i) = NUL THEN At(a, i) - At(b, i)
       ELSE rank(At(a, i)) - rank(At(b, i))

-----------------------------------------------------------------------------
(* Searches return a position of s1, or NotFound.  Each looks for the      *)
(* first byte of s2 and compares the rest only there.                      *)
NotFound == 0

Rest(text, i) == SubSeq(text, i + 1, Len(text))

(* The first start at which the rest of s2 follows, the scan ending at     *)
(* `stop' or, in a C string, at the NUL.                                   *)
FirstStart(starts) == IF starts = {} THEN NotFound ELSE Min(starts)

(* hky_strnstr: within len bytes; where the rest of s2 does not fit any    *)
(* more, the search is over.                                               *)
Strnstr(s1, s2, len) ==
    FirstStart({i \in 1..Min({len, Len(s1)}) :
                    /\ s1[i] = s2[1]
                    /\ len - i >= Len(s2) - 1
                    /\ Strncmp(Rest(s1, i), Rest(s2, 1), Len(s2) - 1) = 0})

(* hky_strstrn: n is the length of s2 less one, and is not checked.        *)
Strstrn(s1, s2, n) ==
    FirstStart({i \in DOMAIN s1 :
                    /\ s1[i] = s2[1]
                    /\ Strncmp(Rest(s1, i), Rest(s2, 1), n) = 0})

(* hky_strcasestrn: s2 is plain char, which is signed here, so that a      *)
(* first byte beyond ASCII never equals one of s1.                         *)
Strcasestrn(s1, s2, n) ==
    IF s2[1] >= 128 THEN NotFound ELSE Strstrn(Strlow(s1), Strlow(s2), n)

(* hky_strlcasestrn: s1 is memory up to `last', so a match may not start   *)
(* in its last n bytes.                                                    *)
Strlcasestrn(s1, s2, n) ==
    FirstStart({i \in 1..Len(s1) - n :
                    /\ Lower(s1[i]) = Lower(s2[1])
                    /\ Strncasecmp(Rest(s1, i), Rest(s2, 1), n) = 0})

(* hky_strlchr: the first byte c of memory.                                *)
Strlchr(s, c) == FirstStart({i \in DOMAIN s : s[i] = c})

-----------------------------------------------------------------------------
(* What they should return: an order is lexicographic under a rank of the  *)
(* bytes, the end of a text being below them all; a search returns the     *)
(* first occurrence.                                                       *)
Sign(n) == IF n < 0 THEN -1 ELSE IF n > 0 THEN 1 ELSE 0

Lexicographic(a, b) ==
    LET common == Min({Len(a), Len(b)})
        differ == {i \in 1..common : a[i] /= b[i]}
    IN IF differ /= {} THEN Sign(a[Min(differ)] - b[Min(differ)])
       ELSE Sign(Len(a) - Len(b))

(* The names that a rank turns a text into, ready for Lexicographic.       *)
DnsName(text) ==
    [i \in DOMAIN text |-> IF text[i] = DOT THEN 0 ELSE Lower(text[i])]

FileName(text) ==
    [i \in DOMAIN text |-> IF text[i] = SLASH THEN 0 ELSE text[i]]

FirstOccurrence(s1, s2) ==
    FirstStart({i \in 1..Len(s1) - Len(s2) + 1 :
                    SubSeq(s1, i, i + Len(s2) - 1) = s2})

-----------------------------------------------------------------------------
(***************************************************************************)
(* Names in a red-black tree, the one of hky_string.c: a node is ordered   *)
(* by its hash, by the length of its name and by the bytes of the name,    *)
(* and a lookup descends by the same three.  A node is the number of its   *)
(* insertion; names[n] is its name with the hash it was given.             *)
(***************************************************************************)
Absent   == -1      \* NULL
Leaf     == 0       \* the sentinel of the tree

Tree == INSTANCE HkyRbtree WITH Nodes <- Nat \ {0}, Sentinel <- Leaf, NULL <- Absent

(* The comparison of hky_str_rbtree_lookup.                                *)
Order(a, b) ==
    IF a.hash /= b.hash THEN a.hash - b.hash
    ELSE IF Len(a.str) /= Len(b.str) THEN Len(a.str) - Len(b.str)
    ELSE Strncmp(a.str, b.str, Len(a.str))

(* That of hky_str_rbtree_insert_value: an equal name goes to the right.   *)
GoesLeft(a, b) ==
    \/ a.hash < b.hash
    \/ a.hash = b.hash /\ Len(a.str) < Len(b.str)
    \/ /\ a.hash = b.hash
       /\ Len(a.str) = Len(b.str)
       /\ Strncmp(a.str, b.str, Len(a.str)) < 0

StrRbtreeInsert(t, names, n) ==
    Tree!Insert(t, n, names[n].hash,
                {m \in 1..n - 1 : GoesLeft(names[n], names[m])})

TreeOf(names) ==
    FoldLeft(LAMBDA t, n : StrRbtreeInsert(t, names, n), Tree!EmptyTree,
             [n \in DOMAIN names |-> n])

(* The descent ends at the node or at the sentinel.                        *)
StrRbtreeLookup(t, names, sought) ==
    LET from[n \in {Leaf} \cup DOMAIN names] ==
            IF n = Leaf THEN Absent
            ELSE LET rc == Order(sought, names[n])
                 IN IF rc < 0 THEN from[t.child["left"][n]]
                    ELSE IF rc > 0 THEN from[t.child["right"][n]]
                    ELSE n
    IN from[t.root]
=============================================================================
