------------------------------ MODULE MCHkyText -----------------------------
(* HkyText with the largest integer 2^17 - 1, so that ports are far from it  *)
(* and the other types, smaller still, overflow within three digits.         *)
EXTENDS HkyText

UpTo(set, n) == UNION {[1..k -> set] : k \in 0..n}
Before(head, set) == {head \o t : t \in set}

NumberChars == {48, 49, 50, 55, 57, 102, DOT}
MCLines == UpTo(NumberChars, 3)
           \cup Before(<<49, 51, 49>>, UpTo(NumberChars, 3))    \* 131...
           \cup Before(<<49, 102>>, UpTo(NumberChars, 4))       \* 0x1f...
MCNumbers == 0..300 \cup {4095, 4096, 9999, 10000, 65535, 65536, 99999, 131071}

Args == {-131072, -130, -1, 0, 7, 42, 131071}
FlagSeqs == {<<>>, <<"u">>, <<"x">>, <<"X">>, <<"x", "X">>, <<"m">>}
Integral == {[Directive(c, a) EXCEPT !.zero = z, !.width = w, !.flags = f] :
                c \in {"i", "d", "O", "M"}, a \in Args, z \in BOOLEAN,
                w \in {0, 3, 9}, f \in FlagSeqs}
Floats == {[Directive("f", a) EXCEPT !.zero = z, !.width = w, !.frac = r] :
              a \in {-1999, -500, 0, 4, 49, 50, 949, 950, 999, 1500, 12345, 9995},
              z \in BOOLEAN, w \in {0, 4}, r \in 0..3}
TextDirs == {Directive("V", <<97, 98, 99>>), Directive("v", <<>>),
             Directive("s", <<97, 98, NUL, 99>>),
             [Directive("s", <<97, 98, 99>>) EXCEPT !.len = 2],
             Directive("p", 48879), Directive("c", 300), Directive("Z", 0),
             Directive("N", 0), Directive("%", 0), Plain(113)}
Few == {Directive("d", -130), [Directive("d", 7) EXCEPT !.width = 3],
        [Directive("f", -1999) EXCEPT !.frac = 1]} \cup TextDirs
MCFormats == {<<d>> : d \in Integral \cup Floats \cup TextDirs}
             \cup {<<d, e>> : d \in Few, e \in Few}
             \cup {<<d, e, f>> : d \in Few, e \in TextDirs, f \in Few}

MCBlobs == UpTo({0, 1, 63, 128, 255}, 4)
MCBase64Texts == UpTo({65, 47, 95, 57, EQUALS, 33}, 5)
MCCharacters == UpTo({65, 128, 2047, 2048, 65535, 65536, 1114111}, 3)
MCRawTexts == UpTo({65, 128, 191, 193, 194, 224, 240, 255}, 4) \ {<<>>}
MCBehinds == {<<>>, <<65, 66>>, <<128, 128, 128>>, <<195, 169, 65>>}
MCPlains == UpTo({1, 10, 31, SPACE, QUOTE, PERCENT, 38, 50, 60, QUESTION, 92, 97,
                  127, 200}, 2)
            \cup {<<38, a, b, 59>> : a \in {103, 108, QUOTE}, b \in {116, 62}}
            \cup [1..3 -> {8, 11, PERCENT, 51, 70}]
MCQuoteds == UpTo({PERCENT, 50, 51, 55, 102, 70, QUESTION, 103}, 4)
             \cup Before(<<PERCENT>>, UpTo({PERCENT, 50, 51, 102, QUESTION}, 4))

MCNames == UpTo({65, 97, 66, 95, DOT, DASH, SLASH}, 2)
           \cup Before(<<97, DOT>>, [1..2 -> {97, DOT, SLASH}])
MCHaystacks == UpTo({97, 65, 98}, 5) \cup [1..3 -> {200, 97}]
MCNeedles == (UpTo({97, 65, 98}, 3) \ {<<>>}) \cup {<<200>>, <<200, 97>>}

Keys == {[hash |-> h, str |-> s] : h \in {1, 2}, s \in {<<97>>, <<98>>, <<97, 97>>}}
MCNameLists == UpTo(Keys, 4) \cup {k \in [1..6 -> Keys] :
                                     Cardinality({k[i] : i \in 1..6}) = 6}

Groups == {<<>>, <<48>>, <<50>>, <<50, 53, 53>>, <<50, 53, 54>>, <<48, 48, 55>>, <<120>>}
Dots(s) == FlattenSeq([i \in DOMAIN s |-> IF i = 1 THEN s[i] ELSE <<DOT>> \o s[i]])
MCInetTexts == {Dots(s) : s \in UpTo(Groups, 4) \cup [1..5 -> {<<50>>, <<>>}]}
MCInets == [1..4 -> {0, 1, 10, 192, 255}]
MCInet6Texts == UpTo({COLON, 49, 102, DOT}, 5)
                \cup Before(<<49, COLON, 50, COLON, 51, COLON, 52, COLON, 53>>,
                            UpTo({COLON, 54}, 6))
Bytes16(w) == FlattenSeq([i \in DOMAIN w |-> <<w[i] \div 256, w[i] % 256>>])
MCInet6s == {Bytes16(w) : w \in [1..8 -> {0, 1, 65535}]}

UrlTexts == UpTo({COLON, SLASH, QUESTION, 42, 97, 55}, 4)
            \cup {<<97, COLON, 54, 53, 53, 51>> \o t :
                    t \in UpTo({53, 54, SLASH, QUESTION}, 2)}
            \cup Before(<<49, DOT, 50, DOT, 51, DOT>>, UpTo({52, COLON, SLASH}, 3))
            \cup Before(<<48, DOT, 48, DOT, 48, DOT, 48>>, UpTo({55, COLON}, 2))
            \cup Before(UnixPrefix, UpTo({97, COLON, SLASH}, 4))
            \cup Before(<<91>>, UpTo({COLON, 49, 93, SLASH}, 5))
MCUrls == {[url |-> t, listen |-> l, uri_part |-> p, no_resolve |-> n,
            default_port |-> 80] :
              t \in UrlTexts, l \in BOOLEAN, p \in BOOLEAN, n \in BOOLEAN}
Known(f, a) == [family |-> f, addr |-> a]
MCAnswers == {<<>>,
              <<Known("inet6", [i \in 1..16 |-> i]), Known("inet", <<127, 0, 0, 1>>)>>,
              <<Known("other", <<>>), Known("inet", AddrAny)>>}

Around(d) == d - 70..d + 400
MCDays == 0..1600 \cup Around(47482) \cup Around(84006) \cup Around(120530)
          \cup Around(157054) \cup (LastDay - 800)..(LastDay + 2)

(* Arguments and variables one behind the other as the kernel puts them, or  *)
(* with a gap of one byte before the gap-th text; 12 bytes for the variables *)
(* lie behind them.                                                          *)
Image(args, vars_, gap, title) ==
    LET texts == args \o vars_
        bytes(i) == (IF i = gap THEN <<33>> ELSE <<>>) \o texts[i] \o <<NUL>>
        all   == FlattenSeq([i \in DOMAIN texts |-> bytes(i)])
        starts == [i \in DOMAIN texts |->
                     Len(FlattenSeq([j \in 1..i |-> bytes(j)])) - Len(texts[i])]
    IN  [mem |-> all \o Repeat(33, 12), place |-> Len(all) + 1, title |-> title,
         argv |-> SubSeq(starts, 1, Len(args)),
         environ |-> SubSeq(starts, Len(args) + 1, Len(texts))]
Texts == {<<>>, <<97>>, <<98, 61, 99>>}
MCTitles == {Image(a, e, g, t) : a \in UpTo(Texts, 2) \ {<<>>}, e \in UpTo(Texts, 3),
                                 g \in {0, 2, 3, 4}, t \in {<<>>, <<100>>, <<101, 102, 103>>}}

PathTexts == UpTo({SLASH, 97}, 3)
MCOptions == {[prefix |-> p, conf_file |-> c, cwd |-> d] :
                p \in {<<>>} \cup {<<t>> : t \in PathTexts},
                c \in {<<>>} \cup {<<t>> : t \in PathTexts},
                d \in {<<SLASH>>, <<SLASH, 99>>}}
MCInherits == UpTo({COLON, SEMICOLON, 51, 52, 120}, 5)

Dirs == {d \in Directory : d.exists \/ d = [exists |-> FALSE, owner |-> "self", rwx |-> FALSE]}
MCPaths == UNION {[dirs : [1..n -> Dirs], user : {"unset", "self", "user"},
                   fails : [1..n -> {{}, {"mkdir"}, {"stat"}, {"chown"}, {"chmod"},
                                     {"chown", "chmod"}}]] : n \in 0..2}
MCZoneSizes == PagesAt..PagesAt + 20 * PageSize
=============================================================================
