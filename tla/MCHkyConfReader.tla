--------------------------- MODULE MCHkyConfReader --------------------------
(* HkyConfReader with a buffer of four characters, over every text of up to  *)
(* three characters, alone and in the middle of a directive, of a quoted     *)
(* word and of a block, and over files that include others.                  *)
EXTENDS HkyConfReader

Chars == {"x", "n", " ", "\n", ";", "{", "}", "#", "\\", "\"", "'", "$", ")"}
Texts(n) == UNION {[1..k -> Chars] : k \in 0..n}

A == <<"x">>
B == <<"n">>
MCMain == <<"m">>
Words == {<<"x">>, <<"n">>}

MCCommands == <<
    [name |-> A, contexts |-> {"top"}, block |-> FALSE, counts |-> {1, 2}, sets |-> "value"],
    [name |-> B, contexts |-> {"top", "in"}, block |-> TRUE, counts |-> {1}, sets |-> "block", inside |-> "in"],
    [name |-> A, contexts |-> {"in"}, block |-> FALSE, counts |-> {1, 2, 3}, sets |-> "value"],
    [name |-> <<"$">>, contexts |-> {"top", "in"}, block |-> FALSE, counts |-> {2}, sets |-> "file"] >>

Around(before, texts, after) == {before \o t \o after : t \in texts}
Alone(text) == [name \in {MCMain} |-> text]
Including(text, included) ==
    [name \in {MCMain, A} |-> IF name = MCMain THEN text ELSE included]

MCTexts ==
    Texts(3)
    \cup Around(<<"x", " ">>, Texts(3), <<";">>)
    \cup Around(<<"x", "\"">>, Texts(3), <<"\"", ";">>)
    \cup Around(<<"n", "{">>, Texts(3), <<"x", ";", "}">>)

Include == <<"$", " ", "x", ";">>
Included == {<<>>, <<"x", ";">>, <<"n", "{", "}">>, <<"n", "{">>, <<"}">>, <<"x">>}

MCDisks ==
    {Alone(t) : t \in MCTexts}
    \cup {Including(m, i) : i \in Included,
                            m \in {Include, <<"n", "{">> \o Include \o <<"}">>,
                                   Include \o Include, Include \o <<"}">>}}

MCParams == {<<"x", ";">>, <<"x", " ", "x">>, <<"n", "{", "}">>, <<"\"", "x", "\n", "\"", ";">>}

MCInputs == {[param |-> <<>>, disk |-> d] : d \in MCDisks}
              \cup {[param |-> p, disk |-> Alone(Include)] : p \in MCParams}
=============================================================================
