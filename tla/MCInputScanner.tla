----------------------------- MODULE MCInputScanner -----------------------------
(* Instance of InputScanner for TLC: texts put together from tokens. *)
EXTENDS InputScanner, SequencesExt

Marks == {<<"/", "*">>, <<"*", "/">>, <<"-", "-">>}
Wide == {<<"two", "cont">>, <<"wide", "cont">>, <<"mark", "cont", "cont">>, <<"cont">>, <<"two">>,
         <<"mark", "cont">>}
Single == {<<"space">>, <<"newline">>, <<";">>, <<"x">>, <<"/">>, <<"*">>, <<"-">>}

Texts(tokens, n) == {FlattenSeq(ts) : ts \in UNION {[1..k -> tokens] : k \in 0..n}}

\* Up to three tokens of all kinds, more of those that nest and end comments.
MCInputs ==
  Texts(Marks \union Wide \union Single, 3)
    \union Texts({<<"/", "*">>, <<"*", "/">>, <<"x">>, <<"/">>}, 6)
    \union Texts(Marks \union {<<"newline">>, <<"two", "cont">>}, 5)
=============================================================================
