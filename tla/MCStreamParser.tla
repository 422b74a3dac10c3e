--------------------------- MODULE MCStreamParser ---------------------------
(* Instances of StreamParser for TLC: the messages are all objects with one *)
(* string of up to two characters, alone, after a nested object or in one.  *)
EXTENDS StreamParser

Piece == {<<>>, <<"other">>, <<"open">>, <<"close">>, <<"escape", "quote">>, <<"escape", "escape">>}

Text == {<<"quote">> \o a \o b \o <<"quote">> : a, b \in Piece}

Object(body) == <<"open">> \o body \o <<"close">>

Messages ==
    {Object(s) : s \in Text}
    \union {Object(Object(s)) : s \in Text}
    \union {Object(Object(<<>>) \o s) : s \in Text}
    \union {Object(<<>>)}
=============================================================================
