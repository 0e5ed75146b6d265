---------------------------- MODULE MCAlgorithms ----------------------------
(* The inputs of Algorithms for TLC.                                       *)
EXTENDS Algorithms

Line(field, colon, space, value) ==
    [field |-> field, colon |-> colon, space |-> space, value |-> value]

MCLines ==
    {Blank, Line(<<>>, TRUE, FALSE, <<"u">>), Line(<<"other">>, TRUE, FALSE, <<"u">>)}
      \cup {Line(<<"data">>, TRUE, TRUE, v) : v \in {<<" ", "u">>, <<"u", ":", "v">>}}
      \cup {Line(<<"data">>, colon, FALSE, <<>>) : colon \in BOOLEAN}
      \cup {Line(<<"event">>, TRUE, FALSE, <<"a">>), Line(<<"id">>, TRUE, FALSE, <<"b">>),
            Line(<<"id">>, TRUE, TRUE, <<"c">>)}

MCStrings == {<<>>, <<1>>, <<2, 1>>}

Delicate == {32, 37, 43, 65, 200}
MCTexts == {<<b>> : b \in 1 .. 255} \cup UNION {[1 .. n -> Delicate] : n \in 0 .. 4}

WsFragments == {<<>>, <<5>>, <<3, 232>>, <<9, 8, 7, 6>>}
WsPayloads == WsFragments \cup {<<9, 8, 7, 6, 5>>}
=============================================================================
