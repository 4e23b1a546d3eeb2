----------------------------- MODULE MCPrintf -------------------------------
(***************************************************************************)
(* Model checking of Printf: texts put together from fragments, among them *)
(* unfinished and wrong conversions.  An int has five bits and a long      *)
(* eight, so that two digits hold every hexadecimal number and int, as     *)
(* sixteen do with 32 and 64 bits; of the longs one has three digits.      *)
(***************************************************************************)
EXTENDS Printf

Good == {<<"a">>, <<"%", "4", "d">>, <<"%", "0", "4", "l", "d">>,
         <<"%", "2", "s">>, <<"%", "c">>}
Odd == {<<"b", "a">>, <<"%">>, <<"%", "l", "u">>, <<"%", "h", "h", "x">>,
        <<"%", "-", "1", "0", "l", "l", "x">>, <<"%", "0", "2">>,
        <<"l", "s">>, <<"%", "u">>}

MCTexts ==
  {<<>>} \cup Good \cup Odd
  \cup {x \o y : x, y \in Good \cup Odd}
  \cup {x \o y \o z : x, y, z \in Good}
  \cup {<<"%", "c", "a", "%", "c", "a">>,
        <<"a", "%", "c", "a", "%", "d", "b">>,
        <<"%", "c", "%", "c", "a", "%", "c", "%", "c">>}

MCCharacters == {"a", "b", "%", "0", "1", "2", "4", ".", "-", "l", "h",
                 "d", "u", "x", "s", "c", "y", "z"}
MCStrings == {<<>>, <<"y", "z", "y">>}
MCChars == {<<"y">>}
MCInts == {0, -16}
MCLongs == {-99, 7, 100}

=============================================================================
