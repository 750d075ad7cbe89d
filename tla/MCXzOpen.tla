------------------------------ MODULE MCXzOpen ------------------------------
(***************************************************************************)
(* Small instances of XzOpen for TLC: the modes fopen() knows and some it  *)
(* does not, some with a number behind a ":", levels at, inside and        *)
(* outside both ends of the range, one with the bit LZMA_PRESET_EXTREME,   *)
(* one that is a level again after its narrowing to Word, and memory       *)
(* limits.                                                                 *)
(***************************************************************************)
EXTENDS XzOpen

AllLetters ==
    {<<"r">>, <<"r", "b">>, <<"w">>, <<"w", "b">>, <<"r", "+">>, <<"w", "+">>, <<"r", "w">>,
     <<"a">>, <<"x", "w">>, <<"w", "x">>}

AllModes ==
    {[letters |-> l, number |-> <<>>] : l \in AllLetters}
    \cup [letters : {<<>>, <<"w">>, <<"w", "b">>}, number : {<<0>>, <<9>>}]
    \cup [letters : {<<"r">>, <<"w">>}, number : {<<-1>>, <<10>>}]

AllLevels == {-1, 0, 5, 9, 10, LZMA_PRESET_EXTREME + 5, Word + 5}

AllLimits == {-1, 0, 5, Word + 5}
=============================================================================
