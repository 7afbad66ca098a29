--------------------------- MODULE MCEditHistory ---------------------------
(* An instance of EditHistory for TLC: two bytes, one of them zero.        *)
EXTENDS EditHistory

Bits == {0, 1}
Some == {<<>>, <<0>>, <<1>>, <<1, 0, 1>>}
=============================================================================
