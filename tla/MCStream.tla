-------------------------------- MODULE MCStream --------------------------------
(***************************************************************************)
(* A small instance of Stream for TLC: of three events the second has an   *)
(* older timestamp than the first, or all have the same.                   *)
(***************************************************************************)
EXTENDS Stream

TwoClocks == {<<2, 1, 2>>, <<1, 1, 1>>}
=============================================================================
