-------------------------------- MODULE MCPolicy --------------------------------
(***************************************************************************)
(* A small instance of Policy for TLC: the default prefix, one that a name *)
(* of the engine has in another case, one with a colon, and one with a     *)
(* plus sign, which a DN escapes.                                          *)
(***************************************************************************)
EXTENDS Policy

Nested == {<<"OU=Honey", "OU=Honey">>, <<"OU=Lab", "OU=Lab">>, <<"OU=Honey", "OU=Lab">>}
ExactPairs == {<<"hw_", "hw_">>, <<"file", "file">>, <<"h:", "h:">>, <<"h+", "h+">>}
PlusEscaped == [p \in {"h+"} |-> "h\\+"]
FoldedPairs == ExactPairs \cup {<<"FILE01", "file">>}
=============================================================================
