----------------------------- MODULE MCDeployment -----------------------------
(***************************************************************************)
(* Small instances of Deployment for TLC.  The plans include one that      *)
(* draws the same name twice; the settings include another OU, a policy    *)
(* that fails and a flag that is off.                                      *)
(***************************************************************************)
EXTENDS Deployment, TLC

CONSTANTS t1, t2, a, b, ou1, ou2

TwoThreads == {t1, t2}
TwoNames == {a, b}
SomePlans == {<<a, b>>, <<a, a>>}
TwoOus == {ou1, ou2}
SomeSettings ==
  {[ou |-> ou1, enabled |-> TRUE, compliant |-> TRUE],
   [ou |-> ou2, enabled |-> TRUE, compliant |-> FALSE],
   [ou |-> ou1, enabled |-> FALSE, compliant |-> TRUE]}
ThreadSymmetry == Permutations(TwoThreads)
=============================================================================
