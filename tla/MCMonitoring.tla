------------------------------ MODULE MCMonitoring ------------------------------
(***************************************************************************)
(* Small instances of Monitoring for TLC.                                  *)
(***************************************************************************)
EXTENDS Monitoring, TLC

CONSTANTS t1, t2, d1

TwoThreads == {t1, t2}
OneDecoy == {d1}
SomeDeployments == {{}, {d1}}
OneDeployment == {{d1}}
Counts == {0, 2}
ThreadSymmetry == Permutations(TwoThreads)
=============================================================================
