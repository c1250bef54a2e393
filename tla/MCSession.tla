------------------------------- MODULE MCSession -------------------------------
(***************************************************************************)
(* A small instance of Session for TLC: one profile with a hypervisor, one *)
(* without an LDAP host, and the settings without a hypervisor.            *)
(***************************************************************************)
EXTENDS Session, TLC

CONSTANTS t1, t2, b1, b2

TwoThreads == {t1, t2}
TwoBrowsers == {b1, b2}
P(n, host, hv) == [name |-> n, host |-> host, hypervisor |-> hv]
SomeProfiles == {P(1, TRUE, TRUE), P(2, FALSE, FALSE)}
OldProfiles == {P(1, TRUE, TRUE)}
TheSettings == P(3, TRUE, FALSE)
Symmetry == Permutations(TwoThreads) \cup Permutations(TwoBrowsers)
=============================================================================
