--------------------------- MODULE MCDirectoryImport ---------------------------
(***************************************************************************)
(* A small instance of DirectoryImport for TLC: three users, a group and   *)
(* a trust; one membership shown by the user, one only listed by the group.  *)
(***************************************************************************)
EXTENDS DirectoryImport, TLC

CONSTANTS t1, t2

TwoThreads == {t1, t2}
SomeEntries == 1 .. 5
SomeDirectories == {1 .. 5, {2, 4}}
TheirCategory == <<"users", "users", "users", "groups", "trusts">>
SomeMembers ==
  {[entry |-> 1, group |-> 4, shown |-> TRUE, exact |-> FALSE],
   [entry |-> 2, group |-> 4, shown |-> FALSE, exact |-> TRUE]}
Symmetry == Permutations(TwoThreads)
=============================================================================
