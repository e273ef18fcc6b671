---------------------------- MODULE MCMockRegistry ----------------------------
(* Three nodes that come to be bound to a name one after the other: enough  *)
(* for one to die, a second to be bound under a pending removal, and a      *)
(* third to be bound after it.                                              *)
EXTENDS MockRegistry

CONSTANTS n1, n2, n3, o1, o2, c1, c2
MCNodes == {n1, n2, n3}
MCOwners == {o1, o2}
MCConns == {c1, c2}
=============================================================================
