---------------------------- MODULE MCRootLock -----------------------------
(***************************************************************************)
(* RootLock on one host, and on two hosts that share the directory.        *)
(***************************************************************************)
EXTENDS RootLock, TLC

CONSTANTS p1, p2, p3, p4

OneHost == [p \in Process |-> "login1"]

TwoHosts == [p \in Process |-> IF p = p3 THEN "login2" ELSE "login1"]

Interchangeable == Permutations(Process)
=============================================================================
