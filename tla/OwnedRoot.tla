----------------------------- MODULE OwnedRoot ------------------------------
(***************************************************************************)
(* What the lock of a benchmark root promises to the commands that take    *)
(* it: the root has at most one owner, only the owner comes to work in it, *)
(* and nobody else ends that.  An owner that is killed owns nothing more,  *)
(* whatever it has left behind.  RootLock implements this specification,   *)
(* and Lifecycle uses it, once for every root.                             *)
(***************************************************************************)
CONSTANTS
  Process,   \* the jbs processes that use the root
  None       \* no process

VARIABLES
  owner,     \* the process that the root is reserved for, or None
  inside     \* the processes that act on the root as its owners

vars == <<owner, inside>>

Init == owner = None /\ inside = {}

\* The root is reserved for a process; its command may have to wait for more.
Take(p) ==
  /\ owner = None
  /\ owner' = p
  /\ UNCHANGED inside

\* The owner begins to work.
Enter(p) ==
  /\ owner = p
  /\ inside' = inside \cup {p}
  /\ UNCHANGED owner

\* It is done, and keeps the root until its command ends.
Retire(p) ==
  /\ p \in inside
  /\ inside' = inside \ {p}
  /\ UNCHANGED owner

\* The owner gives the root back, refuses it before it has begun, or ends.
Leave(p) ==
  /\ owner = p
  /\ owner' = None
  /\ inside' = inside \ {p}

Next == \E p \in Process : Take(p) \/ Enter(p) \/ Retire(p) \/ Leave(p)

Spec == Init /\ [][Next]_vars
=============================================================================
