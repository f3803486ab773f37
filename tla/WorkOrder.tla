------------------------------ MODULE WorkOrder ------------------------------
(***************************************************************************)
(* What `jbs run` and `jbs continue` promise about one component of a      *)
(* benchmark, seen from the run directory alone: a workpackage is started  *)
(* only after all its dependencies have finished successfully, at most     *)
(* `jbs_nproc` workpackages are in progress at a time and at most `nproc`  *)
(* of one step, and what has finished stays finished over any number of    *)
(* continuations.  Scheduler implements this specification.                *)
(***************************************************************************)
EXTENDS Integers, FiniteSets

CONSTANTS
  Work,        \* the workpackages of the run's manifest
  Deps,        \* [Work -> SUBSET Work], the dependencies of each
  Step,        \* the steps of the manifest
  StepOf,      \* [Work -> Step]
  StepLimit,   \* [Step -> Nat], workpackages of a step in progress at a time
  GlobalLimit  \* workpackages in progress at a time

VARIABLES
  finished,    \* the workpackages whose success is recorded
  active       \* the workpackages that are started and not yet accounted for

vars == <<finished, active>>

Init == finished = {} /\ active = {}

(***************************************************************************)
(* A workpackage starts when it has work to do, its dependencies are done  *)
(* and both limits leave room for it.                                      *)
(***************************************************************************)
Start(w) ==
  /\ w \notin finished \cup active
  /\ Deps[w] \subseteq finished
  /\ Cardinality(active) < GlobalLimit
  /\ Cardinality({v \in active : StepOf[v] = StepOf[w]}) < StepLimit[StepOf[w]]
  /\ active' = active \cup {w}
  /\ UNCHANGED finished

(***************************************************************************)
(* An active workpackage ends; its success is recorded or it is not (it    *)
(* failed, was interrupted, or its result could not be written).           *)
(***************************************************************************)
Finish(w) ==
  /\ w \in active
  /\ active' = active \ {w}
  /\ finished' = finished \cup {w}

GiveUp(w) ==
  /\ w \in active
  /\ active' = active \ {w}
  /\ UNCHANGED finished

Next == \E w \in Work : Start(w) \/ Finish(w) \/ GiveUp(w)

Spec == Init /\ [][Next]_vars
=============================================================================
