---------------------------- MODULE MCScheduler ----------------------------
(***************************************************************************)
(* Scheduler on small manifests.                                           *)
(***************************************************************************)
EXTENDS Scheduler

(***************************************************************************)
(* "Diamond": prepare fans out to two workpackages of build, which test    *)
(* joins; two shells at a time, build is limited to one.                   *)
(***************************************************************************)
DiamondDeps == <<{}, {1}, {1}, {2, 3}>>
DiamondStep == {"prepare", "build", "test"}
DiamondStepOf == <<"prepare", "build", "build", "test">>
DiamondNProc == [prepare |-> 2, build |-> 1, test |-> 2]

(***************************************************************************)
(* "Net": two sources, a workpackage below both, one below the second, and *)
(* a chain behind them: failures and retries meet at 3 and 5.              *)
(***************************************************************************)
NetDeps == <<{}, {}, {1, 2}, {2}, {3, 4}>>
NetStep == {"prepare", "build", "test"}
NetStepOf == <<"prepare", "prepare", "build", "build", "test">>
NetNProc == [prepare |-> 2, build |-> 1, test |-> 0]
=============================================================================
