----------------------------- MODULE MCFileWait -----------------------------
(***************************************************************************)
(* FileWait for the targets out/run/done and out/log.                      *)
(***************************************************************************)
EXTENDS FileWait

Paths == {"out", "run", "done", "log"}
ParentOf == [out |-> "/", run |-> "out", done |-> "run", log |-> "out"]
Arguments == <<"done", "log">>
=============================================================================
