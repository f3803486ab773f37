------------------------------ MODULE Scheduler ------------------------------
(***************************************************************************)
(* One component of a benchmark being run: Scheduler.Run (scheduler.go),   *)
(* the process goroutine of each started workpackage (process.go), and the *)
(* command around them, runOneStore (command.go) with the status files of  *)
(* Store (store.go).  A component may be run again by `jbs continue`,      *)
(* which finds what the previous command left in the run directory.        *)
(*                                                                         *)
(* The scheduler's goroutine owns its maps; it interleaves with the        *)
(* process goroutines, which only talk to it through `done`, and with the  *)
(* cancellation of its context.  A status write can fail, before or after  *)
(* the new file has replaced the old one.                                  *)
(***************************************************************************)
EXTENDS Integers, FiniteSets, Sequences, SequencesExt

CONSTANTS
  WorkCount,    \* number of workpackages; a workpackage is its manifest index
  Deps,         \* [Work -> SUBSET Work]
  Step,         \* names of the steps
  StepOf,       \* [Work -> Step]
  StepNProc,    \* [Step -> Int], `nproc` of the step as in the manifest
  GlobalNProc,  \* `jbs_nproc` as in the manifest
  MaxFaults,    \* bound: failed reads and writes of status files
  MaxRuns       \* bound: commands (jbs run, then jbs continue) on the run

Work == 1..WorkCount

ASSUME CountAssumption == WorkCount \in Nat
\* The plan lists the workpackages of a step after those it depends on.
ASSUME DepsAssumption ==
  Deps \in [Work -> SUBSET Work] /\ \A w \in Work : \A d \in Deps[w] : d < w
ASSUME StepAssumption ==
  StepOf \in [Work -> Step] /\ StepNProc \in [Step -> Int] /\ GlobalNProc \in Int
ASSUME BoundAssumption == MaxFaults \in Nat /\ MaxRuns \in Nat

Status ==
  {"NOTSTARTED", "RUNNING", "FINISHED", "ERROR", "BLOCKED", "INTERRUPTED"}

VARIABLES
  root,        \* the root status file
  disk,        \* [Work -> Status], the status file of each workpackage
  statuses,    \* s.statuses, what the scheduler believes
  depsLeft,    \* s.depsLeft
  ready,       \* the local queue `ready` of Run
  running,     \* the keys of s.running
  globalUsed,  \* s.global.used
  stepUsed,    \* s.steps[step].used
  proc,        \* the process goroutine of each workpackage
  cancelled,   \* ctx.Err() is not nil
  failed,      \* the scheduler is returning an error
  pc,          \* where the command is
  result,      \* the status Run returned
  faults,      \* failed reads and writes so far
  runs         \* commands so far

maps == <<statuses, depsLeft, ready, running, globalUsed, stepUsed>>
control == <<cancelled, failed, pc, result>>
vars == <<root, disk, maps, proc, control, faults, runs>>

(***************************************************************************)
(* Definitions named ...Bug are variants of the definition that follows    *)
(* them with a mistake one could make in the code; they show that the      *)
(* properties tell the mistake apart, and no specification uses them.      *)
(***************************************************************************)

(***************************************************************************)
(* A process goroutine is idle before it is spawned and after its result   *)
(* is received.  In between its shell runs, has been sent SIGTERM, has     *)
(* been sent SIGKILL, or is gone and its status waits to be received.      *)
(***************************************************************************)
Alive == {"running", "terminating", "killed"}
Exited == {"FINISHED", "ERROR", "INTERRUPTED"}

(***************************************************************************)
(* An atomic file write succeeds, fails and leaves the old file, or fails  *)
(* (syncing the directory) after the new file is in place.                 *)
(***************************************************************************)
WriteOutcome == {"ok", "lost", "landed"}

WriteStatus(w, s, o) == IF o = "lost" THEN disk ELSE [disk EXCEPT ![w] = s]

Faulty(o) == IF o = "ok" THEN 0 ELSE 1

CountFaults(n) == faults + n <= MaxFaults /\ faults' = faults + n

(***************************************************************************)
(* Limiters, children and the manifest order.                              *)
(***************************************************************************)
Limit(n) == IF n <= 0 THEN 1 ELSE n

CanStartOneMoreBug(w) ==
  /\ globalUsed <= Limit(GlobalNProc)
  /\ stepUsed[StepOf[w]] <= Limit(StepNProc[StepOf[w]])

CanStartGlobalOnlyBug(w) == globalUsed < Limit(GlobalNProc)

CanStart(w) ==
  /\ globalUsed < Limit(GlobalNProc)
  /\ stepUsed[StepOf[w]] < Limit(StepNProc[StepOf[w]])

ReleaseGlobalOnlyBug(w) ==
  /\ globalUsed' = (IF globalUsed > 0 THEN globalUsed - 1 ELSE 0)
  /\ UNCHANGED stepUsed

Release(w) ==
  /\ globalUsed' = (IF globalUsed > 0 THEN globalUsed - 1 ELSE 0)
  /\ stepUsed' = [stepUsed EXCEPT ![StepOf[w]] = IF @ > 0 THEN @ - 1 ELSE 0]

Children(w) == {c \in Work : w \in Deps[c]}

\* The queue that holds the members of S in the order of the manifest: the
\* only member of this set.
ManifestOrder(S) ==
  {q \in [1..Cardinality(S) -> S] : \A i, j \in DOMAIN q : i < j => q[i] < q[j]}

-----------------------------------------------------------------------------
(***************************************************************************)
(* Loading the statuses and the initial queue.                             *)
(***************************************************************************)
UnfinishedPendingBug(d, w) ==
  Cardinality({x \in Deps[w] : d[x] \in {"NOTSTARTED", "RUNNING", "INTERRUPTED"}})

Unfinished(d, w) == Cardinality({x \in Deps[w] : d[x] # "FINISHED"})

InitialReadyAgainBug(d) == {w \in Work : d[w] # "RUNNING" /\ Unfinished(d, w) = 0}

InitialReady(d) ==
  {w \in Work : d[w] \notin {"FINISHED", "RUNNING"} /\ Unfinished(d, w) = 0}

Normalized(d) ==
  [w \in Work |-> IF d[w] = "RUNNING" THEN "INTERRUPTED" ELSE d[w]]

Init ==
  /\ root = "NOTSTARTED"
  /\ disk = [w \in Work |-> "NOTSTARTED"]
  /\ statuses = [w \in Work |-> "NOTSTARTED"]
  /\ depsLeft = [w \in Work |-> 0]
  /\ ready = <<>>
  /\ running = {}
  /\ globalUsed = 0
  /\ stepUsed = [s \in Step |-> 0]
  /\ proc = [w \in Work |-> "idle"]
  /\ cancelled = FALSE
  /\ failed = FALSE
  /\ pc = "stopped"
  /\ result = "none"
  /\ faults = 0
  /\ runs = 0

(***************************************************************************)
(* A command opens the run: continuing is refused when the root status is  *)
(* RUNNING.  Statuses left at RUNNING become INTERRUPTED, the root status  *)
(* becomes RUNNING and a new scheduler loads the statuses.  (For the first *)
(* command there is nothing to normalize.)                                 *)
(***************************************************************************)
Command ==
  /\ pc = "stopped" /\ root # "RUNNING" /\ runs < MaxRuns
  /\ runs' = runs + 1

Open ==
  /\ Command
  /\ disk' = Normalized(disk)
  /\ root' = "RUNNING"
  /\ statuses' = Normalized(disk)
  /\ depsLeft' = [w \in Work |-> Unfinished(Normalized(disk), w)]
  /\ ready' \in ManifestOrder(InitialReady(Normalized(disk)))
  /\ running' = {} /\ globalUsed' = 0 /\ stepUsed' = [s \in Step |-> 0]
  /\ pc' = "loop" /\ cancelled' = FALSE /\ failed' = FALSE /\ result' = "none"
  /\ UNCHANGED <<proc, faults>>

\* A stale status cannot be rewritten: the command ends, the statuses that
\* precede it in the manifest are normalized.
NormalizeFails ==
  /\ Command /\ CountFaults(1)
  /\ \E w \in Work, landed \in BOOLEAN :
       /\ disk[w] = "RUNNING"
       /\ disk' = [v \in Work |-> IF v < w \/ (v = w /\ landed)
                                  THEN Normalized(disk)[v] ELSE disk[v]]
  /\ UNCHANGED <<root, maps, proc, control>>

\* The root status cannot be read or written: the command ends.
MarkRootRunningFails ==
  /\ Command /\ CountFaults(1)
  /\ disk' = Normalized(disk)
  /\ root' \in {root, "RUNNING"}
  /\ UNCHANGED <<maps, proc, control>>

LoadStatusesFailsBug ==
  /\ Command /\ CountFaults(1)
  /\ disk' = Normalized(disk)
  /\ root' = "RUNNING"
  /\ pc' = "returned" /\ cancelled' = FALSE /\ failed' = TRUE
  /\ UNCHANGED <<maps, proc, result>>

\* A workpackage's status cannot be read: the scheduler returns an error
\* before it has started anything.
LoadStatusesFails ==
  /\ Command /\ CountFaults(1)
  /\ disk' = Normalized(disk)
  /\ root' = "RUNNING"
  /\ pc' = "returned" /\ cancelled' = FALSE /\ failed' = TRUE
  /\ result' = "ERROR"
  /\ UNCHANGED <<maps, proc>>

-----------------------------------------------------------------------------
(***************************************************************************)
(* The loop of Run: start what can be started.                             *)
(***************************************************************************)
FirstStartable(i) ==
  /\ CanStart(ready[i])
  /\ \A j \in DOMAIN ready : j < i => ~CanStart(ready[j])

Start ==
  /\ pc = "loop" /\ ~cancelled
  /\ \E i \in DOMAIN ready :
       LET w == ready[i] IN
       /\ FirstStartable(i)
       /\ ready' = RemoveAt(ready, i)
       /\ globalUsed' = globalUsed + 1
       /\ stepUsed' = [stepUsed EXCEPT ![StepOf[w]] = @ + 1]
       /\ disk' = WriteStatus(w, "RUNNING", "ok")
       /\ running' = running \cup {w}
       /\ statuses' = [statuses EXCEPT ![w] = "RUNNING"]
       /\ proc' = [proc EXCEPT ![w] = "running"]
  /\ UNCHANGED <<root, depsLeft, control, faults, runs>>

\* RUNNING cannot be persisted: the limiters are released, no process is
\* spawned, and the scheduler stops with an error.
StartFails ==
  /\ pc = "loop" /\ ~cancelled /\ CountFaults(1)
  /\ \E i \in DOMAIN ready, o \in {"lost", "landed"} :
       LET w == ready[i] IN
       /\ FirstStartable(i)
       /\ ready' = RemoveAt(ready, i)
       /\ disk' = WriteStatus(w, "RUNNING", o)
       /\ statuses' = [statuses EXCEPT ![w] = "ERROR"]
  /\ cancelled' = TRUE /\ failed' = TRUE /\ pc' = "drain"
  /\ UNCHANGED <<root, depsLeft, running, globalUsed, stepUsed, proc, result,
                 runs>>

(***************************************************************************)
(* Nothing more to start: Run returns, drains or waits.                    *)
(***************************************************************************)
Exhausted == cancelled \/ \A i \in DOMAIN ready : ~CanStart(ready[i])

AllTerminal ==
  /\ running = {}
  /\ \A w \in Work : statuses[w] \notin {"NOTSTARTED", "RUNNING", "INTERRUPTED"}

FinalStatusBug ==
  IF \E w \in Work : statuses[w] \in {"INTERRUPTED", "NOTSTARTED", "RUNNING"}
  THEN "INTERRUPTED"
  ELSE IF \E w \in Work : statuses[w] = "BLOCKED" THEN "ERROR" ELSE "FINISHED"

FinalStatus ==
  IF \E w \in Work : statuses[w] \in {"INTERRUPTED", "NOTSTARTED", "RUNNING"}
  THEN "INTERRUPTED"
  ELSE IF \E w \in Work : statuses[w] \in {"ERROR", "BLOCKED"}
       THEN "ERROR" ELSE "FINISHED"

Return(status) == pc' = "returned" /\ result' = status

\* Every workpackage is terminal, or nothing runs and nothing is ready.
RunCompletes ==
  /\ pc = "loop" /\ Exhausted
  /\ AllTerminal \/ (~cancelled /\ running = {} /\ ready = <<>>)
  /\ Return(FinalStatus)
  /\ UNCHANGED <<root, disk, maps, proc, cancelled, failed, faults, runs>>

RunCancelled ==
  /\ pc = "select" \/ (pc = "loop" /\ ~AllTerminal)
  /\ cancelled
  /\ pc' = "drain"
  /\ UNCHANGED <<root, disk, maps, proc, cancelled, failed, result, faults, runs>>

RunWaits ==
  /\ pc = "loop" /\ Exhausted /\ ~AllTerminal /\ ~cancelled
  /\ running # {} \/ ready # <<>>
  /\ pc' = "select"
  /\ UNCHANGED <<root, disk, maps, proc, cancelled, failed, result, faults, runs>>

(***************************************************************************)
(* finish: a result is received from `done`.                               *)
(***************************************************************************)
Received(w) ==
  /\ w \in running /\ proc[w] \in Exited
  /\ proc' = [proc EXCEPT ![w] = "idle"]
  /\ running' = running \ {w}
  /\ Release(w)

\* The final status cannot be persisted; the children are left alone.
FinishFails(w, status) ==
  /\ CountFaults(1)
  /\ \E o \in {"lost", "landed"} : disk' = WriteStatus(w, status, o)
  /\ statuses' = [statuses EXCEPT ![w] = "ERROR"]
  /\ UNCHANGED <<depsLeft, ready>>

ReceiveFinishedEagerBug(w) ==
  /\ pc = "select" /\ Received(w) /\ proc[w] = "FINISHED"
  /\ disk' = WriteStatus(w, "FINISHED", "ok")
  /\ statuses' = [statuses EXCEPT ![w] = "FINISHED"]
  /\ \E q \in ManifestOrder({c \in Children(w) : statuses'[c] # "FINISHED"}) :
       ready' = ready \o q
  /\ pc' = "loop"
  /\ UNCHANGED <<root, depsLeft, cancelled, failed, result, faults, runs>>

\* releaseChildren
ReceiveFinished(w) ==
  /\ pc = "select" /\ Received(w) /\ proc[w] = "FINISHED"
  /\ disk' = WriteStatus(w, "FINISHED", "ok")
  /\ statuses' = [statuses EXCEPT ![w] = "FINISHED"]
  /\ LET pending == {c \in Children(w) : statuses'[c] # "FINISHED"} IN
     /\ depsLeft' = [c \in Work |-> IF c \in pending /\ depsLeft[c] > 0
                                    THEN depsLeft[c] - 1 ELSE depsLeft[c]]
     /\ \E q \in ManifestOrder({c \in pending : depsLeft'[c] = 0}) :
          ready' = ready \o q
  /\ pc' = "loop"
  /\ UNCHANGED <<root, cancelled, failed, result, faults, runs>>

\* markBlocked walks from w through the children that are not FINISHED,
\* RUNNING, ERROR or BLOCKED, and no further below a child whose status it
\* could not write: the least set closed under that walk.
Blockable(st) ==
  {c \in Work : st[c] \notin {"FINISHED", "RUNNING", "ERROR", "BLOCKED"}}

MarkBlockedChildrenBug(st, w, unwritten) == Children(w) \cap Blockable(st)

MarkBlocked(st, w, unwritten) ==
  LET below(x) == Children(x) \cap Blockable(st)
      closed(S) == below(w) \subseteq S /\ \A x \in S \ unwritten : below(x) \subseteq S
  IN  {c \in Blockable(st) : \A S \in SUBSET Blockable(st) : closed(S) => c \in S}

ReceiveError(w) ==
  /\ pc = "select" /\ Received(w) /\ proc[w] = "ERROR"
  /\ \E lost, landed \in SUBSET Work :
       LET st == [statuses EXCEPT ![w] = "ERROR"]
           blocked == MarkBlocked(st, w, lost \cup landed)
           unwritten == lost \cup landed
       IN  /\ lost \cap landed = {} /\ unwritten \subseteq blocked
           /\ CountFaults(Cardinality(unwritten))
           /\ statuses' = [c \in Work |-> IF c \in blocked THEN "BLOCKED" ELSE st[c]]
           /\ disk' = [c \in Work |-> IF c = w THEN "ERROR"
                                      ELSE IF c \in blocked \ lost THEN "BLOCKED"
                                      ELSE disk[c]]
           /\ failed' = (unwritten # {})
           /\ cancelled' = (cancelled \/ unwritten # {})
           /\ pc' = (IF unwritten = {} THEN "loop" ELSE "drain")
  /\ UNCHANGED <<root, depsLeft, ready, result, runs>>

ReceiveInterruptedBlocksBug(w) ==
  /\ pc = "select" /\ Received(w) /\ proc[w] = "INTERRUPTED"
  /\ LET st == [statuses EXCEPT ![w] = "INTERRUPTED"] IN
     /\ statuses' = [c \in Work |-> IF c \in MarkBlocked(st, w, {})
                                     THEN "BLOCKED" ELSE st[c]]
     /\ disk' = statuses'
  /\ pc' = "loop"
  /\ UNCHANGED <<root, depsLeft, ready, cancelled, failed, result, faults, runs>>

ReceiveInterrupted(w) ==
  /\ pc = "select" /\ Received(w) /\ proc[w] = "INTERRUPTED"
  /\ disk' = WriteStatus(w, "INTERRUPTED", "ok")
  /\ statuses' = [statuses EXCEPT ![w] = "INTERRUPTED"]
  /\ pc' = "loop"
  /\ UNCHANGED <<root, depsLeft, ready, cancelled, failed, result, faults, runs>>

ReceiveFailsSilentlyBug(w) ==
  /\ pc = "select" /\ Received(w) /\ FinishFails(w, proc[w])
  /\ pc' = "loop"
  /\ UNCHANGED <<root, cancelled, failed, result, runs>>

ReceiveFails(w) ==
  /\ pc = "select" /\ Received(w) /\ FinishFails(w, proc[w])
  /\ cancelled' = TRUE /\ failed' = TRUE /\ pc' = "drain"
  /\ UNCHANGED <<root, result, runs>>

(***************************************************************************)
(* waitForRunning: every result still to come is recorded as INTERRUPTED,  *)
(* whatever the process did.                                               *)
(***************************************************************************)
DrainOutcomeBug(w) ==
  /\ pc = "drain" /\ Received(w)
  /\ disk' = WriteStatus(w, proc[w], "ok")
  /\ statuses' = [statuses EXCEPT ![w] = proc[w]]
  /\ UNCHANGED <<root, depsLeft, ready, control, faults, runs>>

Drain(w) ==
  /\ pc = "drain" /\ Received(w)
  /\ disk' = WriteStatus(w, "INTERRUPTED", "ok")
  /\ statuses' = [statuses EXCEPT ![w] = "INTERRUPTED"]
  /\ UNCHANGED <<root, depsLeft, ready, control, faults, runs>>

DrainFails(w) ==
  /\ pc = "drain" /\ Received(w) /\ FinishFails(w, "INTERRUPTED")
  /\ failed' = TRUE
  /\ UNCHANGED <<root, cancelled, pc, result, runs>>

DrainEndsEarlyBug ==
  /\ pc = "drain"
  /\ Return(IF failed THEN "ERROR" ELSE "INTERRUPTED")
  /\ UNCHANGED <<root, disk, maps, proc, cancelled, failed, faults, runs>>

DrainEnds ==
  /\ pc = "drain" /\ running = {}
  /\ Return(IF failed THEN "ERROR" ELSE "INTERRUPTED")
  /\ UNCHANGED <<root, disk, maps, proc, cancelled, failed, faults, runs>>

(***************************************************************************)
(* runProcess: the shell ends by itself, also while the cancellation is on *)
(* its way; or the goroutine sees the cancellation, sends SIGTERM and,     *)
(* after the grace period, SIGKILL.                                        *)
(***************************************************************************)
Signal(w, from, to) == proc[w] = from /\ proc' = [proc EXCEPT ![w] = to]

Rest == UNCHANGED <<root, disk, maps, control, faults, runs>>

Exit(w) == (Signal(w, "running", "FINISHED") \/ Signal(w, "running", "ERROR")) /\ Rest

Terminate(w) == cancelled /\ Signal(w, "running", "terminating") /\ Rest

GraceExpiresBug(w) == Signal(w, "terminating", "terminating") /\ Rest

GraceExpires(w) == Signal(w, "terminating", "killed") /\ Rest

ExitTerminated(w) == Signal(w, "terminating", "INTERRUPTED") /\ Rest

ExitKilled(w) == Signal(w, "killed", "INTERRUPTED") /\ Rest

\* SIGINT or SIGTERM reaches the command.
Cancel ==
  /\ pc \in {"loop", "select", "drain"} /\ ~cancelled
  /\ cancelled' = TRUE
  /\ UNCHANGED <<root, disk, maps, proc, failed, pc, result, faults, runs>>

(***************************************************************************)
(* runOneStore after Run: analyses run if every workpackage finished, or   *)
(* with --weak if some failed; a failing analysis makes the run ERROR.     *)
(***************************************************************************)
Final(weak, analysed) ==
  IF (result = "FINISHED" \/ (weak /\ result = "ERROR")) /\ ~analysed
  THEN "ERROR" ELSE result

Close ==
  /\ pc = "returned"
  /\ \E weak, analysed \in BOOLEAN : root' = Final(weak, analysed)
  /\ pc' = "stopped"
  /\ UNCHANGED <<disk, maps, proc, cancelled, failed, result, faults, runs>>

MarkRootFinalFails ==
  /\ pc = "returned" /\ CountFaults(1)
  /\ \E weak, analysed \in BOOLEAN : root' \in {root, Final(weak, analysed)}
  /\ pc' = "stopped"
  /\ UNCHANGED <<disk, maps, proc, cancelled, failed, result, runs>>

-----------------------------------------------------------------------------
OpenStep == Open \/ NormalizeFails \/ MarkRootRunningFails \/ LoadStatusesFails

LoopStep == Start \/ StartFails \/ RunCompletes \/ RunCancelled \/ RunWaits

Receive(w) == \/ ReceiveFinished(w) \/ ReceiveError(w)
              \/ ReceiveInterrupted(w) \/ ReceiveFails(w)

DrainStep == (\E w \in Work : Drain(w) \/ DrainFails(w)) \/ DrainEnds

ProcessStep(w) == \/ Exit(w) \/ Terminate(w) \/ GraceExpires(w)
                  \/ ExitTerminated(w) \/ ExitKilled(w)

Next ==
  \/ OpenStep \/ LoopStep \/ DrainStep \/ Cancel \/ Close \/ MarkRootFinalFails
  \/ \E w \in Work : Receive(w) \/ ProcessStep(w)

Spec == Init /\ [][Next]_vars

(***************************************************************************)
(* The scheduler's goroutine keeps running, and so do the process          *)
(* goroutines: once the context is cancelled the signals are sent, and a   *)
(* shell that was killed ends.  Nothing makes a shell end by itself.       *)
(***************************************************************************)
SchedulerStep ==
  LoopStep \/ DrainStep \/ Close \/ MarkRootFinalFails \/ \E w \in Work : Receive(w)

FairSpec ==
  /\ Spec
  /\ WF_vars(SchedulerStep)
  /\ \A w \in Work : /\ WF_vars(Terminate(w))
                     /\ WF_vars(GraceExpires(w))
                     /\ WF_vars(ExitKilled(w))

-----------------------------------------------------------------------------
(***************************************************************************)
(* Properties.                                                             *)
(***************************************************************************)
TypeOK ==
  /\ root \in Status
  /\ disk \in [Work -> Status]
  /\ statuses \in [Work -> Status]
  /\ depsLeft \in [Work -> Nat]
  /\ ready \in Seq(Work)
  /\ running \in SUBSET Work
  /\ globalUsed \in Nat
  /\ stepUsed \in [Step -> Nat]
  /\ proc \in [Work -> {"idle"} \cup Alive \cup Exited]
  /\ cancelled \in BOOLEAN /\ failed \in BOOLEAN
  /\ pc \in {"stopped", "loop", "select", "drain", "returned"}
  /\ result \in Status \cup {"none"} /\ (pc = "returned" => result # "none")
  /\ faults \in 0..MaxFaults
  /\ runs \in 0..MaxRuns

\* A workpackage's shell only ever runs while all of its dependencies are
\* recorded as FINISHED in the run directory it reads them from, whatever
\* failed, was interrupted or was retried before.
DependenciesFinished ==
  \A w \in Work : proc[w] # "idle" => \A d \in Deps[w] : disk[d] = "FINISHED"

\* Never more shells than jbs_nproc, nor more of a step than its nproc: the
\* limiters count what really runs, through errors and cancellation.
LimitsRespected ==
  LET alive == {w \in Work : proc[w] \in Alive} IN
  /\ Cardinality(alive) <= Limit(GlobalNProc)
  /\ \A s \in Step :
       Cardinality({w \in alive : StepOf[w] = s}) <= Limit(StepNProc[s])

\* Run never waits for a result that nobody will send, and it never leaves a
\* process behind: the goroutines whose result is outstanding are exactly the
\* running ones, and it waits in select only when there is one.
NoOrphans ==
  /\ \A w \in Work : proc[w] # "idle" <=> w \in running
  /\ pc = "select" => running # {}
  /\ pc \in {"returned", "stopped"} => running = {}

\* A workpackage is queued once, and only when it may start.
QueueSound ==
  /\ \A i, j \in DOMAIN ready : ready[i] = ready[j] => i = j
  /\ pc \in {"loop", "select"} =>
       \A i \in DOMAIN ready :
         /\ statuses[ready[i]] \notin {"FINISHED", "RUNNING"}
         /\ \A d \in Deps[ready[i]] : statuses[d] = "FINISHED"

\* Unless Run returns an error, the status files say what the scheduler
\* believes: `jbs status` and `jbs continue` see the truth.
DiskFollowsMemory ==
  pc # "stopped" /\ ~failed => disk = statuses

\* What Run returns is what the run directory shows: FINISHED only if every
\* workpackage is, ERROR, unless the run was cancelled or stopped by an error,
\* only if a workpackage failed.
ResultTrue ==
  pc = "returned" =>
    /\ result = "FINISHED" => \A w \in Work : disk[w] = "FINISHED"
    /\ result = "ERROR" /\ ~failed /\ ~cancelled => \E w \in Work : disk[w] = "ERROR"
    /\ failed => result = "ERROR"

\* A run that is cancelled while workpackages wait to be started is
\* interrupted, and says so: its analyses are not run, not even with --weak.
CancelledIsInterrupted ==
  pc = "returned" /\ cancelled /\ ~failed /\ ready # <<>> => result = "INTERRUPTED"

\* When a run ends that was neither cancelled nor stopped by an error, the
\* workpackages left without a chance to run are those with a dependency that
\* failed or was itself blocked, and they are BLOCKED; nothing is left
\* NOTSTARTED or INTERRUPTED, also on `jbs continue`.
FailedDependencyBlocks ==
  pc = "returned" /\ ~cancelled /\ ~failed =>
    \A w \in Work :
      /\ statuses[w] \in {"FINISHED", "ERROR", "BLOCKED"}
      /\ statuses[w] = "BLOCKED" <=>
           \E d \in Deps[w] : statuses[d] \in {"ERROR", "BLOCKED"}

\* What is recorded as FINISHED is never run again nor overwritten, over any
\* number of continuations.
FinishedIsFinal ==
  [][\A w \in Work : disk[w] = "FINISHED" => disk'[w] = "FINISHED"]_vars

\* A workpackage becomes BLOCKED only on account of a failure: in the same
\* step one of its dependencies is ERROR or BLOCKED.  An interruption blocks
\* nothing.
OnlyFailuresBlock ==
  [][\A w \in Work : disk'[w] = "BLOCKED" /\ disk[w] # "BLOCKED" =>
       \E d \in Deps[w] : disk'[d] \in {"ERROR", "BLOCKED"}]_vars

\* A work package whose shell ended after the scheduler began to drain is not
\* counted as done: its success is dropped, so continuing runs it again.
DrainRecordsNoSuccess ==
  [][pc = "drain" => \A w \in Work : disk'[w] = "FINISHED" => disk[w] = "FINISHED"]_vars

\* After SIGINT or SIGTERM the run ends, even if no shell ends by itself.
CancelledRunEnds ==
  (pc \in {"loop", "select", "drain"} /\ cancelled) ~> (pc = "stopped")

\* If the shells end, so does the run: no workpackage is forgotten in the
\* queue and no result is waited for in vain.
RunEnds == (\A w \in Work : WF_vars(Exit(w))) => ((pc = "loop") ~> (pc = "stopped"))

(***************************************************************************)
(* The scheduler implements WorkOrder: what is FINISHED on disk is done,   *)
(* what is in s.running is in progress.                                    *)
(***************************************************************************)
Order == INSTANCE WorkOrder WITH
  finished <- {w \in Work : disk[w] = "FINISHED"},
  active <- running,
  StepLimit <- [s \in Step |-> Limit(StepNProc[s])],
  GlobalLimit <- Limit(GlobalNProc)

OrderSpec == Order!Spec
=============================================================================
