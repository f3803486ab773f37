------------------------------ MODULE RootLock ------------------------------
(***************************************************************************)
(* The lock file of a benchmark root, lock.go: `.jbs.lock` is created      *)
(* exclusively and then filled with its owner's identity; a lock left by a *)
(* process of this host that no longer exists is reclaimed under a second  *)
(* file, `.jbs.lock.reclaim`.                                              *)
(*                                                                         *)
(* Every step is one system call of one process, a process acquires and    *)
(* releases the lock once, and may end (or be killed) between any two      *)
(* steps.  The identity in a lock file (host, pid, creation time) is the   *)
(* process itself.                                                         *)
(***************************************************************************)
EXTENDS Integers

CONSTANTS
  Process,    \* the jbs processes that use the root
  None,       \* no file
  HostOf,     \* the host each process runs on
  MaxFaults   \* bound: system calls that fail for no reason of the protocol

ASSUME NoneAssumption == None \notin Process
ASSUME FaultAssumption == MaxFaults \in Nat

VARIABLES
  lock,     \* who created the lock file that is there, or None
  written,  \* the lock file holds its owner's identity (else it is malformed)
  guard,    \* who created the reclaim file that is there, or None
  pc,       \* where each process is in acquireLockFile
  seen,     \* the owner each process last read from the lock file
  tries,    \* completed attempts
  faults

vars == <<lock, written, guard, pc, seen, tries, faults>>
lockFile == <<lock, written>>

(***************************************************************************)
(* Definitions named ...Bug are variants of the definition that follows    *)
(* them with a mistake one could make in the code; no specification uses   *)
(* them.                                                                   *)
(***************************************************************************)

Init ==
  /\ lock = None /\ written = FALSE /\ guard = None
  /\ pc = [p \in Process |-> "create"]
  /\ seen = [p \in Process |-> None]
  /\ tries = [p \in Process |-> 0]
  /\ faults = 0

At(p, place) == pc[p] = place

Goto(p, place) == pc' = [pc EXCEPT ![p] = place]

\* localProcessAlive
Alive(p) == pc[p] # "dead"

Fault == faults < MaxFaults /\ faults' = faults + 1

RemoveLock == lock' = None /\ written' = FALSE

-----------------------------------------------------------------------------
(***************************************************************************)
(* createLockFile: exclusive creation, then the content, then the syncs.   *)
(* When a step after the creation fails the path is removed.               *)
(***************************************************************************)
CreateLockSharedBug(p) ==
  /\ At(p, "create")
  /\ lock' = p /\ written' = FALSE
  /\ Goto(p, "write")
  /\ UNCHANGED <<guard, seen, tries, faults>>

CreateLock(p) ==
  /\ At(p, "create") /\ lock = None
  /\ lock' = p /\ written' = FALSE
  /\ Goto(p, "write")
  /\ UNCHANGED <<guard, seen, tries, faults>>

LockExists(p) ==
  /\ At(p, "create") /\ lock # None
  /\ Goto(p, "inspect")
  /\ UNCHANGED <<lockFile, guard, seen, tries, faults>>

CreateFails(p) ==
  /\ At(p, "create") /\ Fault
  /\ Goto(p, "failed")
  /\ UNCHANGED <<lockFile, guard, seen, tries>>

\* The content goes to the file that was created, even if the path has been
\* given to another one since.
WriteLock(p) ==
  /\ At(p, "write")
  /\ written' = (written \/ lock = p)
  /\ Goto(p, "sync")
  /\ UNCHANGED <<lock, guard, seen, tries, faults>>

SyncLock(p) ==
  /\ At(p, "sync")
  /\ Goto(p, "held")
  /\ UNCHANGED <<lockFile, guard, seen, tries, faults>>

WriteFails(p) ==
  /\ At(p, "write") \/ At(p, "sync")
  /\ Fault /\ RemoveLock
  /\ Goto(p, "failed")
  /\ UNCHANGED <<guard, seen, tries>>

(***************************************************************************)
(* maybeReclaimStaleLock: the lock is read and then its owner looked up.   *)
(* A lock that is malformed, of another host or of a live process refuses  *)
(* the caller; one that has vanished is tried again, up to three times.    *)
(***************************************************************************)
RetryOnceBug(p) == tries' = [tries EXCEPT ![p] = @ + 1] /\ Goto(p, "failed")

Retry(p) ==
  /\ tries' = [tries EXCEPT ![p] = @ + 1]
  /\ Goto(p, IF tries[p] + 1 < 3 THEN "create" ELSE "failed")

Readable(p) == lock # None /\ written /\ HostOf[lock] = HostOf[p]

Inspect(p) ==
  /\ At(p, "inspect")
  /\ \/ lock = None /\ Retry(p) /\ UNCHANGED seen
     \/ /\ Readable(p)
        /\ seen' = [seen EXCEPT ![p] = lock]
        /\ Goto(p, "judge")
        /\ UNCHANGED tries
     \/ /\ lock # None /\ ~Readable(p)
        /\ Goto(p, "failed")
        /\ UNCHANGED <<seen, tries>>
  /\ UNCHANGED <<lockFile, guard, faults>>

Judge(p) ==
  /\ At(p, "judge")
  /\ Goto(p, IF Alive(seen[p]) THEN "failed" ELSE "guard")
  /\ UNCHANGED <<lockFile, guard, seen, tries, faults>>

TakeGuardSharedBug(p) ==
  /\ At(p, "guard")
  /\ guard' = p
  /\ Goto(p, "writeGuard")
  /\ UNCHANGED <<lockFile, seen, tries, faults>>

\* The reclaim file is created like a lock file; nobody reclaims it.
TakeGuard(p) ==
  /\ At(p, "guard")
  /\ \/ guard = None /\ guard' = p /\ Goto(p, "writeGuard")
     \/ guard # None /\ guard' = guard /\ Goto(p, "failed")
  /\ UNCHANGED <<lockFile, seen, tries, faults>>

WriteGuardTrustingBug(p) ==
  /\ At(p, "writeGuard")
  /\ Goto(p, "remove")
  /\ UNCHANGED <<lockFile, guard, seen, tries, faults>>

WriteGuard(p) ==
  /\ At(p, "writeGuard")
  /\ Goto(p, "reinspect")
  /\ UNCHANGED <<lockFile, guard, seen, tries, faults>>

GuardFails(p) ==
  /\ Fault
  /\ \/ At(p, "guard") /\ UNCHANGED guard
     \/ At(p, "writeGuard") /\ guard' = None
  /\ Goto(p, "failed")
  /\ UNCHANGED <<lockFile, seen, tries>>

Reinspect(p) ==
  /\ At(p, "reinspect")
  /\ \/ lock = None /\ Goto(p, "unguardRetry") /\ UNCHANGED seen
     \/ /\ Readable(p)
        /\ seen' = [seen EXCEPT ![p] = lock]
        /\ Goto(p, "rejudge")
     \/ lock # None /\ ~Readable(p) /\ Goto(p, "unguardFail") /\ UNCHANGED seen
  /\ UNCHANGED <<lockFile, guard, tries, faults>>

Rejudge(p) ==
  /\ At(p, "rejudge")
  /\ Goto(p, IF Alive(seen[p]) THEN "unguardFail" ELSE "remove")
  /\ UNCHANGED <<lockFile, guard, seen, tries, faults>>

Remove(p) ==
  /\ At(p, "remove")
  /\ RemoveLock
  /\ Goto(p, IF lock = None THEN "unguardFail" ELSE "unguardRetry")
  /\ UNCHANGED <<guard, seen, tries, faults>>

\* The file cannot be removed, or its removal cannot be synced.
RemoveFails(p) ==
  /\ At(p, "remove") /\ Fault
  /\ RemoveLock \/ UNCHANGED lockFile
  /\ Goto(p, "unguardFail")
  /\ UNCHANGED <<guard, seen, tries>>

\* The deferred release of the reclaim file, before the result is acted on.
Unguard(p) ==
  /\ \/ At(p, "unguardRetry") /\ Retry(p)
     \/ At(p, "unguardFail") /\ Goto(p, "failed") /\ UNCHANGED tries
  /\ guard' = IF guard = p THEN None ELSE guard
  /\ UNCHANGED <<lockFile, seen, faults>>

(***************************************************************************)
(* releaseLockFile: the owner reads the lock back, compares and removes.   *)
(***************************************************************************)
ReadBack(p) ==
  /\ At(p, "held")
  /\ Goto(p, IF lock = p /\ written THEN "release" ELSE "done")
  /\ UNCHANGED <<lockFile, guard, seen, tries, faults>>

Release(p) ==
  /\ At(p, "release")
  /\ RemoveLock
  /\ Goto(p, "done")
  /\ UNCHANGED <<guard, seen, tries, faults>>

\* The process ends, or is killed.
Die(p) ==
  /\ Alive(p)
  /\ Goto(p, "dead")
  /\ UNCHANGED <<lockFile, guard, seen, tries, faults>>

-----------------------------------------------------------------------------
Step(p) ==
  \/ CreateLock(p) \/ LockExists(p) \/ WriteLock(p) \/ SyncLock(p)
  \/ Inspect(p) \/ Judge(p) \/ TakeGuard(p) \/ WriteGuard(p)
  \/ Reinspect(p) \/ Rejudge(p) \/ Remove(p) \/ Unguard(p)
  \/ ReadBack(p) \/ Release(p)

Fails(p) == CreateFails(p) \/ WriteFails(p) \/ GuardFails(p) \/ RemoveFails(p)

Next == \E p \in Process : Step(p) \/ Fails(p) \/ Die(p)

Spec == Init /\ [][Next]_vars

(***************************************************************************)
(* An assumption about timing that the code makes without saying so: while *)
(* a process, holding the reclaim file, is between reading the owner of    *)
(* the lock and looking that process up, the owner does not both give the  *)
(* lock up and end.                                                        *)
(***************************************************************************)
Settled(p) ==
  \A r \in Process : At(r, "rejudge") /\ seen[r] = p => lock = p

SettledNext == \E p \in Process : Step(p) \/ Fails(p) \/ (Settled(p) /\ Die(p))

SettledSpec == Init /\ [][SettledNext]_vars

-----------------------------------------------------------------------------
(***************************************************************************)
(* Properties.                                                             *)
(***************************************************************************)
Places == {"create", "write", "sync", "held", "inspect", "judge", "guard",
           "writeGuard", "reinspect", "rejudge", "remove", "unguardRetry",
           "unguardFail", "release", "done", "failed", "dead"}

TypeOK ==
  /\ lock \in Process \cup {None} /\ written \in BOOLEAN
  /\ guard \in Process \cup {None}
  /\ pc \in [Process -> Places]
  /\ seen \in [Process -> Process \cup {None}]
  /\ \A p \in Process : pc[p] \in {"judge", "rejudge"} => seen[p] # None
  /\ tries \in [Process -> 0..3]
  /\ faults \in 0..MaxFaults

\* Two processes never both believe that they hold the root.
MutualExclusion ==
  \A p, q \in Process : At(p, "held") /\ At(q, "held") => p = q

\* The lock file names the process that holds the root, so that the others
\* see a live owner: nobody has removed or replaced it behind its back.
HolderIsNamed ==
  \A p \in Process : At(p, "held") \/ At(p, "release") => lock = p /\ written

\* A lock left behind does not block the benchmark: a process that finds the
\* lock free or left, complete, by a dead process of its host acquires it, if
\* it is alone, no reclaim file was left behind, no more calls fail, and it
\* keeps going unless it is killed (it is the only one that can go on).
Unhindered(p) ==
  /\ At(p, "create") /\ tries[p] = 0 /\ faults = MaxFaults
  /\ \A q \in Process \ {p} : ~Alive(q)
  /\ guard = None /\ (lock = None \/ Readable(p))

StaleLockReclaimed ==
  WF_vars(\E p \in Process : Step(p))
  => ((\E p \in Process : Unhindered(p))
      ~> ((\E p \in Process : At(p, "held")) \/ (\A p \in Process : ~Alive(p))))

\* The lock implements OwnedRoot: the root belongs to the process that created
\* the lock file, until that removes it or ends.  What others see of the file,
\* decide, retry, guard and reclaim meanwhile, and the file a dead process has
\* left, change nothing of it; who holds the lock has been reserved the root.
Owned == INSTANCE OwnedRoot WITH
  owner <- IF lock # None /\ Alive(lock) THEN lock ELSE None,
  inside <- {p \in Process : At(p, "held")}

OwnedSpec == Owned!Spec
=============================================================================
