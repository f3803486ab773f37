--------------------------- MODULE RootLockProofs ---------------------------
(***************************************************************************)
(* Theorems about RootLock for any set of processes, any hosts and any     *)
(* number of failing system calls, under the timing assumption of          *)
(* SettledSpec.                                                            *)
(***************************************************************************)
EXTENDS RootLock, TLAPS

(***************************************************************************)
(* The inductive invariant.                                                *)
(***************************************************************************)

\* From the exclusive creation to the removal the lock file stays the owner's.
Owning ==
  \A p \in Process :
    /\ At(p, "write") => lock = p
    /\ At(p, "sync") \/ At(p, "held") \/ At(p, "release") => lock = p /\ written

\* One process at a time is past the creation of the reclaim file.
Guarding ==
  \A p \in Process :
    pc[p] \in {"writeGuard", "reinspect", "rejudge", "remove",
               "unguardRetry", "unguardFail"} => guard = p

\* The lock about to be removed still belongs to the dead process that was
\* read from it.
Condemned ==
  \A p \in Process :
    /\ At(p, "rejudge") /\ ~Alive(seen[p]) => lock = seen[p]
    /\ At(p, "remove") => seen[p] \in Process /\ ~Alive(seen[p]) /\ lock = seen[p]

\* A process that goes on has attempts left.
Trying == \A p \in Process : pc[p] \notin {"failed", "dead"} => tries[p] < 3

IInv == TypeOK /\ Owning /\ Guarding /\ Condemned /\ Trying

-----------------------------------------------------------------------------
LEMMA InitInv == Init => IInv
<1> SUFFICES ASSUME Init PROVE IInv
  OBVIOUS
<1>1. TypeOK
  <2>1. tries \in [Process -> 0..3] /\ faults \in 0..MaxFaults
    BY FaultAssumption DEF Init
  <2>2. written \in BOOLEAN
    BY DEF Init
  <2> QED
    BY <2>1, <2>2 DEF Init, TypeOK, Places
<1>2. Owning /\ Guarding /\ Condemned /\ Trying
  BY DEF Init, Owning, Guarding, Condemned, Trying, At
<1> QED
  BY <1>1, <1>2 DEF IInv

\* Steps that create, fill or leave the lock alone on the way to holding it.
LEMMA CreateInv ==
  ASSUME IInv, NEW p \in Process,
         CreateLock(p) \/ LockExists(p) \/ CreateFails(p) \/ WriteLock(p) \/ SyncLock(p)
  PROVE  IInv'
<1> USE NoneAssumption, FaultAssumption
    DEF IInv, At, Goto, Alive, lockFile
<1>1. CASE CreateLock(p)
  <2>1. TypeOK'
    BY <1>1 DEF CreateLock, TypeOK, Places
  <2>2. Owning' /\ Guarding' /\ Trying'
    BY <1>1 DEF CreateLock, TypeOK, Owning, Guarding, Trying
  <2>3. Condemned'
    BY <1>1 DEF CreateLock, TypeOK, Condemned
  <2> QED
    BY <2>1, <2>2, <2>3
<1>2. CASE LockExists(p)
  BY <1>2 DEF LockExists, TypeOK, Places, Owning, Guarding, Condemned, Trying
<1>3. CASE CreateFails(p)
  BY <1>3 DEF CreateFails, Fault, TypeOK, Places, Owning, Guarding, Condemned, Trying
<1>4. CASE WriteLock(p)
  BY <1>4 DEF WriteLock, TypeOK, Places, Owning, Guarding, Condemned, Trying
<1>5. CASE SyncLock(p)
  BY <1>5 DEF SyncLock, TypeOK, Places, Owning, Guarding, Condemned, Trying
<1> QED
  BY <1>1, <1>2, <1>3, <1>4, <1>5

\* A process only removes a lock it created, or one of a dead process.
LEMMA RemoveInv ==
  ASSUME IInv, NEW p \in Process,
         WriteFails(p) \/ Remove(p) \/ RemoveFails(p) \/ Release(p)
  PROVE  IInv'
<1> USE NoneAssumption, FaultAssumption
    DEF IInv, At, Goto, Alive, lockFile, RemoveLock, Fault
<1>1. CASE WriteFails(p)
  <2>1. lock = p /\ pc[p] # "dead"
    BY <1>1 DEF WriteFails, Owning
  <2>2. TypeOK'
    <3>1. faults' \in 0..MaxFaults /\ written' \in BOOLEAN
      <4>1. faults' \in 0..MaxFaults
        BY <1>1 DEF WriteFails, TypeOK
      <4>2. written' \in BOOLEAN
        BY <1>1, Zenon DEF WriteFails
      <4> QED
        BY <4>1, <4>2
    <3>2. pc' \in [Process -> Places]
      BY <1>1 DEF WriteFails, TypeOK, Places
    <3> QED
      BY <1>1, <3>1, <3>2 DEF WriteFails, TypeOK
  <2>3. Owning' /\ Guarding' /\ Trying'
    BY <1>1, <2>1 DEF WriteFails, TypeOK, Owning, Guarding, Trying
  <2>4. Condemned'
    BY <1>1, <2>1 DEF WriteFails, TypeOK, Condemned
  <2> QED
    BY <2>2, <2>3, <2>4
<1>2. CASE Remove(p)
  <2>1. lock = seen[p] /\ seen[p] \in Process /\ pc[seen[p]] = "dead" /\ guard = p
    BY <1>2 DEF Remove, Condemned, Guarding
  <2>2. TypeOK'
    BY <1>2 DEF Remove, TypeOK, Places
  <2>3. Owning' /\ Guarding' /\ Trying'
    BY <1>2, <2>1 DEF Remove, TypeOK, Owning, Guarding, Trying
  <2>4. Condemned'
    BY <1>2, <2>1 DEF Remove, TypeOK, Guarding, Condemned
  <2> QED
    BY <2>2, <2>3, <2>4
<1>3. CASE RemoveFails(p)
  <2>1. lock = seen[p] /\ seen[p] \in Process /\ pc[seen[p]] = "dead" /\ guard = p
    BY <1>3 DEF RemoveFails, Condemned, Guarding
  <2>2. TypeOK'
    <3>1. faults' \in 0..MaxFaults /\ written' \in BOOLEAN /\ lock' \in Process \cup {None}
      <4>1. faults' \in 0..MaxFaults /\ lock' \in Process \cup {None}
        BY <1>3 DEF RemoveFails, TypeOK
      <4>2. written' \in BOOLEAN
        BY <1>3, Zenon DEF RemoveFails, TypeOK
      <4> QED
        BY <4>1, <4>2
    <3>2. pc' \in [Process -> Places]
      BY <1>3 DEF RemoveFails, TypeOK, Places
    <3> QED
      BY <1>3, <3>1, <3>2 DEF RemoveFails, TypeOK
  <2>3. Owning' /\ Guarding' /\ Trying'
    BY <1>3, <2>1 DEF RemoveFails, TypeOK, Owning, Guarding, Trying
  <2>4. Condemned'
    BY <1>3, <2>1 DEF RemoveFails, TypeOK, Guarding, Condemned
  <2> QED
    BY <2>2, <2>3, <2>4
<1>4. CASE Release(p)
  <2>1. lock = p
    BY <1>4 DEF Release, Owning
  <2> QED
    BY <1>4, <2>1 DEF Release, TypeOK, Places, Owning, Guarding, Condemned, Trying
<1> QED
  BY <1>1, <1>2, <1>3, <1>4

\* Steps that read the lock file or compare what was read.
LEMMA InspectInv ==
  ASSUME IInv, NEW p \in Process,
         Inspect(p) \/ Judge(p) \/ Reinspect(p) \/ Rejudge(p) \/ ReadBack(p)
  PROVE  IInv'
<1> USE NoneAssumption, FaultAssumption
    DEF IInv, At, Goto, Alive, lockFile
<1>1. CASE Inspect(p)
  <2>1. tries[p] < 3
    BY <1>1 DEF Inspect, Trying
  <2>2. TypeOK' /\ Trying'
    BY <1>1, <2>1 DEF Inspect, Retry, Readable, TypeOK, Places, Trying
  <2>3. Owning' /\ Guarding' /\ Condemned'
    BY <1>1 DEF Inspect, Retry, TypeOK, Owning, Guarding, Condemned
  <2> QED
    BY <2>2, <2>3
<1>2. CASE Judge(p)
  BY <1>2 DEF Judge, TypeOK, Places, Owning, Guarding, Condemned, Trying
<1>3. CASE Reinspect(p)
  <2>1. TypeOK' /\ Trying'
    BY <1>3 DEF Reinspect, Readable, TypeOK, Places, Trying
  <2>2. Owning' /\ Guarding'
    BY <1>3 DEF Reinspect, TypeOK, Owning, Guarding
  <2>3. Condemned'
    BY <1>3 DEF Reinspect, TypeOK, Condemned
  <2> QED
    BY <2>1, <2>2, <2>3
<1>4. CASE Rejudge(p)
  <2>1. seen[p] \in Process
    BY <1>4 DEF Rejudge, TypeOK
  <2> QED
    BY <1>4, <2>1 DEF Rejudge, TypeOK, Places, Owning, Guarding, Condemned, Trying
<1>5. CASE ReadBack(p)
  BY <1>5 DEF ReadBack, TypeOK, Places, Owning, Guarding, Condemned, Trying
<1> QED
  BY <1>1, <1>2, <1>3, <1>4, <1>5

\* Steps on the reclaim file.
LEMMA GuardInv ==
  ASSUME IInv, NEW p \in Process,
         TakeGuard(p) \/ WriteGuard(p) \/ GuardFails(p) \/ Unguard(p)
  PROVE  IInv'
<1> USE NoneAssumption, FaultAssumption
    DEF IInv, At, Goto, Alive, lockFile
<1>1. CASE TakeGuard(p)
  BY <1>1 DEF TakeGuard, TypeOK, Places, Owning, Guarding, Condemned, Trying
<1>2. CASE WriteGuard(p)
  BY <1>2 DEF WriteGuard, TypeOK, Places, Owning, Guarding, Condemned, Trying
<1>3. CASE GuardFails(p)
  BY <1>3 DEF GuardFails, Fault, TypeOK, Places, Owning, Guarding, Condemned, Trying
<1>4. CASE Unguard(p)
  <2>1. tries[p] < 3 /\ guard = p
    BY <1>4 DEF Unguard, Trying, Guarding
  <2>2. TypeOK' /\ Trying'
    BY <1>4, <2>1 DEF Unguard, Retry, TypeOK, Places, Trying
  <2>3. Owning' /\ Guarding' /\ Condemned'
    BY <1>4, <2>1 DEF Unguard, Retry, TypeOK, Owning, Guarding, Condemned
  <2> QED
    BY <2>2, <2>3
<1> QED
  BY <1>1, <1>2, <1>3, <1>4

\* A process ends; here, and only here, the timing assumption is used: the
\* owner that a reclaimer has just read does not end without its lock.
LEMMA DieInv ==
  ASSUME IInv, NEW p \in Process, Settled(p), Die(p)
  PROVE  IInv'
<1> USE NoneAssumption, FaultAssumption
    DEF IInv, At, Goto, Alive, lockFile
<1>1. TypeOK' /\ Owning' /\ Guarding' /\ Trying'
  BY DEF Die, TypeOK, Places, Owning, Guarding, Trying
<1>2. ASSUME NEW q \in Process, pc'[q] = "rejudge", pc'[seen'[q]] = "dead"
      PROVE  lock' = seen'[q]
  <2>1. pc[q] = "rejudge" /\ seen' = seen /\ lock' = lock /\ seen[q] \in Process
    BY <1>2 DEF Die, TypeOK
  <2>2. CASE pc[seen[q]] = "dead"
    BY <2>1, <2>2 DEF Condemned
  <2>3. CASE pc[seen[q]] # "dead"
    <3>1. seen[q] = p
      BY <1>2, <2>1, <2>3 DEF Die, TypeOK
    <3> QED
      BY <2>1, <3>1 DEF Settled
  <2> QED
    BY <2>2, <2>3
<1>3. ASSUME NEW q \in Process, pc'[q] = "remove"
      PROVE  seen'[q] \in Process /\ pc'[seen'[q]] = "dead" /\ lock' = seen'[q]
  BY <1>3 DEF Die, TypeOK, Condemned
<1>4. Condemned'
  BY <1>2, <1>3 DEF Condemned
<1> QED
  BY <1>1, <1>4

LEMMA NextInv == IInv /\ [SettledNext]_vars => IInv'
<1> SUFFICES ASSUME IInv, [SettledNext]_vars PROVE IInv'
  OBVIOUS
<1>1. ASSUME NEW p \in Process, Step(p) PROVE IInv'
  BY <1>1, CreateInv, RemoveInv, InspectInv, GuardInv DEF Step
<1>2. ASSUME NEW p \in Process, Fails(p) PROVE IInv'
  BY <1>2, CreateInv, RemoveInv, GuardInv DEF Fails
<1>3. ASSUME NEW p \in Process, Settled(p), Die(p) PROVE IInv'
  BY <1>3, DieInv
<1>4. CASE UNCHANGED vars
  BY <1>4 DEF vars, IInv, TypeOK, Owning, Guarding, Condemned, Trying, At, Alive
<1> QED
  BY <1>1, <1>2, <1>3, <1>4 DEF SettledNext

LEMMA Invariance == SettledSpec => []IInv
  BY InitInv, NextInv, PTL DEF SettledSpec

-----------------------------------------------------------------------------
\* Every variable keeps its type; no process makes more than three attempts.
THEOREM TypeCorrect == SettledSpec => []TypeOK
<1>1. IInv => TypeOK
  BY DEF IInv
<1> QED
  BY <1>1, Invariance, PTL

\* The lock file names its holder for as long as it is held, whatever other
\* processes inspect, reclaim, fail or die meanwhile.
THEOREM HolderIsAlwaysNamed == SettledSpec => []HolderIsNamed
<1>1. IInv => HolderIsNamed
  BY DEF IInv, Owning, HolderIsNamed
<1> QED
  BY <1>1, Invariance, PTL

\* At most one process holds the root.
THEOREM OneHolder == SettledSpec => []MutualExclusion
<1>1. IInv => MutualExclusion
  BY DEF IInv, Owning, MutualExclusion
<1> QED
  BY <1>1, Invariance, PTL

\* The lock file of a process that exists disappears only when that process
\* removes it.
OwnerKeepsLock ==
  [][\A p \in Process :
       lock = p /\ Alive(p) /\ lock' # p => At(p, "release") \/ pc'[p] = "failed"]_vars

\* Reclaiming takes the lock away from no process that exists.
THEOREM OwnersKeepTheirLock == SettledSpec => OwnerKeepsLock
<1> DEFINE Kept ==
      \A p \in Process :
        lock = p /\ Alive(p) /\ lock' # p => At(p, "release") \/ pc'[p] = "failed"
<1>1. ASSUME IInv, SettledNext, NEW p \in Process, lock = p, Alive(p), lock' # p
      PROVE  At(p, "release") \/ pc'[p] = "failed"
  <2> USE DEF IInv, lockFile
  <2>1. ASSUME NEW q \in Process, Step(q) \/ Fails(q) \/ Die(q)
        PROVE  At(p, "release") \/ pc'[p] = "failed"
    <3>1. CASE CreateLock(q)
      BY <1>1, <3>1, NoneAssumption DEF CreateLock
    <3>2. CASE Remove(q) \/ RemoveFails(q)
      BY <1>1, <3>2 DEF Remove, RemoveFails, Condemned
    <3>3. CASE Release(q)
      BY <1>1, <3>3 DEF Release, Owning, At
    <3>4. CASE WriteFails(q)
      BY <1>1, <3>4 DEF WriteFails, Owning, Goto, TypeOK, At
    <3> QED
      BY <1>1, <2>1, <3>1, <3>2, <3>3, <3>4
      DEF Step, Fails, Die, LockExists, CreateFails, WriteLock, SyncLock, Inspect,
          Judge, TakeGuard, WriteGuard, GuardFails, Reinspect, Rejudge, Unguard,
          ReadBack
  <2> QED
    BY <1>1, <2>1 DEF SettledNext
<1>2. IInv /\ [SettledNext]_vars => [Kept]_vars
  BY <1>1
<1> QED
  BY <1>2, Invariance, PTL DEF SettledSpec, OwnerKeepsLock

-----------------------------------------------------------------------------
(***************************************************************************)
(* The refinement of OwnedRoot.                                            *)
(***************************************************************************)
Owner == IF lock # None /\ Alive(lock) THEN lock ELSE None
Inside == {p \in Process : At(p, "held")}

\* Creating the file reserves the root: nobody alive has one there.
LEMMA CreateOwns ==
  ASSUME IInv, NEW p \in Process, CreateLock(p)
  PROVE  Owned!Take(p)
<1>1. Owner = None /\ Owner' = p
  BY NoneAssumption DEF CreateLock, Owner, IInv, TypeOK, At, Goto, Alive
<1>2. Inside' = Inside
  BY DEF CreateLock, Inside, IInv, TypeOK, At, Goto
<1> QED
  BY <1>1, <1>2 DEF Owned!Take, Owner, Inside

\* Who has filled and synced it holds the root.
LEMMA SyncOwns ==
  ASSUME IInv, NEW p \in Process, SyncLock(p)
  PROVE  Owned!Enter(p)
<1>1. lock = p /\ lock' = p /\ p # None
  BY NoneAssumption DEF SyncLock, lockFile, IInv, Owning, At
<1>2. Owner = p /\ Owner' = p
  BY <1>1 DEF SyncLock, Owner, IInv, TypeOK, At, Goto, Alive
<1>3. Inside' = Inside \cup {p}
  BY DEF SyncLock, Inside, IInv, TypeOK, At, Goto
<1> QED
  BY <1>2, <1>3 DEF Owned!Enter, Owner, Inside

\* Releasing starts by reading the file back, and finds what was written.
LEMMA ReadBackOwns ==
  ASSUME IInv, NEW p \in Process, ReadBack(p)
  PROVE  Owned!Retire(p)
<1>1. pc' = [pc EXCEPT ![p] = "release"] /\ lock' = lock
  BY DEF ReadBack, lockFile, IInv, Owning, At, Goto
<1>2. Owner' = Owner
  BY <1>1 DEF ReadBack, Owner, IInv, TypeOK, At, Alive
<1>3. p \in Inside /\ Inside' = Inside \ {p}
  BY <1>1 DEF ReadBack, Inside, IInv, TypeOK, At
<1> QED
  BY <1>2, <1>3 DEF Owned!Retire, Owner, Inside

\* Only the owner removes a file that was created by a process still there.
LEMMA ReleaseOwns ==
  ASSUME IInv, NEW p \in Process, Release(p) \/ WriteFails(p)
  PROVE  Owned!Leave(p)
<1>1. lock = p /\ p # None /\ lock' = None /\ pc[p] \in {"release", "write", "sync"}
  BY NoneAssumption DEF Release, WriteFails, RemoveLock, IInv, Owning, At
<1>2. Owner = p /\ Owner' = None
  BY <1>1 DEF Owner, At, Alive
<1>3. pc' = [pc EXCEPT ![p] = "done"] \/ pc' = [pc EXCEPT ![p] = "failed"]
  BY DEF Release, WriteFails, Goto
<1>4. Inside' = Inside \ {p}
  BY <1>1, <1>3 DEF Inside, IInv, TypeOK, At
<1> QED
  BY <1>2, <1>4 DEF Owned!Leave, Owner, Inside

\* What is reclaimed belongs to nobody.
LEMMA ReclaimOwns ==
  ASSUME IInv, NEW p \in Process, Remove(p) \/ RemoveFails(p)
  PROVE  Owner' = Owner /\ Inside' = Inside
<1>1. lock \in Process /\ ~Alive(lock) /\ pc[p] = "remove"
  BY DEF Remove, RemoveFails, IInv, Condemned, At
<1>2. \E place \in {"unguardFail", "unguardRetry"} : pc' = [pc EXCEPT ![p] = place]
  BY DEF Remove, RemoveFails, Goto
<1>3. lock' \in {lock, None}
  BY DEF Remove, RemoveFails, RemoveLock, lockFile
<1>4. pc'[lock] = "dead"
  BY <1>1, <1>2 DEF IInv, TypeOK, Alive
<1>5. Owner' = Owner
  BY <1>1, <1>3, <1>4 DEF Owner, Alive
<1> QED
  BY <1>1, <1>2, <1>5 DEF Inside, IInv, TypeOK, At

\* A process that ends leaves the root if it owns it.
LEMMA DieOwns ==
  ASSUME IInv, NEW p \in Process, Die(p)
  PROVE  Owned!Leave(p) \/ (Owner' = Owner /\ Inside' = Inside)
<1>1. lock' = lock /\ pc' = [pc EXCEPT ![p] = "dead"] /\ pc[p] # "dead"
  BY DEF Die, lockFile, Goto, Alive
<1>2. Inside' = Inside \ {p}
  BY <1>1 DEF Inside, IInv, TypeOK, At
<1>3. CASE lock = p
  <2>1. Owner = p /\ Owner' = None
    BY <1>1, <1>3, NoneAssumption DEF Owner, Alive, IInv, TypeOK
  <2> QED
    BY <1>2, <2>1 DEF Owned!Leave, Owner, Inside
<1>4. CASE lock # p
  <2>1. p \notin Inside
    BY <1>4 DEF Inside, IInv, Owning
  <2>2. Owner' = Owner
    BY <1>1, <1>4 DEF Owner, Alive, IInv, TypeOK
  <2> QED
    BY <1>2, <2>1, <2>2
<1> QED
  BY <1>3, <1>4

\* Every other step moves nobody in or out.
LEMMA OtherOwns ==
  ASSUME IInv, NEW p \in Process,
         \/ LockExists(p) \/ CreateFails(p) \/ WriteLock(p) \/ Inspect(p) \/ Judge(p)
         \/ TakeGuard(p) \/ WriteGuard(p) \/ GuardFails(p) \/ Reinspect(p) \/ Rejudge(p)
         \/ Unguard(p)
  PROVE  Owner' = Owner /\ Inside' = Inside
<1>1. lock' = lock /\ pc[p] \notin {"held", "dead"}
  BY DEF LockExists, CreateFails, WriteLock, Inspect, Judge, TakeGuard, WriteGuard,
         GuardFails, Reinspect, Rejudge, Unguard, lockFile, At
<1>2. \E place \in Places \ {"held", "dead"} : pc' = [pc EXCEPT ![p] = place]
  BY DEF LockExists, CreateFails, WriteLock, Inspect, Judge, TakeGuard, WriteGuard,
         GuardFails, Reinspect, Rejudge, Unguard, Retry, Goto, Places
<1>3. \A q \in Process : Alive(q)' = Alive(q) /\ At(q, "held")' = At(q, "held")
  BY <1>1, <1>2 DEF IInv, TypeOK, Alive, At
<1> QED
  BY <1>1, <1>3 DEF Owner, Inside, IInv, TypeOK

\* The lock implements OwnedRoot, under Settled: with it the lock file can be
\* replaced by what Lifecycle assumes of it.
THEOREM ImplementsOwnedRoot == SettledSpec => OwnedSpec
<1>1. Init => Owned!Init
  BY DEF Init, Owned!Init, At
<1>2. ASSUME IInv, [SettledNext]_vars PROVE [Owned!Next]_(Owned!vars)
  <2>1. ASSUME NEW p \in Process, Step(p) \/ Fails(p) \/ Die(p)
        PROVE  Owned!Next \/ (Owner' = Owner /\ Inside' = Inside)
    <3>1. CASE CreateLock(p)
      BY <1>2, <3>1, CreateOwns DEF Owned!Next
    <3>2. CASE SyncLock(p)
      BY <1>2, <3>2, SyncOwns DEF Owned!Next
    <3>3. CASE ReadBack(p)
      BY <1>2, <3>3, ReadBackOwns DEF Owned!Next
    <3>4. CASE Release(p) \/ WriteFails(p)
      BY <1>2, <3>4, ReleaseOwns DEF Owned!Next
    <3>5. CASE Die(p)
      BY <1>2, <3>5, DieOwns DEF Owned!Next
    <3> QED
      BY <1>2, <2>1, <3>1, <3>2, <3>3, <3>4, <3>5, ReclaimOwns, OtherOwns DEF Step, Fails
  <2>2. CASE SettledNext
    <3>1. Owned!Next \/ (Owner' = Owner /\ Inside' = Inside)
      BY <2>1, <2>2 DEF SettledNext
    <3> QED
      BY <3>1 DEF Owned!vars, Owner, Inside
  <2>3. CASE UNCHANGED vars
    BY <2>3 DEF vars, Owned!vars, At, Alive
  <2> QED
    BY <1>2, <2>2, <2>3
<1>3. IInv /\ [SettledNext]_vars => [Owned!Next]_(Owned!vars)
  BY <1>2
<1> QED
  BY <1>1, <1>3, Invariance, PTL DEF SettledSpec, OwnedSpec, Owned!Spec
=============================================================================
