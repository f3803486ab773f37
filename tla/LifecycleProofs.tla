-------------------------- MODULE LifecycleProofs --------------------------
(***************************************************************************)
(* Proofs about Lifecycle, for any roots and locks, any number of          *)
(* processes, commands and runs, and crashes at any point.                 *)
(***************************************************************************)
EXTENDS Lifecycle, FiniteSetTheorems, WellFoundedInduction, TLAPS

\* A process at work: it executes a run or archives.
Executing == {"start", "running", "final"}

Copy == [slot : Slot, data : Data, dirs : SUBSET {"run", "sub"}]

\* A command knows the root it is for, and one that executes a run its
\* directory, which is in that root.
Placed ==
  \A p \in Process :
    /\ pc[p] \notin {"idle", "dead"} => root[p] \in Root
    /\ pc[p] \in Executing => dir[p] \in Slot /\ dir[p][1] = root[p]

TInv == TypeOK /\ Placed

ProcessStep(p) == Run(p) \/ Continue(p) \/ ArchiveRoot(p) \/ Lock(p) \/ Die(p)

-----------------------------------------------------------------------------
(***************************************************************************)
(* Types.                                                                  *)
(***************************************************************************)
\* The number of runs created is one.
LEMMA CreatedType ==
  ASSUME TypeOK PROVE Created \in 0..MaxRun
<1> DEFINE made == {r \in 1..MaxRun : latest[r] > 0}
<1>1. IsFiniteSet(1..MaxRun) /\ Cardinality(1..MaxRun) = MaxRun
  BY BoundAssumption, FS_Interval
<1>2. made \subseteq 1..MaxRun
  OBVIOUS
<1>3. IsFiniteSet(made) /\ Cardinality(made) <= MaxRun /\ Cardinality(made) \in Nat
  BY <1>1, <1>2, FS_Subset, FS_CardinalityType
<1> QED
  BY <1>3, BoundAssumption DEF Created

\* Nothing exists at the start.
LEMMA InitTInv == Init => TInv
<1> SUFFICES ASSUME Init PROVE TInv
  OBVIOUS
<1>1. TypeOK
  BY BoundAssumption DEF Init, TypeOK, Exists, Place, Locking
<1>2. Placed
  BY DEF Init, Placed, Executing
<1> QED
  BY <1>1, <1>2 DEF TInv

\* Only the process that takes a step moves; what the others know stays.
LEMMA OthersStay ==
  ASSUME TypeOK, NEW p \in Process, ProcessStep(p), NEW q \in Process, q # p
  PROVE  /\ pc'[q] = pc[q] /\ root'[q] = root[q] /\ want'[q] = want[q]
         /\ dir'[q] = dir[q] /\ inventory'[q] = inventory[q]
         /\ read'[q] = read[q] /\ snapshot'[q] = snapshot[q]
<1> USE DEF TypeOK, own, tree, Goto
<1>1. CASE Run(p)
  BY <1>1 DEF Run, BeginRun, Begin, Create, CreateEnds, MarkRootRunning, ShellsEnd,
              MarkRootFinal, HardExit
<1>2. CASE Continue(p)
  BY <1>2 DEF Continue, BeginContinue, Begin, Open, OpenRefused
<1>3. CASE Lock(p) \/ Die(p)
  BY <1>3 DEF Lock, TakeLock, LocksTaken, LockRefused, Finish, Exit, Die
<1>4. CASE ArchiveRoot(p)
  BY <1>4 DEF ArchiveRoot, BeginArchive, Begin, Discover, Validate, ArchiveRefused,
              ReadArchive, CopyRun, CopyEnds, RenameArchive, RemoveData, RemoveStatus,
              FilesRemoved, CleanupFails, PruneDir, ReleaseAndPrune, ArchiveEnds, Exit
<1> QED
  BY <1>1, <1>2, <1>3, <1>4 DEF ProcessStep

\* A nonempty set of ids has a greatest one.
LEMMA LastId ==
  ASSUME NEW T \in SUBSET (0..MaxId), T # {}
  PROVE  \E i \in T : \A j \in T : j <= i
<1> DEFINE R == OpToRel(<, Nat)
           U == {MaxId - j : j \in T}
<1>1. U \subseteq Nat /\ U # {}
  <2>1. \A j \in 0..MaxId : MaxId - j \in Nat
    BY BoundAssumption
  <2> QED
    BY <2>1
<1>2. \E u \in U : \A v \in U : ~(<<v, u>> \in R)
  <2> HIDE DEF R, U
  <2>1. IsWellFoundedOn(R, Nat)
    BY NatLessThanWellFounded DEF R
  <2> QED
    BY <1>1, <2>1, WFMin
<1>3. PICK u \in U : \A v \in U : ~(<<v, u>> \in R)
  BY <1>2
<1>4. \A v \in U : ~(v < u)
  <2> HIDE DEF U
  <2> QED
    BY <1>1, <1>3 DEF OpToRel
<1>5. PICK i \in T : u = MaxId - i
  OBVIOUS
<1>6. ASSUME NEW j \in T PROVE j <= i
  <2>1. ~(MaxId - j < MaxId - i)
    BY <1>4, <1>5
  <2> QED
    BY <2>1, BoundAssumption
<1> QED
  BY <1>6

\* The directory of a new run is one that does not exist.
LEMMA NextIdFree ==
  ASSUME TypeOK, NEW r \in Root, NextId(r) <= MaxId
  PROVE  NextId(r) \in 0..MaxId /\ ~Exists(<<r, NextId(r)>>)
<1> DEFINE ids == {i \in 0..MaxId : Exists(<<r, i>>)}
<1>1. CASE ids = {}
  BY <1>1, BoundAssumption DEF NextId
<1>2. CASE ids # {}
  <2> DEFINE last == CHOOSE i \in ids : \A j \in ids : j <= i
  <2>1. last \in ids /\ \A j \in ids : j <= last
    BY <1>2, LastId
  <2>2. NextId(r) = 1 + last
    BY <1>2 DEF NextId
  <2>3. last \in 0..MaxId
    BY <2>1
  <2> HIDE DEF last
  <2> QED
    BY <2>1, <2>2, <2>3, BoundAssumption
<1> QED
  BY <1>1, <1>2

\* The steps by which a command begins.
LEMMA BeginTypes ==
  ASSUME TInv, NEW p \in Process, NEW place \in {"lockRun", "lockContinue", "lockArchive"},
         NEW r \in Root, NEW locks \in SUBSET Root, Begin(p, place, r, locks)
  PROVE  TInv'
<1> USE DEF TInv, TypeOK, Placed, Executing, Place, Locking, tree
<1>1. begun' \in 0..MaxCommand
  BY BoundAssumption DEF Begin
<1>2. pc' \in [Process -> Place] /\ root' \in [Process -> Root \cup {None}]
      /\ want' \in [Process -> SUBSET Root]
  BY DEF Begin, Goto
<1>3. Placed'
  BY DEF Begin, Goto
<1> QED
  BY <1>1, <1>2, <1>3 DEF Begin, Exists

\* The steps in which only the place of a process changes.
LEMMA GotoTypes ==
  ASSUME TInv, NEW p \in Process, NEW place \in Place, Goto(p, place),
         pc[p] \notin {"idle", "dead"},
         place \in Executing => pc[p] \in Executing,
         UNCHANGED <<tree, shells, archive, latest, begun, own>>,
         holder' \in [Root -> Process \cup {None}]
  PROVE  TInv'
<1>1. pc' = [pc EXCEPT ![p] = place] /\ pc' \in [Process -> Place]
  BY DEF Goto, TInv, TypeOK
<1>2. TypeOK'
  BY <1>1 DEF TInv, TypeOK, own, tree, Exists
<1>3. Placed'
  BY <1>1 DEF TInv, Placed, own, TypeOK
<1> QED
  BY <1>2, <1>3 DEF TInv

\* The end of a process.
LEMMA ExitTypes ==
  ASSUME TInv, NEW p \in Process, Exit(p), UNCHANGED <<tree, shells, archive, latest, begun>>,
         holder' \in [Root -> Process \cup {None}]
  PROVE  TInv'
<1> USE DEF TInv, TypeOK, Exit, Goto, Place, Locking, tree, Exists
<1>1. TypeOK'
  OBVIOUS
<1>2. Placed'
  BY DEF Placed, Executing
<1> QED
  BY <1>1, <1>2

\* A lock that is released or taken over has a holder or none.
LEMMA HolderTypes ==
  ASSUME TypeOK, NEW p \in Process
  PROVE  Unlock(p) => holder' \in [Root -> Process \cup {None}]
  BY DEF Unlock, TypeOK

\* The lock steps and the death of a process.
LEMMA LockTypes ==
  ASSUME TInv, NEW p \in Process, Lock(p) \/ Die(p) \/ HardExit(p) PROVE TInv'
<1>0. holder \in [Root -> Process \cup {None}] /\ want \in [Process -> SUBSET Root]
  BY DEF TInv, TypeOK
<1>1. CASE TakeLock(p)
  <2>1. holder' \in [Root -> Process \cup {None}] /\ want' \in [Process -> SUBSET Root]
    BY <1>0, <1>1 DEF TakeLock
  <2> QED
    BY <1>1, <2>1 DEF TakeLock, TInv, TypeOK, Placed, tree, Exists
<1>2. CASE LocksTaken(p)
  <2>1. pc[p] \in Locking /\ AfterLocks(pc[p]) \in Place \ Executing
    BY <1>2 DEF LocksTaken, AfterLocks, Locking, Place, Executing
  <2> QED
    BY <1>0, <1>2, <2>1, GotoTypes DEF LocksTaken, Locking
<1>3. CASE LockRefused(p)
  BY <1>0, <1>3, GotoTypes DEF LockRefused, Locking, Place, Executing
<1>4. CASE Finish(p)
  BY <1>4, ExitTypes, HolderTypes DEF Finish, TInv
<1>5. CASE Die(p)
  BY <1>0, <1>5, GotoTypes DEF Die, Place, Executing
<1>6. CASE HardExit(p)
  BY <1>6, GotoTypes, HolderTypes DEF HardExit, Place, Executing, TInv
<1> QED
  BY <1>1, <1>2, <1>3, <1>4, <1>5, <1>6 DEF Lock

\* The steps that create, resume and execute a run.
LEMMA RunTypes ==
  ASSUME TInv, NEW p \in Process, Run(p) \/ Continue(p) PROVE TInv'
<1>0. holder \in [Root -> Process \cup {None}]
  BY DEF TInv, TypeOK
<1>1. CASE BeginRun(p) \/ BeginContinue(p)
  BY <1>1, BeginTypes, RootAssumption DEF BeginRun, BeginContinue
<1>2. CASE Create(p)
  <2>1. root[p] \in Root
    BY <1>2 DEF TInv, Placed, Create, At
  <2> DEFINE s == <<root[p], NextId(root[p])>>
             run == Created + 1
  <2>2. s \in Slot /\ ~Exists(s) /\ s[1] = root[p]
    BY <1>2, <2>1, NextIdFree DEF Create, Slot, TInv
  <2>3. run \in 1..MaxRun
    BY <1>2, CreatedType, BoundAssumption DEF Create, TInv
  <2>4. /\ occupant' = [occupant EXCEPT ![s] = run]
        /\ version' = [version EXCEPT ![s] = 1]
        /\ status' = [status EXCEPT ![s] = "NOTSTARTED"]
        /\ dirs' = [dirs EXCEPT ![s] = {"run"}]
        /\ latest' = [latest EXCEPT ![run] = 1]
        /\ dir' = [dir EXCEPT ![p] = s]
        /\ pc' = [pc EXCEPT ![p] = "start"]
        /\ UNCHANGED <<holder, shells, archive, begun, root, want, inventory, read, snapshot>>
    BY <1>2 DEF Create, Goto
  <2> HIDE DEF s, run
  <2>5. TypeOK'
    BY <2>2, <2>3, <2>4, BoundAssumption DEF TInv, TypeOK, Exists, Place
  <2>6. Placed'
    BY <2>1, <2>2, <2>4 DEF TInv, TypeOK, Placed, Executing
  <2> QED
    BY <2>5, <2>6 DEF TInv
<1>3. CASE CreateEnds(p) \/ OpenRefused(p)
  BY <1>0, <1>3, GotoTypes DEF CreateEnds, OpenRefused, At, Place, Executing
<1>4. CASE Open(p)
  <2>1. root[p] \in Root
    BY <1>4 DEF TInv, Placed, Open, At
  <2>2. PICK s \in Slot : s[1] = root[p] /\ dir' = [dir EXCEPT ![p] = s]
    BY <1>4, <2>1 DEF Open, LatestRun, Slot
  <2>3. /\ pc' = [pc EXCEPT ![p] = "start"]
        /\ UNCHANGED <<holder, tree, shells, archive, latest, begun, root, want, inventory,
                       read, snapshot>>
    BY <1>4 DEF Open, Goto
  <2>4. TypeOK'
    BY <2>2, <2>3 DEF TInv, TypeOK, Exists, Place, tree
  <2>5. Placed'
    BY <2>1, <2>2, <2>3 DEF TInv, TypeOK, Placed, Executing
  <2> QED
    BY <2>4, <2>5 DEF TInv
<1>5. CASE MarkRootRunning(p) \/ ShellsEnd(p) \/ MarkRootFinal(p)
  <2>1. dir[p] \in Slot /\ pc[p] \in Executing
    BY <1>5 DEF MarkRootRunning, ShellsEnd, MarkRootFinal, At, TInv, Placed, Executing
  <2>2. /\ shells' \subseteq Slot
        /\ status' \in [Slot -> {"none", "NOTSTARTED", "RUNNING", "FINAL"}]
        /\ UNCHANGED <<holder, occupant, version, dirs, archive, latest, begun, own>>
    BY <1>5, <2>1 DEF MarkRootRunning, ShellsEnd, MarkRootFinal, TInv, TypeOK, tree
  <2>3. PICK place \in {"running", "final", "unlock"} : pc' = [pc EXCEPT ![p] = place]
    BY <1>5 DEF MarkRootRunning, ShellsEnd, MarkRootFinal, Goto
  <2>4. TypeOK'
    BY <2>2, <2>3 DEF TInv, TypeOK, Exists, Place, own
  <2>5. Placed'
    BY <2>1, <2>2, <2>3 DEF TInv, TypeOK, Placed, Executing, own
  <2> QED
    BY <2>4, <2>5 DEF TInv
<1>6. CASE HardExit(p)
  BY <1>6, LockTypes
<1> QED
  BY <1>1, <1>2, <1>3, <1>4, <1>5, <1>6 DEF Run, Continue

\* What the shells do.
LEMMA ShellTypes ==
  ASSUME TInv, NEW s \in Slot, MakeSub(s) \/ WriteData(s) PROVE TInv'
<1>1. CASE MakeSub(s)
  BY <1>1 DEF MakeSub, TInv, TypeOK, Placed, own, Exists
<1>2. CASE WriteData(s)
  <2>1. occupant[s] \in 1..MaxRun /\ version[s] + 1 \in 0..MaxVersion
    BY <1>2, BoundAssumption DEF WriteData, TInv, TypeOK
  <2> QED
    BY <1>2, <2>1 DEF WriteData, TInv, TypeOK, Placed, own, Exists
<1> QED
  BY <1>1, <1>2

\* The steps of an archive command.
LEMMA ArchiveTypes ==
  ASSUME TInv, NEW p \in Process, ArchiveRoot(p) PROVE TInv'
<1>0. holder \in [Root -> Process \cup {None}]
  BY DEF TInv, TypeOK
<1>1. CASE BeginArchive(p)
  BY <1>1, BeginTypes DEF BeginArchive
<1>2. CASE Discover(p)
  <2>1. inventory'[p] \subseteq Slot /\ want'[p] \subseteq Root
    BY <1>2, RootAssumption DEF Discover, Scope, Slot, TInv, TypeOK
  <2> QED
    BY <1>2, <2>1 DEF Discover, TInv, TypeOK, Placed, Goto, Place, Locking, Executing, tree, Exists, At
<1>3. CASE \/ Validate(p) \/ ArchiveRefused(p) \/ CopyEnds(p) \/ FilesRemoved(p)
           \/ CleanupFails(p)
  <2>1. PICK place \in {"read", "unlock", "rename", "prune"} : Goto(p, place)
    BY <1>3 DEF Validate, ArchiveRefused, CopyEnds, FilesRemoved, CleanupFails
  <2>2. pc[p] \notin {"idle", "dead"} /\ UNCHANGED <<holder, tree, shells, archive, latest, begun, own>>
    BY <1>3 DEF Validate, ArchiveRefused, CopyEnds, FilesRemoved, CleanupFails, At
  <2> QED
    BY <1>0, <2>1, <2>2, GotoTypes DEF Place, Executing
<1>4. CASE ReadArchive(p)
  BY <1>4, RootAssumption DEF ReadArchive, TInv, TypeOK, Placed, Goto, Place, Executing, tree, Exists, At
<1>5. CASE CopyRun(p)
  <2>1. snapshot'[p] \subseteq Copy
    BY <1>5 DEF CopyRun, Copy, TInv, TypeOK, Data
  <2> QED
    BY <1>5, <2>1 DEF CopyRun, Copy, TInv, TypeOK, Placed, tree, Exists
<1>6. CASE RenameArchive(p)
  <2>1. {c.data : c \in snapshot[p]} \subseteq Data /\ read[p] \subseteq Data
    BY DEF TInv, TypeOK
  <2> QED
    BY <1>6, <2>1, SMTT(30), ZenonT(30) DEF RenameArchive, TInv, TypeOK, Placed, Goto, Place, Executing, tree, Exists, At, own
<1>7. CASE RemoveData(p) \/ RemoveStatus(p)
  <2>1. /\ version' \in [Slot -> 0..MaxVersion]
        /\ status' \in [Slot -> {"none", "NOTSTARTED", "RUNNING", "FINAL"}]
        /\ UNCHANGED <<holder, occupant, dirs, shells, archive, latest, begun, pc, own>>
    <3>1. CASE RemoveData(p)
      <4>1. PICK s \in inventory[p] : version' = [version EXCEPT ![s] = 0]
        BY <3>1 DEF RemoveData
      <4>2. 0 \in 0..MaxVersion
        BY BoundAssumption
      <4> QED
        BY <3>1, <4>1, <4>2 DEF RemoveData, TInv, TypeOK
    <3>2. CASE RemoveStatus(p)
      BY <3>2 DEF RemoveStatus, TInv, TypeOK
    <3> QED
      BY <1>7, <3>1, <3>2
  <2>2. TypeOK'
    BY <2>1 DEF TInv, TypeOK, Exists, own
  <2>3. Placed'
    BY <2>1 DEF TInv, Placed, own
  <2> QED
    BY <1>7, <2>2, <2>3 DEF TInv
<1>8. CASE PruneDir(p)
  <2>1. PICK c \in snapshot[p] : \E d \in c.dirs \cap dirs[c.slot] :
          /\ Empty(c.slot, d)
          /\ dirs' = [dirs EXCEPT ![c.slot] = @ \ {d}]
          /\ occupant' = [occupant EXCEPT ![c.slot] = IF d = "run" THEN 0 ELSE @]
    BY <1>8 DEF PruneDir
  <2>2. c.slot \in Slot /\ c.dirs \subseteq {"run", "sub"}
    BY DEF TInv, TypeOK
  <2>3. PICK d \in {"run", "sub"} :
          /\ Empty(c.slot, d) /\ d \in dirs[c.slot]
          /\ dirs' = [dirs EXCEPT ![c.slot] = @ \ {d}]
          /\ occupant' = [occupant EXCEPT ![c.slot] = IF d = "run" THEN 0 ELSE @]
    BY <2>1, <2>2
  <2>4. UNCHANGED <<holder, version, status, shells, archive, latest, begun, pc, own>>
    BY <1>8 DEF PruneDir
  <2>5. /\ dirs' \in [Slot -> SUBSET {"run", "sub"}] /\ occupant' \in [Slot -> 0..MaxRun]
        /\ \A s \in Slot : ("sub" \in dirs'[s] => "run" \in dirs'[s])
                          /\ ("run" \in dirs'[s] <=> occupant'[s] > 0)
    BY <2>2, <2>3, BoundAssumption DEF TInv, TypeOK, Exists, Empty
  <2>6. TypeOK'
    BY <2>4, <2>5 DEF TInv, TypeOK, Exists, own
  <2>7. Placed'
    BY <2>4 DEF TInv, Placed, own
  <2> QED
    BY <2>6, <2>7 DEF TInv
<1>9. CASE ReleaseAndPrune(p)
  BY <1>9, GotoTypes, HolderTypes DEF ReleaseAndPrune, TInv, At, Place, Executing
<1>10. CASE ArchiveEnds(p)
  BY <1>0, <1>10, ExitTypes DEF ArchiveEnds
<1> QED
  BY <1>1, <1>2, <1>3, <1>4, <1>5, <1>6, <1>7, <1>8, <1>9, <1>10 DEF ArchiveRoot

\* Every step keeps the types.
LEMMA NextTInv == TInv /\ [Next]_vars => TInv'
<1> SUFFICES ASSUME TInv, [Next]_vars PROVE TInv'
  OBVIOUS
<1>1. CASE UNCHANGED vars
  BY <1>1 DEF TInv, TypeOK, Placed, Exists, vars, tree, own
<1> QED
  BY <1>1, RunTypes, ArchiveTypes, LockTypes, ShellTypes DEF Next

-----------------------------------------------------------------------------
(***************************************************************************)
(* Locks.                                                                  *)
(***************************************************************************)
InRun == {"lockRun", "lockContinue", "create", "open", "start", "running", "final"}
InSearch == {"lockArchive", "discover"}
InArchive == {"lockComponents", "validate", "read", "copy", "rename", "remove", "prune"}

\* The locks a process has or is taking for what it does.
Claim(p) ==
  IF pc[p] \in InRun THEN LocksOf[root[p]]
  ELSE IF pc[p] \in InSearch THEN {root[p]}
  ELSE IF pc[p] \in InArchive THEN {root[p]} \cup {s[1] : s \in inventory[p]}
  ELSE {}

LocksHeld ==
  \A p \in Process :
    /\ \A r \in Claim(p) \ want[p] : holder[r] = p
    /\ pc[p] \notin Locking \cup {"unlock", "dead"} => want[p] = {}

LInv == TInv /\ LocksHeld

\* Nobody takes a lock from a process that is not dead.
LEMMA LockKept ==
  ASSUME TypeOK, NEW p \in Process, ProcessStep(p), NEW q \in Process, q # p,
         Alive(q), NEW r \in Root, holder[r] = q
  PROVE  holder'[r] = q
<1> USE DEF TypeOK
<1>1. CASE TakeLock(p)
  BY <1>1, NoneAssumption DEF TakeLock
<1>2. CASE Unlock(p)
  BY <1>2 DEF Unlock
<1>3. CASE UNCHANGED holder
  BY <1>3
<1>4. TakeLock(p) \/ Unlock(p) \/ UNCHANGED holder
  <2>1. CASE Run(p) \/ Continue(p)
    BY <2>1 DEF Run, BeginRun, Begin, Create, CreateEnds, MarkRootRunning, ShellsEnd,
                MarkRootFinal, HardExit, Continue, BeginContinue, Open, OpenRefused
  <2>2. CASE Lock(p) \/ Die(p)
    BY <2>2 DEF Lock, LocksTaken, LockRefused, Finish, Die
  <2>3. CASE ArchiveRoot(p)
    BY <2>3 DEF ArchiveRoot, BeginArchive, Begin, Discover, Validate, ArchiveRefused,
                ReadArchive, CopyRun, CopyEnds, RenameArchive, RemoveData, RemoveStatus,
                FilesRemoved, CleanupFails, PruneDir, ReleaseAndPrune, ArchiveEnds
  <2> QED
    BY <2>1, <2>2, <2>3 DEF ProcessStep
<1> QED
  BY <1>1, <1>2, <1>3, <1>4

\* What a process claims are roots.
LEMMA ClaimType ==
  ASSUME TInv, NEW p \in Process PROVE Claim(p) \subseteq Root
<1>1. pc[p] \in InRun \cup InSearch \cup InArchive => root[p] \in Root
  BY DEF TInv, Placed, InRun, InSearch, InArchive
<1>2. \A s \in inventory[p] : s[1] \in Root
  BY DEF TInv, TypeOK, Slot
<1> QED
  BY <1>1, <1>2, RootAssumption DEF Claim

\* A process holds what it claims and does not want any more.
LEMMA OwnLocks ==
  ASSUME LInv, NEW p \in Process, ProcessStep(p)
  PROVE  /\ \A r \in (Claim(p) \ want[p])' : holder'[r] = p
         /\ pc'[p] \notin Locking \cup {"unlock", "dead"} => want'[p] = {}
<1> DEFINE Goal == /\ \A r \in (Claim(p) \ want[p])' : holder'[r] = p
                   /\ pc'[p] \notin Locking \cup {"unlock", "dead"} => want'[p] = {}
<1>0. /\ \A r \in Claim(p) \ want[p] : holder[r] = p
      /\ pc[p] \notin Locking \cup {"unlock", "dead"} => want[p] = {}
      /\ pc \in [Process -> Place] /\ root \in [Process -> Root \cup {None}]
      /\ want \in [Process -> SUBSET Root] /\ inventory \in [Process -> SUBSET Slot]
      /\ holder \in [Root -> Process \cup {None}]
      /\ Claim(p) \subseteq Root
  BY ClaimType DEF LInv, LocksHeld, TInv, TypeOK
<1> DEFINE places == InRun \cup InSearch \cup InArchive
<1>1. ASSUME pc'[p] \in {"unlock", "dead"} \/ (pc'[p] \in {"idle", "pruneAgain"} /\ want'[p] = {})
      PROVE  Goal
  BY <1>1 DEF Claim, InRun, InSearch, InArchive
<1>2. ASSUME NEW r \in Root,
             \/ Begin(p, "lockRun", r, LocksOf[r])
             \/ Begin(p, "lockContinue", r, LocksOf[r])
             \/ Begin(p, "lockArchive", r, {r})
      PROVE  Goal
  BY <1>0, <1>2 DEF Begin, Goto, Claim, InRun, InSearch, InArchive, Locking
<1>3. CASE TakeLock(p)
  <2>1. PICK r \in want[p] : /\ holder' = [holder EXCEPT ![r] = p]
                             /\ want' = [want EXCEPT ![p] = @ \ {r}]
    BY <1>3 DEF TakeLock
  <2>2. Claim(p)' = Claim(p) /\ pc' = pc /\ pc[p] \in Locking
    BY <1>3 DEF TakeLock, Claim
  <2> QED
    BY <1>0, <2>1, <2>2
<1>4. CASE LocksTaken(p)
  <2>1. want[p] = {} /\ UNCHANGED <<holder, want, root, inventory>>
        /\ pc[p] \in Locking /\ pc'[p] = AfterLocks(pc[p])
    BY <1>0, <1>4 DEF LocksTaken, Goto, own
  <2>2. Claim(p)' = Claim(p)
    BY <2>1 DEF Claim, AfterLocks, Locking, InRun, InSearch, InArchive
  <2> QED
    BY <1>0, <2>1, <2>2
<1>5. CASE Discover(p)
  <2> DEFINE found == {s \in Scope(root[p]) \X (0..MaxId) :
                         Exists(s) /\ (version[s] > 0 \/ status[s] # "none")}
  <2>1. /\ pc[p] = "discover" /\ pc'[p] = "lockComponents" /\ holder' = holder /\ root' = root
        /\ inventory'[p] = found /\ want'[p] = {s[1] : s \in found} \ {root[p]}
    BY <1>0, <1>5 DEF Discover, At, Goto
  <2> HIDE DEF found
  <2>2. Claim(p)' = {root[p]} \cup {s[1] : s \in found} /\ Claim(p) = {root[p]} /\ want[p] = {}
    BY <1>0, <2>1 DEF Claim, InRun, InSearch, InArchive, Locking
  <2>3. (Claim(p) \ want[p])' = {root[p]}
    BY <2>1, <2>2
  <2> QED
    BY <1>0, <2>1, <2>2, <2>3 DEF Locking
<1>6. ASSUME UNCHANGED <<holder, root, want, inventory>>,
             pc[p] \notin Locking \cup {"unlock", "dead", "idle"},
             \/ pc'[p] \in InRun \ Locking /\ pc[p] \in InRun
             \/ pc'[p] \in InArchive \ Locking /\ pc[p] \in InArchive
      PROVE  Goal
  <2>1. Claim(p)' = Claim(p)
    BY <1>6 DEF Claim, InRun, InSearch, InArchive
  <2> QED
    BY <1>0, <1>6, <2>1
<1>7. CASE Run(p)
  <2>1. CASE BeginRun(p)
    <3>1. PICK r \in RunIn : Begin(p, "lockRun", r, LocksOf[r])
      BY <2>1 DEF BeginRun
    <3> QED
      BY <1>2, <3>1, RootAssumption
  <2>2. CASE Create(p) \/ MarkRootRunning(p) \/ ShellsEnd(p)
    BY <1>0, <1>6, <2>2 DEF Create, MarkRootRunning, ShellsEnd, At, Goto, own, InRun, Locking
  <2>3. CASE CreateEnds(p) \/ MarkRootFinal(p) \/ HardExit(p)
    BY <1>0, <1>1, <2>3 DEF CreateEnds, MarkRootFinal, HardExit, Goto
  <2> QED
    BY <1>7, <2>1, <2>2, <2>3 DEF Run
<1>8. CASE Continue(p)
  <2>1. CASE BeginContinue(p)
    <3>1. PICK r \in RunIn : Begin(p, "lockContinue", r, LocksOf[r])
      BY <2>1 DEF BeginContinue
    <3> QED
      BY <1>2, <3>1, RootAssumption
  <2>2. CASE Open(p)
    BY <1>0, <1>6, <2>2 DEF Open, At, Goto, own, InRun, Locking
  <2>3. CASE OpenRefused(p)
    BY <1>0, <1>1, <2>3 DEF OpenRefused, Goto
  <2> QED
    BY <1>8, <2>1, <2>2, <2>3 DEF Continue
<1>9. CASE ArchiveRoot(p)
  <2>1. CASE BeginArchive(p)
    <3>1. PICK r \in Root : Begin(p, "lockArchive", r, {r})
      BY <2>1 DEF BeginArchive
    <3> QED
      BY <1>2, <3>1, RootAssumption
  <2>2. CASE Validate(p) \/ ReadArchive(p) \/ CopyEnds(p) \/ FilesRemoved(p)
    BY <1>0, <1>6, <2>2
       DEF Validate, ReadArchive, CopyEnds, FilesRemoved, At, Goto, own, InArchive, Locking
  <2>3. CASE CopyRun(p) \/ RemoveData(p) \/ RemoveStatus(p) \/ PruneDir(p)
    <3>1. UNCHANGED <<holder, root, want, inventory, pc>>
      BY <2>3 DEF CopyRun, RemoveData, RemoveStatus, PruneDir, own
    <3>2. pc[p] \in {"copy", "remove", "prune", "pruneAgain"}
      BY <2>3 DEF CopyRun, RemoveData, RemoveStatus, PruneDir, At
    <3> QED
      BY <1>0, <1>1, <1>6, <3>1, <3>2 DEF InArchive, Locking
  <2>4. CASE ArchiveRefused(p) \/ CleanupFails(p)
    BY <1>0, <1>1, <2>4 DEF ArchiveRefused, CleanupFails, Goto
  <2>5. CASE RenameArchive(p)
    BY <1>0, <1>1, <1>6, <2>5 DEF RenameArchive, At, Goto, own, InArchive, Locking
  <2>6. CASE ReleaseAndPrune(p) \/ ArchiveEnds(p)
    BY <1>0, <1>1, <2>6 DEF ReleaseAndPrune, ArchiveEnds, Exit, At, Goto, own, Locking
  <2> QED
    BY <1>5, <1>9, <2>1, <2>2, <2>3, <2>4, <2>5, <2>6 DEF ArchiveRoot
<1>10. CASE LockRefused(p) \/ Finish(p) \/ Die(p)
  BY <1>0, <1>1, <1>10 DEF LockRefused, Finish, Exit, Die, Goto
<1> QED
  BY <1>3, <1>4, <1>7, <1>8, <1>9, <1>10 DEF ProcessStep, Lock

\* At the start nothing is claimed.
LEMMA InitLInv == Init => LInv
<1> SUFFICES ASSUME Init PROVE LocksHeld
  BY InitTInv DEF LInv
<1> QED
  BY DEF Init, LocksHeld, Claim, InRun, InSearch, InArchive

\* Every step leaves each process the locks it has taken.
LEMMA NextLInv == LInv /\ [Next]_vars => LInv'
<1> SUFFICES ASSUME LInv, [Next]_vars PROVE LocksHeld'
  BY NextTInv DEF LInv
<1>1. CASE UNCHANGED vars
  BY <1>1 DEF LInv, LocksHeld, Claim, vars, own
<1>2. ASSUME NEW s \in Slot, MakeSub(s) \/ WriteData(s) PROVE LocksHeld'
  BY <1>2 DEF LInv, LocksHeld, Claim, MakeSub, WriteData, own
<1>3. ASSUME NEW p \in Process, ProcessStep(p) PROVE LocksHeld'
  <2> SUFFICES ASSUME NEW q \in Process
               PROVE  /\ \A r \in (Claim(q) \ want[q])' : holder'[r] = q
                      /\ pc'[q] \notin Locking \cup {"unlock", "dead"} => want'[q] = {}
    BY DEF LocksHeld
  <2>1. CASE q = p
    BY <1>3, <2>1, OwnLocks
  <2>2. CASE q # p
    <3>1. /\ pc'[q] = pc[q] /\ root'[q] = root[q] /\ want'[q] = want[q]
          /\ inventory'[q] = inventory[q]
      BY <1>3, <2>2, OthersStay DEF LInv, TInv
    <3>2. Claim(q)' = Claim(q) /\ (Claim(q) # {} => pc[q] # "dead")
      BY <3>1 DEF Claim, InRun, InSearch, InArchive
    <3>3. ASSUME NEW r \in Claim(q) \ want[q] PROVE holder'[r] = q
      <4>1. r \in Root /\ holder[r] = q /\ Alive(q)
        BY <3>2, <3>3, ClaimType DEF LInv, LocksHeld, Alive
      <4> QED
        BY <1>3, <2>2, <4>1, LockKept DEF LInv, TInv
    <3> QED
      BY <3>1, <3>2, <3>3 DEF LInv, LocksHeld
  <2> QED
    BY <2>1, <2>2
<1> QED
  BY <1>1, <1>2, <1>3 DEF Next, ProcessStep

\* The process has its locks and works under them.
Working(p) == pc[p] \in (InRun \cup InSearch \cup InArchive) \ Locking

\* Two processes do not work under the same lock.
LEMMA Exclusive ==
  ASSUME LInv, NEW p \in Process, NEW q \in Process, Working(p), Working(q),
         NEW r \in Claim(p), r \in Claim(q)
  PROVE  p = q
<1>1. \A o \in Process : Working(o) => want[o] = {}
  BY DEF LInv, LocksHeld, Working, InRun, InSearch, InArchive
<1> QED
  BY <1>1 DEF LInv, LocksHeld

-----------------------------------------------------------------------------
(***************************************************************************)
(* Run directories.                                                        *)
(***************************************************************************)
\* Which steps of a process change what.
LEMMA StepFrame ==
  ASSUME NEW p \in Process, ProcessStep(p)
  PROVE  /\ \/ Create(p) \/ MarkRootRunning(p) \/ MarkRootFinal(p) \/ RemoveStatus(p)
            \/ status' = status
         /\ Create(p) \/ RemoveData(p) \/ version' = version
         /\ Create(p) \/ PruneDir(p) \/ UNCHANGED <<occupant, dirs>>
         /\ MarkRootRunning(p) \/ ShellsEnd(p) \/ shells' = shells
         /\ Create(p) \/ latest' = latest
         /\ RenameArchive(p) \/ archive' = archive
<1>1. CASE Run(p) \/ Continue(p)
  BY <1>1 DEF Run, BeginRun, Begin, CreateEnds, MarkRootRunning, ShellsEnd, MarkRootFinal,
              HardExit, Continue, BeginContinue, Open, OpenRefused, Create, tree
<1>2. CASE Lock(p) \/ Die(p)
  BY <1>2 DEF Lock, TakeLock, LocksTaken, LockRefused, Finish, Die, tree
<1>3. CASE ArchiveRoot(p)
  BY <1>3 DEF ArchiveRoot, BeginArchive, Begin, Discover, Validate, ArchiveRefused,
              ReadArchive, CopyRun, CopyEnds, RenameArchive, RemoveData, RemoveStatus,
              FilesRemoved, CleanupFails, PruneDir, ReleaseAndPrune, ArchiveEnds, tree
<1> QED
  BY <1>1, <1>2, <1>3 DEF ProcessStep

\* A directory that has a status or data exists.
Present == \A s \in Slot : status[s] # "none" \/ version[s] > 0 => Exists(s)

\* Shells run only in a directory whose status says so.
Busy == \A s \in shells : status[s] = "RUNNING"

\* What the status of the directory of a run is while it is executed.
Executed ==
  \A p \in Process :
    /\ pc[p] = "start" => status[dir[p]] \notin {"none", "RUNNING"}
    /\ pc[p] \in {"running", "final"} => status[dir[p]] = "RUNNING"
    /\ pc[p] = "final" => dir[p] \notin shells

\* The runs an archive command has validated stay what they were.
Validated ==
  \A p \in Process :
    /\ pc[p] \in {"read", "copy", "rename"} =>
         \A s \in inventory[p] : status[s] \notin {"none", "RUNNING"}
    /\ pc[p] \in {"remove", "prune"} => \A s \in inventory[p] : status[s] # "RUNNING"

SInv == LInv /\ Present /\ Busy /\ Executed /\ Validated

\* The directory in which a process creates, executes, or removes.
LEMMA Directories ==
  ASSUME LInv, NEW p \in Process
  PROVE  /\ pc[p] \in Executing =>
              dir[p] \in Slot /\ dir[p][1] \in Claim(p) /\ Working(p)
         /\ pc[p] = "create" => root[p] \in Root /\ root[p] \in Claim(p) /\ Working(p)
         /\ pc[p] \in {"validate", "read", "copy", "rename", "remove", "prune"} =>
              /\ Working(p)
              /\ \A s \in inventory[p] : s \in Slot /\ s[1] \in Claim(p)
<1>1. pc[p] \in InRun => root[p] \in Root /\ Claim(p) = LocksOf[root[p]] /\ root[p] \in Claim(p)
  BY RootAssumption DEF LInv, TInv, Placed, Claim, InRun
<1>2. inventory[p] \subseteq Slot
  BY DEF LInv, TInv, TypeOK
<1> QED
  BY <1>1, <1>2 DEF LInv, TInv, Placed, Claim, Executing, Working, InRun, InSearch, InArchive,
                    Locking

\* What a step of one process does to a directory that another works on.
LEMMA OthersSlots ==
  ASSUME LInv, NEW p \in Process, ProcessStep(p), NEW q \in Process, q # p,
         Working(q), NEW s \in Slot, s[1] \in Claim(q)
  PROVE  /\ status'[s] = status[s] /\ version'[s] = version[s]
         /\ MarkRootRunning(p) => s # dir[p]
<1> USE DEF LInv, TInv, TypeOK
<1>0. ~(Working(p) /\ s[1] \in Claim(p))
  BY Exclusive
<1>1. CASE Create(p)
  <2>1. pc[p] = "create" /\ s # <<root[p], NextId(root[p])>>
    BY <1>0, <1>1, Directories DEF Create, At
  <2> QED
    BY <1>1, <2>1 DEF Create, MarkRootRunning, At
<1>2. CASE MarkRootRunning(p) \/ MarkRootFinal(p)
  <2>1. pc[p] \in Executing
    BY <1>2 DEF MarkRootRunning, MarkRootFinal, At, Executing
  <2>2. s # dir[p]
    BY <1>0, <2>1, Directories
  <2> QED
    BY <1>2, <2>2 DEF MarkRootRunning, MarkRootFinal
<1>3. CASE RemoveStatus(p) \/ RemoveData(p)
  <2>1. pc[p] = "remove"
    BY <1>3 DEF RemoveStatus, RemoveData, At
  <2>2. s \notin inventory[p]
    BY <1>0, <2>1, Directories
  <2> QED
    BY <1>3, <2>1, <2>2 DEF RemoveStatus, RemoveData, MarkRootRunning, At
<1> QED
  BY <1>1, <1>2, <1>3, StepFrame

\* Nothing exists and nobody works at the start.
LEMMA InitSInv == Init => SInv
<1> SUFFICES ASSUME Init PROVE Present /\ Busy /\ Executed /\ Validated
  BY InitLInv DEF SInv
<1> QED
  BY DEF Init, Present, Busy, Executed, Validated

\* The status of a run directory comes and goes with the directory.
LEMMA PresentStep ==
  ASSUME SInv, NEW p \in Process, ProcessStep(p) PROVE Present'
<1> USE DEF SInv, LInv, TInv, TypeOK
<1>1. CASE Create(p)
  BY <1>1 DEF Create, Present, Exists
<1>2. CASE MarkRootRunning(p) \/ MarkRootFinal(p)
  <2>1. status[dir[p]] # "none"
    BY <1>2 DEF MarkRootRunning, MarkRootFinal, At, Executed
  <2>2. UNCHANGED <<version, dirs>>
    BY <1>2 DEF MarkRootRunning, MarkRootFinal
  <2>3. \A s \in Slot : s # dir[p] => status'[s] = status[s]
    BY <1>2 DEF MarkRootRunning, MarkRootFinal
  <2> QED
    BY <2>1, <2>2, <2>3 DEF Present, Exists
<1>3. CASE RemoveStatus(p) \/ RemoveData(p)
  <2>1. UNCHANGED dirs
    BY <1>3 DEF RemoveStatus, RemoveData
  <2>2. \A s \in Slot : (status'[s] # "none" => status[s] # "none")
                        /\ (version'[s] > 0 => version[s] > 0)
    BY <1>3 DEF RemoveStatus, RemoveData
  <2> QED
    BY <2>1, <2>2 DEF Present, Exists
<1>4. CASE PruneDir(p)
  <2>1. PICK c \in snapshot[p] : \E d \in c.dirs \cap dirs[c.slot] :
          Empty(c.slot, d) /\ dirs' = [dirs EXCEPT ![c.slot] = @ \ {d}]
    BY <1>4 DEF PruneDir
  <2>2. PICK d \in c.dirs \cap dirs[c.slot] :
          Empty(c.slot, d) /\ dirs' = [dirs EXCEPT ![c.slot] = @ \ {d}]
    BY <2>1
  <2>3. c.slot \in Slot /\ d \in {"run", "sub"} /\ UNCHANGED <<status, version>>
    BY <1>4, <2>2 DEF PruneDir
  <2>4. Exists(c.slot)' \/ ~Exists(c.slot) \/ (version[c.slot] = 0 /\ status[c.slot] = "none")
    BY <2>2, <2>3 DEF Empty, Exists
  <2>5. \A s \in Slot : s # c.slot => dirs'[s] = dirs[s]
    BY <2>2
  <2>6. ASSUME NEW s \in Slot, status[s] # "none" \/ version[s] > 0 PROVE Exists(s)'
    <3>1. Exists(s)
      BY <2>6 DEF Present
    <3>2. CASE s = c.slot
      BY <2>4, <2>6, <3>1, <3>2
    <3>3. CASE s # c.slot
      BY <2>5, <3>1, <3>3 DEF Exists
    <3> QED
      BY <3>2, <3>3
  <2> QED
    BY <2>3, <2>6 DEF Present
<1>5. CASE UNCHANGED <<status, version, dirs>>
  BY <1>5 DEF Present, Exists
<1> QED
  BY <1>1, <1>2, <1>3, <1>4, <1>5, StepFrame

\* A directory gets shells and its status RUNNING in one step, and keeps it
\* while there are any.
LEMMA BusyStep ==
  ASSUME SInv, NEW p \in Process, ProcessStep(p) PROVE Busy'
<1> USE DEF SInv, LInv, TInv, TypeOK
<1> SUFFICES ASSUME NEW s \in shells' PROVE status'[s] = "RUNNING"
  BY DEF Busy
<1>1. CASE MarkRootRunning(p)
  <2>1. dir[p] \in Slot
    BY <1>1, Directories DEF MarkRootRunning, At, Executing
  <2> QED
    BY <1>1, <2>1 DEF MarkRootRunning, Busy
<1>2. CASE ~MarkRootRunning(p)
  <2>1. s \in shells /\ s \in Slot /\ status[s] = "RUNNING"
    BY <1>2, StepFrame DEF ShellsEnd, Busy
  <2>2. CASE Create(p)
    <3>1. root[p] \in Root /\ NextId(root[p]) <= MaxId
      BY <2>2, Directories DEF Create, At
    <3>2. ~Exists(<<root[p], NextId(root[p])>>)
      BY <3>1, NextIdFree
    <3>3. s # <<root[p], NextId(root[p])>>
      BY <2>1, <3>2 DEF Present
    <3> QED
      BY <2>1, <2>2, <3>3 DEF Create
  <2>3. CASE MarkRootFinal(p)
    <3>1. s # dir[p]
      BY <2>1, <2>3 DEF MarkRootFinal, At, Executed
    <3> QED
      BY <2>1, <2>3, <3>1 DEF MarkRootFinal
  <2>4. CASE RemoveStatus(p)
    <3>1. s \notin inventory[p]
      BY <2>1, <2>4 DEF RemoveStatus, At, Validated
    <3> QED
      BY <2>1, <2>4, <3>1 DEF RemoveStatus
  <2> QED
    BY <1>2, <2>1, <2>2, <2>3, <2>4, StepFrame
<1> QED
  BY <1>1, <1>2

\* The places of a process before it has copied anything to an archive.
Early == InRun \cup InSearch \cup {"idle", "lockComponents", "validate", "read"}

\* Places where the processes that execute and archive come from.
LEMMA Arrivals ==
  ASSUME TypeOK, NEW p \in Process, ProcessStep(p)
  PROVE  /\ pc'[p] = "start" => Create(p) \/ Open(p) \/ (pc[p] = "start" /\ dir'[p] = dir[p])
         /\ pc'[p] = "running" => MarkRootRunning(p) \/ (pc[p] = "running" /\ dir'[p] = dir[p])
         /\ pc'[p] = "final" => ShellsEnd(p) \/ (pc[p] = "final" /\ dir'[p] = dir[p])
         /\ pc'[p] \in {"read", "copy", "rename", "remove", "prune"} => inventory'[p] = inventory[p]
         /\ pc'[p] = "read" => Validate(p) \/ pc[p] = "read"
         /\ pc'[p] = "copy" => pc[p] \in {"read", "copy"}
         /\ pc'[p] = "rename" => pc[p] \in {"copy", "rename"}
         /\ pc'[p] = "remove" => pc[p] \in {"rename", "remove"}
         /\ pc'[p] = "prune" => pc[p] \in {"remove", "prune"}
         /\ pc'[p] \in {"copy", "rename"} =>
              ReadArchive(p) \/ CopyRun(p) \/ CopyEnds(p)
         /\ pc'[p] = "remove" => RenameArchive(p) \/ RemoveData(p) \/ RemoveStatus(p)
         /\ pc'[p] \in Early =>
              snapshot'[p] = {} \/ (pc[p] \in Early /\ snapshot'[p] = snapshot[p])
<1> USE DEF TypeOK, At, Goto, Early, InRun, InSearch
<1>1. CASE Run(p)
  <2>1. CASE BeginRun(p) \/ Create(p)
    BY <2>1 DEF BeginRun, Begin, Create, own
  <2>2. CASE CreateEnds(p) \/ MarkRootRunning(p)
    BY <2>2 DEF CreateEnds, MarkRootRunning, own
  <2>3. CASE ShellsEnd(p) \/ MarkRootFinal(p) \/ HardExit(p)
    BY <2>3 DEF ShellsEnd, MarkRootFinal, HardExit, own
  <2> QED
    BY <1>1, <2>1, <2>2, <2>3 DEF Run
<1>2. CASE Continue(p)
  BY <1>2 DEF Continue, BeginContinue, Begin, Open, OpenRefused, own
<1>3. CASE Lock(p) \/ Die(p)
  BY <1>3 DEF Lock, TakeLock, LocksTaken, LockRefused, Finish, Exit, Die, own, Locking, AfterLocks
<1>4. CASE ArchiveRoot(p)
  <2>1. CASE BeginArchive(p) \/ Discover(p) \/ Validate(p) \/ ArchiveRefused(p)
    BY <2>1 DEF BeginArchive, Begin, Discover, Validate, ArchiveRefused, own
  <2>2. CASE ReadArchive(p) \/ CopyRun(p) \/ CopyEnds(p) \/ RenameArchive(p)
    BY <2>2 DEF ReadArchive, CopyRun, CopyEnds, RenameArchive, own
  <2>3. CASE RemoveData(p) \/ RemoveStatus(p) \/ FilesRemoved(p) \/ CleanupFails(p)
    BY <2>3 DEF RemoveData, RemoveStatus, FilesRemoved, CleanupFails, own
  <2>4. CASE PruneDir(p) \/ ReleaseAndPrune(p) \/ ArchiveEnds(p)
    BY <2>4 DEF PruneDir, ReleaseAndPrune, ArchiveEnds, Exit, own
  <2> QED
    BY <1>4, <2>1, <2>2, <2>3, <2>4 DEF ArchiveRoot
<1> QED
  BY <1>1, <1>2, <1>3, <1>4 DEF ProcessStep

\* The status of a run is what its process has made it, until the end.
LEMMA ExecutedStep ==
  ASSUME SInv, LInv', NEW p \in Process, ProcessStep(p) PROVE Executed'
<1> USE DEF SInv, LInv, TInv, TypeOK
<1> SUFFICES ASSUME NEW q \in Process
             PROVE  /\ pc'[q] = "start" => status'[dir'[q]] \notin {"none", "RUNNING"}
                    /\ pc'[q] \in {"running", "final"} => status'[dir'[q]] = "RUNNING"
                    /\ pc'[q] = "final" => dir'[q] \notin shells'
  BY DEF Executed
<1>1. CASE q # p
  <2>1. pc'[q] = pc[q] /\ dir'[q] = dir[q]
    BY <1>1, OthersStay
  <2>2. pc[q] \in Executing =>
          /\ dir[q] \in Slot /\ status'[dir[q]] = status[dir[q]]
          /\ MarkRootRunning(p) => dir[q] # dir[p]
    BY <1>1, Directories, OthersSlots
  <2>3. pc[q] \in Executing /\ dir[q] \notin shells => dir[q] \notin shells'
    BY <2>2, StepFrame DEF MarkRootRunning, ShellsEnd
  <2> QED
    BY <2>1, <2>2, <2>3 DEF Executed, Executing
<1>2. CASE q = p
  <2>1. CASE Create(p)
    <3>1. root[p] \in Root /\ NextId(root[p]) \in 0..MaxId
      BY <2>1, Directories, NextIdFree DEF Create, At
    <3>2. <<root[p], NextId(root[p])>> \in Slot
      BY <3>1 DEF Slot
    <3> QED
      BY <1>2, <2>1, <3>2 DEF Create, Goto
  <2>2. CASE Open(p)
    <3>1. status'[dir'[p]] \notin {"none", "RUNNING"}
      BY <2>2 DEF Open, tree
    <3>2. pc'[p] = "start"
      BY <2>2 DEF Open, Goto
    <3> QED
      BY <1>2, <3>1, <3>2
  <2>3. CASE MarkRootRunning(p)
    <3>1. dir[p] \in Slot
      BY <2>3, Directories DEF MarkRootRunning, At, Executing
    <3> QED
      BY <1>2, <2>3, <3>1 DEF MarkRootRunning, Goto, own
  <2>4. CASE ShellsEnd(p)
    BY <1>2, <2>4 DEF ShellsEnd, At, Goto, own, tree, Executed
  <2>5. CASE /\ ~Create(p) /\ ~Open(p) /\ ~MarkRootRunning(p) /\ ~ShellsEnd(p)
             /\ pc'[p] \in Executing
    <3>1. pc[p] = pc'[p] /\ dir'[p] = dir[p]
      BY <2>5, Arrivals DEF Executing
    <3>2. ~MarkRootFinal(p) /\ ~RemoveStatus(p)
      BY <2>5, <3>1 DEF MarkRootFinal, RemoveStatus, At, Goto, Executing
    <3>3. status' = status /\ shells' = shells
      BY <2>5, <3>2, StepFrame
    <3> QED
      BY <1>2, <3>1, <3>3 DEF Executed
  <2> QED
    BY <1>2, <2>1, <2>2, <2>3, <2>4, <2>5 DEF Executing
<1> QED
  BY <1>1, <1>2

\* Nobody else changes what an archive command has validated.
LEMMA ValidatedStep ==
  ASSUME SInv, LInv', NEW p \in Process, ProcessStep(p) PROVE Validated'
<1> USE DEF SInv, LInv, TInv, TypeOK
<1> SUFFICES ASSUME NEW q \in Process, NEW s \in inventory'[q]
             PROVE  /\ pc'[q] \in {"read", "copy", "rename"} => status'[s] \notin {"none", "RUNNING"}
                    /\ pc'[q] \in {"remove", "prune"} => status'[s] # "RUNNING"
  BY DEF Validated
<1>1. CASE q # p
  <2>1. pc'[q] = pc[q] /\ inventory'[q] = inventory[q]
    BY <1>1, OthersStay
  <2>2. pc[q] \in {"read", "copy", "rename", "remove", "prune"} => status'[s] = status[s]
    BY <1>1, <2>1, Directories, OthersSlots
  <2> QED
    BY <2>1, <2>2 DEF Validated
<1>2. CASE q = p
  <2>1. pc'[p] \in {"read", "copy", "rename", "remove", "prune"} =>
          /\ s \in inventory[p] /\ s \in Slot
          /\ Validate(p) \/ pc[p] \in {"read", "copy", "rename", "remove", "prune"}
    BY <1>2, Arrivals
  <2>2. CASE Validate(p)
    BY <1>2, <2>2 DEF Validate, tree, own, Goto
  <2>3. CASE RemoveStatus(p)
    BY <1>2, <2>3 DEF RemoveStatus, own, At, Validated
  <2>4. CASE /\ ~Validate(p) /\ ~RemoveStatus(p)
             /\ pc'[p] \in {"read", "copy", "rename", "remove", "prune"}
    <3>1. ~Create(p) /\ ~MarkRootRunning(p) /\ ~MarkRootFinal(p)
      BY <2>1, <2>4 DEF Create, MarkRootRunning, MarkRootFinal, At
    <3>2. status' = status
      BY <2>4, <3>1, StepFrame
    <3> QED
      BY <1>2, <2>1, <2>4, <3>2, Arrivals DEF Validated
  <2> QED
    BY <1>2, <2>2, <2>3, <2>4
<1> QED
  BY <1>1, <1>2

\* The run directories are kept in order by every step.
LEMMA NextSInv == SInv /\ [Next]_vars => SInv'
<1> SUFFICES ASSUME SInv, [Next]_vars PROVE SInv'
  OBVIOUS
<1>1. LInv'
  BY NextLInv DEF SInv
<1>2. CASE UNCHANGED vars
  BY <1>1, <1>2 DEF SInv, Present, Exists, Busy, Executed, Validated, vars, tree, own
<1>3. ASSUME NEW s \in Slot, MakeSub(s) \/ WriteData(s) PROVE SInv'
  <2>1. UNCHANGED <<status, shells, pc, own>>
    BY <1>3 DEF MakeSub, WriteData
  <2>2. \A t \in Slot : (Exists(t) => Exists(t)') /\ (version'[t] > 0 => version[t] > 0)
    <3>0. version \in [Slot -> 0..MaxVersion] /\ dirs \in [Slot -> SUBSET {"run", "sub"}]
      BY DEF SInv, LInv, TInv, TypeOK
    <3>1. CASE MakeSub(s)
      BY <3>0, <3>1 DEF MakeSub, Exists
    <3>2. CASE WriteData(s)
      BY <3>0, <3>2 DEF WriteData, Exists
    <3> QED
      BY <1>3, <3>1, <3>2
  <2>3. Present'
    BY <2>1, <2>2 DEF SInv, Present
  <2> QED
    BY <1>1, <2>1, <2>3 DEF SInv, Busy, Executed, Validated, own
<1> QED
  BY <1>1, <1>2, <1>3, PresentStep, BusyStep, ExecutedStep, ValidatedStep
     DEF SInv, Next, ProcessStep

\* A run directory in which shells are running, those of a jbs that was killed
\* or interrupted included, is never executed a second time, whichever
\* processes continue or archive it.
THEOREM RunsOnce == Spec => ExecutedOnce
<1>1. SInv /\ [Next]_vars =>
        [\A p \in Process : At(p, "start") /\ At(p, "running")' => dir[p] \notin shells]_vars
  BY DEF SInv, Busy, Executed, At
<1> QED
  BY InitSInv, NextSInv, <1>1, PTL DEF Spec, ExecutedOnce

\* No step removes data from a run that is RUNNING: not an archive command
\* that found it before, and not one that works on the whole benchmark.
THEOREM RunningKept == Spec => RunningDataKept
<1>1. SInv /\ [Next]_vars =>
        [\A s \in Slot : status[s] = "RUNNING" => version'[s] >= version[s]]_vars
  <2> SUFFICES ASSUME SInv, Next, NEW s \in Slot, status[s] = "RUNNING"
               PROVE  version'[s] >= version[s]
    BY DEF SInv
  <2>0. version \in [Slot -> 0..MaxVersion] /\ version[s] \in Nat
    BY DEF SInv, LInv, TInv, TypeOK
  <2>1. ASSUME NEW t \in Slot, MakeSub(t) \/ WriteData(t) PROVE version'[s] >= version[s]
    BY <2>0, <2>1 DEF MakeSub, WriteData
  <2>2. ASSUME NEW p \in Process, ProcessStep(p) PROVE version'[s] >= version[s]
    <3>1. CASE Create(p)
      <4>1. root[p] \in Root /\ NextId(root[p]) <= MaxId
        BY <3>1, Directories DEF Create, At, SInv
      <4>2. s # <<root[p], NextId(root[p])>>
        BY <4>1, NextIdFree DEF SInv, LInv, TInv, Present
      <4> QED
        BY <2>0, <3>1, <4>2 DEF Create
    <3>2. CASE RemoveData(p)
      <4>1. s \notin inventory[p]
        BY <3>2 DEF RemoveData, At, SInv, Validated
      <4> QED
        BY <2>0, <3>2, <4>1 DEF RemoveData
    <3> QED
      BY <2>0, <2>2, <3>1, <3>2, StepFrame
  <2> QED
    BY <2>1, <2>2 DEF Next, ProcessStep
<1> QED
  BY InitSInv, NextSInv, <1>1, PTL DEF Spec, RunningDataKept

-----------------------------------------------------------------------------
(***************************************************************************)
(* Archives.  The code locks the directory that is archived and not the    *)
(* archive file, so what follows is about commands that write to a file of *)
(* their own for each root.                                                *)
(***************************************************************************)
FilesDiffer == \A r, s \in Root : FileOf[r] = FileOf[s] => r = s

\* What the process has read of the archive is all that is in it.
ReadCurrent ==
  \A p \in Process : pc[p] \in {"copy", "rename"} => archive[FileOf[root[p]]] \subseteq read[p]

\* Only the process that has locked a root writes its archive, and it keeps
\* what is there.
LEMMA ArchiveGrows ==
  ASSUME FilesDiffer, SInv, ReadCurrent, NEW p \in Process, ProcessStep(p)
  PROVE  /\ \A f \in File : archive[f] \subseteq archive'[f]
         /\ RenameArchive(p) => archive'[FileOf[root[p]]] = read[p] \cup {c.data : c \in snapshot[p]}
<1> USE DEF SInv, LInv, TInv, TypeOK
<1>1. CASE RenameArchive(p)
  <2>1. pc[p] = "rename" /\ root[p] \in Root /\ FileOf[root[p]] \in File
    BY <1>1, RootAssumption DEF RenameArchive, At, Placed
  <2>2. archive' = [archive EXCEPT ![FileOf[root[p]]] = read[p] \cup {c.data : c \in snapshot[p]}]
    BY <1>1 DEF RenameArchive
  <2>3. archive[FileOf[root[p]]] \subseteq read[p]
    BY <2>1 DEF ReadCurrent
  <2> QED
    BY <2>1, <2>2, <2>3
<1> QED
  BY <1>1, StepFrame

\* An archive command works under the lock of the root it archives.
LEMMA ArchiverClaims ==
  ASSUME LInv, NEW p \in Process, pc[p] \in {"read", "copy", "rename", "remove"}
  PROVE  Working(p) /\ root[p] \in Root /\ root[p] \in Claim(p)
  BY DEF LInv, TInv, Placed, Working, Claim, InRun, InSearch, InArchive, Locking

\* Between reading the archive and replacing it nobody else writes it.
LEMMA ReadStep ==
  ASSUME FilesDiffer, SInv, ReadCurrent, NEW p \in Process, ProcessStep(p) PROVE ReadCurrent'
<1> USE DEF SInv, LInv, TInv, TypeOK
<1> SUFFICES ASSUME NEW q \in Process, pc'[q] \in {"copy", "rename"}
             PROVE  archive'[FileOf[root'[q]]] \subseteq read'[q]
  BY DEF ReadCurrent
<1>1. CASE q # p
  <2>1. pc'[q] = pc[q] /\ root'[q] = root[q] /\ read'[q] = read[q]
    BY <1>1, OthersStay
  <2>2. Working(q) /\ root[q] \in Root /\ root[q] \in Claim(q)
    BY <2>1, ArchiverClaims
  <2>3. RenameArchive(p) => FileOf[root[p]] # FileOf[root[q]]
    <3> SUFFICES ASSUME RenameArchive(p), FileOf[root[p]] = FileOf[root[q]] PROVE FALSE
      OBVIOUS
    <3>1. Working(p) /\ root[p] \in Root /\ root[p] \in Claim(p)
      BY ArchiverClaims DEF RenameArchive, At
    <3>2. root[p] = root[q]
      BY <2>2, <3>1 DEF FilesDiffer
    <3> QED
      BY <1>1, <2>2, <3>1, <3>2, Exclusive
  <2>4. archive'[FileOf[root[q]]] = archive[FileOf[root[q]]]
    <3>1. FileOf[root[q]] \in File
      BY <2>2, RootAssumption
    <3> QED
      BY <2>3, <3>1, StepFrame DEF RenameArchive
  <2> QED
    BY <2>1, <2>4 DEF ReadCurrent
<1>2. CASE q = p
  <2>1. CASE ReadArchive(p)
    BY <1>2, <2>1 DEF ReadArchive
  <2>2. CASE ~ReadArchive(p)
    <3>1. pc[p] \in {"copy", "rename"} /\ UNCHANGED <<root, read, archive>>
      BY <1>2, <2>2, Arrivals DEF CopyRun, CopyEnds, At, own
    <3> QED
      BY <1>2, <3>1 DEF ReadCurrent
  <2> QED
    BY <2>1, <2>2
<1> QED
  BY <1>1, <1>2

\* The same for every step.
LEMMA NextReadCurrent ==
  ASSUME FilesDiffer
  PROVE  SInv /\ ReadCurrent /\ [Next]_vars =>
           /\ ReadCurrent'
           /\ [\A f \in File : archive[f] \subseteq archive'[f]]_vars
<1> SUFFICES ASSUME SInv, ReadCurrent, [Next]_vars
             PROVE  /\ ReadCurrent'
                    /\ [\A f \in File : archive[f] \subseteq archive'[f]]_vars
  OBVIOUS
<1>1. CASE UNCHANGED vars
  BY <1>1 DEF ReadCurrent, vars, own
<1>2. ASSUME NEW s \in Slot, MakeSub(s) \/ WriteData(s)
      PROVE  UNCHANGED <<archive, pc, own>>
  BY <1>2 DEF MakeSub, WriteData
<1>3. CASE \E s \in Slot : MakeSub(s) \/ WriteData(s)
  BY <1>2, <1>3 DEF ReadCurrent, own
<1> QED
  BY <1>1, <1>3, ReadStep, ArchiveGrows DEF Next, ProcessStep

\* Archiving again keeps the snapshots an archive holds, as long as different
\* directories are archived to different files; otherwise it does not, see the
\* run lifecycle_shared_archive.
THEOREM SnapshotsAreKept ==
  ASSUME FilesDiffer PROVE Spec => SnapshotsPreserved
<1>1. Init => ReadCurrent
  BY DEF Init, ReadCurrent
<1>2. SInv /\ ReadCurrent /\ [Next]_vars =>
        ReadCurrent' /\ [\A f \in File : archive[f] \subseteq archive'[f]]_vars
  BY NextReadCurrent
<1> QED
  BY InitSInv, NextSInv, <1>1, <1>2, PTL DEF Spec, SnapshotsPreserved

-----------------------------------------------------------------------------
(***************************************************************************)
(* Nothing is lost.                                                        *)
(***************************************************************************)
\* The copies of an archive command are what the run directories hold, and
\* what it is about to remove is in the archive.
Copies ==
  \A p \in Process :
    /\ pc[p] \in Early => snapshot[p] = {}
    /\ pc[p] \in {"copy", "rename"} =>
         \A c \in snapshot[p] : c.slot \in inventory[p]
                                /\ c.data = <<occupant[c.slot], version[c.slot]>>
    /\ pc[p] = "rename" => Copied(p) = inventory[p]
    /\ pc[p] = "remove" =>
         \A s \in inventory[p] :
           version[s] > 0 => <<occupant[s], version[s]>> \in archive[FileOf[root[p]]]

\* Runs are numbered as they are created.
Numbered == \E n \in 0..MaxRun : \A r \in 1..MaxRun : latest[r] > 0 <=> r <= n

\* A run is in one directory, and the data there is the last it wrote.
Current ==
  /\ \A s \in Slot : version[s] > 0 => version[s] = latest[occupant[s]]
  /\ \A s \in Slot : occupant[s] > 0 => latest[occupant[s]] > 0
  /\ \A s, t \in Slot : occupant[s] > 0 /\ occupant[s] = occupant[t] => s = t

AInv == SInv /\ ReadCurrent /\ Copies /\ Numbered /\ Current /\ NothingLost

\* A process only ever empties a directory that has data or a status by
\* removing the data first.
LEMMA SlotData ==
  ASSUME SInv, NEW p \in Process, ProcessStep(p), NEW s \in Slot,
         status[s] # "none" \/ version[s] > 0
  PROVE  /\ occupant'[s] = occupant[s]
         /\ \/ version'[s] = version[s]
            \/ RemoveData(p) /\ s \in inventory[p] /\ version'[s] = 0
<1> USE DEF SInv, LInv, TInv, TypeOK
<1>1. CASE Create(p)
  <2>1. root[p] \in Root /\ NextId(root[p]) <= MaxId
    BY <1>1, Directories DEF Create, At
  <2>2. s # <<root[p], NextId(root[p])>>
    BY <2>1, NextIdFree DEF Present
  <2> QED
    BY <1>1, <2>2 DEF Create
<1>2. CASE RemoveData(p)
  BY <1>2 DEF RemoveData
<1>3. CASE PruneDir(p)
  <2>1. PICK c \in snapshot[p] : \E d \in c.dirs \cap dirs[c.slot] :
          /\ Empty(c.slot, d)
          /\ occupant' = [occupant EXCEPT ![c.slot] = IF d = "run" THEN 0 ELSE @]
    BY <1>3 DEF PruneDir
  <2>2. c.slot \in Slot /\ c.dirs \subseteq {"run", "sub"}
    OBVIOUS
  <2>3. PICK d \in {"run", "sub"} :
          /\ Empty(c.slot, d)
          /\ occupant' = [occupant EXCEPT ![c.slot] = IF d = "run" THEN 0 ELSE @]
    BY <2>1, <2>2
  <2>4. version' = version /\ (d = "run" => c.slot # s)
    BY <1>3, <2>3 DEF PruneDir, Empty
  <2> QED
    BY <2>2, <2>3, <2>4
<1> QED
  BY <1>1, <1>2, <1>3, StepFrame

\* What one process has copied, or is about to remove, another leaves alone.
LEMMA CopiesStep ==
  ASSUME FilesDiffer, SInv, ReadCurrent, Copies, NEW p \in Process, ProcessStep(p)
  PROVE  Copies'
<1> USE DEF SInv, LInv, TInv, TypeOK
<1> SUFFICES ASSUME NEW q \in Process
             PROVE  /\ pc'[q] \in Early => snapshot'[q] = {}
                    /\ pc'[q] \in {"copy", "rename"} =>
                         \A c \in snapshot'[q] :
                           /\ c.slot \in inventory'[q]
                           /\ c.data = <<occupant'[c.slot], version'[c.slot]>>
                    /\ pc'[q] = "rename" => {c.slot : c \in snapshot'[q]} = inventory'[q]
                    /\ pc'[q] = "remove" =>
                         \A s \in inventory'[q] :
                           version'[s] > 0 =>
                             <<occupant'[s], version'[s]>> \in archive'[FileOf[root'[q]]]
  BY DEF Copies, Copied
<1>1. CASE q # p
  <2>1. /\ pc'[q] = pc[q] /\ root'[q] = root[q] /\ inventory'[q] = inventory[q]
        /\ snapshot'[q] = snapshot[q]
    BY <1>1, OthersStay
  <2>2. ASSUME pc[q] \in {"copy", "rename", "remove"}, NEW s \in inventory[q],
               status[s] # "none" \/ version[s] > 0
        PROVE  occupant'[s] = occupant[s] /\ version'[s] = version[s]
    BY <1>1, <2>2, Directories, OthersSlots, SlotData
  <2>3. ASSUME pc[q] \in {"copy", "rename"}, NEW c \in snapshot[q]
        PROVE  /\ c.slot \in inventory[q]
               /\ c.data = <<occupant'[c.slot], version'[c.slot]>>
    <3>1. c.slot \in inventory[q] /\ c.data = <<occupant[c.slot], version[c.slot]>>
      BY <2>3 DEF Copies
    <3>2. status[c.slot] # "none"
      BY <2>3, <3>1 DEF Validated
    <3> QED
      BY <2>2, <2>3, <3>1, <3>2
  <2>4. ASSUME pc[q] = "remove", NEW s \in inventory[q], version'[s] > 0
        PROVE  <<occupant'[s], version'[s]>> \in archive'[FileOf[root[q]]]
    <3>1. version'[s] = version[s]
      BY <1>1, <2>4, Directories, OthersSlots
    <3>2. occupant'[s] = occupant[s]
      BY <2>2, <2>4, <3>1
    <3>3. root[q] \in Root /\ FileOf[root[q]] \in File
      BY <2>4, ArchiverClaims, RootAssumption
    <3> QED
      BY <2>4, <3>1, <3>2, <3>3, ArchiveGrows DEF Copies
  <2> QED
    BY <2>1, <2>3, <2>4 DEF Copies, Copied
<1>2. CASE q = p
  <2>1. pc'[p] \in Early => snapshot'[p] = {}
    BY Arrivals DEF Copies
  <2>2. CASE ReadArchive(p)
    <3>1. pc'[p] = "copy" /\ snapshot'[p] = {}
      BY <2>2 DEF ReadArchive, At, Goto, Copies, Early
    <3> QED
      BY <1>2, <2>1, <3>1
  <2>3. CASE CopyRun(p)
    <3>1. PICK s \in inventory[p] :
            snapshot' = [snapshot EXCEPT ![p] = @ \cup
              {[slot |-> s, data |-> <<occupant[s], version[s]>>, dirs |-> dirs[s]]}]
      BY <2>3 DEF CopyRun
    <3>2. pc'[p] = "copy" /\ pc[p] = "copy" /\ UNCHANGED <<inventory, occupant, version>>
      BY <2>3 DEF CopyRun, At, tree
    <3>3. ASSUME NEW c \in snapshot'[p]
          PROVE  c.slot \in inventory[p] /\ c.data = <<occupant[c.slot], version[c.slot]>>
      BY <3>1, <3>2, <3>3 DEF Copies
    <3> QED
      BY <1>2, <2>1, <3>2, <3>3
  <2>4. CASE CopyEnds(p)
    <3>1. pc[p] = "copy" /\ pc'[p] = "rename" /\ Copied(p) = inventory[p]
          /\ UNCHANGED <<inventory, occupant, version, snapshot>>
      BY <2>4 DEF CopyEnds, At, Goto, tree, own
    <3> QED
      BY <1>2, <2>1, <3>1 DEF Copies, Copied
  <2>5. CASE RenameArchive(p)
    <3>1. pc[p] = "rename" /\ UNCHANGED <<inventory, occupant, version, snapshot, root>>
          /\ pc'[p] \in {"remove", "unlock"}
      BY <2>5 DEF RenameArchive, At, Goto, tree, own
    <3>2. ASSUME NEW s \in inventory[p]
          PROVE  <<occupant[s], version[s]>> \in archive'[FileOf[root[p]]]
      <4>1. PICK c \in snapshot[p] : c.slot = s
        BY <3>1 DEF Copies, Copied
      <4>2. c.data = <<occupant[s], version[s]>>
        BY <3>1, <4>1 DEF Copies
      <4>3. archive'[FileOf[root[p]]] = read[p] \cup {e.data : e \in snapshot[p]}
        BY <2>5, ArchiveGrows
      <4>4. c.data \in {e.data : e \in snapshot[p]}
        BY <4>1
      <4> QED
        BY <4>2, <4>3, <4>4
    <3> QED
      BY <1>2, <2>1, <3>1, <3>2
  <2>6. CASE RemoveData(p) \/ RemoveStatus(p)
    <3>1. pc[p] = "remove" /\ pc'[p] = "remove"
          /\ UNCHANGED <<inventory, occupant, snapshot, root, archive>>
      BY <2>6 DEF RemoveData, RemoveStatus, At, own
    <3>2. \A s \in inventory[p] : version'[s] > 0 => version'[s] = version[s]
      <4>1. \A s \in inventory[p] : version[s] > 0 => version'[s] = version[s] \/ version'[s] = 0
        BY SlotData
      <4>2. \A s \in inventory[p] : version'[s] > 0 => version[s] > 0
        BY <2>6 DEF RemoveData, RemoveStatus
      <4> QED
        BY <4>1, <4>2
    <3> QED
      BY <1>2, <2>1, <3>1, <3>2 DEF Copies
  <2>7. CASE pc'[p] \notin {"copy", "rename", "remove"}
    BY <1>2, <2>1, <2>7
  <2> QED
    BY <2>2, <2>3, <2>4, <2>5, <2>6, <2>7, Arrivals
<1> QED
  BY <1>1, <1>2

\* The number of runs created is the number of the last one.
LEMMA CreatedIs ==
  ASSUME NEW n \in 0..MaxRun, \A r \in 1..MaxRun : latest[r] > 0 <=> r <= n
  PROVE  Created = n
<1>1. {r \in 1..MaxRun : latest[r] > 0} = 1..n
  BY BoundAssumption
<1>2. Cardinality(1..n) = n
  BY BoundAssumption, FS_Interval
<1> QED
  BY <1>1, <1>2 DEF Created

\* A new run has a number and a directory of its own; what a process does
\* besides loses nothing that is not in an archive.
LEMMA DataStep ==
  ASSUME FilesDiffer, AInv, NEW p \in Process, ProcessStep(p)
  PROVE  Numbered' /\ Current' /\ NothingLost'
<1> USE DEF AInv, SInv, LInv, TInv, TypeOK
<1>1. CASE Create(p)
  <2>1. PICK n \in 0..MaxRun : \A r \in 1..MaxRun : latest[r] > 0 <=> r <= n
    BY DEF Numbered
  <2>2. Created = n /\ n + 1 \in 1..MaxRun /\ n + 1 \in 0..MaxRun
    BY <1>1, <2>1, CreatedIs, BoundAssumption DEF Create
  <2> DEFINE s == <<root[p], NextId(root[p])>>
  <2>3. s \in Slot /\ ~Exists(s)
    BY <1>1, NextIdFree, Directories DEF Create, At, Slot
  <2>4. /\ occupant' = [occupant EXCEPT ![s] = n + 1]
        /\ version' = [version EXCEPT ![s] = 1]
        /\ latest' = [latest EXCEPT ![n + 1] = 1]
        /\ archive' = archive
    BY <1>1, <2>2 DEF Create
  <2> HIDE DEF s
  <2>5. /\ occupant[s] = 0 /\ version[s] = 0 /\ latest[n + 1] = 0
        /\ \A t \in Slot : occupant[t] # n + 1
    <3>1. occupant[s] = 0 /\ version[s] = 0
      BY <2>3 DEF Present
    <3>2. ~(latest[n + 1] > 0) /\ latest[n + 1] \in Nat
      BY <2>1, <2>2, BoundAssumption
    <3> QED
      BY <2>2, <3>1, <3>2 DEF Current
  <2>6. Numbered'
    <3>1. \A r \in 1..MaxRun : latest'[r] > 0 <=> r <= n + 1
      BY <2>1, <2>2, <2>4
    <3> QED
      BY <2>2, <3>1 DEF Numbered
  <2>7. \A t \in Slot : t # s => occupant'[t] = occupant[t] /\ version'[t] = version[t]
    BY <2>4
  <2>8. /\ occupant'[s] = n + 1 /\ version'[s] = 1 /\ latest'[n + 1] = 1
        /\ \A r \in 1..MaxRun : r # n + 1 => latest'[r] = latest[r]
    BY <2>2, <2>3, <2>4
  <2>9. Current'
    <3>1. \A t \in Slot : version[t] > 0 => occupant[t] \in 1..MaxRun
      BY DEF Present
    <3>2. \A t \in Slot : occupant[t] > 0 => occupant[t] \in 1..MaxRun
      OBVIOUS
    <3>3. ASSUME NEW t \in Slot, version'[t] > 0 PROVE version'[t] = latest'[occupant'[t]]
      <4>1. CASE t = s
        BY <2>8, <4>1
      <4>2. CASE t # s
        <5>1. occupant[t] # n + 1 /\ occupant[t] \in 1..MaxRun /\ version[t] = latest[occupant[t]]
          BY <2>5, <2>7, <3>1, <3>3, <4>2 DEF Current
        <5> QED
          BY <2>7, <2>8, <4>2, <5>1
      <4> QED
        BY <4>1, <4>2
    <3>4. ASSUME NEW t \in Slot, occupant'[t] > 0 PROVE latest'[occupant'[t]] > 0
      <4>1. CASE t = s
        BY <2>8, <4>1
      <4>2. CASE t # s
        <5>1. occupant[t] # n + 1 /\ occupant[t] \in 1..MaxRun /\ latest[occupant[t]] > 0
          BY <2>5, <2>7, <3>2, <3>4, <4>2 DEF Current
        <5> QED
          BY <2>7, <2>8, <4>2, <5>1
      <4> QED
        BY <4>1, <4>2
    <3>5. ASSUME NEW t \in Slot, NEW u \in Slot, occupant'[t] > 0, occupant'[t] = occupant'[u]
          PROVE  t = u
      <4>1. CASE t = s
        BY <2>5, <2>7, <2>8, <3>5, <4>1
      <4>2. CASE u = s
        BY <2>5, <2>7, <2>8, <3>5, <4>2
      <4>3. CASE t # s /\ u # s
        BY <2>7, <3>5, <4>3 DEF Current
      <4> QED
        BY <4>1, <4>2, <4>3
    <3> QED
      BY <3>3, <3>4, <3>5 DEF Current
  <2>10. NothingLost'
    <3> SUFFICES ASSUME NEW r \in 1..MaxRun, latest'[r] > 0
                 PROVE  \/ \E t \in Slot : occupant'[t] = r /\ version'[t] = latest'[r]
                        \/ \E f \in File : <<r, latest'[r]>> \in archive'[f]
      BY DEF NothingLost
    <3>1. CASE r = n + 1
      BY <2>3, <2>8, <3>1
    <3>2. CASE r # n + 1
      <4>1. latest'[r] = latest[r]
        BY <2>8, <3>2
      <4>2. \A t \in Slot : occupant[t] = r => t # s
        BY <2>5
      <4>3. \A t \in Slot : t # s => occupant'[t] = occupant[t] /\ version'[t] = version[t]
        BY <2>7
      <4>4. \/ \E t \in Slot : occupant[t] = r /\ version[t] = latest[r]
            \/ \E f \in File : <<r, latest[r]>> \in archive[f]
        BY <4>1 DEF NothingLost
      <4>5. archive' = archive
        BY <2>4, <2>7
      <4> QED
        BY <4>1, <4>2, <4>3, <4>4, <4>5
    <3> QED
      BY <3>1, <3>2
  <2> QED
    BY <2>6, <2>9, <2>10
<1>2. CASE ~Create(p)
  <2>1. latest' = latest
    BY <1>2, StepFrame
  <2>2. \A s \in Slot : version'[s] > 0 => version'[s] = version[s] /\ occupant'[s] = occupant[s]
    <3> SUFFICES ASSUME NEW s \in Slot, version'[s] > 0
                 PROVE  version'[s] = version[s] /\ occupant'[s] = occupant[s]
      OBVIOUS
    <3>1. version[s] > 0
      BY <1>2, StepFrame DEF RemoveData
    <3> QED
      BY <3>1, SlotData
  <2>3. \A s \in Slot : occupant'[s] > 0 => occupant'[s] = occupant[s]
    <3>1. CASE PruneDir(p)
      <4>1. PICK c \in snapshot[p] : \E d \in c.dirs \cap dirs[c.slot] :
              occupant' = [occupant EXCEPT ![c.slot] = IF d = "run" THEN 0 ELSE @]
        BY <3>1 DEF PruneDir
      <4>2. PICK d \in {"run", "sub"} :
              occupant' = [occupant EXCEPT ![c.slot] = IF d = "run" THEN 0 ELSE @]
        BY <4>1
      <4> QED
        BY <4>2
    <3> QED
      BY <1>2, <3>1, StepFrame
  <2>4. Numbered' /\ Current'
    <3>1. Numbered'
      BY <2>1 DEF Numbered
    <3>2. \A s \in Slot : version'[s] > 0 => version'[s] = latest'[occupant'[s]]
      BY <2>1, <2>2 DEF Current
    <3>3. \A s \in Slot : occupant'[s] > 0 => latest'[occupant'[s]] > 0
      BY <2>1, <2>3 DEF Current
    <3>4. \A s, t \in Slot : occupant'[s] > 0 /\ occupant'[s] = occupant'[t] => s = t
      BY <2>3 DEF Current
    <3> QED
      BY <3>1, <3>2, <3>3, <3>4 DEF Current
  <2>5. NothingLost'
    <3> SUFFICES ASSUME NEW r \in 1..MaxRun, latest[r] > 0
                 PROVE  \/ \E t \in Slot : occupant'[t] = r /\ version'[t] = latest[r]
                        \/ \E f \in File : <<r, latest[r]>> \in archive'[f]
      BY <2>1 DEF NothingLost
    <3>1. CASE \E f \in File : <<r, latest[r]>> \in archive[f]
      BY <3>1, ArchiveGrows
    <3>2. ASSUME NEW t \in Slot, occupant[t] = r, version[t] = latest[r]
          PROVE  \/ occupant'[t] = r /\ version'[t] = latest[r]
                 \/ \E f \in File : <<r, latest[r]>> \in archive'[f]
      <4>1. version[t] > 0
        BY <3>2
      <4>2. occupant'[t] = r
        BY <3>2, <4>1, SlotData
      <4>3. CASE RemoveData(p) /\ t \in inventory[p]
        <5>1. pc[p] = "remove" /\ <<r, latest[r]>> \in archive[FileOf[root[p]]]
          BY <3>2, <4>1, <4>3 DEF RemoveData, At, Copies
        <5>2. FileOf[root[p]] \in File
          BY <5>1, ArchiverClaims, RootAssumption
        <5> QED
          BY <5>1, <5>2, ArchiveGrows
      <4>4. CASE version'[t] = version[t]
        BY <3>2, <4>2, <4>4
      <4> QED
        BY <4>1, <4>3, <4>4, SlotData
    <3> QED
      BY <3>1, <3>2 DEF NothingLost
  <2> QED
    BY <2>4, <2>5
<1> QED
  BY <1>1, <1>2

\* The shells of a run write into the directory of the run, which nobody is
\* archiving.
LEMMA ShellStep ==
  ASSUME AInv, NEW s \in Slot, MakeSub(s) \/ WriteData(s)
  PROVE  ReadCurrent' /\ Copies' /\ Numbered' /\ Current' /\ NothingLost'
<1> USE DEF AInv, SInv, LInv, TInv, TypeOK
<1>1. UNCHANGED <<pc, root, inventory, read, snapshot, archive, occupant>>
  BY DEF MakeSub, WriteData, own
<1>2. ReadCurrent'
  BY <1>1 DEF ReadCurrent
<1>3. status[s] = "RUNNING" /\ s \in shells
  BY DEF MakeSub, WriteData, Busy
<1>4. \A t \in Slot : t # s => version'[t] = version[t]
  BY DEF MakeSub, WriteData
<1>5. Copies'
  <2>1. ASSUME NEW p \in Process, pc[p] \in {"copy", "rename", "remove"}, NEW t \in inventory[p]
        PROVE  version'[t] = version[t]
    BY <1>3, <1>4, <2>1 DEF Validated
  <2>2. ASSUME NEW p \in Process, pc[p] \in {"copy", "rename"}, NEW c \in snapshot[p]
        PROVE  /\ c.slot \in inventory[p]
               /\ c.data = <<occupant[c.slot], version'[c.slot]>>
    BY <2>1, <2>2 DEF Copies
  <2> QED
    BY <1>1, <2>1, <2>2 DEF Copies, Copied
<1>6. CASE MakeSub(s)
  <2>1. UNCHANGED <<version, latest>>
    BY <1>6 DEF MakeSub
  <2>2. Numbered'
    BY <2>1 DEF Numbered
  <2>3. Current'
    BY <1>1, <2>1 DEF Current
  <2>4. NothingLost'
    BY <1>1, <2>1 DEF NothingLost
  <2> QED
    BY <1>2, <1>5, <2>2, <2>3, <2>4
<1>7. CASE WriteData(s)
  <2>1. /\ version' = [version EXCEPT ![s] = version[s] + 1]
        /\ latest' = [latest EXCEPT ![occupant[s]] = version[s] + 1]
        /\ version[s] > 0 /\ version[s] \in Nat
    BY <1>7 DEF WriteData
  <2>2. occupant[s] \in 1..MaxRun /\ latest[occupant[s]] > 0
    BY <2>1 DEF Present, Current
  <2>3. /\ latest'[occupant[s]] = version'[s] /\ version'[s] = version[s] + 1 /\ version'[s] > 0
        /\ \A r \in 1..MaxRun : r # occupant[s] => latest'[r] = latest[r]
    BY <2>1, <2>2
  <2>4. Numbered'
    BY <2>2, <2>3 DEF Numbered
  <2>5. \A t \in Slot : occupant[t] > 0 => occupant[t] \in 1..MaxRun
    OBVIOUS
  <2>6. \A t \in Slot : version[t] > 0 => occupant[t] > 0
    BY DEF Present
  <2>7. \A t \in Slot : occupant[t] = occupant[s] => t = s
    BY <2>2 DEF Current
  <2>8. Current'
    <3>1. ASSUME NEW t \in Slot, version'[t] > 0 PROVE version'[t] = latest'[occupant[t]]
      BY <1>4, <2>3, <2>5, <2>6, <2>7, <3>1 DEF Current
    <3>2. ASSUME NEW t \in Slot, occupant[t] > 0 PROVE latest'[occupant[t]] > 0
      BY <2>3, <2>5, <3>2 DEF Current
    <3> QED
      BY <1>1, <3>1, <3>2 DEF Current
  <2>9. NothingLost'
    <3> SUFFICES ASSUME NEW r \in 1..MaxRun, latest'[r] > 0
                 PROVE  \/ \E t \in Slot : occupant[t] = r /\ version'[t] = latest'[r]
                        \/ \E f \in File : <<r, latest'[r]>> \in archive[f]
      BY <1>1 DEF NothingLost
    <3>1. CASE r = occupant[s]
      BY <2>3, <3>1
    <3>2. CASE r # occupant[s]
      <4>1. latest'[r] = latest[r]
        BY <2>3, <3>2
      <4>2. \A t \in Slot : occupant[t] = r => version'[t] = version[t]
        BY <1>4, <3>2
      <4> QED
        BY <4>1, <4>2 DEF NothingLost
    <3> QED
      BY <3>1, <3>2
  <2> QED
    BY <1>2, <1>5, <2>4, <2>8, <2>9
<1> QED
  BY <1>2, <1>5, <1>6, <1>7

\* Whatever is run, continued, archived, interrupted or killed, and in any
\* order, the data that the shells of a run wrote last is in its directory or
\* in an archive, as long as different directories are archived to different
\* files.
THEOREM NothingIsLost ==
  ASSUME FilesDiffer PROVE Spec => []NothingLost
<1>1. Init => AInv
  <2> SUFFICES ASSUME Init PROVE AInv
    OBVIOUS
  <2>1. SInv /\ ReadCurrent
    BY InitSInv DEF Init, ReadCurrent
  <2>2. Copies
    BY DEF Init, Copies, Early
  <2>3. \A r \in 1..MaxRun : latest[r] = 0
    BY DEF Init
  <2>4. Numbered
    BY <2>3, BoundAssumption DEF Numbered
  <2>5. Current
    BY DEF Init, Current
  <2>6. NothingLost
    BY <2>3 DEF NothingLost
  <2> QED
    BY <2>1, <2>2, <2>4, <2>5, <2>6 DEF AInv
<1>2. AInv /\ [Next]_vars => AInv'
  <2> SUFFICES ASSUME AInv, [Next]_vars PROVE AInv'
    OBVIOUS
  <2>1. SInv'
    BY NextSInv DEF AInv
  <2>2. CASE UNCHANGED vars
    BY <2>1, <2>2 DEF AInv, ReadCurrent, Copies, Copied, Numbered, Current, NothingLost,
                      vars, tree, own
  <2>3. ASSUME NEW p \in Process, ProcessStep(p) PROVE AInv'
    BY <2>1, <2>3, ReadStep, CopiesStep, DataStep DEF AInv
  <2>4. ASSUME NEW s \in Slot, MakeSub(s) \/ WriteData(s) PROVE AInv'
    BY <2>1, <2>4, ShellStep DEF AInv
  <2> QED
    BY <2>2, <2>3, <2>4 DEF Next, ProcessStep
<1>3. AInv => NothingLost
  BY DEF AInv
<1> QED
  BY <1>1, <1>2, <1>3, PTL DEF Spec

-----------------------------------------------------------------------------
(***************************************************************************)
(* Every root is used as OwnedRoot says, which RootLock implements: what a *)
(* command does to the lock of a root are steps of that specification, and *)
(* it works under a root only as its owner.                                *)
(***************************************************************************)
Owner(r) == IF holder[r] # None /\ Alive(holder[r]) THEN holder[r] ELSE None

Inside(r) == {p \in Process : Working(p) /\ r \in Claim(p)}

Owned(r) == INSTANCE OwnedRoot WITH owner <- Owner(r), inside <- Inside(r)

\* What the steps of a process do to its locks and its place.
LEMMA LockSteps ==
  ASSUME LInv, NEW p \in Process, ProcessStep(p)
  PROVE  \/ TakeLock(p)
         \/ Unlock(p) /\ Alive(p) /\ ~Working(p)'
         \/ Die(p)
         \/ LocksTaken(p)
         \/ /\ UNCHANGED holder /\ Alive(p) /\ Alive(p)'
            /\ ~Working(p)' \/ (Working(p) /\ Working(p)' /\ Claim(p)' = Claim(p))
<1> DEFINE Stays == Working(p) /\ Working(p)' /\ Claim(p)' = Claim(p)
<1> USE DEF LInv, TInv, TypeOK, At, Goto, Alive, Working, InRun, InSearch, InArchive, Locking
<1>1. CASE Finish(p) \/ HardExit(p) \/ ReleaseAndPrune(p)
  BY <1>1 DEF Finish, Exit, HardExit, ReleaseAndPrune
<1>2. CASE \/ BeginRun(p) \/ BeginContinue(p) \/ BeginArchive(p) \/ LockRefused(p)
           \/ CreateEnds(p) \/ OpenRefused(p) \/ MarkRootFinal(p) \/ ArchiveRefused(p)
           \/ Discover(p) \/ CleanupFails(p) \/ ArchiveEnds(p)
  <2>1. UNCHANGED holder /\ pc[p] # "dead"
    BY <1>2 DEF BeginRun, BeginContinue, BeginArchive, Begin, LockRefused, CreateEnds,
                OpenRefused, MarkRootFinal, ArchiveRefused, Discover, CleanupFails, ArchiveEnds
  <2>2. pc'[p] \in {"lockRun", "lockContinue", "lockArchive", "unlock", "lockComponents", "idle"}
    BY <1>2 DEF BeginRun, BeginContinue, BeginArchive, Begin, LockRefused, CreateEnds,
                OpenRefused, MarkRootFinal, ArchiveRefused, Discover, CleanupFails, ArchiveEnds,
                Exit
  <2> QED
    BY <2>1, <2>2
<1>3. CASE Create(p) \/ Open(p) \/ MarkRootRunning(p) \/ ShellsEnd(p)
  <2>1. UNCHANGED <<holder, root, inventory>>
    BY <1>3 DEF Create, Open, MarkRootRunning, ShellsEnd, own
  <2>2. /\ pc[p] \in {"create", "open", "start", "running"}
        /\ pc'[p] \in {"start", "running", "final"}
    BY <1>3 DEF Create, Open, MarkRootRunning, ShellsEnd
  <2> QED
    BY <2>1, <2>2 DEF Claim
<1>4. CASE Validate(p) \/ ReadArchive(p) \/ CopyRun(p) \/ CopyEnds(p) \/ RemoveData(p)
           \/ RemoveStatus(p) \/ FilesRemoved(p) \/ RenameArchive(p) \/ PruneDir(p)
  <2>1. UNCHANGED <<holder, root, inventory>>
    BY <1>4 DEF Validate, ReadArchive, CopyRun, CopyEnds, RemoveData, RemoveStatus,
                FilesRemoved, RenameArchive, PruneDir, own
  <2>2. \/ pc[p] = "pruneAgain" /\ pc'[p] = "pruneAgain"
        \/ /\ pc[p] \in {"validate", "read", "copy", "rename", "remove", "prune"}
           /\ pc'[p] \in {"validate", "read", "copy", "rename", "remove", "prune", "unlock"}
    BY <1>4 DEF Validate, ReadArchive, CopyRun, CopyEnds, RemoveData, RemoveStatus,
                FilesRemoved, RenameArchive, PruneDir
  <2> QED
    BY <2>1, <2>2 DEF Claim
<1> QED
  BY <1>1, <1>2, <1>3, <1>4 DEF ProcessStep, Run, Continue, ArchiveRoot, Lock

\* The others stay where they are.
LEMMA OthersInside ==
  ASSUME LInv, NEW p \in Process, ProcessStep(p), NEW q \in Process, q # p, NEW r
  PROVE  /\ Alive(q)' = Alive(q)
         /\ (q \in Inside(r)') <=> (q \in Inside(r))
<1>1. pc'[q] = pc[q] /\ root'[q] = root[q] /\ inventory'[q] = inventory[q]
  BY OthersStay DEF LInv, TInv
<1>2. Claim(q)' = Claim(q) /\ Working(q)' = Working(q)
  BY <1>1 DEF Claim, Working
<1> QED
  BY <1>1, <1>2 DEF Alive, Inside

\* Who works in a root has its lock and is there.
LEMMA InsideOwns ==
  ASSUME LInv, NEW p \in Process, NEW r \in Root, p \in Inside(r)
  PROVE  holder[r] = p /\ Alive(p)
<1>1. Working(p) /\ r \in Claim(p)
  BY DEF Inside
<1>2. want[p] = {} /\ Alive(p)
  BY <1>1 DEF LInv, LocksHeld, Working, InRun, InSearch, InArchive, Alive
<1> QED
  BY <1>1, <1>2 DEF LInv, LocksHeld

\* A step of a process is one of OwnedRoot for every root, or none.
LEMMA OwnedStep ==
  ASSUME LInv, NEW p \in Process, ProcessStep(p), NEW r \in Root
  PROVE  Owned(r)!Next \/ (Owner(r)' = Owner(r) /\ Inside(r)' = Inside(r))
<1>1. \A q \in Process \ {p} : Alive(q)' = Alive(q) /\ ((q \in Inside(r)') <=> (q \in Inside(r)))
  BY OthersInside
<1>2. Inside(r) \subseteq Process /\ Inside(r)' \subseteq Process
  BY DEF Inside
<1>3. holder[r] \in Process \cup {None} /\ p # None
  BY NoneAssumption DEF LInv, TInv, TypeOK
<1>4. CASE TakeLock(p)
  <2>1. pc' = pc /\ root' = root /\ inventory' = inventory /\ Alive(p)
    BY <1>4 DEF TakeLock, Locking, Alive
  <2>2. Inside(r)' = Inside(r)
    BY <2>1 DEF Inside, Working, Claim
  <2>3. CASE holder'[r] = holder[r]
    BY <2>1, <2>2, <2>3 DEF Owner, Alive
  <2>4. CASE holder'[r] # holder[r]
    <3>1. holder'[r] = p /\ (holder[r] = None \/ ~Alive(holder[r]))
      BY <1>4, <2>4 DEF TakeLock, LInv, TInv, TypeOK
    <3>2. Owner(r) = None /\ Owner(r)' = p
      BY <1>3, <2>1, <3>1 DEF Owner, Alive
    <3> QED
      BY <2>2, <3>2 DEF Owned!Next, Owned!Take
  <2> QED
    BY <2>3, <2>4
<1>5. CASE (Unlock(p) /\ Alive(p) /\ ~Working(p)') \/ Die(p)
  <2>1. p \notin Inside(r)' /\ Alive(p)
    BY <1>5 DEF Inside, Die, Working, InRun, InSearch, InArchive, Goto, Alive, LInv, TInv, TypeOK
  <2>2. Inside(r)' = Inside(r) \ {p}
    BY <1>1, <1>2, <2>1
  <2>3. CASE holder[r] = p
    <3>1. Owner(r) = p
      BY <1>3, <2>1, <2>3 DEF Owner
    <3>2. Owner(r)' = None
      <4>1. CASE Unlock(p)
        BY <2>3, <4>1 DEF Unlock, Owner
      <4>2. CASE Die(p)
        BY <2>3, <4>2 DEF Die, Owner, Alive, Goto, LInv, TInv, TypeOK
      <4> QED
        BY <1>5, <4>1, <4>2
    <3> QED
      BY <2>2, <3>1, <3>2 DEF Owned!Next, Owned!Leave
  <2>4. CASE holder[r] # p
    <3>1. p \notin Inside(r)
      BY <2>4, InsideOwns
    <3>2. holder'[r] = holder[r]
      BY <1>5, <2>4 DEF Unlock, Die
    <3>3. Owner(r)' = Owner(r)
      BY <1>1, <1>3, <2>4, <3>2 DEF Owner
    <3> QED
      BY <2>2, <3>1, <3>3
  <2> QED
    BY <2>3, <2>4
<1>6. CASE LocksTaken(p)
  <2>1. /\ UNCHANGED <<holder, root, inventory>> /\ want[p] = {}
        /\ pc[p] \in Locking /\ pc'[p] = AfterLocks(pc[p])
    BY <1>6 DEF LocksTaken, Goto, own, LInv, TInv, TypeOK
  <2>2. Claim(p)' = Claim(p) /\ Working(p)' /\ ~Working(p) /\ Alive(p) /\ Alive(p)'
    BY <2>1 DEF Claim, Working, Alive, AfterLocks, Locking, InRun, InSearch, InArchive
  <2>3. Owner(r)' = Owner(r)
    BY <1>1, <1>3, <2>1, <2>2 DEF Owner
  <2>4. CASE r \in Claim(p)
    <3>1. Owner(r) = p
      BY <1>3, <2>1, <2>2, <2>4 DEF Owner, LInv, LocksHeld
    <3>2. Inside(r)' = Inside(r) \cup {p}
      <4>1. p \in Inside(r)'
        BY <2>2, <2>4 DEF Inside
      <4> QED
        BY <1>1, <1>2, <4>1
    <3> QED
      BY <2>3, <3>1, <3>2 DEF Owned!Next, Owned!Enter
  <2>5. CASE r \notin Claim(p)
    <3>1. p \notin Inside(r) /\ p \notin Inside(r)'
      BY <2>2, <2>5 DEF Inside
    <3> QED
      BY <1>1, <1>2, <2>3, <3>1
  <2> QED
    BY <2>4, <2>5
<1>7. CASE /\ UNCHANGED holder /\ Alive(p) /\ Alive(p)'
           /\ ~Working(p)' \/ (Working(p) /\ Working(p)' /\ Claim(p)' = Claim(p))
  <2>1. Owner(r)' = Owner(r)
    BY <1>1, <1>3, <1>7 DEF Owner
  <2>2. CASE p \in Inside(r) /\ p \notin Inside(r)'
    <3>1. Inside(r)' = Inside(r) \ {p}
      BY <1>1, <1>2, <2>2
    <3> QED
      BY <2>1, <2>2, <3>1 DEF Owned!Next, Owned!Retire
  <2>3. CASE ~(p \in Inside(r) /\ p \notin Inside(r)')
    <3>1. p \in Inside(r)' => p \in Inside(r)
      BY <1>7 DEF Inside
    <3> QED
      BY <1>1, <1>2, <2>1, <2>3, <3>1
  <2> QED
    BY <2>2, <2>3
<1> QED
  BY <1>4, <1>5, <1>6, <1>7, LockSteps

\* Whatever is run, continued, archived or killed, the commands use the lock
\* of every root as OwnedRoot has it: two of them never work in one root, and
\* none works in a root whose lock it has not taken (acquireRootLockRequests,
\* ArchiveRoot).
THEOREM UsesOwnedRoots ==
  ASSUME NEW r \in Root
  PROVE  Spec => Owned(r)!Spec
<1>1. Init => Owned(r)!Init
  BY DEF Init, Owned!Init, Owner, Inside, Working, InRun, InSearch, InArchive
<1>2. ASSUME LInv, [Next]_vars PROVE [Owned(r)!Next]_(Owned(r)!vars)
  <2>1. CASE \E p \in Process : ProcessStep(p)
    <3>1. Owned(r)!Next \/ (Owner(r)' = Owner(r) /\ Inside(r)' = Inside(r))
      BY <1>2, <2>1, OwnedStep
    <3> QED
      BY <3>1 DEF Owned!vars
  <2>2. CASE UNCHANGED <<holder, pc, root, inventory>>
    BY <2>2 DEF Owned!vars, Owner, Inside, Alive, Working, Claim
  <2>3. [Next]_vars => (\E p \in Process : ProcessStep(p)) \/ UNCHANGED <<holder, pc, root, inventory>>
    BY DEF Next, ProcessStep, MakeSub, WriteData, vars, own
  <2> QED
    BY <1>2, <2>1, <2>2, <2>3
<1>3. LInv /\ [Next]_vars => [Owned(r)!Next]_(Owned(r)!vars)
  BY <1>2
<1> QED
  BY <1>1, <1>3, InitLInv, NextLInv, PTL DEF Spec, Owned!Spec
=============================================================================
