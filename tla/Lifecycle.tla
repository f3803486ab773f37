------------------------------ MODULE Lifecycle ------------------------------
(***************************************************************************)
(* The commands that create, resume and archive the runs of benchmark      *)
(* roots: Run and Continue (command.go, store.go) and ArchiveRoot          *)
(* (archive.go), each in a process of its own that may die between any two *)
(* steps and leave its locks, its run and its shells behind.               *)
(*                                                                         *)
(* A lock is one of OwnedRoot, which RootLock implements: a root has one   *)
(* owner, and what a dead process owned can be taken over.  Executing the  *)
(* workpackages of a run is Scheduler; here a run has one status file and  *)
(* one data file, which stands for everything else the run consists of,    *)
(* and a directory `sub` that a script makes before it writes into it.     *)
(***************************************************************************)
EXTENDS Integers, FiniteSets

CONSTANTS
  Process,   \* jbs processes, each executing a command
  None,
  Root,      \* directories that are locked: benchmarks and their components
  RunIn,     \* the roots in which runs are created
  LocksOf,   \* [Root -> SUBSET Root], the locks of running in a root
  FileOf,    \* [Root -> File], the archive file of a root
  File,      \* archive files
  MaxCommand,\* bound: commands begun
  MaxRun,    \* bound: runs created
  MaxId,     \* bound: run ids
  MaxVersion \* bound: versions of the data of a run

ASSUME NoneAssumption == None \notin Process
ASSUME RootAssumption ==
  /\ RunIn \subseteq Root
  /\ LocksOf \in [Root -> SUBSET Root] /\ \A r \in Root : r \in LocksOf[r]
  /\ FileOf \in [Root -> File]
ASSUME BoundAssumption ==
  MaxCommand \in Nat /\ MaxRun \in Nat /\ MaxId \in Nat /\ MaxVersion \in Nat \ {0}

VARIABLES
  holder,    \* [Root -> Process or None], who the lock file names
  occupant,  \* [Slot -> the run in a run directory, 0 if it is gone]
  version,   \* [Slot -> the version of its data file, 0 if there is none]
  status,    \* [Slot -> its status file]
  dirs,      \* [Slot -> the directories of it that exist]
  shells,    \* the run directories in which shells are running
  archive,   \* [File -> the data in the archive]
  latest,    \* the last version that was written of each run
  begun,     \* commands begun
  pc, root, want, dir,      \* each process: place, root, locks to take, run
  inventory, read, snapshot \* each archiving process: runs found, archive
                            \* read, data and directories it has copied

tree == <<occupant, version, status, dirs>>
own == <<root, want, dir, inventory, read, snapshot>>
vars == <<holder, tree, shells, archive, latest, begun, pc, own>>

Slot == Root \X (0..MaxId)

Created == Cardinality({r \in 1..MaxRun : latest[r] > 0})

Exists(s) == "run" \in dirs[s]

(***************************************************************************)
(* Definitions named ...Bug are variants of the definition that follows    *)
(* them with a mistake one could make in the code; no specification uses   *)
(* them.                                                                   *)
(***************************************************************************)

Init ==
  /\ holder = [r \in Root |-> None]
  /\ occupant = [s \in Slot |-> 0]
  /\ version = [s \in Slot |-> 0]
  /\ status = [s \in Slot |-> "none"]
  /\ dirs = [s \in Slot |-> {}]
  /\ shells = {}
  /\ archive = [f \in File |-> {}]
  /\ latest = [r \in 1..MaxRun |-> 0]
  /\ begun = 0
  /\ pc = [p \in Process |-> "idle"]
  /\ root = [p \in Process |-> None]
  /\ want = [p \in Process |-> {}]
  /\ dir = [p \in Process |-> None]
  /\ inventory = [p \in Process |-> {}]
  /\ read = [p \in Process |-> {}]
  /\ snapshot = [p \in Process |-> {}]

At(p, place) == pc[p] = place

Goto(p, place) == pc' = [pc EXCEPT ![p] = place]

Alive(p) == pc[p] # "dead"

-----------------------------------------------------------------------------
(***************************************************************************)
(* Locks.  A command of a component takes the lock of its benchmark and    *)
(* that of the component; it is refused by a lock that is held, and may be *)
(* by one that a dead process has left.                                    *)
(***************************************************************************)
Begin(p, next, r, locks) ==
  /\ At(p, "idle") /\ begun < MaxCommand
  /\ begun' = begun + 1
  /\ root' = [root EXCEPT ![p] = r]
  /\ want' = [want EXCEPT ![p] = locks]
  /\ Goto(p, next)
  /\ UNCHANGED <<holder, tree, shells, archive, latest, dir, inventory, read,
                 snapshot>>

BeginRun(p) == \E r \in RunIn : Begin(p, "lockRun", r, LocksOf[r])

BeginContinue(p) == \E r \in RunIn : Begin(p, "lockContinue", r, LocksOf[r])

BeginArchive(p) == \E r \in Root : Begin(p, "lockArchive", r, {r})

Locking == {"lockRun", "lockContinue", "lockArchive", "lockComponents"}

AfterLocks(place) ==
  CASE place = "lockRun" -> "create"
    [] place = "lockContinue" -> "open"
    [] place = "lockArchive" -> "discover"
    [] place = "lockComponents" -> "validate"

TakeLock(p) ==
  /\ pc[p] \in Locking
  /\ \E r \in want[p] :
       /\ holder[r] \in {None} \cup {q \in Process : ~Alive(q)}
       /\ holder' = [holder EXCEPT ![r] = p]
       /\ want' = [want EXCEPT ![p] = @ \ {r}]
  /\ UNCHANGED <<tree, shells, archive, latest, begun, pc, root, dir, inventory,
                 read, snapshot>>

LocksTaken(p) ==
  /\ pc[p] \in Locking /\ want[p] = {}
  /\ Goto(p, AfterLocks(pc[p]))
  /\ UNCHANGED <<holder, tree, shells, archive, latest, begun, own>>

LockRefused(p) ==
  /\ pc[p] \in Locking /\ \E r \in want[p] : holder[r] # None
  /\ Goto(p, "unlock")
  /\ UNCHANGED <<holder, tree, shells, archive, latest, begun, own>>

Unlock(p) == holder' = [r \in Root |-> IF holder[r] = p THEN None ELSE holder[r]]

\* The process exits; what it kept in memory is gone, and the name stands
\* for another process from now on.
Exit(p) ==
  /\ Goto(p, "idle")
  /\ root' = [root EXCEPT ![p] = None] /\ dir' = [dir EXCEPT ![p] = None]
  /\ want' = [want EXCEPT ![p] = {}] /\ inventory' = [inventory EXCEPT ![p] = {}]
  /\ read' = [read EXCEPT ![p] = {}] /\ snapshot' = [snapshot EXCEPT ![p] = {}]

Finish(p) ==
  /\ At(p, "unlock")
  /\ Unlock(p) /\ Exit(p)
  /\ UNCHANGED <<tree, shells, archive, latest, begun>>

\* The process ends or is killed, and its locks stay.
Die(p) ==
  /\ pc[p] \notin {"idle", "dead"}
  /\ Goto(p, "dead")
  /\ UNCHANGED <<holder, tree, shells, archive, latest, begun, own>>

-----------------------------------------------------------------------------
(***************************************************************************)
(* jbs run: createRunDirectoryLocked builds the run directory aside and    *)
(* renames it into place, under the id after the last one.                 *)
(***************************************************************************)
NextId(r) ==
  LET ids == {i \in 0..MaxId : Exists(<<r, i>>)}
  IN  IF ids = {} THEN 0 ELSE 1 + CHOOSE i \in ids : \A j \in ids : j <= i

Create(p) ==
  /\ At(p, "create") /\ Created < MaxRun /\ NextId(root[p]) <= MaxId
  /\ LET s == <<root[p], NextId(root[p])>>
         run == Created + 1
     IN  /\ occupant' = [occupant EXCEPT ![s] = run]
         /\ version' = [version EXCEPT ![s] = 1]
         /\ status' = [status EXCEPT ![s] = "NOTSTARTED"]
         /\ dirs' = [dirs EXCEPT ![s] = {"run"}]
         /\ latest' = [latest EXCEPT ![run] = 1]
         /\ dir' = [dir EXCEPT ![p] = s]
  /\ Goto(p, "start")
  /\ UNCHANGED <<holder, shells, archive, begun, root, want, inventory, read,
                 snapshot>>

\* Something that the run directory needs cannot be written; or the run is
\* a dry run, and nothing follows the creation.
CreateEnds(p) ==
  /\ At(p, "create") \/ At(p, "start")
  /\ Goto(p, "unlock")
  /\ UNCHANGED <<holder, tree, shells, archive, latest, begun, own>>

(***************************************************************************)
(* jbs continue: the run directory with the highest id, which must have a  *)
(* status that is not RUNNING.                                             *)
(***************************************************************************)
LatestRun(r) == {i \in 0..MaxId : Exists(<<r, i>>) /\ NextId(r) = i + 1}

OpenRunningBug(p) ==
  /\ At(p, "open")
  /\ \E i \in LatestRun(root[p]) :
       /\ status[<<root[p], i>>] # "none"
       /\ dir' = [dir EXCEPT ![p] = <<root[p], i>>]
  /\ Goto(p, "start")
  /\ UNCHANGED <<holder, tree, shells, archive, latest, begun, root, want, inventory,
                 read, snapshot>>

Open(p) ==
  /\ At(p, "open")
  /\ \E i \in LatestRun(root[p]) :
       /\ status[<<root[p], i>>] \notin {"none", "RUNNING"}
       /\ dir' = [dir EXCEPT ![p] = <<root[p], i>>]
  /\ Goto(p, "start")
  /\ UNCHANGED <<holder, tree, shells, archive, latest, begun, root, want, inventory,
                 read, snapshot>>

\* There is no such run, its manifest or status cannot be read, or it is a
\* run of another source.
OpenRefused(p) ==
  /\ At(p, "open")
  /\ Goto(p, "unlock")
  /\ UNCHANGED <<holder, tree, shells, archive, latest, begun, own>>

(***************************************************************************)
(* runOneStore: the root status is RUNNING while the scheduler runs the    *)
(* shells.  It stays RUNNING if the final status cannot be written.        *)
(***************************************************************************)
MarkRootRunning(p) ==
  /\ At(p, "start")
  /\ status' = [status EXCEPT ![dir[p]] = "RUNNING"]
  /\ shells' = shells \cup {dir[p]}
  /\ Goto(p, "running")
  /\ UNCHANGED <<holder, occupant, version, dirs, archive, latest, begun, own>>

\* A shell needs nothing of jbs to go on.  It makes `sub` before it writes
\* the second version of the data into it.
MakeSub(s) ==
  /\ s \in shells /\ Exists(s)
  /\ dirs' = [dirs EXCEPT ![s] = @ \cup {"sub"}]
  /\ UNCHANGED <<holder, occupant, version, status, shells, archive, latest,
                 begun, pc, own>>

WriteData(s) ==
  /\ s \in shells /\ "sub" \in dirs[s] /\ 0 < version[s] /\ version[s] < MaxVersion
  /\ version' = [version EXCEPT ![s] = @ + 1]
  /\ latest' = [latest EXCEPT ![occupant[s]] = version[s] + 1]
  /\ UNCHANGED <<holder, occupant, status, dirs, shells, archive, begun, pc, own>>

\* The scheduler has received the results of all shells.
ShellsEnd(p) ==
  /\ At(p, "running")
  /\ shells' = shells \ {dir[p]}
  /\ Goto(p, "final")
  /\ UNCHANGED <<holder, tree, archive, latest, begun, own>>

MarkRootFinal(p) ==
  /\ At(p, "final")
  /\ \E final \in {"FINAL", "RUNNING"} : status' = [status EXCEPT ![dir[p]] = final]
  /\ Goto(p, "unlock")
  /\ UNCHANGED <<holder, occupant, version, dirs, shells, archive, latest,
                 begun, own>>

\* The second SIGINT: the locks are released and the process exits, its
\* shells, which have process groups of their own, do not.  The time between
\* the release and the exit is taken to be none.
HardExit(p) ==
  /\ pc[p] \in {"start", "running", "final"}
  /\ Unlock(p) /\ Goto(p, "dead")
  /\ UNCHANGED <<tree, shells, archive, latest, begun, own>>

-----------------------------------------------------------------------------
(***************************************************************************)
(* jbs archive.  The runs are found under the lock of the archived root,   *)
(* then the roots of the components in which some were found are locked.   *)
(***************************************************************************)
Scope(r) == {c \in RunIn : r \in LocksOf[c]}

Discover(p) ==
  /\ At(p, "discover")
  /\ LET found == {s \in Scope(root[p]) \X (0..MaxId) :
                     Exists(s) /\ (version[s] > 0 \/ status[s] # "none")}
     IN  /\ found # {}
         /\ inventory' = [inventory EXCEPT ![p] = found]
         /\ want' = [want EXCEPT ![p] = {s[1] : s \in found} \ {root[p]}]
  /\ Goto(p, "lockComponents")
  /\ UNCHANGED <<holder, tree, shells, archive, latest, begun, root, dir, read,
                 snapshot>>

ValidateFinishedOnlyBug(p) ==
  /\ At(p, "validate")
  /\ \E s \in inventory[p] : status[s] \notin {"none", "RUNNING"}
  /\ Goto(p, "read")
  /\ UNCHANGED <<holder, tree, shells, archive, latest, begun, own>>

ValidateNothingBug(p) ==
  /\ At(p, "validate")
  /\ Goto(p, "read")
  /\ UNCHANGED <<holder, tree, shells, archive, latest, begun, own>>

Validate(p) ==
  /\ At(p, "validate")
  /\ \A s \in inventory[p] : status[s] \notin {"none", "RUNNING"}
  /\ Goto(p, "read")
  /\ UNCHANGED <<holder, tree, shells, archive, latest, begun, own>>

\* No run, one that is RUNNING or has no status, or one that cannot be read
\* or written to the archive: nothing has changed.
ArchiveRefused(p) ==
  /\ pc[p] \in {"discover", "validate", "read", "copy", "rename"}
  /\ Goto(p, "unlock")
  /\ UNCHANGED <<holder, tree, shells, archive, latest, begun, own>>

\* copyExistingArchive: the archive is rewritten, from what it holds now.
ReadArchiveBug(p) ==
  /\ At(p, "read")
  /\ read' = [read EXCEPT ![p] = {}]
  /\ Goto(p, "copy")
  /\ UNCHANGED <<holder, tree, shells, archive, latest, begun, root, want, dir, inventory,
                 snapshot>>

ReadArchive(p) ==
  /\ At(p, "read")
  /\ read' = [read EXCEPT ![p] = archive[FileOf[root[p]]]]
  /\ Goto(p, "copy")
  /\ UNCHANGED <<holder, tree, shells, archive, latest, begun, root, want, dir, inventory,
                 snapshot>>

\* appendTree: one run after the other; the snapshot names what was copied.
Copied(p) == {c.slot : c \in snapshot[p]}

CopyRun(p) ==
  /\ At(p, "copy")
  /\ \E s \in inventory[p] \ Copied(p) :
       snapshot' = [snapshot EXCEPT ![p] = @ \cup
                      {[slot |-> s, data |-> <<occupant[s], version[s]>>, dirs |-> dirs[s]]}]
  /\ UNCHANGED <<holder, tree, shells, archive, latest, begun, pc, root, want, dir,
                 inventory, read>>

RemoveEarlyBug(p) ==
  /\ At(p, "copy") /\ Copied(p) = inventory[p]
  /\ Goto(p, "remove")
  /\ UNCHANGED <<holder, tree, shells, archive, latest, begun, own>>

CopyEnds(p) ==
  /\ At(p, "copy") /\ Copied(p) = inventory[p]
  /\ Goto(p, "rename")
  /\ UNCHANGED <<holder, tree, shells, archive, latest, begun, own>>

\* The new archive replaces the old one; if the directory cannot be synced
\* the command ends there.
RenameArchive(p) ==
  /\ At(p, "rename")
  /\ archive' = [archive EXCEPT ![FileOf[root[p]]] =
                   read[p] \cup {c.data : c \in snapshot[p]}]
  /\ Goto(p, "remove") \/ Goto(p, "unlock")
  /\ UNCHANGED <<holder, tree, shells, latest, begun, own>>

\* removeArchivedSnapshot: the deeper file first, then the status, which is
\* what makes a directory a run; then the directories that are empty.
RemoveData(p) ==
  /\ At(p, "remove")
  /\ \E s \in inventory[p] :
       version[s] > 0 /\ version' = [version EXCEPT ![s] = 0]
  /\ UNCHANGED <<holder, occupant, status, dirs, shells, archive, latest, begun,
                 pc, own>>

RemoveStatus(p) ==
  /\ At(p, "remove") /\ \A s \in inventory[p] : version[s] = 0
  /\ \E s \in inventory[p] :
       status[s] # "none" /\ status' = [status EXCEPT ![s] = "none"]
  /\ UNCHANGED <<holder, occupant, version, dirs, shells, archive, latest,
                 begun, pc, own>>

FilesRemoved(p) ==
  /\ At(p, "remove")
  /\ \A s \in inventory[p] : version[s] = 0 /\ status[s] = "none"
  /\ Goto(p, "prune")
  /\ UNCHANGED <<holder, tree, shells, archive, latest, begun, own>>

\* A directory of the snapshot is removed if it is empty: `sub` holds the
\* data once there is a second version of it.
Empty(s, d) ==
  IF d = "sub" THEN version[s] <= 1
  ELSE version[s] = 0 /\ status[s] = "none" /\ "sub" \notin dirs[s]

PruneDir(p) ==
  /\ pc[p] \in {"prune", "pruneAgain"}
  /\ \E c \in snapshot[p] : \E d \in c.dirs \cap dirs[c.slot] :
       /\ Empty(c.slot, d)
       /\ dirs' = [dirs EXCEPT ![c.slot] = @ \ {d}]
       /\ occupant' = [occupant EXCEPT ![c.slot] = IF d = "run" THEN 0 ELSE @]
  /\ UNCHANGED <<holder, version, status, shells, archive, latest, begun, pc, own>>

Pruned(p) ==
  \A c \in snapshot[p] : \A d \in c.dirs \cap dirs[c.slot] : ~Empty(c.slot, d)

\* The locks are released, and then the directories are pruned once more.
ReleaseAndPrune(p) ==
  /\ At(p, "prune") /\ Pruned(p)
  /\ Unlock(p) /\ Goto(p, "pruneAgain")
  /\ UNCHANGED <<tree, shells, archive, latest, begun, own>>

ArchiveEnds(p) ==
  /\ At(p, "pruneAgain")
  /\ Exit(p)
  /\ UNCHANGED <<holder, tree, shells, archive, latest, begun>>

\* Something cannot be removed: what is left stays, and the locks are released.
CleanupFails(p) ==
  /\ pc[p] \in {"remove", "prune"}
  /\ Goto(p, "unlock")
  /\ UNCHANGED <<holder, tree, shells, archive, latest, begun, own>>
-----------------------------------------------------------------------------
Run(p) ==
  \/ BeginRun(p) \/ Create(p) \/ CreateEnds(p)
  \/ MarkRootRunning(p) \/ ShellsEnd(p) \/ MarkRootFinal(p) \/ HardExit(p)

Continue(p) == BeginContinue(p) \/ Open(p) \/ OpenRefused(p)

ArchiveRoot(p) ==
  \/ BeginArchive(p) \/ Discover(p) \/ Validate(p) \/ ArchiveRefused(p)
  \/ ReadArchive(p) \/ CopyRun(p) \/ CopyEnds(p) \/ RenameArchive(p)
  \/ RemoveData(p) \/ RemoveStatus(p) \/ FilesRemoved(p) \/ CleanupFails(p)
  \/ PruneDir(p) \/ ReleaseAndPrune(p) \/ ArchiveEnds(p)

Lock(p) == TakeLock(p) \/ LocksTaken(p) \/ LockRefused(p) \/ Finish(p)

Next ==
  \/ \E p \in Process : Run(p) \/ Continue(p) \/ ArchiveRoot(p) \/ Lock(p) \/ Die(p)
  \/ \E s \in Slot : MakeSub(s) \/ WriteData(s)

Spec == Init /\ [][Next]_vars

-----------------------------------------------------------------------------
Data == (0..MaxRun) \X (0..MaxVersion)

Place == Locking \cup
  {"idle", "create", "open", "start", "running", "final", "unlock", "dead",
   "discover", "validate", "read", "copy", "rename", "remove", "prune", "pruneAgain"}

\* Every variable has its type; a directory that exists is in one that does.
TypeOK ==
  /\ holder \in [Root -> Process \cup {None}]
  /\ occupant \in [Slot -> 0..MaxRun] /\ version \in [Slot -> 0..MaxVersion]
  /\ status \in [Slot -> {"none", "NOTSTARTED", "RUNNING", "FINAL"}]
  /\ dirs \in [Slot -> SUBSET {"run", "sub"}]
  /\ \A s \in Slot : ("sub" \in dirs[s] => Exists(s)) /\ (Exists(s) <=> occupant[s] > 0)
  /\ shells \subseteq Slot
  /\ archive \in [File -> SUBSET Data]
  /\ latest \in [1..MaxRun -> 0..MaxVersion]
  /\ begun \in 0..MaxCommand /\ pc \in [Process -> Place]
  /\ root \in [Process -> Root \cup {None}] /\ want \in [Process -> SUBSET Root]
  /\ dir \in [Process -> Slot \cup {None}]
  /\ inventory \in [Process -> SUBSET Slot] /\ read \in [Process -> SUBSET Data]
  /\ snapshot \in [Process -> SUBSET [slot : Slot, data : Data, dirs : SUBSET {"run", "sub"}]]

\* Whatever is run, continued, archived, interrupted or killed, the data that
\* the shells of a run wrote last is in its run directory or in an archive:
\* `jbs archive` removes nothing but what the archive in place holds, and no
\* run is created on top of another.
NothingLost ==
  \A r \in 1..MaxRun : latest[r] > 0 =>
    \/ \E s \in Slot : occupant[s] = r /\ version[s] = latest[r]
    \/ \E f \in File : <<r, latest[r]>> \in archive[f]

\* A run directory in which shells are running, those of a jbs that was
\* killed included, is not executed a second time.
ExecutedOnce ==
  [][\A p \in Process :
       At(p, "start") /\ At(p, "running")' => dir[p] \notin shells]_vars

\* No process removes data from a run that is RUNNING.
RunningDataKept ==
  [][\A s \in Slot : status[s] = "RUNNING" => version'[s] >= version[s]]_vars

\* Archiving again keeps the snapshots that the archive holds.  It does when
\* the archive files of different roots are different.
SnapshotsPreserved == [][\A f \in File : archive[f] \subseteq archive'[f]]_vars
=============================================================================
