------------------------------ MODULE FileWait ------------------------------
(***************************************************************************)
(* `jbs fwait` (filewait.go): waiting until one of several files changes   *)
(* or appears.  The waiter takes a snapshot of every target, starts        *)
(* watching directories, compares, and then reacts to notifications and to *)
(* a ticker.  The file system changes at any point in between, watches may *)
(* fail and notifications may be lost (network file systems).              *)
(*                                                                         *)
(* A path is a name; Parent gives the directory it is in, up to Top, which *)
(* always exists.  What stat says of a regular file (identity, size, mode, *)
(* modification time) is one Stamp.                                        *)
(***************************************************************************)
EXTENDS Integers, Sequences

CONSTANTS
  Path,        \* the targets and the directories above them, below Top
  Top,         \* a directory that always exists
  Parent,      \* [Path -> Path \cup {Top}], filepath.Dir
  Targets,     \* sequence of paths, the arguments of the command
  Stamp,       \* what stat tells of a regular file
  MaxChanges,  \* bound: changes of the file system
  MaxFaults    \* bound: failing watches and lost notifications

ASSUME PathAssumption == Top \notin Path /\ Parent \in [Path -> Path \cup {Top}]
ASSUME TargetsAssumption == Targets \in Seq(Path) /\ Targets # <<>>
ASSUME StampAssumption == {"absent", "dir", "error"} \cap Stamp = {}
ASSUME BoundsAssumption == MaxChanges \in Nat /\ MaxFaults \in Nat

Index == 1..Len(Targets)
Directory == Path \cup {Top}
Snapshot == {"absent"} \cup Stamp

VARIABLES
  node,         \* [Path -> {"absent", "dir"} \cup Stamp], the file system
  exitIfExists, \* opts.ExitIfExists
  pc,           \* where the waiter is
  i,            \* the target the waiter works on
  dir,          \* the directory refreshWatches looks at
  event,        \* the notification being handled; Top if it is none
  initial,      \* states[i].initial of the targets already prepared
  watched,      \* state.watched, the directories the waiter believes watched
  kernel,       \* the directories whose changes are notified
  queue,        \* notifications not yet received: the paths they name
  notify,       \* `events` is not nil
  result,       \* the index of the target returned, 0 for none
  touched,      \* targets changed since their snapshot
  lossy,        \* a notification was lost, or a directory vanished
  changes, faults

fs == <<node, touched, lossy, changes>>
watches == <<watched, kernel, notify>>
vars == <<fs, watches, exitIfExists, pc, i, dir, event, initial, queue, result, faults>>

Regular(v) == v \in Stamp

\* The directories above p up to Top, and p: what every set holds that holds p
\* and the parents of its members.
Closed(S) == \A q \in S : q # Top => Parent[q] \in S
Chain == [p \in Directory |->
            {a \in Directory : \A S \in SUBSET Directory : Closed(S) /\ p \in S => a \in S}]

(***************************************************************************)
(* os.Stat: below a directory that is missing there is nothing, below a    *)
(* regular file the call fails with something else than ErrNotExist.       *)
(***************************************************************************)
Stat == [p \in Directory |->
  IF p = Top THEN "dir"
  ELSE IF node[p] # "absent" THEN node[p]
  ELSE IF \E a \in Chain[p] \ {Top} : Regular(node[a]) THEN "error" ELSE "absent"]

\* p is q or above q.
Within(p, q) == p \in Chain[q]

CompleteIfExistsBug(old, new) == Regular(new)

\* complete, for snapshots that are not directories: a missing target is
\* complete once it exists, another one when its snapshot differs.
Complete(old, new) == IF old = "absent" THEN Regular(new) ELSE new # old

-----------------------------------------------------------------------------
(***************************************************************************)
(* The file system, changed by others.  A change at a path is notified if  *)
(* the directory it is in is watched, or if it removes a watched directory; *)
(* a notification may be lost.                                             *)
(***************************************************************************)
Notified(P, gone) == {p \in P : Parent[p] \in kernel} \cup (gone \cap kernel)

Notify(P, gone) ==
  \/ /\ IF Notified(P, gone) = {} THEN UNCHANGED queue
        ELSE \E p \in Notified(P, gone) : queue' = Append(queue, p)
     /\ lossy' = (lossy \/ gone \cap kernel # {})
     /\ UNCHANGED faults
  \/ /\ Notified(P, gone) # {}
     /\ faults < MaxFaults /\ faults' = faults + 1
     /\ lossy' = TRUE
     /\ UNCHANGED queue

Touch(P) ==
  touched' = touched \cup {k \in Index : Targets[k] \in P /\ (pc = "prepare" => k < i)}

Change == changes < MaxChanges /\ changes' = changes + 1

\* A file or a directory is created.
Make(p) ==
  /\ Change
  /\ node[p] = "absent" /\ Stat[Parent[p]] = "dir"
  /\ \E v \in {"dir"} \cup Stamp : node' = [node EXCEPT ![p] = v]
  /\ Touch({p}) /\ Notify({p}, {})
  /\ UNCHANGED <<watches, exitIfExists, pc, i, dir, event, initial, result>>

\* A file is written or replaced; stat need not tell the difference.
Write(p) ==
  /\ Change
  /\ Regular(node[p])
  /\ \E v \in Stamp : node' = [node EXCEPT ![p] = v]
  /\ Touch({p}) /\ Notify({p}, {})
  /\ UNCHANGED <<watches, exitIfExists, pc, i, dir, event, initial, result>>

\* A file, or a directory with all that is in it, is removed or moved away;
\* the watches on directories that vanish are gone with them.
Remove(p) ==
  LET gone == {q \in Path : Within(p, q) /\ node[q] # "absent"} IN
  /\ Change
  /\ node[p] # "absent"
  /\ node' = [q \in Path |-> IF q \in gone THEN "absent" ELSE node[q]]
  /\ kernel' = kernel \ gone
  /\ Touch(gone) /\ Notify(gone, gone)
  /\ UNCHANGED <<watched, notify, exitIfExists, pc, i, dir, event, initial, result>>

-----------------------------------------------------------------------------
(***************************************************************************)
(* The waiter.                                                             *)
(***************************************************************************)
Init ==
  /\ node \in [Path -> {"absent", "dir"} \cup Stamp]
  /\ \A p \in Path : node[p] # "absent" => Stat[Parent[p]] = "dir"
  /\ exitIfExists \in BOOLEAN
  /\ pc = "prepare" /\ i = 1 /\ dir = Top /\ event = Top
  /\ initial = [k \in Index |-> "absent"]
  /\ watched = {} /\ kernel = {} /\ notify = FALSE
  /\ queue = <<>>
  /\ result = 0
  /\ touched = {} /\ lossy = FALSE
  /\ changes = 0 /\ faults = 0

Ended == {"returned", "failed", "cancelled"}

Return(k) == pc' = "returned" /\ result' = k

Fail == pc' = "failed" /\ UNCHANGED result

\* prepareTargets, one target; a directory is refused.
Prepare ==
  /\ pc = "prepare" /\ i \in Index
  /\ LET s == Stat[Targets[i]] IN
     \/ /\ s \in {"dir", "error"}
        /\ Fail
        /\ UNCHANGED <<i, initial>>
     \/ /\ s \notin {"dir", "error"}
        /\ initial' = [initial EXCEPT ![i] = s]
        /\ i' = i + 1
        /\ UNCHANGED <<pc, result>>
  /\ UNCHANGED <<fs, watches, exitIfExists, dir, event, queue, faults>>

\* firstExisting.
ReturnExisting ==
  /\ pc = "prepare" /\ i \notin Index
  /\ exitIfExists
  /\ \E k \in Index :
       /\ initial[k] # "absent" /\ \A j \in 1..(k - 1) : initial[j] = "absent"
       /\ Return(k)
  /\ UNCHANGED <<fs, watches, exitIfExists, i, dir, event, initial, queue, faults>>

\* startWatcher: a new watcher, whose watches are then added; without one
\* the waiter polls.
StartWatcher ==
  /\ pc = "prepare" /\ i \notin Index
  /\ exitIfExists => \A k \in Index : initial[k] = "absent"
  /\ i' = 1
  /\ \/ /\ notify' = TRUE /\ pc' = "up" /\ dir' = Parent[Targets[1]]
        /\ UNCHANGED faults
     \/ /\ faults < MaxFaults /\ faults' = faults + 1
        /\ pc' = "check"
        /\ UNCHANGED <<notify, dir>>
  /\ UNCHANGED <<fs, watched, kernel, exitIfExists, event, initial, queue, result>>

\* Whatever was refreshed for, the targets are looked at next.
Refreshed == pc' = "check" /\ i' = 1 /\ UNCHANGED dir

RefreshFails == notify' = FALSE /\ Refreshed

\* The watches for the next target.
NextTarget ==
  IF i < Len(Targets)
  THEN i' = i + 1 /\ pc' = "up" /\ dir' = Parent[Targets[i + 1]]
  ELSE Refreshed

\* nearestExistingDir, one stat.
FindAncestor ==
  /\ pc = "up"
  /\ \/ /\ Stat[dir] = "dir"
        /\ pc' = "add" /\ UNCHANGED <<dir, i, notify>>
     \/ /\ Stat[dir] = "absent"
        /\ dir' = Parent[dir] /\ UNCHANGED <<pc, i, notify>>
     \/ /\ Stat[dir] \notin {"dir", "absent"}
        /\ RefreshFails
  /\ UNCHANGED <<fs, watched, kernel, exitIfExists, event, initial, queue, result, faults>>

\* addWatch: a directory already in the map is not watched again.  A new
\* watch fails if the directory has gone.
AddWatch ==
  /\ pc = "add"
  /\ \/ /\ dir \in watched
        /\ pc' = "down" /\ UNCHANGED <<watched, kernel, notify, i, dir, faults>>
     \/ /\ dir \notin watched /\ Stat[dir] = "dir"
        /\ watched' = watched \cup {dir} /\ kernel' = kernel \cup {dir}
        /\ pc' = "down" /\ UNCHANGED <<notify, i, dir, faults>>
     \/ /\ dir \notin watched /\ Stat[dir] # "dir"
        /\ RefreshFails /\ UNCHANGED <<watched, kernel, faults>>
     \/ /\ dir \notin watched /\ faults < MaxFaults /\ faults' = faults + 1
        /\ RefreshFails /\ UNCHANGED <<watched, kernel>>
  /\ UNCHANGED <<fs, exitIfExists, event, initial, queue, result>>

\* nextPathComponent: the directory below d on the way to the target.
Below(d) == CHOOSE p \in Path : Parent[p] = d /\ Within(p, Parent[Targets[i]])

DescendNotBug ==
  /\ pc = "down" /\ NextTarget
  /\ UNCHANGED <<fs, watches, exitIfExists, event, initial, queue, result, faults>>

\* The loop of refreshWatches, one component.
Descend ==
  /\ pc = "down"
  /\ \/ /\ dir = Parent[Targets[i]]
        /\ NextTarget /\ UNCHANGED notify
     \/ /\ dir # Parent[Targets[i]] /\ Stat[Below(dir)] = "absent"
        /\ NextTarget /\ UNCHANGED notify
     \/ /\ dir # Parent[Targets[i]] /\ Stat[Below(dir)] = "dir"
        /\ dir' = Below(dir) /\ pc' = "add" /\ UNCHANGED <<i, notify>>
     \/ /\ dir # Parent[Targets[i]] /\ Stat[Below(dir)] \notin {"dir", "absent"}
        /\ RefreshFails
  /\ UNCHANGED <<fs, watched, kernel, exitIfExists, event, initial, queue, result, faults>>

\* firstCompleted and firstCompletedAfterEvent, one target.  A notification
\* that names a target which existed is enough.
Check ==
  /\ pc = "check"
  /\ LET s == Stat[Targets[i]]
         hit == \/ Complete(initial[i], s)
                \/ initial[i] # "absent" /\ event = Targets[i]
     IN
     \/ /\ s \in {"dir", "error"}
        /\ Fail /\ UNCHANGED <<i, event>>
     \/ /\ s \notin {"dir", "error"} /\ hit
        /\ Return(i) /\ UNCHANGED <<i, event>>
     \/ /\ s \notin {"dir", "error"} /\ ~hit /\ i < Len(Targets)
        /\ i' = i + 1 /\ UNCHANGED <<pc, event, result>>
     \/ /\ s \notin {"dir", "error"} /\ ~hit /\ i = Len(Targets)
        /\ pc' = "select" /\ i' = 1 /\ event' = Top /\ UNCHANGED result
  /\ UNCHANGED <<fs, watches, exitIfExists, dir, initial, queue, faults>>

Refresh == pc' = "up" /\ i' = 1 /\ dir' = Parent[Targets[1]]

\* The cases of waitLoop's select.
ReceiveEvent ==
  /\ pc = "select" /\ notify /\ queue # <<>>
  /\ event' = Head(queue) /\ queue' = Tail(queue)
  /\ Refresh
  /\ UNCHANGED <<fs, watches, exitIfExists, initial, result, faults>>

WatcherError ==
  /\ pc = "select" /\ notify
  /\ faults < MaxFaults /\ faults' = faults + 1
  /\ notify' = FALSE
  /\ UNCHANGED <<fs, watched, kernel, exitIfExists, pc, i, dir, event, initial, queue, result>>

TickTrustingEventsBug ==
  /\ pc = "select" /\ ~notify
  /\ pc' = "check"
  /\ UNCHANGED <<fs, watches, exitIfExists, i, dir, event, initial, queue, result, faults>>

Tick ==
  /\ pc = "select"
  /\ \/ notify /\ Refresh
     \/ ~notify /\ pc' = "check" /\ UNCHANGED <<i, dir>>
  /\ UNCHANGED <<fs, watches, exitIfExists, event, initial, queue, result, faults>>

Cancelled ==
  /\ pc = "select"
  /\ pc' = "cancelled"
  /\ UNCHANGED <<fs, watches, result, exitIfExists, i, dir, event, initial, queue, faults>>

Waiter ==
  \/ Prepare \/ ReturnExisting \/ StartWatcher
  \/ FindAncestor \/ AddWatch \/ Descend
  \/ Check \/ ReceiveEvent \/ Tick

Environment == \E p \in Path : Make(p) \/ Write(p) \/ Remove(p)

Next == Waiter \/ WatcherError \/ Cancelled \/ Environment

Spec == Init /\ [][Next]_vars

\* The waiter keeps running and its ticker keeps ticking.
FairSpec == Spec /\ WF_vars(Waiter)

-----------------------------------------------------------------------------
\* The values of the variables, for the reader.
TypeOK ==
  /\ node \in [Path -> {"absent", "dir"} \cup Stamp]
  /\ exitIfExists \in BOOLEAN /\ notify \in BOOLEAN /\ lossy \in BOOLEAN
  /\ pc \in {"prepare", "up", "add", "down", "check", "select"} \cup Ended
  /\ i \in 1..(Len(Targets) + 1)
  /\ dir \in Directory /\ event \in Directory
  /\ initial \in [Index -> Snapshot]
  /\ watched \subseteq Directory /\ kernel \subseteq watched
  /\ queue \in Seq(Path)
  /\ result \in {0} \cup Index
  /\ touched \subseteq Index
  /\ changes \in 0..MaxChanges /\ faults \in 0..MaxFaults

Differs(k) == Complete(initial[k], Stat[Targets[k]])

(***************************************************************************)
(* The waiter never reports a file that nobody has touched since the       *)
(* command looked at it first, except those that --exit-if-exists asks     *)
(* for, whatever notifications of neighbours arrive in between.            *)
(***************************************************************************)
OnlyRealChanges ==
  pc = "returned" =>
    result \in touched \/ (exitIfExists /\ initial[result] # "absent")

(***************************************************************************)
(* As long as no notification is lost and no watched directory vanishes,   *)
(* the notifications alone are enough: an idle waiter never sits on a      *)
(* change, even one that was made, with its directories, while the watches *)
(* were being added.                                                       *)
(***************************************************************************)
NotificationsSuffice ==
  pc = "select" /\ notify /\ ~lossy /\ queue = <<>> =>
    \A k \in Index : ~Differs(k) /\ Stat[Targets[k]] # "dir"

(***************************************************************************)
(* A change that lasts ends the command, however many watches fail and     *)
(* notifications are lost: directories that were removed and made again,   *)
(* which the waiter believes watched, are covered by the polls.            *)
(***************************************************************************)
ChangeEndsWait == \A k \in Index : <>[]Differs(k) => <>(pc \in Ended)
=============================================================================
