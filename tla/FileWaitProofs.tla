--------------------------- MODULE FileWaitProofs ---------------------------
(***************************************************************************)
(* Proofs about FileWait, for any tree of paths, any targets and any       *)
(* number of changes and faults: the waiter reports only what has changed, *)
(* and while no notification is lost it never sleeps on a change.          *)
(***************************************************************************)
EXTENDS FileWait, TLAPS

Env(p) == Make(p) \/ Write(p) \/ Remove(p)

-----------------------------------------------------------------------------
(***************************************************************************)
(* The directories above a path.                                           *)
(***************************************************************************)
\* Chain[p] holds p, is closed under Parent, and holds only p and parents of
\* its members.
LEMMA ChainMembers ==
  ASSUME NEW p \in Directory
  PROVE  /\ p \in Chain[p] /\ Chain[p] \subseteq Directory
         /\ Closed(Chain[p])
         /\ \A a \in Chain[p] : a = p \/ \E q \in Chain[p] \ {Top} : Parent[q] = a
<1>1. Chain[p] = {a \in Directory :
                    \A S \in SUBSET Directory : Closed(S) /\ p \in S => a \in S}
  BY DEF Chain
<1>2. p \in Chain[p] /\ Chain[p] \subseteq Directory
  BY <1>1
<1>3. Closed(Chain[p])
  <2> SUFFICES ASSUME NEW q \in Chain[p], q # Top PROVE Parent[q] \in Chain[p]
    BY DEF Closed
  <2>1. q \in Directory /\ Parent[q] \in Directory
    BY <1>1, PathAssumption DEF Directory
  <2>2. ASSUME NEW S \in SUBSET Directory, Closed(S), p \in S
        PROVE  Parent[q] \in S
    <3>1. q \in S
      BY <1>1, <2>2
    <3> QED
      BY <3>1, <2>2 DEF Closed
  <2> QED
    BY <1>1, <2>1, <2>2
<1>4. ASSUME NEW a \in Chain[p]
      PROVE  a = p \/ \E q \in Chain[p] \ {Top} : Parent[q] = a
  <2> DEFINE S == {b \in Chain[p] : b = p \/ \E q \in Chain[p] \ {Top} : Parent[q] = b}
  <2>1. S \in SUBSET Directory /\ p \in S
    BY <1>2
  <2>2. Closed(S)
    BY <1>3 DEF Closed
  <2>3. a \in S
    BY <1>1, <2>1, <2>2
  <2> QED
    BY <2>3
<1> QED
  BY <1>2, <1>3, <1>4

\* Every set that is closed under Parent and holds p holds what is above p.
LEMMA ChainLeast ==
  ASSUME NEW p \in Directory, NEW S \in SUBSET Directory, Closed(S), p \in S
  PROVE  Chain[p] \subseteq S
  BY DEF Chain

\* The file system is a tree: a path that exists is in a directory.
Tree == \A p \in Path : node[p] # "absent" => Parent[p] = Top \/ node[Parent[p]] = "dir"

\* What is above something that exists is a directory.
LEMMA AboveExisting ==
  ASSUME TypeOK, Tree, NEW q \in Path, node[q] # "absent", NEW a \in Chain[q]
  PROVE  a = q \/ a = Top \/ node[a] = "dir"
<1> DEFINE S == {d \in Directory : d = q \/ d = Top \/ node[d] = "dir"}
<1>1. Closed(S)
  <2> SUFFICES ASSUME NEW d \in S, d # Top PROVE Parent[d] \in S
    BY DEF Closed
  <2>1. d \in Path /\ node[d] # "absent"
    BY DEF Directory
  <2> QED
    BY <2>1, PathAssumption DEF Tree, Directory
<1>2. q \in S /\ S \in SUBSET Directory
  BY DEF Directory
<1>3. Chain[q] \subseteq S
  <2> HIDE DEF S
  <2> QED
    BY <1>1, <1>2, ChainLeast DEF Directory
<1> QED
  BY <1>3

\* The top directory is always there.
LEMMA StatTop == Stat[Top] = "dir"
  BY DEF Stat, Directory

\* What stat tells, from what is in the file system.
LEMMA StatFacts ==
  ASSUME TypeOK, NEW p \in Path
  PROVE  /\ node[p] # "absent" => Stat[p] = node[p]
         /\ node[p] = "absent" => Stat[p] \in {"absent", "error"}
         /\ Stat[p] = "dir" <=> node[p] = "dir"
         /\ Stat[p] \in {"dir", "absent", "error"} \cup Stamp
<1>1. p # Top /\ p \in Directory /\ Top \in Directory
  BY PathAssumption DEF Directory
<1>2. node[p] \in {"absent", "dir"} \cup Stamp
  BY DEF TypeOK
<1> QED
  BY <1>1, <1>2, StampAssumption DEF Stat

-----------------------------------------------------------------------------
(***************************************************************************)
(* Types.                                                                  *)
(***************************************************************************)
\* The arguments of the command are paths below Top.
LEMMA TargetTypes ==
  /\ Len(Targets) \in Nat /\ Len(Targets) >= 1 /\ Index = 1..Len(Targets)
  /\ \A k \in Index : Targets[k] \in Path /\ Parent[Targets[k]] \in Directory
<1>1. Targets \in Seq(Path) /\ Targets # <<>>
  BY TargetsAssumption
<1>2. Len(Targets) \in Nat /\ Len(Targets) # 0
  BY <1>1
<1>3. \A k \in Index : Targets[k] \in Path
  BY <1>1 DEF Index
<1> QED
  BY <1>2, <1>3, PathAssumption DEF Index, Directory

\* What a notification may do to the queue.
LEMMA NotifyStep ==
  ASSUME TypeOK, NEW P \in SUBSET Path, NEW gone \in SUBSET P, Notify(P, gone)
  PROVE  /\ \/ queue' = queue
            \/ \E p \in P : kernel # {} /\ queue' = Append(queue, p)
         /\ queue' \in Seq(Path)
         /\ lossy' \in BOOLEAN /\ faults' \in 0..MaxFaults
<1>1. Notified(P, gone) \subseteq P /\ (Notified(P, gone) # {} => kernel # {})
  BY DEF Notified
<1>2. \/ queue' = queue
      \/ \E p \in P : kernel # {} /\ queue' = Append(queue, p)
  BY <1>1 DEF Notify
<1>3. queue' \in Seq(Path)
  BY <1>2 DEF TypeOK
<1>4. lossy' \in BOOLEAN
  BY DEF Notify, TypeOK
<1>5. faults' \in 0..MaxFaults
  BY BoundsAssumption DEF Notify, TypeOK
<1> QED
  BY <1>2, <1>3, <1>4, <1>5

\* The environment changes the tree, tells the waiter, and nothing else.
LEMMA EnvFrame ==
  ASSUME TypeOK, NEW p \in Path, Env(p)
  PROVE  /\ UNCHANGED <<watched, notify, exitIfExists, pc, i, dir, event, initial, result>>
         /\ node' \in [Path -> {"absent", "dir"} \cup Stamp]
         /\ \E P, gone \in SUBSET Path :
              /\ gone \subseteq P
              /\ \A q \in Path : q \notin P => node'[q] = node[q]
              /\ \A q \in gone : node'[q] = "absent"
              /\ gone # {} => gone = P
              /\ kernel' = kernel \ gone
              /\ Touch(P) /\ Notify(P, gone)
         /\ changes' \in 0..MaxChanges
<1>1. UNCHANGED <<watched, notify, exitIfExists, pc, i, dir, event, initial, result>>
  BY DEF Env, Make, Write, Remove, watches
<1>2. changes' \in 0..MaxChanges
  BY BoundsAssumption DEF Env, Make, Write, Remove, Change, TypeOK
<1>3. CASE Make(p) \/ Write(p)
  <2>1. PICK v \in {"dir"} \cup Stamp : node' = [node EXCEPT ![p] = v]
    BY <1>3 DEF Make, Write
  <2>2. Touch({p}) /\ Notify({p}, {}) /\ kernel' = kernel
    BY <1>3 DEF Make, Write, watches
  <2>3. /\ \A q \in Path : q \notin {p} => node'[q] = node[q]
        /\ node' \in [Path -> {"absent", "dir"} \cup Stamp]
    BY <2>1 DEF TypeOK
  <2> QED
    BY <1>1, <1>2, <2>2, <2>3
<1>4. CASE Remove(p)
  <2> DEFINE gone == {q \in Path : Within(p, q) /\ node[q] # "absent"}
  <2>1. /\ node' = [q \in Path |-> IF q \in gone THEN "absent" ELSE node[q]]
        /\ kernel' = kernel \ gone
        /\ Touch(gone) /\ Notify(gone, gone)
    BY <1>4 DEF Remove
  <2>2. gone \in SUBSET Path
    OBVIOUS
  <2> HIDE DEF gone
  <2>3. /\ \A q \in Path : q \notin gone => node'[q] = node[q]
        /\ \A q \in gone : node'[q] = "absent"
        /\ node' \in [Path -> {"absent", "dir"} \cup Stamp]
    BY <2>1, <2>2 DEF TypeOK
  <2> QED
    BY <1>1, <1>2, <2>1, <2>2, <2>3
<1> QED
  BY <1>3, <1>4 DEF Env

\* The waiter starts in a state of the declared types.
LEMMA InitType == Init => TypeOK
<1> SUFFICES ASSUME Init PROVE TypeOK
  OBVIOUS
<1>1. <<>> \in Seq(Path) /\ Top \in Directory
  BY DEF Directory
<1>2. 1 \in 1..(Len(Targets) + 1)
  BY TargetTypes
<1>3. initial \in [Index -> Snapshot] /\ node \in [Path -> {"absent", "dir"} \cup Stamp]
  BY DEF Init, Snapshot
<1>4. changes \in 0..MaxChanges /\ faults \in 0..MaxFaults
  BY BoundsAssumption DEF Init
<1> QED
  BY <1>1, <1>2, <1>3, <1>4 DEF Init, TypeOK

\* Below on the way to the target is a path.
LEMMA BelowType ==
  ASSUME NEW d \in Directory, NEW k \in Index,
         d \in Chain[Parent[Targets[k]]], d # Parent[Targets[k]], i = k
  PROVE  /\ Below(d) \in Path /\ Parent[Below(d)] = d
         /\ Below(d) \in Chain[Parent[Targets[k]]]
<1>1. Parent[Targets[k]] \in Directory
  BY TargetTypes
<1>2. PICK q \in Chain[Parent[Targets[k]]] \ {Top} : Parent[q] = d
  BY <1>1, ChainMembers
<1>3. q \in Path
  BY <1>1, <1>2, ChainMembers DEF Directory
<1> QED
  BY <1>2, <1>3 DEF Below, Within

\* The waiter looks at a target and at a directory on the way to it, which it
\* has watched before it goes further down.
Walking ==
  /\ pc \in {"up", "add", "down", "check", "select"} => i \in Index
  /\ pc \in {"up", "add", "down"} => dir \in Chain[Parent[Targets[i]]]
  /\ pc = "down" => dir \in watched

TInv == TypeOK /\ Tree /\ Walking

\* At the start the file system is a tree and nothing is being watched.
LEMMA InitTInv == Init => TInv
<1> SUFFICES ASSUME Init PROVE TInv
  OBVIOUS
<1>1. TypeOK
  BY InitType
<1>2. Tree
  <2> SUFFICES ASSUME NEW p \in Path, node[p] # "absent"
               PROVE  Parent[p] = Top \/ node[Parent[p]] = "dir"
    BY DEF Tree
  <2>1. Stat[Parent[p]] = "dir"
    BY DEF Init
  <2>2. Parent[p] = Top \/ Parent[p] \in Path
    BY PathAssumption
  <2> QED
    BY <1>1, <2>1, <2>2, StatFacts
<1>3. Walking
  BY DEF Init, Walking
<1> QED
  BY <1>1, <1>2, <1>3 DEF TInv

\* A chain goes on through the chains of its members.
LEMMA ChainTransitive ==
  ASSUME NEW p \in Directory, NEW q \in Chain[p]
  PROVE  Chain[q] \subseteq Chain[p]
<1>1. Closed(Chain[p]) /\ Chain[p] \in SUBSET Directory /\ q \in Directory
  BY ChainMembers
<1> QED
  BY <1>1, ChainLeast

\* Whatever others make, write or remove, the file system stays a tree.
LEMMA EnvTree ==
  ASSUME TInv, NEW p \in Path, Env(p) PROVE Tree'
<1> USE DEF TInv
<1> SUFFICES ASSUME NEW q \in Path, node'[q] # "absent"
             PROVE  Parent[q] = Top \/ node'[Parent[q]] = "dir"
  BY DEF Tree
<1>1. /\ Parent[p] = Top \/ Parent[p] \in Path
      /\ Parent[q] = Top \/ Parent[q] \in Path
      /\ p \in Directory /\ q \in Directory /\ Parent[q] \in Directory
  BY PathAssumption DEF Directory
<1>2. CASE Make(p)
  <2>1. PICK v \in {"dir"} \cup Stamp : node' = [node EXCEPT ![p] = v]
    BY <1>2 DEF Make
  <2>2. node[p] = "absent" /\ (Parent[p] = Top \/ node[Parent[p]] = "dir")
    BY <1>1, <1>2, StatFacts DEF Make
  <2>3. \A r \in Path : r # p => node'[r] = node[r]
    BY <2>1 DEF TypeOK
  <2>4. CASE q = p
    BY <1>1, <2>2, <2>3, <2>4
  <2>5. CASE q # p
    BY <1>1, <2>2, <2>3, <2>5 DEF Tree
  <2> QED
    BY <2>4, <2>5
<1>3. CASE Write(p)
  <2>1. PICK v \in Stamp : node' = [node EXCEPT ![p] = v]
    BY <1>3 DEF Write
  <2>2. node[p] \in Stamp /\ node[p] # "dir" /\ node[p] # "absent"
    BY <1>3, StampAssumption DEF Write, Regular
  <2>3. \A r \in Path : r # p => node'[r] = node[r]
    BY <2>1 DEF TypeOK
  <2> QED
    BY <1>1, <2>2, <2>3 DEF Tree
<1>4. CASE Remove(p)
  <2> DEFINE gone == {r \in Path : Within(p, r) /\ node[r] # "absent"}
  <2>1. node' = [r \in Path |-> IF r \in gone THEN "absent" ELSE node[r]]
    BY <1>4 DEF Remove
  <2>2. q \notin gone /\ node[q] # "absent"
    BY <2>1
  <2>3. Parent[q] = Top \/ node[Parent[q]] = "dir"
    BY <2>2 DEF Tree
  <2>4. p \in Chain[Parent[q]] => p \in Chain[q]
    <3>1. q # Top /\ Parent[q] \in Chain[q]
      BY <1>1, ChainMembers, PathAssumption DEF Closed
    <3> QED
      BY <1>1, <3>1, ChainTransitive
  <2>5. Parent[q] \notin gone
    BY <2>2, <2>4 DEF Within
  <2> QED
    BY <1>1, <2>1, <2>3, <2>5
<1> QED
  BY <1>2, <1>3, <1>4 DEF Env

\* What a step of the waiter leaves alone.
LEMMA WaiterFrame ==
  ASSUME Waiter \/ WatcherError \/ Cancelled
  PROVE  /\ UNCHANGED <<fs, exitIfExists>>
         /\ ~ReceiveEvent => UNCHANGED queue
         /\ ~AddWatch => UNCHANGED <<watched, kernel>>
         /\ ~Prepare => UNCHANGED initial
         /\ ~ReceiveEvent /\ ~Check => UNCHANGED event
  BY DEF Waiter, WatcherError, Cancelled, Prepare, ReturnExisting, StartWatcher,
         FindAncestor, AddWatch, Descend, Check, ReceiveEvent, Tick, watches

\* Where the waiter goes when it starts to refresh the watches, and when it is
\* done with one target.
LEMMA Moves ==
  ASSUME TInv
  PROVE  /\ Refresh => i' = 1 /\ pc' = "up" /\ dir' \in Directory
                       /\ dir' \in Chain[Parent[Targets[i']]]
         /\ NextTarget /\ i \in Index =>
              /\ i' \in Index /\ dir' \in Directory
              /\ \/ pc' = "check" /\ i' = 1
                 \/ pc' = "up" /\ i' = i + 1 /\ dir' \in Chain[Parent[Targets[i']]]
<1>1. \A k \in Index : /\ Parent[Targets[k]] \in Directory
                        /\ Parent[Targets[k]] \in Chain[Parent[Targets[k]]]
  BY TargetTypes, ChainMembers
<1>2. 1 \in Index
  BY TargetTypes
<1>3. i \in Index /\ i < Len(Targets) => i + 1 \in Index
  BY TargetTypes
<1>4. dir \in Directory
  BY DEF TInv, TypeOK
<1> QED
  BY <1>1, <1>2, <1>3, <1>4 DEF Refresh, NextTarget, Refreshed

\* The waiter's own steps keep the types and its place.
LEMMA WaiterTypes ==
  ASSUME TInv, Waiter \/ WatcherError \/ Cancelled PROVE TypeOK' /\ Walking'
<1>1. /\ 1 \in Index /\ 1 \in 1..(Len(Targets) + 1) /\ Index = 1..Len(Targets)
      /\ Len(Targets) \in Nat
      /\ \A k \in Index : k \in 1..(Len(Targets) + 1) /\ k + 1 \in 1..(Len(Targets) + 1)
  BY TargetTypes
<1>2. UNCHANGED <<node, touched, lossy, changes, exitIfExists>>
  BY WaiterFrame DEF fs
<1>3. ASSUME faults' = faults + 1, faults < MaxFaults PROVE faults' \in 0..MaxFaults
  BY <1>3, BoundsAssumption DEF TInv, TypeOK
<1>4. \A k \in Index : /\ Targets[k] \in Path /\ Parent[Targets[k]] \in Directory
                        /\ Parent[Targets[k]] \in Chain[Parent[Targets[k]]]
  BY TargetTypes, ChainMembers
<1> USE DEF TInv, TypeOK, Walking, Ended
<1>5. CASE Prepare
  <2>1. \A k \in Index : Stat[Targets[k]] \notin {"dir", "error"} => Stat[Targets[k]] \in Snapshot
    BY <1>4, StatFacts DEF Snapshot
  <2>2. initial' \in [Index -> Snapshot]
    BY <1>5, <2>1 DEF Prepare
  <2> QED
    BY <1>1, <1>2, <1>5, <2>2 DEF Prepare, Fail, watches
<1>6. CASE ReturnExisting
  BY <1>1, <1>2, <1>6 DEF ReturnExisting, Return, watches
<1>7. CASE StartWatcher
  BY <1>1, <1>2, <1>3, <1>4, <1>7 DEF StartWatcher
<1>8. CASE FindAncestor
  <2>1. i \in Index /\ dir \in Directory /\ dir \in Chain[Parent[Targets[i]]]
    BY <1>8 DEF FindAncestor
  <2>2. Stat[dir] # "dir" => dir # Top
    BY StatTop
  <2>3. dir # Top => Parent[dir] \in Chain[Parent[Targets[i]]] /\ Parent[dir] \in Directory
    BY <1>4, <2>1, ChainMembers DEF Closed
  <2> QED
    BY <1>1, <1>2, <1>8, <2>1, <2>2, <2>3 DEF FindAncestor, RefreshFails, Refreshed
<1>9. CASE AddWatch
  BY <1>1, <1>2, <1>3, <1>9 DEF AddWatch, RefreshFails, Refreshed
<1>10. CASE Descend
  <2>1. i \in Index /\ dir \in Directory /\ dir \in Chain[Parent[Targets[i]]]
    BY <1>10 DEF Descend
  <2>2. dir # Parent[Targets[i]] =>
          Below(dir) \in Directory /\ Below(dir) \in Chain[Parent[Targets[i]]]
    BY <2>1, BelowType DEF Directory
  <2>3. CASE NextTarget /\ UNCHANGED notify
    BY <1>1, <1>2, <1>10, <2>1, <2>3, Moves DEF Descend
  <2>4. CASE /\ dir # Parent[Targets[i]]
             /\ dir' = Below(dir) /\ pc' = "add" /\ UNCHANGED <<i, notify>>
    BY <1>1, <1>2, <1>10, <2>1, <2>2, <2>4 DEF Descend
  <2>5. CASE RefreshFails
    BY <1>1, <1>2, <1>10, <2>1, <2>5 DEF Descend, RefreshFails, Refreshed
  <2> QED
    BY <1>10, <2>3, <2>4, <2>5 DEF Descend
<1>11. CASE Check
  <2>1. Top \in Directory /\ i \in Index
    BY <1>11 DEF Check, Directory
  <2>2. i < Len(Targets) => i + 1 \in Index
    BY <1>1, <2>1
  <2> QED
    BY <1>1, <1>2, <1>11, <2>1, <2>2 DEF Check, Return, Fail, watches
<1>12. CASE ReceiveEvent
  <2>1. Head(queue) \in Path /\ Tail(queue) \in Seq(Path)
    BY <1>12 DEF ReceiveEvent
  <2>2. event' \in Directory
    BY <1>12, <2>1 DEF ReceiveEvent, Directory
  <2> QED
    BY <1>1, <1>2, <1>12, <2>1, <2>2, Moves DEF ReceiveEvent, watches
<1>13. CASE Tick \/ WatcherError \/ Cancelled
  <2>1. pc = "select" => i \in 1..(Len(Targets) + 1)
    OBVIOUS
  <2> QED
    BY <1>1, <1>2, <1>3, <1>13, Moves DEF Tick, WatcherError, Cancelled, watches
<1> QED
  BY <1>5, <1>6, <1>7, <1>8, <1>9, <1>10, <1>11, <1>12, <1>13 DEF Waiter

\* Types, tree and place are kept by every step.
LEMMA NextTInv == TInv /\ [Next]_vars => TInv'
<1> SUFFICES ASSUME TInv, [Next]_vars PROVE TInv'
  OBVIOUS
<1>1. CASE Waiter \/ WatcherError \/ Cancelled
  <2>1. TypeOK' /\ Walking'
    BY <1>1, WaiterTypes
  <2>2. node' = node
    BY <1>1, WaiterFrame DEF fs
  <2>3. Tree'
    BY <2>2 DEF TInv, Tree
  <2> QED
    BY <2>1, <2>3 DEF TInv
<1>2. ASSUME NEW p \in Path, Env(p) PROVE TInv'
  <2>1. Tree'
    BY <1>2, EnvTree
  <2>2. /\ UNCHANGED <<watched, notify, exitIfExists, pc, i, dir, event, initial, result>>
        /\ node' \in [Path -> {"absent", "dir"} \cup Stamp]
        /\ changes' \in 0..MaxChanges
    BY <1>2, EnvFrame DEF TInv
  <2>3. PICK P \in SUBSET Path, gone \in SUBSET Path :
          gone \subseteq P /\ kernel' = kernel \ gone /\ Touch(P) /\ Notify(P, gone)
    BY <1>2, EnvFrame DEF TInv
  <2>4. queue' \in Seq(Path) /\ lossy' \in BOOLEAN /\ faults' \in 0..MaxFaults
    BY <2>3, NotifyStep DEF TInv
  <2>5. touched' \subseteq Index
    BY <2>3 DEF Touch, TInv, TypeOK
  <2>6. TypeOK'
    BY <2>2, <2>3, <2>4, <2>5 DEF TInv, TypeOK
  <2>7. Walking'
    BY <2>2 DEF TInv, Walking
  <2> QED
    BY <2>1, <2>6, <2>7 DEF TInv
<1>3. CASE UNCHANGED vars
  BY <1>3 DEF TInv, TypeOK, Tree, Walking, vars, fs, watches
<1> QED
  BY <1>1, <1>2, <1>3 DEF Next, Environment, Env

-----------------------------------------------------------------------------
(***************************************************************************)
(* What is reported has changed.                                           *)
(***************************************************************************)
\* The targets whose snapshot has been taken, as far as i tells.
Prepared == {k \in Index : pc \in {"prepare", "failed"} => k < i}

\* Nothing is notified before the watches are added.
Quiet == pc = "prepare" => kernel = {} /\ queue = <<>> /\ event = Top

\* A target nobody touched since its snapshot is as it was.
Intact == \A k \in Prepared \ touched : node[Targets[k]] = initial[k]

\* A notification names a target only if the target was touched.
Named ==
  \A k \in Index :
    event = Targets[k] \/ (\E n \in 1..Len(queue) : queue[n] = Targets[k]) => k \in touched

CInv == TInv /\ Quiet /\ Intact /\ Named /\ OnlyRealChanges

\* Nothing is notified of at the start, and no target has been looked at.
LEMMA InitCInv == Init => CInv
<1> SUFFICES ASSUME Init PROVE CInv
  OBVIOUS
<1>1. TInv
  BY InitTInv
<1>2. Quiet /\ OnlyRealChanges
  BY DEF Init, Quiet, OnlyRealChanges
<1>3. Intact
  BY TargetTypes DEF Init, Intact, Prepared
<1>4. Named
  BY TargetTypes, PathAssumption DEF Init, Named
<1> QED
  BY <1>1, <1>2, <1>3, <1>4 DEF CInv

\* Others change a target only by touching it, and what they are notified of
\* they touched.
LEMMA EnvCInv ==
  ASSUME CInv, TInv', NEW p \in Path, Env(p) PROVE CInv'
<1>1. UNCHANGED <<watched, notify, exitIfExists, pc, i, dir, event, initial, result>>
  BY EnvFrame DEF CInv, TInv
<1>2. PICK P \in SUBSET Path, gone \in SUBSET Path :
        /\ gone \subseteq P /\ kernel' = kernel \ gone /\ Touch(P) /\ Notify(P, gone)
        /\ \A q \in Path : q \notin P => node'[q] = node[q]
  BY EnvFrame DEF CInv, TInv
<1>3. \/ queue' = queue
      \/ \E q \in P : kernel # {} /\ queue' = Append(queue, q)
  BY <1>2, NotifyStep DEF CInv, TInv
<1>4. /\ Prepared' = Prepared /\ touched \subseteq touched'
      /\ \A k \in Prepared : Targets[k] \in P => k \in touched'
      /\ pc # "prepare" => \A k \in Index : Targets[k] \in P => k \in touched'
  BY <1>1, <1>2 DEF Touch, Prepared
<1>5. Quiet'
  BY <1>1, <1>2, <1>3 DEF CInv, Quiet
<1>6. Intact'
  <2> SUFFICES ASSUME NEW k \in Prepared, k \notin touched'
               PROVE  node'[Targets[k]] = initial[k]
    BY <1>1, <1>4 DEF Intact
  <2>1. Targets[k] \in Path /\ Targets[k] \notin P /\ k \notin touched
    BY <1>4, TargetTypes DEF Prepared
  <2> QED
    BY <1>2, <2>1 DEF CInv, Intact
<1>7. Named'
  <2> SUFFICES ASSUME NEW k \in Index,
                      event = Targets[k] \/ \E n \in 1..Len(queue') : queue'[n] = Targets[k]
               PROVE  k \in touched'
    BY <1>1 DEF Named
  <2>1. CASE event = Targets[k] \/ \E n \in 1..Len(queue) : queue[n] = Targets[k]
    BY <1>4, <2>1 DEF CInv, Named
  <2>2. ASSUME NEW q \in P, kernel # {}, queue' = Append(queue, q)
        PROVE  k \in touched'
    <3>1. queue \in Seq(Path) /\ pc # "prepare"
      BY <1>4, <2>2 DEF CInv, Quiet, TInv, TypeOK
    <3>2. /\ Len(queue') = Len(queue) + 1 /\ Len(queue) \in Nat
          /\ \A n \in 1..Len(queue') : n \in 1..Len(queue) \/ queue'[n] = q
          /\ \A n \in 1..Len(queue) : queue'[n] = queue[n]
      BY <2>2, <3>1
    <3> QED
      BY <1>4, <2>1, <3>1, <3>2
  <2> QED
    BY <1>3, <2>1, <2>2
<1>8. OnlyRealChanges'
  BY <1>1, <1>4 DEF CInv, OnlyRealChanges
<1> QED
  BY <1>5, <1>6, <1>7, <1>8 DEF CInv

\* The waiter touches nothing; it reports a target that differs from its
\* snapshot or that a notification named.
LEMMA WaiterCInv ==
  ASSUME CInv, TInv', Waiter \/ WatcherError \/ Cancelled PROVE CInv'
<1>1. UNCHANGED <<node, touched, exitIfExists>> /\ (~ReceiveEvent => queue' = queue)
      /\ (~AddWatch => kernel' = kernel) /\ (~Prepare => initial' = initial)
      /\ (~ReceiveEvent /\ ~Check => event' = event)
  BY WaiterFrame DEF fs
<1>2. Top \notin Path /\ \A k \in Index : Targets[k] \in Path
  BY TargetTypes, PathAssumption
<1>3. CASE Prepare
  <2>1. Quiet'
    BY <1>1, <1>3 DEF CInv, Quiet, Prepare, Check, ReceiveEvent, AddWatch
  <2>2. Named'
    BY <1>1, <1>3 DEF CInv, Named, Prepare, Check, ReceiveEvent
  <2>3. OnlyRealChanges'
    BY <1>3 DEF OnlyRealChanges, Prepare, Fail
  <2>4. Intact'
    <3>1. CASE pc' = "failed"
      BY <1>1, <1>3, <3>1 DEF CInv, Intact, Prepared, Prepare
    <3>2. CASE pc' # "failed"
      <4> SUFFICES ASSUME NEW k \in Index, k < i', k \notin touched
                   PROVE  node[Targets[k]] = initial'[k]
        BY <1>1, <1>3, <3>2 DEF Intact, Prepared, Prepare, Fail
      <4>1. /\ i' = i + 1 /\ initial' = [initial EXCEPT ![i] = Stat[Targets[i]]]
            /\ Stat[Targets[i]] \notin {"dir", "error"} /\ i \in Index
        BY <1>3, <3>2 DEF Prepare, Fail
      <4>2. CASE k = i
        BY <1>2, <4>1, <4>2, StatFacts DEF CInv, TInv, TypeOK
      <4>3. CASE k # i
        <5>1. k < i
          BY <4>1, <4>3, TargetTypes
        <5> QED
          BY <1>3, <4>1, <4>3, <5>1 DEF CInv, TInv, TypeOK, Intact, Prepared, Prepare
      <4> QED
        BY <4>2, <4>3
    <3> QED
      BY <3>1, <3>2
  <2> QED
    BY <2>1, <2>2, <2>3, <2>4 DEF CInv
<1>4. ASSUME ~Prepare, pc # "prepare" \/ ReturnExisting \/ StartWatcher PROVE Intact'
  <2>1. pc = "prepare" => i \notin Index
    BY <1>4 DEF ReturnExisting, StartWatcher
  <2>2. Prepared' \subseteq Prepared
    <3>1. pc' # "prepare"
      BY <1>4 DEF Waiter, WatcherError, Cancelled, Prepare, ReturnExisting, StartWatcher,
         FindAncestor, AddWatch, Descend, Check, ReceiveEvent, Tick, Return, Fail,
         NextTarget, RefreshFails, Refreshed, Refresh
    <3>2. pc = "prepare" => Prepared = Index
      BY <2>1, TargetTypes DEF Prepared, CInv, TInv, TypeOK
    <3>3. pc = "failed" => FALSE
      BY <1>4 DEF Waiter, WatcherError, Cancelled, Prepare, ReturnExisting, StartWatcher,
         FindAncestor, AddWatch, Descend, Check, ReceiveEvent, Tick
    <3>4. pc # "prepare" => Prepared = Index
      BY <3>3 DEF Prepared
    <3> QED
      BY <3>2, <3>4 DEF Prepared
  <2> QED
    BY <1>1, <1>4, <2>2 DEF CInv, Intact
<1>5. CASE ReturnExisting
  <2>1. OnlyRealChanges'
    BY <1>1, <1>5 DEF ReturnExisting, Return, OnlyRealChanges, Prepare
  <2>2. UNCHANGED <<initial, event, queue>> /\ pc' # "prepare"
    BY <1>5 DEF ReturnExisting, Return
  <2>3. Quiet' /\ Named'
    BY <1>1, <2>2 DEF CInv, Quiet, Named
  <2> QED
    BY <1>3, <1>4, <1>5, <2>1, <2>3 DEF CInv
<1>6. CASE Check
  <2>1. OnlyRealChanges'
    <3> SUFFICES ASSUME pc' = "returned" PROVE result' \in touched
      BY <1>1 DEF OnlyRealChanges
    <3>1. /\ result' = i /\ i \in Index /\ i \in Prepared
          /\ Complete(initial[i], Stat[Targets[i]]) \/ event = Targets[i]
      BY <1>6 DEF Check, Return, Fail, CInv, TInv, Walking, Prepared
    <3>2. ASSUME i \notin touched PROVE ~Complete(initial[i], Stat[Targets[i]])
      <4>1. node[Targets[i]] = initial[i] /\ initial[i] \in Snapshot
        BY <3>1, <3>2 DEF CInv, Intact, TInv, TypeOK
      <4> QED
        BY <1>2, <3>1, <4>1, StatFacts, StampAssumption
           DEF Complete, Regular, CInv, TInv, Snapshot
    <3> QED
      BY <3>1, <3>2 DEF CInv, Named
  <2>2. Quiet' /\ Named'
    BY <1>1, <1>2, <1>6 DEF Check, CInv, Quiet, Named, Return, Fail
  <2>3. ~Prepare /\ pc # "prepare"
    BY <1>6 DEF Check, Prepare
  <2> QED
    BY <1>4, <2>1, <2>2, <2>3 DEF CInv
<1>7. CASE ReceiveEvent
  <2>1. OnlyRealChanges' /\ Quiet'
    BY <1>7 DEF ReceiveEvent, Refresh, OnlyRealChanges, Quiet
  <2>2. queue \in Seq(Path) /\ queue # <<>> /\ event' = queue[1] /\ queue' = Tail(queue)
    BY <1>7 DEF ReceiveEvent, CInv, TInv, TypeOK
  <2>3. /\ 1 \in 1..Len(queue)
        /\ \A n \in 1..Len(queue') : n + 1 \in 1..Len(queue) /\ queue'[n] = queue[n + 1]
    BY <2>2
  <2>4. Named'
    BY <1>1, <2>2, <2>3 DEF CInv, Named
  <2>5. ~Prepare /\ pc # "prepare"
    BY <1>7 DEF ReceiveEvent, Prepare
  <2> QED
    BY <1>4, <2>1, <2>4, <2>5 DEF CInv
<1>8. CASE \/ StartWatcher \/ FindAncestor \/ AddWatch \/ Descend
           \/ Tick \/ WatcherError \/ Cancelled
  <2>1. pc' \notin {"prepare", "returned"} /\ (StartWatcher \/ pc # "prepare")
    BY <1>8 DEF StartWatcher, FindAncestor, AddWatch, Descend, Tick, WatcherError, Cancelled,
                NextTarget, RefreshFails, Refreshed, Refresh
  <2>2. UNCHANGED <<event, queue, initial>>
    BY <1>8 DEF StartWatcher, FindAncestor, AddWatch, Descend, Tick, WatcherError, Cancelled
  <2>3. Quiet' /\ Named' /\ OnlyRealChanges'
    BY <1>1, <2>1, <2>2 DEF CInv, Quiet, Named, OnlyRealChanges
  <2> QED
    BY <1>3, <1>4, <2>1, <2>3 DEF CInv
<1> QED
  BY <1>3, <1>5, <1>6, <1>7, <1>8 DEF Waiter

\* A wait never reports a target that nobody has touched since the command
\* looked at it first, unless --exit-if-exists asks for what exists: whatever
\* changes around it, whatever is notified, and whichever watches fail.
THEOREM ReportsAreReal == Spec => []OnlyRealChanges
<1>1. CInv /\ [Next]_vars => CInv'
  <2> SUFFICES ASSUME CInv, [Next]_vars PROVE CInv'
    OBVIOUS
  <2>1. TInv'
    BY NextTInv DEF CInv
  <2>2. CASE UNCHANGED vars
    BY <2>1, <2>2 DEF CInv, Quiet, Intact, Prepared, Named, OnlyRealChanges, vars, fs, watches
  <2> QED
    BY <2>1, <2>2, WaiterCInv, EnvCInv DEF Next, Environment, Env
<1> QED
  BY InitCInv, <1>1, PTL DEF Spec, CInv

-----------------------------------------------------------------------------
(***************************************************************************)
(* Notifications suffice.                                                  *)
(***************************************************************************)
\* What happens to target k is notified: the directory it is in is watched, or
\* one above it in which the way to the target is missing.
Covered(k) ==
  \/ Parent[Targets[k]] \in kernel
  \/ \E q \in Chain[Parent[Targets[k]]] \ {Top} : Parent[q] \in kernel /\ node[q] = "absent"

Settled(k) == ~Differs(k) /\ Stat[Targets[k]] # "dir"

\* Watches are on directories that exist; without a loss, the waiter knows
\* which.
Watching ==
  /\ \A d \in kernel : d = Top \/ node[d] = "dir"
  /\ ~lossy => watched = kernel
  /\ pc = "prepare" => ~notify

\* A waiter that has nothing to receive and has lost nothing has covered the
\* targets it is done with, and looked at those it has passed since.
Alert ==
  notify /\ ~lossy /\ queue = <<>> =>
    /\ pc \in {"up", "add", "down"} => \A k \in 1..(i - 1) : Covered(k)
    /\ pc \in {"check", "select"} => \A k \in Index : Covered(k)
    /\ pc = "check" => \A k \in 1..(i - 1) : Settled(k)
    /\ pc = "select" => \A k \in Index : Settled(k)

NInv == TInv /\ Watching /\ Alert

\* A target is settled when it is as in its snapshot.
LEMMA SettledIsInitial ==
  ASSUME TInv, NEW k \in Index
  PROVE  Settled(k) <=> node[Targets[k]] = initial[k]
<1>1. /\ Targets[k] \in Path /\ initial[k] \in {"absent"} \cup Stamp
      /\ node[Targets[k]] \in {"absent", "dir"} \cup Stamp
  BY TargetTypes DEF TInv, TypeOK, Snapshot
<1> QED
  BY <1>1, StatFacts, StampAssumption DEF Settled, Differs, Complete, Regular, TInv

\* Below a directory that is missing there is no target.
LEMMA AbsentAbove ==
  ASSUME TypeOK, Tree, NEW k \in Index, NEW q \in Chain[Parent[Targets[k]]],
         q # Top, node[q] = "absent"
  PROVE  node[Targets[k]] = "absent"
<1>1. Targets[k] \in Path /\ Targets[k] \in Directory /\ Parent[Targets[k]] \in Directory
      /\ Targets[k] # Top
  BY TargetTypes, PathAssumption DEF Directory
<1>2. q \in Chain[Targets[k]]
  <2>1. Parent[Targets[k]] \in Chain[Targets[k]]
    BY <1>1, ChainMembers DEF Closed
  <2> QED
    BY <1>1, <2>1, ChainTransitive
<1> QED
  BY <1>1, <1>2, AboveExisting

\* The same, of a state and of the one after it.
LEMMA NextFacts ==
  (TInv => /\ \A k \in Index : Settled(k) <=> node[Targets[k]] = initial[k]
           /\ \A k \in Index : \A q \in Chain[Parent[Targets[k]]] \ {Top} :
                node[q] = "absent" => node[Targets[k]] = "absent")'
<1> DEFINE Facts ==
      /\ \A k \in Index : Settled(k) <=> node[Targets[k]] = initial[k]
      /\ \A k \in Index : \A q \in Chain[Parent[Targets[k]]] \ {Top} :
           node[q] = "absent" => node[Targets[k]] = "absent"
<1>1. TInv => Facts
  BY SettledIsInitial, AbsentAbove DEF TInv
<1>2. (TInv => Facts)'
  BY <1>1, PTL
<1> QED
  BY <1>2

\* Nothing is watched at the start.
LEMMA InitNInv == Init => NInv
<1> SUFFICES ASSUME Init PROVE Watching /\ Alert
  BY InitTInv DEF NInv
<1> QED
  BY DEF Init, Watching, Alert

\* What others do to a covered target is notified, or lost.
LEMMA EnvNInv ==
  ASSUME NInv, TInv', NEW p \in Path, Env(p) PROVE NInv'
<1>1. UNCHANGED <<watched, notify, exitIfExists, pc, i, dir, event, initial, result>>
  BY EnvFrame DEF NInv, TInv
<1>2. PICK P \in SUBSET Path, gone \in SUBSET Path :
        /\ gone \subseteq P /\ kernel' = kernel \ gone /\ Notify(P, gone)
        /\ \A q \in Path : q \notin P => node'[q] = node[q]
        /\ gone # {} => gone = P
  BY EnvFrame DEF NInv, TInv
<1>3. ~lossy' => ~lossy /\ kernel' = kernel
  BY <1>2 DEF Notify
<1>4. Watching'
  <2>1. ASSUME NEW d \in kernel', d # Top PROVE node'[d] = "dir"
    <3>1. d \in kernel /\ d \in Path /\ node[d] = "dir" /\ d \notin gone
      BY <1>2, <2>1 DEF NInv, Watching, TInv, TypeOK, Directory
    <3>2. CASE Make(p) \/ Write(p)
      <4>1. node[p] # "dir"
        BY <3>2, StampAssumption DEF Make, Write, Regular
      <4>2. \A q \in Path : q # p => node'[q] = node[q]
        BY <3>2 DEF Make, Write, NInv, TInv, TypeOK
      <4> QED
        BY <3>1, <4>1, <4>2
    <3>3. CASE Remove(p)
      <4> DEFINE away == {q \in Path : Within(p, q) /\ node[q] # "absent"}
      <4>1. /\ node' = [q \in Path |-> IF q \in away THEN "absent" ELSE node[q]]
            /\ kernel' = kernel \ away
        BY <3>3 DEF Remove
      <4> HIDE DEF away
      <4> QED
        BY <2>1, <3>1, <4>1
    <3> QED
      BY <3>2, <3>3 DEF Env
  <2> QED
    BY <1>1, <1>3, <2>1 DEF NInv, Watching
<1>5. ASSUME ~lossy', queue' = <<>>
      PROVE  /\ queue = <<>> /\ \A q \in P : Parent[q] \notin kernel
             /\ \A q \in Path : Parent[q] \in kernel => node'[q] = node[q]
  <2>1. queue \in Seq(Path)
    BY DEF NInv, TInv, TypeOK
  <2>2. \A q \in P : Append(queue, q) # <<>>
    BY <2>1
  <2>3. Notified(P, gone) \subseteq P
    BY <1>2 DEF Notified
  <2>4. queue = <<>> /\ Notified(P, gone) = {}
    BY <1>2, <1>5, <2>2, <2>3 DEF Notify
  <2> QED
    BY <1>2, <2>4 DEF Notified
<1>6. ASSUME ~lossy', queue' = <<>>, NEW k \in Index, Covered(k)
      PROVE  Covered(k)' /\ (Settled(k) => Settled(k)')
  <2>1. Targets[k] \in Path /\ Parent[Targets[k]] \in Directory
    BY TargetTypes
  <2>2. kernel' = kernel
    BY <1>3, <1>6
  <2>3. CASE Parent[Targets[k]] \in kernel
    <3>1. node'[Targets[k]] = node[Targets[k]]
      BY <1>5, <1>6, <2>1, <2>3
    <3>2. Settled(k) <=> node[Targets[k]] = initial[k]
      BY SettledIsInitial DEF NInv
    <3>3. Settled(k)' <=> node'[Targets[k]] = initial'[k]
      BY NextFacts
    <3> QED
      BY <1>1, <2>2, <2>3, <3>1, <3>2, <3>3 DEF Covered
  <2>4. ASSUME NEW q \in Chain[Parent[Targets[k]]], q # Top,
               Parent[q] \in kernel, node[q] = "absent"
        PROVE  Covered(k)' /\ (Settled(k) => Settled(k)')
    <3>1. q \in Path
      BY <2>1, <2>4, ChainMembers DEF Directory
    <3>2. node'[q] = "absent"
      BY <1>5, <1>6, <2>4, <3>1
    <3>3. node[Targets[k]] = "absent"
      BY <2>4, AbsentAbove DEF NInv, TInv
    <3>4. node'[Targets[k]] = "absent"
      BY <2>4, <3>2, NextFacts
    <3>5. Settled(k) => node[Targets[k]] = initial[k]
      BY SettledIsInitial DEF NInv
    <3>6. Settled(k)' <=> node'[Targets[k]] = initial'[k]
      BY NextFacts
    <3> QED
      BY <1>1, <2>2, <2>4, <3>2, <3>3, <3>4, <3>5, <3>6 DEF Covered
  <2> QED
    BY <1>6, <2>3, <2>4 DEF Covered
<1>7. Alert'
  <2> SUFFICES ASSUME notify, ~lossy', queue' = <<>>
               PROVE  /\ pc \in {"up", "add", "down"} => \A k \in 1..(i - 1) : Covered(k)'
                      /\ pc \in {"check", "select"} => \A k \in Index : Covered(k)'
                      /\ pc = "check" => \A k \in 1..(i - 1) : Settled(k)'
                      /\ pc = "select" => \A k \in Index : Settled(k)'
    BY <1>1 DEF Alert
  <2>1. ~lossy /\ queue = <<>>
    BY <1>3, <1>5
  <2>2. pc \in {"up", "add", "down", "check"} => \A k \in 1..(i - 1) : k \in Index
    BY TargetTypes DEF NInv, TInv, TypeOK
  <2> QED
    BY <1>6, <2>1, <2>2 DEF NInv, Alert
<1> QED
  BY <1>4, <1>7 DEF NInv

\* A round of the waiter covers one target after another, then looks at them.
LEMMA WaiterNInv ==
  ASSUME NInv, TInv', Waiter \/ WatcherError \/ Cancelled PROVE NInv'
<1>1. UNCHANGED <<node, lossy>> /\ (~ReceiveEvent => queue' = queue)
      /\ (~AddWatch => UNCHANGED <<watched, kernel>>) /\ (~Prepare => initial' = initial)
  BY WaiterFrame DEF fs
<1>2. Index = 1..Len(Targets) /\ Len(Targets) \in Nat /\ i \in Int
  BY TargetTypes DEF NInv, TInv, TypeOK
<1>3. ASSUME ~AddWatch, notify' => notify, pc' = "prepare" => pc = "prepare" PROVE Watching'
  BY <1>1, <1>3 DEF NInv, Watching
<1>4. ASSUME ~AddWatch, NEW k \in Index PROVE Covered(k)' <=> Covered(k)
  BY <1>1, <1>4 DEF Covered
<1>5. ASSUME ~Prepare, NEW k \in Index PROVE Settled(k)' <=> Settled(k)
  BY <1>1, <1>5 DEF Settled, Differs, Stat
<1>6. CASE Prepare \/ ReturnExisting \/ Cancelled
  <2>1. /\ pc' \notin {"up", "add", "down", "check", "select"}
        /\ notify' = notify /\ UNCHANGED <<watched, kernel>>
        /\ (pc' = "prepare" => pc = "prepare")
    BY <1>6 DEF Prepare, ReturnExisting, Cancelled, Return, Fail, watches
  <2> QED
    BY <1>1, <2>1 DEF NInv, Watching, Alert
<1>7. CASE StartWatcher
  <2>1. /\ \/ pc' = "up" /\ i' = 1
           \/ pc' = "check" /\ notify' = notify
        /\ pc = "prepare" /\ UNCHANGED <<watched, kernel>> /\ pc' # "prepare"
    BY <1>7 DEF StartWatcher
  <2> QED
    BY <1>1, <2>1 DEF NInv, Watching, Alert
<1>8. CASE FindAncestor
  <2>1. /\ pc = "up" /\ UNCHANGED <<watched, kernel, queue>> /\ pc' # "prepare"
        /\ \/ pc' \in {"up", "add"} /\ i' = i /\ notify' = notify
           \/ notify' = FALSE
    BY <1>8 DEF FindAncestor, RefreshFails, Refreshed
  <2>2. i \in Index
    BY <2>1 DEF NInv, TInv, Walking
  <2>3. \A k \in 1..(i - 1) : Covered(k)' <=> Covered(k)
    BY <1>1, <2>1 DEF Covered
  <2> QED
    BY <1>1, <2>1, <2>3 DEF NInv, Watching, Alert
<1>9. CASE AddWatch
  <2>1. /\ pc = "add" /\ UNCHANGED queue /\ pc' # "prepare"
        /\ \/ pc' = "down" /\ i' = i /\ notify' = notify
           \/ notify' = FALSE
        /\ \/ UNCHANGED <<watched, kernel>>
           \/ /\ watched' = watched \cup {dir} /\ kernel' = kernel \cup {dir}
              /\ Stat[dir] = "dir"
    BY <1>9 DEF AddWatch, RefreshFails, Refreshed
  <2>2. \A k \in 1..(i - 1) : Covered(k) => Covered(k)'
    BY <1>1, <2>1 DEF Covered
  <2>3. Stat[dir] = "dir" => dir = Top \/ node[dir] = "dir"
    BY StatFacts DEF NInv, TInv, TypeOK, Directory
  <2>4. Watching'
    BY <1>1, <2>1, <2>3 DEF NInv, Watching
  <2>5. Alert'
    BY <1>1, <2>1, <2>2 DEF NInv, Alert
  <2> QED
    BY <2>4, <2>5 DEF NInv
<1>10. CASE Descend
  <2>1. /\ pc = "down" /\ UNCHANGED <<watched, kernel, queue>> /\ i \in Index
        /\ dir \in watched /\ dir \in Directory /\ dir \in Chain[Parent[Targets[i]]]
    BY <1>10 DEF Descend, NInv, TInv, Walking, TypeOK
  <2>2. Watching'
    BY <1>1, <1>10, <2>1
       DEF NInv, Watching, Descend, NextTarget, RefreshFails, Refreshed
  <2>3. \A k \in Index : Covered(k)' <=> Covered(k)
    BY <1>1, <2>1 DEF Covered
  <2> DEFINE done == \/ dir = Parent[Targets[i]]
                     \/ /\ dir # Parent[Targets[i]]
                        /\ Stat[Below(dir)] = "absent"
  <2>4. \/ NextTarget /\ notify' = notify /\ done
        \/ pc' = "add" /\ i' = i /\ notify' = notify
        \/ notify' = FALSE
    BY <1>10 DEF Descend, RefreshFails
  <2>5. CASE NextTarget /\ notify' = notify /\ done
    <3>1. ~lossy => Covered(i)
      <4> SUFFICES ASSUME ~lossy PROVE Covered(i)
        OBVIOUS
      <4>1. dir \in kernel
        BY <2>1 DEF NInv, Watching
      <4>2. CASE dir = Parent[Targets[i]]
        BY <4>1, <4>2 DEF Covered
      <4>3. CASE dir # Parent[Targets[i]] /\ Stat[Below(dir)] = "absent"
        <5>1. /\ Below(dir) \in Path /\ Parent[Below(dir)] = dir
              /\ Below(dir) \in Chain[Parent[Targets[i]]]
          BY <2>1, <4>3, BelowType
        <5>2. node[Below(dir)] = "absent" /\ Below(dir) # Top
          BY <4>3, <5>1, StatFacts, PathAssumption DEF NInv, TInv
        <5> QED
          BY <4>1, <5>1, <5>2 DEF Covered
      <4> QED
        BY <2>5, <4>2, <4>3
    <3>2. \/ pc' = "up" /\ i' = i + 1
          \/ pc' = "check" /\ i' = 1 /\ i = Len(Targets)
      BY <1>2, <2>1, <2>5 DEF NextTarget, Refreshed
    <3>3. ASSUME notify, ~lossy, queue = <<>>, NEW k \in 1..i PROVE Covered(k)'
      <4>1. k \in Index /\ (k = i \/ k \in 1..(i - 1))
        BY <1>2, <2>1
      <4> QED
        BY <2>1, <2>3, <3>1, <3>3, <4>1 DEF NInv, Alert
    <3>4. (i + 1) - 1 = i
      BY <1>2
    <3>5. Alert'
      BY <1>1, <1>2, <2>1, <2>5, <3>2, <3>3, <3>4 DEF Alert
    <3> QED
      BY <2>2, <3>5 DEF NInv
  <2>6. CASE pc' = "add" /\ i' = i /\ notify' = notify
    <3>1. \A k \in 1..(i - 1) : k \in Index
      BY <1>2, <2>1
    <3>2. Alert'
      BY <1>1, <2>1, <2>3, <2>6, <3>1 DEF NInv, Alert
    <3> QED
      BY <2>2, <3>2 DEF NInv
  <2>7. CASE notify' = FALSE
    BY <2>2, <2>7 DEF NInv, Alert
  <2> QED
    BY <2>4, <2>5, <2>6, <2>7
<1>11. CASE Check
  <2>1. /\ pc = "check" /\ UNCHANGED <<watched, kernel, notify, queue, initial>>
        /\ i \in Index
    BY <1>11 DEF Check, NInv, TInv, Walking, watches
  <2>2. \A k \in Index : (Covered(k)' <=> Covered(k)) /\ (Settled(k)' <=> Settled(k))
    BY <1>1, <2>1 DEF Covered, Settled, Differs, Stat
  <2>3. \/ pc' \in {"failed", "returned"}
        \/ /\ Settled(i)
           /\ \/ pc' = "check" /\ i' = i + 1
              \/ pc' = "select" /\ i = Len(Targets)
    BY <1>11 DEF Check, Return, Fail, Settled, Differs
  <2>4. Watching'
    BY <1>1, <2>1, <2>3 DEF NInv, Watching
  <2>5. ASSUME notify, ~lossy, queue = <<>>, Settled(i), NEW k \in 1..i
        PROVE  Settled(k)'
    <3>1. k \in Index /\ (k = i \/ k \in 1..(i - 1))
      BY <1>2, <2>1
    <3> QED
      BY <2>1, <2>2, <2>5, <3>1 DEF NInv, Alert
  <2>6. (i + 1) - 1 = i
    BY <1>2
  <2>7. Alert'
    BY <1>1, <1>2, <2>1, <2>2, <2>3, <2>5, <2>6 DEF NInv, Alert
  <2> QED
    BY <2>4, <2>7 DEF NInv
<1>12. CASE ReceiveEvent \/ Tick
  <2>1. /\ \/ pc' = "up" /\ i' = 1
           \/ ~notify'
        /\ UNCHANGED <<watched, kernel, notify>> /\ pc' # "prepare"
    BY <1>12 DEF ReceiveEvent, Tick, Refresh, watches
  <2> QED
    BY <1>1, <2>1 DEF NInv, Watching, Alert
<1>13. CASE WatcherError
  <2>1. notify' = FALSE /\ UNCHANGED <<watched, kernel>>
    BY <1>13 DEF WatcherError
  <2> QED
    BY <1>1, <2>1 DEF NInv, Watching, Alert
<1> QED
  BY <1>6, <1>7, <1>8, <1>9, <1>10, <1>11, <1>12, <1>13 DEF Waiter

\* As long as no notification is lost and no watched directory vanishes, an
\* idle waiter never sits on a change, in whatever order the watches are added
\* and the directories appear: the polls only cover what is lost.
THEOREM NotificationsAreEnough == Spec => []NotificationsSuffice
<1>1. NInv /\ [Next]_vars => NInv'
  <2> SUFFICES ASSUME NInv, [Next]_vars PROVE NInv'
    OBVIOUS
  <2>1. TInv'
    BY NextTInv DEF NInv
  <2>2. CASE UNCHANGED vars
    BY <2>1, <2>2 DEF NInv, Watching, Alert, Covered, Settled, Differs, Stat, vars, fs, watches
  <2> QED
    BY <2>1, <2>2, WaiterNInv, EnvNInv DEF Next, Environment, Env
<1>2. NInv => NotificationsSuffice
  BY DEF NInv, Alert, NotificationsSuffice, Settled
<1> QED
  BY InitNInv, <1>1, <1>2, PTL DEF Spec
=============================================================================
