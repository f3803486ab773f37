--------------------------- MODULE SchedulerProofs ---------------------------
(***************************************************************************)
(* Theorems about Scheduler for every manifest, every limit and every      *)
(* bound on faults and commands.                                           *)
(***************************************************************************)
EXTENDS Scheduler, SequenceTheorems, FiniteSetTheorems, FunctionTheorems, WellFoundedInduction, TLAPS

(***************************************************************************)
(* The inductive invariant, as a conjunction of named parts.               *)
(***************************************************************************)
InStep(s) == {w \in running : StepOf[w] = s}

\* The limiters count s.running and stay within the limits.
Counted ==
  /\ globalUsed = Cardinality(running)
  /\ globalUsed <= Limit(GlobalNProc)
  /\ \A s \in Step : /\ stepUsed[s] = Cardinality(InStep(s))
                     /\ stepUsed[s] <= Limit(StepNProc[s])

\* Goroutines and s.running agree.
Spawned ==
  /\ \A w \in Work : proc[w] # "idle" <=> w \in running
  /\ pc \in {"returned", "stopped"} => running = {}

\* What is running is RUNNING, and what it relies on is on disk.
Recorded ==
  /\ \A w \in Work : statuses[w] = "FINISHED" => disk[w] = "FINISHED"
  /\ pc \in {"loop", "select"} =>
       \A w \in Work : statuses[w] = "RUNNING" => w \in running
  /\ \A w \in running : /\ statuses[w] = "RUNNING"
                        /\ disk[w] = "RUNNING"
                        /\ \A d \in Deps[w] : disk[d] = "FINISHED"

\* Until a write fails, memory and disk are the same.
Synced ==
  /\ pc \in {"loop", "select"} => ~failed
  /\ pc # "stopped" /\ ~failed => disk = statuses

\* The queue holds startable workpackages, each once.
Queued ==
  /\ \A i, j \in DOMAIN ready : ready[i] = ready[j] => i = j
  /\ pc \in {"loop", "select"} =>
       \A i \in DOMAIN ready :
         /\ statuses[ready[i]] \notin {"FINISHED", "RUNNING"}
         /\ \A d \in Deps[ready[i]] : statuses[d] = "FINISHED"

\* depsLeft counts the dependencies that have not finished.
Counting ==
  pc \in {"loop", "select"} =>
    \A w \in Work :
      statuses[w] # "FINISHED" => depsLeft[w] = Unfinished(statuses, w)

IInv ==
  TypeOK /\ Counted /\ Spawned /\ Recorded /\ Synced /\ Queued /\ Counting


-----------------------------------------------------------------------------
(***************************************************************************)
(* Facts about the operators.                                              *)
(***************************************************************************)

\* There are finitely many workpackages.
LEMMA WorkFinite == IsFiniteSet(Work)
  BY CountAssumption, FS_Interval DEF Work

\* Taking an element out of the queue closes the gap.
LEMMA RemoveAtProperties ==
  ASSUME NEW S, NEW q \in Seq(S), NEW i \in 1..Len(q)
  PROVE  /\ RemoveAt(q, i) \in Seq(S)
         /\ Len(RemoveAt(q, i)) = Len(q) - 1
         /\ \A j \in 1..(Len(q) - 1) :
              RemoveAt(q, i)[j] = IF j < i THEN q[j] ELSE q[j + 1]
<1> DEFINE front == SubSeq(q, 1, i - 1)
           back == SubSeq(q, i + 1, Len(q))
<1>1. Len(q) \in Nat /\ \A j \in 1..Len(q) : q[j] \in S
  BY LenProperties, ElementOfSeq
<1>2. /\ front \in Seq(S)
      /\ Len(front) = i - 1
      /\ \A j \in 1..(i - 1) : front[j] = q[j]
  <2>1. \A j \in 1..(i - 1) : q[j] \in S
    BY <1>1
  <2> QED
    BY <1>1, <2>1, SubSeqProperties
<1>3. /\ back \in Seq(S)
      /\ Len(back) = Len(q) - i
      /\ \A j \in 1..(Len(q) - i) : back[j] = q[i + j]
  <2>1. \A j \in (i + 1)..Len(q) : q[j] \in S
    BY <1>1
  <2>2. /\ back \in Seq(S)
        /\ Len(back) = IF i + 1 <= Len(q) THEN Len(q) - (i + 1) + 1 ELSE 0
        /\ \A j \in 1..(Len(q) - (i + 1) + 1) : back[j] = q[(i + 1) + j - 1]
    BY <1>1, <2>1, SubSeqProperties
  <2> HIDE DEF back
  <2> QED
    BY <1>1, <2>2
<1>4. RemoveAt(q, i) = front \o back
  BY DEF RemoveAt
<1> HIDE DEF front, back
<1>5. /\ front \o back \in Seq(S)
      /\ Len(front \o back) = Len(front) + Len(back)
      /\ \A j \in 1..(Len(front) + Len(back)) :
           (front \o back)[j] =
             IF j <= Len(front) THEN front[j] ELSE back[j - Len(front)]
  BY <1>2, <1>3, ConcatProperties
<1> DEFINE rest == front \o back
<1>6. rest = RemoveAt(q, i)
  BY <1>4
<1>7. /\ rest \in Seq(S)
      /\ Len(rest) = Len(q) - 1
      /\ \A j \in 1..(Len(q) - 1) :
           rest[j] = IF j <= i - 1 THEN front[j] ELSE back[j - (i - 1)]
  <2> HIDE DEF rest
  <2> QED
    BY <1>1, <1>2, <1>3, <1>5 DEF rest
<1> HIDE DEF rest
<1>8. ASSUME NEW j \in 1..(Len(q) - 1)
      PROVE  rest[j] = IF j < i THEN q[j] ELSE q[j + 1]
  <2>1. CASE j < i
    BY <1>1, <1>2, <1>7, <2>1
  <2>2. CASE ~(j < i)
    <3>1. j - (i - 1) \in 1..(Len(q) - i) /\ i + (j - (i - 1)) = j + 1
      BY <1>1, <2>2
    <3>2. rest[j] = back[j - (i - 1)]
      BY <1>1, <1>7, <2>2
    <3> QED
      BY <1>3, <2>2, <3>1, <3>2
  <2> QED
    BY <2>1, <2>2
<1> QED
  BY <1>6, <1>7, <1>8

\* The queue of a set in manifest order lists members of the set, each once.
LEMMA ManifestOrderProperties ==
  ASSUME NEW S \in SUBSET Work, NEW q \in ManifestOrder(S)
  PROVE  /\ q \in Seq(Work)
         /\ \A i \in 1..Len(q) : q[i] \in S
         /\ \A i, j \in 1..Len(q) : q[i] = q[j] => i = j
<1>1. IsFiniteSet(S) /\ Cardinality(S) \in Nat
  BY WorkFinite, FS_Subset, FS_CardinalityType
<1>2. q \in [1..Cardinality(S) -> S]
  BY DEF ManifestOrder
<1>3. q \in [1..Cardinality(S) -> Work]
  BY <1>2
<1>4. q \in Seq(Work) /\ Len(q) = Cardinality(S)
  BY <1>1, <1>3, IsASeq, LenProperties
<1>5. \A i, j \in 1..Len(q) : i < j => q[i] < q[j]
  BY <1>2, <1>4 DEF ManifestOrder
<1>6. \A i \in 1..Len(q) : q[i] \in S
  BY <1>2, <1>4
<1>7. \A i \in 1..Len(q) : q[i] \in Int
  <2>1. Work \subseteq Int
    BY CountAssumption DEF Work
  <2> QED
    BY <1>6, <2>1
<1>8. ASSUME NEW i \in 1..Len(q), NEW j \in 1..Len(q), q[i] = q[j]
      PROVE  i = j
  <2>1. ~(i < j) /\ ~(j < i)
    BY <1>5, <1>7, <1>8
  <2> QED
    BY <1>1, <1>4, <2>1
<1> QED
  BY <1>4, <1>6, <1>8

\* Appending a queue whose members are new keeps a queue free of duplicates.
LEMMA AppendDistinct ==
  ASSUME NEW S, NEW p \in Seq(S), NEW q \in Seq(S),
         \A i, j \in 1..Len(p) : p[i] = p[j] => i = j,
         \A i, j \in 1..Len(q) : q[i] = q[j] => i = j,
         \A i \in 1..Len(p), j \in 1..Len(q) : p[i] # q[j]
  PROVE  /\ p \o q \in Seq(S)
         /\ \A i, j \in 1..Len(p \o q) : (p \o q)[i] = (p \o q)[j] => i = j
         /\ \A k \in 1..Len(p \o q) :
              \/ \E i \in 1..Len(p) : (p \o q)[k] = p[i]
              \/ \E j \in 1..Len(q) : (p \o q)[k] = q[j]
<1> DEFINE r == p \o q
<1>1. /\ r \in Seq(S)
      /\ Len(r) = Len(p) + Len(q)
      /\ \A k \in 1..(Len(p) + Len(q)) :
           r[k] = IF k <= Len(p) THEN p[k] ELSE q[k - Len(p)]
  BY ConcatProperties
<1>2. Len(p) \in Nat /\ Len(q) \in Nat
  BY LenProperties
<1> HIDE DEF r
<1>3. ASSUME NEW k \in 1..Len(r)
      PROVE  \/ k \in 1..Len(p) /\ r[k] = p[k]
             \/ k - Len(p) \in 1..Len(q) /\ r[k] = q[k - Len(p)]
  BY <1>1, <1>2
<1>4. ASSUME NEW i \in 1..Len(r), NEW j \in 1..Len(r), r[i] = r[j]
      PROVE  i = j
  <2>1. i \in Int /\ j \in Int
    BY <1>1, <1>2
  <2>2. CASE i \in 1..Len(p) /\ j \in 1..Len(p) /\ r[i] = p[i] /\ r[j] = p[j]
    BY <1>4, <2>2
  <2>3. CASE /\ i - Len(p) \in 1..Len(q) /\ r[i] = q[i - Len(p)]
             /\ j - Len(p) \in 1..Len(q) /\ r[j] = q[j - Len(p)]
    <3>1. i - Len(p) = j - Len(p)
      BY <1>4, <2>3
    <3> QED
      BY <1>2, <2>1, <3>1
  <2>4. CASE /\ i \in 1..Len(p) /\ r[i] = p[i]
             /\ j - Len(p) \in 1..Len(q) /\ r[j] = q[j - Len(p)]
    BY <1>4, <2>4
  <2>5. CASE /\ j \in 1..Len(p) /\ r[j] = p[j]
             /\ i - Len(p) \in 1..Len(q) /\ r[i] = q[i - Len(p)]
    BY <1>4, <2>5
  <2> QED
    BY <1>3, <2>2, <2>3, <2>4, <2>5
<1> QED
  BY <1>1, <1>3, <1>4 DEF r

\* A limiter lets at least one workpackage through.
LEMMA LimitPositive == \A n \in Int : Limit(n) \in Nat /\ Limit(n) >= 1
  BY DEF Limit

\* Which dependencies are unfinished depends only on what is FINISHED.
LEMMA UnfinishedZero ==
  ASSUME NEW d, NEW w \in Work, Unfinished(d, w) = 0
  PROVE  \A x \in Deps[w] : d[x] = "FINISHED"
<1>1. IsFiniteSet({x \in Deps[w] : d[x] # "FINISHED"})
  BY WorkFinite, DepsAssumption, FS_Subset
<1>2. {x \in Deps[w] : d[x] # "FINISHED"} = {}
  BY <1>1, FS_EmptySet DEF Unfinished
<1> QED
  BY <1>2

LEMMA UnfinishedType ==
  ASSUME NEW d, NEW w \in Work
  PROVE  Unfinished(d, w) \in Nat
  BY WorkFinite, DepsAssumption, FS_Subset, FS_CardinalityType DEF Unfinished

-----------------------------------------------------------------------------
(***************************************************************************)
(* The invariant holds initially and every action preserves it.            *)
(***************************************************************************)

LEMMA StepAssumed == /\ StepOf \in [Work -> Step]
                     /\ \A s \in Step : Limit(StepNProc[s]) \in Nat
                     /\ Limit(GlobalNProc) \in Nat
  BY StepAssumption, LimitPositive

LEMMA InitInv == Init => IInv
<1> SUFFICES ASSUME Init PROVE IInv
  OBVIOUS
<1> USE DEF Init
<1>1. TypeOK
  <2>1. ready \in Seq(Work)
    BY EmptySeq
  <2>2. faults \in 0..MaxFaults /\ runs \in 0..MaxRuns
    BY BoundAssumption
  <2>3. stepUsed \in [Step -> Nat] /\ depsLeft \in [Work -> Nat]
    OBVIOUS
  <2> QED
    BY <2>1, <2>2, <2>3 DEF TypeOK, Status
<1>2. Counted
  <2>1. \A s \in Step : InStep(s) = {} /\ stepUsed[s] = 0
    BY DEF InStep
  <2>2. Cardinality({}) = 0
    BY FS_EmptySet
  <2>3. Cardinality(running) = 0 /\ globalUsed = 0
    BY <2>2
  <2>4. 0 <= Limit(GlobalNProc) /\ \A s \in Step : 0 <= Limit(StepNProc[s])
    BY StepAssumed
  <2>5. \A s \in Step : stepUsed[s] = Cardinality(InStep(s))
    BY <2>1, <2>2
  <2> HIDE DEF Init
  <2> QED
    BY <2>1, <2>3, <2>4, <2>5 DEF Counted
<1>3. Spawned /\ Recorded /\ Synced /\ Counting
  BY DEF Spawned, Recorded, Synced, Counting
<1>4. Queued
  BY DEF Queued
<1> QED
  BY <1>1, <1>2, <1>3, <1>4 DEF IInv

\* Every variable but those of runProcess is unchanged: only Spawned has to
\* be looked at.
LEMMA ProcessStepInv ==
  ASSUME IInv, NEW w \in Work, ProcessStep(w) PROVE IInv'
<1> USE DEF IInv
<1>1. /\ proc[w] \in Alive
      /\ \E to \in Alive \cup Exited : proc' = [proc EXCEPT ![w] = to]
      /\ Rest
  BY DEF ProcessStep, Exit, Terminate, GraceExpires, ExitTerminated, ExitKilled,
         Signal, Rest, Alive, Exited
<1>2. UNCHANGED <<root, disk, statuses, depsLeft, ready, running, globalUsed,
                  stepUsed, cancelled, failed, pc, result, faults, runs>>
  BY <1>1 DEF Rest, maps, control
<1>3. TypeOK'
  BY <1>1, <1>2 DEF TypeOK
<1>4. Counted'
  BY <1>2 DEF Counted, InStep
<1>5. Spawned'
  BY <1>1, <1>2 DEF Spawned, TypeOK, Alive, Exited
<1>6. Recorded' /\ Synced' /\ Queued' /\ Counting'
  BY <1>2 DEF Recorded, Synced, Queued, Counting
<1> QED
  BY <1>3, <1>4, <1>5, <1>6

\* Acquiring both limiters for a workpackage that is not running.
LEMMA AcquireCounted ==
  ASSUME TypeOK, Counted, NEW w \in Work, w \notin running, CanStart(w),
         running' = running \cup {w},
         globalUsed' = globalUsed + 1,
         stepUsed' = [stepUsed EXCEPT ![StepOf[w]] = @ + 1]
  PROVE  Counted'
<1>1. IsFiniteSet(running)
  BY WorkFinite, FS_Subset DEF TypeOK
<1>2. globalUsed' = Cardinality(running')
  BY <1>1, FS_AddElement DEF Counted
<1>3. globalUsed' <= Limit(GlobalNProc)
  BY StepAssumed DEF CanStart, TypeOK
<1>4. ASSUME NEW s \in Step
      PROVE  /\ stepUsed'[s] = Cardinality(InStep(s)')
             /\ stepUsed'[s] <= Limit(StepNProc[s])
  <2>1. IsFiniteSet(InStep(s))
    BY <1>1, FS_Subset DEF InStep
  <2>2. CASE s = StepOf[w]
    <3>1. InStep(s)' = InStep(s) \cup {w} /\ w \notin InStep(s)
      BY <2>2 DEF InStep
    <3>2. Cardinality(InStep(s)') = Cardinality(InStep(s)) + 1
      BY <2>1, <3>1, FS_AddElement
    <3>3. stepUsed'[s] = stepUsed[s] + 1
      BY <2>2 DEF TypeOK
    <3> QED
      BY <2>2, <3>2, <3>3, StepAssumed DEF Counted, CanStart, TypeOK
  <2>3. CASE s # StepOf[w]
    <3>1. InStep(s)' = InStep(s)
      BY <2>3 DEF InStep
    <3>2. stepUsed'[s] = stepUsed[s]
      BY <2>3 DEF TypeOK
    <3> QED
      BY <3>1, <3>2 DEF Counted
  <2> QED
    BY <2>2, <2>3
<1> QED
  BY <1>2, <1>3, <1>4 DEF Counted

\* Releasing them when a result is received.
LEMMA ReceivedCounted ==
  ASSUME TypeOK, Counted, NEW w \in Work, Received(w)
  PROVE  Counted'
<1>1. IsFiniteSet(running) /\ w \in running /\ running' = running \ {w}
  BY WorkFinite, FS_Subset DEF TypeOK, Received
<1>2. Cardinality(running') = Cardinality(running) - 1 /\ Cardinality(running') \in Nat
  BY <1>1, FS_RemoveElement, FS_CardinalityType
<1>3. globalUsed' = Cardinality(running') /\ globalUsed' <= Limit(GlobalNProc)
  BY <1>2, StepAssumed DEF Counted, Received, Release, TypeOK
<1>4. ASSUME NEW s \in Step
      PROVE  /\ stepUsed'[s] = Cardinality(InStep(s)')
             /\ stepUsed'[s] <= Limit(StepNProc[s])
  <2>1. IsFiniteSet(InStep(s))
    BY <1>1, FS_Subset DEF InStep
  <2>2. CASE s = StepOf[w]
    <3>1. InStep(s)' = InStep(s) \ {w} /\ w \in InStep(s)
      BY <1>1, <2>2 DEF InStep
    <3>2. /\ Cardinality(InStep(s)') = Cardinality(InStep(s)) - 1
          /\ Cardinality(InStep(s)') \in Nat
      BY <2>1, <3>1, FS_RemoveElement, FS_CardinalityType
    <3>3. stepUsed'[s] = IF stepUsed[s] > 0 THEN stepUsed[s] - 1 ELSE 0
      BY <2>2 DEF Received, Release, TypeOK
    <3> QED
      BY <3>2, <3>3, StepAssumed DEF Counted, TypeOK
  <2>3. CASE s # StepOf[w]
    <3>1. InStep(s)' = InStep(s)
      BY <1>1, <2>3 DEF InStep
    <3>2. stepUsed'[s] = stepUsed[s]
      BY <2>3 DEF Received, Release, TypeOK
    <3> QED
      BY <3>1, <3>2 DEF Counted
  <2> QED
    BY <2>2, <2>3
<1> QED
  BY <1>3, <1>4 DEF Counted

\* What every receipt of a result does to the types.
LEMMA ReceivedType ==
  ASSUME TypeOK, NEW w \in Work, Received(w)
  PROVE  /\ proc' \in [Work -> {"idle"} \cup Alive \cup Exited]
         /\ running' \in SUBSET Work
         /\ globalUsed' \in Nat
         /\ stepUsed' \in [Step -> Nat]
<1>1. proc' \in [Work -> {"idle"} \cup Alive \cup Exited] /\ running' \in SUBSET Work
  BY DEF TypeOK, Received
<1>2. globalUsed' \in Nat
  BY DEF TypeOK, Received, Release
<1>3. stepUsed' \in [Step -> Nat]
  <2>1. StepOf[w] \in Step
    BY StepAssumed
  <2>2. (IF stepUsed[StepOf[w]] > 0 THEN stepUsed[StepOf[w]] - 1 ELSE 0) \in Nat
    BY <2>1 DEF TypeOK
  <2> QED
    BY <2>1, <2>2 DEF TypeOK, Received, Release
<1> QED
  BY <1>1, <1>2, <1>3

LEMMA ReceivedSpawned ==
  ASSUME TypeOK, Spawned, NEW w \in Work, Received(w),
         pc \in {"select", "drain"}, pc' \in {"loop", "select", "drain"}
  PROVE  Spawned'
<1>1. ASSUME NEW v \in Work PROVE proc'[v] # "idle" <=> v \in running'
  BY DEF TypeOK, Spawned, Received
<1> QED
  BY <1>1 DEF Spawned

\* Starting the i-th of the queue.
LEMMA DequeueQueued ==
  ASSUME TypeOK, Queued, NEW i \in DOMAIN ready, ready' = RemoveAt(ready, i)
  PROVE  /\ ready' \in Seq(Work)
         /\ \A j, k \in DOMAIN ready' : ready'[j] = ready'[k] => j = k
         /\ \A j \in DOMAIN ready' :
              /\ ready'[j] # ready[i]
              /\ \E k \in DOMAIN ready : ready'[j] = ready[k]
<1>1. /\ ready \in Seq(Work)
      /\ DOMAIN ready = 1..Len(ready)
      /\ Len(ready) \in Nat
  BY LenProperties DEF TypeOK
<1>2. /\ ready' \in Seq(Work)
      /\ Len(ready') = Len(ready) - 1
      /\ \A j \in 1..(Len(ready) - 1) :
           ready'[j] = IF j < i THEN ready[j] ELSE ready[j + 1]
  BY <1>1, RemoveAtProperties
<1>3. DOMAIN ready' = 1..(Len(ready) - 1)
  BY <1>2, LenProperties
<1>4. \A j, k \in 1..Len(ready) : ready[j] = ready[k] => j = k
  BY <1>1 DEF Queued
<1>5. \A j, k \in 1..(Len(ready) - 1) : ready'[j] = ready'[k] => j = k
  BY <1>1, <1>2, <1>4
<1>6. ASSUME NEW j \in 1..(Len(ready) - 1)
      PROVE  ready'[j] # ready[i] /\ \E k \in 1..Len(ready) : ready'[j] = ready[k]
  <2>1. CASE j < i
    BY <1>1, <1>2, <1>4, <2>1
  <2>2. CASE ~(j < i)
    <3>1. j + 1 \in 1..Len(ready) /\ j + 1 # i
      BY <1>1, <2>2
    <3> QED
      BY <1>1, <1>2, <1>4, <2>2, <3>1
  <2> QED
    BY <2>1, <2>2
<1> QED
  BY <1>1, <1>2, <1>3, <1>5, <1>6

LEMMA StartInv == IInv /\ Start => IInv'
<1> SUFFICES ASSUME IInv, Start PROVE IInv'
  OBVIOUS
<1> USE DEF IInv
<1>1. PICK i \in DOMAIN ready :
        /\ FirstStartable(i)
        /\ ready' = RemoveAt(ready, i)
        /\ globalUsed' = globalUsed + 1
        /\ stepUsed' = [stepUsed EXCEPT ![StepOf[ready[i]]] = @ + 1]
        /\ disk' = WriteStatus(ready[i], "RUNNING", "ok")
        /\ running' = running \cup {ready[i]}
        /\ statuses' = [statuses EXCEPT ![ready[i]] = "RUNNING"]
        /\ proc' = [proc EXCEPT ![ready[i]] = "running"]
  BY DEF Start
<1> DEFINE w == ready[i]
<1>2. /\ pc = "loop" /\ ~failed /\ disk = statuses
      /\ UNCHANGED <<root, depsLeft, cancelled, failed, pc, result, faults, runs>>
  BY DEF Start, Synced, control
<1>3. w \in Work
  BY ElementOfSeq, LenProperties DEF TypeOK
<1>4. /\ statuses[w] \notin {"FINISHED", "RUNNING"}
      /\ \A d \in Deps[w] : statuses[d] = "FINISHED"
  BY <1>2 DEF Queued
<1>5. w \notin running
  BY <1>4 DEF Recorded
<1> HIDE DEF w
<1>6. /\ disk' = [disk EXCEPT ![w] = "RUNNING"]
      /\ statuses' = [statuses EXCEPT ![w] = "RUNNING"]
      /\ disk' = statuses'
  BY <1>1, <1>2 DEF WriteStatus, w
<1>7. /\ ready' \in Seq(Work)
      /\ \A j, k \in DOMAIN ready' : ready'[j] = ready'[k] => j = k
      /\ \A j \in DOMAIN ready' :
           ready'[j] # w /\ \E k \in DOMAIN ready : ready'[j] = ready[k]
  <2>1. ready' = RemoveAt(ready, i)
    BY <1>1
  <2> QED
    BY <2>1, DequeueQueued DEF w
<1>8. Counted'
  <2>1. CanStart(w)
    BY <1>1 DEF FirstStartable, w
  <2> QED
    BY <1>1, <1>3, <1>5, <2>1, AcquireCounted DEF w
<1>9. TypeOK'
  <2>1. stepUsed' \in [Step -> Nat] /\ globalUsed' \in Nat
    <3>1. StepOf[w] \in Step /\ stepUsed[StepOf[w]] + 1 \in Nat
      <4>1. StepOf[w] \in Step
        BY <1>3, StepAssumed
      <4>2. stepUsed \in [Step -> Nat]
        BY DEF TypeOK
      <4> QED
        BY <4>1, <4>2
    <3> QED
      BY <1>1, <3>1 DEF TypeOK, w
  <2>2. /\ disk' \in [Work -> Status] /\ statuses' \in [Work -> Status]
        /\ running' \in SUBSET Work
    BY <1>1, <1>3, <1>6 DEF TypeOK, Status, w
  <2>3. proc' \in [Work -> {"idle"} \cup Alive \cup Exited]
    BY <1>1, <1>3 DEF TypeOK, Alive, w
  <2> QED
    BY <1>2, <1>7, <2>1, <2>2, <2>3 DEF TypeOK
<1>10. Spawned'
  <2>1. ASSUME NEW v \in Work PROVE proc'[v] # "idle" <=> v \in running'
    BY <1>1, <1>3 DEF TypeOK, Spawned, w
  <2> QED
    BY <1>2, <2>1 DEF Spawned
<1>11. Recorded'
  <2>1. \A v \in Work : statuses'[v] = "FINISHED" => disk'[v] = "FINISHED"
    BY <1>6
  <2>2. ASSUME NEW v \in running'
        PROVE  /\ statuses'[v] = "RUNNING" /\ disk'[v] = "RUNNING"
               /\ \A d \in Deps[v] : disk'[d] = "FINISHED"
    <3>1. v \in Work /\ (v = w \/ v \in running)
      BY <1>1, <1>3 DEF TypeOK, w
    <3>2. statuses'[v] = "RUNNING" /\ disk'[v] = "RUNNING"
      BY <1>3, <1>6, <3>1 DEF Recorded, TypeOK
    <3>3. ASSUME NEW d \in Deps[v] PROVE disk'[d] = "FINISHED"
      <4>1. d \in Work /\ disk[d] = "FINISHED"
        BY <1>2, <1>4, <3>1, DepsAssumption DEF Recorded
      <4> QED
        BY <1>2, <1>4, <1>6, <4>1 DEF TypeOK
    <3> QED
      BY <3>2, <3>3
  <2>3. \A v \in Work : statuses'[v] = "RUNNING" => v \in running'
    BY <1>1, <1>2, <1>6 DEF Recorded, TypeOK, w
  <2> QED
    BY <2>1, <2>2, <2>3 DEF Recorded
<1>12. Synced'
  BY <1>2, <1>6 DEF Synced
<1>13. Queued'
  <2>1. ASSUME NEW j \in DOMAIN ready'
        PROVE  /\ statuses'[ready'[j]] \notin {"FINISHED", "RUNNING"}
               /\ \A d \in Deps[ready'[j]] : statuses'[d] = "FINISHED"
    <3>1. PICK k \in DOMAIN ready : ready'[j] = ready[k]
      BY <1>7
    <3>2. /\ ready[k] \in Work /\ ready[k] # w
          /\ statuses[ready[k]] \notin {"FINISHED", "RUNNING"}
          /\ \A d \in Deps[ready[k]] : statuses[d] = "FINISHED"
      BY <1>2, <1>7, <3>1, ElementOfSeq, LenProperties DEF Queued, TypeOK
    <3>3. \A d \in Deps[ready[k]] : d \in Work /\ d # w
      BY <1>4, <3>2, DepsAssumption
    <3> QED
      BY <1>6, <3>1, <3>2, <3>3 DEF TypeOK
  <2> QED
    BY <1>7, <2>1 DEF Queued
<1>14. Counting'
  <2>1. ASSUME NEW v \in Work, statuses'[v] # "FINISHED"
        PROVE  depsLeft'[v] = Unfinished(statuses', v)
    <3>1. {x \in Deps[v] : statuses'[x] # "FINISHED"} =
            {x \in Deps[v] : statuses[x] # "FINISHED"}
      BY <1>3, <1>4, <1>6, DepsAssumption DEF TypeOK
    <3>2. statuses[v] # "FINISHED"
      BY <1>4, <1>6, <2>1 DEF TypeOK
    <3> QED
      BY <1>2, <3>1, <3>2 DEF Counting, Unfinished
  <2> QED
    BY <2>1 DEF Counting
<1> QED
  BY <1>8, <1>9, <1>10, <1>11, <1>12, <1>13, <1>14

\* A failed start touches one workpackage that is not running and leaves the
\* loop, so only what holds while draining is left to show.
LEMMA StartFailsInv == IInv /\ StartFails => IInv'
<1> SUFFICES ASSUME IInv, StartFails PROVE IInv'
  OBVIOUS
<1> USE DEF IInv
<1>1. PICK i \in DOMAIN ready, o \in {"lost", "landed"} :
        /\ ready' = RemoveAt(ready, i)
        /\ disk' = WriteStatus(ready[i], "RUNNING", o)
        /\ statuses' = [statuses EXCEPT ![ready[i]] = "ERROR"]
  BY DEF StartFails
<1> DEFINE w == ready[i]
<1>2. /\ pc = "loop" /\ pc' = "drain" /\ cancelled' = TRUE /\ failed' = TRUE
      /\ UNCHANGED <<root, depsLeft, running, globalUsed, stepUsed, proc, result,
                     runs>>
      /\ faults' \in 0..MaxFaults
  BY BoundAssumption DEF StartFails, CountFaults, TypeOK
<1>3. w \in Work /\ statuses[w] \notin {"FINISHED", "RUNNING"}
  BY <1>2, ElementOfSeq, LenProperties DEF TypeOK, Queued
<1>4. w \notin running
  BY <1>3 DEF Recorded
<1>5. \A v \in Work : v # w => disk'[v] = disk[v] /\ statuses'[v] = statuses[v]
  BY <1>1, <1>3 DEF WriteStatus, TypeOK
<1>6. statuses'[w] = "ERROR" /\ disk[w] # "FINISHED"
  BY <1>1, <1>2, <1>3 DEF TypeOK, Synced
<1>7. TypeOK'
  <2>1. disk' \in [Work -> Status] /\ statuses' \in [Work -> Status]
    BY <1>1, <1>3 DEF WriteStatus, TypeOK, Status
  <2>2. ready' \in Seq(Work)
    BY <1>1, DequeueQueued
  <2> QED
    BY <1>2, <2>1, <2>2 DEF TypeOK
<1>8. Counted' /\ Spawned'
  BY <1>2 DEF Counted, InStep, Spawned
<1>9. Recorded'
  BY <1>2, <1>3, <1>4, <1>5, <1>6, DepsAssumption DEF Recorded, TypeOK
<1>10. Synced' /\ Counting'
  BY <1>2 DEF Synced, Counting
<1>11. Queued'
  BY <1>1, <1>2, DequeueQueued DEF Queued
<1> QED
  BY <1>7, <1>8, <1>9, <1>10, <1>11

\* The steps that only move the control of the command.
LEMMA ControlInv ==
  ASSUME IInv,
         RunCompletes \/ RunCancelled \/ RunWaits \/ DrainEnds \/ Cancel \/ Close
         \/ MarkRootFinalFails
  PROVE  IInv'
<1> USE DEF IInv
<1>1. UNCHANGED <<disk, statuses, depsLeft, ready, running, globalUsed, stepUsed,
                  proc, failed, runs>>
  BY DEF RunCompletes, RunCancelled, RunWaits, DrainEnds, Cancel, Close,
         MarkRootFinalFails, maps
<1>2. root' \in Status
  BY DEF RunCompletes, RunCancelled, RunWaits, DrainEnds, Cancel, Close,
         MarkRootFinalFails, maps, Final, Status, TypeOK
<1>3. /\ pc' \in {"stopped", "loop", "select", "drain", "returned"}
      /\ pc' \in {"loop", "select"} => pc \in {"loop", "select"}
      /\ pc' \in {"returned", "stopped"} => running = {}
      /\ pc' # "stopped" => pc # "stopped"
  BY DEF RunCompletes, RunCancelled, RunWaits, DrainEnds, Cancel, Close,
         MarkRootFinalFails, Return, AllTerminal, TypeOK, Spawned
<1>4. /\ result' \in Status \cup {"none"} /\ cancelled' \in BOOLEAN
      /\ pc' = "returned" => result' # "none"
  BY DEF RunCompletes, RunCancelled, RunWaits, DrainEnds, Cancel, Close,
         MarkRootFinalFails, Return, FinalStatus, TypeOK, Status
<1>5. faults' \in 0..MaxFaults
  BY BoundAssumption
  DEF RunCompletes, RunCancelled, RunWaits, DrainEnds, Cancel, Close,
      MarkRootFinalFails, CountFaults, TypeOK
<1>6. TypeOK'
  BY <1>1, <1>2, <1>3, <1>4, <1>5 DEF TypeOK
<1>7. Counted' /\ Recorded'
  BY <1>1, <1>3 DEF Counted, InStep, Recorded
<1>8. Spawned' /\ Synced' /\ Queued' /\ Counting'
  BY <1>1, <1>3 DEF Spawned, Synced, Queued, Counting
<1> QED
  BY <1>6, <1>7, <1>8

\* Opening a run starts from what is on disk, with nothing running.
LEMMA OpenInv == IInv /\ Open => IInv'
<1> SUFFICES ASSUME IInv, Open PROVE IInv'
  OBVIOUS
<1> USE DEF IInv
<1>1. /\ pc = "stopped" /\ pc' = "loop" /\ failed' = FALSE /\ cancelled' = FALSE
      /\ running = {} /\ running' = {} /\ globalUsed' = 0
      /\ stepUsed' = [s \in Step |-> 0] /\ root' = "RUNNING" /\ result' = "none"
      /\ UNCHANGED <<proc, faults>>
      /\ runs' \in 0..MaxRuns
  BY BoundAssumption DEF Open, Command, Spawned, TypeOK
<1>2. disk' = Normalized(disk) /\ statuses' = disk' /\ disk' \in [Work -> Status]
  BY DEF Open, Normalized, TypeOK, Status
<1>3. /\ ready' \in ManifestOrder(InitialReady(statuses'))
      /\ InitialReady(statuses') \in SUBSET Work
      /\ depsLeft' = [w \in Work |-> Unfinished(statuses', w)]
  BY <1>2 DEF Open, InitialReady
<1>4. /\ ready' \in Seq(Work)
      /\ DOMAIN ready' = 1..Len(ready')
      /\ \A i \in DOMAIN ready' : ready'[i] \in InitialReady(statuses')
      /\ \A i, j \in DOMAIN ready' : ready'[i] = ready'[j] => i = j
  BY <1>3, ManifestOrderProperties, LenProperties
<1>5. TypeOK'
  <2>1. depsLeft' \in [Work -> Nat]
    BY <1>3, UnfinishedType
  <2> QED
    BY <1>1, <1>2, <1>4, <2>1 DEF TypeOK, Status
<1>6. Counted'
  <2>1. \A s \in Step : InStep(s)' = {} /\ stepUsed'[s] = 0
    BY <1>1 DEF InStep
  <2>2. Cardinality({}) = 0
    BY FS_EmptySet
  <2>3. 0 <= Limit(GlobalNProc) /\ \A s \in Step : 0 <= Limit(StepNProc[s])
    BY StepAssumed
  <2>4. \A s \in Step : stepUsed'[s] = Cardinality(InStep(s)')
    BY <2>1, <2>2
  <2> QED
    BY <1>1, <2>1, <2>2, <2>3, <2>4 DEF Counted
<1>7. Spawned' /\ Recorded' /\ Synced'
  <2>1. \A w \in Work : statuses'[w] # "RUNNING"
    BY <1>2 DEF Normalized
  <2> QED
    BY <1>1, <1>2, <2>1 DEF Spawned, Recorded, Synced
<1>8. Queued'
  <2>1. ASSUME NEW i \in DOMAIN ready'
        PROVE  /\ statuses'[ready'[i]] \notin {"FINISHED", "RUNNING"}
               /\ \A d \in Deps[ready'[i]] : statuses'[d] = "FINISHED"
    <3>1. /\ ready'[i] \in Work
          /\ statuses'[ready'[i]] \notin {"FINISHED", "RUNNING"}
          /\ Unfinished(statuses', ready'[i]) = 0
      BY <1>4 DEF InitialReady
    <3> QED
      BY <3>1, UnfinishedZero
  <2> QED
    BY <1>4, <2>1 DEF Queued
<1>9. Counting'
  BY <1>3 DEF Counting
<1> QED
  BY <1>5, <1>6, <1>7, <1>8, <1>9

\* Opening a run fails: the command has done no more than normalize.
LEMMA OpenFailsInv ==
  ASSUME IInv, NormalizeFails \/ MarkRootRunningFails \/ LoadStatusesFails
  PROVE  IInv'
<1> USE DEF IInv
<1>1. /\ pc = "stopped" /\ running = {}
      /\ UNCHANGED <<statuses, depsLeft, ready, running, globalUsed, stepUsed, proc>>
      /\ runs' \in 0..MaxRuns /\ faults' \in 0..MaxFaults
  BY BoundAssumption
  DEF NormalizeFails, MarkRootRunningFails, LoadStatusesFails, Command, CountFaults,
      Spawned, TypeOK, maps
<1>1a. /\ pc' \in {"stopped", "returned"}
       /\ pc' = "returned" => failed' = TRUE /\ result' = "ERROR"
       /\ failed' \in BOOLEAN /\ cancelled' \in BOOLEAN
       /\ result' \in Status \cup {"none"}
       /\ root' \in Status
  <2>1. CASE NormalizeFails
    BY <1>1, <2>1 DEF NormalizeFails, TypeOK, control
  <2>2. CASE MarkRootRunningFails
    BY <1>1, <2>2 DEF MarkRootRunningFails, TypeOK, control, Status
  <2>3. CASE LoadStatusesFails
    BY <2>3 DEF LoadStatusesFails, Status
  <2> QED
    BY <2>1, <2>2, <2>3
<1>2. /\ disk' \in [Work -> Status]
      /\ \A w \in Work : disk[w] = "FINISHED" => disk'[w] = "FINISHED"
  BY DEF NormalizeFails, MarkRootRunningFails, LoadStatusesFails, Normalized, TypeOK,
         Status
<1>3. TypeOK'
  BY <1>1, <1>1a, <1>2 DEF TypeOK
<1>4. Counted' /\ Spawned' /\ Synced' /\ Queued' /\ Counting'
  BY <1>1, <1>1a DEF Counted, InStep, Spawned, Synced, Queued, Counting
<1>5. Recorded'
  BY <1>1, <1>1a, <1>2 DEF Recorded
<1> QED
  BY <1>3, <1>4, <1>5

\* A result that ends up on disk as `status`, or not, while the scheduler goes
\* on draining (or starts to): no other workpackage is touched.
LEMMA DrainedInv ==
  ASSUME IInv, NEW w \in Work, Received(w), NEW status \in Status,
         NEW o \in WriteOutcome, NEW mem \in Status \ {"FINISHED"},
         pc \in {"select", "drain"}, pc' = "drain",
         disk' = WriteStatus(w, status, o),
         statuses' = [statuses EXCEPT ![w] = mem],
         o = "ok" => status = mem,
         failed' \in BOOLEAN, o # "ok" => failed' = TRUE,
         failed => failed' = TRUE,
         cancelled' \in BOOLEAN, faults' \in 0..MaxFaults,
         UNCHANGED <<root, depsLeft, ready, result, runs>>
  PROVE  IInv'
<1> USE DEF IInv
<1>1. /\ \A v \in Work : v # w => disk'[v] = disk[v] /\ statuses'[v] = statuses[v]
      /\ statuses'[w] = mem /\ mem # "FINISHED"
  BY DEF WriteStatus, TypeOK
<1>2. w \in running /\ running' = running \ {w} /\ disk[w] = "RUNNING"
  BY DEF Received, Recorded
<1>3. TypeOK'
  <2>1. disk' \in [Work -> Status] /\ statuses' \in [Work -> Status]
    BY DEF WriteStatus, TypeOK
  <2> QED
    BY <2>1, ReceivedType DEF TypeOK
<1>4. Counted' /\ Spawned'
  BY ReceivedCounted, ReceivedSpawned
<1>5. Recorded'
  BY <1>1, <1>2, DepsAssumption, SMTT(30), ZenonT(30) DEF Recorded, TypeOK
<1>6. Synced'
  <2>1. ASSUME ~failed' PROVE disk' = statuses'
    <3>1. o = "ok" /\ ~failed /\ status = mem
      BY <2>1 DEF WriteOutcome, TypeOK
    <3>2. disk = statuses
      BY <3>1 DEF Synced
    <3> QED
      BY <3>1, <3>2 DEF WriteStatus
  <2> QED
    BY <2>1 DEF Synced
<1>7. Queued' /\ Counting'
  BY DEF Queued, Counting
<1> QED
  BY <1>3, <1>4, <1>5, <1>6, <1>7

LEMMA DrainInv ==
  ASSUME IInv, NEW w \in Work, Drain(w) \/ DrainFails(w) \/ ReceiveFails(w)
  PROVE  IInv'
<1>1. "ok" \in WriteOutcome /\ "lost" \in WriteOutcome /\ "landed" \in WriteOutcome
  BY DEF WriteOutcome
<1>2. "INTERRUPTED" \in Status \ {"FINISHED"} /\ "ERROR" \in Status \ {"FINISHED"}
  BY DEF Status
<1>3. failed \in BOOLEAN /\ cancelled \in BOOLEAN /\ faults \in 0..MaxFaults
  BY DEF IInv, TypeOK
<1>4. CASE Drain(w)
  BY <1>1, <1>2, <1>3, <1>4, DrainedInv DEF Drain, control
<1>5. CASE DrainFails(w)
  <2>1. PICK o \in {"lost", "landed"} : disk' = WriteStatus(w, "INTERRUPTED", o)
    BY <1>5 DEF DrainFails, FinishFails
  <2>2. faults' \in 0..MaxFaults
    BY <1>3, <1>5, BoundAssumption DEF DrainFails, FinishFails, CountFaults
  <2> QED
    BY <1>1, <1>2, <1>3, <1>5, <2>1, <2>2, DrainedInv DEF DrainFails, FinishFails
<1>6. CASE ReceiveFails(w)
  <2>1. PICK o \in {"lost", "landed"} : disk' = WriteStatus(w, proc[w], o)
    BY <1>6 DEF ReceiveFails, FinishFails
  <2>2. faults' \in 0..MaxFaults
    BY <1>3, <1>6, BoundAssumption DEF ReceiveFails, FinishFails, CountFaults
  <2>3. proc[w] \in Status
    BY <1>6 DEF ReceiveFails, Received, Exited, Status
  <2> QED
    BY <1>1, <1>2, <1>3, <1>6, <2>1, <2>2, <2>3, DrainedInv
    DEF ReceiveFails, FinishFails
<1> QED
  BY <1>4, <1>5, <1>6

\* A result other than FINISHED, with the workpackages it blocks: none of them
\* is running, queued or finished.
LEMMA UnsuccessfulInv ==
  ASSUME IInv, NEW w \in Work, Received(w), pc = "select",
         NEW mem \in {"ERROR", "INTERRUPTED"},
         NEW blocked \in SUBSET Blockable([statuses EXCEPT ![w] = mem]),
         mem = "INTERRUPTED" => blocked = {},
         NEW lost \in SUBSET blocked, NEW unwritten \in SUBSET blocked,
         lost \subseteq unwritten,
         statuses' = [c \in Work |-> IF c \in blocked THEN "BLOCKED"
                                     ELSE [statuses EXCEPT ![w] = mem][c]],
         disk' = [c \in Work |-> IF c = w THEN mem
                                 ELSE IF c \in blocked \ lost THEN "BLOCKED"
                                 ELSE disk[c]],
         failed' = (unwritten # {}),
         pc' = (IF unwritten = {} THEN "loop" ELSE "drain"),
         cancelled' \in BOOLEAN, faults' \in 0..MaxFaults,
         UNCHANGED <<root, depsLeft, ready, result, runs>>
  PROVE  IInv'
<1> USE DEF IInv
<1>1. ~failed /\ disk = statuses /\ w \in running /\ running' = running \ {w}
  BY DEF Synced, Received
<1>2. ASSUME NEW c \in blocked
      PROVE  c \in Work /\ c # w /\ statuses[c] \notin {"FINISHED", "RUNNING"}
  <2>1. /\ c \in Work
        /\ [statuses EXCEPT ![w] = mem][c] \notin {"FINISHED", "RUNNING", "ERROR", "BLOCKED"}
    BY DEF Blockable
  <2>2. CASE c = w
    BY <2>1, <2>2 DEF TypeOK
  <2>3. CASE c # w
    BY <2>1, <2>3 DEF TypeOK
  <2> QED
    BY <2>2, <2>3
<1>3. ASSUME NEW v \in Work
      PROVE  /\ v = w => statuses'[v] = mem /\ disk'[v] = mem
             /\ v \in blocked => statuses'[v] = "BLOCKED" /\ disk'[v] \in {"BLOCKED", disk[v]}
             /\ v # w /\ v \notin blocked =>
                  statuses'[v] = statuses[v] /\ disk'[v] = disk[v]
  BY <1>2 DEF TypeOK
<1>4. statuses[w] = "RUNNING"
  BY <1>1 DEF Recorded
<1>5. \A v \in Work : (statuses'[v] = "FINISHED") <=> (statuses[v] = "FINISHED")
  BY <1>2, <1>3, <1>4
<1>6. \A v \in Work : disk[v] = "FINISHED" => disk'[v] = "FINISHED"
  BY <1>1, <1>2, <1>3, <1>4
<1>7. TypeOK'
  <2>1. disk' \in [Work -> Status] /\ statuses' \in [Work -> Status]
    BY DEF TypeOK, Status
  <2> QED
    BY <2>1, ReceivedType DEF TypeOK
<1>8. Counted' /\ Spawned'
  BY ReceivedCounted, ReceivedSpawned
<1>9. Recorded'
  <2>1. \A v \in Work : statuses'[v] = "FINISHED" => disk'[v] = "FINISHED"
    BY <1>1, <1>5, <1>6
  <2>2. ASSUME NEW v \in running'
        PROVE  /\ statuses'[v] = "RUNNING" /\ disk'[v] = "RUNNING"
               /\ \A d \in Deps[v] : disk'[d] = "FINISHED"
    <3>1. /\ v \in Work /\ v # w
          /\ statuses[v] = "RUNNING" /\ disk[v] = "RUNNING"
          /\ \A d \in Deps[v] : disk[d] = "FINISHED"
      BY <1>1 DEF Recorded, TypeOK
    <3>2. v \notin blocked
      BY <1>2, <3>1
    <3> QED
      BY <1>3, <1>6, <3>1, <3>2, DepsAssumption
  <2>3. ASSUME NEW v \in Work, statuses'[v] = "RUNNING"
        PROVE  v \in running'
    <3>1. v # w /\ v \notin blocked /\ statuses[v] = "RUNNING"
      BY <1>3, <2>3
    <3> QED
      BY <1>1, <3>1 DEF Recorded
  <2> QED
    BY <2>1, <2>2, <2>3 DEF Recorded
<1>10. Synced'
  <2>1. ASSUME unwritten = {} PROVE disk' = statuses'
    <3>1. lost = {}
      BY <2>1
    <3>2. \A v \in Work : disk'[v] = statuses'[v]
      BY <1>1, <1>2, <3>1 DEF TypeOK
    <3> QED
      BY <3>2
  <2> QED
    BY <2>1 DEF Synced
<1>11. Queued'
  <2>1. ASSUME NEW i \in DOMAIN ready'
        PROVE  /\ statuses'[ready'[i]] \notin {"FINISHED", "RUNNING"}
               /\ \A d \in Deps[ready'[i]] : statuses'[d] = "FINISHED"
    <3>1. /\ ready'[i] \in Work
          /\ statuses[ready'[i]] \notin {"FINISHED", "RUNNING"}
          /\ \A d \in Deps[ready'[i]] : statuses[d] = "FINISHED"
      BY ElementOfSeq, LenProperties DEF Queued, TypeOK
    <3> QED
      BY <1>3, <1>5, <3>1, DepsAssumption
  <2> QED
    BY <2>1 DEF Queued
<1>12. Counting'
  <2>1. ASSUME NEW v \in Work, statuses'[v] # "FINISHED"
        PROVE  depsLeft'[v] = Unfinished(statuses', v)
    <3>1. {x \in Deps[v] : statuses'[x] # "FINISHED"} =
            {x \in Deps[v] : statuses[x] # "FINISHED"}
      BY <1>5, DepsAssumption
    <3> QED
      BY <1>5, <2>1, <3>1 DEF Counting, Unfinished
  <2> QED
    BY <2>1 DEF Counting
<1> QED
  BY <1>7, <1>8, <1>9, <1>10, <1>11, <1>12

LEMMA ReceiveErrorInv ==
  ASSUME IInv, NEW w \in Work, ReceiveError(w) PROVE IInv'
<1> DEFINE st == [statuses EXCEPT ![w] = "ERROR"]
<1>1. PICK lost \in SUBSET Work, landed \in SUBSET Work :
        /\ lost \cup landed \subseteq MarkBlocked(st, w, lost \cup landed)
        /\ CountFaults(Cardinality(lost \cup landed))
        /\ statuses' = [c \in Work |-> IF c \in MarkBlocked(st, w, lost \cup landed)
                                       THEN "BLOCKED" ELSE st[c]]
        /\ disk' = [c \in Work |->
                      IF c = w THEN "ERROR"
                      ELSE IF c \in MarkBlocked(st, w, lost \cup landed) \ lost
                           THEN "BLOCKED" ELSE disk[c]]
        /\ failed' = (lost \cup landed # {})
        /\ cancelled' = (cancelled \/ lost \cup landed # {})
        /\ pc' = (IF lost \cup landed = {} THEN "loop" ELSE "drain")
  BY DEF ReceiveError
<1> DEFINE unwritten == lost \cup landed
           blocked == MarkBlocked(st, w, unwritten)
<1>2. blocked \in SUBSET Blockable(st)
  BY DEF MarkBlocked
<1>3. /\ pc = "select" /\ Received(w)
      /\ UNCHANGED <<root, depsLeft, ready, result, runs>>
  BY DEF ReceiveError
<1>4. faults' \in 0..MaxFaults
  <2>1. IsFiniteSet(unwritten) /\ Cardinality(unwritten) \in Nat
    BY WorkFinite, FS_Subset, FS_CardinalityType
  <2> HIDE DEF unwritten
  <2>2. CountFaults(Cardinality(unwritten))
    BY <1>1 DEF unwritten
  <2> QED
    BY <2>1, <2>2, BoundAssumption DEF CountFaults, IInv, TypeOK
<1>5. cancelled' \in BOOLEAN
  BY <1>1 DEF IInv, TypeOK
<1>6. lost \in SUBSET blocked /\ unwritten \in SUBSET blocked /\ lost \subseteq unwritten
  BY <1>1
<1> HIDE DEF blocked, unwritten
<1>7. /\ statuses' = [c \in Work |-> IF c \in blocked THEN "BLOCKED" ELSE st[c]]
      /\ disk' = [c \in Work |-> IF c = w THEN "ERROR"
                                 ELSE IF c \in blocked \ lost THEN "BLOCKED"
                                 ELSE disk[c]]
      /\ failed' = (unwritten # {})
      /\ pc' = (IF unwritten = {} THEN "loop" ELSE "drain")
  BY <1>1 DEF blocked, unwritten
<1> QED
  BY <1>2, <1>3, <1>4, <1>5, <1>6, <1>7, UnsuccessfulInv

LEMMA ReceiveInterruptedInv ==
  ASSUME IInv, NEW w \in Work, ReceiveInterrupted(w) PROVE IInv'
<1>1. /\ pc = "select" /\ pc' = "loop" /\ Received(w)
      /\ UNCHANGED <<root, depsLeft, ready, result, runs>>
      /\ UNCHANGED <<cancelled, failed, faults>>
      /\ ~failed
  BY DEF ReceiveInterrupted, IInv, Synced
<1> DEFINE none == {}
           st == [statuses EXCEPT ![w] = "INTERRUPTED"]
<1>2. statuses' = [c \in Work |-> IF c \in none THEN "BLOCKED" ELSE st[c]]
  BY DEF ReceiveInterrupted, IInv, TypeOK
<1>3. disk' = [c \in Work |-> IF c = w THEN "INTERRUPTED"
                              ELSE IF c \in none \ none THEN "BLOCKED" ELSE disk[c]]
  BY DEF ReceiveInterrupted, WriteStatus, IInv, TypeOK
<1>4. cancelled' \in BOOLEAN /\ faults' \in 0..MaxFaults
  BY <1>1 DEF IInv, TypeOK
<1>5. failed' = (none # {}) /\ pc' = (IF none = {} THEN "loop" ELSE "drain")
  BY <1>1 DEF IInv, TypeOK
<1>6. none \in SUBSET Blockable(st) /\ none \in SUBSET none /\ none \subseteq none
  OBVIOUS
<1>7. "INTERRUPTED" = "INTERRUPTED" => none = {}
  OBVIOUS
<1> HIDE DEF none
<1> QED
  BY <1>1, <1>2, <1>3, <1>4, <1>5, <1>6, <1>7, UnsuccessfulInv

\* A success: its children count it, and those that it was the last to keep
\* waiting are queued.
LEMMA ReceiveFinishedInv ==
  ASSUME IInv, NEW w \in Work, ReceiveFinished(w) PROVE IInv'
<1> USE DEF IInv
<1> DEFINE pending == {c \in Children(w) : statuses'[c] # "FINISHED"}
<1>1. /\ pc = "select" /\ pc' = "loop" /\ Received(w)
      /\ UNCHANGED <<root, cancelled, failed, result, faults, runs>>
      /\ ~failed /\ disk = statuses
      /\ w \in running /\ running' = running \ {w}
      /\ disk' = [disk EXCEPT ![w] = "FINISHED"]
      /\ statuses' = [statuses EXCEPT ![w] = "FINISHED"]
      /\ disk' = statuses'
  BY DEF ReceiveFinished, Received, WriteStatus, Synced
<1>2. /\ depsLeft' = [c \in Work |-> IF c \in pending /\ depsLeft[c] > 0
                                     THEN depsLeft[c] - 1 ELSE depsLeft[c]]
      /\ \E q \in ManifestOrder({c \in pending : depsLeft'[c] = 0}) :
           ready' = ready \o q
  BY DEF ReceiveFinished
<1>3. /\ statuses[w] = "RUNNING" /\ statuses'[w] = "FINISHED"
      /\ \A v \in Work : v # w => statuses'[v] = statuses[v]
  BY <1>1 DEF Recorded, TypeOK
<1>4. ASSUME NEW c \in Work, statuses'[c] # "FINISHED"
      PROVE  /\ depsLeft'[c] = Unfinished(statuses', c)
             /\ c \in pending => depsLeft[c] > 0
  <2> DEFINE before == {x \in Deps[c] : statuses[x] # "FINISHED"}
             after == {x \in Deps[c] : statuses'[x] # "FINISHED"}
  <2>1. /\ IsFiniteSet(before) /\ after = before \ {w}
        /\ w \in before <=> c \in pending
    <3>1. IsFiniteSet(before)
      BY WorkFinite, DepsAssumption, FS_Subset
    <3>2. after = before \ {w}
      BY <1>3, DepsAssumption
    <3>3. w \in before <=> c \in pending
      BY <1>3, <1>4 DEF Children
    <3> QED
      BY <3>1, <3>2, <3>3
  <2>2. depsLeft[c] = Cardinality(before)
    BY <1>1, <1>3, <1>4 DEF Counting, Unfinished
  <2>3. Unfinished(statuses', c) = Cardinality(after)
    BY DEF Unfinished
  <2> HIDE DEF before, after, pending
  <2>4. /\ Cardinality(before) \in Nat /\ Cardinality(after) \in Nat
        /\ Cardinality(after) = IF w \in before THEN Cardinality(before) - 1
                                ELSE Cardinality(before)
    BY <2>1, FS_RemoveElement, FS_CardinalityType
  <2>5. depsLeft'[c] = IF c \in pending /\ depsLeft[c] > 0
                       THEN depsLeft[c] - 1 ELSE depsLeft[c]
    BY <1>2
  <2> QED
    BY <2>1, <2>2, <2>3, <2>4, <2>5
<1> DEFINE released == {c \in pending : depsLeft'[c] = 0}
<1>5. PICK q \in ManifestOrder(released) : ready' = ready \o q
  BY <1>2
<1>6. released \in SUBSET Work
  BY DEF Children
<1>7. /\ q \in Seq(Work)
      /\ \A i \in 1..Len(q) : q[i] \in released
      /\ \A i, j \in 1..Len(q) : q[i] = q[j] => i = j
  <2> HIDE DEF released
  <2> QED
    BY <1>6, ManifestOrderProperties
<1>8. /\ ready \in Seq(Work) /\ DOMAIN ready = 1..Len(ready)
      /\ \A i, j \in 1..Len(ready) : ready[i] = ready[j] => i = j
      /\ \A i \in 1..Len(ready) :
           /\ ready[i] \in Work
           /\ statuses[ready[i]] \notin {"FINISHED", "RUNNING"}
           /\ \A d \in Deps[ready[i]] : statuses[d] = "FINISHED"
  BY <1>1, ElementOfSeq, LenProperties DEF Queued, TypeOK
<1>9. ASSUME NEW c \in released
      PROVE  /\ c \in Work /\ w \in Deps[c]
             /\ statuses'[c] \notin {"FINISHED", "RUNNING"}
             /\ \A d \in Deps[c] : statuses'[d] = "FINISHED"
  <2>1. c \in Work /\ w \in Deps[c] /\ statuses'[c] # "FINISHED"
    BY DEF Children
  <2>2. c # w /\ statuses'[c] = statuses[c]
    BY <1>3, <2>1
  <2>3. Unfinished(statuses', c) = 0
    BY <1>4, <2>1
  <2>4. \A d \in Deps[c] : statuses'[d] = "FINISHED"
    BY <2>1, <2>3, UnfinishedZero
  <2>5. statuses[c] # "RUNNING"
    <3>1. statuses[c] = "RUNNING" => disk[w] = "FINISHED"
      BY <1>1, <2>1 DEF Recorded
    <3> QED
      BY <1>1, <1>3, <3>1
  <2> QED
    BY <2>1, <2>2, <2>4, <2>5
<1> HIDE DEF released, pending
<1>10. /\ ready' \in Seq(Work)
       /\ \A i, j \in DOMAIN ready' : ready'[i] = ready'[j] => i = j
       /\ \A k \in DOMAIN ready' :
            \/ \E i \in 1..Len(ready) : ready'[k] = ready[i]
            \/ \E j \in 1..Len(q) : ready'[k] = q[j]
  <2>1. ASSUME NEW i \in 1..Len(ready), NEW j \in 1..Len(q)
        PROVE  ready[i] # q[j]
    <3>1. w \in Deps[q[j]] /\ statuses[w] # "FINISHED"
      BY <1>3, <1>7, <1>9
    <3> QED
      BY <1>8, <3>1
  <2>2. PICK p \in Seq(Work) : p = ready
    BY <1>8
  <2>3. /\ \A i, j \in 1..Len(p) : p[i] = p[j] => i = j
        /\ \A i \in 1..Len(p), j \in 1..Len(q) : p[i] # q[j]
    BY <1>8, <2>1, <2>2
  <2>4. q \in Seq(Work) /\ \A i, j \in 1..Len(q) : q[i] = q[j] => i = j
    BY <1>7
  <2>5. PICK t : t = p \o q
    OBVIOUS
  <2>6. /\ t \in Seq(Work) /\ \A i, j \in 1..Len(t) : t[i] = t[j] => i = j
        /\ \A k \in 1..Len(t) :
             \/ \E i \in 1..Len(p) : t[k] = p[i]
             \/ \E j \in 1..Len(q) : t[k] = q[j]
    BY <2>3, <2>4, <2>5, AppendDistinct, SMTT(30), ZenonT(30)
  <2>7. ready' = t
    BY <1>5, <2>2, <2>5
  <2>8. DOMAIN t = 1..Len(t)
    BY <2>6, LenProperties
  <2>9. \A k \in DOMAIN t :
          \/ \E i \in 1..Len(ready) : t[k] = ready[i]
          \/ \E j \in 1..Len(q) : t[k] = q[j]
    BY <2>2, <2>6, <2>8
  <2> QED
    BY <2>6, <2>7, <2>8, <2>9
<1>11. TypeOK'
  <2>1. depsLeft' \in [Work -> Nat]
    BY <1>2 DEF TypeOK
  <2>2. disk' \in [Work -> Status] /\ statuses' \in [Work -> Status]
    BY <1>1 DEF TypeOK, Status
  <2> QED
    BY <1>1, <1>10, <2>1, <2>2, ReceivedType DEF TypeOK
<1>12. Counted' /\ Spawned'
  BY <1>1, ReceivedCounted, ReceivedSpawned
<1>13. Recorded'
  BY <1>1, <1>3, DepsAssumption DEF Recorded, TypeOK
<1>14. Synced'
  BY <1>1 DEF Synced
<1>15. Queued'
  <2>1. ASSUME NEW k \in DOMAIN ready'
        PROVE  /\ statuses'[ready'[k]] \notin {"FINISHED", "RUNNING"}
               /\ \A d \in Deps[ready'[k]] : statuses'[d] = "FINISHED"
    <3>1. CASE \E i \in 1..Len(ready) : ready'[k] = ready[i]
      BY <1>3, <1>8, <3>1, DepsAssumption
    <3>2. CASE \E j \in 1..Len(q) : ready'[k] = q[j]
      BY <1>7, <1>9, <3>2
    <3> QED
      BY <1>10, <3>1, <3>2
  <2> QED
    BY <1>10, <2>1 DEF Queued
<1>16. Counting'
  BY <1>4 DEF Counting
<1> QED
  BY <1>11, <1>12, <1>13, <1>14, <1>15, <1>16

-----------------------------------------------------------------------------
(***************************************************************************)
(* The invariant, and what follows from it.                                *)
(***************************************************************************)
LEMMA NextInv == IInv /\ [Next]_vars => IInv'
<1> SUFFICES ASSUME IInv, [Next]_vars PROVE IInv'
  OBVIOUS
<1>1. CASE OpenStep
  BY <1>1, OpenInv, OpenFailsInv DEF OpenStep
<1>2. CASE LoopStep
  BY <1>2, StartInv, StartFailsInv, ControlInv DEF LoopStep
<1>3. CASE DrainStep
  BY <1>3, DrainInv, ControlInv DEF DrainStep
<1>4. CASE Cancel \/ Close \/ MarkRootFinalFails
  BY <1>4, ControlInv
<1>5. ASSUME NEW w \in Work, Receive(w) PROVE IInv'
  BY <1>5, ReceiveFinishedInv, ReceiveErrorInv, ReceiveInterruptedInv, DrainInv
  DEF Receive
<1>6. ASSUME NEW w \in Work, ProcessStep(w) PROVE IInv'
  BY <1>6, ProcessStepInv
<1>7. CASE UNCHANGED vars
  BY <1>7 DEF vars, maps, control, IInv, TypeOK, Counted, InStep, Spawned, Recorded,
              Synced, Queued, Counting
<1> QED
  BY <1>1, <1>2, <1>3, <1>4, <1>5, <1>6, <1>7 DEF Next

LEMMA Invariance == Spec => []IInv
<1>1. Init => IInv
  BY InitInv
<1>2. IInv /\ [Next]_vars => IInv'
  BY NextInv
<1> QED
  BY <1>1, <1>2, PTL DEF Spec

\* Every variable keeps its type.
THEOREM TypeCorrect == Spec => []TypeOK
<1>1. IInv => TypeOK
  BY DEF IInv
<1> QED
  BY <1>1, Invariance, PTL

\* For every manifest: a shell only ever runs while all its dependencies are
\* FINISHED on disk.
THEOREM DependenciesAreFinished == Spec => []DependenciesFinished
<1>1. IInv => DependenciesFinished
  BY DEF IInv, Spawned, Recorded, DependenciesFinished
<1> QED
  BY <1>1, Invariance, PTL

\* For every limit: never more shells than jbs_nproc, nor than a step's nproc.
THEOREM LimitsAreRespected == Spec => []LimitsRespected
<1>1. ASSUME IInv PROVE LimitsRespected
  <2> DEFINE alive == {w \in Work : proc[w] \in Alive}
  <2>1. IsFiniteSet(running) /\ alive \subseteq running
    BY <1>1, WorkFinite, FS_Subset DEF IInv, TypeOK, Spawned, Alive
  <2>2. /\ Cardinality(alive) <= Cardinality(running)
        /\ Cardinality(alive) \in Nat /\ Cardinality(running) \in Nat
    BY <2>1, FS_Subset, FS_CardinalityType
  <2>3. Cardinality(alive) <= Limit(GlobalNProc)
    BY <1>1, <2>2, StepAssumed DEF IInv, Counted
  <2>4. ASSUME NEW s \in Step
        PROVE  Cardinality({w \in alive : StepOf[w] = s}) <= Limit(StepNProc[s])
    <3> DEFINE some == {w \in alive : StepOf[w] = s}
    <3>1. IsFiniteSet(InStep(s)) /\ some \subseteq InStep(s)
      BY <2>1, FS_Subset DEF InStep
    <3> HIDE DEF some
    <3>2. /\ Cardinality(some) <= Cardinality(InStep(s))
          /\ Cardinality(some) \in Nat /\ Cardinality(InStep(s)) \in Nat
      BY <3>1, FS_Subset, FS_CardinalityType
    <3>3. Cardinality(some) <= Limit(StepNProc[s])
      BY <1>1, <3>2, StepAssumed DEF IInv, Counted
    <3> QED
      BY <3>3 DEF some
  <2> QED
    BY <2>3, <2>4 DEF LimitsRespected
<1> QED
  BY <1>1, Invariance, PTL

\* Unless Run returns an error, the status files agree with the scheduler.
THEOREM DiskAgreesWithMemory == Spec => []DiskFollowsMemory
<1>1. IInv => DiskFollowsMemory
  BY DEF IInv, Synced, DiskFollowsMemory
<1> QED
  BY <1>1, Invariance, PTL

\* The queue never holds a workpackage twice or too early.
THEOREM QueueIsSound == Spec => []QueueSound
<1>1. IInv => QueueSound
  BY DEF IInv, Queued, QueueSound
<1> QED
  BY <1>1, Invariance, PTL

-----------------------------------------------------------------------------
(***************************************************************************)
(* What a step may do to the status files.                                 *)
(***************************************************************************)

\* A workpackage is FINISHED after a step if it was before, or if its result
\* is received in this step; every other step leaves the FINISHED ones and
\* s.running alone, except that a start adds one that is not FINISHED.
NothingFinishes == \A v \in Work : disk'[v] = "FINISHED" <=> disk[v] = "FINISHED"

Accounted(w) ==
  /\ w \in running /\ running' = running \ {w} /\ disk[w] # "FINISHED"
  /\ \A v \in Work : v # w => (disk'[v] = "FINISHED" <=> disk[v] = "FINISHED")

LEMMA ReceiveAccounted ==
  ASSUME IInv, NEW w \in Work, Receive(w) \/ Drain(w) \/ DrainFails(w)
  PROVE  Accounted(w)
<1> USE DEF IInv
<1>1. Received(w)
  BY DEF Receive, ReceiveFinished, ReceiveError, ReceiveInterrupted, ReceiveFails,
         Drain, DrainFails
<1>2. w \in running /\ running' = running \ {w} /\ disk[w] = "RUNNING"
  BY <1>1 DEF Received, Recorded
<1>3. CASE ReceiveError(w)
  <2> DEFINE st == [statuses EXCEPT ![w] = "ERROR"]
  <2>1. PICK blocked \in SUBSET Blockable(st), lost \in SUBSET Work :
          disk' = [c \in Work |-> IF c = w THEN "ERROR"
                                  ELSE IF c \in blocked \ lost THEN "BLOCKED"
                                  ELSE disk[c]]
    <3>1. PICK lost \in SUBSET Work, landed \in SUBSET Work :
            disk' = [c \in Work |->
                       IF c = w THEN "ERROR"
                       ELSE IF c \in MarkBlocked(st, w, lost \cup landed) \ lost
                            THEN "BLOCKED" ELSE disk[c]]
      BY <1>3 DEF ReceiveError
    <3>2. MarkBlocked(st, w, lost \cup landed) \in SUBSET Blockable(st)
      BY DEF MarkBlocked
    <3> QED
      BY <3>1, <3>2
  <2>2. disk = statuses
    BY <1>3 DEF ReceiveError, Synced
  <2>3. \A c \in blocked : c # w => disk[c] # "FINISHED"
    BY <2>2 DEF Blockable, TypeOK
  <2> QED
    BY <1>2, <2>1, <2>3 DEF Accounted
<1>4. CASE ~ReceiveError(w)
  <2>1. \E s \in Status, o \in WriteOutcome : disk' = WriteStatus(w, s, o)
    BY <1>4 DEF Receive, ReceiveFinished, ReceiveInterrupted, ReceiveFails, Drain,
                DrainFails, FinishFails, Received, Exited, Status, WriteOutcome
  <2>2. \A v \in Work : v # w => disk'[v] = disk[v]
    BY <2>1 DEF WriteStatus, TypeOK
  <2> QED
    BY <1>2, <2>2 DEF Accounted
<1> QED
  BY <1>3, <1>4

LEMMA StartAccounted ==
  ASSUME IInv, Start \/ StartFails
  PROVE  NothingFinishes
<1> USE DEF IInv
<1>1. PICK i \in DOMAIN ready, o \in WriteOutcome :
        disk' = WriteStatus(ready[i], "RUNNING", o)
  BY DEF Start, StartFails, WriteOutcome
<1>2. pc = "loop" /\ disk = statuses
  BY DEF Start, StartFails, Synced
<1>3. ready[i] \in Work /\ disk[ready[i]] # "FINISHED"
  BY <1>2, ElementOfSeq, LenProperties DEF TypeOK, Queued
<1> QED
  BY <1>1, <1>3 DEF NothingFinishes, WriteStatus, TypeOK

LEMMA OtherAccounted ==
  ASSUME IInv, \/ OpenStep \/ RunCompletes \/ RunCancelled \/ RunWaits \/ DrainEnds
               \/ Cancel \/ Close \/ MarkRootFinalFails
               \/ (\E w \in Work : ProcessStep(w)) \/ UNCHANGED vars
  PROVE  NothingFinishes /\ running' = running
<1> USE DEF IInv
<1>1. CASE OpenStep
  <2>1. running' = running
    BY <1>1 DEF OpenStep, Open, NormalizeFails, MarkRootRunningFails,
                LoadStatusesFails, Command, Spawned, maps
  <2>2. ASSUME NEW v \in Work PROVE disk'[v] = Normalized(disk)[v] \/ disk'[v] = disk[v]
    BY <1>1 DEF OpenStep, Open, NormalizeFails, MarkRootRunningFails,
                LoadStatusesFails
  <2> QED
    BY <2>1, <2>2 DEF Normalized, NothingFinishes
<1>2. CASE \/ RunCompletes \/ RunCancelled \/ RunWaits \/ DrainEnds
           \/ Cancel \/ Close \/ MarkRootFinalFails
  BY <1>2 DEF RunCompletes, RunCancelled, RunWaits, DrainEnds, Cancel, Close,
              MarkRootFinalFails, maps, NothingFinishes
<1>3. CASE \E w \in Work : ProcessStep(w)
  BY <1>3 DEF ProcessStep, Exit, Terminate, GraceExpires, ExitTerminated, ExitKilled,
              Rest, maps, NothingFinishes
<1>4. CASE UNCHANGED vars
  BY <1>4 DEF vars, maps, NothingFinishes
<1> QED
  BY <1>1, <1>2, <1>3, <1>4

\* Over any number of continuations a FINISHED workpackage is neither run
\* again nor overwritten.
THEOREM FinishedStaysFinished == Spec => FinishedIsFinal
<1>1. ASSUME IInv, [Next]_vars
      PROVE  \A w \in Work : disk[w] = "FINISHED" => disk'[w] = "FINISHED"
  <2>1. ASSUME NEW w \in Work, Receive(w) \/ Drain(w) \/ DrainFails(w)
        PROVE  \A v \in Work : disk[v] = "FINISHED" => disk'[v] = "FINISHED"
    BY <1>1, <2>1, ReceiveAccounted DEF Accounted
  <2>2. CASE Start \/ StartFails
    BY <1>1, <2>2, StartAccounted DEF NothingFinishes
  <2>3. CASE \/ OpenStep \/ RunCompletes \/ RunCancelled \/ RunWaits \/ DrainEnds
             \/ Cancel \/ Close \/ MarkRootFinalFails
             \/ (\E w \in Work : ProcessStep(w)) \/ UNCHANGED vars
    BY <1>1, <2>3, OtherAccounted DEF NothingFinishes
  <2> QED
    BY <1>1, <2>1, <2>2, <2>3 DEF Next, LoopStep, DrainStep
<1>2. IInv /\ [Next]_vars =>
        [\A w \in Work : disk[w] = "FINISHED" => disk'[w] = "FINISHED"]_vars
  BY <1>1
<1> QED
  BY <1>2, Invariance, PTL DEF Spec, FinishedIsFinal

(***************************************************************************)
(* Refinement of WorkOrder.                                                *)
(***************************************************************************)
LEMMA StartOrdered ==
  ASSUME IInv, Start
  PROVE  \E w \in Work : Order!Start(w)
<1> USE DEF IInv
<1>1. PICK i \in DOMAIN ready :
        FirstStartable(i) /\ running' = running \cup {ready[i]}
  BY DEF Start
<1> DEFINE w == ready[i]
<1>2. /\ w \in Work /\ statuses[w] \notin {"FINISHED", "RUNNING"}
      /\ \A d \in Deps[w] : statuses[d] = "FINISHED"
      /\ disk = statuses
  BY ElementOfSeq, LenProperties DEF Start, TypeOK, Queued, Synced
<1>3. w \notin running /\ CanStart(w)
  BY <1>1, <1>2 DEF Recorded, FirstStartable
<1>4. StepOf[w] \in Step
  BY <1>2, StepAssumption
<1>5. /\ Cardinality(running) < Limit(GlobalNProc)
      /\ Cardinality({v \in running : StepOf[v] = StepOf[w]}) < Limit(StepNProc[StepOf[w]])
  BY <1>3, <1>4 DEF CanStart, Counted, InStep
<1>6. {v \in Work : disk'[v] = "FINISHED"} = {v \in Work : disk[v] = "FINISHED"}
  BY StartAccounted DEF NothingFinishes
<1>7. Deps[w] \subseteq {v \in Work : disk[v] = "FINISHED"}
  BY <1>2, DepsAssumption
<1> HIDE DEF w
<1>8. [s \in Step |-> Limit(StepNProc[s])][StepOf[w]] = Limit(StepNProc[StepOf[w]])
  BY <1>4
<1>9. w \notin {v \in Work : disk[v] = "FINISHED"} \cup running
  BY <1>2, <1>3
<1>10. running' = running \cup {w}
  BY <1>1 DEF w
<1> DEFINE done == {v \in Work : disk[v] = "FINISHED"}
           doneAfter == {v \in Work : disk'[v] = "FINISHED"}
           limits == [s \in Step |-> Limit(StepNProc[s])]
<1>11. /\ w \notin done \cup running
       /\ Deps[w] \subseteq done
       /\ Cardinality(running) < Limit(GlobalNProc)
       /\ Cardinality({v \in running : StepOf[v] = StepOf[w]}) < limits[StepOf[w]]
       /\ running' = running \cup {w}
       /\ doneAfter = done
  <2> HIDE DEF limits
  <2>1. limits[StepOf[w]] = Limit(StepNProc[StepOf[w]])
    BY <1>8 DEF limits
  <2>2. Cardinality({v \in running : StepOf[v] = StepOf[w]}) < limits[StepOf[w]]
    BY <1>5, <2>1
  <2> QED
    BY <1>5, <1>6, <1>7, <1>9, <1>10, <2>2
<1>12. Order!Start(w)
  <2> HIDE DEF limits, done, doneAfter
  <2> QED
    BY <1>11 DEF Order!Start, Order!Cardinality, Cardinality, limits, done, doneAfter
<1> QED
  BY <1>2, <1>12

LEMMA ReceiveOrdered ==
  ASSUME IInv, NEW w \in Work, Accounted(w)
  PROVE  Order!Finish(w) \/ Order!GiveUp(w)
<1> DEFINE done == {v \in Work : disk[v] = "FINISHED"}
           doneAfter == {v \in Work : disk'[v] = "FINISHED"}
<1>1. CASE disk'[w] = "FINISHED"
  <2>1. doneAfter = done \cup {w}
    BY <1>1 DEF Accounted
  <2> QED
    BY <2>1 DEF Accounted, Order!Finish
<1>2. CASE disk'[w] # "FINISHED"
  <2>1. doneAfter = done
    BY <1>2 DEF Accounted
  <2> QED
    BY <2>1 DEF Accounted, Order!GiveUp
<1> QED
  BY <1>1, <1>2

\* The scheduler implements WorkOrder.
THEOREM ImplementsWorkOrder == Spec => OrderSpec
<1>1. Init => Order!Init
  BY DEF Init, Order!Init
<1>2. ASSUME IInv, [Next]_vars PROVE [Order!Next]_(Order!vars)
  <2>1. CASE Start
    BY <1>2, <2>1, StartOrdered DEF Order!Next
  <2>2. ASSUME NEW w \in Work, Receive(w) \/ Drain(w) \/ DrainFails(w)
        PROVE  Order!Next
    BY <1>2, <2>2, ReceiveAccounted, ReceiveOrdered DEF Order!Next
  <2>3. CASE StartFails
    <3>1. NothingFinishes /\ running' = running
      BY <1>2, <2>3, StartAccounted DEF StartFails
    <3> QED
      BY <3>1 DEF NothingFinishes, Order!vars
  <2>4. CASE \/ OpenStep \/ RunCompletes \/ RunCancelled \/ RunWaits \/ DrainEnds
             \/ Cancel \/ Close \/ MarkRootFinalFails
             \/ (\E w \in Work : ProcessStep(w)) \/ UNCHANGED vars
    BY <1>2, <2>4, OtherAccounted DEF NothingFinishes, Order!vars
  <2> QED
    BY <1>2, <2>1, <2>2, <2>3, <2>4 DEF Next, LoopStep, DrainStep
<1>3. IInv /\ [Next]_vars => [Order!Next]_(Order!vars)
  BY <1>2
<1> QED
  BY <1>1, <1>3, Invariance, PTL DEF Spec, OrderSpec, Order!Spec

(***************************************************************************)
(* Blocking, waiting and draining.                                         *)
(***************************************************************************)

\* The walk of markBlocked reaches a workpackage from the failed one or from
\* another that it has reached and could record.
LEMMA MarkBlockedReason ==
  ASSUME NEW st, NEW w \in Work, NEW u, NEW c \in MarkBlocked(st, w, u)
  PROVE  \/ c \in Children(w)
         \/ \E x \in MarkBlocked(st, w, u) \ u : c \in Children(x)
<1> DEFINE all == Blockable(st)
           below(x) == Children(x) \cap all
           closed(S) == below(w) \subseteq S /\ \A x \in S \ u : below(x) \subseteq S
           M == MarkBlocked(st, w, u)
<1>1. M = {x \in all : \A S \in SUBSET all : closed(S) => x \in S}
  BY DEF MarkBlocked
<1> SUFFICES ASSUME c \notin Children(w), \A x \in M \ u : c \notin Children(x)
             PROVE  FALSE
  OBVIOUS
<1> HIDE DEF M, all
<1> DEFINE T == M \ {c}
<1>2. T \in SUBSET all
  BY <1>1
<1>3. below(w) \subseteq T
  BY <1>1
<1>4. ASSUME NEW x \in T \ u PROVE below(x) \subseteq T
  <2>1. x \in M /\ c \notin Children(x)
    OBVIOUS
  <2>2. ASSUME NEW S \in SUBSET all, closed(S) PROVE below(x) \subseteq S
    BY <1>1, <2>1, <2>2
  <2>3. below(x) \subseteq M
    BY <1>1, <2>2
  <2> QED
    BY <2>1, <2>3
<1>5. closed(T)
  BY <1>3, <1>4
<1>6. c \in T
  BY <1>1, <1>2, <1>5 DEF M
<1> QED
  BY <1>6

\* A workpackage becomes BLOCKED only on account of a failed dependency.
THEOREM OnlyFailuresDoBlock == Spec => OnlyFailuresBlock
<1> DEFINE Justified ==
      \A w \in Work : disk'[w] = "BLOCKED" /\ disk[w] # "BLOCKED" =>
        \E d \in Deps[w] : disk'[d] \in {"ERROR", "BLOCKED"}
<1>1. ASSUME IInv, [Next]_vars PROVE Justified
  <2> USE DEF IInv
  <2>1. ASSUME NEW w \in Work, ReceiveError(w) PROVE Justified
    <3> DEFINE st == [statuses EXCEPT ![w] = "ERROR"]
    <3>1. PICK lost \in SUBSET Work, landed \in SUBSET Work :
            disk' = [c \in Work |->
                       IF c = w THEN "ERROR"
                       ELSE IF c \in MarkBlocked(st, w, lost \cup landed) \ lost
                            THEN "BLOCKED" ELSE disk[c]]
      BY <2>1 DEF ReceiveError
    <3> DEFINE blocked == MarkBlocked(st, w, lost \cup landed)
    <3>2. w \notin blocked
      <4>1. st[w] = "ERROR"
        BY <1>1 DEF TypeOK
      <4> HIDE DEF st
      <4> QED
        BY <4>1 DEF MarkBlocked, Blockable
    <3>3. blocked \subseteq Work
      BY DEF MarkBlocked, Blockable
    <3>4. \A c \in blocked : \/ c \in Children(w)
                             \/ \E x \in blocked \ (lost \cup landed) : c \in Children(x)
      BY MarkBlockedReason
    <3> HIDE DEF blocked
    <3>5. disk' = [c \in Work |-> IF c = w THEN "ERROR"
                                  ELSE IF c \in blocked \ lost THEN "BLOCKED"
                                  ELSE disk[c]]
      BY <3>1 DEF blocked
    <3>6. ASSUME NEW c \in Work, disk'[c] = "BLOCKED", disk[c] # "BLOCKED"
          PROVE  \E d \in Deps[c] : disk'[d] \in {"ERROR", "BLOCKED"}
      <4>1. c \in blocked
        BY <3>5, <3>6
      <4>2. CASE c \in Children(w)
        BY <3>5, <4>2 DEF Children
      <4>3. CASE \E x \in blocked \ (lost \cup landed) : c \in Children(x)
        <5>1. PICK x \in blocked \ (lost \cup landed) : c \in Children(x)
          BY <4>3
        <5>2. x \in Work /\ x # w /\ disk'[x] = "BLOCKED" /\ x \in Deps[c]
          BY <3>2, <3>3, <3>5, <5>1 DEF Children
        <5> QED
          BY <5>2
      <4> QED
        BY <3>4, <4>1, <4>2, <4>3
    <3> QED
      BY <3>6
  <2>2. ASSUME NEW w \in Work, Receive(w) \/ Drain(w) \/ DrainFails(w),
               ~ReceiveError(w)
        PROVE  Justified
    <3>1. \E s \in Status \ {"BLOCKED"}, o \in WriteOutcome : disk' = WriteStatus(w, s, o)
      BY <2>2 DEF Receive, ReceiveFinished, ReceiveInterrupted, ReceiveFails, Drain,
                  DrainFails, FinishFails, Received, Exited, Status, WriteOutcome
    <3> QED
      BY <3>1 DEF WriteStatus, TypeOK
  <2>3. CASE Start \/ StartFails
    <3>1. \E w \in Work, o \in WriteOutcome : disk' = WriteStatus(w, "RUNNING", o)
      <4>1. PICK i \in DOMAIN ready, o \in WriteOutcome :
              disk' = WriteStatus(ready[i], "RUNNING", o)
        BY <2>3 DEF Start, StartFails, WriteOutcome
      <4>2. ready[i] \in Work
        BY <1>1, ElementOfSeq, LenProperties DEF TypeOK
      <4> QED
        BY <4>1, <4>2
    <3> QED
      BY <3>1 DEF WriteStatus, TypeOK
  <2>4. CASE OpenStep
    <3>1. ASSUME NEW v \in Work
          PROVE  disk'[v] = Normalized(disk)[v] \/ disk'[v] = disk[v]
      BY <2>4 DEF OpenStep, Open, NormalizeFails, MarkRootRunningFails,
                  LoadStatusesFails
    <3> QED
      BY <3>1 DEF Normalized
  <2>5. CASE \/ RunCompletes \/ RunCancelled \/ RunWaits \/ DrainEnds
             \/ Cancel \/ Close \/ MarkRootFinalFails
             \/ (\E w \in Work : ProcessStep(w)) \/ UNCHANGED vars
    <3>1. disk' = disk
      BY <2>5 DEF RunCompletes, RunCancelled, RunWaits, DrainEnds, Cancel, Close,
                  MarkRootFinalFails, ProcessStep, Exit, Terminate, GraceExpires,
                  ExitTerminated, ExitKilled, Rest, vars
    <3> QED
      BY <3>1
  <2> QED
    BY <1>1, <2>1, <2>2, <2>3, <2>4, <2>5 DEF Next, LoopStep, DrainStep
<1>2. IInv /\ [Next]_vars => [Justified]_vars
  BY <1>1
<1> QED
  BY <1>2, Invariance, PTL DEF Spec, OnlyFailuresBlock

-----------------------------------------------------------------------------
(***************************************************************************)
(* Run waits for nothing that does not come, what it returns is what the   *)
(* run directory shows, and failures, and nothing else, leave workpackages *)
(* without a run.                                                          *)
(*                                                                         *)
(* This rests on IInv and on invariants about what is missing from the     *)
(* queue.                                                                  *)
(***************************************************************************)
(***************************************************************************)
(* The invariants, beyond IInv.                                            *)
(***************************************************************************)

\* Run waits only when there is something to wait for.
Awaited == pc = "select" => running # {}

\* Only a cancellation makes a goroutine signal its shell.
Signalled ==
  \A w \in Work : proc[w] \in {"terminating", "killed", "INTERRUPTED"} => cancelled

InQueue(w) == \E i \in DOMAIN ready : ready[i] = w

\* What may be started and has not had its turn in this run is queued.
Offered ==
  pc \in {"loop", "select"} /\ ~cancelled =>
    \A w \in Work :
      /\ statuses[w] \in {"NOTSTARTED", "INTERRUPTED", "BLOCKED"}
      /\ \A d \in Deps[w] : statuses[d] = "FINISHED"
      => InQueue(w)

OInv == IInv /\ Awaited /\ Signalled /\ Offered /\ ResultTrue

-----------------------------------------------------------------------------
(***************************************************************************)
(* Facts about the operators.                                              *)
(***************************************************************************)

\* A nonempty set of workpackages has a first one in the manifest.
LEMMA FirstWork ==
  ASSUME NEW T \in SUBSET Work, T # {}
  PROVE  \E w \in T : \A v \in T : ~(v < w)
<1> DEFINE R == OpToRel(<, Nat)
<1>1. T \subseteq Nat
  BY CountAssumption DEF Work
<1>2. \E w \in T : \A v \in T : ~(<<v, w>> \in R)
  <2> HIDE DEF R
  <2>1. IsWellFoundedOn(R, Nat)
    BY NatLessThanWellFounded DEF R
  <2> QED
    BY <1>1, <2>1, WFMin
<1>3. PICK w \in T : \A v \in T : ~(<<v, w>> \in R)
  BY <1>2
<1>4. \A v \in T : ~(v < w)
  BY <1>1, <1>3 DEF OpToRel
<1> QED
  BY <1>4

\* The queue of a set in manifest order lists every member of the set.
LEMMA ManifestOrderComplete ==
  ASSUME NEW S \in SUBSET Work, NEW q \in ManifestOrder(S)
  PROVE  \A w \in S : \E i \in 1..Len(q) : q[i] = w
<1>1. IsFiniteSet(S) /\ Cardinality(S) \in Nat
  BY WorkFinite, FS_Subset, FS_CardinalityType
<1> DEFINE n == Cardinality(S)
<1>2. q \in [1..n -> S]
  BY DEF ManifestOrder
<1>3. Len(q) = n
  BY <1>1, <1>2, ManifestOrderProperties, LenProperties
<1>4. \A i, j \in 1..n : q[i] = q[j] => i = j
  BY <1>3, ManifestOrderProperties
<1>5. q \in Injection(1..n, S)
  BY <1>2, <1>4, Fun_IsInj
<1>6. Cardinality(1..n) = n
  BY <1>1, FS_Interval
<1> HIDE DEF n
<1>7. q \in Surjection(1..n, S)
  BY <1>1, <1>5, <1>6, FS_Injection DEF n
<1> QED
  BY <1>3, <1>7, Fun_SurjectionProperties

\* Taking one out of the queue leaves the others.
LEMMA DequeueKeeps ==
  ASSUME TypeOK, NEW i \in DOMAIN ready, ready' = RemoveAt(ready, i)
  PROVE  \A w \in Work : InQueue(w) /\ w # ready[i] => InQueue(w)'
<1>1. /\ ready \in Seq(Work) /\ Len(ready) \in Nat
      /\ DOMAIN ready = 1..Len(ready) /\ i \in 1..Len(ready)
  BY LenProperties DEF TypeOK
<1>2. /\ ready' \in Seq(Work) /\ Len(ready') = Len(ready) - 1
      /\ \A j \in 1..(Len(ready) - 1) :
           ready'[j] = IF j < i THEN ready[j] ELSE ready[j + 1]
  BY <1>1, RemoveAtProperties
<1>3. DOMAIN ready' = 1..(Len(ready) - 1)
  BY <1>2, LenProperties
<1>4. ASSUME NEW k \in 1..Len(ready), k # i
      PROVE  \E j \in DOMAIN ready' : ready'[j] = ready[k]
  <2>1. CASE k < i
    <3>1. k \in 1..(Len(ready) - 1)
      BY <1>1, <2>1
    <3> QED
      BY <1>2, <1>3, <2>1, <3>1
  <2>2. CASE k > i
    <3>1. k - 1 \in 1..(Len(ready) - 1) /\ ~(k - 1 < i) /\ (k - 1) + 1 = k
      BY <1>1, <2>2
    <3>2. ready'[k - 1] = ready[k]
      BY <1>2, <3>1
    <3> QED
      BY <1>3, <3>1, <3>2
  <2> QED
    BY <1>1, <1>4, <2>1, <2>2
<1> QED
  BY <1>1, <1>4 DEF InQueue

\* Appending to the queue leaves what is in it and adds what is appended.
LEMMA AppendKeeps ==
  ASSUME TypeOK, NEW q \in Seq(Work), ready' = ready \o q
  PROVE  /\ \A w \in Work : InQueue(w) => InQueue(w)'
         /\ \A j \in 1..Len(q) : InQueue(q[j])'
<1>1. /\ ready \in Seq(Work) /\ Len(ready) \in Nat /\ Len(q) \in Nat
      /\ DOMAIN ready = 1..Len(ready)
  BY LenProperties DEF TypeOK
<1>2. /\ ready' \in Seq(Work)
      /\ Len(ready') = Len(ready) + Len(q)
      /\ \A k \in 1..(Len(ready) + Len(q)) :
           ready'[k] = IF k <= Len(ready) THEN ready[k] ELSE q[k - Len(ready)]
  BY <1>1, ConcatProperties
<1>3. DOMAIN ready' = 1..(Len(ready) + Len(q))
  BY <1>2, LenProperties
<1>4. ASSUME NEW i \in 1..Len(ready) PROVE InQueue(ready[i])'
  <2>1. i \in 1..(Len(ready) + Len(q)) /\ i <= Len(ready)
    BY <1>1
  <2>2. ready'[i] = ready[i]
    BY <1>2, <2>1
  <2> QED
    BY <1>3, <2>1, <2>2 DEF InQueue
<1>5. ASSUME NEW j \in 1..Len(q) PROVE InQueue(q[j])'
  <2> DEFINE k == Len(ready) + j
  <2>1. k \in 1..(Len(ready) + Len(q)) /\ ~(k <= Len(ready)) /\ k - Len(ready) = j
    BY <1>1
  <2>2. ready'[k] = q[j]
    BY <1>2, <2>1
  <2> QED
    BY <1>3, <2>1, <2>2 DEF InQueue
<1> QED
  BY <1>1, <1>4, <1>5 DEF InQueue

\* When nothing runs, the limiters let the next one through.
LEMMA NothingRuns ==
  ASSUME IInv, running = {} PROVE \A i \in DOMAIN ready : CanStart(ready[i])
<1>1. Cardinality({}) = 0
  BY FS_EmptySet
<1>2. globalUsed = 0
  BY <1>1 DEF IInv, Counted
<1>3. \A s \in Step : InStep(s) = {} /\ stepUsed[s] = 0
  BY <1>1 DEF IInv, Counted, InStep
<1>4. \A s \in Step : StepNProc[s] \in Int
  BY StepAssumption
<1>5. GlobalNProc \in Int
  BY StepAssumption
<1> SUFFICES ASSUME NEW i \in DOMAIN ready PROVE CanStart(ready[i])
  OBVIOUS
<1>6. StepOf[ready[i]] \in Step
  BY StepAssumption, ElementOfSeq, LenProperties DEF IInv, TypeOK
<1> QED
  BY <1>2, <1>3, <1>4, <1>5, <1>6, LimitPositive DEF CanStart

-----------------------------------------------------------------------------
(***************************************************************************)
(* Every action preserves the invariants.                                  *)
(***************************************************************************)

LEMMA AwaitedStep == IInv /\ Awaited /\ [Next]_vars => Awaited'
<1> SUFFICES ASSUME IInv, Awaited, [Next]_vars, pc' = "select" PROVE running' # {}
  BY DEF Awaited
<1>1. CASE RunWaits
  <2>1. running' = running /\ ready \in Seq(Work)
    BY <1>1 DEF RunWaits, maps, IInv, TypeOK
  <2>2. \A i \in DOMAIN ready : ~CanStart(ready[i])
    BY <1>1 DEF RunWaits, Exhausted
  <2>3. ready # <<>> => 1 \in DOMAIN ready
    <3>1. ready # <<>> => Len(ready) \in Nat \ {0}
      BY <2>1, EmptySeq
    <3>2. DOMAIN ready = 1..Len(ready)
      BY <2>1, LenProperties
    <3> QED
      BY <3>1, <3>2
  <2> QED
    BY <1>1, <2>1, <2>2, <2>3, NothingRuns DEF RunWaits
<1>2. CASE Cancel \/ UNCHANGED vars \/ \E w \in Work : ProcessStep(w)
  BY <1>2 DEF Cancel, ProcessStep, Exit, Terminate, GraceExpires, ExitTerminated,
              ExitKilled, Rest, Awaited, vars, maps, control
<1>3. CASE \/ Start \/ StartFails \/ RunCompletes \/ RunCancelled
           \/ OpenStep \/ DrainStep \/ Close \/ MarkRootFinalFails
           \/ \E w \in Work : Receive(w)
  BY <1>3 DEF OpenStep, Open, NormalizeFails, MarkRootRunningFails,
              LoadStatusesFails, Command, Start, StartFails, RunCompletes, Return,
              RunCancelled, DrainStep, Drain, DrainFails, DrainEnds, Close,
              MarkRootFinalFails, Receive, ReceiveFinished, ReceiveError,
              ReceiveInterrupted, ReceiveFails, control
<1> QED
  BY <1>1, <1>2, <1>3 DEF Next, LoopStep

LEMMA SignalledStep == IInv /\ Signalled /\ [Next]_vars => Signalled'
<1> SUFFICES ASSUME IInv, Signalled, [Next]_vars PROVE Signalled'
  OBVIOUS
<1> USE DEF IInv
<1>1. CASE OpenStep
  <2>1. /\ pc = "stopped" /\ proc' = proc
    BY <1>1 DEF OpenStep, Open, NormalizeFails, MarkRootRunningFails,
                LoadStatusesFails, Command
  <2>2. \A w \in Work : proc[w] = "idle"
    BY <2>1 DEF Spawned, TypeOK
  <2> QED
    BY <2>1, <2>2 DEF Signalled
<1>2. CASE Start
  <2>1. PICK w : proc' = [proc EXCEPT ![w] = "running"]
    BY <1>2 DEF Start
  <2>2. cancelled' = cancelled
    BY <1>2 DEF Start, control
  <2> QED
    BY <2>1, <2>2 DEF Signalled, TypeOK
<1>3. ASSUME NEW w \in Work, Receive(w) \/ Drain(w) \/ DrainFails(w)
      PROVE  Signalled'
  <2>1. proc' = [proc EXCEPT ![w] = "idle"]
    BY <1>3 DEF Receive, ReceiveFinished, ReceiveError, ReceiveInterrupted,
                ReceiveFails, Drain, DrainFails, Received
  <2>2. cancelled => cancelled'
    BY <1>3 DEF Receive, ReceiveFinished, ReceiveError, ReceiveInterrupted,
                ReceiveFails, Drain, DrainFails, control
  <2> QED
    BY <2>1, <2>2 DEF Signalled, TypeOK
<1>4. ASSUME NEW w \in Work, ProcessStep(w) PROVE Signalled'
  <2>1. cancelled' = cancelled
    BY <1>4 DEF ProcessStep, Exit, Terminate, GraceExpires, ExitTerminated,
                ExitKilled, Rest, control
  <2>2. PICK to \in Alive \cup Exited :
          /\ proc' = [proc EXCEPT ![w] = to]
          /\ to \in {"terminating", "killed", "INTERRUPTED"} => cancelled
    BY <1>4 DEF ProcessStep, Exit, Terminate, GraceExpires, ExitTerminated,
                ExitKilled, Signal, Alive, Exited, Signalled
  <2> QED
    BY <2>1, <2>2 DEF Signalled, TypeOK
<1>5. CASE \/ StartFails \/ RunCompletes \/ RunCancelled \/ RunWaits \/ DrainEnds
           \/ Cancel \/ Close \/ MarkRootFinalFails \/ UNCHANGED vars
  BY <1>5 DEF StartFails, RunCompletes, RunCancelled, RunWaits, DrainEnds, Cancel,
              Close, MarkRootFinalFails, Signalled, vars, control
<1> QED
  BY <1>1, <1>2, <1>3, <1>4, <1>5 DEF Next, LoopStep, DrainStep

\* The children that a success was the last to keep waiting are queued.
LEMMA ReceiveFinishedOffers ==
  ASSUME IInv, Offered, NEW w \in Work, ReceiveFinished(w) PROVE Offered'
<1> USE DEF IInv
<1> DEFINE pending == {c \in Children(w) : statuses'[c] # "FINISHED"}
           released == {c \in pending : depsLeft'[c] = 0}
<1>1. /\ pc = "select" /\ cancelled' = cancelled
      /\ statuses' = [statuses EXCEPT ![w] = "FINISHED"]
      /\ statuses[w] = "RUNNING"
      /\ depsLeft' = [c \in Work |-> IF c \in pending /\ depsLeft[c] > 0
                                     THEN depsLeft[c] - 1 ELSE depsLeft[c]]
  BY DEF ReceiveFinished, Received, Recorded
<1>2. PICK q \in ManifestOrder(released) : ready' = ready \o q
  BY DEF ReceiveFinished
<1>3. released \in SUBSET Work
  BY DEF Children
<1> SUFFICES ASSUME ~cancelled, NEW v \in Work,
                    statuses'[v] \in {"NOTSTARTED", "INTERRUPTED", "BLOCKED"},
                    \A d \in Deps[v] : statuses'[d] = "FINISHED"
             PROVE  InQueue(v)'
  BY <1>1 DEF Offered
<1>4. v # w /\ statuses[v] = statuses'[v]
  BY <1>1 DEF TypeOK
<1>5. \A d \in Deps[v] : d # w => statuses[d] = "FINISHED"
  BY <1>1, DepsAssumption DEF TypeOK
<1>6. q \in Seq(Work) /\ \A c \in released : \E j \in 1..Len(q) : q[j] = c
  <2> HIDE DEF released
  <2> QED
    BY <1>3, ManifestOrderProperties, ManifestOrderComplete
<1>7. CASE w \notin Deps[v]
  <2>1. InQueue(v)
    BY <1>1, <1>4, <1>5, <1>7 DEF Offered
  <2> QED
    BY <1>2, <1>6, <2>1, AppendKeeps
<1>8. CASE w \in Deps[v]
  <2>1. {x \in Deps[v] : statuses[x] # "FINISHED"} = {w}
    BY <1>1, <1>5, <1>8
  <2>2. Unfinished(statuses, v) = 1
    BY <2>1, FS_Singleton DEF Unfinished
  <2>3. depsLeft[v] = 1
    BY <1>1, <1>4, <2>2 DEF Counting
  <2>4. v \in pending
    BY <1>8 DEF Children
  <2>5. v \in released
    BY <1>1, <2>3, <2>4
  <2> HIDE DEF released
  <2>6. PICK j \in 1..Len(q) : q[j] = v
    BY <1>6, <2>5
  <2> QED
    BY <1>2, <1>6, <2>6, AppendKeeps
<1> QED
  BY <1>7, <1>8

\* An error blocks workpackages that could not start anyway.
LEMMA ReceiveErrorOffers ==
  ASSUME IInv, Offered, NEW w \in Work, ReceiveError(w) PROVE Offered'
<1> USE DEF IInv
<1> DEFINE st == [statuses EXCEPT ![w] = "ERROR"]
<1>1. /\ pc = "select" /\ ready' = ready /\ (cancelled => cancelled')
      /\ statuses[w] = "RUNNING"
  BY DEF ReceiveError, Received, Recorded
<1>2. PICK u : statuses' = [c \in Work |-> IF c \in MarkBlocked(st, w, u)
                                           THEN "BLOCKED" ELSE st[c]]
  BY DEF ReceiveError
<1> DEFINE blocked == MarkBlocked(st, w, u)
<1>3. \A c \in blocked : c \in Children(w) \/ \E x \in blocked \ u : c \in Children(x)
  BY MarkBlockedReason
<1>4. st \in [Work -> Status] /\ st[w] = "ERROR" /\ \A v \in Work : v # w => st[v] = statuses[v]
  BY DEF TypeOK, Status
<1>5. blocked \subseteq Work /\ w \notin blocked
  <2> HIDE DEF st
  <2> QED
    BY <1>4 DEF MarkBlocked, Blockable
<1> HIDE DEF st, blocked
<1>6. statuses' = [c \in Work |-> IF c \in blocked THEN "BLOCKED" ELSE st[c]]
  BY <1>2 DEF st, blocked
<1> SUFFICES ASSUME ~cancelled, NEW v \in Work,
                    statuses'[v] \in {"NOTSTARTED", "INTERRUPTED", "BLOCKED"},
                    \A d \in Deps[v] : statuses'[d] = "FINISHED"
             PROVE  InQueue(v)
  BY <1>1 DEF Offered, InQueue
<1>7. \A d \in Deps[v] : d # w /\ d \notin blocked
  BY <1>4, <1>5, <1>6, DepsAssumption
<1>8. v \notin blocked
  BY <1>3, <1>5, <1>7 DEF Children
<1>9. v # w /\ statuses[v] = statuses'[v]
  BY <1>4, <1>6, <1>8
<1>10. \A d \in Deps[v] : statuses[d] = "FINISHED"
  BY <1>4, <1>6, <1>7, DepsAssumption
<1> QED
  BY <1>1, <1>9, <1>10 DEF Offered

LEMMA OfferedStep == IInv /\ Signalled /\ Offered /\ [Next]_vars => Offered'
<1> SUFFICES ASSUME IInv, Signalled, Offered, [Next]_vars PROVE Offered'
  OBVIOUS
<1> USE DEF IInv
<1>1. CASE Open
  <2> DEFINE S == InitialReady(statuses')
  <2>1. ready' \in ManifestOrder(S) /\ S \in SUBSET Work
    BY <1>1 DEF Open, InitialReady
  <2>2. \A w \in S : InQueue(w)'
    <3> HIDE DEF S
    <3>1. ready' \in Seq(Work) /\ DOMAIN ready' = 1..Len(ready')
      BY <2>1, ManifestOrderProperties, LenProperties
    <3> QED
      BY <2>1, <3>1, ManifestOrderComplete DEF InQueue
  <2>3. ASSUME NEW w \in Work, statuses'[w] \in {"NOTSTARTED", "INTERRUPTED", "BLOCKED"},
               \A d \in Deps[w] : statuses'[d] = "FINISHED"
        PROVE  w \in S
    <3>1. {x \in Deps[w] : statuses'[x] # "FINISHED"} = {}
      BY <2>3
    <3>2. Unfinished(statuses', w) = 0
      BY <3>1, FS_EmptySet DEF Unfinished
    <3> QED
      BY <2>3, <3>2 DEF InitialReady
  <2> QED
    BY <2>2, <2>3 DEF Offered
<1>2. CASE Start
  <2>1. PICK i \in DOMAIN ready :
          /\ ready' = RemoveAt(ready, i)
          /\ statuses' = [statuses EXCEPT ![ready[i]] = "RUNNING"]
    BY <1>2 DEF Start
  <2>2. pc = "loop" /\ ~cancelled /\ ready[i] \in Work
    BY <1>2, ElementOfSeq, LenProperties DEF Start, TypeOK
  <2>3. ASSUME NEW w \in Work, statuses'[w] \in {"NOTSTARTED", "INTERRUPTED", "BLOCKED"},
               \A d \in Deps[w] : statuses'[d] = "FINISHED"
        PROVE  InQueue(w)'
    <3>1. w # ready[i] /\ statuses'[w] = statuses[w]
      BY <2>1, <2>2, <2>3 DEF TypeOK
    <3>2. \A d \in Deps[w] : statuses[d] = "FINISHED"
      BY <2>1, <2>2, <2>3, DepsAssumption DEF TypeOK
    <3>3. InQueue(w)
      BY <2>2, <2>3, <3>1, <3>2 DEF Offered
    <3> QED
      BY <2>1, <3>1, <3>3, DequeueKeeps
  <2> QED
    BY <2>3 DEF Offered
<1>3. ASSUME NEW w \in Work, ReceiveFinished(w) \/ ReceiveError(w) PROVE Offered'
  BY <1>3, ReceiveFinishedOffers, ReceiveErrorOffers
<1>4. ASSUME NEW w \in Work, ReceiveInterrupted(w) PROVE Offered'
  BY <1>4 DEF ReceiveInterrupted, Signalled, Offered
<1>5. CASE RunWaits \/ Cancel \/ UNCHANGED vars \/ \E w \in Work : ProcessStep(w)
  <2>1. UNCHANGED <<statuses, ready>> /\ (cancelled => cancelled')
    BY <1>5 DEF RunWaits, Cancel, ProcessStep, Exit, Terminate, GraceExpires,
                ExitTerminated, ExitKilled, Rest, vars, maps, control
  <2>2. pc' \in {"loop", "select"} => pc \in {"loop", "select"}
    BY <1>5 DEF RunWaits, Cancel, ProcessStep, Exit, Terminate, GraceExpires,
                ExitTerminated, ExitKilled, Rest, vars, control
  <2> QED
    BY <2>1, <2>2 DEF Offered, InQueue
<1>6. CASE \/ NormalizeFails \/ MarkRootRunningFails \/ LoadStatusesFails
           \/ StartFails \/ RunCompletes \/ RunCancelled \/ DrainStep \/ Close
           \/ MarkRootFinalFails \/ \E w \in Work : ReceiveFails(w)
  BY <1>6 DEF NormalizeFails, MarkRootRunningFails, LoadStatusesFails, Command,
              StartFails, RunCompletes, Return, RunCancelled, DrainStep, Drain,
              DrainFails, DrainEnds, Close, MarkRootFinalFails, ReceiveFails,
              Offered, control
<1> QED
  BY <1>1, <1>2, <1>3, <1>4, <1>5, <1>6 DEF Next, OpenStep, LoopStep, Receive

\* When Run completes without having been cancelled, nothing runs and what is
\* not FINISHED, ERROR or RUNNING has a dependency that is not FINISHED.
LEMMA CompletedWaiting ==
  ASSUME IInv, Offered, RunCompletes, ~cancelled
  PROVE  /\ running = {}
         /\ \A w \in Work : statuses[w] \in {"NOTSTARTED", "INTERRUPTED", "BLOCKED"} =>
              \E d \in Deps[w] : statuses[d] # "FINISHED"
<1>1. /\ pc = "loop" /\ running = {}
      /\ \A i \in DOMAIN ready : ~CanStart(ready[i])
  BY DEF RunCompletes, Exhausted, AllTerminal
<1>2. \A w \in Work : ~InQueue(w)
  BY <1>1, NothingRuns DEF InQueue
<1> QED
  BY <1>1, <1>2 DEF Offered

\* The first BLOCKED workpackage of a run that has completed waits for one
\* that failed.
LEMMA CompletedBlocked ==
  ASSUME IInv, Offered, RunCompletes, ~cancelled,
         \A w \in Work : statuses[w] \in {"FINISHED", "ERROR", "BLOCKED"},
         \E w \in Work : statuses[w] # "FINISHED"
  PROVE  \E w \in Work : statuses[w] = "ERROR"
<1> DEFINE T == {w \in Work : statuses[w] # "FINISHED"}
<1>1. PICK w \in T : \A v \in T : ~(v < w)
  BY FirstWork
<1>2. \A d \in Deps[w] : d < w /\ d \in Work
  BY DepsAssumption
<1>3. \A d \in Deps[w] : statuses[d] = "FINISHED"
  BY <1>1, <1>2
<1>4. statuses[w] # "BLOCKED"
  BY <1>3, CompletedWaiting
<1> QED
  BY <1>4

LEMMA ResultStep == IInv /\ Offered /\ ResultTrue /\ [Next]_vars => ResultTrue'
<1> SUFFICES ASSUME IInv, Offered, ResultTrue, [Next]_vars, pc' = "returned"
             PROVE  /\ result' = "FINISHED" => \A w \in Work : disk'[w] = "FINISHED"
                    /\ result' = "ERROR" /\ ~failed' /\ ~cancelled' =>
                         \E w \in Work : disk'[w] = "ERROR"
                    /\ failed' => result' = "ERROR"
  BY DEF ResultTrue
<1>1. CASE RunCompletes
  <2>1. /\ disk' = statuses /\ cancelled' = cancelled /\ ~failed'
        /\ result' = FinalStatus
        /\ statuses \in [Work -> Status]
    BY <1>1 DEF RunCompletes, Return, IInv, Synced, TypeOK
  <2>2. CASE \E w \in Work : statuses[w] \in {"INTERRUPTED", "NOTSTARTED", "RUNNING"}
    BY <2>1, <2>2 DEF FinalStatus
  <2>3. CASE \A w \in Work : statuses[w] \notin {"INTERRUPTED", "NOTSTARTED", "RUNNING"}
    <3>1. \A w \in Work : statuses[w] \in {"FINISHED", "ERROR", "BLOCKED"}
      BY <2>1, <2>3 DEF Status
    <3>2. CASE \E w \in Work : statuses[w] # "FINISHED"
      <4>1. result' = "ERROR"
        BY <2>1, <2>3, <3>1, <3>2 DEF FinalStatus
      <4>2. ~cancelled => \E w \in Work : statuses[w] = "ERROR"
        BY <1>1, <3>1, <3>2, CompletedBlocked
      <4> QED
        BY <2>1, <4>1, <4>2
    <3>3. CASE \A w \in Work : statuses[w] = "FINISHED"
      BY <2>1, <3>3 DEF FinalStatus
    <3> QED
      BY <3>2, <3>3
  <2> QED
    BY <2>2, <2>3
<1>2. CASE DrainEnds
  BY <1>2 DEF DrainEnds, Return
<1>3. CASE LoadStatusesFails
  BY <1>3 DEF LoadStatusesFails
<1>4. CASE UNCHANGED vars \/ \E w \in Work : ProcessStep(w)
  BY <1>4 DEF ProcessStep, Exit, Terminate, GraceExpires, ExitTerminated, ExitKilled,
              Rest, vars, control, ResultTrue
<1>5. CASE \/ Open \/ NormalizeFails \/ MarkRootRunningFails \/ Start \/ StartFails
           \/ RunCancelled \/ RunWaits \/ Cancel \/ Close \/ MarkRootFinalFails
           \/ \E w \in Work : Receive(w) \/ Drain(w) \/ DrainFails(w)
  BY <1>5 DEF Open, NormalizeFails, MarkRootRunningFails, Command, Start, StartFails,
              RunCancelled, RunWaits, Cancel, Close, MarkRootFinalFails, Receive,
              ReceiveFinished, ReceiveError, ReceiveInterrupted, ReceiveFails, Drain,
              DrainFails, control
<1> QED
  BY <1>1, <1>2, <1>3, <1>4, <1>5 DEF Next, OpenStep, LoopStep, DrainStep

LEMMA OutcomeInvariance == Spec => []OInv
<1>1. Init => OInv
  BY InitInv DEF Init, OInv, Awaited, Signalled, Offered, ResultTrue
<1>2. OInv /\ [Next]_vars => OInv'
  BY NextInv, AwaitedStep, SignalledStep, OfferedStep, ResultStep DEF OInv
<1> QED
  BY <1>1, <1>2, PTL DEF Spec

-----------------------------------------------------------------------------
(***************************************************************************)
(* What follows.                                                           *)
(***************************************************************************)

\* Run never waits for a result that nobody will send, and it returns only
\* when every goroutine has delivered its result.
THEOREM NothingOrphaned == Spec => []NoOrphans
<1>1. OInv => NoOrphans
  BY DEF OInv, IInv, Spawned, Awaited, NoOrphans
<1> QED
  BY <1>1, OutcomeInvariance, PTL

\* What Run returns is what the run directory shows, for every manifest and
\* any number of failing writes.
THEOREM ResultIsTrue == Spec => []ResultTrue
<1>1. OInv => ResultTrue
  BY DEF OInv
<1> QED
  BY <1>1, OutcomeInvariance, PTL

\* A success that arrives while the run drains is not recorded.
THEOREM DrainDropsSuccess == Spec => DrainRecordsNoSuccess
<1> DEFINE Kept == pc = "drain" =>
              \A w \in Work : disk'[w] = "FINISHED" => disk[w] = "FINISHED"
<1>1. ASSUME TypeOK, [Next]_vars PROVE Kept
  <2>1. ASSUME NEW w \in Work, Drain(w) \/ DrainFails(w) PROVE Kept
    <3>1. \E o \in WriteOutcome : disk' = WriteStatus(w, "INTERRUPTED", o)
      BY <2>1 DEF Drain, DrainFails, FinishFails, WriteOutcome
    <3> QED
      BY <1>1, <3>1 DEF WriteStatus, TypeOK
  <2>2. CASE \/ DrainEnds \/ Cancel \/ RunCancelled \/ UNCHANGED vars
             \/ \E w \in Work : ProcessStep(w)
    BY <2>2 DEF DrainEnds, Cancel, RunCancelled, ProcessStep, Exit, Terminate,
                GraceExpires, ExitTerminated, ExitKilled, Rest, vars
  <2>3. CASE \/ OpenStep \/ Start \/ StartFails \/ RunCompletes \/ RunWaits
             \/ Close \/ MarkRootFinalFails \/ \E w \in Work : Receive(w)
    BY <2>3 DEF OpenStep, Open, NormalizeFails, MarkRootRunningFails,
                LoadStatusesFails, Command, Start, StartFails, RunCompletes, RunWaits,
                Close, MarkRootFinalFails, Receive, ReceiveFinished, ReceiveError,
                ReceiveInterrupted, ReceiveFails
  <2> QED
    BY <1>1, <2>1, <2>2, <2>3 DEF Next, LoopStep, DrainStep
<1>2. TypeOK /\ [Next]_vars => [Kept]_vars
  BY <1>1
<1> QED
  BY <1>2, TypeCorrect, PTL DEF Spec, DrainRecordsNoSuccess

-----------------------------------------------------------------------------
(***************************************************************************)
(* Failed dependencies, when every status can be written.                  *)
(***************************************************************************)

\* The scheduler drains only when it is cancelled.
Draining == pc = "drain" => cancelled

\* Whatever has been tried had all its dependencies FINISHED.
Tried ==
  \A w \in Work : statuses[w] \in {"FINISHED", "RUNNING", "ERROR", "INTERRUPTED"} =>
    \A d \in Deps[w] : statuses[d] = "FINISHED"

\* Below a failure everything is BLOCKED.
BlockedBelow ==
  \A w \in Work : \A d \in Deps[w] :
    statuses[d] \in {"ERROR", "BLOCKED"} => statuses[w] = "BLOCKED"

FInv ==
  /\ OInv /\ disk = statuses /\ Draining /\ Tried /\ BlockedBelow
  /\ FailedDependencyBlocks

\* markBlocked reaches the children of the failed workpackage and of those
\* that it has reached and could record.
LEMMA MarkBlockedClosed ==
  ASSUME NEW st, NEW w \in Work, NEW u
  PROVE  /\ Children(w) \cap Blockable(st) \subseteq MarkBlocked(st, w, u)
         /\ \A x \in MarkBlocked(st, w, u) \ u :
              Children(x) \cap Blockable(st) \subseteq MarkBlocked(st, w, u)
<1> DEFINE all == Blockable(st)
           below(x) == Children(x) \cap all
           closed(S) == below(w) \subseteq S /\ \A x \in S \ u : below(x) \subseteq S
           M == MarkBlocked(st, w, u)
<1>1. M = {x \in all : \A S \in SUBSET all : closed(S) => x \in S}
  BY DEF MarkBlocked
<1> HIDE DEF M, all
<1>2. below(w) \subseteq M
  BY <1>1
<1>3. ASSUME NEW x \in M \ u PROVE below(x) \subseteq M
  <2>1. ASSUME NEW S \in SUBSET all, closed(S) PROVE below(x) \subseteq S
    BY <1>1, <2>1
  <2> QED
    BY <1>1, <2>1
<1> QED
  BY <1>2, <1>3 DEF M, all

\* Trying what may start, and recording how it went, leaves them in place.
LEMMA TriedStep ==
  ASSUME Tried, BlockedBelow,
         \A w \in Work : \/ statuses'[w] = statuses[w]
                        \/ /\ statuses'[w] \in {"RUNNING", "INTERRUPTED", "FINISHED"}
                           /\ \A d \in Deps[w] : statuses[d] = "FINISHED",
         \A w \in Work : statuses[w] = "FINISHED" => statuses'[w] = "FINISHED"
  PROVE  Tried' /\ BlockedBelow'
<1>1. \A w \in Work : \A d \in Deps[w] : d \in Work
  BY DepsAssumption
<1>2. Tried'
  BY <1>1 DEF Tried
<1>3. ASSUME NEW w \in Work, NEW d \in Deps[w], statuses'[d] \in {"ERROR", "BLOCKED"}
      PROVE  statuses'[w] = "BLOCKED"
  <2>1. statuses'[d] = statuses[d]
    BY <1>1, <1>3
  <2>2. statuses[w] = "BLOCKED"
    BY <1>3, <2>1 DEF BlockedBelow
  <2>3. statuses[d] # "FINISHED"
    BY <1>3, <2>1
  <2> QED
    BY <2>2, <2>3
<1> QED
  BY <1>2, <1>3 DEF BlockedBelow

\* An error blocks everything below it that is not blocked.
LEMMA ErrorBlocks ==
  ASSUME IInv, Tried, BlockedBelow, NEW w \in Work,
         statuses[w] = "RUNNING",
         NEW blocked, blocked = MarkBlocked([statuses EXCEPT ![w] = "ERROR"], w, {}),
         statuses' = [c \in Work |-> IF c \in blocked THEN "BLOCKED"
                                     ELSE [statuses EXCEPT ![w] = "ERROR"][c]]
  PROVE  Tried' /\ BlockedBelow'
<1> DEFINE st == [statuses EXCEPT ![w] = "ERROR"]
<1>1. /\ st[w] = "ERROR" /\ \A v \in Work : v # w => st[v] = statuses[v]
      /\ \A v \in Work : statuses[v] \in Status
  BY DEF IInv, TypeOK
<1>2. \A v \in Work : \A d \in Deps[v] : d \in Work
  BY DepsAssumption
<1>3. /\ blocked \subseteq Blockable(st)
      /\ Children(w) \cap Blockable(st) \subseteq blocked
      /\ \A x \in blocked : Children(x) \cap Blockable(st) \subseteq blocked
  <2>1. blocked \subseteq Blockable(st)
    BY DEF MarkBlocked
  <2> HIDE DEF st
  <2> QED
    BY <2>1, MarkBlockedClosed DEF st
<1> HIDE DEF st
<1>4. statuses' = [c \in Work |-> IF c \in blocked THEN "BLOCKED" ELSE st[c]]
  BY DEF st
<1>5. \A x \in blocked :
        x \in Work /\ x # w /\ statuses[x] \notin {"FINISHED", "RUNNING", "ERROR", "BLOCKED"}
  BY <1>1, <1>3 DEF Blockable
<1>6. \A v \in Work : statuses[v] = "FINISHED" => statuses'[v] = "FINISHED"
  BY <1>1, <1>4, <1>5
<1>7. ASSUME NEW v \in Work,
             statuses'[v] \in {"FINISHED", "RUNNING", "ERROR", "INTERRUPTED"}
      PROVE  \A d \in Deps[v] : statuses'[d] = "FINISHED"
  <2>1. \A d \in Deps[v] : statuses[d] = "FINISHED"
    BY <1>1, <1>4, <1>7 DEF Tried
  <2> QED
    BY <1>2, <1>6, <2>1
<1>8. ASSUME NEW v \in Work, NEW d \in Deps[v], statuses'[d] \in {"ERROR", "BLOCKED"}
      PROVE  statuses'[v] = "BLOCKED"
  <2>1. d \in Work /\ v \in Children(d)
    BY <1>2 DEF Children
  <2>2. statuses[d] # "FINISHED"
    BY <1>6, <1>8, <2>1
  <2>3. statuses[v] \in {"NOTSTARTED", "BLOCKED"} /\ v # w
    BY <1>1, <2>2 DEF Tried, Status
  <2>4. CASE statuses[v] = "BLOCKED"
    BY <1>1, <1>4, <2>3, <2>4
  <2>5. CASE statuses[v] = "NOTSTARTED"
    <3>1. v \in Blockable(st)
      BY <1>1, <2>3, <2>5 DEF Blockable
    <3>2. d = w \/ d \in blocked
      <4>1. d \notin blocked /\ d # w => statuses[d] \in {"ERROR", "BLOCKED"}
        BY <1>1, <1>4, <1>8, <2>1
      <4> QED
        BY <2>5, <4>1 DEF BlockedBelow
    <3>3. v \in blocked
      BY <1>3, <2>1, <3>1, <3>2
    <3> QED
      BY <1>4, <3>3
  <2> QED
    BY <2>3, <2>4, <2>5
<1> QED
  BY <1>7, <1>8 DEF Tried, BlockedBelow

\* When Run completes, what has not been tried is BLOCKED.
LEMMA CompletedSettled ==
  ASSUME IInv, Offered, BlockedBelow, RunCompletes, ~cancelled
  PROVE  \A w \in Work :
           /\ statuses[w] \in {"FINISHED", "ERROR", "BLOCKED"}
           /\ statuses[w] = "BLOCKED" <=>
                \E d \in Deps[w] : statuses[d] \in {"ERROR", "BLOCKED"}
<1> DEFINE T == {w \in Work : statuses[w] \notin {"FINISHED", "ERROR", "BLOCKED"}}
<1>1. \A w \in Work : \A d \in Deps[w] : d < w /\ d \in Work
  BY DepsAssumption
<1>2. ASSUME T # {} PROVE FALSE
  <2>1. PICK w \in T : \A v \in T : ~(v < w)
    BY <1>2, FirstWork
  <2>2. statuses[w] \in {"NOTSTARTED", "INTERRUPTED"}
    BY <2>1, CompletedWaiting DEF RunCompletes, IInv, TypeOK, Status, Recorded
  <2>3. PICK d \in Deps[w] : statuses[d] # "FINISHED"
    BY <2>2, CompletedWaiting
  <2>4. statuses[d] \in {"ERROR", "BLOCKED"}
    BY <1>1, <2>1, <2>3
  <2> QED
    BY <2>2, <2>4 DEF BlockedBelow
<1>3. \A w \in Work : statuses[w] \in {"FINISHED", "ERROR", "BLOCKED"}
  BY <1>2
<1>4. ASSUME NEW w \in Work, statuses[w] = "BLOCKED"
      PROVE  \E d \in Deps[w] : statuses[d] \in {"ERROR", "BLOCKED"}
  <2>1. PICK d \in Deps[w] : statuses[d] # "FINISHED"
    BY <1>4, CompletedWaiting
  <2> QED
    BY <1>1, <1>3, <2>1
<1> QED
  BY <1>3, <1>4 DEF BlockedBelow

LEMMA FaultlessStep ==
  ASSUME MaxFaults = 0, FInv, [Next]_vars
  PROVE  /\ disk' = statuses' /\ Draining' /\ Tried' /\ BlockedBelow'
         /\ FailedDependencyBlocks'
<1> USE DEF FInv, OInv, IInv
<1>1. faults = 0 /\ ~CountFaults(1)
  BY DEF TypeOK, CountFaults
<1>2. CASE Open
  <2>1. /\ disk' = Normalized(statuses) /\ statuses' = disk' /\ pc' = "loop"
    BY <1>2 DEF Open
  <2>2. \A w \in Work : /\ statuses[w] = "RUNNING" => statuses'[w] = "INTERRUPTED"
                        /\ statuses[w] # "RUNNING" => statuses'[w] = statuses[w]
    BY <2>1 DEF Normalized
  <2>3. Tried' /\ BlockedBelow'
    BY <2>2, TriedStep DEF Tried
  <2> QED
    BY <2>1, <2>3 DEF Draining, FailedDependencyBlocks
<1>3. CASE Start
  <2>1. PICK i \in DOMAIN ready :
          /\ statuses' = [statuses EXCEPT ![ready[i]] = "RUNNING"]
          /\ disk' = [disk EXCEPT ![ready[i]] = "RUNNING"]
    BY <1>3 DEF Start, WriteStatus
  <2>2. /\ pc = "loop" /\ pc' = "loop" /\ ready[i] \in Work
    BY <1>3, ElementOfSeq, LenProperties DEF Start, TypeOK, control
  <2>3. /\ statuses[ready[i]] # "FINISHED"
        /\ \A d \in Deps[ready[i]] : statuses[d] = "FINISHED"
    BY <2>2 DEF Queued
  <2>4. Tried' /\ BlockedBelow'
    BY <2>1, <2>2, <2>3, TriedStep DEF TypeOK
  <2> QED
    BY <2>1, <2>2, <2>4 DEF Draining, FailedDependencyBlocks
<1>4. ASSUME NEW w \in Work, ReceiveError(w)
      PROVE  /\ disk' = statuses' /\ Draining' /\ Tried' /\ BlockedBelow'
             /\ FailedDependencyBlocks'
  <2> DEFINE st == [statuses EXCEPT ![w] = "ERROR"]
  <2>1. PICK lost \in SUBSET Work, landed \in SUBSET Work :
          /\ CountFaults(Cardinality(lost \cup landed))
          /\ statuses' = [c \in Work |-> IF c \in MarkBlocked(st, w, lost \cup landed)
                                         THEN "BLOCKED" ELSE st[c]]
          /\ disk' = [c \in Work |->
                        IF c = w THEN "ERROR"
                        ELSE IF c \in MarkBlocked(st, w, lost \cup landed) \ lost
                             THEN "BLOCKED" ELSE disk[c]]
          /\ pc' = (IF lost \cup landed = {} THEN "loop" ELSE "drain")
    BY <1>4 DEF ReceiveError
  <2>2. lost \cup landed = {}
    <3> DEFINE u == lost \cup landed
    <3>1. IsFiniteSet(u) /\ Cardinality(u) \in Nat
      BY WorkFinite, FS_Subset, FS_CardinalityType
    <3>2. CountFaults(Cardinality(u))
      BY <2>1
    <3> HIDE DEF u
    <3>3. Cardinality(u) = 0
      BY <1>1, <3>1, <3>2 DEF CountFaults
    <3>4. u = {}
      BY <3>1, <3>3, FS_EmptySet
    <3> QED
      BY <3>4 DEF u
  <2>3. lost \cup landed = {} /\ lost = {}
    BY <2>2
  <2> DEFINE blocked == MarkBlocked(st, w, {})
  <2>4. /\ statuses' = [c \in Work |-> IF c \in blocked THEN "BLOCKED" ELSE st[c]]
        /\ disk' = [c \in Work |-> IF c = w THEN "ERROR"
                                   ELSE IF c \in blocked \ {} THEN "BLOCKED" ELSE disk[c]]
        /\ pc' = "loop"
    BY <2>1, <2>3
  <2>5. statuses[w] = "RUNNING"
    BY <1>4 DEF ReceiveError, Received, Recorded
  <2>6. Tried' /\ BlockedBelow'
    <3> HIDE DEF blocked
    <3> QED
      BY <2>4, <2>5, ErrorBlocks DEF blocked
  <2>7. w \notin blocked /\ st[w] = "ERROR" /\ \A c \in Work : c # w => st[c] = statuses[c]
    <3>1. st[w] = "ERROR" /\ \A c \in Work : c # w => st[c] = statuses[c]
      BY DEF TypeOK
    <3> HIDE DEF st
    <3>2. w \notin blocked
      BY <3>1 DEF MarkBlocked, Blockable
    <3> QED
      BY <3>1, <3>2
  <2> HIDE DEF st, blocked
  <2>8. \A c \in Work : disk'[c] = statuses'[c]
    BY <2>4, <2>7
  <2>9. disk' = statuses'
    BY <2>4, <2>8
  <2> QED
    BY <2>4, <2>6, <2>9 DEF Draining, FailedDependencyBlocks
<1>5. ASSUME NEW w \in Work,
             ReceiveFinished(w) \/ ReceiveInterrupted(w) \/ Drain(w)
      PROVE  /\ disk' = statuses' /\ Draining' /\ Tried' /\ BlockedBelow'
             /\ FailedDependencyBlocks'
  <2>1. PICK s \in {"FINISHED", "INTERRUPTED"} :
          /\ statuses' = [statuses EXCEPT ![w] = s]
          /\ disk' = [disk EXCEPT ![w] = s]
    BY <1>5 DEF ReceiveFinished, ReceiveInterrupted, Drain, WriteStatus
  <2>2. /\ pc' # "returned" /\ (pc' = "drain" => pc = "drain" /\ cancelled' = cancelled)
    BY <1>5 DEF ReceiveFinished, ReceiveInterrupted, Drain, control
  <2>3. statuses[w] = "RUNNING" /\ \A d \in Deps[w] : statuses[d] = "FINISHED"
    BY <1>5 DEF ReceiveFinished, ReceiveInterrupted, Drain, Received, Recorded
  <2>4. Tried' /\ BlockedBelow'
    BY <2>1, <2>3, TriedStep DEF TypeOK
  <2> QED
    BY <2>1, <2>2, <2>4 DEF Draining, FailedDependencyBlocks
<1>6. CASE \/ RunCompletes \/ RunCancelled \/ RunWaits \/ DrainEnds \/ Cancel \/ Close
           \/ UNCHANGED vars \/ \E w \in Work : ProcessStep(w)
  <2>1. UNCHANGED <<disk, statuses, failed>>
    BY <1>6 DEF RunCompletes, RunCancelled, RunWaits, DrainEnds, Cancel, Close,
                ProcessStep, Exit, Terminate, GraceExpires, ExitTerminated, ExitKilled,
                Rest, vars, maps, control
  <2>2. Tried' /\ BlockedBelow'
    BY <2>1 DEF Tried, BlockedBelow
  <2>3. Draining'
    BY <1>6 DEF RunCompletes, RunCancelled, RunWaits, DrainEnds, Cancel, Close, Return,
                ProcessStep, Exit, Terminate, GraceExpires, ExitTerminated, ExitKilled,
                Rest, vars, control, Draining
  <2>4. pc' = "returned" /\ ~cancelled' =>
          (RunCompletes /\ ~cancelled) \/ (pc = "returned" /\ ~cancelled)
    BY <1>6 DEF RunCompletes, RunCancelled, RunWaits, DrainEnds, Cancel, Close, Return,
                ProcessStep, Exit, Terminate, GraceExpires, ExitTerminated, ExitKilled,
                Rest, vars, control, Draining
  <2>5. FailedDependencyBlocks'
    BY <2>1, <2>4, CompletedSettled DEF FailedDependencyBlocks
  <2> QED
    BY <2>1, <2>2, <2>3, <2>5
<1>7. /\ ~NormalizeFails /\ ~MarkRootRunningFails /\ ~LoadStatusesFails /\ ~StartFails
      /\ ~MarkRootFinalFails
      /\ \A w \in Work : ~ReceiveFails(w) /\ ~DrainFails(w)
  BY <1>1 DEF NormalizeFails, MarkRootRunningFails, LoadStatusesFails, StartFails,
              MarkRootFinalFails, ReceiveFails, DrainFails, FinishFails
<1> QED
  BY <1>2, <1>3, <1>4, <1>5, <1>6, <1>7 DEF Next, OpenStep, LoopStep, DrainStep, Receive

\* As long as every status can be written, a run that is not cancelled leaves
\* exactly the workpackages below a failure without a run, and those are
\* BLOCKED, after any number of interruptions and continuations.  With failing
\* writes it does not hold, see the run scheduler_blocked_gap.
THEOREM FailedDependenciesBlock ==
  ASSUME MaxFaults = 0 PROVE Spec => []FailedDependencyBlocks
<1>1. Init => FInv
  <2> SUFFICES ASSUME Init PROVE FInv
    OBVIOUS
  <2>1. IInv
    BY InitInv
  <2>2. Awaited /\ Signalled /\ Offered /\ ResultTrue /\ Draining /\ FailedDependencyBlocks
    BY DEF Init, Awaited, Signalled, Offered, ResultTrue, Draining, FailedDependencyBlocks
  <2>3. \A w \in Work : statuses[w] = "NOTSTARTED"
    BY DEF Init
  <2>4. Tried
    BY <2>3 DEF Tried
  <2>5. BlockedBelow
    <3> SUFFICES ASSUME NEW w \in Work, NEW d \in Deps[w] PROVE statuses[d] = "NOTSTARTED"
      BY DEF BlockedBelow
    <3>1. d \in Work
      BY DepsAssumption
    <3> QED
      BY <2>3, <3>1
  <2>6. disk = statuses
    BY DEF Init
  <2> QED
    BY <2>1, <2>2, <2>4, <2>5, <2>6 DEF FInv, OInv
<1>2. FInv /\ [Next]_vars => FInv'
  <2>1. OInv /\ [Next]_vars => OInv'
    BY NextInv, AwaitedStep, SignalledStep, OfferedStep, ResultStep DEF OInv
  <2> QED
    BY <2>1, FaultlessStep DEF FInv
<1>3. FInv => FailedDependencyBlocks
  BY DEF FInv
<1> QED
  BY <1>1, <1>2, <1>3, PTL DEF Spec
=============================================================================
