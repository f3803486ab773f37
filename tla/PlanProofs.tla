----------------------------- MODULE PlanProofs -----------------------------
(***************************************************************************)
(* Proofs about planning (StepScopes, WorkPlan, RuntimePlan, Analyse): the *)
(* plan is in order, and the tables of a run are replaced together.  Then  *)
(* about what names mean (StepScopes, WorkPlan): a name has the same       *)
(* meaning in a step and in all its dependencies, its value is that of     *)
(* its column in every row a workpackage stands for, and rows are combined *)
(* only with rows they go with.                                            *)
(***************************************************************************)
EXTENDS Analyse, FiniteSetTheorems, WellFoundedInduction, TLAPS

-----------------------------------------------------------------------------
(***************************************************************************)
(* Numbers and sequences.                                                  *)
(***************************************************************************)
\* A nonempty set of natural numbers has a least one.
LEMMA Least ==
  ASSUME NEW T, T \subseteq Nat, T # {}
  PROVE  \E i \in T : \A j \in T : i <= j
<1> DEFINE R == OpToRel(<, Nat)
<1>1. \E i \in T : \A j \in T : ~(<<j, i>> \in R)
  <2> HIDE DEF R
  <2>1. IsWellFoundedOn(R, Nat)
    BY NatLessThanWellFounded DEF R
  <2> QED
    BY <2>1, WFMin
<1>2. PICK i \in T : \A j \in T : ~(<<j, i>> \in R)
  BY <1>1
<1>3. ASSUME NEW j \in T PROVE i <= j
  <2>1. i \in Nat /\ j \in Nat /\ ~(j < i)
    BY <1>2 DEF OpToRel
  <2> QED
    BY <2>1
<1> QED
  BY <1>3

\* What upTo is in Picked.
Picking(f, s, places, N) ==
  f = [n \in 0..N |-> IF n = 0 THEN <<>> ELSE IF n \in places THEN Append(f[n - 1], s[n]) ELSE f[n - 1]]

\* The elements of s at the first n places, in order.
PickedUpTo(t, s, places, n) ==
  /\ t \in Seq(ToSet(s))
  /\ \E at \in [1..Len(t) -> places \cap 1..n] :
       /\ \A j, k \in 1..Len(t) : j < k => at[j] < at[k]
       /\ \A k \in 1..Len(t) : t[k] = s[at[k]]
       /\ \A i \in places \cap 1..n : \E k \in 1..Len(t) : at[k] = i

\* The recursion in Picked has a solution.
LEMMA PickingExists ==
  ASSUME NEW s, NEW places, NEW N \in Nat
  PROVE  \E f : Picking(f, s, places, N)
<1> DEFINE T == {m \in Nat : ~ \E f : Picking(f, s, places, m)}
<1> SUFFICES ASSUME T # {} PROVE FALSE
  OBVIOUS
<1>1. PICK m \in T : \A j \in T : m <= j
  BY Least
<1>2. m # 0
  <2>1. Picking([n \in 0..0 |-> <<>>], s, places, 0)
    BY DEF Picking
  <2> QED
    BY <2>1
<1>3. PICK f : Picking(f, s, places, m - 1)
  BY <1>1, <1>2
<1> DEFINE last == IF m \in places THEN Append(f[m - 1], s[m]) ELSE f[m - 1]
           g == [n \in 0..m |-> IF n = m THEN last ELSE f[n]]
<1>4. Picking(g, s, places, m)
  <2> DEFINE body(n) == IF n = 0 THEN <<>> ELSE IF n \in places THEN Append(g[n - 1], s[n]) ELSE g[n - 1]
  <2>1. ASSUME NEW n \in 0..m PROVE g[n] = body(n)
    <3>1. CASE n = m
      <4>1. g[m - 1] = f[m - 1] /\ g[n] = last
        BY <1>2, <3>1
      <4> QED
        BY <1>2, <3>1, <4>1
    <3>2. CASE n # m
      <4>1. n \in 0..(m - 1) /\ g[n] = f[n]
        BY <3>2
      <4>2. n # 0 => g[n - 1] = f[n - 1]
        BY <3>2
      <4>3. f[n] = IF n = 0 THEN <<>> ELSE IF n \in places THEN Append(f[n - 1], s[n]) ELSE f[n - 1]
        BY <1>3, <4>1 DEF Picking
      <4> QED
        BY <4>1, <4>2, <4>3
    <3> QED
      BY <3>1, <3>2
  <2>2. g = [n \in 0..m |-> body(n)]
    BY <2>1
  <2> QED
    BY <2>2 DEF Picking
<1> QED
  BY <1>1, <1>4

\* What Picked is.
LEMMA PickedIs ==
  ASSUME NEW s, s \in Seq(ToSet(s)), NEW places
  PROVE  PickedUpTo(Picked(s, places), s, places, Len(s))
<1> DEFINE f == CHOOSE f : Picking(f, s, places, Len(s))
<1>1. Picking(f, s, places, Len(s))
  BY PickingExists
<1>2. Picked(s, places) = f[Len(s)]
  BY DEF Picked, Picking
<1> HIDE DEF f
<1> DEFINE T == {n \in 0..Len(s) : ~PickedUpTo(f[n], s, places, n)}
<1> SUFFICES ASSUME T # {} PROVE FALSE
  BY <1>2
<1>0. T \subseteq Nat /\ Len(s) \in Nat
  OBVIOUS
<1>3. PICK m \in T : \A j \in T : m <= j
  BY <1>0, Least
<1>4. m # 0
  <2>1. f[0] = <<>>
    BY <1>1 DEF Picking
  <2>2. PickedUpTo(<<>>, s, places, 0)
    <3>1. PICK at : at = [k \in 1..0 |-> 0]
      OBVIOUS
    <3>2. at \in [1..0 -> places \cap 1..0]
      BY <3>1
    <3>3. PICK e : e = <<>>
      OBVIOUS
    <3>4. e \in Seq(ToSet(s)) /\ Len(e) = 0
      BY <3>3
    <3>5. \A k \in 1..0 : FALSE
      OBVIOUS
    <3>6. at \in [1..Len(e) -> places \cap 1..0]
      BY <3>2, <3>4
    <3>7. PickedUpTo(e, s, places, 0)
      BY <3>4, <3>5, <3>6 DEF PickedUpTo
    <3> QED
      BY <3>3, <3>7
  <2> QED
    BY <2>1, <2>2
<1>5. m \in 1..Len(s) /\ m - 1 \in 0..Len(s) /\ m \in DOMAIN s
  BY <1>0, <1>4
<1>6. PickedUpTo(f[m - 1], s, places, m - 1)
  BY <1>3, <1>5
<1>7. f[m] = IF m \in places THEN Append(f[m - 1], s[m]) ELSE f[m - 1]
  <2>1. \A n \in 0..Len(s) :
          f[n] = IF n = 0 THEN <<>> ELSE IF n \in places THEN Append(f[n - 1], s[n]) ELSE f[n - 1]
    BY <1>1 DEF Picking
  <2>2. m \in 0..Len(s) /\ m # 0
    BY <1>5
  <2> QED
    BY <2>1, <2>2
<1>8. PICK t : t = f[m - 1]
  OBVIOUS
<1>9. PICK at \in [1..Len(t) -> places \cap 1..(m - 1)] :
       /\ \A j, k \in 1..Len(t) : j < k => at[j] < at[k]
       /\ \A k \in 1..Len(t) : t[k] = s[at[k]]
       /\ \A i \in places \cap 1..(m - 1) : \E k \in 1..Len(t) : at[k] = i
  BY <1>6, <1>8 DEF PickedUpTo
<1>10. t \in Seq(ToSet(s)) /\ Len(t) \in Nat
  BY <1>6, <1>8 DEF PickedUpTo
<1>11. CASE m \in places
  <2> DEFINE to == [k \in 1..(Len(t) + 1) |-> IF k = Len(t) + 1 THEN m ELSE at[k]]
  <2>1. PICK u : u = Append(t, s[m])
    OBVIOUS
  <2>2. /\ u \in Seq(ToSet(s)) /\ Len(u) = Len(t) + 1 /\ u[Len(t) + 1] = s[m]
        /\ \A k \in 1..Len(t) : u[k] = t[k]
    <3>1. s[m] \in ToSet(s)
      BY <1>5 DEF ToSet
    <3> QED
      BY <1>10, <2>1, <3>1
  <2>3. to \in [1..Len(u) -> places \cap 1..m]
    BY <1>5, <1>9, <1>10, <1>11, <2>2
  <2>4. \A j, k \in 1..Len(u) : j < k => to[j] < to[k]
    <3> SUFFICES ASSUME NEW j \in 1..Len(u), NEW k \in 1..Len(u), j < k
                 PROVE  to[j] < to[k]
      OBVIOUS
    <3>1. CASE k = Len(t) + 1
      <4>1. at[j] \in 1..(m - 1) /\ to[j] = at[j] /\ to[k] = m
        BY <1>9, <1>10, <2>2, <3>1
      <4> QED
        BY <1>5, <4>1
    <3>2. CASE k # Len(t) + 1
      <4>1. j \in 1..Len(t) /\ k \in 1..Len(t) /\ j # Len(t) + 1
        BY <1>10, <2>2, <3>2
      <4>2. to[j] = at[j] /\ to[k] = at[k]
        BY <2>2, <3>2, <4>1
      <4> HIDE DEF to
      <4> QED
        BY <1>9, <4>1, <4>2
    <3> QED
      BY <3>1, <3>2
  <2>5. \A k \in 1..Len(u) : u[k] = s[to[k]]
    BY <1>9, <1>10, <2>2
  <2>6. \A i \in places \cap 1..m : \E k \in 1..Len(u) : to[k] = i
    <3> SUFFICES ASSUME NEW i \in places \cap 1..m
                 PROVE  \E k \in 1..Len(u) : to[k] = i
      OBVIOUS
    <3>1. CASE i = m
      BY <1>10, <2>2, <3>1
    <3>2. CASE i # m
      <4>0. i \in places \cap 1..(m - 1)
        BY <1>5, <3>2
      <4>1. PICK k \in 1..Len(t) : at[k] = i
        BY <1>9, <4>0
      <4>2. k \in 1..Len(u) /\ to[k] = at[k]
        BY <1>10, <2>2
      <4> QED
        BY <4>1, <4>2
    <3> QED
      BY <3>1, <3>2
  <2> HIDE DEF to
  <2>7. PickedUpTo(u, s, places, m)
    BY <2>2, <2>3, <2>4, <2>5, <2>6 DEF PickedUpTo
  <2> QED
    BY <1>3, <1>7, <1>8, <1>11, <2>1, <2>7
<1>12. CASE m \notin places
  <2>1. places \cap 1..m = places \cap 1..(m - 1)
    BY <1>5, <1>12
  <2>2. PickedUpTo(t, s, places, m)
    BY <1>6, <1>8, <2>1 DEF PickedUpTo
  <2> QED
    BY <1>3, <1>7, <1>8, <1>12, <2>2
<1> QED
  BY <1>11, <1>12

\* What flatten is in FlattenSeq.
Flattening(f, ss, N) == f = [i \in 1..N |-> IF i = 1 THEN ss[i] ELSE f[i - 1] \o ss[i]]

\* The elements of the first n sequences of ss, each at one place.
FlatUpTo(t, B, ss, n) ==
  /\ t \in Seq(B)
  /\ \E at \in [1..Len(t) -> (1..n) \X Nat] :
       /\ \A k \in 1..Len(t) : at[k][2] \in 1..Len(ss[at[k][1]]) /\ t[k] = ss[at[k][1]][at[k][2]]
       /\ \A j, k \in 1..Len(t) : at[j] = at[k] => j = k
       /\ \A i \in 1..n : \A j \in 1..Len(ss[i]) : \E k \in 1..Len(t) : at[k] = <<i, j>>

\* The recursion in FlattenSeq has a solution.
LEMMA FlatteningExists ==
  ASSUME NEW ss, NEW N \in Nat
  PROVE  \E f : Flattening(f, ss, N)
<1> DEFINE T == {m \in Nat : ~ \E f : Flattening(f, ss, m)}
<1> SUFFICES ASSUME T # {} PROVE FALSE
  OBVIOUS
<1>1. PICK m \in T : \A j \in T : m <= j
  BY Least
<1>2. m # 0
  <2> DEFINE e == [i \in 1..0 |-> 0]
  <2>1. e = [i \in 1..0 |-> IF i = 1 THEN ss[i] ELSE e[i - 1] \o ss[i]]
    OBVIOUS
  <2> QED
    BY <2>1 DEF Flattening
<1>3. PICK f : Flattening(f, ss, m - 1)
  BY <1>1, <1>2
<1> DEFINE last == IF m = 1 THEN ss[m] ELSE f[m - 1] \o ss[m]
           g == [i \in 1..m |-> IF i = m THEN last ELSE f[i]]
<1>4. Flattening(g, ss, m)
  <2> DEFINE body(i) == IF i = 1 THEN ss[i] ELSE g[i - 1] \o ss[i]
  <2>1. ASSUME NEW i \in 1..m PROVE g[i] = body(i)
    <3>1. CASE i = m
      <4>1. g[i] = last /\ (m # 1 => g[m - 1] = f[m - 1])
        BY <1>2, <3>1
      <4> QED
        BY <1>2, <3>1, <4>1
    <3>2. CASE i # m
      <4>1. i \in 1..(m - 1) /\ g[i] = f[i]
        BY <3>2
      <4>2. i # 1 => g[i - 1] = f[i - 1]
        BY <3>2
      <4>3. f[i] = IF i = 1 THEN ss[i] ELSE f[i - 1] \o ss[i]
        BY <1>3, <4>1 DEF Flattening
      <4> QED
        BY <4>1, <4>2, <4>3
    <3> QED
      BY <3>1, <3>2
  <2>2. g = [i \in 1..m |-> body(i)]
    BY <2>1
  <2> QED
    BY <2>2 DEF Flattening
<1> QED
  BY <1>1, <1>4

\* One more sequence.
LEMMA FlatNext ==
  ASSUME NEW B, NEW ss, NEW n \in Nat, NEW t, FlatUpTo(t, B, ss, n), ss[n + 1] \in Seq(B)
  PROVE  FlatUpTo(t \o ss[n + 1], B, ss, n + 1)
<1>1. PICK at \in [1..Len(t) -> (1..n) \X Nat] :
       /\ \A k \in 1..Len(t) : at[k][2] \in 1..Len(ss[at[k][1]]) /\ t[k] = ss[at[k][1]][at[k][2]]
       /\ \A j, k \in 1..Len(t) : at[j] = at[k] => j = k
       /\ \A i \in 1..n : \A j \in 1..Len(ss[i]) : \E k \in 1..Len(t) : at[k] = <<i, j>>
  BY DEF FlatUpTo
<1>2. PICK a : a = ss[n + 1]
  OBVIOUS
<1>3. PICK u : u = t \o a
  OBVIOUS
<1>4. /\ t \in Seq(B) /\ Len(t) \in Nat /\ a \in Seq(B) /\ Len(a) \in Nat
      /\ u \in Seq(B) /\ Len(u) = Len(t) + Len(a)
      /\ \A k \in 1..Len(t) : u[k] = t[k]
      /\ \A j \in 1..Len(a) : u[Len(t) + j] = a[j]
  <2>1. t \in Seq(B) /\ a \in Seq(B)
    BY <1>2 DEF FlatUpTo
  <2> QED
    BY <1>3, <2>1
<1> DEFINE to == [k \in 1..Len(u) |-> IF k <= Len(t) THEN at[k] ELSE <<n + 1, k - Len(t)>>]
<1>5. \A k \in 1..Len(t) : k \in 1..Len(u) /\ to[k] = at[k] /\ at[k] \in (1..n) \X Nat
  <2> SUFFICES ASSUME NEW k \in 1..Len(t)
               PROVE  k \in 1..Len(u) /\ to[k] = at[k] /\ at[k] \in (1..n) \X Nat
    OBVIOUS
  <2>1. k \in 1..Len(u) /\ k <= Len(t)
    BY <1>4
  <2>2. at[k] \in (1..n) \X Nat
    OBVIOUS
  <2> QED
    BY <2>1, <2>2
<1>6. \A k \in 1..Len(u) : ~(k <= Len(t)) =>
        to[k] = <<n + 1, k - Len(t)>> /\ k - Len(t) \in 1..Len(a)
  BY <1>4
<1>7. to \in [1..Len(u) -> (1..(n + 1)) \X Nat]
  <2>1. ASSUME NEW k \in 1..Len(u) PROVE to[k] \in (1..(n + 1)) \X Nat
    <3>1. CASE k <= Len(t)
      <4>1. k \in 1..Len(t)
        BY <1>4, <3>1
      <4>2. to[k] \in (1..n) \X Nat
        BY <1>5, <4>1
      <4> QED
        BY <4>2
    <3>2. CASE ~(k <= Len(t))
      BY <1>4, <1>6, <3>2
    <3> QED
      BY <3>1, <3>2
  <2> QED
    BY <2>1
<1>8. \A k \in 1..Len(u) : to[k][2] \in 1..Len(ss[to[k][1]]) /\ u[k] = ss[to[k][1]][to[k][2]]
  <2> SUFFICES ASSUME NEW k \in 1..Len(u)
               PROVE  to[k][2] \in 1..Len(ss[to[k][1]]) /\ u[k] = ss[to[k][1]][to[k][2]]
    OBVIOUS
  <2>1. CASE k <= Len(t)
    <3>1. k \in 1..Len(t) /\ to[k] = at[k] /\ u[k] = t[k]
      BY <1>4, <1>5, <2>1
    <3> QED
      BY <1>1, <3>1
  <2>2. CASE ~(k <= Len(t))
    <3>1. PICK j \in 1..Len(a) : j = k - Len(t)
      BY <1>6, <2>2
    <3>2. to[k] = <<n + 1, j>> /\ k = Len(t) + j
      BY <1>4, <1>6, <2>2, <3>1
    <3>3. u[k] = a[j]
      BY <1>4, <3>2
    <3> QED
      BY <1>2, <3>2, <3>3
  <2> QED
    BY <2>1, <2>2
<1>9. \A j, k \in 1..Len(u) : to[j] = to[k] => j = k
  <2> SUFFICES ASSUME NEW j \in 1..Len(u), NEW k \in 1..Len(u), to[j] = to[k]
               PROVE  j = k
    OBVIOUS
  <2>1. CASE j <= Len(t) /\ k <= Len(t)
    BY <1>1, <1>4, <1>5, <2>1
  <2>2. CASE ~(j <= Len(t)) /\ ~(k <= Len(t))
    <3>1. j - Len(t) = k - Len(t)
      BY <1>6, <2>2
    <3> QED
      BY <1>4, <3>1
  <2>3. ASSUME NEW x \in 1..Len(u), NEW y \in 1..Len(u), x <= Len(t), ~(y <= Len(t))
        PROVE  to[x] # to[y]
    <3>1. x \in 1..Len(t) /\ to[x][1] \in 1..n
      BY <1>4, <1>5, <2>3
    <3>2. to[y][1] = n + 1
      BY <1>6, <2>3
    <3> QED
      BY <3>1, <3>2
  <2> QED
    BY <2>1, <2>2, <2>3
<1>10. \A i \in 1..(n + 1) : \A j \in 1..Len(ss[i]) : \E k \in 1..Len(u) : to[k] = <<i, j>>
  <2> SUFFICES ASSUME NEW i \in 1..(n + 1), NEW j \in 1..Len(ss[i])
               PROVE  \E k \in 1..Len(u) : to[k] = <<i, j>>
    OBVIOUS
  <2>1. CASE i = n + 1
    <3>1. j \in 1..Len(a)
      BY <1>2, <2>1
    <3>2. Len(t) + j \in 1..Len(u) /\ ~(Len(t) + j <= Len(t))
      BY <1>4, <3>1
    <3>3. to[Len(t) + j] = <<n + 1, j>>
      BY <1>4, <1>6, <3>1, <3>2
    <3> QED
      BY <2>1, <3>2, <3>3
  <2>2. CASE i # n + 1
    <3>1. i \in 1..n
      BY <2>2
    <3>2. PICK k \in 1..Len(t) : at[k] = <<i, j>>
      BY <1>1, <3>1
    <3> QED
      BY <1>5, <3>2
  <2> QED
    BY <2>1, <2>2
<1> HIDE DEF to
<1>11. FlatUpTo(u, B, ss, n + 1)
  BY <1>4, <1>7, <1>8, <1>9, <1>10 DEF FlatUpTo
<1> QED
  BY <1>2, <1>3, <1>11

\* What FlattenSeq is.
LEMMA FlatIs ==
  ASSUME NEW B, NEW ss, ss \in Seq(Seq(B))
  PROVE  FlatUpTo(FlattenSeq(ss), B, ss, Len(ss))
<1>0. Len(ss) \in Nat /\ \A i \in 1..Len(ss) : ss[i] \in Seq(B)
  OBVIOUS
<1>1. FlatUpTo(<<>>, B, ss, 0)
  <2>1. PICK at : at = [k \in 1..0 |-> <<0, 0>>]
    OBVIOUS
  <2>2. PICK e : e = <<>>
    OBVIOUS
  <2>3. e \in Seq(B) /\ Len(e) = 0 /\ \A k \in 1..0 : FALSE
    BY <2>2
  <2>4. at \in [1..Len(e) -> (1..0) \X Nat]
    BY <2>1, <2>3
  <2>5. FlatUpTo(e, B, ss, 0)
    BY <2>3, <2>4 DEF FlatUpTo
  <2> QED
    BY <2>2, <2>5
<1>2. CASE Len(ss) = 0
  <2>1. FlattenSeq(ss) = <<>>
    BY <1>2 DEF FlattenSeq
  <2> QED
    BY <1>1, <1>2, <2>1
<1>3. CASE Len(ss) # 0
  <2> DEFINE f == CHOOSE f : Flattening(f, ss, Len(ss))
  <2>1. Flattening(f, ss, Len(ss))
    BY <1>0, FlatteningExists
  <2>2. FlattenSeq(ss) = f[Len(ss)]
    BY <1>3 DEF FlattenSeq, Flattening
  <2> HIDE DEF f
  <2> DEFINE T == {n \in 1..Len(ss) : ~FlatUpTo(f[n], B, ss, n)}
  <2> SUFFICES ASSUME T # {} PROVE FALSE
    BY <1>0, <1>3, <2>2
  <2>3. T \subseteq Nat
    OBVIOUS
  <2>4. PICK m \in T : \A j \in T : m <= j
    BY <2>3, Least
  <2>5. \A i \in 1..Len(ss) : f[i] = IF i = 1 THEN ss[i] ELSE f[i - 1] \o ss[i]
    BY <2>1 DEF Flattening
  <2>6. CASE m = 1
    <3>1. PICK e, n, a : e = <<>> /\ n = 0 /\ a = ss[1]
      OBVIOUS
    <3>2. a \in Seq(B) /\ n \in Nat /\ n + 1 = 1 /\ 1 \in 1..Len(ss)
      BY <1>0, <1>3, <3>1
    <3>3. FlatUpTo(e \o ss[n + 1], B, ss, n + 1)
      <4>1. FlatUpTo(e, B, ss, n) /\ ss[n + 1] \in Seq(B)
        BY <1>1, <3>1, <3>2
      <4> QED
        BY <3>2, <4>1, FlatNext
    <3>4. e \o a = a
      BY <3>1, <3>2
    <3>5. f[1] = ss[1]
      BY <2>5, <3>2
    <3> QED
      BY <2>4, <2>6, <3>1, <3>2, <3>3, <3>4, <3>5
  <2>7. CASE m # 1
    <3>1. m - 1 \in 1..Len(ss) /\ m - 1 \in Nat /\ m \in 1..Len(ss)
      BY <2>3, <2>7
    <3>2. FlatUpTo(f[m - 1], B, ss, m - 1)
      BY <2>4, <3>1
    <3>3. PICK n \in Nat : n = m - 1
      BY <3>1
    <3>4. ss[n + 1] \in Seq(B) /\ n + 1 = m
      BY <1>0, <3>1, <3>3
    <3>5. FlatUpTo(f[n] \o ss[n + 1], B, ss, n + 1)
      BY <3>2, <3>3, <3>4, FlatNext
    <3> QED
      BY <2>4, <2>5, <2>7, <3>1, <3>3, <3>4, <3>5
  <2> QED
    BY <2>6, <2>7
<1> QED
  BY <1>2, <1>3

-----------------------------------------------------------------------------
(***************************************************************************)
(* The blocks of a program.                                                *)
(***************************************************************************)
\* A name has a block, the first of those with the name.
LEMMA BlockIs ==
  ASSUME NEW p \in Program, NEW name \in StepNames(p)
  PROVE  /\ \E b \in DOMAIN p : Block(p, name) = p[b]
         /\ Block(p, name).name = name
         /\ Block(p, name) \in ToSet(p)
         /\ Block(p, name).after \in Seq(ToSet(Block(p, name).after))
<1> DEFINE T == {b \in DOMAIN p : p[b].name = name}
<1>1. p \in Seq(ToSet(p)) /\ \A b \in DOMAIN p : p[b].after \in Seq(ToSet(p[b].after)) /\ p[b] \in ToSet(p)
  <2>1. \A b \in DOMAIN p : p[b] \in ToSet(p)
    BY DEF ToSet
  <2> QED
    BY <2>1, ProgramAssumption
<1>2. DOMAIN p = 1..Len(p) /\ Len(p) \in Nat
  BY <1>1
<1>3. T \subseteq Nat /\ T # {}
  BY <1>2 DEF StepNames
<1>4. PICK b \in T : \A c \in T : b <= c
  BY <1>3, Least
<1>5. b \in DOMAIN p /\ p[b].name = name /\ \A c \in 1..(b - 1) : p[c].name # name
  BY <1>2, <1>4
<1> DEFINE at == CHOOSE b1 \in DOMAIN p : p[b1].name = name /\ \A c \in 1..(b1 - 1) : p[c].name # name
<1>6. at \in DOMAIN p /\ p[at].name = name
  BY <1>5
<1>7. Block(p, name) = p[at]
  BY DEF Block
<1> HIDE DEF at
<1> QED
  BY <1>1, <1>6, <1>7

\* Unique drops repetitions and nothing else.
LEMMA UniqueIs ==
  ASSUME NEW s, s \in Seq(ToSet(s))
  PROVE  /\ Unique(s) \in Seq(ToSet(s))
         /\ ToSet(Unique(s)) = ToSet(s)
         /\ \A j, k \in 1..Len(Unique(s)) : Unique(s)[j] = Unique(s)[k] => j = k
<1> DEFINE P == {k \in DOMAIN s : \A j \in 1..(k - 1) : s[j] # s[k]}
<1>1. PICK t : t = Unique(s)
  OBVIOUS
<1>2. t = Picked(s, P)
  BY <1>1 DEF Unique
<1>3. DOMAIN s = 1..Len(s) /\ Len(s) \in Nat /\ P \cap 1..Len(s) = P /\ P \subseteq Nat
  OBVIOUS
<1>4. \A i, j \in P : s[i] = s[j] => i = j
  <2> SUFFICES ASSUME NEW i \in P, NEW j \in P, s[i] = s[j], i < j PROVE FALSE
    BY <1>3
  <2>1. i \in 1..(j - 1)
    BY <1>3
  <2> QED
    BY <2>1
<1>5. ASSUME NEW i \in DOMAIN s PROVE \E j \in P : s[j] = s[i]
  <2> DEFINE T == {j \in DOMAIN s : s[j] = s[i]}
  <2>1. T \subseteq Nat /\ T # {}
    BY <1>3
  <2>2. PICK j \in T : \A k \in T : j <= k
    BY <2>1, Least
  <2>3. \A k \in 1..(j - 1) : s[k] # s[j]
    BY <1>3, <2>2
  <2> QED
    BY <2>2, <2>3
<1> HIDE DEF P
<1>6. PickedUpTo(t, s, P, Len(s))
  BY <1>2, PickedIs
<1>7. t \in Seq(ToSet(s)) /\ Len(t) \in Nat /\ DOMAIN t = 1..Len(t)
  BY <1>6 DEF PickedUpTo
<1>8. PICK at \in [1..Len(t) -> P \cap 1..Len(s)] :
       /\ \A j, k \in 1..Len(t) : j < k => at[j] < at[k]
       /\ \A k \in 1..Len(t) : t[k] = s[at[k]]
       /\ \A i \in P \cap 1..Len(s) : \E k \in 1..Len(t) : at[k] = i
  BY <1>6 DEF PickedUpTo
<1>9. \A j, k \in 1..Len(t) : t[j] = t[k] => j = k
  <2> SUFFICES ASSUME NEW j \in 1..Len(t), NEW k \in 1..Len(t), t[j] = t[k] PROVE j = k
    OBVIOUS
  <2>1. at[j] \in P /\ at[k] \in P /\ at[j] \in Nat /\ at[k] \in Nat
    BY <1>3, <1>8
  <2>2. at[j] = at[k]
    BY <1>4, <1>8, <2>1
  <2> QED
    BY <1>7, <1>8, <2>1, <2>2
<1>10. ToSet(t) = ToSet(s)
  <2>1. ASSUME NEW x \in ToSet(t) PROVE x \in ToSet(s)
    BY <1>7, <2>1 DEF ToSet
  <2>2. ASSUME NEW x \in ToSet(s) PROVE x \in ToSet(t)
    <3>1. PICK i \in DOMAIN s : x = s[i]
      BY DEF ToSet
    <3>2. PICK j \in P : s[j] = s[i]
      BY <1>5
    <3>3. PICK k \in 1..Len(t) : at[k] = j
      BY <1>3, <1>8, <3>2
    <3>4. k \in DOMAIN t /\ x = t[k]
      BY <1>7, <1>8, <3>1, <3>2, <3>3
    <3> QED
      BY <3>4 DEF ToSet
  <2> QED
    BY <2>1, <2>2
<1> QED
  BY <1>1, <1>7, <1>9, <1>10

\* What a component needs has the dependencies of its members.
LEMMA RequiredClosed ==
  ASSUME NEW targets, NEW s \in Required(targets), NEW d, Edge(program, s, d)
  PROVE  d \in Required(targets)
<1>1. s \in StepNames(program) /\ d \in StepNames(program)
  BY DEF Edge
<1>2. CASE s \in targets
  <2>1. d \in Ancestors(program, s)
    BY <1>1 DEF Ancestors
  <2> QED
    BY <1>2, <2>1 DEF Required
<1>3. CASE s \notin targets
  <2>1. PICK t \in targets : s \in Ancestors(program, t)
    BY <1>3 DEF Required
  <2>2. d \in Ancestors(program, t)
    BY <1>1, <2>1 DEF Ancestors
  <2> QED
    BY <2>1, <2>2 DEF Required
<1> QED
  BY <1>2, <1>3

-----------------------------------------------------------------------------
(***************************************************************************)
(* Every workpackage comes after its dependencies.                         *)
(***************************************************************************)
\* The elements of a flattened sequence are those of its sequences.
LEMMA FlatIn ==
  ASSUME NEW B, NEW ss, ss \in Seq(Seq(B))
  PROVE  FlattenSeq(ss) \in Seq(B)
BY FlatIs DEF FlatUpTo

\* What is picked from a sequence is a sequence of its elements.
LEMMA PickedIn ==
  ASSUME NEW s, s \in Seq(ToSet(s)), NEW places
  PROVE  Picked(s, places) \in Seq(ToSet(s))
BY PickedIs DEF PickedUpTo

\* What DependenciesFirst says of one workpackage of a plan.
AfterItsDependencies(p, work, k) ==
  LET w == work[k] IN
  /\ [j \in DOMAIN w.parents |-> w.parents[j][1]] = Unique(Block(p, w.step).after)
  /\ \A d \in ToSet(w.parents) : \E j \in 1..(k - 1) : WorkId(work[j]) = d
  /\ \A j \in 1..(k - 1) : WorkId(work[j]) # WorkId(w)

InOrder(p, work) ==
  /\ work \in Seq(ToSet(work))
  /\ \A k \in DOMAIN work : work[k].step \in StepNames(p) /\ AfterItsDependencies(p, work, k)

\* Depth-first search finds every step once.
Ordering ==
  /\ program \in Program
  /\ order \in Seq(StepNames(program)) /\ IsInjective(order)
  /\ walk \in Seq(StepNames(program)) /\ IsInjective(walk)
  /\ ToSet(order) \cap ToSet(walk) = {}

\* The states of a step are the workpackages of the step.
StatesAreWork ==
  /\ \A s \in DOMAIN states : states[s] \in Seq({w \in ToSet(plan.work) : w.step = s})
  /\ \A w \in ToSet(plan.work) : w.step \in DOMAIN states

\* A state is made of one workpackage of each dependency that has been handled.
Combination(st, n, deps, work) ==
  /\ st.parents \in Seq({WorkId(w) : w \in ToSet(work)})
  /\ Len(st.parents) = n
  /\ \A j \in 1..n : st.parents[j][1] = deps[j]

Handled == IF part <= Len(Dependencies(Current)) THEN part ELSE Len(Dependencies(Current))

Growing ==
  /\ growing \in Seq(ToSet(growing))
  /\ \A st \in ToSet(growing) : Combination(st, Handled, Dependencies(Current), plan.work)

\* What is left to expand are imports of globals, for every step that is built.
Scoped ==
  /\ \A name \in DOMAIN scopes :
       /\ scopes[name].expansions \in Seq(ToSet(scopes[name].expansions))
       /\ \A e \in ToSet(scopes[name].expansions) : e.source \in Version
  /\ stage = "scopes" =>
       todo \in Seq(StepNames(program)) /\ ToSet(order) \subseteq DOMAIN scopes \cup ToSet(todo)
  /\ stage = "build" => ToSet(todo) \subseteq DOMAIN scopes

Building ==
  /\ stage \in {"check", "order", "scopes"} => states = <<>> /\ growing = <<EmptyState>> /\ part = 0
  /\ stage = "build" =>
       /\ todo \in Seq(StepNames(program)) /\ IsInjective(todo)
       /\ ToSet(todo) \cap DOMAIN states = {}
       /\ part \in Nat
       /\ todo # <<>> => Growing

PlanInv ==
  /\ Ordering /\ Scoped /\ StatesAreWork
  /\ InOrder(program, plan.work) /\ InOrder(program, chosen.work)
  /\ Building

\* A part of a plan that has the dependencies of its members is in order.
LEMMA PartInOrder ==
  ASSUME NEW p, NEW work, InOrder(p, work), NEW places, places \subseteq DOMAIN work,
         \A k \in places : \A d \in ToSet(work[k].parents) : \A j \in DOMAIN work :
            WorkId(work[j]) = d => j \in places
  PROVE  InOrder(p, Picked(work, places))
<1>1. PICK t : t = Picked(work, places)
  OBVIOUS
<1>2. work \in Seq(ToSet(work)) /\ DOMAIN work = 1..Len(work) /\ Len(work) \in Nat
  BY DEF InOrder
<1>3. PickedUpTo(t, work, places, Len(work))
  BY <1>1, <1>2, PickedIs
<1>4. t \in Seq(ToSet(work)) /\ Len(t) \in Nat /\ DOMAIN t = 1..Len(t)
  BY <1>3 DEF PickedUpTo
<1>5. PICK at \in [1..Len(t) -> places \cap 1..Len(work)] :
       /\ \A j, k \in 1..Len(t) : j < k => at[j] < at[k]
       /\ \A k \in 1..Len(t) : t[k] = work[at[k]]
       /\ \A i \in places \cap 1..Len(work) : \E k \in 1..Len(t) : at[k] = i
  BY <1>3 DEF PickedUpTo
<1>6. t \in Seq(ToSet(t))
  BY <1>4 DEF ToSet
<1>7. ASSUME NEW k \in DOMAIN t
      PROVE  t[k].step \in StepNames(p) /\ AfterItsDependencies(p, t, k)
  <2>1. PICK i \in places \cap 1..Len(work) : i = at[k] /\ t[k] = work[i]
    BY <1>4, <1>5
  <2>2. work[i].step \in StepNames(p) /\ AfterItsDependencies(p, work, i)
    BY <1>2, <2>1 DEF InOrder
  <2>3. \A j \in 1..(k - 1) : j \in 1..Len(t) /\ at[j] \in 1..(i - 1)
    <3> SUFFICES ASSUME NEW j \in 1..(k - 1) PROVE j \in 1..Len(t) /\ at[j] \in 1..(i - 1)
      OBVIOUS
    <3>1. j \in 1..Len(t) /\ j < k /\ k \in 1..Len(t)
      BY <1>4
    <3>2. at[j] \in 1..Len(work) /\ at[j] < at[k]
      BY <1>5, <3>1
    <3> QED
      BY <1>2, <2>1, <3>1, <3>2
  <2>4. \A d \in ToSet(t[k].parents) : \E j \in 1..(k - 1) : WorkId(t[j]) = d
    <3> SUFFICES ASSUME NEW d \in ToSet(t[k].parents)
                 PROVE  \E j \in 1..(k - 1) : WorkId(t[j]) = d
      OBVIOUS
    <3>1. d \in ToSet(work[i].parents)
      BY <2>1
    <3>2. PICK m \in 1..(i - 1) : WorkId(work[m]) = d
      BY <2>2, <3>1 DEF AfterItsDependencies
    <3>3. m \in DOMAIN work /\ m < i
      BY <1>2, <2>1
    <3>4. m \in places
      BY <2>1, <3>1, <3>2, <3>3
    <3>5. PICK j \in 1..Len(t) : at[j] = m
      BY <1>2, <1>5, <3>3, <3>4
    <3>6. j < k
      <4>1. j \in Nat /\ k \in 1..Len(t)
        BY <1>4
      <4>2. CASE k < j
        <5>1. at[k] < at[j]
          BY <1>5, <4>1, <4>2
        <5> QED
          BY <1>2, <2>1, <3>3, <3>5, <5>1
      <4>3. CASE k = j
        BY <1>2, <2>1, <3>3, <3>5, <4>3
      <4> QED
        BY <1>4, <4>1, <4>2, <4>3
    <3>7. j \in 1..(k - 1) /\ t[j] = work[m]
      BY <1>4, <1>5, <3>5, <3>6
    <3> QED
      BY <3>2, <3>7
  <2>5. \A j \in 1..(k - 1) : WorkId(t[j]) # WorkId(t[k])
    <3> SUFFICES ASSUME NEW j \in 1..(k - 1) PROVE WorkId(t[j]) # WorkId(t[k])
      OBVIOUS
    <3>1. j \in 1..Len(t) /\ at[j] \in 1..(i - 1) /\ t[j] = work[at[j]]
      BY <1>5, <2>3
    <3>2. WorkId(work[at[j]]) # WorkId(work[i])
      BY <2>2, <3>1 DEF AfterItsDependencies
    <3> QED
      BY <2>1, <3>1, <3>2
  <2> QED
    BY <2>1, <2>2, <2>4, <2>5 DEF AfterItsDependencies
<1> QED
  BY <1>1, <1>6, <1>7 DEF InOrder

\* A dependency of a workpackage is a workpackage of a step its step names.
LEMMA ParentsAreNamed ==
  ASSUME NEW p, NEW work, InOrder(p, work), p \in Program, NEW k \in DOMAIN work,
         NEW d \in ToSet(work[k].parents)
  PROVE  Edge(p, work[k].step, d[1])
<1>1. work[k].step \in StepNames(p) /\ AfterItsDependencies(p, work, k)
  BY DEF InOrder
<1>2. PICK after : after = Block(p, work[k].step).after
  OBVIOUS
<1>3. after \in Seq(ToSet(after))
  BY <1>1, <1>2, BlockIs
<1>4. PICK u : u = Unique(after)
  OBVIOUS
<1>5. u \in Seq(ToSet(after)) /\ ToSet(u) = ToSet(after)
  BY <1>3, <1>4, UniqueIs
<1>6. PICK ps : ps = work[k].parents
  OBVIOUS
<1>7. [j \in DOMAIN ps |-> ps[j][1]] = u
  BY <1>1, <1>2, <1>4, <1>6 DEF AfterItsDependencies
<1>8. PICK j \in DOMAIN ps : d = ps[j]
  BY <1>6 DEF ToSet
<1>9. j \in DOMAIN u /\ u[j] = d[1]
  BY <1>7, <1>8
<1>10. d[1] \in ToSet(after)
  BY <1>5, <1>9 DEF ToSet
<1>11. Contains(after, d[1])
  <2>1. PICK i \in DOMAIN after : after[i] = d[1]
    BY <1>10 DEF ToSet
  <2>2. i \in 1..Len(after)
    BY <1>3, <2>1
  <2> QED
    BY <2>1, <2>2 DEF Contains
<1>12. d[1] \in StepNames(p)
  <2>1. PICK m \in 1..(k - 1) : WorkId(work[m]) = d
    BY <1>1 DEF AfterItsDependencies
  <2>2. work \in Seq(ToSet(work))
    BY DEF InOrder
  <2>3. m \in DOMAIN work
    BY <2>1, <2>2
  <2>4. work[m].step \in StepNames(p)
    BY <2>3 DEF InOrder
  <2> QED
    BY <2>1, <2>4 DEF WorkId
<1> QED
  BY <1>1, <1>2, <1>11, <1>12 DEF Edge

\* The parts of the invariant a step leaves alone.
LEMMA NothingBuilt ==
  ASSUME PlanInv, UNCHANGED <<program, scopes, order, walk, states, growing, part, plan, chosen>>,
         \/ UNCHANGED <<stage, todo>>
         \/ stage' \notin {"check", "order", "scopes", "build"}
  PROVE  PlanInv'
<1>1. Ordering'
  BY DEF PlanInv, Ordering
<1>2. StatesAreWork'
  BY DEF PlanInv, StatesAreWork
<1>3. InOrder(program, plan.work)'
  BY DEF PlanInv
<1>4. InOrder(program, chosen.work)'
  BY DEF PlanInv
<1>5. CASE UNCHANGED <<stage, todo>>
  <2>1. Growing => Growing'
    BY <1>5 DEF Growing, Handled, Current
  <2>2. Building'
    BY <1>5, <2>1 DEF PlanInv, Building
  <2>3. Scoped'
    BY <1>5 DEF PlanInv, Scoped
  <2> QED
    BY <1>1, <1>2, <1>3, <1>4, <2>2, <2>3 DEF PlanInv
<1>6. CASE stage' \notin {"check", "order", "scopes", "build"}
  <2>1. Building'
    BY <1>6 DEF Building
  <2>2. Scoped'
    BY <1>6 DEF PlanInv, Scoped
  <2> QED
    BY <1>1, <1>2, <1>3, <1>4, <2>1, <2>2 DEF PlanInv
<1> QED
  BY <1>5, <1>6

\* A step before the plan is built: only the order of the steps may change.
LEMMA StillOrdering ==
  ASSUME PlanInv, Ordering', Scoped', stage \in {"check", "order", "scopes"},
         stage' \in {"check", "order", "scopes"},
         UNCHANGED <<program, states, growing, part, plan, chosen>>
  PROVE  PlanInv'
<1>1. StatesAreWork'
  BY DEF PlanInv, StatesAreWork
<1>2. InOrder(program, plan.work)' /\ InOrder(program, chosen.work)'
  BY DEF PlanInv
<1>3. Building'
  BY DEF PlanInv, Building
<1> QED
  BY <1>1, <1>2, <1>3 DEF PlanInv

\* The search meets a step it has not met.
LEMMA VisitKeeps ==
  ASSUME Ordering, Visit
  PROVE  Ordering'
<1>1. PICK x \in StepNames(program) \ (ToSet(order) \cup ToSet(walk)) : walk' = Append(walk, x)
  <2> DEFINE least == CHOOSE k \in Unvisited : \A j \in Unvisited : k <= j
  <2>1. Unvisited \subseteq DOMAIN Calls /\ Unvisited # {}
    BY DEF Visit, Unvisited
  <2>2. DOMAIN Calls \subseteq Nat
    <3>1. CASE walk = <<>>
      <4>1. program \in Seq(ToSet(program))
        BY ProgramAssumption DEF Ordering
      <4> QED
        BY <3>1, <4>1 DEF Calls
    <3>2. CASE walk # <<>>
      <4>1. Last(walk) \in StepNames(program)
        BY <3>2 DEF Ordering, Last
      <4>2. PICK after : after = Block(program, Last(walk)).after
        OBVIOUS
      <4>3. after \in Seq(ToSet(after))
        BY <4>1, <4>2, BlockIs DEF Ordering
      <4> QED
        BY <3>2, <4>2, <4>3 DEF Calls
    <3> QED
      BY <3>1, <3>2
  <2>3. \E k \in Unvisited : \A j \in Unvisited : k <= j
    BY <2>1, <2>2, Least
  <2>4. least \in Unvisited
    BY <2>3
  <2>5. walk' = Append(walk, Calls[least])
    BY DEF Visit
  <2> HIDE DEF least
  <2> QED
    BY <2>4, <2>5 DEF Unvisited
<1>2. UNCHANGED <<program, order>>
  BY DEF Visit
<1>3. PICK s \in Seq(StepNames(program)) : s = walk
  BY DEF Ordering
<1>4. PICK t : t = Append(s, x)
  OBVIOUS
<1>5. /\ t \in Seq(StepNames(program)) /\ Len(t) = Len(s) + 1 /\ t[Len(s) + 1] = x /\ Len(s) \in Nat
      /\ DOMAIN t = 1..Len(t) /\ DOMAIN s = 1..Len(s)
      /\ \A i \in 1..Len(s) : t[i] = s[i]
  BY <1>3, <1>4
<1>6. ToSet(t) = ToSet(s) \cup {x}
  <2>1. ASSUME NEW y \in ToSet(t) PROVE y \in ToSet(s) \cup {x}
    <3>1. PICK i \in 1..Len(t) : y = t[i]
      BY <1>5 DEF ToSet
    <3>2. i = Len(s) + 1 \/ i \in 1..Len(s)
      BY <1>5
    <3> QED
      BY <1>5, <3>1, <3>2 DEF ToSet
  <2>2. ASSUME NEW y \in ToSet(s) \cup {x} PROVE y \in ToSet(t)
    <3>1. CASE y = x
      BY <1>5, <3>1 DEF ToSet
    <3>2. CASE y \in ToSet(s)
      <4>1. PICK i \in 1..Len(s) : y = s[i]
        BY <1>5, <3>2 DEF ToSet
      <4> QED
        BY <1>5, <4>1 DEF ToSet
    <3> QED
      BY <3>1, <3>2
  <2> QED
    BY <2>1, <2>2
<1>7. IsInjective(t)
  <2> SUFFICES ASSUME NEW i \in 1..Len(t), NEW j \in 1..Len(t), t[i] = t[j] PROVE i = j
    BY <1>5 DEF IsInjective
  <2>1. x \notin ToSet(s)
    BY <1>1, <1>3
  <2>2. \A k \in 1..Len(s) : t[k] # x
    BY <1>5, <2>1 DEF ToSet
  <2>3. IsInjective(s)
    BY <1>3 DEF Ordering
  <2>4. CASE i \in 1..Len(s) /\ j \in 1..Len(s)
    BY <1>5, <2>3, <2>4 DEF IsInjective
  <2> QED
    BY <1>5, <2>2, <2>4
<1> QED
  BY <1>1, <1>2, <1>3, <1>4, <1>5, <1>6, <1>7 DEF Ordering

\* The search leaves a step.
LEMMA VisitedKeeps ==
  ASSUME Ordering, Visited
  PROVE  Ordering'
<1>1. PICK s \in Seq(StepNames(program)) : s = walk
  BY DEF Ordering
<1>2. PICK o \in Seq(StepNames(program)) : o = order
  BY DEF Ordering
<1>3. s # <<>> /\ Len(s) \in Nat \ {0} /\ DOMAIN s = 1..Len(s) /\ DOMAIN o = 1..Len(o) /\ Len(o) \in Nat
  BY <1>1, <1>2 DEF Visited
<1>4. PICK x \in StepNames(program) : x = s[Len(s)]
  BY <1>3
<1>5. PICK f : f = Front(s)
  OBVIOUS
<1>6. PICK t : t = Append(o, x)
  OBVIOUS
<1>7. /\ f \in Seq(StepNames(program)) /\ Len(f) = Len(s) - 1 /\ DOMAIN f = 1..Len(f)
      /\ \A i \in 1..Len(f) : f[i] = s[i]
  BY <1>3, <1>5 DEF Front
<1>8. /\ t \in Seq(StepNames(program)) /\ Len(t) = Len(o) + 1 /\ t[Len(o) + 1] = x
      /\ DOMAIN t = 1..Len(t)
      /\ \A i \in 1..Len(o) : t[i] = o[i]
  BY <1>3, <1>6
<1>9. program' = program /\ order' = t /\ walk' = f
  BY <1>1, <1>2, <1>4, <1>5, <1>6 DEF Visited, Last
<1>10. \A i, j \in 1..Len(s) : s[i] = s[j] => i = j
  BY <1>1, <1>3 DEF Ordering, IsInjective
<1>11. \A i, j \in 1..Len(o) : o[i] = o[j] => i = j
  BY <1>2, <1>3 DEF Ordering, IsInjective
<1>12. \A i \in 1..Len(o), j \in 1..Len(s) : o[i] # s[j]
  <2>1. \A i \in 1..Len(o), j \in 1..Len(s) : o[i] \in ToSet(o) /\ s[j] \in ToSet(s)
    BY <1>3 DEF ToSet
  <2>2. ToSet(o) \cap ToSet(s) = {}
    BY <1>1, <1>2 DEF Ordering
  <2> QED
    BY <2>1, <2>2
<1>13. IsInjective(f)
  BY <1>3, <1>7, <1>10 DEF IsInjective
<1>14. IsInjective(t)
  <2> SUFFICES ASSUME NEW i \in 1..Len(t), NEW j \in 1..Len(t), t[i] = t[j] PROVE i = j
    BY <1>8 DEF IsInjective
  <2>1. \A k \in 1..Len(o) : t[k] # x
    BY <1>3, <1>4, <1>8, <1>12
  <2>2. CASE i \in 1..Len(o) /\ j \in 1..Len(o)
    BY <1>8, <1>11, <2>2
  <2> QED
    BY <1>3, <1>8, <2>1, <2>2
<1>15. ToSet(t) \cap ToSet(f) = {}
  <2> SUFFICES ASSUME NEW i \in 1..Len(t), NEW j \in 1..Len(f), t[i] = f[j] PROVE FALSE
    BY <1>7, <1>8 DEF ToSet
  <2>1. f[j] = s[j]
    BY <1>7
  <2>4. j \in 1..Len(s) /\ j # Len(s)
    <3>1. PICK n \in Nat : n = Len(s) /\ Len(f) = n - 1
      BY <1>3, <1>7
    <3> QED
      BY <3>1
  <2>2. CASE i \in 1..Len(o)
    BY <1>8, <1>12, <2>1, <2>2, <2>4
  <2>3. CASE i = Len(o) + 1
    <3>1. s[j] = s[Len(s)] /\ Len(s) \in 1..Len(s)
      <4>1. t[i] = x
        BY <1>8, <2>3
      <4>2. x = s[Len(s)]
        BY <1>4
      <4> QED
        BY <1>3, <2>1, <4>1, <4>2
    <3> QED
      BY <1>10, <2>4, <3>1
  <2> QED
    BY <1>3, <1>8, <2>2, <2>3
<1>16. order' \in Seq(StepNames(program)) /\ IsInjective(order')
  BY <1>8, <1>9, <1>14
<1>17. walk' \in Seq(StepNames(program)) /\ IsInjective(walk')
  BY <1>7, <1>9, <1>13
<1> QED
  BY <1>9, <1>15, <1>16, <1>17 DEF Ordering

\* The items of a block that can be used.
LEMMA ResolvedIs ==
  ASSUME NEW p \in Program, NEW b \in ToSet(p)
  PROVE  /\ Resolved(b) \in Seq(ToSet(Resolved(b)))
         /\ \A e \in ToSet(Resolved(b)) : e.source \in Version /\ "source" \in DOMAIN e
<1>1. b.with \in Seq(ToSet(b.with)) /\ b.scope \in [DOMAIN b.scope -> Version]
  BY ProgramAssumption
<1>2. PICK all : all = [k \in DOMAIN b.with |-> k]
  OBVIOUS
<1>3. DOMAIN all = DOMAIN b.with /\ \A k \in DOMAIN all : all[k] = k
  BY <1>2
<1>4. DOMAIN b.with = 1..Len(b.with) /\ Len(b.with) \in Nat
  BY <1>1
<1>5. ToSet(all) = DOMAIN b.with
  BY <1>3 DEF ToSet
<1>6. all \in Seq(ToSet(all))
  BY <1>2, <1>4, <1>5
<1>7. PICK places : places = {k \in DOMAIN all : ItemError(b, b.with[all[k]]) = "none"}
  OBVIOUS
<1>8. PICK ids : ids = Picked(all, places)
  OBVIOUS
<1>9. ids = Select([k \in DOMAIN b.with |-> k], LAMBDA k : ItemError(b, b.with[k]) = "none")
  BY <1>2, <1>7, <1>8 DEF Select
<1>10. PickedUpTo(ids, all, places, Len(all))
  BY <1>6, <1>8, PickedIs
<1>11. ids \in Seq(ToSet(all)) /\ DOMAIN ids = 1..Len(ids) /\ Len(ids) \in Nat
  BY <1>10 DEF PickedUpTo
<1>12. PICK r : r = Resolved(b)
  OBVIOUS
<1>13. r = [j \in DOMAIN ids |->
         LET item == b.with[ids[j]] IN
         [item |-> ids[j], source |-> b.scope[item.source],
          vars |-> VisibleVars(b, item), full |-> item.columns = <<>>]]
  BY <1>9, <1>12 DEF Resolved
<1>14. DOMAIN r = DOMAIN ids /\ \A j \in DOMAIN r : r[j].source = b.scope[b.with[ids[j]].source]
  BY <1>13
<1>15. r \in Seq(ToSet(r))
  <2>1. \A j \in DOMAIN r : r[j] \in ToSet(r)
    BY DEF ToSet
  <2>2. r = [j \in 1..Len(ids) |-> r[j]]
    BY <1>11, <1>13
  <2> QED
    BY <1>11, <2>1, <2>2
<1>16. \A j \in DOMAIN r : "source" \in DOMAIN r[j]
  BY <1>13
<1>17. ASSUME NEW j \in DOMAIN r PROVE r[j].source \in Version
  <2>1. PICK k \in places : ids[j] = all[k]
    BY <1>10, <1>11, <1>14 DEF PickedUpTo
  <2>2. ItemError(b, b.with[ids[j]]) = "none"
    BY <1>7, <2>1
  <2>3. PICK item : item = b.with[ids[j]]
    OBVIOUS
  <2>4. ItemError(b, item) = "none"
    BY <2>2, <2>3
  <2>5. item.source \in DOMAIN b.scope
    BY <2>4 DEF ItemError
  <2> QED
    BY <1>1, <1>14, <2>3, <2>5
<1> QED
  BY <1>12, <1>15, <1>17, <1>16 DEF ToSet

\* Those that are left to be expanded.
LEMMA KeptIs ==
  ASSUME NEW p \in Program, NEW b \in ToSet(p)
  PROVE  /\ Kept(b) \in Seq(ToSet(Kept(b)))
         /\ \A e \in ToSet(Kept(b)) : e.source \in Version
<1>1. PICK exps : exps = Resolved(b)
  OBVIOUS
<1>2. exps \in Seq(ToSet(exps)) /\ \A e \in ToSet(exps) : e.source \in Version /\ "source" \in DOMAIN e
  BY <1>1, ResolvedIs
<1> DEFINE left(k) == Select(exps[k].vars, LAMBDA v : v.visible \notin DOMAIN Inherited(b) \cup Selected(exps, k))
<1>3. PICK all : all = [k \in DOMAIN exps |->
               [exps[k] EXCEPT !.vars = left(k), !.full = @ /\ left(k) = exps[k].vars]]
  OBVIOUS
<1>4. PICK places : places = {k \in DOMAIN all : all[k].vars # <<>>}
  OBVIOUS
<1>5. Kept(b) = Picked(all, places)
  BY <1>1, <1>3, <1>4, SMTT(30), ZenonT(30) DEF Kept, Select
<1>6. DOMAIN all = DOMAIN exps
  BY <1>3
<1>7. \A k \in DOMAIN all : all[k].source = exps[k].source
  <2> SUFFICES ASSUME NEW k \in DOMAIN all PROVE all[k].source = exps[k].source
    OBVIOUS
  <2>1. "source" \in DOMAIN exps[k]
    BY <1>2, <1>6 DEF ToSet
  <2>2. PICK e, vs, full : e = exps[k] /\ vs = left(k) /\ full = (e.full /\ left(k) = e.vars)
    OBVIOUS
  <2>3. all[k] = [e EXCEPT !.vars = vs, !.full = full]
    BY <1>3, <1>6, <2>2
  <2> HIDE DEF left
  <2>4. [e EXCEPT !.vars = vs, !.full = full].source = e.source
    BY <2>1, <2>2
  <2> QED
    BY <2>2, <2>3, <2>4
<1>8. DOMAIN exps = 1..Len(exps) /\ Len(exps) \in Nat
  BY <1>2
<1>9. \A e \in ToSet(all) : e.source \in Version
  BY <1>2, <1>6, <1>7 DEF ToSet
<1>10. all \in Seq(ToSet(all))
  <2>1. \A j \in DOMAIN all : all[j] \in ToSet(all)
    BY DEF ToSet
  <2>2. all = [j \in 1..Len(exps) |-> all[j]]
    BY <1>3, <1>6, <1>8
  <2> QED
    BY <1>8, <2>1, <2>2
<1>11. PICK t : t = Picked(all, places)
  OBVIOUS
<1>12. t \in Seq(ToSet(all))
  BY <1>10, <1>11, PickedIn
<1> QED
  BY <1>5, <1>9, <1>11, <1>12 DEF ToSet

\* The step that is being built.
LEMMA CurrentIs ==
  ASSUME PlanInv, stage = "build", todo # <<>>
  PROVE  /\ Current.name = Head(todo) /\ Head(todo) \in StepNames(program)
         /\ Current = Block(program, Current.name)
         /\ Dependencies(Current) \in Seq(ToSet(Dependencies(Current)))
         /\ Head(todo) \in ToSet(todo)
<1>1. todo \in Seq(StepNames(program)) /\ program \in Program
  BY DEF PlanInv, Building, Ordering
<1>2. PICK name \in StepNames(program) : name = Head(todo)
  BY <1>1
<1>3. PICK b : b = Block(program, name)
  OBVIOUS
<1>4. b.name = name /\ b.after \in Seq(ToSet(b.after))
  BY <1>1, <1>3, BlockIs
<1>5. PICK deps : deps = Unique(b.after)
  OBVIOUS
<1>6. deps \in Seq(ToSet(b.after)) /\ ToSet(deps) = ToSet(b.after)
  BY <1>4, <1>5, UniqueIs
<1>7. Current = b /\ Dependencies(Current) = deps
  BY <1>2, <1>3, <1>5 DEF Current, Dependencies
<1>8. Head(todo) \in ToSet(todo)
  <2>1. 1 \in DOMAIN todo /\ Head(todo) = todo[1]
    BY <1>1
  <2> QED
    BY <2>1 DEF ToSet
<1> QED
  BY <1>2, <1>3, <1>4, <1>6, <1>7, <1>8

\* Every state with each of the states of one more dependency.
LEMMA InheritKeeps ==
  ASSUME PlanInv, InheritParentStates
  PROVE  PlanInv'
<1>1. PICK deps : deps = Dependencies(Current)
  OBVIOUS
<1>2. stage = "build" /\ todo # <<>> /\ part \in Nat /\ Growing
  BY DEF InheritParentStates, PlanInv, Building
<1>3. deps \in Seq(ToSet(deps)) /\ Len(deps) \in Nat
  BY <1>1, <1>2, CurrentIs
<1>4. part < Len(deps) /\ part' = part + 1
  BY <1>1 DEF InheritParentStates
<1>5. PICK x, work : x = deps[part + 1] /\ work = plan.work
  OBVIOUS
<1>6. PICK added : added = StatesOf(x)
  OBVIOUS
<1>7. added \in Seq(ToSet(added)) /\ \A w \in ToSet(added) : w \in ToSet(work) /\ w.step = x
  <2>1. CASE x \in DOMAIN states
    <3>1. added \in Seq({w \in ToSet(work) : w.step = x})
      BY <1>5, <1>6, <2>1 DEF StatesOf, PlanInv, StatesAreWork
    <3> QED
      BY <3>1 DEF ToSet
  <2>2. CASE x \notin DOMAIN states
    <3>1. added = <<>>
      BY <1>6, <2>2 DEF StatesOf
    <3> QED
      BY <3>1 DEF ToSet
  <2> QED
    BY <2>1, <2>2
<1> DEFINE B == {MergeParentStates(a, b) : a \in ToSet(growing), b \in ToSet(added)}
           places(k) == {j \in DOMAIN added : Agree(growing[k].values, added[j].values)}
           good(k) == Picked(added, places(k))
<1> HIDE DEF B
<1>9. PICK ss : ss = [k \in DOMAIN growing |-> [j \in DOMAIN good(k) |-> MergeParentStates(growing[k], good(k)[j])]]
  OBVIOUS
<1>10. growing' = FlattenSeq(ss)
  BY <1>1, <1>5, <1>6, <1>9 DEF InheritParentStates, Combined, Select
<1>11. DOMAIN growing = 1..Len(growing) /\ Len(growing) \in Nat /\ \A k \in DOMAIN growing : growing[k] \in ToSet(growing)
  <2>1. growing \in Seq(ToSet(growing))
    BY <1>2 DEF Growing
  <2> QED
    BY <2>1 DEF ToSet
<1>12. ASSUME NEW k \in DOMAIN growing PROVE ss[k] \in Seq(B)
  <2>1. PICK ps : ps = places(k)
    OBVIOUS
  <2>2. PICK g : g = Picked(added, ps)
    OBVIOUS
  <2>3. g \in Seq(ToSet(added))
    BY <1>7, <2>2, PickedIn
  <2>4. ss[k] = [j \in DOMAIN g |-> MergeParentStates(growing[k], g[j])]
    BY <1>9, <2>1, <2>2
  <2>5. \A j \in DOMAIN g : MergeParentStates(growing[k], g[j]) \in B
    BY <1>11, <2>3 DEF B
  <2>6. DOMAIN g = 1..Len(g) /\ Len(g) \in Nat
    BY <2>3
  <2> QED
    BY <2>4, <2>5, <2>6
<1>13. ss \in Seq(Seq(B))
  <2>1. ss = [k \in 1..Len(growing) |-> ss[k]]
    BY <1>9, <1>11
  <2> QED
    BY <1>11, <1>12, <2>1
<1>14. growing' \in Seq(B)
  BY <1>10, <1>13, FlatIn
<1>15. Handled = part
  BY <1>1, <1>2, <1>3, <1>4 DEF Handled
<1>16. \A st \in B : Combination(st, part + 1, deps, work)
  <2> SUFFICES ASSUME NEW a \in ToSet(growing), NEW b \in ToSet(added), NEW st, st = MergeParentStates(a, b)
               PROVE  Combination(st, part + 1, deps, work)
    BY DEF B
  <2>1. Combination(a, part, deps, work)
    BY <1>1, <1>2, <1>5, <1>15 DEF Growing
  <2>2. PICK ids : ids = {WorkId(w) : w \in ToSet(work)}
    OBVIOUS
  <2>3. PICK before \in Seq(ids) : before = a.parents /\ Len(before) = part /\ \A j \in 1..part : before[j][1] = deps[j]
    BY <2>1, <2>2 DEF Combination
  <2>4. PICK id \in ids : id = WorkId(b)
    BY <1>7, <2>2
  <2>5. id[1] = deps[part + 1]
    BY <1>5, <1>7, <2>4 DEF WorkId
  <2>6. st.parents = Append(before, id)
    BY <2>3, <2>4 DEF MergeParentStates
  <2>7. PICK after : after = Append(before, id)
    OBVIOUS
  <2>8. after \in Seq(ids) /\ Len(after) = part + 1 /\ \A j \in 1..(part + 1) : after[j][1] = deps[j]
    BY <1>2, <2>3, <2>5, <2>7
  <2> QED
    BY <2>2, <2>6, <2>7, <2>8 DEF Combination
<1>17. UNCHANGED <<program, stage, todo, scopes, order, walk, states, plan, chosen>>
  BY DEF InheritParentStates
<1>18. Current' = Current
  BY <1>17 DEF Current
<1>19. Dependencies(Current)' = deps
  BY <1>1, <1>18 DEF Dependencies
<1>20. Handled' = part + 1
  BY <1>2, <1>3, <1>4, <1>19 DEF Handled
<1>21. Growing'
  <2>1. (growing \in Seq(ToSet(growing)))' /\ \A st \in ToSet(growing') : st \in B
    BY <1>14 DEF ToSet
  <2>2. \A st \in ToSet(growing') : Combination(st, Handled', Dependencies(Current)', plan.work')
    BY <1>5, <1>16, <1>17, <1>19, <1>20, <2>1
  <2> QED
    BY <2>1, <2>2 DEF Growing
<1>22. Building'
  BY <1>2, <1>4, <1>17, <1>21 DEF PlanInv, Building
<1>23. Ordering' /\ Scoped' /\ StatesAreWork'
  BY <1>17 DEF PlanInv, Ordering, Scoped, StatesAreWork
<1> QED
  BY <1>17, <1>22, <1>23 DEF PlanInv

\* The choices of a state are a sequence.
LEMMA ChoicesAre ==
  ASSUME NEW st, NEW e, e.source \in Version
  PROVE  RowChoices(st, e) \in Seq(ToSet(RowChoices(st, e)))
<1>1. PICK rows : rows = Cell[e.source]
  OBVIOUS
<1>2. rows \in Seq(ToSet(rows))
  BY <1>1, CellAssumption
<1>3. PICK all : all = [r \in DOMAIN rows |-> r]
  OBVIOUS
<1>4. all \in Seq(ToSet(all))
  <2>1. DOMAIN rows = 1..Len(rows) /\ Len(rows) \in Nat
    BY <1>2
  <2>2. \A r \in DOMAIN all : all[r] \in ToSet(all)
    BY DEF ToSet
  <2>3. all = [r \in 1..Len(rows) |-> all[r]]
    BY <1>3, <2>1
  <2> QED
    BY <2>1, <2>2, <2>3
<1>5. PICK places : AllowedRows(st, e) = Picked(all, places)
  BY <1>1, <1>3 DEF AllowedRows, Select
<1>6. PICK allowed : allowed = AllowedRows(st, e)
  OBVIOUS
<1>7. allowed \in Seq(ToSet(all))
  BY <1>4, <1>5, <1>6, PickedIn
<1>8. allowed \in Seq(ToSet(allowed))
  BY <1>7 DEF ToSet
<1> DEFINE P == {k \in DOMAIN allowed : \A q \in RowsLike(e, allowed, allowed[k]) : allowed[k] <= q}
<1>9. PICK reps : reps = Picked(allowed, P)
  OBVIOUS
<1>10. reps \in Seq(ToSet(allowed))
  <2> HIDE DEF P
  <2> QED
    BY <1>8, <1>9, PickedIn
<1>11. PICK choices : choices = RowChoices(st, e)
  OBVIOUS
<1> DEFINE choice(k) ==
       [values |-> [n \in Names(e.vars) |->
                     Cell[e.source][reps[k]][(CHOOSE v \in ToSet(e.vars) : v.visible = n).var].val],
        rows   |-> RowsLike(e, allowed, reps[k])]
<1>12. choices = [k \in DOMAIN reps |-> choice(k)]
  BY <1>6, <1>9, <1>11, SMTT(30), ZenonT(30) DEF RowChoices, Select
<1> HIDE DEF choice
<1>13. choices = [k \in 1..Len(reps) |-> choices[k]] /\ Len(reps) \in Nat
  BY <1>10, <1>12
<1>14. \A k \in 1..Len(reps) : choices[k] \in ToSet(choices)
  BY <1>13 DEF ToSet
<1> QED
  BY <1>11, <1>13, <1>14

\* Every state with each choice of the next import.
LEMMA ExpandKeeps ==
  ASSUME PlanInv, ExpandStep
  PROVE  PlanInv'
<1>1. PICK deps : deps = Dependencies(Current)
  OBVIOUS
<1>2. stage = "build" /\ todo # <<>> /\ part \in Nat /\ Growing
  BY DEF ExpandStep, PlanInv, Building
<1>3. deps \in Seq(ToSet(deps)) /\ Len(deps) \in Nat
  BY <1>1, <1>2, CurrentIs
<1>4. part >= Len(deps) /\ part < Len(deps) + Len(Expansions) /\ part' = part + 1
  BY <1>1 DEF ExpandStep
<1>5. PICK e, work : e = Expansions[part + 1 - Len(deps)] /\ work = plan.work
  OBVIOUS
<1>6. e.source \in Version
  <2>1. Current.name \in DOMAIN scopes
    <3>1. ToSet(todo) \subseteq DOMAIN scopes
      BY <1>2 DEF PlanInv, Scoped
    <3>2. Current.name = Head(todo) /\ Head(todo) \in ToSet(todo)
      BY <1>2, CurrentIs
    <3> QED
      BY <3>1, <3>2
  <2>2. PICK exps : exps = Expansions
    OBVIOUS
  <2>3. exps \in Seq(ToSet(exps)) /\ \A x \in ToSet(exps) : x.source \in Version
    BY <2>1, <2>2 DEF Expansions, PlanInv, Scoped
  <2>4. Len(exps) \in Nat /\ DOMAIN exps = 1..Len(exps)
    BY <2>3
  <2>5. part + 1 - Len(deps) \in DOMAIN exps
    BY <1>2, <1>3, <1>4, <2>2, <2>4
  <2>6. e \in ToSet(exps)
    BY <1>5, <2>2, <2>5 DEF ToSet
  <2> QED
    BY <2>3, <2>6
<1> DEFINE B == {MergeWithChoice(st, e, c) : st \in ToSet(growing), c \in UNION {ToSet(RowChoices(a, e)) : a \in ToSet(growing)}}
           places(k) == {j \in DOMAIN RowChoices(growing[k], e) :
                           Agree(growing[k].values, RowChoices(growing[k], e)[j].values)}
           good(k) == Picked(RowChoices(growing[k], e), places(k))
<1> HIDE DEF B
<1>7. PICK ss : ss = [k \in DOMAIN growing |-> [j \in DOMAIN good(k) |-> MergeWithChoice(growing[k], e, good(k)[j])]]
  OBVIOUS
<1>8. growing' = FlattenSeq(ss)
  BY <1>1, <1>5, <1>7 DEF ExpandStep, Combined, Select
<1>9. DOMAIN growing = 1..Len(growing) /\ Len(growing) \in Nat /\ \A k \in DOMAIN growing : growing[k] \in ToSet(growing)
  <2>1. growing \in Seq(ToSet(growing))
    BY <1>2 DEF Growing
  <2> QED
    BY <2>1 DEF ToSet
<1>10. ASSUME NEW k \in DOMAIN growing PROVE ss[k] \in Seq(B)
  <2>1. PICK ps, choices : ps = places(k) /\ choices = RowChoices(growing[k], e)
    OBVIOUS
  <2>2. PICK g : g = Picked(choices, ps)
    OBVIOUS
  <2>3. choices \in Seq(ToSet(choices))
    BY <1>6, <2>1, ChoicesAre
  <2>4. g \in Seq(ToSet(choices))
    BY <2>2, <2>3, PickedIn
  <2>5. ss[k] = [j \in DOMAIN g |-> MergeWithChoice(growing[k], e, g[j])]
    BY <1>7, <2>1, <2>2
  <2>6. \A j \in DOMAIN g : g[j] \in ToSet(RowChoices(growing[k], e))
    BY <2>1, <2>4
  <2>7. \A j \in DOMAIN g : MergeWithChoice(growing[k], e, g[j]) \in B
    BY <1>9, <2>6 DEF B
  <2>8. DOMAIN g = 1..Len(g) /\ Len(g) \in Nat
    BY <2>4
  <2> QED
    BY <2>5, <2>7, <2>8
<1>11. ss \in Seq(Seq(B))
  <2>1. ss = [k \in 1..Len(growing) |-> ss[k]]
    BY <1>7, <1>9
  <2> QED
    BY <1>9, <1>10, <2>1
<1>12. growing' \in Seq(B)
  BY <1>8, <1>11, FlatIn
<1>13. Handled = Len(deps)
  BY <1>1, <1>2, <1>3, <1>4 DEF Handled
<1>14. \A st \in B : Combination(st, Len(deps), deps, work)
  <2> SUFFICES ASSUME NEW a \in ToSet(growing), NEW c, NEW st, st = MergeWithChoice(a, e, c)
               PROVE  Combination(st, Len(deps), deps, work)
    BY DEF B
  <2>1. Combination(a, Len(deps), deps, work)
    BY <1>1, <1>2, <1>5, <1>13 DEF Growing
  <2>2. st.parents = a.parents
    BY DEF MergeWithChoice
  <2> QED
    BY <2>1, <2>2 DEF Combination
<1>15. UNCHANGED <<program, stage, todo, scopes, order, walk, states, plan, chosen>>
  BY DEF ExpandStep
<1>16. Current' = Current
  BY <1>15 DEF Current
<1>17. Dependencies(Current)' = deps
  BY <1>1, <1>16 DEF Dependencies
<1>18. Handled' = Len(deps)
  BY <1>2, <1>3, <1>4, <1>17 DEF Handled
<1>19. Growing'
  <2>1. (growing \in Seq(ToSet(growing)))' /\ \A st \in ToSet(growing') : st \in B
    BY <1>12 DEF ToSet
  <2>2. \A st \in ToSet(growing') : Combination(st, Handled', Dependencies(Current)', plan.work')
    BY <1>5, <1>14, <1>15, <1>17, <1>18, <2>1
  <2> QED
    BY <2>1, <2>2 DEF Growing
<1>20. Building'
  BY <1>2, <1>4, <1>15, <1>19 DEF PlanInv, Building
<1>21. Ordering' /\ Scoped' /\ StatesAreWork'
  BY <1>15 DEF PlanInv, Ordering, Scoped, StatesAreWork
<1> QED
  BY <1>15, <1>20, <1>21 DEF PlanInv

\* The workpackages of one more step, which is new to the plan.
LEMMA MoreInOrder ==
  ASSUME NEW p, NEW work, InOrder(p, work), NEW name \in StepNames(p),
         \A w \in ToSet(work) : w.step # name,
         NEW built, built \in Seq(ToSet(built)),
         \A k \in DOMAIN built : /\ built[k].step = name /\ built[k].row = k
                                 /\ Combination(built[k], Len(Unique(Block(p, name).after)), Unique(Block(p, name).after), work),
         Unique(Block(p, name).after) \in Seq(ToSet(Unique(Block(p, name).after)))
  PROVE  InOrder(p, work \o built)
<1>1. PICK t, deps : t = work \o built /\ deps = Unique(Block(p, name).after)
  OBVIOUS
<1>2. work \in Seq(ToSet(work)) /\ DOMAIN work = 1..Len(work) /\ Len(work) \in Nat
  BY DEF InOrder
<1>3. DOMAIN built = 1..Len(built) /\ Len(built) \in Nat
  OBVIOUS
<1>4. /\ t \in Seq(ToSet(work) \cup ToSet(built)) /\ Len(t) = Len(work) + Len(built) /\ DOMAIN t = 1..Len(t)
      /\ \A k \in DOMAIN work : t[k] = work[k]
      /\ \A k \in DOMAIN built : t[Len(work) + k] = built[k]
  BY <1>1, <1>2, <1>3
<1>5. t \in Seq(ToSet(t))
  BY <1>4, SMTT(30), ZenonT(30) DEF ToSet
<1>6. ASSUME NEW k \in DOMAIN work PROVE t[k].step \in StepNames(p) /\ AfterItsDependencies(p, t, k)
  <2>1. work[k].step \in StepNames(p) /\ AfterItsDependencies(p, work, k)
    BY DEF InOrder
  <2>2. t[k] = work[k]
    BY <1>4
  <2>3. \A j \in 1..(k - 1) : j \in DOMAIN work
    BY <1>2
  <2>4. \A j \in 1..(k - 1) : t[j] = work[j]
    BY <1>4, <2>3
  <2> QED
    BY <2>1, <2>2, <2>4 DEF AfterItsDependencies
<1>7. ASSUME NEW i \in DOMAIN built, NEW k, k = Len(work) + i
      PROVE  t[k].step \in StepNames(p) /\ AfterItsDependencies(p, t, k)
  <2>1. t[k] = built[i] /\ built[i].step = name /\ built[i].row = i /\ k \in Nat
    BY <1>2, <1>3, <1>4, <1>7
  <2>2. PICK ps : ps = built[i].parents
    OBVIOUS
  <2>3. ps \in Seq({WorkId(w) : w \in ToSet(work)}) /\ Len(ps) = Len(deps) /\ \A j \in 1..Len(deps) : ps[j][1] = deps[j]
    BY <1>1, <2>2 DEF Combination
  <2>4. [j \in DOMAIN ps |-> ps[j][1]] = deps
    <3>1. deps \in Seq(ToSet(deps))
      BY <1>1
    <3>2. DOMAIN ps = 1..Len(deps) /\ DOMAIN deps = 1..Len(deps)
      BY <2>3, <3>1
    <3>3. deps = [j \in DOMAIN ps |-> deps[j]]
      BY <3>1, <3>2
    <3> QED
      BY <2>3, <3>2, <3>3
  <2>5. \A d \in ToSet(ps) : \E j \in 1..(k - 1) : WorkId(t[j]) = d
    <3> SUFFICES ASSUME NEW d \in ToSet(ps) PROVE \E j \in 1..(k - 1) : WorkId(t[j]) = d
      OBVIOUS
    <3>1. PICK w \in ToSet(work) : d = WorkId(w)
      BY <2>3 DEF ToSet
    <3>2. PICK j \in DOMAIN work : w = work[j]
      BY DEF ToSet
    <3>3. j \in 1..(k - 1) /\ t[j] = w
      BY <1>2, <1>3, <1>4, <1>7, <3>2
    <3> QED
      BY <3>1, <3>3
  <2>6. \A j \in 1..(k - 1) : WorkId(t[j]) # WorkId(t[k])
    <3> SUFFICES ASSUME NEW j \in 1..(k - 1) PROVE WorkId(t[j]) # WorkId(t[k])
      OBVIOUS
    <3>1. CASE j \in DOMAIN work
      <4>1. t[j].step # name
        BY <1>4, <3>1 DEF ToSet
      <4> QED
        BY <2>1, <4>1 DEF WorkId
    <3>2. CASE j \notin DOMAIN work
      <4>1. PICK m \in DOMAIN built : j = Len(work) + m /\ m # i
        <5>1. j \in Int /\ j > Len(work) /\ j < Len(work) + i /\ i \in Nat /\ i <= Len(built)
          BY <1>2, <1>3, <1>7, <3>2
        <5> DEFINE n == j - Len(work)
        <5>2. n \in 1..Len(built) /\ j = Len(work) + n /\ n # i
          BY <1>2, <1>3, <5>1
        <5> HIDE DEF n
        <5> QED
          BY <1>3, <5>2
      <4>2. t[j].row = m
        BY <1>4, <4>1
      <4> QED
        BY <2>1, <4>1, <4>2 DEF WorkId
    <3> QED
      BY <3>1, <3>2
  <2> QED
    BY <1>1, <2>1, <2>2, <2>4, <2>5, <2>6 DEF AfterItsDependencies
<1>8. ASSUME NEW k \in DOMAIN t PROVE t[k].step \in StepNames(p) /\ AfterItsDependencies(p, t, k)
  <2>1. CASE k \in DOMAIN work
    BY <1>6, <2>1
  <2>2. CASE k \notin DOMAIN work
    <3>1. PICK i \in DOMAIN built : k = Len(work) + i
      <4>1. k - Len(work) \in 1..Len(built)
        BY <1>2, <1>3, <1>4, <2>2
      <4>2. k = Len(work) + (k - Len(work))
        BY <1>2, <1>4
      <4> QED
        BY <1>3, <4>1, <4>2
    <3> QED
      BY <1>7, <3>1
  <2> QED
    BY <2>1, <2>2
<1> QED
  BY <1>1, <1>5, <1>8 DEF InOrder

\* The elements of two sequences, one after the other.
LEMMA JoinedElements ==
  ASSUME NEW a, a \in Seq(ToSet(a)), NEW b, b \in Seq(ToSet(b))
  PROVE  ToSet(a \o b) = ToSet(a) \cup ToSet(b)
<1>1. PICK t : t = a \o b
  OBVIOUS
<1>2. /\ Len(a) \in Nat /\ Len(b) \in Nat /\ DOMAIN a = 1..Len(a) /\ DOMAIN b = 1..Len(b)
      /\ t \in Seq(ToSet(a) \cup ToSet(b)) /\ DOMAIN t = 1..Len(t) /\ Len(t) = Len(a) + Len(b)
      /\ \A k \in 1..Len(a) : t[k] = a[k]
      /\ \A j \in 1..Len(b) : t[Len(a) + j] = b[j]
  BY <1>1
<1>3. ASSUME NEW x \in ToSet(t) PROVE x \in ToSet(a) \cup ToSet(b)
  BY <1>2, <1>3 DEF ToSet
<1>4. ASSUME NEW x \in ToSet(a) PROVE x \in ToSet(t)
  <2>1. PICK k \in 1..Len(a) : x = a[k]
    BY <1>2 DEF ToSet
  <2>2. k \in DOMAIN t /\ x = t[k]
    BY <1>2, <2>1
  <2> QED
    BY <2>2 DEF ToSet
<1>5. ASSUME NEW x \in ToSet(b) PROVE x \in ToSet(t)
  <2>1. PICK j \in 1..Len(b) : x = b[j]
    BY <1>2 DEF ToSet
  <2>2. Len(a) + j \in DOMAIN t /\ x = t[Len(a) + j]
    BY <1>2, <2>1
  <2> QED
    BY <2>2 DEF ToSet
<1> QED
  BY <1>1, <1>3, <1>4, <1>5

\* The states of a step become its workpackages.
LEMMA BuildKeeps ==
  ASSUME PlanInv, BuildStep
  PROVE  PlanInv'
<1>1. stage = "build" /\ todo # <<>>
  BY DEF BuildStep
<1>2. PICK name, deps, work : name = Current.name /\ deps = Unique(Block(program, name).after) /\ work = plan.work
  OBVIOUS
<1>3. name = Head(todo) /\ name \in StepNames(program) /\ name \in ToSet(todo) /\ deps = Dependencies(Current)
      /\ deps \in Seq(ToSet(deps)) /\ Len(deps) \in Nat
  BY <1>1, <1>2, CurrentIs DEF Dependencies
<1>4. Growing /\ part = Len(deps) + Len(Expansions) /\ part \in Nat
  BY <1>1, <1>3 DEF PlanInv, Building, BuildStep
<1>5. PICK g : g = growing
  OBVIOUS
<1>6. Len(Expansions) \in Nat
  <2>1. Current.name \in DOMAIN scopes
    BY <1>1, <1>2, <1>3 DEF PlanInv, Scoped
  <2>2. PICK exps : exps = Expansions
    OBVIOUS
  <2>3. exps \in Seq(ToSet(exps))
    BY <2>1, <2>2 DEF Expansions, PlanInv, Scoped
  <2> QED
    BY <2>2, <2>3
<1>7. Handled = Len(deps)
  BY <1>3, <1>4, <1>6 DEF Handled
<1>8. g \in Seq(ToSet(g)) /\ \A st \in ToSet(g) : Combination(st, Len(deps), deps, work)
  BY <1>2, <1>3, <1>4, <1>5, <1>7 DEF Growing
<1>9. DOMAIN g = 1..Len(g) /\ Len(g) \in Nat
  BY <1>8
<1>10. PICK built : built = [k \in DOMAIN g |->
                    [step |-> name, row |-> k, values |-> g[k].values, rows |-> g[k].rows,
                     parents |-> g[k].parents]]
  OBVIOUS
<1>11. /\ states' = Updated(states, name, built)
       /\ plan' = [steps |-> Append(plan.steps, name), work |-> work \o built]
       /\ growing' = <<EmptyState>> /\ part' = 0 /\ todo' = Tail(todo)
       /\ UNCHANGED <<program, stage, scopes, order, walk, chosen>>
  BY <1>2, <1>5, <1>10 DEF BuildStep
<1>12. DOMAIN built = 1..Len(g)
  BY <1>9, <1>10
<1>13. built \in Seq(ToSet(built)) /\ Len(built) = Len(g)
  <2>1. built = [k \in 1..Len(g) |-> built[k]]
    BY <1>9, <1>10
  <2>2. \A k \in 1..Len(g) : built[k] \in ToSet(built)
    BY <1>12 DEF ToSet
  <2> QED
    BY <1>9, <2>1, <2>2
<1>14. \A k \in DOMAIN built : /\ built[k].step = name /\ built[k].row = k
                               /\ Combination(built[k], Len(deps), deps, work)
  <2> SUFFICES ASSUME NEW k \in DOMAIN built
               PROVE  /\ built[k].step = name /\ built[k].row = k
                      /\ Combination(built[k], Len(deps), deps, work)
    OBVIOUS
  <2>1. built[k].step = name /\ built[k].row = k /\ built[k].parents = g[k].parents
    BY <1>9, <1>10, <1>12
  <2>2. Combination(g[k], Len(deps), deps, work)
    BY <1>8, <1>9, <1>12 DEF ToSet
  <2> QED
    BY <2>1, <2>2 DEF Combination
<1>15. name \notin DOMAIN states /\ \A w \in ToSet(work) : w.step # name
  <2>1. ToSet(todo) \cap DOMAIN states = {}
    BY <1>1 DEF PlanInv, Building
  <2>2. \A w \in ToSet(work) : w.step \in DOMAIN states
    BY <1>2 DEF PlanInv, StatesAreWork
  <2> QED
    BY <1>3, <2>1, <2>2
<1>16. InOrder(program, work)
  BY <1>2 DEF PlanInv
<1>17. InOrder(program, work \o built)
  BY <1>2, <1>3, <1>13, <1>14, <1>15, <1>16, MoreInOrder
<1>18. PICK t : t = work \o built
  OBVIOUS
<1>19. plan.work' = t
  BY <1>11, <1>18
<1>20. ToSet(t) = ToSet(work) \cup ToSet(built)
  <2>1. work \in Seq(ToSet(work))
    BY <1>16 DEF InOrder
  <2> QED
    BY <1>13, <1>18, <2>1, JoinedElements
<1>21. StatesAreWork'
  <2>1. DOMAIN states' = DOMAIN states \cup {name} /\ states'[name] = built
        /\ \A s \in DOMAIN states : states'[s] = states[s]
    BY <1>11, <1>15 DEF Updated
  <2>2. ASSUME NEW s \in DOMAIN states' PROVE states'[s] \in Seq({w \in ToSet(t) : w.step = s})
    <3>1. CASE s = name
      <4>1. \A k \in DOMAIN built : built[k] \in {w \in ToSet(t) : w.step = s}
        BY <1>14, <1>20, <3>1 DEF ToSet
      <4> QED
        BY <1>9, <1>12, <1>13, <2>1, <3>1, <4>1
    <3>2. CASE s # name
      <4>1. s \in DOMAIN states /\ states'[s] = states[s]
        BY <2>1, <3>2
      <4>2. states[s] \in Seq({w \in ToSet(work) : w.step = s})
        BY <1>2, <4>1 DEF PlanInv, StatesAreWork
      <4>3. {w \in ToSet(work) : w.step = s} \subseteq {w \in ToSet(t) : w.step = s}
        BY <1>20
      <4> QED
        BY <4>1, <4>2, <4>3
    <3> QED
      BY <3>1, <3>2
  <2>3. ASSUME NEW w \in ToSet(t) PROVE w.step \in DOMAIN states'
    <3>1. CASE w \in ToSet(work)
      BY <1>2, <2>1, <3>1 DEF PlanInv, StatesAreWork
    <3>2. CASE w \in ToSet(built)
      BY <1>14, <2>1, <3>2 DEF ToSet
    <3> QED
      BY <1>20, <3>1, <3>2
  <2> QED
    BY <1>19, <2>2, <2>3 DEF StatesAreWork
<1>22. PICK td : td = todo
  OBVIOUS
<1>23. td \in Seq(StepNames(program)) /\ Len(td) \in Nat \ {0} /\ DOMAIN td = 1..Len(td)
       /\ \A i, j \in 1..Len(td) : td[i] = td[j] => i = j
  BY <1>1, <1>22 DEF PlanInv, Building, IsInjective
<1>24. PICK tl : tl = Tail(td)
  OBVIOUS
<1>25. tl \in Seq(StepNames(program)) /\ DOMAIN tl = 1..(Len(td) - 1) /\ \A i \in 1..(Len(td) - 1) : tl[i] = td[i + 1]
  BY <1>23, <1>24
<1>26. IsInjective(tl) /\ ToSet(tl) \subseteq ToSet(td) /\ name \notin ToSet(tl)
  <2>1. IsInjective(tl)
    BY <1>23, <1>25 DEF IsInjective
  <2>2. ToSet(tl) \subseteq ToSet(td)
    <3>1. ASSUME NEW i \in DOMAIN tl PROVE tl[i] \in ToSet(td)
      <4>1. i + 1 \in DOMAIN td /\ tl[i] = td[i + 1]
        BY <1>23, <1>25
      <4> QED
        BY <4>1 DEF ToSet
    <3> QED
      BY <3>1 DEF ToSet
  <2>3. name \notin ToSet(tl)
    <3>1. name = td[1]
      BY <1>3, <1>22, <1>23
    <3>2. \A i \in 1..(Len(td) - 1) : i + 1 \in 1..Len(td) /\ i + 1 # 1 /\ 1 \in 1..Len(td)
      BY <1>23
    <3>3. \A i \in 1..(Len(td) - 1) : td[i + 1] # td[1]
      BY <1>23, <3>2
    <3> QED
      BY <1>25, <3>1, <3>3 DEF ToSet
  <2> QED
    BY <2>1, <2>2, <2>3
<1>27. Scoped'
  <2>1. ToSet(tl) \subseteq DOMAIN scopes
    BY <1>1, <1>22, <1>26 DEF PlanInv, Scoped
  <2> QED
    BY <1>1, <1>11, <1>22, <1>24, <2>1 DEF PlanInv, Scoped
<1>28. todo' # <<>> => Growing'
  <2>1. ASSUME NEW n, n = Len(Dependencies(Current)'), todo' # <<>> PROVE Handled' = 0
    <3>1. (stage = "build" /\ todo # <<>>)' => n \in Nat
      <4>1. todo' = tl /\ tl # <<>> /\ program' = program
        BY <1>11, <1>22, <1>24, <2>1
      <4>2. PICK next \in StepNames(program) : next = Head(tl)
        BY <1>25, <4>1
      <4>3. PICK b : b = Block(program, next)
        OBVIOUS
      <4>4. b.after \in Seq(ToSet(b.after))
        BY <4>2, <4>3, BlockIs DEF PlanInv, Ordering
      <4>5. PICK u : u = Unique(b.after)
        OBVIOUS
      <4>6. u \in Seq(ToSet(b.after))
        BY <4>4, <4>5, UniqueIs
      <4>7. Current' = b
        BY <4>1, <4>2, <4>3 DEF Current
      <4>8. Dependencies(Current)' = u
        BY <4>5, <4>7 DEF Dependencies
      <4> QED
        BY <2>1, <4>6, <4>8
    <3>2. n \in Nat
      BY <1>1, <1>11, <2>1, <3>1
    <3> QED
      BY <1>11, <2>1, <3>2 DEF Handled
  <2>2. PICK st, one : st = EmptyState /\ one = <<st>>
    OBVIOUS
  <2>3. one \in Seq(ToSet(one)) /\ ToSet(one) = {st} /\ growing' = one
    BY <1>11, <2>2 DEF ToSet
  <2>4. PICK none : none = <<>>
    OBVIOUS
  <2>5. st.parents = none
    BY <2>2, <2>4 DEF EmptyState
  <2>6. PICK ds, ids : ds = Dependencies(Current)' /\ ids = {WorkId(w) : w \in ToSet(t)}
    OBVIOUS
  <2>7. none \in Seq(ids) /\ Len(none) = 0 /\ \A j \in 1..0 : FALSE
    BY <2>4
  <2>8. Combination(st, 0, ds, t)
    BY <2>5, <2>6, <2>7 DEF Combination
  <2>9. todo' # <<>> => Handled' = 0
    BY <2>1
  <2>10. todo' # <<>> => \A x \in ToSet(growing') : Combination(x, Handled', Dependencies(Current)', plan.work')
    BY <1>19, <2>3, <2>6, <2>8, <2>9
  <2> QED
    BY <2>3, <2>10 DEF Growing
<1>29. Building'
  <2>1. todo' = tl /\ part' = 0 /\ stage' = "build" /\ program' = program
    BY <1>1, <1>11, <1>22, <1>24
  <2>2. ToSet(tl) \cap DOMAIN states' = {}
    <3>1. DOMAIN states' = DOMAIN states \cup {name}
      BY <1>11 DEF Updated
    <3>2. ToSet(td) \cap DOMAIN states = {}
      BY <1>1, <1>22 DEF PlanInv, Building
    <3> QED
      BY <1>26, <3>1, <3>2
  <2> QED
    BY <1>25, <1>26, <1>28, <2>1, <2>2 DEF Building
<1>30. Ordering'
  BY <1>11 DEF PlanInv, Ordering
<1>31. InOrder(program, plan.work)' /\ InOrder(program, chosen.work)'
  BY <1>11, <1>17, <1>18, <1>19 DEF PlanInv
<1> QED
  BY <1>21, <1>27, <1>29, <1>30, <1>31 DEF PlanInv

\* The steps of the front end.
LEMMA ScopesKeep ==
  ASSUME PlanInv, ScopesNext, UNCHANGED workVars
  PROVE  PlanInv'
<1>0. UNCHANGED <<states, growing, part, plan, chosen>>
  BY DEF workVars
<1>1. CASE ValidateSteps
  <2>1. Ordering' /\ Scoped' /\ stage = "check" /\ stage' = "order" /\ program' = program
    BY <1>1 DEF ValidateSteps, PlanInv, Ordering, Scoped
  <2> QED
    BY <1>0, <2>1, StillOrdering
<1>2. CASE Visit
  <2>1. Ordering'
    BY <1>2, VisitKeeps DEF PlanInv
  <2>2. Scoped' /\ stage = "order" /\ stage' = "order" /\ program' = program
    BY <1>2 DEF Visit, PlanInv, Scoped
  <2> QED
    BY <1>0, <2>1, <2>2, StillOrdering
<1>3. CASE Visited
  <2>1. Ordering'
    BY <1>3, VisitedKeeps DEF PlanInv
  <2>2. Scoped' /\ stage = "order" /\ stage' = "order" /\ program' = program
    BY <1>3 DEF Visited, PlanInv, Scoped
  <2> QED
    BY <1>0, <2>1, <2>2, StillOrdering
<1>4. CASE Ordered
  <2>1. UNCHANGED <<program, scopes, order, walk>> /\ stage = "order" /\ stage' = "scopes" /\ todo' = order
    BY <1>4 DEF Ordered
  <2>2. Ordering'
    BY <2>1 DEF PlanInv, Ordering
  <2>3. Scoped'
    BY <2>1 DEF PlanInv, Ordering, Scoped
  <2> QED
    BY <1>0, <2>1, <2>2, <2>3, StillOrdering
<1>5. CASE PlanStep
  <2>1. stage = "scopes" /\ todo # <<>> /\ todo \in Seq(StepNames(program)) /\ program \in Program
    BY <1>5 DEF PlanStep, PlanInv, Scoped, Ordering
  <2>2. PICK name \in StepNames(program) : name = Head(todo)
    BY <2>1
  <2>3. PICK b : b = Block(program, name)
    OBVIOUS
  <2>4. b.name = name /\ b \in ToSet(program)
    BY <2>1, <2>3, BlockIs
  <2>5. PICK s : s = [effective |-> Effective(b), expansions |-> Kept(b)]
    OBVIOUS
  <2>6. scopes' = Updated(scopes, name, s) /\ todo' = Tail(todo) /\ UNCHANGED <<program, stage, order, walk>>
    BY <1>5, <2>2, <2>3, <2>4, <2>5 DEF PlanStep
  <2>7. s.expansions \in Seq(ToSet(s.expansions)) /\ \A e \in ToSet(s.expansions) : e.source \in Version
    <3>1. PICK k : k = Kept(b)
      OBVIOUS
    <3>2. k \in Seq(ToSet(k)) /\ \A e \in ToSet(k) : e.source \in Version
      BY <2>1, <2>4, <3>1, KeptIs
    <3> QED
      BY <2>5, <3>1, <3>2
  <2>8. DOMAIN scopes' = DOMAIN scopes \cup {name} /\ scopes'[name] = s
        /\ \A n \in DOMAIN scopes : n # name => scopes'[n] = scopes[n]
    BY <2>6 DEF Updated
  <2>9. PICK td, tl : td = todo /\ tl = Tail(td)
    OBVIOUS
  <2>10. tl \in Seq(StepNames(program)) /\ ToSet(td) \subseteq {name} \cup ToSet(tl)
    <3>1. /\ td \in Seq(StepNames(program)) /\ Len(td) \in Nat \ {0} /\ DOMAIN td = 1..Len(td) /\ td[1] = name
          /\ tl \in Seq(StepNames(program)) /\ DOMAIN tl = 1..(Len(td) - 1)
          /\ \A i \in 1..(Len(td) - 1) : tl[i] = td[i + 1]
      BY <2>1, <2>2, <2>9
    <3>2. ASSUME NEW x \in ToSet(td) PROVE x \in {name} \cup ToSet(tl)
      <4>1. PICK i \in 1..Len(td) : x = td[i]
        BY <3>1 DEF ToSet
      <4>2. CASE i = 1
        BY <3>1, <4>1, <4>2
      <4>3. CASE i # 1
        <5>1. i - 1 \in 1..(Len(td) - 1) /\ (i - 1) + 1 = i
          BY <3>1, <4>3
        <5>2. x = tl[i - 1]
          BY <3>1, <4>1, <5>1
        <5> QED
          BY <3>1, <5>1, <5>2 DEF ToSet
      <4> QED
        BY <4>2, <4>3
    <3> QED
      BY <3>1, <3>2
  <2>11. Ordering'
    BY <2>6 DEF PlanInv, Ordering
  <2>12. \A n \in DOMAIN scopes' :
           /\ scopes'[n].expansions \in Seq(ToSet(scopes'[n].expansions))
           /\ \A e \in ToSet(scopes'[n].expansions) : e.source \in Version
    BY <2>7, <2>8 DEF PlanInv, Scoped
  <2>13. ToSet(order) \subseteq DOMAIN scopes' \cup ToSet(tl)
    <3>1. ToSet(order) \subseteq DOMAIN scopes \cup ToSet(td)
      BY <2>1, <2>9 DEF PlanInv, Scoped
    <3> QED
      BY <2>8, <2>10, <3>1
  <2>14. Scoped'
    <3>1. stage' = "scopes" /\ todo' = tl /\ order' = order /\ program' = program
      BY <2>1, <2>6, <2>9
    <3> QED
      BY <2>10, <2>12, <2>13, <3>1 DEF Scoped
  <2> QED
    BY <1>0, <2>1, <2>6, <2>11, <2>14, StillOrdering
<1>6. CASE Accept
  <2>1. UNCHANGED <<program, scopes, order, walk>> /\ stage = "scopes" /\ todo = <<>>
        /\ ((stage' = "build" /\ todo' = order) \/ stage' = "failed")
    BY <1>6 DEF Accept
  <2>2. Ordering'
    BY <2>1 DEF PlanInv, Ordering
  <2>3. ToSet(todo) = {}
    BY <2>1 DEF ToSet
  <2>4. Scoped'
    BY <2>1, <2>3 DEF PlanInv, Scoped
  <2>5. StatesAreWork' /\ InOrder(program, plan.work)' /\ InOrder(program, chosen.work)'
    BY <1>0, <2>1 DEF PlanInv, StatesAreWork
  <2>6. Building'
    <3>1. CASE stage' = "failed"
      BY <3>1 DEF Building
    <3>2. CASE stage' = "build" /\ todo' = order
      <4>1. states = <<>> /\ growing = <<EmptyState>> /\ part = 0
        BY <2>1 DEF PlanInv, Building
      <4>2. order \in Seq(StepNames(program)) /\ IsInjective(order)
        BY DEF PlanInv, Ordering
      <4>3. DOMAIN states = {}
        BY <4>1
      <4>4. todo' # <<>> => Growing'
        <5> SUFFICES ASSUME todo' # <<>> PROVE Growing'
          OBVIOUS
        <5>1. PICK next \in StepNames(program) : next = Head(order)
          BY <3>2, <4>2
        <5>2. PICK after : after = Block(program, next).after
          OBVIOUS
        <5>3. after \in Seq(ToSet(after))
          BY <5>1, <5>2, BlockIs DEF PlanInv, Ordering
        <5>4. PICK u : u = Unique(after)
          OBVIOUS
        <5>5. u \in Seq(ToSet(after))
          BY <5>3, <5>4, UniqueIs
        <5>6. Dependencies(Current)' = u
          BY <2>1, <3>2, <5>1, <5>2, <5>4 DEF Current, Dependencies
        <5>7. Handled' = 0
          BY <1>0, <4>1, <5>5, <5>6 DEF Handled
        <5>8. PICK st, one, none : st = EmptyState /\ one = <<st>> /\ none = <<>>
          OBVIOUS
        <5>9. one \in Seq(ToSet(one)) /\ ToSet(one) = {st} /\ growing' = one
          BY <1>0, <4>1, <5>8 DEF ToSet
        <5>10. st.parents = none
          BY <5>8 DEF EmptyState
        <5>11. PICK ids, t : t = plan.work' /\ ids = {WorkId(w) : w \in ToSet(t)}
          OBVIOUS
        <5>12. none \in Seq(ids) /\ Len(none) = 0 /\ \A j \in 1..0 : FALSE
          BY <5>8
        <5>13. Combination(st, 0, u, t)
          BY <5>10, <5>11, <5>12 DEF Combination
        <5>14. \A x \in ToSet(growing') : Combination(x, Handled', Dependencies(Current)', plan.work')
          BY <5>6, <5>7, <5>9, <5>11, <5>13
        <5> QED
          BY <5>9, <5>14 DEF Growing
      <4>5. todo' \in Seq(StepNames(program')) /\ IsInjective(todo') /\ ToSet(todo') \cap DOMAIN states' = {}
            /\ part' \in Nat
        BY <1>0, <2>1, <3>2, <4>1, <4>2, <4>3
      <4> QED
        BY <3>2, <4>4, <4>5 DEF Building
    <3> QED
      BY <2>1, <3>1, <3>2
  <2> QED
    BY <2>2, <2>4, <2>5, <2>6 DEF PlanInv
<1> QED
  BY <1>1, <1>2, <1>3, <1>4, <1>5, <1>6 DEF ScopesNext

\* The invariant says nothing of the stages after the plan of all steps, but
\* that the plan of the component is in order.
LEMMA ChosenInOrder ==
  ASSUME PlanInv, UNCHANGED <<program, scopes, order, walk, states, growing, part, plan>>,
         stage' \notin {"check", "order", "scopes", "build"}, InOrder(program, chosen'.work)
  PROVE  PlanInv'
<1>1. Ordering' /\ StatesAreWork' /\ Scoped' /\ Building'
  BY DEF PlanInv, Ordering, StatesAreWork, Scoped, Building
<1>2. InOrder(program, plan.work)' /\ InOrder(program, chosen.work)'
  BY DEF PlanInv
<1> QED
  BY <1>1, <1>2 DEF PlanInv

\* A component keeps the steps its targets need.
LEMMA SelectKeeps ==
  ASSUME PlanInv, SelectComponent
  PROVE  PlanInv'
<1>1. PICK keep : keep = IF component' = {"*"} THEN StepNames(program) ELSE Required(component')
  OBVIOUS
<1>2. PICK work : work = plan.work
  OBVIOUS
<1>3. PICK places : places = {k \in DOMAIN work : work[k].step \in keep}
  OBVIOUS
<1>4. chosen'.work = Picked(work, places)
  BY <1>1, <1>2, <1>3 DEF SelectComponent, Filter, Select
<1>5. InOrder(program, work) /\ program \in Program
  BY <1>2 DEF PlanInv, Ordering
<1>6. ASSUME NEW k \in places, NEW d \in ToSet(work[k].parents), NEW j \in DOMAIN work, WorkId(work[j]) = d
      PROVE  j \in places
  <2>1. k \in DOMAIN work /\ work[k].step \in keep
    BY <1>3
  <2>2. Edge(program, work[k].step, d[1])
    BY <1>5, <2>1, ParentsAreNamed
  <2>3. d[1] \in keep
    BY <1>1, <2>1, <2>2, RequiredClosed DEF Edge
  <2>4. work[j].step = d[1]
    BY <1>6 DEF WorkId
  <2> QED
    BY <1>3, <2>3, <2>4
<1>7. places \subseteq DOMAIN work
  BY <1>3
<1>8. InOrder(program, Picked(work, places))
  BY <1>5, <1>6, <1>7, PartInOrder
<1>9. UNCHANGED <<program, scopes, order, walk, states, growing, part, plan>> /\ stage' \in {"failed", "limit"}
  BY DEF SelectComponent
<1> QED
  BY <1>4, <1>8, <1>9, ChosenInOrder

\* What is within the limit has its dependencies with it.
LEMMA LimitKeeps ==
  ASSUME PlanInv, KeepWork
  PROVE  PlanInv'
<1>1. PICK work : work = chosen.work
  OBVIOUS
<1>2. PICK places : places = {k \in DOMAIN work : WorkId(work[k]) \in kept}
  OBVIOUS
<1>3. chosen'.work = Picked(work, places)
  BY <1>1, <1>2 DEF KeepWork, Limited, Select
<1>4. ASSUME NEW k \in places, NEW d \in ToSet(work[k].parents), NEW j \in DOMAIN work, WorkId(work[j]) = d
      PROVE  j \in places
  <2>1. work[k] \in ToSet(work) /\ WorkId(work[k]) \in kept
    BY <1>2 DEF ToSet
  <2>2. d \in Needed
    BY <1>1, <2>1 DEF Needed
  <2>3. d \in kept
    BY <2>2 DEF KeepWork
  <2> QED
    BY <1>2, <1>4, <2>3
<1>5. places \subseteq DOMAIN work /\ InOrder(program, work)
  BY <1>1, <1>2 DEF PlanInv
<1>6. InOrder(program, Picked(work, places))
  BY <1>4, <1>5, PartInOrder
<1>7. UNCHANGED <<program, scopes, order, walk, states, growing, part, plan>> /\ stage' = "name"
  BY DEF KeepWork
<1> QED
  BY <1>3, <1>6, <1>7, ChosenInOrder

\* Initially there is nothing to be in order.
LEMMA PlanInitially ==
  ASSUME Init
  PROVE  PlanInv
<1>1. PICK none : none = <<>>
  OBVIOUS
<1>2. none \in Seq({}) /\ DOMAIN none = {} /\ ToSet(none) = {} /\ IsInjective(none)
  BY <1>1 DEF ToSet, IsInjective
<1>3. /\ program \in Program /\ stage = "check" /\ scopes = none /\ order = none /\ walk = none
      /\ states = none /\ growing = <<EmptyState>> /\ part = 0 /\ plan.work = none /\ chosen.work = none
  BY <1>1 DEF Init, PlanningInit, ScopesInit, PlanInit
<1>4. Ordering
  BY <1>2, <1>3 DEF Ordering
<1>5. Scoped
  BY <1>2, <1>3 DEF Scoped
<1>6. StatesAreWork
  BY <1>2, <1>3 DEF StatesAreWork
<1>7. InOrder(program, none)
  BY <1>2 DEF InOrder
<1>8. Building
  BY <1>1, <1>3 DEF Building
<1> QED
  BY <1>3, <1>4, <1>5, <1>6, <1>7, <1>8 DEF PlanInv

\* Every step keeps the invariant.
LEMMA PlanKeeps ==
  ASSUME PlanInv, [Next]_vars
  PROVE  PlanInv'
<1>1. CASE PlanningNext
  <2>1. CASE ScopesNext /\ UNCHANGED <<workVars, manifest, made>>
    BY <2>1, ScopesKeep
  <2>2. CASE InheritParentStates
    BY <2>2, InheritKeeps
  <2>3. CASE ExpandStep
    BY <2>3, ExpandKeeps
  <2>4. CASE BuildStep
    BY <2>4, BuildKeeps
  <2>5. CASE Built
    BY <2>5, NothingBuilt DEF Built
  <2>6. CASE SelectComponent
    BY <2>6, SelectKeeps
  <2>7. CASE ApplyLimit
    BY <2>7, NothingBuilt DEF ApplyLimit
  <2>8. CASE KeepAncestors
    BY <2>8, NothingBuilt DEF KeepAncestors
  <2>9. CASE KeepWork
    BY <2>9, LimitKeeps
  <2>10. CASE MakeManifest \/ PopulateWork \/ Publish
    <3>1. UNCHANGED <<program, scopes, order, walk, states, growing, part, plan, chosen>>
      BY <2>10 DEF MakeManifest, PopulateWork, Publish, plannedVars, workVars
    <3>2. UNCHANGED <<stage, todo>> \/ stage' \notin {"check", "order", "scopes", "build"}
      BY <2>10 DEF MakeManifest, PopulateWork, Publish
    <3> QED
      BY <3>1, <3>2, NothingBuilt
  <2> QED
    BY <1>1, <2>1, <2>2, <2>3, <2>4, <2>5, <2>6, <2>7, <2>8, <2>9, <2>10 DEF PlanningNext, PlanNext
<1>2. CASE PlanAnalyses
  BY <1>2, NothingBuilt DEF PlanAnalyses
<1>3. CASE Execute \/ AnalyseCSV \/ AnalyseSQLite \/ AnalyseFails \/ AnalyseEnds \/ Close \/ Killed
  <2>1. UNCHANGED <<program, scopes, order, walk, states, growing, part, plan, chosen>>
    BY <1>3 DEF Execute, AnalyseCSV, AnalyseSQLite, AnalyseFails, AnalyseEnds, Close, Killed,
                madeVars, plannedVars, workVars
  <2>2. stage' \notin {"check", "order", "scopes", "build"}
    BY <1>3 DEF Execute, AnalyseCSV, AnalyseSQLite, AnalyseFails, AnalyseEnds, Close, Killed
  <2> QED
    BY <2>1, <2>2, NothingBuilt
<1>4. CASE UNCHANGED vars
  BY <1>4, NothingBuilt DEF vars, madeVars, plannedVars, workVars
<1> QED
  BY <1>1, <1>2, <1>3, <1>4 DEF Next

\* In every plan, that of all steps and that of a component within its limit,
\* a workpackage has one dependency for every step its step names, each of
\* them stands earlier, and no workpackage is there twice: what Build, Filter
\* and applyWorkLimit hand to the scheduler can be started in order.
THEOREM PlansAreInOrder == Spec => []DependenciesFirst
<1>1. Init => PlanInv
  BY PlanInitially
<1>2. PlanInv /\ [Next]_vars => PlanInv'
  BY PlanKeeps
<1>3. PlanInv => DependenciesFirst
  <2> SUFFICES ASSUME PlanInv, NEW p \in Plans, NEW k \in DOMAIN p.work
               PROVE  AfterItsDependencies(program, p.work, k)
    BY Zenon DEF DependenciesFirst, AfterItsDependencies
  <2>1. InOrder(program, p.work)
    BY DEF PlanInv, Plans
  <2> QED
    BY <2>1 DEF InOrder
<1> QED
  BY <1>1, <1>2, <1>3, PTL DEF Spec

-----------------------------------------------------------------------------
(***************************************************************************)
(* The tables in a database are replaced together.                         *)
(***************************************************************************)
\* The lists of steps are sequences.
Listed ==
  /\ plan.steps \in Seq(ToSet(plan.steps))
  /\ chosen.steps \in Seq(ToSet(chosen.steps))
  /\ manifest.steps \in Seq(ToSet(manifest.steps))

\* The transaction has the tables of this command for the steps that are done.
Transacted ==
  stage = "analyse" =>
    /\ todo \in Seq(ToSet(todo))
    /\ database => \A s \in ToSet(AnalysedSteps) :
         s \in ToSet(todo) \/ (Key(s) \in DOMAIN pending /\ pending[Key(s)].at = commands)

\* A function over the places of a sequence is a sequence.
LEMMA SamePlaces ==
  ASSUME NEW s, s \in Seq(ToSet(s)), NEW t, DOMAIN t = DOMAIN s, t = [k \in DOMAIN s |-> t[k]]
  PROVE  t \in Seq(ToSet(t))
<1>1. DOMAIN s = 1..Len(s) /\ Len(s) \in Nat
  OBVIOUS
<1>2. \A k \in 1..Len(s) : t[k] \in ToSet(t)
  BY <1>1 DEF ToSet
<1>3. t = [k \in 1..Len(s) |-> t[k]]
  BY <1>1
<1> QED
  BY <1>1, <1>2, <1>3

\* What is picked from a sequence is a sequence.
LEMMA PickedList ==
  ASSUME NEW s, s \in Seq(ToSet(s)), NEW places
  PROVE  Picked(s, places) \in Seq(ToSet(Picked(s, places)))
<1>1. PICK t : t = Picked(s, places)
  OBVIOUS
<1>2. t \in Seq(ToSet(s))
  BY <1>1, PickedIn
<1> QED
  BY <1>1, <1>2 DEF ToSet

\* The analysed steps are a sequence.
LEMMA AnalysedList ==
  ASSUME Listed
  PROVE  AnalysedSteps \in Seq(ToSet(AnalysedSteps))
<1>1. PICK steps : steps = manifest.steps
  OBVIOUS
<1>2. PICK all : all = [k \in DOMAIN steps |-> steps[k].name]
  OBVIOUS
<1>3. all \in Seq(ToSet(all))
  <2>1. DOMAIN all = DOMAIN steps /\ all = [k \in DOMAIN steps |-> all[k]] /\ steps \in Seq(ToSet(steps))
    BY <1>1, <1>2 DEF Listed
  <2> QED
    BY <2>1, SamePlaces
<1>4. PICK places : AnalysedSteps = Picked(all, places)
  BY <1>1, <1>2 DEF AnalysedSteps, Select
<1> QED
  BY <1>3, <1>4, PickedList

\* Every step keeps the lists sequences.
LEMMA ListedKept ==
  ASSUME Listed, [Next]_vars
  PROVE  Listed'
<1>1. CASE UNCHANGED <<plan, chosen, manifest>>
  BY <1>1 DEF Listed
<1>2. CASE BuildStep /\ UNCHANGED manifest
  <2>1. PICK s, x : s = plan.steps /\ x = Current.name
    OBVIOUS
  <2>2. PICK t : t = Append(s, x)
    OBVIOUS
  <2>3. s \in Seq(ToSet(s))
    BY <2>1 DEF Listed
  <2>4. t \in Seq(ToSet(s) \cup {x})
    BY <2>2, <2>3
  <2>5. t \in Seq(ToSet(t))
    BY <2>4 DEF ToSet
  <2>6. plan'.steps = t /\ chosen' = chosen
    BY <1>2, <2>1, <2>2 DEF BuildStep
  <2> QED
    BY <1>2, <2>5, <2>6 DEF Listed
<1>3. CASE SelectComponent /\ UNCHANGED manifest
  <2>1. PICK s : s = plan.steps
    OBVIOUS
  <2>2. PICK places : chosen'.steps = Picked(s, places)
    BY <1>3, <2>1 DEF SelectComponent, Filter, Select
  <2>3. Picked(s, places) \in Seq(ToSet(Picked(s, places)))
    BY <2>1, PickedList DEF Listed
  <2>4. plan' = plan
    BY <1>3 DEF SelectComponent
  <2> QED
    BY <1>3, <2>2, <2>3, <2>4 DEF Listed
<1>4. CASE KeepWork /\ UNCHANGED manifest
  <2>1. PICK s : s = chosen.steps
    OBVIOUS
  <2>2. PICK places : chosen'.steps = Picked(s, places)
    BY <1>4, <2>1 DEF KeepWork, Limited, Select
  <2>3. Picked(s, places) \in Seq(ToSet(Picked(s, places)))
    BY <2>1, PickedList DEF Listed
  <2>4. plan' = plan
    BY <1>4 DEF KeepWork
  <2> QED
    BY <1>4, <2>2, <2>3, <2>4 DEF Listed
<1>5. CASE MakeManifest
  <2>1. PICK s, t : s = chosen.steps /\ t = ManifestSteps(chosen)
    OBVIOUS
  <2>2. DOMAIN t = DOMAIN s /\ t = [k \in DOMAIN s |-> t[k]]
    BY <2>1 DEF ManifestSteps
  <2>3. t \in Seq(ToSet(t))
    BY <2>1, <2>2, SamePlaces DEF Listed
  <2>4. manifest'.steps = t /\ plan' = plan /\ chosen' = chosen
    BY <1>5, <2>1 DEF MakeManifest, plannedVars, workVars
  <2> QED
    BY <2>3, <2>4 DEF Listed
<1>6. CASE ScopesNext /\ UNCHANGED <<workVars, manifest, made>>
  BY <1>1, <1>6 DEF workVars
<1>7. CASE (InheritParentStates \/ ExpandStep \/ Built \/ ApplyLimit \/ KeepAncestors) /\ UNCHANGED manifest
  BY <1>1, <1>7 DEF InheritParentStates, ExpandStep, Built, ApplyLimit, KeepAncestors
<1>8. CASE PopulateWork \/ Publish
  BY <1>1, <1>8 DEF PopulateWork, Publish, plannedVars, workVars
<1>9. CASE PlanAnalyses
  BY <1>1, <1>9 DEF PlanAnalyses
<1>10. CASE Execute \/ AnalyseCSV \/ AnalyseSQLite \/ AnalyseFails \/ AnalyseEnds \/ Close \/ Killed
  BY <1>1, <1>10 DEF Execute, AnalyseCSV, AnalyseSQLite, AnalyseFails, AnalyseEnds, Close, Killed,
                     madeVars, plannedVars, workVars
<1>11. CASE UNCHANGED vars
  BY <1>1, <1>11 DEF vars, madeVars, plannedVars, workVars
<1> QED
  BY <1>2, <1>3, <1>4, <1>5, <1>6, <1>7, <1>8, <1>9, <1>10, <1>11 DEF Next, PlanningNext, PlanNext

\* The analysed steps of a run stay the same.
LEMMA SameAnalyses ==
  ASSUME UNCHANGED <<manifest, component, analysed>>
  PROVE  AnalysedSteps' = AnalysedSteps
<1>1. Analyses' = Analyses
  BY DEF Analyses
<1> QED
  BY <1>1 DEF AnalysedSteps, Select

\* Every step keeps the transaction complete.
LEMMA TransactedKept ==
  ASSUME Listed, Transacted, [Next]_vars
  PROVE  Transacted'
<1>1. CASE Execute
  <2>1. UNCHANGED <<manifest, component, analysed>>
    BY <1>1 DEF Execute, madeVars, plannedVars, workVars
  <2>2. AnalysedSteps' = AnalysedSteps
    BY <2>1, SameAnalyses
  <2>3. stage' = "analyse" => todo' = AnalysedSteps
    BY <1>1 DEF Execute
  <2>4. AnalysedSteps \in Seq(ToSet(AnalysedSteps))
    BY AnalysedList
  <2>5. stage' = "analyse" => todo' \in Seq(ToSet(todo')) /\ \A s \in ToSet(AnalysedSteps') : s \in ToSet(todo')
    BY <2>2, <2>3, <2>4
  <2> QED
    BY <2>5 DEF Transacted
<1>2. CASE AnalyseCSV
  <2>1. stage = "analyse" /\ ~database /\ todo # <<>> /\ todo' = Tail(todo) /\ UNCHANGED database
    BY <1>2 DEF AnalyseCSV
  <2>2. PICK t, u : t = todo /\ u = Tail(t)
    OBVIOUS
  <2>3. t \in Seq(ToSet(t)) /\ t # <<>>
    BY <2>1, <2>2 DEF Transacted
  <2>4. u \in Seq(ToSet(t))
    BY <2>2, <2>3
  <2>5. u \in Seq(ToSet(u))
    BY <2>4 DEF ToSet
  <2> QED
    BY <2>1, <2>2, <2>5 DEF Transacted
<1>3. CASE AnalyseSQLite
  <2>1. /\ stage = "analyse" /\ database /\ todo # <<>> /\ todo' = Tail(todo)
        /\ pending' = Updated(pending, Key(Head(todo)), Table(Head(todo)))
        /\ UNCHANGED <<database, commands, manifest, component, analysed>>
    BY <1>3 DEF AnalyseSQLite, Insert, madeVars, plannedVars, workVars
  <2>2. PICK t, u : t = todo /\ u = Tail(t)
    OBVIOUS
  <2>3. t \in Seq(ToSet(t)) /\ t # <<>> /\ Len(t) \in Nat \ {0} /\ DOMAIN t = 1..Len(t)
    BY <2>1, <2>2 DEF Transacted
  <2>4. u \in Seq(ToSet(t)) /\ DOMAIN u = 1..(Len(t) - 1) /\ \A i \in 1..(Len(t) - 1) : u[i] = t[i + 1]
    BY <2>2, <2>3
  <2>5. u \in Seq(ToSet(u))
    BY <2>4 DEF ToSet
  <2>6. PICK h : h = Head(t)
    OBVIOUS
  <2>7. ToSet(t) \subseteq {h} \cup ToSet(u)
    <3> SUFFICES ASSUME NEW i \in 1..Len(t) PROVE t[i] \in {h} \cup ToSet(u)
      BY <2>3 DEF ToSet
    <3>1. CASE i = 1
      BY <2>3, <2>6, <3>1
    <3>2. CASE i # 1
      <4>1. i - 1 \in DOMAIN u /\ u[i - 1] = t[i]
        BY <2>3, <2>4, <3>2
      <4> QED
        BY <4>1 DEF ToSet
    <3> QED
      BY <3>1, <3>2
  <2>8. AnalysedSteps' = AnalysedSteps /\ \A s : Key(s)' = Key(s)
    <3>1. AnalysedSteps' = AnalysedSteps
      BY <2>1, SameAnalyses
    <3>2. \A s : Key(s)' = Key(s)
      BY <2>1 DEF Key
    <3> QED
      BY <3>1, <3>2
  <2>9. PICK table : table = Table(h)
    OBVIOUS
  <2>10. table.at = commands
    BY <2>9 DEF Table
  <2>11. pending' = Updated(pending, Key(h), table)
    BY <2>1, <2>2, <2>6, <2>9
  <2>12. DOMAIN pending' = DOMAIN pending \cup {Key(h)} /\ pending'[Key(h)] = table
         /\ \A x \in DOMAIN pending : x # Key(h) => pending'[x] = pending[x]
    BY <2>11 DEF Updated
  <2>13. ASSUME NEW s \in ToSet(AnalysedSteps)
         PROVE  s \in ToSet(u) \/ (Key(s) \in DOMAIN pending' /\ pending'[Key(s)].at = commands)
    <3>1. s \in ToSet(t) \/ (Key(s) \in DOMAIN pending /\ pending[Key(s)].at = commands)
      BY <2>1, <2>2 DEF Transacted
    <3> QED
      BY <2>7, <2>10, <2>12, <3>1
  <2> QED
    BY <2>1, <2>2, <2>5, <2>8, <2>13 DEF Transacted
<1>4. CASE stage' # "analyse"
  BY <1>4 DEF Transacted
<1>5. CASE UNCHANGED vars
  <2>1. UNCHANGED <<stage, todo, database, pending, commands, manifest, component, analysed>>
    BY <1>5 DEF vars, madeVars, plannedVars, workVars, runVars
  <2>2. AnalysedSteps' = AnalysedSteps /\ \A s : Key(s)' = Key(s)
    <3>1. AnalysedSteps' = AnalysedSteps
      BY <2>1, SameAnalyses
    <3>2. \A s : Key(s)' = Key(s)
      BY <2>1 DEF Key
    <3> QED
      BY <3>1, <3>2
  <2> QED
    BY <2>1, <2>2 DEF Transacted
<1>6. CASE AnalyseFails \/ AnalyseEnds \/ Close \/ Killed \/ PlanAnalyses
  BY <1>4, <1>6 DEF AnalyseFails, AnalyseEnds, Close, Killed, PlanAnalyses
<1>7. CASE PlanningNext
  <2>1. stage' # "analyse"
    BY <1>7 DEF PlanningNext, ScopesNext, PlanNext, ValidateSteps, Visit, Visited, Ordered, PlanStep, Accept,
                InheritParentStates, ExpandStep, BuildStep, Built, SelectComponent, ApplyLimit, KeepAncestors,
                KeepWork, MakeManifest, PopulateWork, Publish
  <2> QED
    BY <1>4, <2>1
<1> QED
  BY <1>1, <1>2, <1>3, <1>5, <1>6, <1>7 DEF Next

\* Initially nothing is listed and nothing is analysed.
LEMMA NothingListed ==
  ASSUME Init
  PROVE  Listed /\ Transacted
<1>1. PICK none : none = <<>>
  OBVIOUS
<1>2. none \in Seq(ToSet(none))
  BY <1>1
<1>3. plan.steps = none /\ chosen.steps = none /\ manifest.steps = none /\ stage = "check"
  BY <1>1 DEF Init, PlanningInit, PlanInit, ScopesInit, NoManifest
<1> QED
  BY <1>2, <1>3 DEF Listed, Transacted

\* Whatever a step changes in a database that has been asked for, it leaves
\* a table of the present command for every analysed step in it.
LEMMA ReplacedTogether ==
  ASSUME Listed, Transacted, [Next]_vars, database, output' # output,
         NEW s \in ToSet(AnalysedSteps)
  PROVE  Key(s) \in DOMAIN output' /\ output'[Key(s)].at = commands
<1>1. AnalyseEnds
  <2>1. CASE AnalyseEnds
    BY <2>1
  <2>2. CASE PlanningNext /\ UNCHANGED runVars
    BY <2>2 DEF runVars
  <2>3. CASE UNCHANGED vars
    BY <2>3 DEF vars, runVars
  <2>4. CASE PlanAnalyses \/ Execute \/ AnalyseCSV \/ AnalyseSQLite \/ AnalyseFails \/ Close \/ Killed
    BY <2>4 DEF PlanAnalyses, Execute, AnalyseCSV, AnalyseSQLite, Insert, AnalyseFails, Close, Killed
  <2> QED
    BY <2>1, <2>2, <2>3, <2>4 DEF Next
<1>2. stage = "analyse" /\ todo = <<>> /\ output' = Joined(pending, output)
  BY <1>1 DEF AnalyseEnds
<1>3. ToSet(todo) = {}
  BY <1>2 DEF ToSet
<1>4. Key(s) \in DOMAIN pending /\ pending[Key(s)].at = commands
  BY <1>2, <1>3 DEF Transacted
<1> QED
  BY <1>2, <1>4 DEF Joined

\* A database gets the tables of all analysed steps by one command or none of
\* them: the transaction of runStepAnalyseSQLite has, for every step that is
\* not still to be handled, a table of this command, and nothing but its end
\* changes what a reader sees.
THEOREM TablesOfOneRun == Spec => TablesReplacedTogether
<1>1. Init => Listed /\ Transacted
  BY NothingListed
<1>2. Listed /\ Transacted /\ [Next]_vars => (Listed /\ Transacted)'
  BY ListedKept, TransactedKept
<1>3. Listed /\ Transacted /\ [Next]_vars =>
        [database /\ output' # output =>
           \A s \in ToSet(AnalysedSteps) : Key(s) \in DOMAIN output' /\ output'[Key(s)].at = commands]_vars
  BY ReplacedTogether
<1> QED
  BY <1>1, <1>2, <1>3, PTL DEF Spec, TablesReplacedTogether

-----------------------------------------------------------------------------
(***************************************************************************)
(* The invariant.                                                          *)
(***************************************************************************)
\* In s, every step comes after those it depends on.
Topological(p, s) ==
  \A k \in DOMAIN s : \A d \in StepNames(p) :
    Edge(p, s[k], d) => \E j \in 1..(k - 1) : s[j] = d

UpTo(s, n) == {s[k] : k \in 1..n}
Remaining(s, n) == SubSeq(s, n + 1, Len(s))

\* A step on the stack is visited for the one before it.
Chained(p, s) == \A k \in 1..(Len(s) - 1) : Edge(p, s[k], s[k + 1])

\* Without a cycle the search finds the steps in the order of dependencies.
Found == StepErrors(program) = {} => Topological(program, order) /\ Chained(program, walk)

\* The steps are planned, and then built, in this order.
InTurn(s, left, done) == \E n \in 0..Len(s) : left = Remaining(s, n) /\ done = UpTo(s, n)

OrderSound ==
  /\ Found
  /\ stage \in {"order", "scopes"} => StepErrors(program) \subseteq errors
  /\ stage = "build" => StepErrors(program) = {}
  /\ stage \in {"check", "order"} => DOMAIN scopes = {}
  /\ stage = "scopes" => InTurn(order, todo, DOMAIN scopes)
  /\ stage = "build" => DOMAIN scopes = ToSet(order) /\ InTurn(order, todo, DOMAIN states)

\* The names a step has from its dependencies, and from its first n imports.
InheritedNames(sc, deps) == UNION {DOMAIN sc[d].effective : d \in deps}
ImportedNames(exps, n) == UNION {Names(exps[j].vars) : j \in 1..n}

\* A scope plan agrees with those of the dependencies and with every item of
\* the `with` clause, and what is left to expand are other names.
ScopeSound(p, sc, name) ==
  LET b == Block(p, name)
      eff == sc[name].effective
      exps == sc[name].expansions
      inherited == InheritedNames(sc, ToSet(b.after))
  IN
  /\ ToSet(b.after) \subseteq DOMAIN sc
  /\ DOMAIN eff = inherited \cup ImportedNames(exps, Len(exps))
  /\ \A d \in ToSet(b.after) : \A n \in DOMAIN sc[d].effective : sc[d].effective[n] = eff[n]
  /\ \A e \in ToSet(Resolved(b)) : \A v \in ToSet(e.vars) :
       v.visible \in DOMAIN eff /\ eff[v.visible] = Binding(e, v)
  /\ \A k \in DOMAIN exps : \A v \in ToSet(exps[k].vars) :
       /\ v.var \in ToSet(Columns[exps[k].source])
       /\ eff[v.visible] = Binding(exps[k], v)
       /\ v.visible \notin inherited \cup ImportedNames(exps, k - 1)

ScopesSound ==
  stage = "build" \/ (stage = "scopes" /\ errors = {}) =>
    \A name \in DOMAIN scopes : ScopeSound(program, scopes, name)

\* What a state says of a source: the rows it stands for and the names that
\* have their values from there.
Selection(c) ==
  /\ c = [item |-> c.item, source |-> c.source, vars |-> c.vars, rows |-> c.rows, inherited |-> c.inherited]
  /\ c.source \in Version
  /\ c.rows # {} /\ c.rows \subseteq DOMAIN Cell[c.source]
  /\ c.inherited \in BOOLEAN

\* Every name has the value of its column in all rows, and stands for rows.
ValuesSound(values, rows, eff) ==
  /\ rows \in Seq(ToSet(rows))
  /\ \A c \in ToSet(rows) :
       /\ Selection(c)
       /\ c.vars \subseteq DOMAIN values
       /\ \A n \in c.vars : eff[n].source = c.source /\ \A r \in c.rows :
            values[n] = Cell[c.source][r][eff[n].var].val
  /\ \A n \in DOMAIN values : \E c \in ToSet(rows) : n \in c.vars

\* What a state has from a parent.
Keeps(st, parent) ==
  /\ \A n \in DOMAIN parent.values : n \in DOMAIN st.values /\ st.values[n] = parent.values[n]
  /\ \A c \in ToSet(parent.rows) : \E d \in ToSet(st.rows) :
       d.inherited /\ d.source = c.source /\ d.rows = c.rows

\* The rows of an import are among those its source has in the parents.
Within(rows) ==
  \A c, d \in ToSet(rows) : c.inherited /\ ~d.inherited /\ c.source = d.source => d.rows \subseteq c.rows

StateSound(st, names, eff, sts) ==
  /\ DOMAIN st.values = names
  /\ ValuesSound(st.values, st.rows, eff)
  /\ \A id \in ToSet(st.parents) : Keeps(st, sts[id[1]][id[2]])
  /\ Within(st.rows)

\* The names of the first n dependencies and imports.
FirstNames(sc, deps, exps, n) ==
  InheritedNames(sc, UpTo(deps, IF n <= Len(deps) THEN n ELSE Len(deps)))
    \cup ImportedNames(exps, n - Len(deps))

StatesSound ==
  stage = "build" =>
    /\ \A w \in ToSet(plan.work) :
         /\ w.row \in DOMAIN states[w.step] /\ states[w.step][w.row] = w
         /\ StateSound(w, DOMAIN scopes[w.step].effective, scopes[w.step].effective, states)
    /\ todo # <<>> => \A st \in ToSet(growing) :
         /\ StateSound(st, FirstNames(scopes, Dependencies(Current), Expansions, part),
                       scopes[Current.name].effective, states)
         /\ part <= Len(Dependencies(Current)) => \A c \in ToSet(st.rows) : c.inherited

MeaningInv == OrderSound /\ ScopesSound /\ StatesSound /\ "choice disagrees" \notin errors
-----------------------------------------------------------------------------
(***************************************************************************)
(* The order of the steps.                                                 *)
(***************************************************************************)
\* A step that the last step on the stack depends on, and that is on the
\* stack, depends on itself.
LEMMA CycleFound ==
  ASSUME NEW p, NEW s \in Seq(StepNames(p)), Chained(p, s),
         NEW j \in 1..Len(s), Edge(p, s[Len(s)], s[j])
  PROVE  s[j] \in Ancestors(p, s[j])
<1>1. PICK a : a = s[j]
  OBVIOUS
<1>2. PICK n \in Nat : n = Len(s)
  OBVIOUS
<1>3. a \in StepNames(p) /\ j \in 1..n
  BY <1>1, <1>2
<1>4. ASSUME NEW S \in SUBSET StepNames(p),
             \A c \in S \cup {a}, d \in StepNames(p) : Edge(p, c, d) => d \in S
      PROVE  a \in S
  <2> DEFINE T == {k \in j..n : s[k] \notin S \cup {a}}
  <2>1. T = {}
    <3> SUFFICES ASSUME T # {} PROVE FALSE
      OBVIOUS
    <3>1. T \subseteq Nat
      BY <1>3
    <3>2. PICK m \in T : \A k \in T : m <= k
      BY <3>1, Least
    <3>3. m \in j..n /\ s[m] \notin S \cup {a}
      BY <3>2
    <3>4. m # j
      BY <1>1, <3>3
    <3>5. m - 1 \in j..n /\ m - 1 \in 1..(Len(s) - 1) /\ (m - 1) + 1 = m /\ ~(m <= m - 1)
      BY <1>2, <1>3, <3>3, <3>4
    <3>6. m - 1 \notin T
      BY <3>2, <3>5
    <3>7. s[m - 1] \in S \cup {a}
      BY <3>5, <3>6
    <3>8. Edge(p, s[m - 1], s[m])
      BY <3>5 DEF Chained
    <3>9. s[m] \in StepNames(p)
      BY <3>8 DEF Edge
    <3> QED
      BY <1>4, <3>3, <3>7, <3>8, <3>9
  <2>2. n \in j..n
    BY <1>3
  <2>3. s[n] \in S \cup {a}
    BY <2>1, <2>2
  <2>4. Edge(p, s[n], a)
    BY <1>1, <1>2
  <2> QED
    BY <1>3, <1>4, <2>3, <2>4
<1> QED
  BY <1>1, <1>3, <1>4 DEF Ancestors

\* A step is visited for the one on top of the stack.
LEMMA VisitIs ==
  ASSUME Ordering, Visit
  PROVE  \E x \in StepNames(program) :
           walk' = Append(walk, x) /\ (walk # <<>> => Edge(program, Last(walk), x))
<1> DEFINE least == CHOOSE k \in Unvisited : \A j \in Unvisited : k <= j
<1>1. Unvisited \subseteq DOMAIN Calls /\ Unvisited # {}
  BY DEF Visit, Unvisited
<1>2. DOMAIN Calls \subseteq Nat
  <2>1. CASE walk = <<>>
    <3>1. program \in Seq(ToSet(program))
      BY ProgramAssumption DEF Ordering
    <3> QED
      BY <2>1, <3>1 DEF Calls
  <2>2. CASE walk # <<>>
    <3>1. Last(walk) \in StepNames(program)
      BY <2>2 DEF Ordering, Last
    <3>2. PICK after : after = Block(program, Last(walk)).after
      OBVIOUS
    <3>3. after \in Seq(ToSet(after))
      BY <3>1, <3>2, BlockIs DEF Ordering
    <3> QED
      BY <2>2, <3>2, <3>3 DEF Calls
  <2> QED
    BY <2>1, <2>2
<1>3. \E k \in Unvisited : \A j \in Unvisited : k <= j
  BY <1>1, <1>2, Least
<1>4. least \in Unvisited
  BY <1>3
<1>5. walk' = Append(walk, Calls[least])
  BY DEF Visit
<1> HIDE DEF least
<1>6. Calls[least] \in StepNames(program)
  BY <1>4 DEF Unvisited
<1>7. ASSUME walk # <<>> PROVE Edge(program, Last(walk), Calls[least])
  <2>1. Last(walk) \in StepNames(program)
    BY <1>7 DEF Ordering, Last
  <2>2. PICK after : after = Block(program, Last(walk)).after
    OBVIOUS
  <2>3. after \in Seq(ToSet(after))
    BY <2>1, <2>2, BlockIs DEF Ordering
  <2>4. Calls = after
    BY <1>7, <2>2 DEF Calls
  <2>5. least \in DOMAIN after
    BY <1>1, <1>4, <2>4
  <2>6. Contains(after, after[least])
    BY <2>3, <2>5 DEF Contains
  <2> QED
    BY <1>6, <2>1, <2>2, <2>4, <2>6 DEF Edge
<1> QED
  BY <1>5, <1>6, <1>7

\* The search goes down along a dependency.
LEMMA VisitFinds ==
  ASSUME Ordering, Found, Visit
  PROVE  Found'
<1> SUFFICES ASSUME StepErrors(program) = {}
             PROVE  Topological(program, order)' /\ Chained(program, walk)'
  BY DEF Visit, Found
<1>1. PICK x \in StepNames(program) :
        walk' = Append(walk, x) /\ (walk # <<>> => Edge(program, Last(walk), x))
  BY VisitIs
<1>2. PICK s \in Seq(StepNames(program)) : s = walk
  BY DEF Ordering
<1>3. Chained(program, s) /\ Topological(program, order)
  BY <1>2 DEF Found
<1>4. PICK n \in Nat : n = Len(s)
  BY <1>2
<1>5. PICK t : t = Append(s, x)
  OBVIOUS
<1>6. Len(t) = n + 1 /\ t[n + 1] = x /\ \A k \in 1..n : t[k] = s[k]
  BY <1>1, <1>2, <1>4, <1>5
<1>7. Chained(program, t)
  <2> SUFFICES ASSUME NEW k \in 1..n PROVE Edge(program, t[k], t[k + 1])
    BY <1>6 DEF Chained
  <2>1. CASE k = n
    <3>1. s # <<>> /\ Last(s) = s[n]
      BY <1>4, <2>1 DEF Last
    <3> QED
      BY <1>1, <1>2, <1>6, <2>1, <3>1
  <2>2. CASE k # n
    <3>1. k \in 1..(Len(s) - 1) /\ k + 1 \in 1..n
      BY <1>4, <2>2
    <3> QED
      BY <1>3, <1>6, <3>1 DEF Chained
  <2> QED
    BY <2>1, <2>2
<1>8. program' = program /\ order' = order /\ walk' = t
  BY <1>1, <1>2, <1>5 DEF Visit
<1> QED
  BY <1>3, <1>7, <1>8

\* The search leaves a step when all it depends on has been found, or the
\* step is in a cycle.
LEMMA VisitedFinds ==
  ASSUME Ordering, Found, Visited
  PROVE  Found'
<1> SUFFICES ASSUME StepErrors(program) = {}
             PROVE  Topological(program, order)' /\ Chained(program, walk)'
  BY DEF Visited, Found
<1>1. PICK s \in Seq(StepNames(program)) : s = walk
  BY DEF Ordering
<1>2. PICK o \in Seq(StepNames(program)) : o = order
  BY DEF Ordering
<1>3. PICK n \in Nat \ {0} : n = Len(s)
  BY <1>1 DEF Visited
<1>4. PICK x \in StepNames(program) : x = s[n]
  BY <1>1, <1>3
<1>5. PICK f, t : f = Front(s) /\ t = Append(o, x)
  OBVIOUS
<1>6. Len(f) = n - 1 /\ \A i \in 1..(n - 1) : f[i] = s[i]
  BY <1>1, <1>3, <1>5 DEF Front
<1>7. PICK m \in Nat : m = Len(o)
  BY <1>2
<1>8. DOMAIN t = 1..(m + 1) /\ t[m + 1] = x /\ \A i \in 1..m : t[i] = o[i]
  BY <1>2, <1>4, <1>5, <1>7
<1>9. program' = program /\ order' = t /\ walk' = f
  BY <1>1, <1>2, <1>3, <1>4, <1>5 DEF Visited, Last
<1>10. Chained(program, s) /\ Topological(program, o)
  BY <1>1, <1>2 DEF Found
<1>11. Chained(program, f)
  <2> SUFFICES ASSUME NEW k \in 1..(Len(f) - 1) PROVE Edge(program, f[k], f[k + 1])
    BY DEF Chained
  <2>1. k \in 1..(Len(s) - 1) /\ k \in 1..(n - 1) /\ k + 1 \in 1..(n - 1)
    BY <1>3, <1>6
  <2> QED
    BY <1>6, <1>10, <2>1 DEF Chained
<1>12. ASSUME NEW d \in StepNames(program), Edge(program, x, d)
       PROVE  \E i \in 1..m : o[i] = d
  <2>1. PICK after : after = Block(program, x).after
    OBVIOUS
  <2>2. Calls = after
    BY <1>1, <1>3, <1>4, <2>1 DEF Calls, Visited, Last
  <2>3. after \in Seq(ToSet(after))
    BY <2>1, BlockIs DEF Ordering
  <2>4. PICK k \in DOMAIN after : after[k] = d
    BY <1>12, <2>1, <2>3 DEF Edge, Contains
  <2>5. d \in ToSet(o) \cup ToSet(s)
    <3>1. Unvisited = {}
      BY DEF Visited
    <3> QED
      BY <1>1, <1>2, <2>2, <2>4, <3>1 DEF Unvisited
  <2>6. d \notin ToSet(s)
    <3> SUFFICES ASSUME NEW j \in 1..Len(s), d = s[j] PROVE FALSE
      BY <1>1 DEF ToSet
    <3>1. s[j] \in Ancestors(program, s[j])
      BY <1>3, <1>4, <1>10, <1>12, CycleFound
    <3> QED
      BY <3>1 DEF StepErrors
  <2> QED
    BY <1>2, <1>7, <2>5, <2>6 DEF ToSet
<1>13. Topological(program, t)
  <2> SUFFICES ASSUME NEW k \in 1..(m + 1), NEW d \in StepNames(program), Edge(program, t[k], d)
               PROVE  \E j \in 1..(k - 1) : t[j] = d
    BY <1>8 DEF Topological
  <2>1. CASE k = m + 1
    <3>1. PICK i \in 1..m : o[i] = d
      BY <1>8, <1>12, <2>1
    <3>2. i \in 1..(k - 1)
      BY <2>1, <3>1
    <3> QED
      BY <1>8, <3>1, <3>2
  <2>2. CASE k # m + 1
    <3>1. k \in 1..m /\ k \in DOMAIN o
      BY <1>2, <1>7, <2>2
    <3>2. PICK j \in 1..(k - 1) : o[j] = d
      BY <1>8, <1>10, <3>1 DEF Topological
    <3>3. j \in 1..m
      BY <3>1
    <3> QED
      BY <1>8, <3>2, <3>3
  <2> QED
    BY <2>1, <2>2
<1> QED
  BY <1>9, <1>11, <1>13

-----------------------------------------------------------------------------
(***************************************************************************)
(* Scope plans.                                                            *)
(***************************************************************************)
\* What is picked are the elements at the places.
LEMMA PickedElements ==
  ASSUME NEW s, s \in Seq(ToSet(s)), NEW places
  PROVE  ToSet(Picked(s, places)) = {s[k] : k \in places \cap DOMAIN s}
<1>1. PICK t : t = Picked(s, places)
  OBVIOUS
<1>2. PickedUpTo(t, s, places, Len(s))
  BY <1>1, PickedIs
<1>3. DOMAIN s = 1..Len(s)
  OBVIOUS
<1>4. t \in Seq(ToSet(s)) /\ DOMAIN t = 1..Len(t)
  BY <1>2 DEF PickedUpTo
<1>5. PICK at \in [1..Len(t) -> places \cap 1..Len(s)] :
        /\ \A k \in 1..Len(t) : t[k] = s[at[k]]
        /\ \A i \in places \cap 1..Len(s) : \E k \in 1..Len(t) : at[k] = i
  BY <1>2 DEF PickedUpTo
<1>6. ASSUME NEW x \in ToSet(t) PROVE x \in {s[k] : k \in places \cap DOMAIN s}
  <2>1. PICK k \in 1..Len(t) : x = t[k]
    BY <1>4 DEF ToSet
  <2> QED
    BY <1>3, <1>5, <2>1
<1>7. ASSUME NEW i \in places \cap DOMAIN s PROVE s[i] \in ToSet(t)
  <2>1. PICK k \in 1..Len(t) : at[k] = i
    BY <1>3, <1>5
  <2> QED
    BY <1>4, <1>5, <2>1 DEF ToSet
<1> QED
  BY <1>1, <1>6, <1>7

\* The variables an item brings in are columns of its source.
LEMMA VariablesAre ==
  ASSUME NEW p \in Program, NEW b \in ToSet(p), NEW item \in ToSet(b.with),
         ItemError(b, item) = "none"
  PROVE  /\ VisibleVars(b, item) \in Seq(ToSet(VisibleVars(b, item)))
         /\ \A v \in ToSet(VisibleVars(b, item)) : v.var \in ToSet(Columns[b.scope[item.source]])
<1>1. PICK src : src = b.scope[item.source]
  OBVIOUS
<1>2. item.source \in DOMAIN b.scope
  BY DEF ItemError
<1>3. src \in Version
  <2>1. b.scope \in [DOMAIN b.scope -> Version]
    BY ProgramAssumption
  <2> QED
    BY <1>1, <1>2, <2>1
<1>4. PICK cols : cols = item.columns
  OBVIOUS
<1>5. cols \in Seq(ToSet(cols))
  BY <1>4, ProgramAssumption
<1>6. ToSet(cols) \subseteq ToSet(Columns[src])
  BY <1>1, <1>4 DEF ItemError
<1>7. PICK names : names = SourceVars(b, item)
  OBVIOUS
<1>8. names \in Seq(ToSet(Columns[src]))
  <2>1. CASE cols # <<>>
    <3>1. names = Unique(cols)
      BY <1>4, <1>7, <2>1 DEF SourceVars
    <3>2. PICK u : u = Unique(cols)
      OBVIOUS
    <3>3. u \in Seq(ToSet(cols))
      BY <1>5, <3>2, UniqueIs
    <3> QED
      BY <1>6, <3>1, <3>2, <3>3
  <2>2. CASE cols = <<>>
    <3>1. names = Columns[src]
      BY <1>1, <1>4, <1>7, <2>2 DEF SourceVars
    <3> QED
      BY <1>3, <3>1, CellAssumption
  <2> QED
    BY <2>1, <2>2
<1>9. PICK vis : vis = VisibleVars(b, item)
  OBVIOUS
<1>10. vis \in Seq(ToSet(vis)) /\ \A v \in ToSet(vis) : v.var \in ToSet(Columns[src])
  <2>1. CASE item.alias # ""
    <3>1. Len(names) = 1
      BY <1>7, <2>1 DEF ItemError
    <3>2. Head(names) \in ToSet(Columns[src])
      <4>1. PICK C : C = ToSet(Columns[src])
        OBVIOUS
      <4>2. names \in Seq(C) /\ 1 \in 1..Len(names)
        BY <1>8, <3>1, <4>1
      <4>3. Head(names) = names[1] /\ names[1] \in C
        BY <4>2
      <4> QED
        BY <4>1, <4>3
    <3>3. vis = <<[visible |-> item.alias, var |-> Head(names)]>>
      BY <1>7, <1>9, <2>1 DEF VisibleVars
    <3> QED
      BY <3>2, <3>3 DEF ToSet
  <2>2. CASE item.alias = ""
    <3>1. vis = [k \in DOMAIN names |-> [visible |-> names[k], var |-> names[k]]]
      BY <1>7, <1>9, <2>2 DEF VisibleVars
    <3>2. DOMAIN vis = 1..Len(names) /\ Len(names) \in Nat /\ \A k \in 1..Len(names) : vis[k].var = names[k]
      BY <1>8, <3>1
    <3>3. \A k \in 1..Len(names) : vis[k] \in ToSet(vis)
      BY <3>2 DEF ToSet
    <3>4. vis = [k \in 1..Len(names) |-> vis[k]]
      BY <3>1, <3>2
    <3>5. vis \in Seq(ToSet(vis))
      BY <3>2, <3>3, <3>4
    <3> QED
      BY <1>8, <3>2, <3>5 DEF ToSet
  <2> QED
    BY <2>1, <2>2
<1> QED
  BY <1>1, <1>9, <1>10

\* The same for the items of a block that can be used.
LEMMA ItemsAre ==
  ASSUME NEW p \in Program, NEW b \in ToSet(p), NEW e \in ToSet(Resolved(b))
  PROVE  /\ e = [item |-> e.item, source |-> e.source, vars |-> e.vars, full |-> e.full]
         /\ e.vars \in Seq(ToSet(e.vars))
         /\ \A v \in ToSet(e.vars) : v.var \in ToSet(Columns[e.source])
<1>1. b.with \in Seq(ToSet(b.with))
  BY ProgramAssumption
<1>2. PICK all : all = [k \in DOMAIN b.with |-> k]
  OBVIOUS
<1>3. all \in Seq(ToSet(all))
  <2>1. DOMAIN b.with = 1..Len(b.with) /\ Len(b.with) \in Nat
    BY <1>1
  <2>2. ToSet(all) = DOMAIN b.with
    BY <1>2 DEF ToSet
  <2> QED
    BY <1>2, <2>1, <2>2
<1>4. PICK places : places = {k \in DOMAIN all : ItemError(b, b.with[all[k]]) = "none"}
  OBVIOUS
<1>5. PICK ids : ids = Picked(all, places)
  OBVIOUS
<1>6. ids = Select([k \in DOMAIN b.with |-> k], LAMBDA k : ItemError(b, b.with[k]) = "none")
  BY <1>2, <1>4, <1>5 DEF Select
<1>7. ToSet(ids) = {all[k] : k \in places \cap DOMAIN all}
  BY <1>3, <1>5, PickedElements
<1>8. PICK r : r = Resolved(b)
  OBVIOUS
<1>9. r = [j \in DOMAIN ids |->
         LET item == b.with[ids[j]] IN
         [item |-> ids[j], source |-> b.scope[item.source],
          vars |-> VisibleVars(b, item), full |-> item.columns = <<>>]]
  BY <1>6, <1>8 DEF Resolved
<1>10. PICK j \in DOMAIN ids : e = r[j]
  BY <1>8, <1>9 DEF ToSet
<1>11. PICK item : item = b.with[ids[j]]
  OBVIOUS
<1>12. e = [item |-> ids[j], source |-> b.scope[item.source],
            vars |-> VisibleVars(b, item), full |-> item.columns = <<>>]
  BY <1>9, <1>10, <1>11
<1>13. PICK k \in places \cap DOMAIN all : ids[j] = all[k]
  <2>1. ids[j] \in ToSet(ids)
    BY <1>10 DEF ToSet
  <2> QED
    BY <1>7, <2>1
<1>14. ItemError(b, item) = "none" /\ item \in ToSet(b.with)
  BY <1>2, <1>4, <1>11, <1>13 DEF ToSet
<1>15. PICK vis, src : vis = VisibleVars(b, item) /\ src = b.scope[item.source]
  OBVIOUS
<1>16. vis \in Seq(ToSet(vis)) /\ \A v \in ToSet(vis) : v.var \in ToSet(Columns[src])
  BY <1>14, <1>15, VariablesAre
<1> QED
  BY <1>12, <1>15, <1>16

\* The variables of the i-th item whose names are new with it.
NewVars(known, items, i) == {v \in ToSet(items[i].vars) : v.visible \notin known \cup Selected(items, i)}

\* What is left to expand are the new names of the items, in their order.
LEMMA KeptAre ==
  ASSUME NEW p \in Program, NEW b \in ToSet(p), NEW items, items = Resolved(b),
         NEW exps, exps = Kept(b), NEW known, known = DOMAIN Inherited(b)
  PROVE  \E at \in [1..Len(exps) -> 1..Len(items)] :
           /\ \A j, k \in 1..Len(exps) : j < k => at[j] < at[k]
           /\ \A k \in 1..Len(exps) :
                /\ exps[k].source = items[at[k]].source
                /\ ToSet(exps[k].vars) = NewVars(known, items, at[k])
           /\ \A i \in 1..Len(items) : NewVars(known, items, i) # {} => \E k \in 1..Len(exps) : at[k] = i
<1>1. items \in Seq(ToSet(items)) /\ DOMAIN items = 1..Len(items) /\ Len(items) \in Nat
  BY ResolvedIs
<1>2. \A i \in 1..Len(items) :
        /\ items[i] = [item |-> items[i].item, source |-> items[i].source, vars |-> items[i].vars,
                       full |-> items[i].full]
        /\ items[i].vars \in Seq(ToSet(items[i].vars))
  <2>1. \A i \in 1..Len(items) : items[i] \in ToSet(items)
    BY <1>1 DEF ToSet
  <2> QED
    BY <2>1, ItemsAre
<1> DEFINE left(i) == Select(items[i].vars, LAMBDA v : v.visible \notin DOMAIN Inherited(b) \cup Selected(items, i))
<1>3. PICK all : all = [i \in DOMAIN items |->
               [items[i] EXCEPT !.vars = left(i), !.full = @ /\ left(i) = items[i].vars]]
  OBVIOUS
<1>4. PICK places : places = {i \in DOMAIN all : all[i].vars # <<>>}
  OBVIOUS
<1>5. exps = Picked(all, places)
  BY <1>3, <1>4, SMTT(30), ZenonT(30) DEF Kept, Select
<1>6. DOMAIN all = 1..Len(items)
  BY <1>1, <1>3
<1>7. ASSUME NEW i \in 1..Len(items)
      PROVE  all[i].source = items[i].source /\ all[i].vars = left(i)
  <2>1. PICK e, vs, full : e = items[i] /\ vs = left(i) /\ full = (e.full /\ left(i) = e.vars)
    OBVIOUS
  <2>2. all[i] = [e EXCEPT !.vars = vs, !.full = full]
    BY <1>3, <1>6, <1>7, <2>1
  <2> HIDE DEF left
  <2>3. e = [item |-> e.item, source |-> e.source, vars |-> e.vars, full |-> e.full]
    BY <1>2, <2>1
  <2>4. all[i] = [item |-> e.item, source |-> e.source, vars |-> vs, full |-> full]
    BY <2>2, <2>3
  <2> QED
    BY <2>1, <2>4
<1>8. ASSUME NEW i \in 1..Len(items)
      PROVE  left(i) \in Seq(ToSet(left(i))) /\ ToSet(left(i)) = NewVars(known, items, i)
  <2>1. PICK vs : vs = items[i].vars
    OBVIOUS
  <2>2. vs \in Seq(ToSet(vs))
    BY <1>2, <2>1
  <2>3. PICK ps : ps = {k \in DOMAIN vs : vs[k].visible \notin known \cup Selected(items, i)}
    OBVIOUS
  <2>4. left(i) = Picked(vs, ps)
    BY <2>1, <2>3 DEF Select
  <2>5. PICK t : t = Picked(vs, ps)
    OBVIOUS
  <2>6. t \in Seq(ToSet(vs)) /\ ToSet(t) = {vs[k] : k \in ps \cap DOMAIN vs}
    BY <2>2, <2>5, PickedIn, PickedElements
  <2>7. t \in Seq(ToSet(t))
    BY <2>6 DEF ToSet
  <2>8. ToSet(t) = NewVars(known, items, i)
    BY <2>1, <2>3, <2>6 DEF NewVars, ToSet
  <2> QED
    BY <2>4, <2>5, <2>7, <2>8
<1> HIDE DEF left
<1>9. all \in Seq(ToSet(all)) /\ Len(all) = Len(items)
  <2>1. \A j \in 1..Len(items) : all[j] \in ToSet(all)
    BY <1>6 DEF ToSet
  <2>2. all = [j \in 1..Len(items) |-> all[j]]
    BY <1>1, <1>3
  <2>3. all \in Seq(ToSet(all))
    BY <1>1, <2>1, <2>2
  <2> QED
    BY <1>1, <1>6, <2>3
<1>10. PickedUpTo(exps, all, places, Len(items))
  BY <1>5, <1>9, PickedIs
<1>11. PICK at \in [1..Len(exps) -> places \cap 1..Len(items)] :
         /\ \A j, k \in 1..Len(exps) : j < k => at[j] < at[k]
         /\ \A k \in 1..Len(exps) : exps[k] = all[at[k]]
         /\ \A i \in places \cap 1..Len(items) : \E k \in 1..Len(exps) : at[k] = i
  BY <1>10 DEF PickedUpTo
<1>12. ASSUME NEW i \in 1..Len(items), NewVars(known, items, i) # {} PROVE i \in places
  <2>1. PICK v : v \in ToSet(left(i))
    BY <1>8, <1>12
  <2>2. all[i].vars # <<>>
    <3> SUFFICES ASSUME left(i) = <<>> PROVE FALSE
      BY <1>7
    <3> QED
      BY <2>1 DEF ToSet
  <2> QED
    BY <1>4, <1>6, <2>2
<1>13. at \in [1..Len(exps) -> 1..Len(items)]
  BY <1>11
<1>14. \A k \in 1..Len(exps) :
         exps[k].source = items[at[k]].source /\ ToSet(exps[k].vars) = NewVars(known, items, at[k])
  BY <1>7, <1>8, <1>11, <1>13
<1> QED
  BY <1>11, <1>12, <1>13, <1>14

\* The names that are left to expand are those that some item brings in and no
\* dependency has, and no two expansions have a name in common.
LEMMA ExpandedNames ==
  ASSUME NEW p \in Program, NEW b \in ToSet(p), NEW items, items = Resolved(b),
         NEW exps, exps = Kept(b), NEW known, known = DOMAIN Inherited(b)
  PROVE  /\ ImportedNames(exps, Len(exps)) = Selected(items, Len(items) + 1) \ known
         /\ \A k \in DOMAIN exps : \A v \in ToSet(exps[k].vars) :
              /\ v.visible \notin known \cup ImportedNames(exps, k - 1)
              /\ \E e \in ToSet(items) : v \in ToSet(e.vars) /\ e.source = exps[k].source
<1>1. PICK at \in [1..Len(exps) -> 1..Len(items)] :
        /\ \A j, k \in 1..Len(exps) : j < k => at[j] < at[k]
        /\ \A k \in 1..Len(exps) :
             /\ exps[k].source = items[at[k]].source
             /\ ToSet(exps[k].vars) = NewVars(known, items, at[k])
        /\ \A i \in 1..Len(items) : NewVars(known, items, i) # {} => \E k \in 1..Len(exps) : at[k] = i
  BY KeptAre
<1>2. DOMAIN items = 1..Len(items) /\ Len(items) \in Nat
  BY ResolvedIs
<1>3. DOMAIN exps = 1..Len(exps) /\ Len(exps) \in Nat
  BY KeptIs
<1>4. \A i \in Nat : Selected(items, i) = {v.visible : v \in UNION {ToSet(items[j].vars) : j \in 1..(i - 1)}}
  BY DEF Selected, Names
<1>5. ASSUME NEW k \in 1..Len(exps), NEW v \in ToSet(exps[k].vars)
      PROVE  /\ v.visible \in Selected(items, Len(items) + 1) \ known
             /\ v.visible \notin known \cup ImportedNames(exps, k - 1)
             /\ \E e \in ToSet(items) : v \in ToSet(e.vars) /\ e.source = exps[k].source
  <2>1. v \in ToSet(items[at[k]].vars) /\ v.visible \notin known \cup Selected(items, at[k])
    BY <1>1, <1>5 DEF NewVars
  <2>2. at[k] \in 1..Len(items) /\ items[at[k]] \in ToSet(items)
    BY <1>1, <1>2 DEF ToSet
  <2>3. v.visible \in Selected(items, Len(items) + 1)
    <3>1. at[k] \in 1..((Len(items) + 1) - 1) /\ Len(items) + 1 \in Nat
      BY <1>2, <2>2
    <3>2. v.visible \in Names(items[at[k]].vars)
      BY <2>1 DEF Names
    <3> QED
      BY <3>1, <3>2 DEF Selected
  <2>4. v.visible \notin ImportedNames(exps, k - 1)
    <3> SUFFICES ASSUME NEW j \in 1..(k - 1), NEW u \in ToSet(exps[j].vars), u.visible = v.visible
                 PROVE  FALSE
      BY DEF ImportedNames, Names
    <3>1. j \in 1..Len(exps) /\ j < k
      BY <1>3
    <3>2. u \in ToSet(items[at[j]].vars)
      BY <1>1, <3>1 DEF NewVars
    <3>3. at[j] \in 1..(at[k] - 1) /\ at[k] \in Nat
      <4>1. at[j] < at[k] /\ at[j] \in 1..Len(items)
        BY <1>1, <3>1
      <4> QED
        BY <1>2, <2>2, <4>1
    <3>4. u.visible \in Selected(items, at[k])
      BY <1>4, <3>2, <3>3
    <3> QED
      BY <2>1, <3>4
  <2> QED
    BY <1>1, <2>1, <2>2, <2>3, <2>4
<1>6. ASSUME NEW n \in Selected(items, Len(items) + 1) \ known
      PROVE  n \in ImportedNames(exps, Len(exps))
  <2> DEFINE T == {i \in 1..Len(items) : \E v \in ToSet(items[i].vars) : v.visible = n}
  <2>1. T # {}
    <3>1. PICK j \in 1..((Len(items) + 1) - 1) : \E v \in ToSet(items[j].vars) : v.visible = n
      BY <1>2, <1>6 DEF Selected, Names
    <3>2. j \in 1..Len(items)
      BY <1>2, <3>1
    <3> QED
      BY <3>1, <3>2
  <2>2. PICK i \in T : \A j \in T : i <= j
    <3>1. T \subseteq Nat
      BY <1>2
    <3> QED
      BY <2>1, <3>1, Least
  <2>3. PICK v \in ToSet(items[i].vars) : v.visible = n
    BY <2>2
  <2>4. n \notin Selected(items, i)
    <3> SUFFICES ASSUME NEW j \in 1..(i - 1), NEW u \in ToSet(items[j].vars), u.visible = n
                 PROVE  FALSE
      BY DEF Selected, Names
    <3>1. j \in 1..Len(items) /\ ~(i <= j)
      BY <1>2, <2>2
    <3>2. j \in T
      BY <3>1
    <3> QED
      BY <2>2, <3>1, <3>2
  <2>5. v \in NewVars(known, items, i)
    BY <1>6, <2>3, <2>4 DEF NewVars
  <2>6. PICK k \in 1..Len(exps) : at[k] = i
    BY <1>1, <2>2, <2>5
  <2>7. v \in ToSet(exps[k].vars)
    BY <1>1, <2>5, <2>6
  <2> QED
    BY <1>3, <2>3, <2>6, <2>7 DEF ImportedNames, Names
<1>7. ImportedNames(exps, Len(exps)) \subseteq Selected(items, Len(items) + 1) \ known
  <2> SUFFICES ASSUME NEW k \in 1..Len(exps), NEW v \in ToSet(exps[k].vars)
               PROVE  v.visible \in Selected(items, Len(items) + 1) \ known
    BY DEF ImportedNames, Names
  <2> QED
    BY <1>5
<1> QED
  BY <1>3, <1>5, <1>6, <1>7

\* The next step, and what has been done before it.
LEMMA NextTurn ==
  ASSUME NEW S, NEW s \in Seq(S), IsInjective(s), NEW left, NEW done,
         InTurn(s, left, done), left # <<>>
  PROVE  /\ InTurn(s, Tail(left), done \cup {Head(left)})
         /\ Head(left) \notin done
         /\ \E k \in DOMAIN s : s[k] = Head(left) /\ done = UpTo(s, k - 1)
<1>1. PICK n \in 0..Len(s) : left = Remaining(s, n) /\ done = UpTo(s, n)
  BY DEF InTurn
<1>2. PICK m \in Nat : m = Len(s) /\ DOMAIN s = 1..m
  OBVIOUS
<1>3. n < m
  <2> SUFFICES ASSUME n = m PROVE FALSE
    BY <1>1, <1>2
  <2>1. Len(left) = 0
    BY <1>1, <1>2 DEF Remaining
  <2> QED
    BY <1>1, <2>1 DEF Remaining
<1>4. /\ n + 1 \in 1..m /\ n \in Nat
      /\ Len(left) = m - n /\ left \in Seq(S)
      /\ \A i \in 1..(m - n) : left[i] = s[i + n]
  BY <1>1, <1>2, <1>3 DEF Remaining
<1>5. Head(left) = s[n + 1]
  BY <1>4
<1>6. PICK rest : rest = Tail(left)
  OBVIOUS
<1>7. /\ Len(rest) = m - (n + 1) /\ rest \in Seq(S)
      /\ \A i \in 1..(m - (n + 1)) : rest[i] = s[i + (n + 1)]
  <2>1. Len(rest) = m - (n + 1) /\ rest \in Seq(S)
    <3>1. PICK l \in Nat : l = m - n
      <4>1. m \in Nat /\ n \in Nat /\ n < m
        BY <1>2, <1>3, <1>4
      <4>2. m - n \in Nat
        BY <4>1
      <4> QED
        BY <4>2
    <3>2. left \in Seq(S) /\ Len(left) = l /\ l # 0 /\ l - 1 = m - (n + 1)
      BY <1>2, <1>3, <1>4, <3>1
    <3>3. rest \in Seq(S) /\ Len(rest) = l - 1
      BY <1>6, <3>2
    <3> QED
      BY <3>2, <3>3
  <2>2. ASSUME NEW i \in 1..(m - (n + 1)) PROVE rest[i] = s[i + (n + 1)]
    <3>1. rest[i] = left[i + 1] /\ i + 1 \in 1..(m - n) /\ (i + 1) + n = i + (n + 1)
      BY <1>2, <1>3, <1>4, <1>6, <2>1
    <3> QED
      BY <1>4, <3>1
  <2> QED
    BY <2>1, <2>2
<1>8. rest = Remaining(s, n + 1)
  <2>1. PICK t : t = Remaining(s, n + 1)
    OBVIOUS
  <2>2. /\ Len(t) = m - (n + 1) /\ t \in Seq(S)
        /\ \A i \in 1..(m - (n + 1)) : t[i] = s[i + (n + 1)]
    BY <1>2, <1>3, <1>4, <2>1 DEF Remaining
  <2>3. rest = t
    <3>1. PICK l : l = m - (n + 1)
      OBVIOUS
    <3>2. rest = [i \in 1..l |-> rest[i]] /\ t = [i \in 1..l |-> t[i]]
      BY <1>7, <2>2, <3>1
    <3>3. \A i \in 1..l : rest[i] = t[i]
      BY <1>7, <2>2, <3>1
    <3> QED
      BY <3>2, <3>3
  <2> QED
    BY <2>1, <2>3
<1>9. done \cup {s[n + 1]} = UpTo(s, n + 1)
  <2>1. 1..(n + 1) = 1..n \cup {n + 1}
    BY <1>4
  <2> QED
    BY <1>1, <2>1 DEF UpTo
<1>10. s[n + 1] \notin UpTo(s, n)
  <2> SUFFICES ASSUME NEW k \in 1..n, s[k] = s[n + 1] PROVE FALSE
    BY DEF UpTo
  <2>1. k \in 1..m /\ k # n + 1
    BY <1>3, <1>4
  <2> QED
    BY <1>2, <1>4, <2>1 DEF IsInjective
<1>11. InTurn(s, rest, done \cup {s[n + 1]})
  <2>1. n + 1 \in 0..Len(s)
    BY <1>2, <1>4
  <2> QED
    BY <1>8, <1>9, <2>1 DEF InTurn
<1>12. (n + 1) - 1 = n
  BY <1>4
<1> QED
  BY <1>1, <1>2, <1>4, <1>5, <1>6, <1>10, <1>11, <1>12

\* A scope plan is sound whatever else is planned later.
LEMMA ScopeStays ==
  ASSUME NEW p, NEW sc, NEW more, DOMAIN sc \subseteq DOMAIN more,
         \A d \in DOMAIN sc : more[d] = sc[d], NEW name \in DOMAIN sc, ScopeSound(p, sc, name)
  PROVE  ScopeSound(p, more, name)
<1>1. PICK b : b = Block(p, name)
  OBVIOUS
<1>2. ToSet(b.after) \subseteq DOMAIN sc
  BY <1>1 DEF ScopeSound
<1>3. \A d \in ToSet(b.after) : more[d] = sc[d]
  BY <1>2
<1>4. InheritedNames(more, ToSet(b.after)) = InheritedNames(sc, ToSet(b.after))
  BY <1>3 DEF InheritedNames
<1>5. more[name] = sc[name] /\ ToSet(b.after) \subseteq DOMAIN more
  BY <1>2
<1>6. \A d \in ToSet(b.after) : \A n \in DOMAIN more[d].effective :
        more[d].effective[n] = more[name].effective[n]
  BY <1>1, <1>3, <1>5 DEF ScopeSound
<1>7. DOMAIN more[name].effective
        = InheritedNames(more, ToSet(b.after)) \cup ImportedNames(more[name].expansions, Len(more[name].expansions))
  BY <1>1, <1>4, <1>5 DEF ScopeSound
<1> QED
  BY <1>1, <1>4, <1>5, <1>6, <1>7 DEF ScopeSound

\* Without errors so far the dependencies of the next step have their plans.
LEMMA DependenciesPlanned ==
  ASSUME Ordering, Found, StepErrors(program) = {}, NEW k \in DOMAIN order
  PROVE  ToSet(Block(program, order[k]).after) \subseteq UpTo(order, k - 1)
<1>1. order[k] \in StepNames(program)
  BY DEF Ordering
<1>2. PICK b : b = Block(program, order[k])
  OBVIOUS
<1>3. b.after \in Seq(ToSet(b.after))
  BY <1>1, <1>2, BlockIs DEF Ordering
<1>4. ToSet(b.after) \subseteq StepNames(program)
  BY <1>1, <1>2 DEF StepErrors
<1> SUFFICES ASSUME NEW d \in ToSet(b.after) PROVE d \in UpTo(order, k - 1)
  BY <1>2
<1>5. Edge(program, order[k], d)
  <2>1. \E i \in 1..Len(b.after) : b.after[i] = d
    BY <1>3 DEF ToSet
  <2> QED
    BY <1>1, <1>2, <1>4, <2>1 DEF Edge, Contains
<1>6. PICK j \in 1..(k - 1) : order[j] = d
  <2>1. Topological(program, order)
    BY DEF Found
  <2> QED
    BY <1>4, <1>5, <2>1 DEF Topological
<1> QED
  BY <1>6 DEF UpTo

\* The names a step inherits are those of all steps it names.
LEMMA InheritedAre ==
  ASSUME NEW p \in Program, NEW b \in ToSet(p), ToSet(b.after) \subseteq DOMAIN scopes
  PROVE  /\ ToSet(Planned(b)) = ToSet(b.after)
         /\ DOMAIN Inherited(b) = InheritedNames(scopes, ToSet(b.after))
<1>1. PICK after, deps : after = b.after /\ deps = Unique(after)
  OBVIOUS
<1>2. after \in Seq(ToSet(after))
  BY <1>1, ProgramAssumption
<1>3. deps \in Seq(ToSet(after)) /\ ToSet(deps) = ToSet(after)
  BY <1>1, <1>2, UniqueIs
<1>4. deps \in Seq(ToSet(deps))
  BY <1>3
<1>5. PICK places : places = {k \in DOMAIN deps : deps[k] \in DOMAIN scopes}
  OBVIOUS
<1>6. Planned(b) = Picked(deps, places)
  BY <1>1, <1>5 DEF Planned, Select
<1>7. ToSet(Picked(deps, places)) = {deps[k] : k \in places \cap DOMAIN deps}
  BY <1>4, PickedElements
<1>8. \A k \in DOMAIN deps : deps[k] \in DOMAIN scopes
  BY <1>1, <1>3 DEF ToSet
<1>9. ToSet(Planned(b)) = ToSet(b.after)
  <2>1. places \cap DOMAIN deps = DOMAIN deps
    BY <1>5, <1>8
  <2>2. ToSet(deps) = {deps[k] : k \in DOMAIN deps}
    BY DEF ToSet
  <2> QED
    BY <1>1, <1>3, <1>6, <1>7, <2>1, <2>2
<1>10. DOMAIN Inherited(b) = UNION {DOMAIN scopes[dep].effective : dep \in ToSet(Planned(b))}
  BY DEF Inherited
<1> QED
  BY <1>9, <1>10 DEF InheritedNames

\* The plan of a step whose dependencies are planned is sound, unless two of
\* the things it is made of give a name different meanings.
LEMMA ScopePlanned ==
  ASSUME NEW p \in Program, NEW name \in StepNames(p), NEW b, b = Block(p, name),
         ToSet(b.after) \subseteq DOMAIN scopes, ~Conflict(b),
         NEW sc, name \notin DOMAIN scopes,
         sc = Updated(scopes, name, [effective |-> Effective(b), expansions |-> Kept(b)])
  PROVE  ScopeSound(p, sc, name)
<1>1. b \in ToSet(p)
  BY BlockIs
<1>2. PICK items, exps, known : items = Resolved(b) /\ exps = Kept(b) /\ known = DOMAIN Inherited(b)
  OBVIOUS
<1>3. PICK eff : eff = Effective(b)
  OBVIOUS
<1>4. items \in Seq(ToSet(items)) /\ DOMAIN items = 1..Len(items) /\ Len(items) \in Nat
  BY <1>1, <1>2, ResolvedIs
<1>5. /\ ImportedNames(exps, Len(exps)) = Selected(items, Len(items) + 1) \ known
      /\ \A k \in DOMAIN exps : \A v \in ToSet(exps[k].vars) :
           /\ v.visible \notin known \cup ImportedNames(exps, k - 1)
           /\ \E e \in ToSet(items) : v \in ToSet(e.vars) /\ e.source = exps[k].source
  BY <1>1, <1>2, ExpandedNames
<1>6. ToSet(Planned(b)) = ToSet(b.after) /\ known = InheritedNames(scopes, ToSet(b.after))
  BY <1>1, <1>2, InheritedAre
<1>7. DOMAIN eff = known \cup Selected(items, Len(items) + 1)
  BY <1>2, <1>3 DEF Effective
<1>8. DOMAIN eff = known \cup ImportedNames(exps, Len(exps))
  BY <1>5, <1>7
<1>9. /\ \A d \in ToSet(b.after) : \A n \in DOMAIN scopes[d].effective : scopes[d].effective[n] = eff[n]
      /\ \A e \in ToSet(items) : \A v \in ToSet(e.vars) : eff[v.visible] = Binding(e, v)
  BY <1>2, <1>3, <1>6 DEF Conflict
<1>10. ASSUME NEW e \in ToSet(items), NEW v \in ToSet(e.vars) PROVE v.visible \in DOMAIN eff
  <2>1. PICK j \in 1..Len(items) : e = items[j]
    BY <1>4 DEF ToSet
  <2>2. v.visible \in Names(items[j].vars)
    BY <2>1 DEF Names
  <2>3. j \in 1..((Len(items) + 1) - 1)
    BY <1>4
  <2>4. v.visible \in Selected(items, Len(items) + 1)
    BY <2>2, <2>3 DEF Selected
  <2> QED
    BY <1>7, <2>4
<1>11. ASSUME NEW k \in DOMAIN exps, NEW v \in ToSet(exps[k].vars)
       PROVE  v.var \in ToSet(Columns[exps[k].source]) /\ eff[v.visible] = Binding(exps[k], v)
  <2>1. PICK e \in ToSet(items) : v \in ToSet(e.vars) /\ e.source = exps[k].source
    BY <1>5
  <2>2. v.var \in ToSet(Columns[e.source])
    BY <1>1, <1>2, <2>1, ItemsAre
  <2> QED
    BY <1>9, <2>1, <2>2 DEF Binding
<1>12. DOMAIN sc = DOMAIN scopes \cup {name} /\ sc[name].effective = eff /\ sc[name].expansions = exps
  BY <1>2, <1>3 DEF Updated
<1>13. \A d \in ToSet(b.after) : sc[d] = scopes[d]
  BY DEF Updated
<1>14. known = InheritedNames(sc, ToSet(b.after))
  BY <1>6, <1>13 DEF InheritedNames
<1>15. \A d \in ToSet(b.after) : \A n \in DOMAIN sc[d].effective : sc[d].effective[n] = eff[n]
  BY <1>9, <1>13
<1> QED
  BY <1>2, <1>5, <1>8, <1>9, <1>10, <1>11, <1>12, <1>14, <1>15 DEF ScopeSound

\* Planning one more step.
LEMMA PlanStepSound ==
  ASSUME PlanInv, OrderSound, ScopesSound, PlanStep
  PROVE  OrderSound' /\ ScopesSound'
<1>1. /\ stage = "scopes" /\ todo # <<>> /\ todo' = Tail(todo)
      /\ UNCHANGED <<program, stage, order, walk>>
  BY DEF PlanStep
<1>2. /\ program \in Program /\ order \in Seq(StepNames(program)) /\ IsInjective(order)
      /\ todo \in Seq(StepNames(program))
  BY <1>1 DEF PlanInv, Ordering, Scoped
<1>3. PICK name \in StepNames(program) : name = Head(todo)
  BY <1>1, <1>2
<1>4. PICK b : b = Block(program, name)
  OBVIOUS
<1>5. b.name = name /\ b \in ToSet(program)
  BY <1>2, <1>4, BlockIs
<1>6. /\ scopes' = Updated(scopes, name, [effective |-> Effective(b), expansions |-> Kept(b)])
      /\ errors' = errors \cup ResolveErrors(b) \cup (IF Conflict(b) THEN {"conflict"} ELSE {})
  BY <1>3, <1>4, <1>5 DEF PlanStep
<1>7. PICK done : done = DOMAIN scopes
  OBVIOUS
<1>8. InTurn(order, todo, done)
  BY <1>1, <1>7 DEF OrderSound
<1>9. /\ InTurn(order, Tail(todo), done \cup {name}) /\ name \notin done
      /\ \E k \in DOMAIN order : order[k] = name /\ done = UpTo(order, k - 1)
  BY <1>1, <1>2, <1>3, <1>8, NextTurn
<1>10. DOMAIN scopes' = done \cup {name} /\ \A d \in done : scopes'[d] = scopes[d]
  BY <1>6, <1>7, <1>9 DEF Updated
<1>11. Found'
  BY <1>1 DEF OrderSound, Found
<1>12. StepErrors(program) \subseteq errors
  BY <1>1 DEF OrderSound
<1>13. OrderSound'
  <2>1. InTurn(order, todo, DOMAIN scopes)'
    BY <1>1, <1>9, <1>10
  <2> QED
    BY <1>1, <1>6, <1>11, <1>12, <2>1 DEF OrderSound
<1>14. ASSUME errors' = {}, NEW step \in DOMAIN scopes' PROVE ScopeSound(program, scopes', step)
  <2>1. errors = {} /\ StepErrors(program) = {} /\ ~Conflict(b)
    BY <1>6, <1>12, <1>14
  <2>2. PICK sc : sc = scopes'
    OBVIOUS
  <2>3. CASE step = name
    <3>1. PICK k \in DOMAIN order : order[k] = name /\ done = UpTo(order, k - 1)
      BY <1>9
    <3>2. ToSet(b.after) \subseteq done
      BY <1>4, <2>1, <3>1, DependenciesPlanned DEF OrderSound, PlanInv
    <3> QED
      BY <1>2, <1>4, <1>6, <1>7, <1>9, <2>1, <2>3, <3>2, ScopePlanned
  <2>4. CASE step # name
    <3>1. PICK old : old = scopes
      OBVIOUS
    <3>2. step \in DOMAIN old /\ ScopeSound(program, old, step)
      BY <1>1, <1>7, <1>10, <2>1, <2>4, <3>1 DEF ScopesSound
    <3>3. DOMAIN old \subseteq DOMAIN sc /\ \A d \in DOMAIN old : sc[d] = old[d]
      BY <1>7, <1>10, <2>2, <3>1
    <3> QED
      BY <2>2, <3>2, <3>3, ScopeStays
  <2> QED
    BY <2>3, <2>4
<1>15. ScopesSound'
  BY <1>1, <1>14 DEF ScopesSound
<1> QED
  BY <1>13, <1>15

-----------------------------------------------------------------------------
(***************************************************************************)
(* Values and rows.                                                        *)
(***************************************************************************)
\* The elements of a sequence with one more.
LEMMA AppendedElements ==
  ASSUME NEW s, s \in Seq(ToSet(s)), NEW x
  PROVE  /\ ToSet(Append(s, x)) = ToSet(s) \cup {x}
         /\ Append(s, x) \in Seq(ToSet(Append(s, x)))
<1>1. PICK n \in Nat : n = Len(s) /\ DOMAIN s = 1..n
  OBVIOUS
<1>2. PICK t : t = Append(s, x)
  OBVIOUS
<1>3. PICK S : S = ToSet(s) \cup {x}
  OBVIOUS
<1>4. s \in Seq(S) /\ x \in S
  BY <1>3
<1>5. /\ t \in Seq(S) /\ DOMAIN t = 1..(n + 1) /\ t[n + 1] = x
      /\ \A i \in 1..n : t[i] = s[i]
  BY <1>1, <1>2, <1>4
<1>6. ASSUME NEW y \in S PROVE y \in ToSet(t)
  <2>1. CASE y = x
    <3>1. n + 1 \in 1..(n + 1)
      BY <1>1
    <3> QED
      BY <1>5, <2>1, <3>1 DEF ToSet
  <2>2. CASE y \in ToSet(s)
    <3>1. PICK i \in 1..n : y = s[i]
      BY <1>1, <2>2 DEF ToSet
    <3>2. i \in 1..(n + 1)
      BY <1>1
    <3> QED
      BY <1>5, <3>1, <3>2 DEF ToSet
  <2> QED
    BY <1>3, <1>6, <2>1, <2>2
<1>7. ToSet(t) \subseteq S
  BY <1>5 DEF ToSet
<1>8. ToSet(t) = S
  BY <1>6, <1>7
<1> QED
  BY <1>2, <1>3, <1>5, <1>8

\* Marking rows as inherited.
Marked(rows) == [k \in DOMAIN rows |-> [rows[k] EXCEPT !.inherited = TRUE]]

\* Marked rows say what they said.
LEMMA MarkedRows ==
  ASSUME NEW rows, rows \in Seq(ToSet(rows)), \A c \in ToSet(rows) : Selection(c)
  PROVE  /\ Marked(rows) \in Seq(ToSet(Marked(rows)))
         /\ \A d \in ToSet(Marked(rows)) : Selection(d) /\ d.inherited /\ \E c \in ToSet(rows) :
              d.source = c.source /\ d.rows = c.rows /\ d.vars = c.vars
         /\ \A c \in ToSet(rows) : \E d \in ToSet(Marked(rows)) :
              d.source = c.source /\ d.rows = c.rows /\ d.vars = c.vars
<1>1. PICK n \in Nat : n = Len(rows) /\ DOMAIN rows = 1..n
  OBVIOUS
<1>2. PICK marked : marked = Marked(rows)
  OBVIOUS
<1>3. ASSUME NEW k \in 1..n
      PROVE  /\ marked[k] = [item |-> rows[k].item, source |-> rows[k].source, vars |-> rows[k].vars,
                             rows |-> rows[k].rows, inherited |-> TRUE]
             /\ rows[k] \in ToSet(rows)
  <2>1. PICK c : c = rows[k]
    OBVIOUS
  <2>2. c \in ToSet(rows)
    BY <1>1, <2>1 DEF ToSet
  <2>3. c = [item |-> c.item, source |-> c.source, vars |-> c.vars, rows |-> c.rows, inherited |-> c.inherited]
    BY <2>2 DEF Selection
  <2>4. marked[k] = [c EXCEPT !.inherited = TRUE]
    BY <1>1, <1>2, <2>1 DEF Marked
  <2>5. [c EXCEPT !.inherited = TRUE]
          = [item |-> c.item, source |-> c.source, vars |-> c.vars, rows |-> c.rows, inherited |-> TRUE]
    <3>1. PICK i, src, vs, rs, h, yes :
            i = c.item /\ src = c.source /\ vs = c.vars /\ rs = c.rows /\ h = c.inherited /\ yes = TRUE
      OBVIOUS
    <3>2. c = [item |-> i, source |-> src, vars |-> vs, rows |-> rs, inherited |-> h]
      BY <2>3, <3>1
    <3>3. [c EXCEPT !.inherited = yes]
            = [item |-> i, source |-> src, vars |-> vs, rows |-> rs, inherited |-> yes]
      BY <3>2
    <3> QED
      BY <3>1, <3>3
  <2> QED
    BY <2>1, <2>2, <2>4, <2>5
<1>4. DOMAIN marked = 1..n /\ marked = [k \in 1..n |-> marked[k]]
  BY <1>1, <1>2 DEF Marked
<1>5. \A k \in 1..n : marked[k] \in ToSet(marked)
  BY <1>4 DEF ToSet
<1>6. marked \in Seq(ToSet(marked))
  BY <1>4, <1>5
<1>7. \A k \in 1..n : /\ marked[k].source = rows[k].source /\ marked[k].rows = rows[k].rows
                      /\ marked[k].vars = rows[k].vars /\ marked[k].inherited = TRUE
                      /\ Selection(marked[k])
  <2> SUFFICES ASSUME NEW k \in 1..n
               PROVE  /\ marked[k].source = rows[k].source /\ marked[k].rows = rows[k].rows
                      /\ marked[k].vars = rows[k].vars /\ marked[k].inherited = TRUE
                      /\ Selection(marked[k])
    OBVIOUS
  <2>1. PICK c, d : c = rows[k] /\ d = marked[k]
    OBVIOUS
  <2>2. d = [item |-> c.item, source |-> c.source, vars |-> c.vars, rows |-> c.rows, inherited |-> TRUE]
    BY <1>3, <2>1
  <2>3. Selection(c)
    BY <1>3, <2>1
  <2>4. /\ d.item = c.item /\ d.source = c.source /\ d.rows = c.rows /\ d.vars = c.vars
        /\ d.inherited = TRUE
    BY <2>2
  <2>5. Selection(d)
    BY <2>2, <2>3, <2>4 DEF Selection
  <2> QED
    BY <2>1, <2>4, <2>5
<1>8. ASSUME NEW d \in ToSet(marked)
      PROVE  Selection(d) /\ d.inherited /\ \E c \in ToSet(rows) :
               d.source = c.source /\ d.rows = c.rows /\ d.vars = c.vars
  <2>1. PICK k \in 1..n : d = marked[k]
    BY <1>4 DEF ToSet
  <2> QED
    BY <1>3, <1>7, <2>1
<1>9. ASSUME NEW c \in ToSet(rows)
      PROVE  \E d \in ToSet(marked) : d.source = c.source /\ d.rows = c.rows /\ d.vars = c.vars
  <2>1. PICK k \in 1..n : c = rows[k]
    BY <1>1 DEF ToSet
  <2> QED
    BY <1>5, <1>7, <2>1
<1> QED
  BY <1>2, <1>6, <1>8, <1>9

\* A parent that a state has is not lost when the state gets more values and
\* rows.
LEMMA KeepsMore ==
  ASSUME NEW st, NEW more, NEW parent, Keeps(st, parent),
         \A n \in DOMAIN st.values : n \in DOMAIN more.values /\ more.values[n] = st.values[n],
         ToSet(st.rows) \subseteq ToSet(more.rows)
  PROVE  Keeps(more, parent)
<1>1. \A n \in DOMAIN parent.values : n \in DOMAIN more.values /\ more.values[n] = parent.values[n]
  BY DEF Keeps
<1>2. \A c \in ToSet(parent.rows) : \E d \in ToSet(more.rows) :
        d.inherited /\ d.source = c.source /\ d.rows = c.rows
  BY DEF Keeps
<1> QED
  BY <1>1, <1>2 DEF Keeps

\* A state and a state of one more dependency, with the same meaning of names.
LEMMA MergeSound ==
  ASSUME NEW a, NEW w, NEW names, NEW eff, NEW inherited, NEW sts, NEW st,
         StateSound(a, names, eff, sts), \A c \in ToSet(a.rows) : c.inherited,
         StateSound(w, DOMAIN inherited, inherited, sts), sts[w.step][w.row] = w,
         \A n \in DOMAIN inherited : inherited[n] = eff[n],
         Agree(a.values, w.values), a.parents \in Seq(ToSet(a.parents)),
         st = MergeParentStates(a, w)
  PROVE  /\ StateSound(st, names \cup DOMAIN inherited, eff, sts)
         /\ \A c \in ToSet(st.rows) : c.inherited
<1>1. PICK av, wv, old, new : av = a.values /\ wv = w.values /\ old = a.rows /\ new = Marked(w.rows)
  OBVIOUS
<1>2. PICK values, rows : values = st.values /\ rows = st.rows
  OBVIOUS
<1>3. values = Joined(av, wv) /\ rows = old \o new /\ st.parents = Append(a.parents, WorkId(w))
  BY <1>1, <1>2 DEF MergeParentStates, Marked
<1>4. DOMAIN av = names /\ DOMAIN wv = DOMAIN inherited
  BY <1>1 DEF StateSound
<1>5. /\ DOMAIN values = names \cup DOMAIN inherited
      /\ \A n \in DOMAIN av : values[n] = av[n]
      /\ \A n \in DOMAIN wv : values[n] = wv[n]
  <2>1. DOMAIN values = DOMAIN av \cup DOMAIN wv
    BY <1>3 DEF Joined
  <2>2. \A n \in DOMAIN av \cup DOMAIN wv : values[n] = IF n \in DOMAIN av THEN av[n] ELSE wv[n]
    BY <1>3 DEF Joined
  <2>3. \A n \in DOMAIN av \cap DOMAIN wv : av[n] = wv[n]
    BY <1>1 DEF Agree
  <2> QED
    BY <1>4, <2>1, <2>2, <2>3
<1>6. ValuesSound(av, old, eff) /\ ValuesSound(wv, w.rows, inherited)
  BY <1>1 DEF StateSound
<1>7. \A c \in ToSet(w.rows) : Selection(c)
  BY <1>6 DEF ValuesSound
<1>8. w.rows \in Seq(ToSet(w.rows))
  BY <1>6 DEF ValuesSound
<1>9. /\ new \in Seq(ToSet(new))
      /\ \A d \in ToSet(new) : Selection(d) /\ d.inherited /\ \E c \in ToSet(w.rows) :
           d.source = c.source /\ d.rows = c.rows /\ d.vars = c.vars
      /\ \A c \in ToSet(w.rows) : \E d \in ToSet(new) :
           d.source = c.source /\ d.rows = c.rows /\ d.vars = c.vars
  BY <1>1, <1>7, <1>8, MarkedRows
<1>10. old \in Seq(ToSet(old))
  BY <1>6 DEF ValuesSound
<1>11. ToSet(rows) = ToSet(old) \cup ToSet(new)
  BY <1>3, <1>9, <1>10, JoinedElements
<1>12. rows \in Seq(ToSet(rows))
  <2>1. PICK S : S = ToSet(rows)
    OBVIOUS
  <2>2. old \in Seq(S) /\ new \in Seq(S)
    BY <1>9, <1>10, <1>11, <2>1
  <2> QED
    BY <1>3, <2>1, <2>2
<1>13. \A c \in ToSet(rows) : c.inherited
  BY <1>1, <1>9, <1>11
<1>14. ASSUME NEW c \in ToSet(rows)
       PROVE  /\ Selection(c) /\ c.vars \subseteq DOMAIN values
              /\ \A n \in c.vars : eff[n].source = c.source /\ \A r \in c.rows :
                   values[n] = Cell[c.source][r][eff[n].var].val
  <2>1. CASE c \in ToSet(old)
    <3>1. /\ Selection(c) /\ c.vars \subseteq DOMAIN av
          /\ \A n \in c.vars : eff[n].source = c.source /\ \A r \in c.rows :
               av[n] = Cell[c.source][r][eff[n].var].val
      BY <1>6, <2>1 DEF ValuesSound
    <3> QED
      BY <1>4, <1>5, <3>1
  <2>2. CASE c \in ToSet(new)
    <3>1. PICK d \in ToSet(w.rows) : c.source = d.source /\ c.rows = d.rows /\ c.vars = d.vars
      BY <1>9, <2>2
    <3>2. /\ d.vars \subseteq DOMAIN wv
          /\ \A n \in d.vars : inherited[n].source = d.source /\ \A r \in d.rows :
               wv[n] = Cell[d.source][r][inherited[n].var].val
      BY <1>6 DEF ValuesSound
    <3>3. \A n \in d.vars : inherited[n] = eff[n] /\ values[n] = wv[n]
      BY <1>4, <1>5, <3>2
    <3> QED
      BY <1>4, <1>5, <1>9, <2>2, <3>1, <3>2, <3>3
  <2> QED
    BY <1>11, <2>1, <2>2
<1>15. ASSUME NEW n \in DOMAIN values PROVE \E c \in ToSet(rows) : n \in c.vars
  <2>1. CASE n \in DOMAIN av
    BY <1>6, <1>11, <2>1 DEF ValuesSound
  <2>2. CASE n \in DOMAIN wv
    <3>1. PICK c \in ToSet(w.rows) : n \in c.vars
      BY <1>6, <2>2 DEF ValuesSound
    <3>2. PICK d \in ToSet(new) : d.vars = c.vars
      BY <1>9
    <3> QED
      BY <1>11, <3>1, <3>2
  <2> QED
    BY <1>4, <1>5, <2>1, <2>2
<1>16. ValuesSound(values, rows, eff)
  BY <1>12, <1>14, <1>15 DEF ValuesSound
<1>17. ToSet(st.parents) = ToSet(a.parents) \cup {WorkId(w)}
  BY <1>3, AppendedElements
<1>18. ASSUME NEW id \in ToSet(st.parents) PROVE Keeps(st, sts[id[1]][id[2]])
  <2>1. CASE id \in ToSet(a.parents)
    <3>1. Keeps(a, sts[id[1]][id[2]])
      BY <2>1 DEF StateSound
    <3>2. \A n \in DOMAIN a.values : n \in DOMAIN st.values /\ st.values[n] = a.values[n]
      BY <1>1, <1>2, <1>4, <1>5
    <3>3. ToSet(a.rows) \subseteq ToSet(st.rows)
      BY <1>1, <1>2, <1>11
    <3> QED
      BY <3>1, <3>2, <3>3, KeepsMore
  <2>2. CASE id = WorkId(w)
    <3>1. sts[id[1]][id[2]] = w
      BY <2>2 DEF WorkId
    <3>2. \A n \in DOMAIN w.values : n \in DOMAIN st.values /\ st.values[n] = w.values[n]
      BY <1>1, <1>2, <1>4, <1>5
    <3>3. \A c \in ToSet(w.rows) : \E d \in ToSet(st.rows) :
            d.inherited /\ d.source = c.source /\ d.rows = c.rows
      BY <1>2, <1>9, <1>11
    <3> QED
      BY <3>1, <3>2, <3>3 DEF Keeps
  <2> QED
    BY <1>17, <2>1, <2>2
<1>19. Within(rows)
  BY <1>13 DEF Within
<1> QED
  BY <1>2, <1>5, <1>13, <1>16, <1>18, <1>19 DEF StateSound

\* The values of the names of an import in a row.
RowValues(e, r) ==
  [n \in Names(e.vars) |-> Cell[e.source][r][(CHOOSE v \in ToSet(e.vars) : v.visible = n).var].val]

\* There is a choice for every row that is the first of those like it.
LEMMA ChoicesList ==
  ASSUME NEW st, NEW e, NEW allowed, allowed = AllowedRows(st, e), NEW reps,
         reps = Picked(allowed, {k \in DOMAIN allowed :
                                   \A q \in RowsLike(e, allowed, allowed[k]) : allowed[k] <= q})
  PROVE  RowChoices(st, e)
           = [k \in DOMAIN reps |-> [values |-> RowValues(e, reps[k]), rows |-> RowsLike(e, allowed, reps[k])]]
<1> DEFINE written(k) ==
      [values |-> [n \in Names(e.vars) |->
                    Cell[e.source][reps[k]][(CHOOSE v \in ToSet(e.vars) : v.visible = n).var].val],
       rows   |-> RowsLike(e, allowed, reps[k])]
    choice(k) == [values |-> RowValues(e, reps[k]), rows |-> RowsLike(e, allowed, reps[k])]
<1>1. PICK choices : choices = RowChoices(st, e)
  OBVIOUS
<1>2. choices = [k \in DOMAIN reps |-> written(k)]
  BY <1>1, SMTT(30), ZenonT(30) DEF RowChoices, Select
<1>3. ASSUME NEW k PROVE written(k) = choice(k)
  BY DEF RowValues
<1> HIDE DEF written
<1>4. choices = [k \in DOMAIN reps |-> choice(k)]
  <2> HIDE DEF choice
  <2> QED
    BY <1>2, <1>3
<1> QED
  BY <1>1, <1>4

\* A choice is a row that goes with what the state has of the source, with all
\* rows like it.
LEMMA ChoiceIs ==
  ASSUME NEW st, NEW e, e.source \in Version, NEW c \in ToSet(RowChoices(st, e))
  PROVE  \E r \in DOMAIN Cell[e.source] :
           /\ c.values = RowValues(e, r)
           /\ r \in c.rows /\ c.rows \subseteq DOMAIN Cell[e.source]
           /\ \A q \in c.rows : SameRow(e, q, r)
           /\ \A q \in c.rows : \A d \in ToSet(st.rows) :
                d.source = e.source /\ d.inherited => q \in d.rows
<1>1. PICK rows : rows = Cell[e.source]
  OBVIOUS
<1>2. rows \in Seq(ToSet(rows))
  BY <1>1, CellAssumption
<1>3. PICK all : all = [r \in DOMAIN rows |-> r]
  OBVIOUS
<1>4. all \in Seq(ToSet(all)) /\ DOMAIN all = DOMAIN rows
  <2>1. DOMAIN rows = 1..Len(rows) /\ Len(rows) \in Nat
    BY <1>2
  <2>2. \A r \in DOMAIN all : all[r] \in ToSet(all)
    BY DEF ToSet
  <2>3. all = [r \in 1..Len(rows) |-> all[r]]
    BY <1>3, <2>1
  <2> QED
    BY <1>3, <2>1, <2>2, <2>3
<1>5. PICK bound : bound = {d \in ToSet(st.rows) : d.source = e.source /\ d.inherited}
  OBVIOUS
<1>6. PICK places : places = {k \in DOMAIN all : \A d \in bound : all[k] \in d.rows}
  OBVIOUS
<1>7. PICK allowed : allowed = AllowedRows(st, e)
  OBVIOUS
<1>8. allowed = Picked(all, places)
  BY <1>1, <1>3, <1>5, <1>6, <1>7 DEF AllowedRows, Select
<1>9. allowed \in Seq(ToSet(all)) /\ ToSet(allowed) = {all[k] : k \in places \cap DOMAIN all}
  BY <1>4, <1>8, PickedIn, PickedElements
<1>10. \A q \in ToSet(allowed) : q \in DOMAIN rows /\ \A d \in bound : q \in d.rows
  BY <1>3, <1>4, <1>6, <1>9
<1>11. allowed \in Seq(ToSet(allowed))
  BY <1>9 DEF ToSet
<1> DEFINE P == {k \in DOMAIN allowed : \A q \in RowsLike(e, allowed, allowed[k]) : allowed[k] <= q}
<1>12. PICK reps : reps = Picked(allowed, P)
  OBVIOUS
<1>13. reps \in Seq(ToSet(allowed))
  <2> HIDE DEF P
  <2> QED
    BY <1>11, <1>12, PickedIn
<1> DEFINE choice(k) == [values |-> RowValues(e, reps[k]), rows |-> RowsLike(e, allowed, reps[k])]
<1>20. PICK choices : choices = RowChoices(st, e)
  OBVIOUS
<1>14. choices = [k \in DOMAIN reps |-> choice(k)]
  BY <1>7, <1>12, <1>20, ChoicesList
<1>15. PICK k \in DOMAIN reps : c = choice(k)
  <2> HIDE DEF choice
  <2> QED
    BY <1>14, <1>20 DEF ToSet
<1>16. PICK r \in ToSet(allowed) : r = reps[k]
  BY <1>13
<1>17. c.values = RowValues(e, r) /\ c.rows = RowsLike(e, allowed, r)
  BY <1>15, <1>16
<1>18. c.rows = {q \in ToSet(allowed) : SameRow(e, q, r)}
  BY <1>17 DEF RowsLike
<1>19. SameRow(e, r, r)
  BY DEF SameRow
<1> QED
  BY <1>1, <1>5, <1>10, <1>16, <1>17, <1>18, <1>19

\* An import of new names never disagrees with a state.
LEMMA ChoiceAgrees ==
  ASSUME NEW a, NEW e, e.source \in Version, NEW c \in ToSet(RowChoices(a, e)),
         \A v \in ToSet(e.vars) : v.visible \notin DOMAIN a.values
  PROVE  Agree(a.values, c.values)
<1>1. PICK r \in DOMAIN Cell[e.source] : c.values = RowValues(e, r)
  BY ChoiceIs
<1>2. DOMAIN c.values = Names(e.vars)
  BY <1>1 DEF RowValues
<1>3. \A n \in Names(e.vars) : n \notin DOMAIN a.values
  BY DEF Names
<1> QED
  BY <1>2, <1>3 DEF Agree

\* A state and a choice of an import of new names.
LEMMA ChoiceSound ==
  ASSUME NEW a, NEW e, NEW names, NEW eff, NEW sts, NEW st, e.source \in Version,
         StateSound(a, names, eff, sts),
         \A v \in ToSet(e.vars) : /\ v.var \in ToSet(Columns[e.source])
                                  /\ eff[v.visible] = Binding(e, v)
                                  /\ v.visible \notin names,
         NEW c \in ToSet(RowChoices(a, e)), st = MergeWithChoice(a, e, c)
  PROVE  StateSound(st, names \cup Names(e.vars), eff, sts)
<1>1. PICK r \in DOMAIN Cell[e.source] :
        /\ c.values = RowValues(e, r)
        /\ r \in c.rows /\ c.rows \subseteq DOMAIN Cell[e.source]
        /\ \A q \in c.rows : SameRow(e, q, r)
        /\ \A q \in c.rows : \A d \in ToSet(a.rows) : d.source = e.source /\ d.inherited => q \in d.rows
  BY ChoiceIs
<1>2. PICK av, old, cv, values, rows :
        av = a.values /\ old = a.rows /\ cv = c.values /\ values = st.values /\ rows = st.rows
  OBVIOUS
<1>3. PICK new : new = [item |-> e.item, source |-> e.source, vars |-> Names(e.vars),
                        rows |-> c.rows, inherited |-> FALSE]
  OBVIOUS
<1>4. values = Joined(av, cv) /\ rows = Append(old, new) /\ st.parents = a.parents
  BY <1>2, <1>3 DEF MergeWithChoice
<1>5. DOMAIN av = names /\ ValuesSound(av, old, eff) /\ Within(old)
  BY <1>2 DEF StateSound
<1>6. DOMAIN cv = Names(e.vars)
  BY <1>1, <1>2 DEF RowValues
<1>7. \A n \in Names(e.vars) : n \notin names
  BY DEF Names
<1>8. /\ DOMAIN values = names \cup Names(e.vars)
      /\ \A n \in names : values[n] = av[n]
      /\ \A n \in Names(e.vars) : values[n] = cv[n]
  <2>1. DOMAIN values = DOMAIN av \cup DOMAIN cv
    BY <1>4 DEF Joined
  <2>2. \A n \in DOMAIN av \cup DOMAIN cv : values[n] = IF n \in DOMAIN av THEN av[n] ELSE cv[n]
    BY <1>4 DEF Joined
  <2> QED
    BY <1>5, <1>6, <1>7, <2>1, <2>2
<1>9. old \in Seq(ToSet(old))
  BY <1>5 DEF ValuesSound
<1>10. ToSet(rows) = ToSet(old) \cup {new} /\ rows \in Seq(ToSet(rows))
  BY <1>4, <1>9, AppendedElements
<1>11. /\ new.source = e.source /\ new.vars = Names(e.vars) /\ new.rows = c.rows
       /\ Selection(new)
  <2>1. /\ new.item = e.item /\ new.source = e.source /\ new.vars = Names(e.vars)
        /\ new.rows = c.rows /\ new.inherited = FALSE
    BY <1>3
  <2>2. new.rows # {} /\ new.rows \subseteq DOMAIN Cell[new.source]
    BY <1>1, <2>1
  <2>3. new = [item |-> new.item, source |-> new.source, vars |-> new.vars, rows |-> new.rows,
               inherited |-> new.inherited]
    BY <1>3, <2>1
  <2> QED
    BY <2>1, <2>2, <2>3 DEF Selection
<1>12. ~new.inherited
  BY <1>3
<1>13. ASSUME NEW n \in Names(e.vars)
       PROVE  eff[n].source = e.source /\ \A q \in c.rows : values[n] = Cell[e.source][q][eff[n].var].val
  <2>1. PICK v \in ToSet(e.vars) : v = CHOOSE u \in ToSet(e.vars) : u.visible = n
    <3>1. \E u \in ToSet(e.vars) : u.visible = n
      BY <1>13 DEF Names
    <3> QED
      BY <3>1
  <2>2. v.visible = n
    <3>1. \E u \in ToSet(e.vars) : u.visible = n
      BY <1>13 DEF Names
    <3> QED
      BY <2>1, <3>1
  <2>3. eff[n] = Binding(e, v) /\ v.var \in ToSet(Columns[e.source])
    BY <2>2
  <2>4. eff[n].source = e.source /\ eff[n].var = v.var
    BY <2>3 DEF Binding
  <2>5. values[n] = Cell[e.source][r][v.var].val
    <3>1. cv[n] = Cell[e.source][r][v.var].val
      BY <1>1, <1>2, <2>1 DEF RowValues
    <3> QED
      BY <1>8, <3>1
  <2>6. ASSUME NEW q \in c.rows PROVE Cell[e.source][q][v.var].val = Cell[e.source][r][v.var].val
    <3>1. q \in DOMAIN Cell[e.source] /\ SameRow(e, q, r)
      BY <1>1
    <3>2. q = r \/ Cell[e.source][q][v.var].key = Cell[e.source][r][v.var].key
      BY <3>1 DEF SameRow
    <3> QED
      BY <2>3, <3>1, <3>2, CellAssumption
  <2> QED
    BY <2>4, <2>5, <2>6
<1>14. ASSUME NEW d \in ToSet(rows)
       PROVE  /\ Selection(d) /\ d.vars \subseteq DOMAIN values
              /\ \A n \in d.vars : eff[n].source = d.source /\ \A q \in d.rows :
                   values[n] = Cell[d.source][q][eff[n].var].val
  <2>1. CASE d \in ToSet(old)
    <3>1. /\ Selection(d) /\ d.vars \subseteq DOMAIN av
          /\ \A n \in d.vars : eff[n].source = d.source /\ \A q \in d.rows :
               av[n] = Cell[d.source][q][eff[n].var].val
      BY <1>5, <2>1 DEF ValuesSound
    <3> QED
      BY <1>5, <1>8, <3>1
  <2>2. CASE d = new
    BY <1>8, <1>11, <1>13, <2>2
  <2> QED
    BY <1>10, <2>1, <2>2
<1>15. ASSUME NEW n \in DOMAIN values PROVE \E d \in ToSet(rows) : n \in d.vars
  <2>1. CASE n \in names
    BY <1>5, <1>10, <2>1 DEF ValuesSound
  <2>2. CASE n \in Names(e.vars)
    BY <1>10, <1>11, <2>2
  <2> QED
    BY <1>8, <2>1, <2>2
<1>16. ValuesSound(values, rows, eff)
  BY <1>10, <1>14, <1>15 DEF ValuesSound
<1>17. ASSUME NEW id \in ToSet(st.parents) PROVE Keeps(st, sts[id[1]][id[2]])
  <2>1. Keeps(a, sts[id[1]][id[2]])
    BY <1>4 DEF StateSound
  <2>2. \A n \in DOMAIN a.values : n \in DOMAIN st.values /\ st.values[n] = a.values[n]
    BY <1>2, <1>5, <1>8
  <2>3. ToSet(a.rows) \subseteq ToSet(st.rows)
    BY <1>2, <1>10
  <2> QED
    BY <2>1, <2>2, <2>3, KeepsMore
<1>18. Within(rows)
  <2> SUFFICES ASSUME NEW d \in ToSet(rows), NEW f \in ToSet(rows),
                      d.inherited, ~f.inherited, d.source = f.source
               PROVE  f.rows \subseteq d.rows
    BY DEF Within
  <2>1. d \in ToSet(old)
    BY <1>10, <1>12
  <2>2. CASE f \in ToSet(old)
    BY <1>5, <2>1, <2>2 DEF Within
  <2>3. CASE f = new
    BY <1>1, <1>2, <1>11, <2>1, <2>3
  <2> QED
    BY <1>10, <2>2, <2>3
<1> QED
  BY <1>2, <1>8, <1>16, <1>17, <1>18 DEF StateSound

-----------------------------------------------------------------------------
(***************************************************************************)
(* Building the states of a step.                                          *)
(***************************************************************************)
\* What the states with one more dependency are.
LEMMA InheritFrom ==
  ASSUME PlanInv, InheritParentStates
  PROVE  \A st \in ToSet(growing') :
           \E a \in ToSet(growing), w \in ToSet(StatesOf(Dependencies(Current)[part + 1])) :
             Agree(a.values, w.values) /\ st = MergeParentStates(a, w)
<1>1. stage = "build" /\ todo # <<>> /\ part \in Nat /\ Growing
  BY DEF InheritParentStates, PlanInv, Building
<1>2. PICK x : x = Dependencies(Current)[part + 1]
  OBVIOUS
<1>3. PICK added : added = StatesOf(x)
  OBVIOUS
<1>4. added \in Seq(ToSet(added))
  <2>1. CASE x \in DOMAIN states
    <3>1. added \in Seq({w \in ToSet(plan.work) : w.step = x})
      BY <1>3, <2>1 DEF StatesOf, PlanInv, StatesAreWork
    <3> QED
      BY <3>1 DEF ToSet
  <2>2. CASE x \notin DOMAIN states
    <3>1. added = <<>>
      BY <1>3, <2>2 DEF StatesOf
    <3> QED
      BY <3>1
  <2> QED
    BY <2>1, <2>2
<1> DEFINE good(a, w, m) == Agree(a.values, w.values) /\ m = MergeParentStates(a, w)
           all == {MergeParentStates(a, w) : a \in ToSet(growing), w \in ToSet(added)}
           B == {m \in all : \E a \in ToSet(growing), w \in ToSet(added) : good(a, w, m)}
           places(k) == {j \in DOMAIN added : Agree(growing[k].values, added[j].values)}
           picked(k) == Picked(added, places(k))
<1>5. ASSUME NEW a \in ToSet(growing), NEW w \in ToSet(added), Agree(a.values, w.values)
      PROVE  MergeParentStates(a, w) \in B
  <2>1. PICK m : m = MergeParentStates(a, w)
    OBVIOUS
  <2>2. m \in all /\ good(a, w, m)
    BY <1>5, <2>1
  <2> HIDE DEF all, good
  <2> QED
    BY <2>1, <2>2
<1>6. \A m \in B : \E a \in ToSet(growing), w \in ToSet(added) : good(a, w, m)
  <2> HIDE DEF all, good
  <2> QED
    OBVIOUS
<1> HIDE DEF B
<1>7. PICK ss : ss = [k \in DOMAIN growing |-> [j \in DOMAIN picked(k) |-> MergeParentStates(growing[k], picked(k)[j])]]
  OBVIOUS
<1>8. growing' = FlattenSeq(ss)
  BY <1>2, <1>3, <1>7 DEF InheritParentStates, Combined, Select
<1>9. DOMAIN growing = 1..Len(growing) /\ Len(growing) \in Nat /\ \A k \in DOMAIN growing : growing[k] \in ToSet(growing)
  <2>1. growing \in Seq(ToSet(growing))
    BY <1>1 DEF Growing
  <2> QED
    BY <2>1 DEF ToSet
<1>10. ASSUME NEW k \in DOMAIN growing PROVE ss[k] \in Seq(B)
  <2>1. PICK ps : ps = places(k)
    OBVIOUS
  <2>2. PICK g : g = Picked(added, ps)
    OBVIOUS
  <2>3. g \in Seq(ToSet(added)) /\ ToSet(g) = {added[j] : j \in ps \cap DOMAIN added}
    BY <1>4, <2>2, PickedIn, PickedElements
  <2>4. ss[k] = [j \in DOMAIN g |-> MergeParentStates(growing[k], g[j])]
    BY <1>7, <2>1, <2>2
  <2>5. \A j \in DOMAIN g : g[j] \in ToSet(added) /\ Agree(growing[k].values, g[j].values)
    <3> SUFFICES ASSUME NEW j \in DOMAIN g
                 PROVE  g[j] \in ToSet(added) /\ Agree(growing[k].values, g[j].values)
      OBVIOUS
    <3>1. g[j] \in ToSet(g)
      BY DEF ToSet
    <3>2. PICK i \in ps \cap DOMAIN added : g[j] = added[i]
      BY <2>3, <3>1
    <3> QED
      BY <2>1, <3>2 DEF ToSet
  <2>6. \A j \in DOMAIN g : MergeParentStates(growing[k], g[j]) \in B
    BY <1>5, <1>9, <2>5
  <2>7. DOMAIN g = 1..Len(g) /\ Len(g) \in Nat
    BY <2>3
  <2> QED
    BY <2>4, <2>6, <2>7
<1>11. ss \in Seq(Seq(B))
  <2>1. ss = [k \in 1..Len(growing) |-> ss[k]]
    BY <1>7, <1>9
  <2> QED
    BY <1>9, <1>10, <2>1
<1>12. growing' \in Seq(B)
  BY <1>8, <1>11, FlatIn
<1>13. \A st \in ToSet(growing') : st \in B
  BY <1>12 DEF ToSet
<1> QED
  BY <1>2, <1>3, <1>6, <1>13

\* What the states with one more import are.
LEMMA ExpandFrom ==
  ASSUME PlanInv, ExpandStep, NEW e, e = Expansions[part + 1 - Len(Dependencies(Current))],
         e.source \in Version
  PROVE  \A st \in ToSet(growing') : \E a \in ToSet(growing) : \E c \in ToSet(RowChoices(a, e)) :
           st = MergeWithChoice(a, e, c)
<1>1. Growing
  BY DEF ExpandStep, PlanInv, Building
<1> DEFINE all == {MergeWithChoice(a, e, c) : a \in ToSet(growing), c \in UNION {ToSet(RowChoices(a, e)) : a \in ToSet(growing)}}
           B == {m \in all : \E a \in ToSet(growing) : \E c \in ToSet(RowChoices(a, e)) : m = MergeWithChoice(a, e, c)}
           places(k) == {j \in DOMAIN RowChoices(growing[k], e) :
                           Agree(growing[k].values, RowChoices(growing[k], e)[j].values)}
           picked(k) == Picked(RowChoices(growing[k], e), places(k))
<1>2. ASSUME NEW a \in ToSet(growing), NEW c \in ToSet(RowChoices(a, e))
      PROVE  MergeWithChoice(a, e, c) \in B
  <2>1. PICK m : m = MergeWithChoice(a, e, c)
    OBVIOUS
  <2>2. m \in all
    BY <2>1
  <2> HIDE DEF all
  <2> QED
    BY <2>1, <2>2
<1>3. \A m \in B : \E a \in ToSet(growing) : \E c \in ToSet(RowChoices(a, e)) : m = MergeWithChoice(a, e, c)
  <2> HIDE DEF all
  <2> QED
    OBVIOUS
<1> HIDE DEF B
<1>4. PICK ss : ss = [k \in DOMAIN growing |-> [j \in DOMAIN picked(k) |-> MergeWithChoice(growing[k], e, picked(k)[j])]]
  OBVIOUS
<1>5. growing' = FlattenSeq(ss)
  BY <1>4 DEF ExpandStep, Combined, Select
<1>6. DOMAIN growing = 1..Len(growing) /\ Len(growing) \in Nat /\ \A k \in DOMAIN growing : growing[k] \in ToSet(growing)
  <2>1. growing \in Seq(ToSet(growing))
    BY <1>1 DEF Growing
  <2> QED
    BY <2>1 DEF ToSet
<1>7. ASSUME NEW k \in DOMAIN growing PROVE ss[k] \in Seq(B)
  <2>1. PICK ps, choices : ps = places(k) /\ choices = RowChoices(growing[k], e)
    OBVIOUS
  <2>2. PICK g : g = Picked(choices, ps)
    OBVIOUS
  <2>3. choices \in Seq(ToSet(choices))
    BY <2>1, ChoicesAre
  <2>4. g \in Seq(ToSet(choices))
    BY <2>2, <2>3, PickedIn
  <2>5. ss[k] = [j \in DOMAIN g |-> MergeWithChoice(growing[k], e, g[j])]
    BY <1>4, <2>1, <2>2
  <2>6. \A j \in DOMAIN g : g[j] \in ToSet(RowChoices(growing[k], e))
    BY <2>1, <2>4
  <2>7. \A j \in DOMAIN g : MergeWithChoice(growing[k], e, g[j]) \in B
    BY <1>2, <1>6, <2>6
  <2>8. DOMAIN g = 1..Len(g) /\ Len(g) \in Nat
    BY <2>4
  <2> QED
    BY <2>5, <2>7, <2>8
<1>8. ss \in Seq(Seq(B))
  <2>1. ss = [k \in 1..Len(growing) |-> ss[k]]
    BY <1>4, <1>6
  <2> QED
    BY <1>6, <1>7, <2>1
<1>9. growing' \in Seq(B)
  BY <1>5, <1>8, FlatIn
<1>10. \A st \in ToSet(growing') : st \in B
  BY <1>9 DEF ToSet
<1> QED
  BY <1>3, <1>10

\* A state stays sound as long as the states of its parents stay.
LEMMA StateStays ==
  ASSUME NEW st, NEW names, NEW eff, NEW sts, StateSound(st, names, eff, sts),
         NEW like, like.values = st.values, like.rows = st.rows, like.parents = st.parents,
         NEW more, \A id \in ToSet(st.parents) : more[id[1]] = sts[id[1]]
  PROVE  StateSound(like, names, eff, more)
<1>1. ASSUME NEW id \in ToSet(like.parents) PROVE Keeps(like, more[id[1]][id[2]])
  <2>1. PICK parent : parent = sts[id[1]][id[2]] /\ parent = more[id[1]][id[2]]
    OBVIOUS
  <2>2. Keeps(st, parent)
    BY <2>1 DEF StateSound
  <2>3. Keeps(like, parent)
    BY <2>2 DEF Keeps
  <2> QED
    BY <2>1, <2>3
<1> QED
  BY <1>1 DEF StateSound

\* One more dependency adds its names.
LEMMA NamesInherited ==
  ASSUME NEW sc, NEW deps, NEW exps, NEW n \in Nat, Len(deps) \in Nat, n < Len(deps)
  PROVE  FirstNames(sc, deps, exps, n + 1) = FirstNames(sc, deps, exps, n) \cup DOMAIN sc[deps[n + 1]].effective
<1>1. PICK m \in Nat : m = Len(deps)
  OBVIOUS
<1>2. 1..(n - m) = {} /\ 1..(n + 1 - m) = {} /\ 1..(n + 1) = 1..n \cup {n + 1} /\ n + 1 <= m /\ n <= m
  BY <1>1
<1>3. ImportedNames(exps, n - m) = {} /\ ImportedNames(exps, n + 1 - m) = {}
  BY <1>2 DEF ImportedNames
<1>4. UpTo(deps, n + 1) = UpTo(deps, n) \cup {deps[n + 1]}
  BY <1>2 DEF UpTo
<1>5. InheritedNames(sc, UpTo(deps, n + 1)) = InheritedNames(sc, UpTo(deps, n)) \cup DOMAIN sc[deps[n + 1]].effective
  BY <1>4 DEF InheritedNames
<1> QED
  BY <1>1, <1>2, <1>3, <1>5 DEF FirstNames

\* One more import adds its names.
LEMMA NamesImported ==
  ASSUME NEW sc, NEW deps, NEW exps, NEW n \in Nat, Len(deps) \in Nat, n >= Len(deps)
  PROVE  FirstNames(sc, deps, exps, n + 1)
           = FirstNames(sc, deps, exps, n) \cup Names(exps[n + 1 - Len(deps)].vars)
<1>1. PICK m \in Nat : m = Len(deps)
  OBVIOUS
<1>2. PICK k \in Nat : k = n - m
  BY <1>1
<1>3. n + 1 - m = k + 1 /\ 1..(k + 1) = 1..k \cup {k + 1}
  BY <1>1, <1>2
<1>4. ImportedNames(exps, k + 1) = ImportedNames(exps, k) \cup Names(exps[k + 1].vars)
  BY <1>3 DEF ImportedNames
<1>5. PICK up : up = UpTo(deps, m)
  OBVIOUS
<1>6. FirstNames(sc, deps, exps, n) = InheritedNames(sc, up) \cup ImportedNames(exps, k)
  <2>1. (IF n <= m THEN n ELSE m) = m
    BY <1>1
  <2> QED
    BY <1>1, <1>2, <1>5, <2>1 DEF FirstNames
<1>7. FirstNames(sc, deps, exps, n + 1) = InheritedNames(sc, up) \cup ImportedNames(exps, k + 1)
  <2>1. (IF n + 1 <= m THEN n + 1 ELSE m) = m
    BY <1>1
  <2> QED
    BY <1>1, <1>3, <1>5, <2>1 DEF FirstNames
<1> QED
  BY <1>1, <1>3, <1>4, <1>6, <1>7

\* The step that is being built, its scope plan and its dependencies.
LEMMA ScopeOfCurrent ==
  ASSUME PlanInv, OrderSound, ScopesSound, stage = "build", todo # <<>>
  PROVE  /\ Current.name \in DOMAIN scopes
         /\ ScopeSound(program, scopes, Current.name)
         /\ ToSet(Dependencies(Current)) = ToSet(Current.after)
<1>1. /\ Current.name = Head(todo) /\ Head(todo) \in StepNames(program)
      /\ Current = Block(program, Current.name) /\ Head(todo) \in ToSet(todo)
  BY CurrentIs
<1>2. PICK b : b = Current
  OBVIOUS
<1>3. b.after \in Seq(ToSet(b.after))
  BY <1>1, <1>2, BlockIs DEF PlanInv, Ordering
<1>4. ToSet(Dependencies(b)) = ToSet(b.after)
  BY <1>3, UniqueIs DEF Dependencies
<1>5. Current.name \in DOMAIN scopes
  BY <1>1 DEF PlanInv, Scoped
<1> QED
  BY <1>2, <1>4, <1>5 DEF ScopesSound

\* Combining with one more dependency.
LEMMA InheritSound ==
  ASSUME PlanInv, OrderSound, ScopesSound, StatesSound, InheritParentStates
  PROVE  StatesSound'
<1>1. /\ stage = "build" /\ todo # <<>> /\ part' = part + 1
      /\ UNCHANGED <<program, stage, todo, scopes, order, states, plan>>
  BY DEF InheritParentStates
<1>2. part \in Nat /\ Growing
  BY <1>1 DEF PlanInv, Building
<1>3. PICK deps, name, exps, eff :
        deps = Dependencies(Current) /\ name = Current.name /\ exps = Expansions /\ eff = scopes[name].effective
  OBVIOUS
<1>4. Len(deps) \in Nat /\ deps \in Seq(ToSet(deps)) /\ part < Len(deps)
  <2>1. deps \in Seq(ToSet(deps))
    BY <1>1, <1>3, CurrentIs
  <2>2. part < Len(deps)
    BY <1>3 DEF InheritParentStates
  <2> QED
    BY <2>1, <2>2
<1>5. PICK x : x = deps[part + 1]
  OBVIOUS
<1>6. x \in ToSet(deps)
  <2>1. part + 1 \in DOMAIN deps
    BY <1>2, <1>4
  <2> QED
    BY <1>5, <2>1 DEF ToSet
<1>7. PICK inherited : inherited = scopes[x].effective
  OBVIOUS
<1>8. \A n \in DOMAIN inherited : inherited[n] = eff[n]
  <2>1. ScopeSound(program, scopes, name) /\ Current = Block(program, name)
        /\ ToSet(deps) = ToSet(Current.after)
    BY <1>1, <1>3, ScopeOfCurrent, CurrentIs
  <2> QED
    BY <1>3, <1>6, <1>7, <2>1, SMTT(30), ZenonT(30) DEF ScopeSound
<1>9. PICK names, more : names = FirstNames(scopes, deps, exps, part) /\ more = FirstNames(scopes, deps, exps, part + 1)
  OBVIOUS
<1>10. more = names \cup DOMAIN inherited
  BY <1>2, <1>4, <1>5, <1>7, <1>9, NamesInherited
<1>11. ASSUME NEW st \in ToSet(growing')
       PROVE  StateSound(st, more, eff, states) /\ \A c \in ToSet(st.rows) : c.inherited
  <2>1. PICK a \in ToSet(growing), w \in ToSet(StatesOf(x)) :
          Agree(a.values, w.values) /\ st = MergeParentStates(a, w)
    BY <1>3, <1>5, InheritFrom
  <2>2. x \in DOMAIN states
    BY <2>1 DEF StatesOf, ToSet
  <2>3. w \in ToSet(plan.work) /\ w.step = x
    <3>1. states[x] \in Seq({v \in ToSet(plan.work) : v.step = x})
      BY <2>2 DEF PlanInv, StatesAreWork
    <3> QED
      BY <2>1, <2>2, <3>1 DEF StatesOf, ToSet
  <2>4. StateSound(w, DOMAIN inherited, inherited, states) /\ states[w.step][w.row] = w
    BY <1>1, <1>7, <2>3 DEF StatesSound
  <2>5. StateSound(a, names, eff, states) /\ \A c \in ToSet(a.rows) : c.inherited
    <3>1. part <= Len(deps)
      BY <1>2, <1>4
    <3> QED
      BY <1>1, <1>3, <1>9, <2>1, <3>1 DEF StatesSound
  <2>6. a.parents \in Seq(ToSet(a.parents))
    <3>1. a.parents \in Seq({WorkId(v) : v \in ToSet(plan.work)})
      BY <1>2 DEF Growing, Combination
    <3>2. PICK ids, ps : ids = {WorkId(v) : v \in ToSet(plan.work)} /\ ps = a.parents
      OBVIOUS
    <3>3. ps \in Seq(ids)
      BY <3>1, <3>2
    <3>4. ps \in Seq(ToSet(ps))
      BY <3>3 DEF ToSet
    <3> QED
      BY <3>2, <3>4
  <2> QED
    BY <1>8, <1>10, <2>1, <2>4, <2>5, <2>6, MergeSound
<1>12. Current' = Current
  BY <1>1 DEF Current
<1>13. Dependencies(Current)' = deps /\ Expansions' = exps
  BY <1>1, <1>3, <1>12 DEF Dependencies, Expansions
<1>14. \A st \in ToSet(growing') :
         /\ StateSound(st, FirstNames(scopes', Dependencies(Current)', Expansions', part'), scopes'[Current'.name].effective, states')
         /\ \A c \in ToSet(st.rows) : c.inherited
  BY <1>1, <1>3, <1>9, <1>11, <1>12, <1>13
<1>15. \A w \in ToSet(plan.work') :
         /\ w.row \in DOMAIN states'[w.step] /\ states'[w.step][w.row] = w
         /\ StateSound(w, DOMAIN scopes'[w.step].effective, scopes'[w.step].effective, states')
  BY <1>1 DEF StatesSound
<1> QED
  BY <1>14, <1>15 DEF StatesSound

\* Combining with the rows of one more import: no value is in the way.
LEMMA ExpandSound ==
  ASSUME PlanInv, OrderSound, ScopesSound, StatesSound, ExpandStep
  PROVE  StatesSound' /\ errors' = errors
<1>1. /\ stage = "build" /\ todo # <<>> /\ part' = part + 1
      /\ UNCHANGED <<program, stage, todo, scopes, order, states, plan>>
  BY DEF ExpandStep
<1>2. part \in Nat
  BY <1>1 DEF PlanInv, Building
<1>3. PICK deps, name, exps, eff :
        deps = Dependencies(Current) /\ name = Current.name /\ exps = Expansions /\ eff = scopes[name].effective
  OBVIOUS
<1>4. deps \in Seq(ToSet(deps)) /\ exps \in Seq(ToSet(exps)) /\ \A e \in ToSet(exps) : e.source \in Version
  <2>1. name \in DOMAIN scopes
    BY <1>1, <1>3, ScopeOfCurrent
  <2>2. exps = scopes[name].expansions
    BY <1>3 DEF Expansions
  <2> QED
    BY <1>1, <1>3, <2>1, <2>2, CurrentIs DEF PlanInv, Scoped
<1>5. Len(deps) \in Nat /\ Len(exps) \in Nat /\ DOMAIN deps = 1..Len(deps) /\ DOMAIN exps = 1..Len(exps)
  BY <1>4
<1>6. Len(deps) <= part /\ part < Len(deps) + Len(exps)
  <2>1. part >= Len(deps) /\ part < Len(deps) + Len(exps)
    BY <1>3 DEF ExpandStep
  <2> QED
    BY <1>2, <1>5, <2>1
<1>7. PICK k : k = part + 1 - Len(deps)
  OBVIOUS
<1>8. k \in DOMAIN exps /\ k - 1 = part - Len(deps)
  BY <1>2, <1>5, <1>6, <1>7
<1>9. PICK e \in ToSet(exps) : e = exps[k]
  BY <1>8 DEF ToSet
<1>10. e.source \in Version
  BY <1>4
<1>11. PICK names, more : names = FirstNames(scopes, deps, exps, part) /\ more = FirstNames(scopes, deps, exps, part + 1)
  OBVIOUS
<1>12. more = names \cup Names(e.vars)
  <2>1. part >= Len(deps)
    BY <1>2, <1>5, <1>6
  <2>2. more = names \cup Names(exps[part + 1 - Len(deps)].vars)
    BY <1>2, <1>5, <1>11, <2>1, NamesImported
  <2> QED
    BY <1>7, <1>9, <2>2
<1>13. \A v \in ToSet(e.vars) : /\ v.var \in ToSet(Columns[e.source])
                                /\ eff[v.visible] = Binding(e, v)
                                /\ v.visible \notin names
  <2>1. ScopeSound(program, scopes, name) /\ Current = Block(program, name)
        /\ ToSet(deps) = ToSet(Current.after)
    BY <1>1, <1>3, ScopeOfCurrent, CurrentIs
  <2>2. \A v \in ToSet(e.vars) :
          /\ v.var \in ToSet(Columns[e.source])
          /\ eff[v.visible] = Binding(e, v)
          /\ v.visible \notin InheritedNames(scopes, ToSet(deps)) \cup ImportedNames(exps, k - 1)
    <3>1. PICK all : all = scopes
      OBVIOUS
    <3>2. exps = all[name].expansions /\ eff = all[name].effective
      BY <1>3, <3>1 DEF Expansions
    <3>3. PICK b : b = Block(program, name) /\ ToSet(deps) = ToSet(b.after)
      BY <2>1
    <3>4. \A v \in ToSet(exps[k].vars) :
            /\ v.var \in ToSet(Columns[exps[k].source])
            /\ eff[v.visible] = Binding(exps[k], v)
            /\ v.visible \notin InheritedNames(all, ToSet(b.after)) \cup ImportedNames(exps, k - 1)
      BY <1>8, <2>1, <3>1, <3>2, <3>3 DEF ScopeSound
    <3> QED
      BY <1>9, <3>1, <3>3, <3>4
  <2>3. UpTo(deps, Len(deps)) = ToSet(deps)
    BY <1>5 DEF UpTo, ToSet
  <2>4. (IF part <= Len(deps) THEN part ELSE Len(deps)) = Len(deps)
    <3>1. PICK m \in Nat : m = Len(deps)
      BY <1>5
    <3>2. part <= m => part = m
      BY <1>2, <1>6, <3>1
    <3> QED
      BY <3>1, <3>2
  <2>5. names = InheritedNames(scopes, ToSet(deps)) \cup ImportedNames(exps, k - 1)
    BY <1>8, <1>11, <2>3, <2>4 DEF FirstNames
  <2> QED
    BY <2>2, <2>5
<1>14. \A a \in ToSet(growing) : StateSound(a, names, eff, states)
  BY <1>1, <1>3, <1>11 DEF StatesSound
<1>15. ASSUME NEW st \in ToSet(growing') PROVE StateSound(st, more, eff, states)
  <2>1. PICK a \in ToSet(growing) : \E c \in ToSet(RowChoices(a, e)) : st = MergeWithChoice(a, e, c)
    BY <1>3, <1>7, <1>9, <1>10, ExpandFrom
  <2>2. PICK c \in ToSet(RowChoices(a, e)) : st = MergeWithChoice(a, e, c)
    BY <2>1
  <2> QED
    BY <1>10, <1>12, <1>13, <1>14, <2>2, ChoiceSound
<1>16. \A a \in ToSet(growing) : \A c \in ToSet(RowChoices(a, e)) : Agree(a.values, c.values)
  <2> SUFFICES ASSUME NEW a \in ToSet(growing), NEW c \in ToSet(RowChoices(a, e))
               PROVE  Agree(a.values, c.values)
    OBVIOUS
  <2>1. DOMAIN a.values = names
    BY <1>14 DEF StateSound
  <2> QED
    BY <1>10, <1>13, <2>1, ChoiceAgrees
<1>17. errors' = errors
  <2>1. growing \in Seq(ToSet(growing))
    BY <1>1 DEF PlanInv, Building, Growing
  <2>2. \A i \in DOMAIN growing : growing[i] \in ToSet(growing)
    BY DEF ToSet
  <2>3. ~ \E i \in DOMAIN growing : \E c \in ToSet(RowChoices(growing[i], e)) : ~Agree(growing[i].values, c.values)
    BY <1>16, <2>2
  <2> QED
    BY <1>3, <1>7, <1>9, <2>3 DEF ExpandStep, Disagree
<1>18. Current' = Current
  BY <1>1 DEF Current
<1>19. Dependencies(Current)' = deps /\ Expansions' = exps
  BY <1>1, <1>3, <1>18 DEF Dependencies, Expansions
<1>20. ~(part' <= Len(deps))
  BY <1>1, <1>2, <1>5, <1>6
<1>21. \A st \in ToSet(growing') :
         StateSound(st, FirstNames(scopes', Dependencies(Current)', Expansions', part'), scopes'[Current'.name].effective, states')
  BY <1>1, <1>3, <1>11, <1>15, <1>18, <1>19
<1>22. \A w \in ToSet(plan.work') :
         /\ w.row \in DOMAIN states'[w.step] /\ states'[w.step][w.row] = w
         /\ StateSound(w, DOMAIN scopes'[w.step].effective, scopes'[w.step].effective, states')
  BY <1>1 DEF StatesSound
<1> QED
  BY <1>17, <1>19, <1>20, <1>21, <1>22 DEF StatesSound

\* A state of no dependencies and no imports.
LEMMA EmptySound ==
  ASSUME NEW sc, NEW deps, NEW exps, NEW eff, NEW sts, Len(deps) \in Nat
  PROVE  /\ StateSound(EmptyState, FirstNames(sc, deps, exps, 0), eff, sts)
         /\ ToSet(EmptyState.rows) = {}
<1>1. PICK none : none = <<>>
  OBVIOUS
<1>2. none \in Seq({}) /\ DOMAIN none = {} /\ ToSet(none) = {}
  BY <1>1 DEF ToSet
<1>3. PICK st : st = EmptyState
  OBVIOUS
<1>4. st.values = none /\ st.rows = none /\ st.parents = none
  BY <1>1, <1>3 DEF EmptyState
<1>5. FirstNames(sc, deps, exps, 0) = {}
  <2>1. 1..0 = {} /\ 0 <= Len(deps) /\ 1..(0 - Len(deps)) = {}
    OBVIOUS
  <2>2. ImportedNames(exps, 0 - Len(deps)) = {}
    BY <2>1 DEF ImportedNames
  <2>3. InheritedNames(sc, UpTo(deps, 0)) = {}
    BY <2>1 DEF InheritedNames, UpTo
  <2> QED
    BY <2>1, <2>2, <2>3 DEF FirstNames
<1>6. ValuesSound(none, none, eff) /\ Within(none)
  BY <1>2 DEF ValuesSound, Within
<1>7. StateSound(st, {}, eff, sts)
  BY <1>2, <1>4, <1>6 DEF StateSound
<1> QED
  BY <1>2, <1>3, <1>4, <1>5, <1>7

\* The step that is built next starts with no dependency.
LEMMA StartSound ==
  ASSUME NEW p \in Program, NEW left \in Seq(StepNames(p)), left # <<>>, NEW sc, NEW exps, NEW eff, NEW sts,
         NEW st \in ToSet(<<EmptyState>>)
  PROVE  /\ StateSound(st, FirstNames(sc, Dependencies(Block(p, Head(left))), exps, 0), eff, sts)
         /\ \A c \in ToSet(st.rows) : c.inherited
<1>1. PICK name \in StepNames(p) : name = Head(left)
  OBVIOUS
<1>2. PICK after : after = Block(p, name).after
  OBVIOUS
<1>3. after \in Seq(ToSet(after))
  BY <1>1, <1>2, BlockIs
<1>4. PICK deps : deps = Unique(after)
  OBVIOUS
<1>5. deps \in Seq(ToSet(after))
  BY <1>3, <1>4, UniqueIs
<1>6. Dependencies(Block(p, Head(left))) = deps /\ Len(deps) \in Nat
  BY <1>1, <1>2, <1>4, <1>5 DEF Dependencies
<1>7. st = EmptyState
  <2>1. PICK e, one : e = EmptyState /\ one = <<e>>
    OBVIOUS
  <2>2. ToSet(one) = {e}
    BY <2>1 DEF ToSet
  <2> QED
    BY <2>1, <2>2
<1> QED
  BY <1>6, <1>7, EmptySound

\* The states of a step become its workpackages.
LEMMA BuildSound ==
  ASSUME PlanInv, OrderSound, ScopesSound, StatesSound, BuildStep
  PROVE  OrderSound' /\ StatesSound'
<1>1. stage = "build" /\ todo # <<>>
  BY DEF BuildStep
<1>2. PICK name, deps, work, g, exps, eff :
        /\ name = Current.name /\ deps = Dependencies(Current) /\ work = plan.work
        /\ g = growing /\ exps = Expansions /\ eff = scopes[name].effective
  OBVIOUS
<1>3. /\ name = Head(todo) /\ name \in DOMAIN scopes /\ exps = scopes[name].expansions
      /\ deps \in Seq(ToSet(deps)) /\ exps \in Seq(ToSet(exps))
  <2>1. name = Head(todo) /\ deps \in Seq(ToSet(deps))
    BY <1>1, <1>2, CurrentIs
  <2>2. name \in DOMAIN scopes
    BY <1>1, <1>2, ScopeOfCurrent
  <2>3. exps = scopes[name].expansions
    BY <1>2 DEF Expansions
  <2> QED
    BY <2>1, <2>2, <2>3 DEF PlanInv, Scoped
<1>4. Len(deps) \in Nat /\ Len(exps) \in Nat /\ DOMAIN deps = 1..Len(deps) /\ part = Len(deps) + Len(exps)
  <2>1. part = Len(deps) + Len(exps)
    BY <1>2 DEF BuildStep
  <2> QED
    BY <1>3, <2>1
<1>5. g \in Seq(ToSet(g)) /\ DOMAIN g = 1..Len(g) /\ Len(g) \in Nat
  <2>1. g \in Seq(ToSet(g))
    BY <1>1, <1>2 DEF PlanInv, Building, Growing
  <2> QED
    BY <2>1
<1>6. PICK built : built = [k \in DOMAIN g |->
                    [step |-> name, row |-> k, values |-> g[k].values, rows |-> g[k].rows,
                     parents |-> g[k].parents]]
  OBVIOUS
<1>7. /\ states' = Updated(states, name, built)
      /\ plan' = [steps |-> Append(plan.steps, name), work |-> work \o built]
      /\ growing' = <<EmptyState>> /\ part' = 0 /\ todo' = Tail(todo)
      /\ UNCHANGED <<program, stage, scopes, order, walk, errors>>
  BY <1>2, <1>6 DEF BuildStep
<1>8. /\ DOMAIN built = 1..Len(g)
      /\ \A k \in 1..Len(g) : /\ built[k].step = name /\ built[k].row = k /\ built[k].values = g[k].values
                              /\ built[k].rows = g[k].rows /\ built[k].parents = g[k].parents
  BY <1>5, <1>6
<1>9. built \in Seq(ToSet(built))
  <2>1. built = [k \in 1..Len(g) |-> built[k]]
    BY <1>5, <1>6
  <2>2. \A k \in 1..Len(g) : built[k] \in ToSet(built)
    BY <1>8 DEF ToSet
  <2> QED
    BY <1>5, <2>1, <2>2
<1>10. /\ InTurn(order, Tail(todo), DOMAIN states \cup {name}) /\ name \notin DOMAIN states
  <2>1. order \in Seq(StepNames(program)) /\ IsInjective(order) /\ InTurn(order, todo, DOMAIN states)
    BY <1>1 DEF PlanInv, Ordering, OrderSound
  <2>2. PICK done : done = DOMAIN states
    OBVIOUS
  <2> QED
    BY <1>1, <1>3, <2>1, <2>2, NextTurn
<1>11. /\ DOMAIN states' = DOMAIN states \cup {name} /\ states'[name] = built
       /\ \A s \in DOMAIN states : states'[s] = states[s]
  BY <1>7, <1>10 DEF Updated
<1>12. OrderSound'
  <2>1. InTurn(order, todo, DOMAIN states)'
    BY <1>7, <1>10, <1>11
  <2>2. Found'
    BY <1>7 DEF OrderSound, Found
  <2> QED
    BY <1>1, <1>7, <2>1, <2>2 DEF OrderSound
<1>13. work \in Seq(ToSet(work)) /\ InOrder(program, work)
  BY <1>2 DEF PlanInv, InOrder
<1>14. plan'.work = work \o built /\ ToSet(work \o built) = ToSet(work) \cup ToSet(built)
  BY <1>7, <1>9, <1>13, JoinedElements
<1>15. \A w \in ToSet(work) : w.step \in DOMAIN states
  BY <1>2 DEF PlanInv, StatesAreWork
<1>16. PICK names : names = DOMAIN eff
  OBVIOUS
<1>17. \A st \in ToSet(g) : StateSound(st, names, eff, states)
  <2>1. ScopeSound(program, scopes, name) /\ Current = Block(program, name)
        /\ ToSet(deps) = ToSet(Current.after)
    BY <1>1, <1>2, ScopeOfCurrent, CurrentIs
  <2>2. names = InheritedNames(scopes, ToSet(deps)) \cup ImportedNames(exps, Len(exps))
    BY <1>2, <1>3, <1>16, <2>1 DEF ScopeSound
  <2>3. UpTo(deps, Len(deps)) = ToSet(deps)
    BY <1>4 DEF UpTo, ToSet
  <2>4. FirstNames(scopes, deps, exps, part) = names
    <3>1. PICK m, n \in Nat : m = Len(deps) /\ n = Len(exps)
      BY <1>4
    <3>2. part = m + n
      BY <1>4, <3>1
    <3>3. part - m = n /\ (part <= m => part = m)
      BY <3>1, <3>2
    <3>4. (IF part <= m THEN part ELSE m) = m
      BY <3>3
    <3> QED
      BY <2>2, <2>3, <3>1, <3>3, <3>4 DEF FirstNames
  <2> QED
    BY <1>1, <1>2, <2>4 DEF StatesSound
<1>18. ASSUME NEW k \in 1..Len(g)
       PROVE  StateSound(built[k], names, eff, states')
  <2>1. PICK st \in ToSet(g) : st = g[k]
    BY <1>5 DEF ToSet
  <2>2. \A id \in ToSet(st.parents) : states'[id[1]] = states[id[1]]
    <3> SUFFICES ASSUME NEW id \in ToSet(st.parents) PROVE states'[id[1]] = states[id[1]]
      OBVIOUS
    <3>1. st.parents \in Seq({WorkId(v) : v \in ToSet(work)})
      BY <1>1, <1>2 DEF PlanInv, Building, Growing, Combination
    <3>2. PICK v \in ToSet(work) : id = WorkId(v)
      BY <3>1 DEF ToSet
    <3> QED
      BY <1>11, <1>15, <3>2 DEF WorkId
  <2>3. PICK like, more, old : like = built[k] /\ more = states' /\ old = states
    OBVIOUS
  <2>4. like.values = st.values /\ like.rows = st.rows /\ like.parents = st.parents
    BY <1>8, <2>1, <2>3
  <2>5. StateSound(st, names, eff, old) /\ \A id \in ToSet(st.parents) : more[id[1]] = old[id[1]]
    BY <1>17, <2>2, <2>3
  <2>6. StateSound(like, names, eff, more)
    BY <2>4, <2>5, StateStays
  <2> QED
    BY <2>3, <2>6
<1>19. ASSUME NEW w \in ToSet(work)
       PROVE  /\ w.row \in DOMAIN states'[w.step] /\ states'[w.step][w.row] = w
              /\ StateSound(w, DOMAIN scopes[w.step].effective, scopes[w.step].effective, states')
  <2>1. PICK old, more : old = states /\ more = states'
    OBVIOUS
  <2>2. more[w.step] = old[w.step]
    BY <1>11, <1>15, <2>1
  <2>3. /\ w.row \in DOMAIN old[w.step] /\ old[w.step][w.row] = w
        /\ StateSound(w, DOMAIN scopes[w.step].effective, scopes[w.step].effective, old)
    BY <1>1, <1>2, <2>1 DEF StatesSound
  <2>4. \A id \in ToSet(w.parents) : more[id[1]] = old[id[1]]
    <3> SUFFICES ASSUME NEW id \in ToSet(w.parents) PROVE more[id[1]] = old[id[1]]
      OBVIOUS
    <3>1. PICK k \in DOMAIN work : w = work[k]
      BY DEF ToSet
    <3>2. DOMAIN work = 1..Len(work) /\ Len(work) \in Nat
      BY <1>13
    <3>3. PICK j \in 1..(k - 1) : WorkId(work[j]) = id
      BY <1>13, <3>1 DEF InOrder, AfterItsDependencies
    <3>4. work[j] \in ToSet(work)
      <4>1. j \in DOMAIN work
        BY <3>2
      <4> QED
        BY <4>1 DEF ToSet
    <3> QED
      BY <1>11, <1>15, <2>1, <3>3, <3>4 DEF WorkId
  <2>5. StateSound(w, DOMAIN scopes[w.step].effective, scopes[w.step].effective, more)
    BY <2>3, <2>4, StateStays
  <2> QED
    BY <2>1, <2>2, <2>3, <2>5
<1>20. ASSUME NEW w \in ToSet(plan'.work)
       PROVE  /\ w.row \in DOMAIN states'[w.step] /\ states'[w.step][w.row] = w
              /\ StateSound(w, DOMAIN scopes'[w.step].effective, scopes'[w.step].effective, states')
  <2>1. CASE w \in ToSet(work)
    BY <1>7, <1>19, <2>1
  <2>2. CASE w \in ToSet(built)
    <3>1. PICK k \in 1..Len(g) : w = built[k]
      BY <1>8, <2>2 DEF ToSet
    <3>2. w.step = name /\ w.row = k
      BY <1>8, <3>1
    <3>3. scopes'[name].effective = eff
      BY <1>2, <1>7
    <3> QED
      BY <1>8, <1>11, <1>16, <1>18, <3>1, <3>2, <3>3
  <2> QED
    BY <1>14, <2>1, <2>2
<1>21. ASSUME todo' # <<>>, NEW st \in ToSet(growing')
       PROVE  /\ StateSound(st, FirstNames(scopes', Dependencies(Current)', Expansions', 0),
                            scopes'[Current'.name].effective, states')
              /\ \A c \in ToSet(st.rows) : c.inherited
  <2>1. PICK left : left = Tail(todo)
    OBVIOUS
  <2>2. left \in Seq(StepNames(program)) /\ left # <<>> /\ program \in Program
    BY <1>1, <1>7, <1>21, <2>1 DEF PlanInv, Building, Ordering
  <2>3. Current' = Block(program, Head(left))
    BY <1>7, <2>1 DEF Current
  <2>4. PICK b : b = Block(program, Head(left))
    OBVIOUS
  <2>5. Dependencies(Current)' = Dependencies(b)
    BY <2>3, <2>4 DEF Dependencies
  <2>6. PICK sc, ex, ef, sts : sc = scopes' /\ ex = Expansions' /\ ef = scopes'[Current'.name].effective /\ sts = states'
    OBVIOUS
  <2>7. st \in ToSet(<<EmptyState>>)
    BY <1>7, <1>21
  <2>8. StateSound(st, FirstNames(sc, Dependencies(b), ex, 0), ef, sts) /\ \A c \in ToSet(st.rows) : c.inherited
    BY <2>2, <2>4, <2>7, StartSound
  <2> QED
    BY <2>5, <2>6, <2>8
<1> QED
  BY <1>7, <1>12, <1>20, <1>21 DEF StatesSound

-----------------------------------------------------------------------------
(***************************************************************************)
(* The invariant is kept.                                                  *)
(***************************************************************************)
\* Before the plan is built there are no workpackages.
LEMMA NoWorkYet ==
  ASSUME PlanInv, stage \in {"check", "order", "scopes"}
  PROVE  ToSet(plan.work) = {} /\ states = <<>> /\ growing = <<EmptyState>> /\ part = 0
<1>1. PICK none : none = <<>>
  OBVIOUS
<1>2. states = none /\ growing = <<EmptyState>> /\ part = 0
  BY <1>1 DEF PlanInv, Building
<1>3. DOMAIN states = {}
  BY <1>1, <1>2
<1>4. ToSet(plan.work) = {}
  BY <1>3 DEF PlanInv, StatesAreWork
<1> QED
  BY <1>1, <1>2, <1>4

\* The diagnostics of the front end say nothing of choices.
LEMMA OtherErrors ==
  ASSUME NEW p, NEW b
  PROVE  /\ "choice disagrees" \notin StepErrors(p)
         /\ "choice disagrees" \notin ResolveErrors(b)
         /\ "choice disagrees" \notin FSubErrors(b)
<1>1. "choice disagrees" \notin StepErrors(p)
  BY DEF StepErrors
<1>2. \A item : ItemError(b, item) # "choice disagrees"
  BY DEF ItemError
<1>3. "choice disagrees" \notin ResolveErrors(b)
  BY <1>2 DEF ResolveErrors
<1>4. "choice disagrees" \notin FSubErrors(b)
  BY DEF FSubErrors
<1> QED
  BY <1>1, <1>3, <1>4

\* Nothing remains only of all the steps.
LEMMA AllDone ==
  ASSUME NEW S, NEW s \in Seq(S), NEW n \in 0..Len(s), Remaining(s, n) = <<>>
  PROVE  n = Len(s)
<1> SUFFICES ASSUME n # Len(s) PROVE FALSE
  OBVIOUS
<1>1. PICK m \in Nat : m = Len(s)
  OBVIOUS
<1>2. n \in Nat /\ n < m
  BY <1>1
<1>3. PICK rest : rest = SubSeq(s, n + 1, m)
  OBVIOUS
<1>4. Len(rest) = m - n
  BY <1>1, <1>2, <1>3
<1>5. rest = <<>>
  BY <1>1, <1>3 DEF Remaining
<1>6. Len(rest) = 0
  BY <1>5
<1> QED
  BY <1>2, <1>4, <1>6

\* A program is accepted: all steps are planned, none is built.
LEMMA AcceptSound ==
  ASSUME PlanInv, MeaningInv, Accept, UNCHANGED workVars
  PROVE  MeaningInv'
<1>1. /\ stage = "scopes" /\ todo = <<>>
      /\ UNCHANGED <<program, scopes, order, walk, states, growing, part, plan>>
      /\ errors' = errors \cup UNION {FSubErrors(program[b]) : b \in DOMAIN program}
      /\ \/ stage' = "build" /\ errors' = {} /\ todo' = order
         \/ stage' = "failed"
  BY DEF Accept, workVars
<1>2. "choice disagrees" \notin errors'
  BY <1>1, OtherErrors DEF MeaningInv
<1>3. Found'
  BY <1>1 DEF MeaningInv, OrderSound, Found
<1>4. CASE stage' = "failed"
  BY <1>2, <1>3, <1>4 DEF MeaningInv, OrderSound, ScopesSound, StatesSound
<1>5. CASE stage' = "build" /\ errors' = {} /\ todo' = order
  <2>1. errors = {}
    BY <1>1, <1>5
  <2>2. StepErrors(program) = {} /\ InTurn(order, todo, DOMAIN scopes)
    BY <1>1, <2>1 DEF MeaningInv, OrderSound
  <2>3. PICK s \in Seq(StepNames(program)) : s = order
    BY DEF PlanInv, Ordering
  <2>4. PICK n \in 0..Len(s) : Remaining(s, n) = <<>> /\ DOMAIN scopes = UpTo(s, n)
    BY <1>1, <2>2, <2>3 DEF InTurn
  <2>5. DOMAIN s = 1..Len(s) /\ Len(s) \in Nat
    OBVIOUS
  <2>6. n = Len(s)
    BY <2>4, AllDone
  <2>7. DOMAIN scopes = ToSet(s)
    BY <2>4, <2>5, <2>6 DEF UpTo, ToSet
  <2>8. ToSet(plan.work) = {} /\ states = <<>> /\ growing = <<EmptyState>> /\ part = 0
    BY <1>1, NoWorkYet
  <2>9. InTurn(s, s, DOMAIN states)
    <3>1. DOMAIN states = {}
      BY <2>8
    <3>2. Remaining(s, 0) = s
      BY <2>5 DEF Remaining
    <3>3. UpTo(s, 0) = {}
      BY DEF UpTo
    <3>4. 0 \in 0..Len(s)
      BY <2>5
    <3> QED
      BY <3>1, <3>2, <3>3, <3>4 DEF InTurn
  <2>10. OrderSound'
    <3>1. InTurn(order, todo, DOMAIN states)'
      BY <1>1, <1>5, <2>3, <2>9
    <3>2. (DOMAIN scopes = ToSet(order))'
      BY <1>1, <2>3, <2>7
    <3> QED
      BY <1>1, <1>3, <1>5, <2>2, <3>1, <3>2 DEF OrderSound
  <2>11. ScopesSound'
    BY <1>1, <2>1 DEF MeaningInv, ScopesSound
  <2>12. ASSUME todo' # <<>>, NEW st \in ToSet(growing')
         PROVE  /\ StateSound(st, FirstNames(scopes', Dependencies(Current)', Expansions', 0),
                              scopes'[Current'.name].effective, states')
                /\ \A c \in ToSet(st.rows) : c.inherited
    <3>1. s # <<>> /\ program \in Program
      BY <1>5, <2>3, <2>12 DEF PlanInv, Ordering
    <3>2. PICK b : b = Block(program, Head(s))
      OBVIOUS
    <3>3. Current' = b
      BY <1>1, <1>5, <2>3, <3>2 DEF Current
    <3>4. Dependencies(Current)' = Dependencies(b)
      BY <3>3 DEF Dependencies
    <3>5. PICK sc, ex, ef, sts : sc = scopes' /\ ex = Expansions' /\ ef = scopes'[Current'.name].effective /\ sts = states'
      OBVIOUS
    <3>6. st \in ToSet(<<EmptyState>>)
      BY <1>1, <2>8, <2>12
    <3>7. StateSound(st, FirstNames(sc, Dependencies(b), ex, 0), ef, sts) /\ \A c \in ToSet(st.rows) : c.inherited
      BY <3>1, <3>2, <3>6, StartSound
    <3> QED
      BY <3>4, <3>5, <3>7
  <2>13. StatesSound'
    BY <1>1, <2>8, <2>12 DEF StatesSound
  <2> QED
    BY <1>2, <2>10, <2>11, <2>13 DEF MeaningInv
<1> QED
  BY <1>1, <1>4, <1>5

\* The steps of the front end.
LEMMA FrontSound ==
  ASSUME PlanInv, MeaningInv, ScopesNext, UNCHANGED workVars
  PROVE  MeaningInv'
<1>0. OrderSound /\ ScopesSound /\ Found /\ "choice disagrees" \notin errors /\ Ordering
  BY DEF MeaningInv, OrderSound, PlanInv
<1>1. CASE ValidateSteps
  <2>1. stage = "check" /\ stage' = "order" /\ errors' = StepErrors(program)
        /\ UNCHANGED <<program, scopes, order, walk>>
    BY <1>1 DEF ValidateSteps
  <2>2. Found' /\ DOMAIN scopes' = {} /\ StepErrors(program)' \subseteq errors'
    BY <1>0, <2>1 DEF OrderSound, Found
  <2>3. "choice disagrees" \notin errors'
    BY <2>1, OtherErrors
  <2> QED
    BY <2>1, <2>2, <2>3 DEF MeaningInv, OrderSound, ScopesSound, StatesSound
<1>2. CASE Visit \/ Visited
  <2>1. stage = "order" /\ stage' = "order" /\ UNCHANGED <<program, scopes, errors>>
    BY <1>2 DEF Visit, Visited
  <2>2. Found'
    BY <1>0, <1>2, VisitFinds, VisitedFinds
  <2>3. DOMAIN scopes' = {} /\ StepErrors(program)' \subseteq errors'
    BY <1>0, <2>1 DEF OrderSound
  <2> QED
    BY <1>0, <2>1, <2>2, <2>3 DEF MeaningInv, OrderSound, ScopesSound, StatesSound
<1>3. CASE Ordered
  <2>1. stage = "order" /\ stage' = "scopes" /\ todo' = order /\ UNCHANGED <<program, scopes, errors, order, walk>>
    BY <1>3 DEF Ordered
  <2>2. Found' /\ DOMAIN scopes' = {} /\ StepErrors(program)' \subseteq errors'
    BY <1>0, <2>1 DEF OrderSound, Found
  <2>3. InTurn(order, order, {})
    <3>1. PICK s \in Seq(StepNames(program)) : s = order
      BY <1>0 DEF Ordering
    <3>2. Remaining(s, 0) = s /\ 0 \in 0..Len(s)
      BY DEF Remaining
    <3>3. UpTo(s, 0) = {}
      BY DEF UpTo
    <3> QED
      BY <3>1, <3>2, <3>3 DEF InTurn
  <2>4. InTurn(order, todo, DOMAIN scopes)'
    BY <2>1, <2>2, <2>3
  <2> QED
    BY <1>0, <2>1, <2>2, <2>4 DEF MeaningInv, OrderSound, ScopesSound, StatesSound
<1>4. CASE PlanStep
  <2>1. OrderSound' /\ ScopesSound'
    BY <1>0, <1>4, PlanStepSound
  <2>2. stage' = "scopes"
    BY <1>4 DEF PlanStep
  <2>3. "choice disagrees" \notin errors'
    <3>1. PICK b : b = Block(program, Head(todo))
      OBVIOUS
    <3>2. errors' = errors \cup ResolveErrors(b) \cup (IF Conflict(b) THEN {"conflict"} ELSE {})
      BY <1>4, <3>1 DEF PlanStep
    <3> QED
      BY <1>0, <3>2, OtherErrors
  <2> QED
    BY <2>1, <2>2, <2>3 DEF MeaningInv, StatesSound
<1>5. CASE Accept
  BY <1>5, AcceptSound
<1> QED
  BY <1>1, <1>2, <1>3, <1>4, <1>5 DEF ScopesNext

\* Once the plan is built the invariant has nothing to say of a step.
LEMMA NothingMeant ==
  ASSUME MeaningInv, UNCHANGED <<program, scopes, errors, order, walk, states, growing, part, plan>>,
         \/ UNCHANGED <<stage, todo>>
         \/ stage' \notin {"check", "order", "scopes", "build"}
  PROVE  MeaningInv'
<1>1. Found' /\ "choice disagrees" \notin errors'
  BY DEF MeaningInv, OrderSound, Found
<1>2. CASE stage' \notin {"check", "order", "scopes", "build"}
  BY <1>1, <1>2 DEF MeaningInv, OrderSound, ScopesSound, StatesSound
<1>3. CASE UNCHANGED <<stage, todo>>
  <2>1. OrderSound'
    BY <1>1, <1>3 DEF MeaningInv, OrderSound
  <2>2. ScopesSound'
    BY <1>3 DEF MeaningInv, ScopesSound
  <2>3. Current' = Current
    BY <1>3 DEF Current
  <2>4. Dependencies(Current)' = Dependencies(Current) /\ Expansions' = Expansions
    BY <2>3 DEF Dependencies, Expansions
  <2>5. StatesSound'
    BY <1>3, <2>3, <2>4 DEF MeaningInv, StatesSound
  <2> QED
    BY <1>1, <2>1, <2>2, <2>5 DEF MeaningInv
<1> QED
  BY <1>2, <1>3

\* Every step keeps the invariant.
LEMMA MeaningKeeps ==
  ASSUME PlanInv, MeaningInv, [Next]_vars
  PROVE  MeaningInv'
<1>0. OrderSound /\ ScopesSound /\ StatesSound /\ "choice disagrees" \notin errors
  BY DEF MeaningInv
<1>1. CASE PlanningNext
  <2>1. CASE ScopesNext /\ UNCHANGED <<workVars, manifest, made>>
    BY <2>1, FrontSound
  <2>2. CASE InheritParentStates
    <3>1. StatesSound'
      BY <1>0, <2>2, InheritSound
    <3>2. OrderSound' /\ ScopesSound' /\ "choice disagrees" \notin errors'
      BY <1>0, <2>2 DEF InheritParentStates, OrderSound, Found, ScopesSound
    <3> QED
      BY <3>1, <3>2 DEF MeaningInv
  <2>3. CASE ExpandStep
    <3>1. StatesSound' /\ errors' = errors
      BY <1>0, <2>3, ExpandSound
    <3>2. OrderSound' /\ ScopesSound'
      BY <1>0, <2>3 DEF ExpandStep, OrderSound, Found, ScopesSound
    <3> QED
      BY <1>0, <3>1, <3>2 DEF MeaningInv
  <2>4. CASE BuildStep
    <3>1. OrderSound' /\ StatesSound'
      BY <1>0, <2>4, BuildSound
    <3>2. ScopesSound' /\ "choice disagrees" \notin errors'
      BY <1>0, <2>4 DEF BuildStep, ScopesSound
    <3> QED
      BY <3>1, <3>2 DEF MeaningInv
  <2>5. CASE Built
    BY <2>5, NothingMeant DEF Built
  <2>6. CASE SelectComponent
    BY <2>6, NothingMeant DEF SelectComponent
  <2>7. CASE ApplyLimit
    BY <2>7, NothingMeant DEF ApplyLimit
  <2>8. CASE KeepAncestors
    BY <2>8, NothingMeant DEF KeepAncestors
  <2>9. CASE KeepWork
    BY <2>9, NothingMeant DEF KeepWork
  <2>10. CASE MakeManifest \/ PopulateWork \/ Publish
    <3>1. UNCHANGED <<program, scopes, errors, order, walk, states, growing, part, plan>>
      BY <2>10 DEF MakeManifest, PopulateWork, Publish, plannedVars, workVars
    <3>2. UNCHANGED <<stage, todo>> \/ stage' \notin {"check", "order", "scopes", "build"}
      BY <2>10 DEF MakeManifest, PopulateWork, Publish
    <3> QED
      BY <3>1, <3>2, NothingMeant
  <2> QED
    BY <1>1, <2>1, <2>2, <2>3, <2>4, <2>5, <2>6, <2>7, <2>8, <2>9, <2>10 DEF PlanningNext, PlanNext
<1>2. CASE PlanAnalyses
  BY <1>2, NothingMeant DEF PlanAnalyses
<1>3. CASE Execute \/ AnalyseCSV \/ AnalyseSQLite \/ AnalyseFails \/ AnalyseEnds \/ Close \/ Killed
  <2>1. UNCHANGED <<program, scopes, errors, order, walk, states, growing, part, plan>>
    BY <1>3 DEF Execute, AnalyseCSV, AnalyseSQLite, AnalyseFails, AnalyseEnds, Close, Killed,
                madeVars, plannedVars, workVars
  <2>2. stage' \notin {"check", "order", "scopes", "build"}
    BY <1>3 DEF Execute, AnalyseCSV, AnalyseSQLite, AnalyseFails, AnalyseEnds, Close, Killed
  <2> QED
    BY <2>1, <2>2, NothingMeant
<1>4. CASE UNCHANGED vars
  BY <1>4, NothingMeant DEF vars, madeVars, plannedVars, workVars
<1> QED
  BY <1>1, <1>2, <1>3, <1>4 DEF Next

\* Initially nothing has a meaning.
LEMMA MeaningInitially ==
  ASSUME Init
  PROVE  MeaningInv
<1>1. PICK none : none = <<>>
  OBVIOUS
<1>2. DOMAIN none = {} /\ Len(none) = 0
  BY <1>1
<1>3. stage = "check" /\ scopes = none /\ order = none /\ walk = none /\ errors = {}
  BY <1>1 DEF Init, PlanningInit, ScopesInit
<1>4. Topological(program, none)
  BY <1>2 DEF Topological
<1>5. Chained(program, none)
  <2>1. 1..(0 - 1) = {}
    OBVIOUS
  <2> QED
    BY <1>2, <2>1 DEF Chained
<1>6. Found
  BY <1>3, <1>4, <1>5 DEF Found
<1> QED
  BY <1>2, <1>3, <1>6 DEF MeaningInv, OrderSound, ScopesSound, StatesSound

\* A workpackage is of a planned step, and its dependencies are of steps that
\* have been built.
LEMMA ParentsBuilt ==
  ASSUME PlanInv, OrderSound, stage = "build", NEW w \in ToSet(plan.work)
  PROVE  /\ w.step \in DOMAIN scopes
         /\ \A id \in ToSet(w.parents) : StatesOf(id[1]) = states[id[1]]
<1>1. PICK work : work = plan.work
  OBVIOUS
<1>2. work \in Seq(ToSet(work)) /\ InOrder(program, work) /\ \A v \in ToSet(work) : v.step \in DOMAIN states
  BY <1>1 DEF PlanInv, InOrder, StatesAreWork
<1>3. DOMAIN work = 1..Len(work) /\ Len(work) \in Nat
  BY <1>2
<1>4. w.step \in DOMAIN scopes
  <2>1. PICK s \in Seq(StepNames(program)) : s = order
    BY DEF PlanInv, Ordering
  <2>2. PICK n \in 0..Len(s) : DOMAIN states = UpTo(s, n) /\ DOMAIN scopes = ToSet(s)
    BY <2>1 DEF OrderSound, InTurn
  <2>3. UpTo(s, n) \subseteq ToSet(s)
    <3>1. 1..n \subseteq DOMAIN s
      BY <2>1
    <3> QED
      BY <3>1 DEF UpTo, ToSet
  <2> QED
    BY <1>1, <1>2, <2>2, <2>3
<1>5. ASSUME NEW id \in ToSet(w.parents) PROVE StatesOf(id[1]) = states[id[1]]
  <2>1. PICK k \in DOMAIN work : w = work[k]
    BY <1>1 DEF ToSet
  <2>2. PICK j \in 1..(k - 1) : WorkId(work[j]) = id
    BY <1>2, <1>5, <2>1 DEF InOrder, AfterItsDependencies
  <2>3. j \in DOMAIN work
    BY <1>3
  <2>4. work[j].step \in DOMAIN states /\ id[1] = work[j].step
    BY <1>2, <2>2, <2>3 DEF ToSet, WorkId
  <2> QED
    BY <2>4 DEF StatesOf
<1> QED
  BY <1>4, <1>5

\* A name means one thing to a workpackage: the names a step was checked to
\* see (buildStepScopePlans) are those its workpackages have, with the values
\* they have in each of its dependencies and in the source the step imports
\* them from; and a choice of rows that clashes with a value (expandStep) is
\* never met, so an accepted program is not refused for it.
THEOREM NamesMeanOneThing == Spec => []VisibleNames
<1>1. Init => PlanInv /\ MeaningInv
  BY PlanInitially, MeaningInitially
<1>2. (PlanInv /\ MeaningInv) /\ [Next]_vars => (PlanInv /\ MeaningInv)'
  BY PlanKeeps, MeaningKeeps
<1>3. PlanInv /\ MeaningInv => VisibleNames
  <2> SUFFICES ASSUME PlanInv, MeaningInv, stage = "build", NEW w \in ToSet(plan.work)
               PROVE  /\ DOMAIN w.values = DOMAIN scopes[w.step].effective
                      /\ \A id \in ToSet(w.parents) : \A n \in DOMAIN StatesOf(id[1])[id[2]].values :
                           w.values[n] = StatesOf(id[1])[id[2]].values[n]
                      /\ \A e \in ToSet(Resolved(Block(program, w.step))) : \A v \in ToSet(e.vars) :
                           \E r \in DOMAIN Cell[e.source] : w.values[v.visible] = Cell[e.source][r][v.var].val
    BY Zenon DEF VisibleNames, MeaningInv
  <2>1. PICK eff : eff = scopes[w.step].effective
    OBVIOUS
  <2>2. StateSound(w, DOMAIN eff, eff, states)
    BY <2>1 DEF MeaningInv, StatesSound
  <2>3. ASSUME NEW id \in ToSet(w.parents)
        PROVE  \A n \in DOMAIN StatesOf(id[1])[id[2]].values : w.values[n] = StatesOf(id[1])[id[2]].values[n]
    <3>1. StatesOf(id[1]) = states[id[1]]
      BY <2>3, ParentsBuilt DEF MeaningInv
    <3> QED
      BY <2>2, <3>1 DEF StateSound, Keeps
  <2>4. ASSUME NEW e \in ToSet(Resolved(Block(program, w.step))), NEW v \in ToSet(e.vars)
        PROVE  \E r \in DOMAIN Cell[e.source] : w.values[v.visible] = Cell[e.source][r][v.var].val
    <3>1. w.step \in DOMAIN scopes
      BY ParentsBuilt DEF MeaningInv
    <3>2. PICK sc : sc = scopes
      OBVIOUS
    <3>3. ScopeSound(program, sc, w.step)
      BY <3>1, <3>2 DEF MeaningInv, ScopesSound
    <3>4. v.visible \in DOMAIN eff /\ eff[v.visible] = Binding(e, v)
      BY <2>1, <2>4, <3>2, <3>3 DEF ScopeSound
    <3>5. PICK c \in ToSet(w.rows) : v.visible \in c.vars
      BY <2>2, <3>4 DEF StateSound, ValuesSound
    <3>6. /\ c.rows # {} /\ c.rows \subseteq DOMAIN Cell[c.source] /\ eff[v.visible].source = c.source
          /\ \A r \in c.rows : w.values[v.visible] = Cell[c.source][r][eff[v.visible].var].val
      BY <2>2, <3>5 DEF StateSound, ValuesSound, Selection
    <3>7. c.source = e.source /\ eff[v.visible].var = v.var
      BY <3>4, <3>6 DEF Binding
    <3> QED
      BY <3>6, <3>7
  <2> QED
    BY <2>1, <2>2, <2>3, <2>4 DEF StateSound
<1> QED
  BY <1>1, <1>2, <1>3, PTL DEF Spec

\* The value of a name is that of its column in every row a workpackage stands
\* for, and the rows of an import are among those of its source in every
\* dependency (AllowedRows, MergeParentStates): a workpackage never pairs the
\* columns of different rows.
THEOREM RowsStayConsistent == Spec => []RowsConsistent
<1>1. Init => PlanInv /\ MeaningInv
  BY PlanInitially, MeaningInitially
<1>2. (PlanInv /\ MeaningInv) /\ [Next]_vars => (PlanInv /\ MeaningInv)'
  BY PlanKeeps, MeaningKeeps
<1>3. PlanInv /\ MeaningInv => RowsConsistent
  <2> SUFFICES ASSUME PlanInv, MeaningInv, stage = "build", NEW w \in ToSet(plan.work), NEW eff,
                      eff = scopes[w.step].effective
               PROVE  /\ \A c \in ToSet(w.rows) : c.rows # {} /\ \A n \in c.vars : \A r \in c.rows :
                           eff[n].source = c.source /\ w.values[n] = Cell[c.source][r][eff[n].var].val
                      /\ \A id \in ToSet(w.parents) : \A c \in ToSet(StatesOf(id[1])[id[2]].rows) :
                           \A d \in ToSet(w.rows) : ~d.inherited /\ d.source = c.source => d.rows \subseteq c.rows
    BY Zenon DEF RowsConsistent
  <2>1. StateSound(w, DOMAIN eff, eff, states)
    BY DEF MeaningInv, StatesSound
  <2>2. ASSUME NEW id \in ToSet(w.parents), NEW c \in ToSet(StatesOf(id[1])[id[2]].rows),
               NEW d \in ToSet(w.rows), ~d.inherited, d.source = c.source
        PROVE  d.rows \subseteq c.rows
    <3>1. StatesOf(id[1]) = states[id[1]]
      BY <2>2, ParentsBuilt DEF MeaningInv
    <3>2. PICK f \in ToSet(w.rows) : f.inherited /\ f.source = c.source /\ f.rows = c.rows
      BY <2>1, <2>2, <3>1 DEF StateSound, Keeps
    <3> QED
      BY <2>1, <2>2, <3>2 DEF StateSound, Within
  <2> QED
    BY <2>1, <2>2 DEF StateSound, ValuesSound, Selection
<1> QED
  BY <1>1, <1>2, <1>3, PTL DEF Spec
=============================================================================
