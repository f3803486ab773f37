---------------------------- MODULE AnalyseProofs ----------------------------
(***************************************************************************)
(* Proofs about analyses (Analyse): what can stop one, no value of its     *)
(* columns; and what the tables hold that it leaves, all that the work of  *)
(* the analysed steps has left, each cell in its row and column.           *)
(***************************************************************************)
EXTENDS WorkProofs

-----------------------------------------------------------------------------
(***************************************************************************)
(* Sequences that stand one after the other.                               *)
(***************************************************************************)
\* The first n of the sequences ss make up t: the k-th stands behind at[k - 1].
Stretched(at, ss, n, t) ==
  /\ at \in [0..n -> Nat] /\ at[0] = 0
  /\ \A k \in 1..n : at[k] = at[k - 1] + Len(ss[k])
  /\ \A j, k \in 0..n : j <= k => at[j] <= at[k]
  /\ Len(t) = at[n]
  /\ \A k \in 1..n : \A i \in 1..Len(ss[k]) : t[at[k - 1] + i] = ss[k][i]

\* One more sequence.
LEMMA StretchNext ==
  ASSUME NEW B, NEW ss, NEW n \in Nat, NEW t \in Seq(B), NEW at, Stretched(at, ss, n, t),
         \A k \in 1..(n + 1) : ss[k] \in Seq(B)
  PROVE  \E to : Stretched(to, ss, n + 1, t \o ss[n + 1])
<1>1. PICK a \in Seq(B) : a = ss[n + 1]
  OBVIOUS
<1>2. PICK u : u = t \o a
  OBVIOUS
<1>3. /\ at \in [0..n -> Nat] /\ at[0] = 0
      /\ \A k \in 1..n : at[k] = at[k - 1] + Len(ss[k])
      /\ \A j, k \in 0..n : j <= k => at[j] <= at[k]
      /\ Len(t) = at[n]
      /\ \A k \in 1..n : \A i \in 1..Len(ss[k]) : t[at[k - 1] + i] = ss[k][i]
  BY DEF Stretched
<1>4. PICK l \in Nat : l = at[n]
  BY <1>3
<1>5. /\ Len(u) = l + Len(a) /\ Len(a) \in Nat
      /\ \A i \in 1..l : u[i] = t[i]
      /\ \A i \in 1..Len(a) : u[l + i] = a[i]
  <2>1. l = Len(t)
    BY <1>3, <1>4
  <2> QED
    BY <1>2, <2>1
<1>6. PICK to : to = [k \in 0..(n + 1) |-> IF k <= n THEN at[k] ELSE l + Len(a)]
  OBVIOUS
<1>7. to \in [0..(n + 1) -> Nat] /\ to[n + 1] = l + Len(a) /\ \A k \in 0..n : to[k] = at[k]
  BY <1>3, <1>5, <1>6
<1>8. ASSUME NEW k \in 1..(n + 1) PROVE to[k] = to[k - 1] + Len(ss[k])
  <2>1. CASE k = n + 1
    BY <1>1, <1>4, <1>7, <2>1
  <2>2. CASE k # n + 1
    <3>1. k \in 1..n /\ k \in 0..n /\ k - 1 \in 0..n
      BY <2>2
    <3> QED
      BY <1>3, <1>7, <3>1
  <2> QED
    BY <2>1, <2>2
<1>9. ASSUME NEW j \in 0..(n + 1), NEW k \in 0..(n + 1), j <= k PROVE to[j] <= to[k]
  <2>1. CASE k = n + 1
    <3>1. CASE j = n + 1
      BY <1>7, <2>1, <3>1
    <3>2. CASE j # n + 1
      <4>1. j \in 0..n /\ n \in 0..n /\ j <= n
        BY <3>2
      <4>2. to[j] = at[j] /\ at[j] <= l /\ at[j] \in Nat
        BY <1>3, <1>4, <1>7, <4>1
      <4> QED
        BY <1>5, <1>7, <2>1, <4>2
    <3> QED
      BY <3>1, <3>2
  <2>2. CASE k # n + 1
    <3>1. k \in 0..n /\ j \in 0..n
      BY <1>9, <2>2
    <3> QED
      BY <1>3, <1>7, <1>9, <3>1
  <2> QED
    BY <2>1, <2>2
<1>10. ASSUME NEW k \in 1..(n + 1), NEW i \in 1..Len(ss[k]) PROVE u[to[k - 1] + i] = ss[k][i]
  <2>1. CASE k = n + 1
    <3>1. k - 1 = n /\ n \in 0..n /\ ss[k] = a
      BY <1>1, <2>1
    <3>2. to[k - 1] = l /\ i \in 1..Len(a)
      BY <1>4, <1>7, <1>10, <3>1
    <3> QED
      BY <1>5, <3>1, <3>2
  <2>2. CASE k # n + 1
    <3>1. k \in 1..n /\ k \in 0..n /\ k - 1 \in 0..n /\ n \in 0..n /\ k <= n
      BY <2>2
    <3>2. PICK b \in Nat : b = at[k - 1]
      BY <1>3, <3>1
    <3>3. Len(ss[k]) \in Nat
      OBVIOUS
    <3>4. at[k] = b + Len(ss[k]) /\ at[k] <= l
      BY <1>3, <1>4, <3>1, <3>2
    <3>5. b + i \in 1..l
      BY <3>2, <3>3, <3>4, SMTT(30), ZenonT(30)
    <3>6. t[b + i] = ss[k][i]
      BY <1>3, <3>1, <3>2
    <3> QED
      BY <1>5, <1>7, <3>1, <3>2, <3>5, <3>6
  <2> QED
    BY <2>1, <2>2
<1>11. Stretched(to, ss, n + 1, u)
  BY <1>3, <1>5, <1>7, <1>8, <1>9, <1>10 DEF Stretched
<1> QED
  BY <1>1, <1>2, <1>11

\* Flattened sequences stand one after the other.
LEMMA FlatStretches ==
  ASSUME NEW B, NEW ss, ss \in Seq(Seq(B))
  PROVE  \E at : Stretched(at, ss, Len(ss), FlattenSeq(ss))
<1> DEFINE Good(t, n) == t \in Seq(B) /\ \E at : Stretched(at, ss, n, t)
<1>0. Len(ss) \in Nat /\ \A i \in 1..Len(ss) : ss[i] \in Seq(B)
  OBVIOUS
<1>1. Good(<<>>, 0)
  <2>1. PICK at : at = [k \in 0..0 |-> 0]
    OBVIOUS
  <2>2. PICK e : e = <<>>
    OBVIOUS
  <2>3. e \in Seq(B) /\ Len(e) = 0
    BY <2>2
  <2>4. Stretched(at, ss, 0, e)
    BY <2>1, <2>3 DEF Stretched
  <2> QED
    BY <2>2, <2>3, <2>4
<1>2. ASSUME NEW n \in Nat, NEW t, Good(t, n), n + 1 <= Len(ss) PROVE Good(t \o ss[n + 1], n + 1)
  <2>1. t \in Seq(B) /\ \A k \in 1..(n + 1) : ss[k] \in Seq(B)
    BY <1>0, <1>2
  <2>2. PICK at : Stretched(at, ss, n, t)
    BY <1>2
  <2>3. \E to : Stretched(to, ss, n + 1, t \o ss[n + 1])
    BY <2>1, <2>2, StretchNext
  <2>4. t \o ss[n + 1] \in Seq(B)
    BY <2>1
  <2> QED
    BY <2>3, <2>4
<1> HIDE DEF Good
<1>3. CASE Len(ss) = 0
  <2>1. FlattenSeq(ss) = <<>>
    BY <1>3 DEF FlattenSeq
  <2> QED
    BY <1>1, <1>3, <2>1 DEF Good
<1>4. CASE Len(ss) # 0
  <2> DEFINE f == CHOOSE f : Flattening(f, ss, Len(ss))
  <2>1. Flattening(f, ss, Len(ss))
    BY <1>0, FlatteningExists
  <2>2. FlattenSeq(ss) = f[Len(ss)]
    BY <1>4 DEF FlattenSeq, Flattening
  <2> HIDE DEF f
  <2> DEFINE T == {n \in 1..Len(ss) : ~Good(f[n], n)}
  <2>3. ASSUME T # {} PROVE FALSE
    <3>1. T \subseteq Nat
      OBVIOUS
    <3>2. PICK m \in T : \A j \in T : m <= j
      BY <2>3, <3>1, Least
    <3>3. \A i \in 1..Len(ss) : f[i] = IF i = 1 THEN ss[i] ELSE f[i - 1] \o ss[i]
      BY <2>1 DEF Flattening
    <3>4. PICK n \in Nat : n = m - 1 /\ n + 1 = m /\ n + 1 <= Len(ss)
      BY <1>0, <3>1, <3>2
    <3>5. CASE m = 1
      <4>1. PICK e, a : e = <<>> /\ a = ss[1]
        OBVIOUS
      <4>2. a \in Seq(B) /\ 1 \in 1..Len(ss)
        BY <1>0, <3>2, <3>5, <4>1
      <4>3. Good(e \o ss[n + 1], n + 1)
        <5>1. n = 0
          BY <3>4, <3>5
        <5>2. Good(e, n)
          BY <1>1, <4>1, <5>1
        <5> QED
          BY <1>2, <3>4, <5>2
      <4>4. e \o a = a /\ f[1] = a
        BY <3>3, <4>1, <4>2
      <4> QED
        BY <3>2, <3>4, <3>5, <4>1, <4>3, <4>4
    <3>6. CASE m # 1
      <4>1. n \in 1..Len(ss) /\ m \in 1..Len(ss) /\ n \notin T
        BY <1>0, <3>1, <3>2, <3>4, <3>6
      <4>2. Good(f[n], n)
        BY <4>1
      <4>3. Good(f[n] \o ss[n + 1], n + 1)
        BY <1>2, <3>4, <4>2
      <4>4. f[m] = f[n] \o ss[m]
        BY <3>3, <3>4, <3>6, <4>1
      <4> QED
        BY <3>2, <3>4, <4>3, <4>4
    <3> QED
      BY <3>5, <3>6
  <2>4. Good(f[Len(ss)], Len(ss))
    BY <1>0, <1>4, <2>3
  <2> QED
    BY <2>2, <2>4 DEF Good
<1> QED
  BY <1>3, <1>4

\* Sequences of the same lengths stand at the same places.
LEMMA SameStretches ==
  ASSUME NEW n \in Nat, NEW m \in Nat, n <= m, NEW at, NEW ss, NEW t, Stretched(at, ss, n, t),
         NEW to, NEW uu, NEW u, Stretched(to, uu, m, u),
         \A k \in 1..n : Len(ss[k]) = Len(uu[k])
  PROVE  \A k \in 0..n : at[k] = to[k]
<1> DEFINE T == {k \in 0..n : at[k] # to[k]}
<1>1. ASSUME T # {} PROVE FALSE
  <2>1. T \subseteq Nat
    OBVIOUS
  <2>2. PICK k \in T : \A j \in T : k <= j
    BY <1>1, <2>1, Least
  <2>3. at[0] = 0 /\ to[0] = 0
    BY DEF Stretched
  <2>4. k # 0 /\ k \in 1..n /\ k \in 1..m /\ k - 1 \in 0..n /\ k - 1 \notin T
    BY <2>1, <2>2, <2>3
  <2>5. at[k - 1] = to[k - 1]
    BY <2>4
  <2>6. at[k] = at[k - 1] + Len(ss[k]) /\ to[k] = to[k - 1] + Len(uu[k])
    BY <2>4 DEF Stretched
  <2> QED
    BY <2>2, <2>4, <2>5, <2>6
<1> QED
  BY <1>1

\* Place i is in the k-th of n sequences, for some k.
Placed(at, ss, n, i) == \E k \in 1..n : \E x \in 1..Len(ss[k]) : i = at[k - 1] + x

\* Every place is in one of the sequences.
LEMMA InStretch ==
  ASSUME NEW n \in Nat, NEW at, NEW ss, NEW t, Stretched(at, ss, n, t), NEW i \in 1..Len(t)
  PROVE  Placed(at, ss, n, i)
<1> DEFINE T == {k \in 0..n : i <= at[k]}
<1>1. /\ at \in [0..n -> Nat] /\ at[0] = 0
      /\ \A k \in 1..n : at[k] = at[k - 1] + Len(ss[k])
      /\ Len(t) = at[n]
  BY DEF Stretched
<1>2. n \in T /\ T \subseteq Nat
  BY <1>1
<1>3. PICK k \in T : \A j \in T : k <= j
  BY <1>2, Least
<1>4. k # 0 /\ k \in 1..n /\ k - 1 \in 0..n /\ k - 1 \notin T
  BY <1>1, <1>2, <1>3
<1>5. PICK a \in Nat : a = at[k - 1]
  BY <1>1, <1>4
<1>6. PICK b \in Nat : b = at[k]
  BY <1>1, <1>4
<1>7. ~(i <= a) /\ i <= b /\ b = a + Len(ss[k]) /\ i \in Int
  BY <1>1, <1>3, <1>4, <1>5, <1>6
<1>8. PICK x \in Int : x = i - a
  BY <1>7
<1>9. Len(ss[k]) = b - a
  BY <1>1, <1>4, <1>5, <1>6, <1>7, SMTT(30), ZenonT(30)
<1>10. x \in 1..Len(ss[k]) /\ i = a + x
  BY <1>7, <1>8, <1>9
<1> QED
  BY <1>4, <1>5, <1>10 DEF Placed

\* The m elements of s behind the place a.
PartOf(t, s, a, m) == t \in Seq(ToSet(s)) /\ Len(t) = m /\ \A i \in 1..m : t[i] = s[a + i]

\* What is picked from a stretch of a sequence is this stretch.
LEMMA PickedStretch ==
  ASSUME NEW s, s \in Seq(ToSet(s)), NEW places, NEW a \in Nat, NEW m \in Nat,
         places \cap DOMAIN s = (a + 1)..(a + m), NEW t, t = Picked(s, places)
  PROVE  PartOf(t, s, a, m)
<1>1. t \in Seq(ToSet(s)) /\ Len(t) \in Nat
  BY PickedPlaces
<1>2. PICK at : PickedAt(at, s, places, t)
  BY PickedPlaces
<1>3. PICK l \in Nat : l = Len(t)
  BY <1>1
<1>4. /\ at \in [1..l -> (a + 1)..(a + m)]
      /\ \A j, k \in 1..l : j < k => at[j] < at[k]
      /\ \A k \in 1..l : t[k] = s[at[k]]
      /\ \A i \in (a + 1)..(a + m) : \E k \in 1..l : at[k] = i
  BY <1>2, <1>3 DEF PickedAt
<1> DEFINE T == {k \in 1..l : at[k] # a + k}
<1>5. ASSUME T # {} PROVE FALSE
  <2>1. T \subseteq Nat
    OBVIOUS
  <2>2. PICK k \in T : \A j \in T : k <= j
    BY <1>5, <2>1, Least
  <2>3. k \in 1..l /\ at[k] \in Nat /\ at[k] <= a + m
    BY <1>4
  <2>4. at[k] > a + k
    <3>1. CASE k = 1
      BY <1>4, <2>2, <3>1
    <3>2. CASE k # 1
      <4>1. k - 1 \in 1..l /\ k - 1 < k /\ k - 1 \notin T
        BY <2>1, <2>2, <2>3, <3>2
      <4>2. at[k - 1] = a + k - 1 /\ at[k - 1] < at[k]
        BY <1>4, <2>3, <4>1
      <4> QED
        BY <2>2, <2>3, <4>2
    <3> QED
      BY <3>1, <3>2
  <2>5. a + k \in (a + 1)..(a + m)
    BY <2>3, <2>4
  <2>6. PICK j \in 1..l : at[j] = a + k
    BY <1>4, <2>5
  <2>7. CASE j < k
    <3>1. j \notin T
      BY <2>1, <2>2, <2>7
    <3> QED
      BY <2>6, <2>7, <3>1
  <2>8. CASE ~(j < k)
    <3>1. k < j \/ j = k
      BY <2>8
    <3>2. at[k] <= at[j] /\ at[j] \in Nat
      <4>1. at[j] \in Nat
        BY <1>4, SMTT(30), ZenonT(30)
      <4>2. CASE k < j
        BY <1>4, <2>3, <4>1, <4>2
      <4>3. CASE j = k
        BY <2>3, <4>3
      <4> QED
        BY <3>1, <4>1, <4>2, <4>3
    <3> QED
      BY <2>3, <2>4, <2>6, <3>2
  <2> QED
    BY <2>7, <2>8
<1>6. \A k \in 1..l : at[k] = a + k
  BY <1>5
<1>7. l = m
  <2>1. l <= m
    <3>1. CASE l = 0
      BY <3>1
    <3>2. CASE l # 0
      <4>1. l \in 1..l /\ at[l] = a + l /\ at[l] \in (a + 1)..(a + m)
        BY <1>4, <1>6, <3>2
      <4> QED
        BY <4>1
    <3> QED
      BY <3>1, <3>2
  <2>2. m <= l
    <3>1. CASE m = 0
      BY <3>1
    <3>2. CASE m # 0
      <4>1. a + m \in (a + 1)..(a + m)
        BY <3>2
      <4>2. PICK k \in 1..l : at[k] = a + m
        BY <1>4, <4>1
      <4> QED
        BY <1>6, <4>2
    <3> QED
      BY <3>1, <3>2
  <2> QED
    BY <2>1, <2>2
<1>8. \A i \in 1..m : t[i] = s[a + i]
  BY <1>4, <1>6, <1>7
<1> QED
  BY <1>1, <1>3, <1>7, <1>8 DEF PartOf

\* One of the first n numbers is the greatest of them.
HasGreatest(f, n) == \E k \in 1..n : \A j \in 1..n : f[j] <= f[k]

\* One of finitely many numbers is the greatest.
LEMMA Greatest ==
  ASSUME NEW n \in Nat, n # 0, NEW f, \A k \in 1..n : f[k] \in Nat
  PROVE  HasGreatest(f, n)
<1> DEFINE T == {m \in 1..n : ~HasGreatest(f, m)}
<1>1. ASSUME T # {} PROVE FALSE
  <2>1. T \subseteq Nat
    OBVIOUS
  <2>2. PICK m \in T : \A j \in T : m <= j
    BY <1>1, <2>1, Least
  <2>3. CASE m = 1
    <3>1. 1 \in 1..m /\ \A j \in 1..m : j = 1
      BY <2>3
    <3>2. f[1] \in Nat
      OBVIOUS
    <3>3. HasGreatest(f, m)
      BY <3>1, <3>2 DEF HasGreatest
    <3> QED
      BY <2>2, <3>3
  <2>4. CASE m # 1
    <3>1. m - 1 \in 1..n /\ m \in 1..m /\ ~(m <= m - 1)
      BY <2>1, <2>2, <2>4
    <3>2. PICK k \in 1..(m - 1) : \A j \in 1..(m - 1) : f[j] <= f[k]
      BY <2>2, <3>1 DEF HasGreatest
    <3>3. k \in 1..m /\ \A j \in 1..m : j = m \/ j \in 1..(m - 1)
      BY <3>1
    <3>4. f[m] \in Nat /\ \A j \in 1..m : f[j] \in Nat
      BY <2>2
    <3>5. CASE f[m] <= f[k]
      BY <2>2, <3>2, <3>3, <3>5 DEF HasGreatest
    <3>6. CASE ~(f[m] <= f[k])
      <4>1. \A j \in 1..m : f[j] <= f[m]
        BY <3>2, <3>3, <3>4, <3>6
      <4> QED
        BY <2>2, <3>1, <4>1 DEF HasGreatest
    <3> QED
      BY <3>5, <3>6
  <2> QED
    BY <2>3, <2>4
<1>2. n \in 1..n
  OBVIOUS
<1> QED
  BY <1>1, <1>2

\* Sequences with elements of one set, and all of them one after the other.
LEMMA ListsList ==
  ASSUME NEW n \in Nat, NEW ss, ss = [k \in 1..n |-> ss[k]],
         NEW B, \A k \in 1..n : ss[k] \in Seq(ToSet(ss[k])) /\ ToSet(ss[k]) \subseteq B
  PROVE  ss \in Seq(Seq(B)) /\ Len(ss) = n /\ FlattenSeq(ss) \in Seq(B)
<1>1. ASSUME NEW k \in 1..n PROVE ss[k] \in Seq(B)
  <2>1. PICK t : t = ss[k]
    OBVIOUS
  <2>2. t \in Seq(ToSet(t)) /\ ToSet(t) \subseteq B
    BY <2>1
  <2> QED
    BY <2>1, <2>2
<1>2. ss \in Seq(Seq(B)) /\ Len(ss) = n
  BY <1>1, ListedIn
<1>3. FlattenSeq(ss) \in Seq(B)
  BY <1>2, FlatIn
<1> QED
  BY <1>2, <1>3

\* t is a sequence of n elements.
ListOf(t, n) == t \in Seq(ToSet(t)) /\ Len(t) = n

\* A function on the first n numbers is a sequence.
LEMMA FirstNumbers ==
  ASSUME NEW n \in Nat, NEW t, t = [k \in 1..n |-> t[k]]
  PROVE  ListOf(t, n) /\ DOMAIN t = 1..n
<1>1. DOMAIN t = 1..n
  OBVIOUS
<1>2. \A k \in 1..n : t[k] \in ToSet(t)
  BY <1>1 DEF ToSet
<1> QED
  BY <1>1, <1>2, ListedIn DEF ListOf

\* A sequence is a sequence of its elements.
LEMMA SeqList ==
  ASSUME NEW S, NEW t \in Seq(S)
  PROVE  ListOf(t, Len(t)) /\ Len(t) \in Nat /\ DOMAIN t = 1..Len(t)
<1>1. PICK l \in Nat : l = Len(t)
  OBVIOUS
<1>2. t = [k \in 1..l |-> t[k]]
  BY <1>1
<1> QED
  BY <1>1, <1>2, FirstNumbers

\* The n elements of a and then the m elements of b.
Joins(t, a, n, b, m) ==
  /\ ListOf(t, n + m)
  /\ \A i \in 1..n : t[i] = a[i]
  /\ \A i \in 1..m : t[n + i] = b[i]

\* Two sequences, one after the other.
LEMMA JoinedLists ==
  ASSUME NEW n \in Nat, NEW m \in Nat, NEW a, NEW b, ListOf(a, n), ListOf(b, m)
  PROVE  Joins(a \o b, a, n, b, m)
<1>1. PICK S : S = ToSet(a) \cup ToSet(b)
  OBVIOUS
<1>2. a \in Seq(S) /\ b \in Seq(S) /\ Len(a) = n /\ Len(b) = m
  BY <1>1 DEF ListOf
<1>3. PICK t : t = a \o b
  OBVIOUS
<1>4. /\ t \in Seq(S) /\ Len(t) = n + m
      /\ \A i \in 1..n : t[i] = a[i]
      /\ \A i \in 1..m : t[n + i] = b[i]
  <2>1. a \in Seq(S) /\ b \in Seq(S)
    BY <1>2
  <2>2. /\ t \in Seq(S) /\ Len(t) = Len(a) + Len(b)
        /\ \A i \in 1..Len(a) : t[i] = a[i]
        /\ \A i \in 1..Len(b) : t[Len(a) + i] = b[i]
    BY <1>3, <2>1
  <2> QED
    BY <1>2, <2>2
<1>5. ListOf(t, n + m)
  BY <1>4, SeqList
<1>6. Joins(t, a, n, b, m)
  BY <1>4, <1>5 DEF Joins
<1> QED
  BY <1>3, <1>6

-----------------------------------------------------------------------------
(***************************************************************************)
(* The cells of a column.                                                  *)
(***************************************************************************)
\* The pattern of a name is one of the block.
LEMMA PatternKnown ==
  ASSUME NEW s \in DOMAIN Blocks, NEW name \in PatternNames(s)
  PROVE  Pattern(s, name) \in ToSet(Blocks[s].patterns)
<1>1. PICK ps : ps = Blocks[s].patterns /\ ps \in Seq(ToSet(ps))
  BY BlockAssumption
<1> DEFINE T == {k \in DOMAIN ps : ps[k].name = name}
<1>2. T # {} /\ T \subseteq Nat
  BY <1>1 DEF PatternNames, ToSet
<1>3. PICK m \in T : \A j \in T : m <= j
  BY <1>2, Least
<1>4. m \in DOMAIN ps /\ ps[m].name = name /\ \A j \in 1..(m - 1) : ps[j].name # name
  <2>1. ASSUME NEW j \in 1..(m - 1) PROVE j \notin T
    BY <1>2, <1>3
  <2>2. \A j \in 1..(m - 1) : j \in DOMAIN ps
    BY <1>1, <1>3
  <2> QED
    BY <1>3, <2>1, <2>2
<1>5. PICK k \in DOMAIN ps : Pattern(s, name) = ps[k]
  BY <1>1, <1>4 DEF Pattern
<1> QED
  BY <1>1, <1>5 DEF ToSet

\* How many cells a match of a pattern has.
Width(p) == (IF p.regex THEN 1 ELSE 0) + Len(p.kinds)

\* The matches of a pattern are a sequence, and so is each of them.
LEMMA MatchesAre ==
  ASSUME NEW s \in DOMAIN Blocks, NEW p \in ToSet(Blocks[s].patterns), NEW left \in Contents[s],
         NEW ms, ms = Matches(p, left)
  PROVE  ms \in Seq(ToSet(ms)) /\ Len(ms) \in Nat /\ \A m \in ToSet(ms) : ListOf(m, Width(p))
<1>1. PICK kinds : kinds = p.kinds /\ ListOf(kinds, Len(kinds)) /\ Len(kinds) \in Nat
  <2>1. PICK kinds : kinds = p.kinds
    OBVIOUS
  <2>2. kinds \in Seq(ToSet(kinds))
    BY <2>1, BlockAssumption
  <2> QED
    BY <2>1, <2>2 DEF ListOf
<1>2. PICK places : places = {k \in DOMAIN FileOrder : FileOrder[k] \in p.files \cap DOMAIN left}
  OBVIOUS
<1>3. PICK files : files = TargetFiles(p, left)
  OBVIOUS
<1>4. files = Picked(FileOrder, places)
  BY <1>2, <1>3 DEF TargetFiles, Select
<1>5. DOMAIN files = 1..Len(files) /\ Len(files) \in Nat /\ \E at : PickedAt(at, FileOrder, places, files)
  BY <1>4, PickedPlaces, ContentAssumption
<1>6. \A k \in DOMAIN files : files[k] \in p.files \cap DOMAIN left
  <2>1. PICK at : PickedAt(at, FileOrder, places, files)
    BY <1>5
  <2>2. ASSUME NEW k \in DOMAIN files PROVE files[k] \in p.files \cap DOMAIN left
    <3>1. k \in 1..Len(files)
      BY <1>5
    <3>2. at[k] \in places /\ files[k] = FileOrder[at[k]]
      BY <2>1, <3>1 DEF PickedAt
    <3> QED
      BY <1>2, <3>2
  <2> QED
    BY <2>2
<1> DEFINE head(f) == IF p.regex THEN <<TextCell(f)>> ELSE <<>>
           groups(f, j) == [g \in DOMAIN kinds |-> Capture(left[f][p.name][j][g], kinds[g])]
           found(f) == [j \in DOMAIN left[f][p.name] |-> head(f) \o groups(f, j)]
<1>7. PICK ss : ss = [k \in DOMAIN files |-> found(files[k])]
  OBVIOUS
<1>8. ms = FlattenSeq(ss)
  BY <1>1, <1>3, <1>7 DEF Matches
<1> HIDE DEF groups
<1>9. ASSUME NEW f \in p.files \cap DOMAIN left
      PROVE  /\ found(f) \in Seq(ToSet(found(f)))
             /\ \A j \in DOMAIN left[f][p.name] : ListOf(found(f)[j], Width(p))
  <2>1. PICK l : l = left[f][p.name] /\ l \in Seq(ToSet(l))
    BY ContentAssumption
  <2>2. found(f) \in Seq(ToSet(found(f)))
    <3>1. PICK t : t = found(f)
      OBVIOUS
    <3>2. DOMAIN t = DOMAIN l /\ t = [k \in DOMAIN l |-> t[k]]
      BY <2>1, <3>1
    <3> QED
      BY <2>1, <3>1, <3>2, SamePlaces
  <2>3. ASSUME NEW j \in DOMAIN l PROVE ListOf(found(f)[j], Width(p))
    <3>1. PICK a, b : a = head(f) /\ b = groups(f, j)
      OBVIOUS
    <3>2. PICK c \in BOOLEAN : c = (p.regex = TRUE)
      OBVIOUS
    <3>3. PICK n \in Nat : n = IF p.regex THEN 1 ELSE 0
      OBVIOUS
    <3>4. ListOf(a, n)
      <4>1. a = [k \in 1..n |-> a[k]]
        BY <3>1, <3>3
      <4> QED
        BY <4>1, FirstNumbers
    <3>5. ListOf(b, Len(kinds))
      <4>1. DOMAIN kinds = 1..Len(kinds)
        BY <1>1 DEF ListOf
      <4>2. b = [k \in 1..Len(kinds) |-> b[k]]
        BY <3>1, <4>1 DEF groups
      <4> QED
        BY <1>1, <4>2, FirstNumbers
    <3>6. ListOf(a \o b, n + Len(kinds))
      BY <1>1, <3>4, <3>5, JoinedLists DEF Joins
    <3>7. found(f)[j] = a \o b
      BY <2>1, <3>1
    <3> QED
      BY <1>1, <3>3, <3>6, <3>7 DEF Width
  <2> QED
    BY <2>1, <2>2, <2>3
<1> HIDE DEF found
<1>10. PICK n \in Nat : n = Len(files) /\ DOMAIN files = 1..n
  BY <1>5
<1>11. ss = [k \in 1..n |-> ss[k]] /\ \A k \in 1..n : ss[k] = found(files[k])
  BY <1>7, <1>10
<1>12. PICK B : B = UNION {ToSet(ss[k]) : k \in 1..n}
  OBVIOUS
<1>13. ms \in Seq(B)
  <2>1. \A k \in 1..n : ss[k] \in Seq(ToSet(ss[k])) /\ ToSet(ss[k]) \subseteq B
    BY <1>6, <1>9, <1>10, <1>11, <1>12
  <2>2. ss = [k \in 1..n |-> ss[k]]
    BY <1>11
  <2>3. FlattenSeq(ss) \in Seq(B)
    BY <2>1, <2>2, ListsList, Zenon
  <2> QED
    BY <1>8, <2>3
<1>14. ASSUME NEW m \in ToSet(ms) PROVE ListOf(m, Width(p))
  <2>1. m \in B
    BY <1>13 DEF ToSet
  <2>2. PICK k \in 1..n : m \in ToSet(ss[k])
    BY <1>12, <2>1
  <2>3. PICK f \in p.files \cap DOMAIN left : ss[k] = found(f)
    BY <1>6, <1>10, <1>11
  <2>4. PICK j \in DOMAIN left[f][p.name] : m = found(f)[j]
    BY <2>2, <2>3 DEF ToSet, found
  <2> QED
    BY <1>9, <2>4
<1>15. ms \in Seq(ToSet(ms)) /\ Len(ms) \in Nat
  BY <1>13, SeqList DEF ListOf
<1> QED
  BY <1>14, <1>15

\* How many cells a column has in a row.
Wide(s, col) == IF IsPattern(s, col) THEN Width(Pattern(s, col.source)) ELSE 1

\* The width of a pattern is a number.
LEMMA WidthIs ==
  ASSUME NEW s \in DOMAIN Blocks, NEW p \in ToSet(Blocks[s].patterns)
  PROVE  /\ ListOf(p.kinds, Len(p.kinds)) /\ Len(p.kinds) \in Nat /\ DOMAIN p.kinds = 1..Len(p.kinds)
         /\ Width(p) \in Nat
<1>1. PICK kinds : kinds = p.kinds
  OBVIOUS
<1>2. kinds \in Seq(ToSet(kinds))
  BY <1>1, BlockAssumption
<1>3. ListOf(kinds, Len(kinds)) /\ Len(kinds) \in Nat /\ DOMAIN kinds = 1..Len(kinds)
  BY <1>2, SeqList
<1>4. PICK n, l \in Nat : n = (IF p.regex THEN 1 ELSE 0) /\ l = Len(kinds)
  BY <1>3
<1>5. Width(p) \in Nat
  <2>1. Width(p) = n + l /\ n \in Nat
    BY <1>1, <1>4 DEF Width
  <2> QED
    BY <2>1
<1> QED
  BY <1>1, <1>3, <1>5

\* A column has a title for each of its cells.
LEMMA ColumnWidth ==
  ASSUME NEW s \in DOMAIN Blocks, NEW col
  PROVE  ListOf(ColumnHeader(s, col), Wide(s, col)) /\ Wide(s, col) \in Nat
<1>1. CASE ~IsPattern(s, col)
  <2>1. PICK t : t = <<col.title>>
    OBVIOUS
  <2>2. ListOf(t, 1)
    BY <2>1 DEF ListOf, ToSet
  <2>3. ColumnHeader(s, col) = t /\ Wide(s, col) = 1
    BY <1>1, <2>1 DEF ColumnHeader, Wide
  <2> QED
    BY <2>2, <2>3
<1>2. CASE IsPattern(s, col)
  <2>1. PICK p \in ToSet(Blocks[s].patterns) : p = Pattern(s, col.source)
    BY <1>2, PatternKnown DEF IsPattern
  <2>2. PICK kinds : kinds = p.kinds
    OBVIOUS
  <2>3. PICK l \in Nat : l = Len(kinds) /\ DOMAIN kinds = 1..l
    BY <2>2, WidthIs
  <2>4. PICK n \in Nat : n = IF p.regex THEN 1 ELSE 0
    OBVIOUS
  <2>5. PICK a : a = IF p.regex THEN <<col.title \o ".file">> ELSE <<>>
    OBVIOUS
  <2>6. PICK b : b = IF l = 1 THEN <<col.title>> ELSE [k \in 1..l |-> col.title \o "." \o ToString(k - 1)]
    OBVIOUS
  <2>7. ColumnHeader(s, col) = a \o b
    BY <1>2, <2>1, <2>2, <2>3, <2>5, <2>6 DEF ColumnHeader
  <2>8. ListOf(a, n)
    <3>1. PICK x : x = col.title \o ".file"
      OBVIOUS
    <3>2. a = IF p.regex THEN <<x>> ELSE <<>>
      BY <2>5, <3>1
    <3>3. a = [k \in 1..n |-> a[k]]
      BY <2>4, <3>2
    <3> QED
      BY <3>3, FirstNumbers
  <2>9. ListOf(b, l)
    <3>1. PICK x, f : x = col.title /\ f = [k \in 1..l |-> col.title \o "." \o ToString(k - 1)]
      OBVIOUS
    <3>2. f = [k \in 1..l |-> f[k]]
      BY <3>1
    <3>3. b = IF l = 1 THEN <<x>> ELSE f
      BY <2>6, <3>1
    <3>4. b = [k \in 1..l |-> b[k]]
      BY <3>2, <3>3, SMTT(30), ZenonT(30)
    <3> QED
      BY <3>4, FirstNumbers
  <2>10. ListOf(a \o b, n + l)
    BY <2>8, <2>9, JoinedLists DEF Joins
  <2>11. Wide(s, col) = n + l
    BY <1>2, <2>1, <2>2, <2>3, <2>4 DEF Wide, Width
  <2> QED
    BY <2>7, <2>10, <2>11
<1> QED
  BY <1>1, <1>2

\* The k-th match of a pattern, or missing cells.
MatchOrNone(s, col, left, k) ==
  LET ms == Matches(Pattern(s, col.source), left) IN
  IF k <= Len(ms) THEN ms[k] ELSE [h \in DOMAIN ColumnHeader(s, col) |-> Missing]

\* A column has as many cells in every row.
LEMMA CellsWidth ==
  ASSUME NEW s \in DOMAIN Blocks, NEW col, NEW w, NEW left \in Contents[s], NEW k \in Nat \ {0}
  PROVE  /\ ListOf(ColumnCells(s, col, w, left, k), Wide(s, col))
         /\ IsPattern(s, col) => ColumnCells(s, col, w, left, k) = MatchOrNone(s, col, left, k)
         /\ ~IsPattern(s, col) /\ col.source \in DOMAIN w.values =>
              ColumnCells(s, col, w, left, k)[1].text = Text[w.values[col.source]]
<1>1. PICK cells : cells = ColumnCells(s, col, w, left, k)
  OBVIOUS
<1>2. CASE ~IsPattern(s, col)
  <2>1. PICK x : x = IF col.source \in DOMAIN w.values
                     THEN [kind |-> WorkValueKind(s, col.source), text |-> Text[w.values[col.source]]]
                     ELSE Missing
    OBVIOUS
  <2>2. cells = <<x>>
    BY <1>1, <1>2, <2>1 DEF ColumnCells
  <2>3. ListOf(cells, 1) /\ cells[1] = x
    BY <2>2 DEF ListOf, ToSet
  <2>4. col.source \in DOMAIN w.values => x.text = Text[w.values[col.source]]
    BY <2>1
  <2> QED
    BY <1>1, <1>2, <2>3, <2>4 DEF Wide
<1>3. CASE IsPattern(s, col)
  <2>1. PICK p \in ToSet(Blocks[s].patterns) : p = Pattern(s, col.source)
    BY <1>3, PatternKnown DEF IsPattern
  <2>2. PICK ms : ms = Matches(p, left)
    OBVIOUS
  <2>3. ms \in Seq(ToSet(ms)) /\ Len(ms) \in Nat /\ \A m \in ToSet(ms) : ListOf(m, Width(p))
    BY <2>2, MatchesAre
  <2>4. PICK n \in Nat : n = Width(p) /\ Wide(s, col) = n
    BY <1>3, <2>1, WidthIs DEF Wide
  <2>5. PICK none : none = [g \in DOMAIN ColumnKinds(s, col) |-> Missing]
    OBVIOUS
  <2>6. DOMAIN ColumnKinds(s, col) = 1..n
    <3>1. PICK kinds : kinds = p.kinds
      OBVIOUS
    <3>2. PICK l \in Nat : l = Len(kinds) /\ DOMAIN kinds = 1..l /\ ListOf(kinds, l)
      BY <3>1, WidthIs
    <3>3. CASE p.regex
      <4>1. ListOf(<<"string">>, 1)
        BY DEF ListOf, ToSet
      <4>2. ListOf(<<"string">> \o kinds, 1 + l)
        BY <3>2, <4>1, JoinedLists DEF Joins
      <4>3. PICK t : t = <<"string">> \o kinds
        OBVIOUS
      <4>4. DOMAIN t = 1..(1 + l)
        BY <4>2, <4>3, SeqList DEF ListOf
      <4>5. ColumnKinds(s, col) = t
        BY <1>3, <2>1, <3>1, <3>3, <4>3 DEF ColumnKinds
      <4>6. n = 1 + l
        BY <2>4, <3>1, <3>2, <3>3 DEF Width
      <4> QED
        BY <4>4, <4>5, <4>6
    <3>4. CASE ~p.regex
      <4>1. ColumnKinds(s, col) = kinds
        BY <1>3, <2>1, <3>1, <3>4 DEF ColumnKinds
      <4>2. n = l
        BY <2>4, <3>1, <3>2, <3>4 DEF Width
      <4> QED
        BY <3>2, <4>1, <4>2
    <3> QED
      BY <3>3, <3>4
  <2>7. ListOf(none, n)
    <3>1. none = [g \in 1..n |-> none[g]]
      BY <2>5, <2>6
    <3> QED
      BY <3>1, FirstNumbers
  <2>8. none = [h \in DOMAIN ColumnHeader(s, col) |-> Missing]
    <3>1. PICK header : header = ColumnHeader(s, col)
      OBVIOUS
    <3>2. ListOf(header, n)
      BY <2>4, <3>1, ColumnWidth
    <3>3. DOMAIN header = 1..n
      BY <3>2, SeqList DEF ListOf
    <3> QED
      BY <2>5, <2>6, <3>1, <3>3
  <2>9. cells = IF k <= Len(ms) THEN ms[k] ELSE none
    BY <1>1, <1>3, <2>1, <2>2, <2>5 DEF ColumnCells
  <2>10. ListOf(cells, n)
    <3>1. CASE k <= Len(ms)
      <4>1. k \in DOMAIN ms
        BY <2>3, <3>1
      <4>2. ms[k] \in ToSet(ms)
        BY <4>1 DEF ToSet
      <4> QED
        BY <2>3, <2>4, <2>9, <3>1, <4>2
    <3>2. CASE ~(k <= Len(ms))
      BY <2>7, <2>9, <3>2
    <3> QED
      BY <3>1, <3>2
  <2> QED
    BY <1>1, <1>3, <2>1, <2>2, <2>4, <2>8, <2>9, <2>10 DEF MatchOrNone
<1> QED
  BY <1>2, <1>3

\* The cells of a pattern are one of its matches.
LEMMA PatternCells ==
  ASSUME NEW s \in DOMAIN Blocks, NEW col, IsPattern(s, col), NEW w, NEW left \in Contents[s],
         NEW k \in Nat \ {0}
  PROVE  ColumnCells(s, col, w, left, k) = MatchOrNone(s, col, left, k)
BY CellsWidth

-----------------------------------------------------------------------------
(***************************************************************************)
(* The rows of a workpackage.                                              *)
(***************************************************************************)
\* The cells of the k-th column stand behind 1 + at[k - 1] in a row.
RowPlaces(s, cols, n, at) ==
  /\ at \in [0..n -> Nat] /\ at[0] = 0
  /\ \A k \in 1..n : /\ at[k] = at[k - 1] + Wide(s, cols[k])
                     /\ Offset(s, k) = 1 + at[k - 1]
                     /\ at[k] <= at[n]
  /\ ListOf(PlanHeader(s), 1 + at[n])

\* The titles of a table are those of its columns, and every column has its
\* place.
LEMMA HeaderPlaces ==
  ASSUME NEW s \in DOMAIN Blocks, NEW cols, cols = Blocks[s].columns
  PROVE  /\ Len(cols) \in Nat /\ DOMAIN cols = 1..Len(cols)
         /\ \E at : RowPlaces(s, cols, Len(cols), at)
<1>1. cols \in Seq(ToSet(cols))
  BY BlockAssumption
<1>2. PICK n \in Nat : n = Len(cols) /\ DOMAIN cols = 1..n
  BY <1>1
<1>3. PICK hh : hh = [k \in 1..n |-> ColumnHeader(s, cols[k])]
  OBVIOUS
<1>4. PICK B : B = UNION {ToSet(hh[k]) : k \in 1..n}
  OBVIOUS
<1>5. /\ \A k \in 1..n : Len(hh[k]) = Wide(s, cols[k]) /\ Wide(s, cols[k]) \in Nat
      /\ \A k \in 1..n : hh[k] \in Seq(ToSet(hh[k])) /\ ToSet(hh[k]) \subseteq B
  <2>1. ASSUME NEW k \in 1..n
        PROVE  /\ Len(hh[k]) = Wide(s, cols[k]) /\ Wide(s, cols[k]) \in Nat
               /\ hh[k] \in Seq(ToSet(hh[k])) /\ ToSet(hh[k]) \subseteq B
    <3>1. ListOf(hh[k], Wide(s, cols[k])) /\ Wide(s, cols[k]) \in Nat
      <4>1. hh[k] = ColumnHeader(s, cols[k])
        BY <1>3
      <4> QED
        BY <4>1, ColumnWidth
    <3>2. ToSet(hh[k]) \subseteq B
      BY <1>4
    <3> QED
      BY <3>1, <3>2 DEF ListOf
  <2> QED
    BY <2>1
<1>6. hh \in Seq(Seq(B)) /\ Len(hh) = n
  <2>1. hh = [k \in 1..n |-> hh[k]]
    BY <1>3
  <2> QED
    BY <1>5, <2>1, ListsList, Zenon
<1>7. PICK f : f = FlattenSeq(hh)
  OBVIOUS
<1>8. PICK at : Stretched(at, hh, n, f)
  BY <1>6, <1>7, FlatStretches
<1>9. /\ at \in [0..n -> Nat] /\ at[0] = 0 /\ Len(f) = at[n]
      /\ \A k \in 1..n : at[k] = at[k - 1] + Len(hh[k])
      /\ \A j, k \in 0..n : j <= k => at[j] <= at[k]
  BY <1>8 DEF Stretched
<1>10. ASSUME NEW k \in 1..n PROVE Offset(s, k) = 1 + at[k - 1]
  <2>1. PICK m \in Nat : m = k - 1 /\ m <= n
    OBVIOUS
  <2>2. PICK pp : pp = [j \in 1..m |-> ColumnHeader(s, cols[j])]
    OBVIOUS
  <2>3. \A j \in 1..m : j \in 1..n /\ pp[j] = hh[j]
    BY <1>3, <2>1, <2>2
  <2>4. pp \in Seq(Seq(B)) /\ Len(pp) = m
    <3>1. pp = [j \in 1..m |-> pp[j]]
      BY <2>2
    <3>2. \A j \in 1..m : pp[j] \in Seq(ToSet(pp[j])) /\ ToSet(pp[j]) \subseteq B
      BY <1>5, <2>3
    <3> QED
      BY <3>1, <3>2, ListsList, Zenon
  <2>5. PICK g : g = FlattenSeq(pp)
    OBVIOUS
  <2>6. PICK to : Stretched(to, pp, m, g)
    BY <2>4, <2>5, FlatStretches
  <2>7. \A j \in 1..m : Len(pp[j]) = Len(hh[j])
    BY <2>3
  <2>8. to[m] = at[m]
    BY <1>8, <2>1, <2>6, <2>7, SameStretches
  <2>9. Len(g) = to[m]
    BY <2>6 DEF Stretched
  <2>10. Offset(s, k) = 1 + Len(g)
    BY <2>1, <2>2, <2>5 DEF Offset
  <2> QED
    BY <2>1, <2>8, <2>9, <2>10
<1>11. ListOf(PlanHeader(s), 1 + at[n])
  <2>1. PICK h, l : h = <<"run_id">> /\ l = at[n]
    OBVIOUS
  <2>2. ListOf(h, 1)
    BY <2>1 DEF ListOf, ToSet
  <2>3. f \in Seq(B)
    BY <1>6, <1>7, FlatIn
  <2>4. ListOf(f, l) /\ l \in Nat
    BY <1>9, <2>1, <2>3, SeqList
  <2>5. ListOf(h \o f, 1 + l)
    BY <2>2, <2>4, JoinedLists DEF Joins
  <2>6. PlanHeader(s) = h \o f
    BY <1>2, <1>3, <1>7, <2>1 DEF PlanHeader
  <2> QED
    BY <2>1, <2>5, <2>6
<1>12. \A k \in 1..n : at[k] = at[k - 1] + Wide(s, cols[k]) /\ at[k] <= at[n]
  <2>1. ASSUME NEW k \in 1..n PROVE at[k] = at[k - 1] + Wide(s, cols[k]) /\ at[k] <= at[n]
    <3>1. k \in 0..n /\ n \in 0..n /\ k <= n
      OBVIOUS
    <3> QED
      BY <1>5, <1>9, <3>1
  <2> QED
    BY <2>1
<1>13. RowPlaces(s, cols, n, at)
  BY <1>9, <1>10, <1>11, <1>12 DEF RowPlaces
<1> QED
  BY <1>2, <1>13

\* Where the cells of a column are found.
LEMMA CellsAre ==
  ASSUME NEW s \in DOMAIN Blocks, NEW cols, cols = Blocks[s].columns, NEW n \in Nat, NEW at,
         RowPlaces(s, cols, n, at), NEW c \in 1..n,
         NEW l \in Nat, NEW row, ListOf(row, l), 1 + at[n] <= l,
         NEW u, ListOf(u, Wide(s, cols[c])), \A i \in 1..Wide(s, cols[c]) : row[1 + at[c - 1] + i] = u[i]
  PROVE  CellsOf(s, c, row) = u
<1>1. PICK w \in Nat : w = Wide(s, cols[c])
  BY ColumnWidth
<1>2. PICK a \in Nat : a = 1 + at[c - 1]
  <2>1. c - 1 \in 0..n
    OBVIOUS
  <2>2. PICK b \in Nat : b = at[c - 1]
    BY <2>1 DEF RowPlaces
  <2> QED
    BY <2>2
<1>3. a + w <= l
  <2>1. PICK b, x, y \in Nat : b = at[c - 1] /\ x = at[c] /\ y = at[n]
    <3>1. c - 1 \in 0..n /\ c \in 0..n /\ n \in 0..n
      OBVIOUS
    <3> QED
      BY <3>1 DEF RowPlaces
  <2>2. x = b + w /\ x <= y
    BY <1>1, <2>1 DEF RowPlaces
  <2> QED
    BY <1>2, <2>1, <2>2
<1>4. Offset(s, c) = a
  BY <1>2 DEF RowPlaces
<1>5. Len(ColumnHeader(s, cols[c])) = w
  BY <1>1, ColumnWidth DEF ListOf
<1>6. CellsOf(s, c, row) = SubSeq(row, a + 1, a + w)
  BY <1>4, <1>5 DEF CellsOf
<1>7. \A i \in 1..w : row[a + i] = u[i]
  BY <1>1, <1>2
<1>8. u \in Seq(ToSet(u)) /\ Len(u) = w /\ row \in Seq(ToSet(row)) /\ Len(row) = l
  BY <1>1 DEF ListOf
<1>9. u = [i \in 1..w |-> u[i]]
  BY <1>8
<1>10. SubSeq(row, a + 1, a + w) = [i \in 1..w |-> row[a + i]]
  BY <1>3, <1>8
<1> QED
  BY <1>6, <1>7, <1>9, <1>10

\* There are as many rows as the pattern with most matches has.
LEMMA CountIs ==
  ASSUME NEW s \in DOMAIN Blocks, NEW left \in Contents[s]
  PROVE  /\ RowCount(s, left) \in Nat
         /\ \A col \in ToSet(Blocks[s].columns) : IsPattern(s, col) =>
              Len(Matches(Pattern(s, col.source), left)) <= RowCount(s, left)
<1>1. PICK cols : cols = Blocks[s].columns /\ cols \in Seq(ToSet(cols))
  BY BlockAssumption
<1>2. PICK n \in Nat : n = Len(cols) /\ DOMAIN cols = 1..n
  BY <1>1
<1>3. PICK of : of = [p \in ToSet(Blocks[s].patterns) |-> Len(Matches(p, left))]
  OBVIOUS
<1>4. \A p \in ToSet(Blocks[s].patterns) : of[p] = Len(Matches(p, left)) /\ of[p] \in Nat
  BY <1>3, MatchesAre
<1>5. PICK sel : sel = SelectedPatterns(s)
  OBVIOUS
<1>6. sel \subseteq ToSet(Blocks[s].patterns)
  BY <1>5, PatternKnown DEF SelectedPatterns, IsPattern
<1>7. \A col \in ToSet(cols) : IsPattern(s, col) => Pattern(s, col.source) \in sel
  BY <1>1, <1>5 DEF SelectedPatterns
<1>8. CASE sel = {}
  <2>1. RowCount(s, left) = 1
    BY <1>5, <1>8 DEF RowCount
  <2> QED
    BY <1>1, <1>7, <1>8, <2>1
<1>9. CASE sel # {}
  <2>1. PICK f : f = [k \in 1..n |-> IF IsPattern(s, cols[k]) THEN of[Pattern(s, cols[k].source)] ELSE 0]
    OBVIOUS
  <2>2. \A k \in 1..n : f[k] \in Nat
    <3>1. ASSUME NEW k \in 1..n PROVE f[k] \in Nat
      <4>1. cols[k] \in ToSet(cols)
        BY <1>2 DEF ToSet
      <4>2. CASE IsPattern(s, cols[k])
        <5>1. Pattern(s, cols[k].source) \in ToSet(Blocks[s].patterns)
          BY <1>6, <1>7, <4>1, <4>2
        <5> QED
          BY <1>4, <2>1, <4>2, <5>1
      <4>3. CASE ~IsPattern(s, cols[k])
        BY <2>1, <4>3
      <4> QED
        BY <4>2, <4>3
    <3> QED
      BY <3>1
  <2>3. \A p \in sel : \E k \in 1..n : f[k] = of[p]
    <3>1. ASSUME NEW p \in sel PROVE \E k \in 1..n : f[k] = of[p]
      <4>1. PICK col \in ToSet(cols) : IsPattern(s, col) /\ p = Pattern(s, col.source)
        BY <1>1, <1>5 DEF SelectedPatterns
      <4>2. PICK k \in 1..n : cols[k] = col
        BY <1>2, <4>1 DEF ToSet
      <4> QED
        BY <2>1, <4>1, <4>2
    <3> QED
      BY <3>1
  <2>4. PICK b \in Nat : \A k \in 1..n : f[k] <= b
    <3>1. n # 0
      BY <1>9, <2>3
    <3>2. HasGreatest(f, n)
      BY <2>2, <3>1, Greatest
    <3> QED
      BY <2>2, <3>2 DEF HasGreatest
  <2>5. PICK counts : counts = {of[p] : p \in sel}
    OBVIOUS
  <2>6. counts # {} /\ \A x \in counts : x \in Nat /\ x <= b
    BY <1>4, <1>6, <1>9, <2>3, <2>4, <2>5
  <2> DEFINE T == {y \in 0..b : b - y \in counts}
  <2>7. T # {} /\ T \subseteq Nat
    <3>1. PICK x \in counts : x \in Nat /\ x <= b
      BY <2>6
    <3>2. PICK y \in 0..b : y = b - x /\ b - y = x
      BY <3>1
    <3>3. b - y \in counts
      BY <3>2
    <3>4. y \in T
      BY <3>3
    <3>5. T \subseteq Nat
      OBVIOUS
    <3> QED
      BY <3>4, <3>5
  <2>8. PICK y \in T : \A z \in T : y <= z
    BY <2>7, Least
  <2>9. ASSUME NEW x \in counts PROVE b - y >= x
    <3>1. x \in Nat /\ x <= b
      BY <2>6
    <3>2. PICK z \in 0..b : z = b - x /\ b - z = x
      BY <3>1
    <3>3. y <= z /\ y \in Nat
      BY <2>7, <2>8, <3>2
    <3> QED
      BY <3>1, <3>2, <3>3
  <2>10. PICK m \in counts : m = Max(counts) /\ \A x \in counts : m >= x
    <3>1. \E m \in counts : \A x \in counts : m >= x
      BY <2>8, <2>9
    <3> QED
      BY <3>1, Zenon DEF Max
  <2>11. RowCount(s, left) = m
    <3>1. counts = {Len(Matches(p, left)) : p \in SelectedPatterns(s)}
      BY <1>4, <1>5, <1>6, <2>5
    <3> QED
      BY <1>5, <1>9, <2>10, <3>1 DEF RowCount
  <2>12. ASSUME NEW col \in ToSet(cols), IsPattern(s, col)
         PROVE  Len(Matches(Pattern(s, col.source), left)) <= m
    <3>1. PICK p \in sel : p = Pattern(s, col.source)
      BY <1>7, <2>12
    <3>2. of[p] \in counts /\ of[p] = Len(Matches(p, left)) /\ of[p] \in Nat
      BY <1>4, <1>6, <2>5
    <3>3. m >= of[p] /\ m \in Nat
      BY <2>6, <2>10, <3>2
    <3> QED
      BY <3>1, <3>2, <3>3
  <2> QED
    BY <1>1, <2>6, <2>10, <2>11, <2>12
<1> QED
  BY <1>8, <1>9

\* Every row of a finished workpackage has its run id and the cells of every
\* column in their place.
LEMMA WorkRowsAre ==
  ASSUME NEW s \in DOMAIN Blocks, NEW cols, cols = Blocks[s].columns, NEW n \in Nat, n = Len(cols),
         NEW at, RowPlaces(s, cols, n, at), NEW w, NEW left \in Contents[s],
         NEW k \in 1..RowCount(s, left)
  PROVE  LET row == WorkRows(s, w, left)[k] IN
         /\ ListOf(row, 1 + at[n]) /\ row[1] = TextCell(RowDir(w.row))
         /\ \A c \in 1..n : \A i \in 1..Wide(s, cols[c]) :
              row[1 + at[c - 1] + i] = ColumnCells(s, cols[c], w, left, k)[i]
<1>1. DOMAIN cols = 1..n
  BY HeaderPlaces
<1>2. PICK cc : cc = [c \in 1..n |-> ColumnCells(s, cols[c], w, left, k)]
  OBVIOUS
<1>3. PICK B : B = UNION {ToSet(cc[c]) : c \in 1..n}
  OBVIOUS
<1>4. k \in Nat \ {0}
  BY CountIs
<1>5. ASSUME NEW c \in 1..n
      PROVE  /\ cc[c] = ColumnCells(s, cols[c], w, left, k) /\ Len(cc[c]) = Wide(s, cols[c])
             /\ cc[c] \in Seq(ToSet(cc[c])) /\ ToSet(cc[c]) \subseteq B
  <2>1. cc[c] = ColumnCells(s, cols[c], w, left, k)
    BY <1>2
  <2>2. ListOf(cc[c], Wide(s, cols[c]))
    <3>1. PICK q \in Nat \ {0} : q = k
      BY <1>4
    <3>2. ListOf(ColumnCells(s, cols[c], w, left, q), Wide(s, cols[c]))
      BY CellsWidth
    <3> QED
      BY <2>1, <3>1, <3>2
  <2>3. ToSet(cc[c]) \subseteq B
    BY <1>3
  <2> QED
    BY <2>1, <2>2, <2>3 DEF ListOf
<1>6. cc \in Seq(Seq(B)) /\ Len(cc) = n
  <2>1. cc = [c \in 1..n |-> cc[c]]
    BY <1>2
  <2> QED
    BY <1>5, <2>1, ListsList, Zenon
<1>7. PICK f : f = FlattenSeq(cc)
  OBVIOUS
<1>8. PICK to : Stretched(to, cc, n, f)
  BY <1>6, <1>7, FlatStretches
<1>9. /\ to \in [0..n -> Nat] /\ to[0] = 0 /\ Len(f) = to[n]
      /\ \A c \in 1..n : to[c] = to[c - 1] + Len(cc[c])
      /\ \A j, c \in 0..n : j <= c => to[j] <= to[c]
      /\ \A c \in 1..n : \A i \in 1..Len(cc[c]) : f[to[c - 1] + i] = cc[c][i]
  BY <1>8 DEF Stretched
<1>10. \A c \in 0..n : to[c] = at[c]
  <2> DEFINE T == {c \in 0..n : to[c] # at[c]}
  <2>1. ASSUME T # {} PROVE FALSE
    <3>1. T \subseteq Nat
      OBVIOUS
    <3>2. PICK c \in T : \A j \in T : c <= j
      BY <2>1, <3>1, Least
    <3>3. at[0] = 0 /\ to[0] = 0
      BY <1>9 DEF RowPlaces
    <3>4. c # 0 /\ c \in 1..n /\ c - 1 \in 0..n /\ c - 1 \notin T
      BY <3>1, <3>2, <3>3
    <3>5. to[c - 1] = at[c - 1]
      BY <3>4
    <3>6. at[c] = at[c - 1] + Wide(s, cols[c])
      BY <3>4 DEF RowPlaces
    <3>7. to[c] = to[c - 1] + Wide(s, cols[c])
      BY <1>5, <1>9, <3>4
    <3> QED
      BY <3>2, <3>5, <3>6, <3>7
  <2> QED
    BY <2>1
<1>11. PICK h, x, l : h = <<x>> /\ x = TextCell(RowDir(w.row)) /\ l = at[n]
  OBVIOUS
<1>12. ListOf(h, 1) /\ h[1] = x
  BY <1>11 DEF ListOf, ToSet
<1>13. ListOf(f, l) /\ l \in Nat
  <2>1. f \in Seq(B)
    BY <1>6, <1>7, FlatIn
  <2>2. Len(f) = l
    BY <1>9, <1>10, <1>11
  <2> QED
    BY <2>1, <2>2, SeqList
<1>14. PICK row : row = h \o f
  OBVIOUS
<1>15. ListOf(row, 1 + l) /\ row[1] = x /\ \A i \in 1..l : row[1 + i] = f[i]
  <2>1. PICK o \in Nat : o = 1 /\ 1 \in 1..o
    OBVIOUS
  <2>2. ListOf(h, o) /\ ListOf(f, l) /\ l \in Nat
    BY <1>12, <1>13, <2>1
  <2>3. Joins(row, h, o, f, l)
    BY <1>14, <2>2, JoinedLists
  <2> QED
    BY <1>12, <2>1, <2>3 DEF Joins
<1>16. WorkRows(s, w, left)[k] = row
  BY <1>1, <1>2, <1>7, <1>11, <1>14 DEF WorkRows
<1>17. ASSUME NEW c \in 1..n, NEW i \in 1..Wide(s, cols[c])
       PROVE  row[1 + at[c - 1] + i] = ColumnCells(s, cols[c], w, left, k)[i]
  <2>1. PICK v \in Nat : v = Wide(s, cols[c])
    BY ColumnWidth
  <2>2. PICK a, b \in Nat : a = to[c - 1] /\ b = to[c]
    <3>1. c \in 0..n /\ c - 1 \in 0..n
      OBVIOUS
    <3> QED
      BY <1>9, <3>1
  <2>3. c \in 0..n /\ n \in 0..n /\ c <= n /\ c - 1 \in 0..n
    OBVIOUS
  <2>4. b = a + v /\ b <= l
    <3>1. b <= to[n]
      BY <1>9, <2>2, <2>3
    <3>2. to[n] = l
      BY <1>10, <1>11, <2>3
    <3>3. to[c] = to[c - 1] + Len(cc[c]) /\ Len(cc[c]) = v
      BY <1>5, <1>9, <2>1
    <3> QED
      BY <2>2, <3>1, <3>2, <3>3
  <2>5. i \in 1..v /\ a + i \in 1..l
    BY <1>13, <2>1, <2>2, <2>4, SMTT(30), ZenonT(30)
  <2>6. f[a + i] = cc[c][i]
    BY <1>5, <1>9, <2>1, <2>2, <2>5
  <2>7. row[1 + (a + i)] = f[a + i]
    BY <1>15, <2>5
  <2>8. 1 + at[c - 1] + i = 1 + (a + i)
    <3>1. at[c - 1] = a
      BY <1>10, <2>2, <2>3
    <3>2. i \in Nat
      BY <2>1, <2>5
    <3> QED
      BY <2>2, <3>1, <3>2
  <2> QED
    BY <1>5, <2>6, <2>7, <2>8
<1> QED
  BY <1>11, <1>15, <1>16, <1>17

\* One element is a sequence.
LEMMA OneList ==
  ASSUME NEW x
  PROVE  ListOf(<<x>>, 1) /\ <<x>>[1] = x
BY DEF ListOf, ToSet

\* The column --weak adds.
Extra == IF weak THEN 1 ELSE 0

\* The n elements of a row and the status that --weak adds.
WithStatus(t, a, n, x) ==
  /\ ListOf(t, n + Extra) /\ \A i \in 1..n : t[i] = a[i]
  /\ weak => t[n + 1] = x

\* A row, and the status that --weak adds.
LEMMA StatusAdded ==
  ASSUME NEW n \in Nat, NEW a, ListOf(a, n), NEW x, NEW b, b = IF weak THEN <<x>> ELSE <<>>,
         NEW t, t = a \o b
  PROVE  WithStatus(t, a, n, x)
<1>1. PICK m \in Nat : m = Extra
  BY DEF Extra
<1>2. ListOf(b, m) /\ (weak => m = 1 /\ b[1] = x)
  <2>1. CASE weak
    <3>1. b = <<x>> /\ m = 1
      BY <1>1, <2>1 DEF Extra
    <3> QED
      BY <3>1, OneList
  <2>2. CASE ~weak
    <3>1. b = <<>> /\ m = 0
      BY <1>1, <2>2 DEF Extra
    <3>2. b = [i \in 1..m |-> b[i]]
      BY <3>1
    <3> QED
      BY <2>2, <3>2, FirstNumbers
  <2> QED
    BY <2>1, <2>2
<1>3. Joins(t, a, n, b, m)
  BY <1>2, JoinedLists
<1>4. weak => t[n + 1] = x
  <2>1. ASSUME weak PROVE t[n + 1] = x
    <3>1. 1 \in 1..m /\ b[1] = x
      BY <1>2, <2>1
    <3> QED
      BY <1>3, <3>1 DEF Joins
  <2> QED
    BY <2>1
<1> QED
  BY <1>1, <1>3, <1>4 DEF Joins, WithStatus

\* The titles of a table, with the one --weak adds.
LEMMA OutputWidth ==
  ASSUME NEW s, NEW l \in Nat, ListOf(PlanHeader(s), l)
  PROVE  Len(OutputHeader(s)) = l + Extra
<1>1. PICK a, b : a = PlanHeader(s) /\ b = IF weak THEN <<"jbs_status">> ELSE <<>>
  OBVIOUS
<1>2. PICK t : t = a \o b
  OBVIOUS
<1>3. ListOf(t, l + Extra)
  BY <1>1, <1>2, StatusAdded DEF WithStatus
<1>4. OutputHeader(s) = t
  BY <1>1, <1>2 DEF OutputHeader
<1> QED
  BY <1>3, <1>4 DEF ListOf

\* The rows of the k-th workpackage are those it must have.
RowsSound(s, k) ==
  LET rows == RowsOf(s, k) IN
  /\ rows \in Seq(ToSet(rows))
  /\ \A r \in ToSet(rows) : /\ ListOf(r, Len(OutputHeader(s)))
                            /\ r[1].text = RowDir(manifest.work[k].row)
                            /\ weak => r[Len(r)].text = outcome[k]
  /\ IF outcome[k] = "FINISHED" THEN FinishedComplete(s, k, rows)
     ELSE StatusOnly(rows, Len(OutputHeader(s)))

\* A workpackage that has not finished has one row, with its status.
LEMMA UnfinishedRows ==
  ASSUME NEW s \in DOMAIN Blocks, NEW k, outcome[k] # "FINISHED", weak
  PROVE  RowsSound(s, k)
<1>1. PICK cols : cols = Blocks[s].columns
  OBVIOUS
<1>n. PICK n \in Nat : n = Len(cols)
  BY <1>1, HeaderPlaces
<1>2. PICK at : n = Len(cols) /\ RowPlaces(s, cols, n, at)
  BY <1>1, <1>n, HeaderPlaces
<1>3. PICK m \in Nat : m = at[n] /\ ListOf(PlanHeader(s), 1 + m)
  <2>1. n \in 0..n
    OBVIOUS
  <2> QED
    BY <1>2, <2>1 DEF RowPlaces
<1>4. PICK x, y : x = TextCell(RowDir(manifest.work[k].row)) /\ y = TextCell(outcome[k])
  OBVIOUS
<1>5. PICK a, b, c : a = <<x>> /\ b = [h \in 1..m |-> Missing] /\ c = <<y>>
  OBVIOUS
<1>6. PICK one \in Nat : one = 1
  OBVIOUS
<1>7. ListOf(a, one) /\ a[1] = x /\ ListOf(c, one) /\ c[1] = y
  BY <1>5, <1>6, OneList
<1>8. ListOf(b, m) /\ \A h \in 1..m : b[h] = Missing
  <2>1. b = [h \in 1..m |-> b[h]]
    BY <1>5
  <2> QED
    BY <1>5, <2>1, FirstNumbers
<1>9. PICK d : d = a \o b
  OBVIOUS
<1>10. PICK l \in Nat : l = one + m
  OBVIOUS
<1>11. Joins(d, a, one, b, m) /\ ListOf(d, l)
  <2>1. Joins(d, a, one, b, m)
    BY <1>7, <1>8, <1>9, <1>10, JoinedLists
  <2> QED
    BY <1>9, <1>10, <2>1 DEF Joins
<1>12. PICK row : row = d \o c
  OBVIOUS
<1>13. Joins(row, d, l, c, one)
  BY <1>7, <1>9, <1>10, <1>11, <1>12, JoinedLists
<1>14. Len(PlanHeader(s)) - 1 = m
  BY <1>3 DEF ListOf
<1>15. row = WeakMissingRow(s, k)
  BY <1>4, <1>5, <1>9, <1>10, <1>12, <1>14 DEF WeakMissingRow
<1>16. PICK rows : rows = <<row>>
  OBVIOUS
<1>17. RowsOf(s, k) = rows
  BY <1>15, <1>16 DEF RowsOf
<1>18. rows \in Seq(ToSet(rows)) /\ Len(rows) = 1 /\ rows[1] = row /\ \A r \in ToSet(rows) : r = row
  BY <1>16 DEF ToSet
<1>19. Len(OutputHeader(s)) = l + 1
  <2>1. ListOf(PlanHeader(s), l)
    BY <1>3, <1>6, <1>9, <1>10
  <2>2. Len(OutputHeader(s)) = l + Extra
    BY <1>9, <1>10, <2>1, OutputWidth
  <2> QED
    BY <2>2 DEF Extra
<1>20. ListOf(row, l + 1)
  BY <1>6, <1>13 DEF Joins
<1>21. row[1] = x
  <2>1. 1 \in 1..l /\ 1 \in 1..one
    BY <1>6, <1>9, <1>10
  <2> QED
    BY <1>7, <1>11, <1>13, <2>1 DEF Joins
<1>22. row[Len(row)] = y
  <2>1. Len(row) = l + 1 /\ 1 \in 1..one
    BY <1>6, <1>20 DEF ListOf
  <2> QED
    BY <1>7, <1>13, <2>1 DEF Joins
<1>23. \A h \in 2..(Len(OutputHeader(s)) - 1) : row[h] = Missing
  <2>1. ASSUME NEW h \in 2..(Len(OutputHeader(s)) - 1) PROVE row[h] = Missing
    <3>1. h \in 1..l /\ h - 1 \in 1..m /\ one + (h - 1) = h
      BY <1>6, <1>9, <1>10, <1>19, <2>1
    <3>2. row[h] = d[h]
      BY <1>13, <3>1 DEF Joins
    <3>3. d[one + (h - 1)] = b[h - 1]
      BY <1>11, <3>1 DEF Joins
    <3> QED
      BY <1>8, <3>1, <3>2, <3>3
  <2> QED
    BY <2>1
<1>24. x.text = RowDir(manifest.work[k].row) /\ y.text = outcome[k]
  BY <1>4 DEF TextCell
<1>25. StatusOnly(rows, Len(OutputHeader(s)))
  BY <1>18, <1>23 DEF StatusOnly
<1>26. \A r \in ToSet(rows) : /\ ListOf(r, Len(OutputHeader(s)))
                              /\ r[1].text = RowDir(manifest.work[k].row)
                              /\ weak => r[Len(r)].text = outcome[k]
  BY <1>18, <1>19, <1>20, <1>21, <1>22, <1>24
<1> QED
  BY <1>17, <1>18, <1>25, <1>26 DEF RowsSound

\* A finished workpackage has the rows of its matches and values.
LEMMA FinishedRows ==
  ASSUME NEW s \in DOMAIN Blocks, NEW k, outcome[k] = "FINISHED", content[k] \in Contents[s],
         \A c \in ToSet(Blocks[s].columns) :
           IsPattern(s, c) \/ c.source \in DOMAIN manifest.work[k].values
  PROVE  RowsSound(s, k)
<1>1. PICK cols : cols = Blocks[s].columns
  OBVIOUS
<1>n. PICK n \in Nat : n = Len(cols)
  BY <1>1, HeaderPlaces
<1>2. PICK at : n = Len(cols) /\ DOMAIN cols = 1..n /\ RowPlaces(s, cols, n, at)
  BY <1>1, <1>n, HeaderPlaces
<1>3. PICK m \in Nat : m = at[n] /\ ListOf(PlanHeader(s), 1 + m)
  <2>1. n \in 0..n
    OBVIOUS
  <2> QED
    BY <1>2, <2>1 DEF RowPlaces
<1>4. PICK left \in Contents[s] : left = content[k]
  OBVIOUS
<1>5. PICK w : w = manifest.work[k]
  OBVIOUS
<1>6. PICK q \in Nat : q = RowCount(s, left)
  BY CountIs
<1>7. PICK joined, st : joined = WorkRows(s, w, left) /\ st = TextCell("FINISHED")
  OBVIOUS
<1>8. DOMAIN joined = 1..q
  BY <1>6, <1>7 DEF WorkRows
<1>9. PICK b : b = IF weak THEN <<st>> ELSE <<>>
  OBVIOUS
<1>10. PICK rows : rows = [r \in 1..q |-> joined[r] \o b]
  OBVIOUS
<1>11. RowsOf(s, k) = rows
  BY <1>4, <1>5, <1>7, <1>8, <1>9, <1>10 DEF RowsOf
<1>12. ListOf(rows, q) /\ DOMAIN rows = 1..q
  <2>1. rows = [r \in 1..q |-> rows[r]]
    BY <1>10
  <2> QED
    BY <2>1, FirstNumbers
<1>13. PICK o \in Nat : o = 1 + m
  OBVIOUS
<1>14. PICK l \in Nat : l = o + Extra
  <2>1. Extra \in Nat
    BY DEF Extra
  <2> QED
    BY <2>1
<1>15. Len(OutputHeader(s)) = l
  BY <1>3, <1>13, <1>14, OutputWidth
<1>16. ASSUME NEW r \in 1..q
       PROVE  /\ ListOf(rows[r], l) /\ rows[r][1] = TextCell(RowDir(w.row))
              /\ weak => rows[r][l] = st
              /\ \A c \in 1..n : CellsOf(s, c, rows[r]) = ColumnCells(s, cols[c], w, left, r)
  <2>1. PICK a : a = joined[r]
    OBVIOUS
  <2>2. /\ ListOf(a, o) /\ a[1] = TextCell(RowDir(w.row))
        /\ \A c \in 1..n : \A i \in 1..Wide(s, cols[c]) :
             a[1 + at[c - 1] + i] = ColumnCells(s, cols[c], w, left, r)[i]
    BY <1>1, <1>2, <1>3, <1>6, <1>7, <1>13, <2>1, WorkRowsAre, SMTT(30), ZenonT(30)
  <2>3. PICK t : t = a \o b
    OBVIOUS
  <2>4. /\ ListOf(t, l) /\ \A i \in 1..o : t[i] = a[i]
        /\ weak => t[o + 1] = st
    <3>1. ListOf(a, o)
      BY <2>2
    <3>2. WithStatus(t, a, o, st)
      BY <1>9, <2>3, <3>1, StatusAdded
    <3> QED
      BY <1>14, <3>2 DEF WithStatus
  <2>5. rows[r] = t
    BY <1>10, <2>1, <2>3
  <2>6. t[1] = TextCell(RowDir(w.row))
    <3>1. 1 \in 1..o
      BY <1>13
    <3> QED
      BY <2>2, <2>4, <3>1
  <2>7. weak => t[l] = st
    BY <1>14, <2>4 DEF Extra
  <2>8. ASSUME NEW c \in 1..n PROVE CellsOf(s, c, t) = ColumnCells(s, cols[c], w, left, r)
    <3>1. PICK u : u = ColumnCells(s, cols[c], w, left, r)
      OBVIOUS
    <3>2. ListOf(u, Wide(s, cols[c]))
      <4>1. PICK p \in Nat \ {0} : p = r
        OBVIOUS
      <4>2. ListOf(ColumnCells(s, cols[c], w, left, p), Wide(s, cols[c]))
        BY CellsWidth
      <4> QED
        BY <3>1, <4>1, <4>2
    <3>3. PICK v \in Nat : v = Wide(s, cols[c])
      BY ColumnWidth
    <3>4. PICK x, y \in Nat : x = at[c - 1] /\ y = at[c] /\ y = x + v /\ y <= m
      <4>1. c - 1 \in 0..n /\ c \in 0..n
        OBVIOUS
      <4> QED
        BY <1>2, <1>3, <3>3, <4>1 DEF RowPlaces
    <3>5. ASSUME NEW i \in 1..v PROVE t[1 + at[c - 1] + i] = u[i]
      <4>1. 1 + x + i \in 1..o
        BY <1>13, <3>4
      <4>2. t[1 + x + i] = a[1 + x + i]
        BY <2>4, <4>1
      <4>3. a[1 + x + i] = u[i]
        BY <2>2, <3>1, <3>3, <3>4
      <4> QED
        BY <3>4, <4>2, <4>3
    <3>6. 1 + at[n] <= l
      BY <1>3, <1>13, <1>14 DEF Extra
    <3>7. CellsOf(s, c, t) = u
      BY <1>1, <1>2, <2>4, <3>2, <3>3, <3>5, <3>6, CellsAre
    <3> QED
      BY <3>1, <3>7
  <2> QED
    BY <2>4, <2>5, <2>6, <2>7, <2>8
<1>17. TextCell(RowDir(w.row)).text = RowDir(manifest.work[k].row) /\ st.text = outcome[k]
  BY <1>5, <1>7 DEF TextCell
<1>18. ASSUME NEW t \in ToSet(rows)
       PROVE  ListOf(t, l) /\ t[1].text = RowDir(manifest.work[k].row) /\ (weak => t[Len(t)].text = outcome[k])
  <2>1. PICK r \in 1..q : t = rows[r]
    BY <1>12 DEF ToSet
  <2>2. Len(t) = l
    BY <1>16, <2>1 DEF ListOf
  <2> QED
    BY <1>16, <1>17, <2>1, <2>2
<1>19. FinishedComplete(s, k, rows)
  <2>1. ASSUME NEW c \in DOMAIN Blocks[s].columns, IsPattern(s, cols[c])
        PROVE  LET all == Matches(Pattern(s, cols[c].source), content[k])
                   none == [h \in DOMAIN ColumnHeader(s, cols[c]) |-> Missing]
               IN /\ Len(all) <= Len(rows)
                  /\ \A r \in DOMAIN rows :
                       CellsOf(s, c, rows[r]) = IF r <= Len(all) THEN all[r] ELSE none
    <3>1. c \in 1..n /\ cols[c] \in ToSet(Blocks[s].columns)
      BY <1>1, <1>2 DEF ToSet
    <3>2. PICK all : all = Matches(Pattern(s, cols[c].source), left)
      OBVIOUS
    <3>3. Len(all) <= q
      BY <1>6, <2>1, <3>1, <3>2, CountIs
    <3>4. Len(rows) = q
      BY <1>12 DEF ListOf
    <3>5. ASSUME NEW r \in 1..q
          PROVE  CellsOf(s, c, rows[r]) =
                   IF r <= Len(all) THEN all[r] ELSE [h \in DOMAIN ColumnHeader(s, cols[c]) |-> Missing]
      <4>1. PICK p \in Nat \ {0} : p = r
        OBVIOUS
      <4>2. PICK col : col = cols[c]
        OBVIOUS
      <4>3. IsPattern(s, col)
        BY <2>1, <4>2
      <4>4. ColumnCells(s, col, w, left, p) = MatchOrNone(s, col, left, p)
        BY <4>3, PatternCells
      <4>5. ColumnCells(s, col, w, left, r) =
              IF r <= Len(all) THEN all[r] ELSE [h \in DOMAIN ColumnHeader(s, col) |-> Missing]
        BY <3>2, <4>1, <4>2, <4>4 DEF MatchOrNone
      <4> QED
        BY <1>16, <3>1, <4>2, <4>5
    <3> QED
      BY <1>4, <1>12, <3>2, <3>3, <3>4, <3>5
  <2>2. ASSUME NEW c \in DOMAIN Blocks[s].columns, ~IsPattern(s, cols[c]), NEW r \in DOMAIN rows
        PROVE  CellsOf(s, c, rows[r])[1].text = Text[manifest.work[k].values[cols[c].source]]
    <3>1. c \in 1..n /\ cols[c] \in ToSet(Blocks[s].columns)
      BY <1>1, <1>2 DEF ToSet
    <3>2. cols[c].source \in DOMAIN w.values
      BY <1>5, <2>2, <3>1
    <3>3. PICK p \in Nat \ {0} : p = r
      BY <1>12
    <3>4. ColumnCells(s, cols[c], w, left, p)[1].text = Text[w.values[cols[c].source]]
      <4>1. PICK col : col = cols[c]
        OBVIOUS
      <4>2. ~IsPattern(s, col) /\ col.source \in DOMAIN w.values
        BY <2>2, <3>2, <4>1
      <4>3. ColumnCells(s, col, w, left, p)[1].text = Text[w.values[col.source]]
        BY <4>2, CellsWidth
      <4> QED
        BY <4>1, <4>3
    <3>5. CellsOf(s, c, rows[r]) = ColumnCells(s, cols[c], w, left, r)
      BY <1>12, <1>16, <3>1
    <3> QED
      BY <1>5, <3>3, <3>4, <3>5
  <2> QED
    BY <1>1, <2>1, <2>2 DEF FinishedComplete
<1>20. rows \in Seq(ToSet(rows))
  BY <1>12 DEF ListOf
<1> QED
  BY <1>11, <1>15, <1>18, <1>19, <1>20 DEF RowsSound

-----------------------------------------------------------------------------
(***************************************************************************)
(* The rows of a table.                                                    *)
(***************************************************************************)
\* sw are the places of the workpackages of step s, in order.
PlacesOf(s, mw, sw, n) ==
  /\ n \in Nat /\ DOMAIN sw = 1..n
  /\ \A j \in 1..n : sw[j] \in Nat /\ sw[j] \in DOMAIN mw /\ mw[sw[j]].step = s
  /\ \A i, j \in 1..n : i < j => sw[i] < sw[j]
  /\ \A k \in DOMAIN mw : mw[k].step = s => \E j \in 1..n : sw[j] = k

\* The workpackages of a step are looked at in the order of the manifest.
LEMMA StepWorkIs ==
  ASSUME NEW mw, mw = manifest.work, mw \in Seq(ToSet(mw)), NEW s
  PROVE  \E n : PlacesOf(s, mw, StepWork(s), n)
<1>1. PICK work : work = StepWork(s)
  OBVIOUS
<1>2. PICK ids, places : /\ ids = [k \in DOMAIN mw |-> k]
                         /\ places = {k \in DOMAIN ids : manifest.work[ids[k]].step = s}
  OBVIOUS
<1>3. ids \in Seq(ToSet(ids))
  <2>1. DOMAIN ids = DOMAIN mw /\ ids = [k \in DOMAIN mw |-> ids[k]]
    BY <1>2
  <2> QED
    BY <2>1, SamePlaces
<1>4. work = Picked(ids, places)
  BY <1>1, <1>2 DEF StepWork, Select
<1>5. /\ DOMAIN work = 1..Len(work) /\ Len(work) \in Nat
      /\ \E at : PickedAt(at, ids, places, work)
  BY <1>3, <1>4, PickedPlaces
<1>6. PICK n \in Nat : n = Len(work) /\ DOMAIN work = 1..n
  BY <1>5
<1>7. PICK at : PickedAt(at, ids, places, work)
  BY <1>5
<1>8. /\ at \in [1..n -> places]
      /\ \A j, k \in 1..n : j < k => at[j] < at[k]
      /\ \A k \in 1..n : work[k] = ids[at[k]]
      /\ \A i \in places : \E k \in 1..n : at[k] = i
  BY <1>2, <1>6, <1>7 DEF PickedAt
<1>9. DOMAIN mw \subseteq Nat /\ places = {k \in DOMAIN mw : mw[k].step = s}
  BY <1>2
<1>10. \A k \in 1..n : at[k] \in places /\ at[k] \in DOMAIN mw /\ work[k] = at[k]
  BY <1>2, <1>8, <1>9
<1>11. PlacesOf(s, mw, work, n)
  BY <1>6, <1>8, <1>9, <1>10 DEF PlacesOf
<1> QED
  BY <1>1, <1>11

\* No two workpackages of a step have one row.
OneRowEach(mw) ==
  \A j, k \in DOMAIN mw : mw[j].step = mw[k].step /\ mw[j].row = mw[k].row => j = k

\* A table in which the rows of all workpackages are what they must be is
\* complete.
LEMMA TableSound ==
  ASSUME NEW s \in DOMAIN Blocks, NEW mw, mw = manifest.work, mw \in Seq(ToSet(mw)), OneRowEach(mw),
         \A k \in DOMAIN mw : mw[k].step = s => RowsSound(s, k)
  PROVE  TableComplete(s, Table(s))
<1>1. PICK sw, n : sw = StepWork(s) /\ PlacesOf(s, mw, sw, n)
  BY StepWorkIs
<1>2. /\ n \in Nat /\ DOMAIN sw = 1..n
      /\ \A j \in 1..n : sw[j] \in Nat /\ sw[j] \in DOMAIN mw /\ mw[sw[j]].step = s
      /\ \A i, j \in 1..n : i < j => sw[i] < sw[j]
      /\ \A k \in DOMAIN mw : mw[k].step = s => \E j \in 1..n : sw[j] = k
  BY <1>1 DEF PlacesOf
<1>3. PICK ss : ss = [j \in 1..n |-> RowsOf(s, sw[j])]
  OBVIOUS
<1>4. PICK W : W = Len(OutputHeader(s))
  OBVIOUS
<1>5. ASSUME NEW j \in 1..n
      PROVE  /\ ss[j] = RowsOf(s, sw[j]) /\ ss[j] \in Seq(ToSet(ss[j]))
             /\ \A r \in ToSet(ss[j]) : /\ ListOf(r, W) /\ r[1].text = RowDir(mw[sw[j]].row)
                                        /\ weak => r[Len(r)].text = outcome[sw[j]]
             /\ IF outcome[sw[j]] = "FINISHED" THEN FinishedComplete(s, sw[j], ss[j]) ELSE StatusOnly(ss[j], W)
  BY <1>2, <1>3, <1>4 DEF RowsSound
<1>6. PICK B : B = UNION {ToSet(ss[j]) : j \in 1..n}
  OBVIOUS
<1>7. ss \in Seq(Seq(B)) /\ Len(ss) = n /\ FlattenSeq(ss) \in Seq(B)
  <2>1. ss = [j \in 1..n |-> ss[j]]
    BY <1>3
  <2>2. \A j \in 1..n : ss[j] \in Seq(ToSet(ss[j])) /\ ToSet(ss[j]) \subseteq B
    BY <1>5, <1>6
  <2> QED
    BY <1>2, <2>1, <2>2, ListsList, Zenon
<1>8. PICK rows \in Seq(B) : rows = FlattenSeq(ss)
  BY <1>7
<1>9. StepRows(s) = rows
  BY <1>1, <1>2, <1>3, <1>8 DEF StepRows
<1>10. PICK at : Stretched(at, ss, n, rows)
  BY <1>7, <1>8, FlatStretches
<1>11. PICK l \in Nat : l = Len(rows) /\ DOMAIN rows = 1..l
  BY <1>8
<1>12. /\ \A j \in 0..n : at[j] \in Nat
       /\ \A j \in 1..n : at[j] = at[j - 1] + Len(ss[j])
       /\ \A i, j \in 0..n : i <= j => at[i] <= at[j]
       /\ l = at[n]
       /\ \A j \in 1..n : \A x \in 1..Len(ss[j]) : rows[at[j - 1] + x] = ss[j][x]
  BY <1>10, <1>11 DEF Stretched
<1>13. ASSUME NEW i \in 1..l
       PROVE  \E j \in 1..n : /\ at[j - 1] < i /\ i <= at[j] /\ rows[i] \in ToSet(ss[j])
                              /\ ListOf(rows[i], W) /\ rows[i][1].text = RowDir(mw[sw[j]].row)
  <2>1. PICK j \in 1..n : \E x \in 1..Len(ss[j]) : i = at[j - 1] + x
    <3>1. PICK p \in 1..Len(rows) : p = i
      BY <1>11
    <3>2. Placed(at, ss, n, p)
      BY <1>2, <1>10, InStretch
    <3> QED
      BY <3>1, <3>2 DEF Placed
  <2>2. PICK x \in 1..Len(ss[j]) : i = at[j - 1] + x
    BY <2>1
  <2>3. PICK m \in Nat : m = Len(ss[j]) /\ DOMAIN ss[j] = 1..m
    BY <1>5
  <2>4. rows[i] = ss[j][x] /\ x \in DOMAIN ss[j]
    BY <1>12, <2>2, <2>3
  <2>5. rows[i] \in ToSet(ss[j])
    BY <2>4 DEF ToSet
  <2>6. PICK a \in Nat : a = at[j - 1]
    <3>1. j - 1 \in 0..n
      BY <1>2
    <3> QED
      BY <1>12, <3>1
  <2>7. at[j] = a + m /\ i = a + x /\ x \in 1..m
    BY <1>12, <2>2, <2>3, <2>6
  <2>8. at[j - 1] < i /\ i <= at[j]
    BY <2>6, <2>7
  <2> QED
    BY <1>5, <2>5, <2>8
<1>14. \A r \in ToSet(rows) : Len(r) = W
  <2>1. ASSUME NEW i \in 1..l PROVE Len(rows[i]) = W
    BY <1>13 DEF ListOf
  <2> QED
    BY <1>11, <2>1 DEF ToSet
<1>15. ASSUME NEW i \in 1..l, NEW j \in 1..l, i < j
       PROVE  \E a, b \in DOMAIN mw : /\ a <= b /\ mw[a].step = s /\ mw[b].step = s
                                      /\ rows[i][1].text = RowDir(mw[a].row)
                                      /\ rows[j][1].text = RowDir(mw[b].row)
  <2>1. PICK x \in 1..n : at[x - 1] < i /\ i <= at[x] /\ rows[i][1].text = RowDir(mw[sw[x]].row)
    BY <1>13
  <2>2. PICK y \in 1..n : at[y - 1] < j /\ j <= at[y] /\ rows[j][1].text = RowDir(mw[sw[y]].row)
    BY <1>13
  <2>3. x <= y
    <3>1. ASSUME ~(x <= y) PROVE FALSE
      <4>1. y <= x - 1 /\ y \in 0..n /\ x - 1 \in 0..n
        BY <1>2, <3>1
      <4>2. PICK u, v \in Nat : u = at[y] /\ v = at[x - 1]
        BY <1>12, <4>1
      <4>3. u <= v
        BY <1>12, <4>1, <4>2
      <4> QED
        BY <1>15, <2>1, <2>2, <4>2, <4>3
    <3> QED
      BY <3>1
  <2>4. sw[x] <= sw[y] /\ sw[x] \in DOMAIN mw /\ sw[y] \in DOMAIN mw /\ mw[sw[x]].step = s /\ mw[sw[y]].step = s
    <3>1. x = y \/ x < y
      BY <1>2, <2>3
    <3> QED
      BY <1>2, <3>1
  <2> QED
    BY <2>1, <2>2, <2>4
<1>16. ASSUME NEW k \in DOMAIN mw, mw[k].step = s
       PROVE  RowsOfWork(rows, k) = RowsOf(s, k)
  <2>1. PICK j \in 1..n : sw[j] = k
    BY <1>2, <1>16
  <2>2. PICK a, b, m \in Nat : a = at[j - 1] /\ b = at[j] /\ m = Len(ss[j]) /\ b = a + m
    <3>1. j - 1 \in 0..n /\ j \in 0..n
      BY <1>2
    <3>2. Len(ss[j]) \in Nat
      BY <1>5
    <3> QED
      BY <1>12, <3>1, <3>2, SMTT(30), ZenonT(30)
  <2>3. PICK places : places = {i \in DOMAIN rows : rows[i][1].text = RowDir(manifest.work[k].row)}
    OBVIOUS
  <2>4. ASSUME NEW i \in places PROVE i \in (a + 1)..(a + m)
    <3>1. i \in 1..l /\ rows[i][1].text = RowDir(mw[k].row)
      BY <1>11, <2>3
    <3>2. PICK x \in 1..n : at[x - 1] < i /\ i <= at[x] /\ rows[i][1].text = RowDir(mw[sw[x]].row)
      BY <1>13, <3>1
    <3>3. mw[k].row = mw[sw[x]].row
      BY <3>1, <3>2 DEF RowDir
    <3>4. sw[x] = sw[j]
      BY <1>2, <1>16, <2>1, <3>3 DEF OneRowEach
    <3>5. x = j
      <4>1. x < j \/ j < x \/ x = j
        BY <1>2
      <4>2. sw[x] \in Nat /\ sw[j] \in Nat
        BY <1>2
      <4> QED
        BY <1>2, <3>4, <4>1, <4>2
    <3>6. a < i /\ i <= b /\ i \in Nat
      <4>1. at[x - 1] = a /\ at[x] = b
        BY <2>2, <3>5
      <4> QED
        BY <3>1, <3>2, <4>1
    <3> QED
      BY <2>2, <3>6
  <2>5. ASSUME NEW i \in (a + 1)..(a + m) PROVE i \in places
    <3>1. PICK x \in 1..m : i = a + x
      <4>1. i - a \in 1..m /\ i = a + (i - a)
        OBVIOUS
      <4> QED
        BY <4>1
    <3>2. rows[i] = ss[j][x]
      BY <1>12, <2>2, <3>1
    <3>3. x \in DOMAIN ss[j]
      BY <1>5, <2>2
    <3>4. rows[i] \in ToSet(ss[j])
      BY <3>2, <3>3 DEF ToSet
    <3>5. rows[i][1].text = RowDir(mw[k].row)
      BY <1>5, <2>1, <3>4
    <3>6. b <= l
      <4>1. j \in 0..n /\ n \in 0..n /\ j <= n
        BY <1>2
      <4> QED
        BY <1>12, <2>2, <4>1
    <3>7. i \in 1..l
      BY <2>2, <3>6, SMTT(30), ZenonT(30)
    <3> QED
      BY <1>11, <2>3, <3>5, <3>7
  <2>6. places \cap DOMAIN rows = (a + 1)..(a + m)
    BY <2>3, <2>4, <2>5
  <2>7. PICK t : t = Picked(rows, places)
    OBVIOUS
  <2>8. RowsOfWork(rows, k) = t
    BY <2>3, <2>7 DEF RowsOfWork, Select
  <2>9. rows \in Seq(ToSet(rows))
    BY <1>8, SeqList DEF ListOf
  <2>10. t \in Seq(ToSet(rows)) /\ Len(t) = m /\ \A i \in 1..m : t[i] = rows[a + i]
    <3>1. PartOf(t, rows, a, m)
      BY <2>6, <2>7, <2>9, PickedStretch
    <3> QED
      BY <3>1 DEF PartOf
  <2>11. \A i \in 1..m : t[i] = ss[j][i]
    BY <1>12, <2>2, <2>10
  <2>12. t = ss[j]
    <3>1. t = [i \in 1..m |-> t[i]]
      BY <2>10
    <3>2. ss[j] = [i \in 1..m |-> ss[j][i]]
      BY <1>5, <2>2
    <3> QED
      BY <2>11, <3>1, <3>2
  <2> QED
    BY <1>5, <2>1, <2>8, <2>12
<1> PICK t : t = Table(s)
  OBVIOUS
<1>17. t = Table(s) /\ t.rows = rows /\ t.header = OutputHeader(s)
  BY <1>9 DEF Table
<1>18. ASSUME NEW k \in DOMAIN mw, mw[k].step = s
       PROVE  /\ weak => \A r \in ToSet(RowsOfWork(t.rows, k)) : r[Len(r)].text = outcome[k]
              /\ IF outcome[k] = "FINISHED" THEN FinishedComplete(s, k, RowsOfWork(t.rows, k))
                 ELSE StatusOnly(RowsOfWork(t.rows, k), Len(t.header))
  <2>1. RowsSound(s, k)
    BY <1>18
  <2>2. PICK mine : mine = RowsOf(s, k) /\ mine = RowsOfWork(t.rows, k)
    BY <1>16, <1>17, <1>18
  <2> QED
    BY <1>17, <2>1, <2>2 DEF RowsSound
<1>19. TableComplete(s, t)
  <2>1. \A r \in ToSet(t.rows) : Len(r) = Len(t.header)
    BY <1>4, <1>14, <1>17
  <2>2. InWorkOrder(s, t.rows)
    <3>1. InWorkOrder(s, rows)
      BY <1>11, <1>15 DEF InWorkOrder
    <3> QED
      BY <1>17, <3>1
  <2>3. \A k \in {k \in DOMAIN manifest.work : manifest.work[k].step = s} :
          /\ weak => \A r \in ToSet(RowsOfWork(t.rows, k)) : r[Len(r)].text = outcome[k]
          /\ IF outcome[k] = "FINISHED" THEN FinishedComplete(s, k, RowsOfWork(t.rows, k))
             ELSE StatusOnly(RowsOfWork(t.rows, k), Len(t.header))
    BY <1>18
  <2> QED
    BY <2>1, <2>2, <2>3 DEF TableComplete
<1> QED
  BY <1>17, <1>19

-----------------------------------------------------------------------------
(***************************************************************************)
(* What can stop an analysis.  The invariant.                              *)
(***************************************************************************)
\* The stages of a command that runs or continues a run.
Running == {"analyse", "close", "done", "killed"}

\* A value is that of a cell.
KnownValue(v) == \E s \in Version : \E r \in DOMAIN Cell[s] : \E x \in ToSet(Columns[s]) : v = Cell[s][r][x].val

\* All values of workpackages are.
ValuesKnown(work) == \A w \in ToSet(work) : \A n \in DOMAIN w.values : KnownValue(w.values[n])

\* The workpackages of a manifest have the values of those in the plan.
FromPlan(mw, work) ==
  /\ mw \in Seq(ToSet(mw))
  /\ \A w \in ToSet(mw) : \E v \in ToSet(work) : v.step = w.step /\ v.values = w.values

\* The columns of a table of one of the steps cannot be told apart.
BadTable(steps, wk) ==
  \E s \in ToSet(steps) :
    LET header == PlanHeader(s) \o (IF wk THEN <<"jbs_status">> ELSE <<>>)
    IN ~IsInjective([h \in DOMAIN header |-> SQLiteName(header[h])])

\* The invariant of FailsForFilesOnly.
FailInv ==
  /\ stage \in Late \cup Running => ValuesKnown(plan.work)
  /\ stage \in {"create", "created"} \cup Running => FromPlan(manifest.work, plan.work)
  /\ analysed \subseteq DOMAIN Blocks
  /\ stage = "analyse" => /\ weak \/ \A k \in DOMAIN manifest.work : outcome[k] = "FINISHED"
                          /\ ToSet(todo) \subseteq ToSet(AnalysedSteps)
  /\ stage \notin {"close", "done", "killed"} => fault = "none"
  /\ fault \in {"none", "file", "capture", "status column", "table"}
  /\ fault \in {"status column", "table"} => BadTable(AnalysedSteps, weak)

-----------------------------------------------------------------------------
(***************************************************************************)
(* The kinds of columns.                                                   *)
(***************************************************************************)
\* The kinds of values.
ValueKinds == {"int", "float", "bool", "string"}

\* What can be read as a value of kind a can be read as one of kind b.
Fits(a, b) == a = b \/ b = "string" \/ (a = "int" /\ b = "float")

\* What kinds is in WorkValueKind, where kd[k] is the kind of the k-th value.
Folding(f, kd, N) == f = [k \in 0..N |-> IF k = 0 THEN "" ELSE MergeKinds(f[k - 1], kd[k])]

\* The recursion in WorkValueKind has a solution.
LEMMA FoldingExists ==
  ASSUME NEW kd, NEW N \in Nat
  PROVE  \E f : Folding(f, kd, N)
<1> DEFINE T == {m \in Nat : ~ \E f : Folding(f, kd, m)}
<1> SUFFICES ASSUME T # {} PROVE FALSE
  OBVIOUS
<1>1. PICK m \in T : \A j \in T : m <= j
  BY Least
<1>2. m # 0
  <2>1. PICK f : f = [k \in 0..0 |-> IF k = 0 THEN "" ELSE MergeKinds("", kd[k])]
    OBVIOUS
  <2>2. \A k \in 0..0 : k = 0
    OBVIOUS
  <2>3. f = [k \in 0..0 |-> IF k = 0 THEN "" ELSE MergeKinds(f[k - 1], kd[k])]
    BY <2>1, <2>2
  <2> QED
    BY <1>1, <2>3 DEF Folding
<1>3. PICK f : Folding(f, kd, m - 1)
  BY <1>1, <1>2
<1> DEFINE last == MergeKinds(f[m - 1], kd[m])
           g == [n \in 0..m |-> IF n = m THEN last ELSE f[n]]
<1>4. Folding(g, kd, m)
  <2> DEFINE body(n) == IF n = 0 THEN "" ELSE MergeKinds(g[n - 1], kd[n])
  <2>1. ASSUME NEW n \in 0..m PROVE g[n] = body(n)
    <3>1. CASE n = m
      <4>1. g[m - 1] = f[m - 1] /\ g[n] = last
        BY <1>2, <3>1
      <4> QED
        BY <1>2, <3>1, <4>1
    <3>2. CASE n # m
      <4>1. n \in 0..(m - 1) /\ g[n] = f[n]
        BY <3>2
      <4>2. n # 0 => g[n - 1] = f[n - 1]
        BY <3>2
      <4>3. f[n] = IF n = 0 THEN "" ELSE MergeKinds(f[n - 1], kd[n])
        BY <1>3, <4>1 DEF Folding
      <4> QED
        BY <4>1, <4>2, <4>3
    <3> QED
      BY <3>1, <3>2
  <2>2. g = [n \in 0..m |-> body(n)]
    BY <2>1
  <2> QED
    BY <2>2 DEF Folding
<1> QED
  BY <1>1, <1>4

\* Two kinds that are merged both fit the result.
LEMMA MergedFit ==
  ASSUME NEW a \in ValueKinds \cup {""}, NEW b \in ValueKinds
  PROVE  /\ MergeKinds(a, b) \in ValueKinds
         /\ Fits(b, MergeKinds(a, b))
         /\ \A x \in ValueKinds : a # "" /\ Fits(x, a) => Fits(x, MergeKinds(a, b))
<1>1. CASE a = "" \/ a = b
  BY <1>1 DEF MergeKinds, Fits
<1>2. CASE ~(a = "" \/ a = b) /\ {a, b} = {"int", "float"}
  <2>1. MergeKinds(a, b) = "float"
    BY <1>2 DEF MergeKinds
  <2>2. a \in {"int", "float"} /\ b \in {"int", "float"}
    BY <1>2
  <2> QED
    BY <2>1, <2>2 DEF Fits, ValueKinds
<1>3. CASE ~(a = "" \/ a = b) /\ {a, b} # {"int", "float"}
  <2>1. MergeKinds(a, b) = "string"
    BY <1>3 DEF MergeKinds
  <2> QED
    BY <2>1 DEF Fits, ValueKinds
<1> QED
  BY <1>1, <1>2, <1>3

\* A number before the last one.
LEMMA Earlier ==
  ASSUME NEW N \in Nat, NEW m \in 1..N, NEW k \in 1..m, k # m
  PROVE  k \in 1..(m - 1) /\ k \in 1..N
OBVIOUS

\* The first n kinds fit what they are folded to.
FoldedUpTo(f, kd, n) ==
  /\ f[n] \in ValueKinds \cup {""}
  /\ \A k \in 1..n : f[n] # "" /\ Fits(kd[k], f[n])

\* Every kind that is folded fits the result.
LEMMA FoldedFit ==
  ASSUME NEW kd, NEW N \in Nat, \A k \in 1..N : kd[k] \in ValueKinds, NEW f, Folding(f, kd, N)
  PROVE  FoldedUpTo(f, kd, N)
<1> DEFINE T == {n \in 0..N : ~FoldedUpTo(f, kd, n)}
<1>1. ASSUME T # {} PROVE FALSE
  <2>0. T \subseteq Nat
    OBVIOUS
  <2>1. PICK m \in T : \A j \in T : m <= j
    BY <1>1, <2>0, Least
  <2>2. \A n \in 0..N : f[n] = IF n = 0 THEN "" ELSE MergeKinds(f[n - 1], kd[n])
    BY DEF Folding
  <2>3. m # 0
    <3>0. 0 \in 0..N /\ 1..0 = {}
      OBVIOUS
    <3>1. f[0] = ""
      BY <2>2, <3>0, Zenon
    <3>2. FoldedUpTo(f, kd, 0)
      BY <3>0, <3>1, Zenon DEF FoldedUpTo
    <3> QED
      BY <2>1, <3>2
  <2>4. m \in Nat /\ m \in 1..N /\ m - 1 \in 0..N /\ ~(m <= m - 1)
    BY <2>1, <2>3
  <2>5. FoldedUpTo(f, kd, m - 1)
    BY <2>1, <2>4
  <2>6. PICK a \in ValueKinds \cup {""} : a = f[m - 1]
    BY <2>5 DEF FoldedUpTo
  <2>7. PICK b \in ValueKinds : b = kd[m]
    BY <2>4
  <2>8. PICK c : c = MergeKinds(a, b)
    OBVIOUS
  <2>9. f[m] = c
    <3>1. f[m] = MergeKinds(f[m - 1], kd[m])
      <4>1. m \in 0..N /\ m # 0
        BY <2>1, <2>3
      <4> QED
        BY <2>2, <4>1
    <3> QED
      BY <2>6, <2>7, <2>8, <3>1
  <2>10. /\ c \in ValueKinds /\ Fits(b, c)
         /\ \A x \in ValueKinds : a # "" /\ Fits(x, a) => Fits(x, c)
    BY <2>8, MergedFit
  <2>11. c # ""
    BY <2>10 DEF ValueKinds
  <2>12. ASSUME NEW k \in 1..m PROVE Fits(kd[k], c)
    <3>1. CASE k = m
      BY <2>7, <2>10, <3>1
    <3>2. CASE k # m
      <4>1. k \in 1..(m - 1) /\ k \in 1..N
        BY <2>4, <2>12, <3>2, Earlier
      <4>2. a # "" /\ Fits(kd[k], a) /\ kd[k] \in ValueKinds
        BY <2>5, <2>6, <4>1 DEF FoldedUpTo
      <4> QED
        BY <2>10, <4>2
    <3> QED
      BY <3>1, <3>2
  <2>13. FoldedUpTo(f, kd, m)
    BY <2>9, <2>10, <2>11, <2>12 DEF FoldedUpTo
  <2> QED
    BY <2>1, <2>13
<1>2. FoldedUpTo(f, kd, N)
  BY <1>1
<1> QED
  BY <1>2

\* The kind of a name over workpackages.
KindOver(of, name) ==
  LET kinds[k \in 0..Len(of)] ==
        IF k = 0 THEN "" ELSE MergeKinds(kinds[k - 1], KindOf[of[k].values[name]])
  IN IF kinds[Len(of)] = "" THEN "string" ELSE kinds[Len(of)]

\* The values of a name in a step can be read as its kind.
LEMMA KindFits ==
  ASSUME plan.work \in Seq(ToSet(plan.work)), ValuesKnown(plan.work),
         NEW w \in ToSet(plan.work), NEW name \in DOMAIN w.values,
         NEW kind, kind = WorkValueKind(w.step, name), kind # "string"
  PROVE  Text[w.values[name]] \in Readable[kind]
<1>1. PICK work : work = plan.work
  OBVIOUS
<1>2. PICK places : places = {k \in DOMAIN work : work[k].step = w.step /\ name \in DOMAIN work[k].values}
  OBVIOUS
<1>3. PICK of : of = Picked(work, places)
  OBVIOUS
<1>4. of = Select(plan.work, LAMBDA v : v.step = w.step /\ name \in DOMAIN v.values)
  BY <1>1, <1>2, <1>3 DEF Select
<1>5. work \in Seq(ToSet(work)) /\ Len(of) \in Nat
  BY <1>1, <1>3, PickedPlaces
<1>6. PICK at : PickedAt(at, work, places, of)
  BY <1>3, <1>5, PickedPlaces
<1>7. PICK N \in Nat : N = Len(of)
  BY <1>5
<1>8. PICK kd : kd = [k \in 1..N |-> KindOf[of[k].values[name]]]
  OBVIOUS
<1> DEFINE f == CHOOSE f : Folding(f, kd, N)
<1>9. Folding(f, kd, N)
  BY FoldingExists
<1>10. kind = IF f[N] = "" THEN "string" ELSE f[N]
  <2>1. kind = KindOver(of, name)
    <3>1. kind = KindOver(Select(plan.work, LAMBDA v : v.step = w.step /\ name \in DOMAIN v.values), name)
      BY Zenon DEF WorkValueKind, KindOver
    <3> QED
      BY <1>4, <3>1
  <2> DEFINE g == CHOOSE g : g = [k \in 0..Len(of) |->
                    IF k = 0 THEN "" ELSE MergeKinds(g[k - 1], KindOf[of[k].values[name]])]
  <2>2. KindOver(of, name) = IF g[Len(of)] = "" THEN "string" ELSE g[Len(of)]
    BY Zenon DEF KindOver
  <2>3. \A h : (h = [k \in 0..Len(of) |->
                      IF k = 0 THEN "" ELSE MergeKinds(h[k - 1], KindOf[of[k].values[name]])]) <=> Folding(h, kd, N)
    <3> SUFFICES ASSUME NEW h
                 PROVE  [k \in 0..Len(of) |-> IF k = 0 THEN "" ELSE MergeKinds(h[k - 1], KindOf[of[k].values[name]])]
                          = [k \in 0..N |-> IF k = 0 THEN "" ELSE MergeKinds(h[k - 1], kd[k])]
      BY DEF Folding
    <3>1. \A k \in 0..N : k # 0 => kd[k] = KindOf[of[k].values[name]]
      BY <1>8
    <3> QED
      BY <1>7, <3>1
  <2>4. g = f
    BY <2>3
  <2> HIDE DEF g, f
  <2> QED
    BY <1>7, <2>1, <2>2, <2>4
<1> HIDE DEF f
<1>11. ASSUME NEW k \in 1..N PROVE of[k] \in ToSet(plan.work) /\ name \in DOMAIN of[k].values
  <2>1. at[k] \in places /\ at[k] \in DOMAIN work /\ of[k] = work[at[k]]
    BY <1>6, <1>7 DEF PickedAt
  <2> QED
    BY <1>1, <1>2, <2>1 DEF ToSet
<1>12. ASSUME NEW k \in 1..N
       PROVE  /\ kd[k] = KindOf[of[k].values[name]] /\ kd[k] \in ValueKinds
              /\ kd[k] # "string" => Text[of[k].values[name]] \in Readable[kd[k]]
  <2>1. KnownValue(of[k].values[name])
    BY <1>11 DEF ValuesKnown
  <2> QED
    BY <1>8, <2>1, KindAssumption DEF KnownValue, ValueKinds
<1>13. \A k \in 1..N : f[N] # "" /\ Fits(kd[k], f[N])
  BY <1>9, <1>12, FoldedFit DEF FoldedUpTo
<1>14. PICK k \in 1..N : of[k] = w
  <2>1. PICK i \in DOMAIN work : work[i] = w
    BY <1>1 DEF ToSet
  <2>2. i \in places \cap DOMAIN work
    BY <1>2, <2>1
  <2> QED
    BY <1>6, <1>7, <2>1, <2>2 DEF PickedAt
<1>15. f[N] = kind /\ Fits(kd[k], kind)
  BY <1>10, <1>13
<1> QED
  BY <1>12, <1>14, <1>15, KindAssumption DEF Fits

-----------------------------------------------------------------------------
(***************************************************************************)
(* What can stop the analysis of a step.                                   *)
(***************************************************************************)
\* The titles of a table are a sequence.
LEMMA HeaderList ==
  ASSUME NEW s \in DOMAIN Blocks
  PROVE  PlanHeader(s) \in Seq(ToSet(PlanHeader(s)))
<1>1. PICK cols : cols = Blocks[s].columns
  OBVIOUS
<1>2. PICK at : RowPlaces(s, cols, Len(cols), at)
  BY <1>1, HeaderPlaces
<1> QED
  BY <1>2 DEF RowPlaces, ListOf

\* A table that cannot be made has columns that cannot be told apart.
LEMMA BadHeader ==
  ASSUME NEW s \in DOMAIN Blocks, NEW steps, s \in ToSet(steps), HeaderFaults(s) \cup TableFaults(s) # {}
  PROVE  BadTable(steps, weak)
<1>1. PICK h, f : h = OutputHeader(s) /\ f = [k \in DOMAIN h |-> SQLiteName(h[k])]
  OBVIOUS
<1>2. ~IsInjective(f)
  <2>1. CASE TableFaults(s) # {}
    BY <1>1, <2>1 DEF TableFaults
  <2>2. CASE HeaderFaults(s) # {}
    <3>1. PICK p : p = PlanHeader(s)
      OBVIOUS
    <3>2. p \in Seq(ToSet(p))
      BY <3>1, HeaderList
    <3>3. weak /\ "jbs_status" \in ToSet(p)
      BY <2>2, <3>1 DEF HeaderFaults
    <3>4. h = p \o <<"jbs_status">>
      BY <1>1, <3>1, <3>3 DEF OutputHeader
    <3>5. PICK i \in DOMAIN p : p[i] = "jbs_status"
      BY <3>3 DEF ToSet
    <3>6. PICK n \in Nat : n = Len(p)
      BY <3>2
    <3>7. i \in 1..n /\ DOMAIN h = 1..(n + 1) /\ h[i] = "jbs_status" /\ h[n + 1] = "jbs_status"
      BY <3>2, <3>4, <3>5, <3>6
    <3>8. i \in DOMAIN f /\ n + 1 \in DOMAIN f /\ f[i] = f[n + 1] /\ i # n + 1
      BY <1>1, <3>7
    <3> QED
      BY <3>8 DEF IsInjective
  <2> QED
    BY <2>1, <2>2
<1> QED
  BY <1>1, <1>2 DEF BadTable, OutputHeader

\* The analysis of a step fails for files and titles only.
LEMMA StepFails ==
  ASSUME plan.work \in Seq(ToSet(plan.work)), FailInv, stage = "analyse",
         NEW s \in ToSet(AnalysedSteps) \cap DOMAIN Blocks, NEW f \in StepFaults(s)
  PROVE  /\ f \in {"file", "capture", "status column", "table"}
         /\ f \in {"status column", "table"} => BadTable(AnalysedSteps, weak)
<1>1. /\ ValuesKnown(plan.work) /\ FromPlan(manifest.work, plan.work)
      /\ weak \/ \A k \in DOMAIN manifest.work : outcome[k] = "FINISHED"
  BY DEF FailInv, Running
<1>2. CASE f \in HeaderFaults(s) \cup TableFaults(s)
  <2>1. BadTable(AnalysedSteps, weak)
    BY <1>2, BadHeader
  <2> QED
    BY <1>2, <2>1 DEF HeaderFaults, TableFaults
<1>3. CASE f \notin HeaderFaults(s) \cup TableFaults(s)
  <2>1. PICK work : work = StepWork(s)
    OBVIOUS
  <2>2. PICK bad : bad = {j \in DOMAIN work : WorkFaults(s, work[j]) # {}}
    OBVIOUS
  <2>3. bad # {} /\ f \in WorkFaults(s, work[Min(bad)])
    BY <1>3, <2>1, <2>2 DEF StepFaults
  <2>4. PICK mw : mw = manifest.work /\ mw \in Seq(ToSet(mw))
    BY <1>1 DEF FromPlan
  <2>5. PICK ids, places : /\ ids = [k \in DOMAIN mw |-> k]
                           /\ places = {k \in DOMAIN ids : manifest.work[ids[k]].step = s}
    OBVIOUS
  <2>6. ids \in Seq(ToSet(ids))
    <3>1. DOMAIN ids = DOMAIN mw /\ ids = [k \in DOMAIN mw |-> ids[k]]
      BY <2>5
    <3> QED
      BY <2>4, <3>1, SamePlaces
  <2>7. work = Picked(ids, places)
    BY <2>1, <2>4, <2>5 DEF StepWork, Select
  <2>8. /\ DOMAIN work = 1..Len(work) /\ Len(work) \in Nat
        /\ \E at : PickedAt(at, ids, places, work)
    BY <2>6, <2>7, PickedPlaces
  <2>9. PICK at : PickedAt(at, ids, places, work)
    BY <2>8
  <2>10. bad \subseteq Nat
    BY <2>2, <2>8
  <2>11. PICK m \in bad : m = Min(bad)
    <3>1. \E i \in bad : \A j \in bad : i <= j
      BY <2>3, <2>10, Least
    <3>2. Min(bad) \in bad
      BY <3>1, Zenon DEF Min
    <3> QED
      BY <3>2
  <2>12. PICK k : k = work[m]
    OBVIOUS
  <2>13. k \in DOMAIN mw /\ mw[k].step = s
    <3>1. m \in 1..Len(work)
      BY <2>2, <2>8, <2>11
    <3>2. at[m] \in places /\ at[m] \in DOMAIN ids /\ k = ids[at[m]]
      BY <2>9, <2>12, <3>1 DEF PickedAt
    <3> QED
      BY <2>4, <2>5, <3>2
  <2>14. f \in WorkFaults(s, k)
    BY <2>3, <2>11, <2>12
  <2>15. PICK w \in ToSet(mw) : w = mw[k]
    BY <2>13 DEF ToSet
  <2>16. f \in PatternFaults(s, content[k]) \cup ValueFaults(s, w)
    <3>1. weak \/ outcome[k] = "FINISHED"
      BY <1>1, <2>4, <2>13
    <3> QED
      BY <2>4, <2>14, <2>15, <3>1 DEF WorkFaults
  <2>17. ASSUME f \in ValueFaults(s, w) PROVE FALSE
    <3>1. PICK c \in ToSet(Blocks[s].columns) :
            /\ c.source \in DOMAIN w.values
            /\ WorkValueKind(s, c.source) # "string"
            /\ Text[w.values[c.source]] \notin Readable[WorkValueKind(s, c.source)]
      BY <2>17 DEF ValueFaults
    <3>2. PICK v \in ToSet(plan.work) : v.step = s /\ v.values = w.values
      BY <1>1, <2>4, <2>13, <2>15 DEF FromPlan
    <3>3. PICK name \in DOMAIN v.values : name = c.source
      BY <3>1, <3>2
    <3>4. PICK kind : kind = WorkValueKind(v.step, name)
      OBVIOUS
    <3>5. kind # "string" /\ Text[v.values[name]] \notin Readable[kind]
      BY <3>1, <3>2, <3>3, <3>4
    <3> QED
      BY <1>1, <3>4, <3>5, KindFits
  <2>18. f \in PatternFaults(s, content[k])
    BY <2>16, <2>17
  <2> QED
    BY <2>18 DEF PatternFaults
<1> QED
  BY <1>2, <1>3

-----------------------------------------------------------------------------
(***************************************************************************)
(* The values of a plan.                                                   *)
(***************************************************************************)
\* What a name means in a scope is a column of its source.
Meant(eff) == \A n \in DOMAIN eff : eff[n].var \in ToSet(Columns[eff[n].source])

\* When all steps have their scopes, names mean columns in all of them.
LEMMA AllMeant ==
  ASSUME Ordering, OrderSound, ScopesSound, StepsPlanned, stage = "build"
  PROVE  \A s \in StepNames(program) : s \in DOMAIN scopes /\ Meant(scopes[s].effective)
<1>1. PICK sc, ord : sc = scopes /\ ord = order
  OBVIOUS
<1>2. ord \in Seq(StepNames(program)) /\ StepNames(program) \subseteq ToSet(ord) /\ DOMAIN sc = ToSet(ord)
  BY <1>1 DEF Ordering, OrderSound, StepsPlanned
<1>3. Topological(program, ord)
  BY <1>1 DEF OrderSound, Found
<1>4. program \in Program
  BY DEF Ordering
<1> DEFINE T == {k \in DOMAIN ord : ~Meant(sc[ord[k]].effective)}
<1>5. ASSUME T # {} PROVE FALSE
  <2>1. T \subseteq Nat
    BY <1>2
  <2>2. PICK m \in T : \A j \in T : m <= j
    BY <1>5, <2>1, Least
  <2>3. PICK name \in StepNames(program) : name = ord[m] /\ name \in DOMAIN sc
    BY <1>2, <2>2 DEF ToSet
  <2>4. PICK b : b = Block(program, name)
    OBVIOUS
  <2>5. PICK eff, exps : eff = sc[name].effective /\ exps = sc[name].expansions
    OBVIOUS
  <2>6. ScopeSound(program, sc, name)
    BY <1>1, <2>3 DEF ScopesSound
  <2>7. /\ ToSet(b.after) \subseteq DOMAIN sc
        /\ DOMAIN eff = InheritedNames(sc, ToSet(b.after)) \cup ImportedNames(exps, Len(exps))
        /\ \A d \in ToSet(b.after) : \A n \in DOMAIN sc[d].effective : sc[d].effective[n] = eff[n]
        /\ \A k \in DOMAIN exps : \A v \in ToSet(exps[k].vars) :
             v.var \in ToSet(Columns[exps[k].source]) /\ eff[v.visible] = Binding(exps[k], v)
    BY <2>4, <2>5, <2>6 DEF ScopeSound
  <2>8. ASSUME NEW n \in DOMAIN eff PROVE eff[n].var \in ToSet(Columns[eff[n].source])
    <3>1. CASE n \in InheritedNames(sc, ToSet(b.after))
      <4>1. PICK d \in ToSet(b.after) : n \in DOMAIN sc[d].effective
        BY <3>1 DEF InheritedNames
      <4>2. d \in StepNames(program)
        <5>1. d \in ToSet(ord)
          BY <1>2, <2>7
        <5>2. PICK j \in DOMAIN ord : ord[j] = d
          BY <5>1 DEF ToSet
        <5> QED
          BY <1>2, <5>2
      <4>3. Edge(program, name, d)
        BY <2>4, <4>1, <4>2 DEF Edge, Contains, ToSet
      <4>4. PICK j \in 1..(m - 1) : ord[j] = d
        BY <1>3, <2>2, <2>3, <4>2, <4>3 DEF Topological
      <4>5. j \in DOMAIN ord /\ j \notin T
        BY <1>2, <2>1, <2>2
      <4>6. Meant(sc[d].effective)
        BY <4>4, <4>5
      <4> QED
        BY <2>7, <4>1, <4>6 DEF Meant
    <3>2. CASE n \in ImportedNames(exps, Len(exps))
      <4>1. PICK k \in 1..Len(exps) : n \in Names(exps[k].vars)
        BY <3>2 DEF ImportedNames
      <4>2. PICK v \in ToSet(exps[k].vars) : v.visible = n
        BY <4>1 DEF Names
      <4>3. k \in DOMAIN exps
        BY <4>1
      <4> QED
        <5>1. v.var \in ToSet(Columns[exps[k].source]) /\ eff[n] = Binding(exps[k], v)
          BY <2>7, <4>2, <4>3
        <5>2. eff[n].var = v.var /\ eff[n].source = exps[k].source
          BY <5>1 DEF Binding
        <5> QED
          BY <5>1, <5>2
    <3> QED
      BY <2>7, <3>1, <3>2
  <2>9. Meant(sc[ord[m]].effective)
    BY <2>3, <2>5, <2>8 DEF Meant
  <2> QED
    BY <2>2, <2>9
<1>6. ASSUME NEW s \in StepNames(program) PROVE s \in DOMAIN sc /\ Meant(sc[s].effective)
  <2>1. PICK k \in DOMAIN ord : ord[k] = s
    BY <1>2 DEF ToSet
  <2> QED
    BY <1>2, <1>5, <2>1
<1> QED
  BY <1>1, <1>6

\* A complete plan has the values of cells.
LEMMA PlanKnown ==
  ASSUME PlanInv, MeaningInv, StepsPlanned, stage = "build"
  PROVE  ValuesKnown(plan.work)
<1>1. SUFFICES ASSUME NEW w \in ToSet(plan.work), NEW n \in DOMAIN w.values
               PROVE  KnownValue(w.values[n])
  BY DEF ValuesKnown
<1>2. PICK eff : eff = scopes[w.step].effective
  OBVIOUS
<1>3. DOMAIN w.values = DOMAIN eff /\ ValuesSound(w.values, w.rows, eff)
  BY <1>2 DEF MeaningInv, StatesSound, StateSound
<1>4. PICK c \in ToSet(w.rows) : n \in c.vars
  BY <1>3 DEF ValuesSound
<1>5. /\ c.source \in Version /\ c.rows # {} /\ c.rows \subseteq DOMAIN Cell[c.source]
      /\ eff[n].source = c.source
      /\ \A r \in c.rows : w.values[n] = Cell[c.source][r][eff[n].var].val
  BY <1>3, <1>4 DEF ValuesSound, Selection
<1>6. w.step \in StepNames(program)
  <2>1. InOrder(program, plan.work)
    BY DEF PlanInv
  <2> QED
    BY <2>1 DEF InOrder, ToSet
<1>7. Meant(eff)
  BY <1>2, <1>6, AllMeant DEF PlanInv, MeaningInv
<1>8. eff[n].var \in ToSet(Columns[c.source])
  BY <1>3, <1>5, <1>7 DEF Meant
<1>9. PICK r \in DOMAIN Cell[c.source] : w.values[n] = Cell[c.source][r][eff[n].var].val
  BY <1>5
<1> QED
  BY <1>5, <1>8, <1>9 DEF KnownValue

-----------------------------------------------------------------------------
(***************************************************************************)
(* Every step keeps the invariant.                                         *)
(***************************************************************************)
\* What is analysed has been selected.
LEMMA AnalysedSelected ==
  ASSUME Listed
  PROVE  ToSet(AnalysedSteps) \subseteq Analyses
<1>1. PICK steps : steps = manifest.steps /\ steps \in Seq(ToSet(steps))
  BY DEF Listed
<1>2. PICK all : all = [k \in DOMAIN steps |-> steps[k].name]
  OBVIOUS
<1>3. all \in Seq(ToSet(all))
  <2>1. DOMAIN all = DOMAIN steps /\ all = [k \in DOMAIN steps |-> all[k]]
    BY <1>2
  <2> QED
    BY <1>1, <2>1, SamePlaces
<1>4. PICK places : places = {k \in DOMAIN all : all[k] \in Analyses}
  OBVIOUS
<1>5. AnalysedSteps = Picked(all, places)
  BY <1>1, <1>2, <1>4 DEF AnalysedSteps, Select
<1>6. ToSet(AnalysedSteps) = {all[k] : k \in places \cap DOMAIN all}
  BY <1>3, <1>5, PickedElements
<1> QED
  BY <1>4, <1>6

\* An analysed step has a block.
LEMMA AnalysedKnown ==
  ASSUME Listed, FailInv
  PROVE  ToSet(AnalysedSteps) \subseteq DOMAIN Blocks
<1>1. Analyses \subseteq DOMAIN Blocks
  BY DEF Analyses, FailInv
<1> QED
  BY <1>1, AnalysedSelected

\* Planning ends with the values of cells, in the manifest too.
LEMMA PlanningFails ==
  ASSUME PlanInv, MeaningInv, LimitInv, CreateInv, FailInv, PlanningNext, UNCHANGED runVars
  PROVE  FailInv'
<1>1. /\ stage \notin Running /\ stage' \notin Running /\ UNCHANGED <<analysed, fault>>
      /\ \/ MakeManifest
         \/ Built
         \/ stage' \notin Late
         \/ /\ stage \in Late /\ UNCHANGED <<plan, manifest>>
            /\ stage' \in {"create", "created"} => stage \in {"create", "created"}
  <2>1. CASE ScopesNext /\ UNCHANGED <<workVars, manifest, made>>
    BY <2>1 DEF ScopesNext, ValidateSteps, Visit, Visited, Ordered, PlanStep, Accept, Running, Late, runVars, workVars
  <2>2. CASE (InheritParentStates \/ ExpandStep \/ BuildStep \/ Built) /\ UNCHANGED <<manifest, made>>
    BY <2>2 DEF InheritParentStates, ExpandStep, BuildStep, Built, Running, Late, runVars
  <2>3. CASE (SelectComponent \/ ApplyLimit \/ KeepAncestors \/ KeepWork) /\ UNCHANGED <<manifest, made>>
    BY <2>3 DEF SelectComponent, ApplyLimit, KeepAncestors, KeepWork, Running, Late, runVars
  <2>4. CASE MakeManifest
    BY <2>4 DEF MakeManifest, Running, Late, runVars, plannedVars, workVars
  <2>5. CASE PopulateWork \/ Publish
    <3>1. /\ stage = "create" /\ stage' \in {"create", "created", "broken"}
          /\ UNCHANGED <<plan, manifest, analysed, fault>>
      BY <2>5 DEF PopulateWork, Publish, runVars, plannedVars, workVars
    <3> QED
      BY <3>1 DEF Running, Late
  <2> QED
    BY <2>1, <2>2, <2>3, <2>4, <2>5 DEF PlanningNext, PlanNext
<1>2. fault = "none" /\ fault' = "none" /\ analysed' \subseteq DOMAIN Blocks
  BY <1>1 DEF FailInv, Running
<1>3. stage' \in Late \cup Running => ValuesKnown(plan'.work)
  <2>1. CASE MakeManifest
    BY <2>1 DEF MakeManifest, FailInv, Late, plannedVars, workVars
  <2>2. CASE Built
    <3>1. stage = "build" /\ UNCHANGED plan
      BY <2>2 DEF Built
    <3>2. ValuesKnown(plan.work)
      BY <3>1, PlanKnown DEF LimitInv
    <3> QED
      BY <3>1, <3>2
  <2> QED
    BY <1>1, <2>1, <2>2 DEF FailInv
<1>4. stage' \in {"create", "created"} \cup Running => FromPlan(manifest'.work, plan'.work)
  <2>1. CASE MakeManifest
    <3>1. stage = "name" /\ UNCHANGED plan /\ manifest'.work = ManifestWork(chosen)
      BY <2>1 DEF MakeManifest, plannedVars, workVars
    <3>2. PICK work, mw : work = chosen.work /\ mw = manifest'.work
      OBVIOUS
    <3>3. work \in Seq(ToSet(work)) /\ ToSet(work) \subseteq ToSet(plan.work)
      BY <3>1, <3>2 DEF PlanInv, InOrder, CreateInv, ChosenKnown
    <3>4. mw = [k \in DOMAIN work |-> [step |-> work[k].step, row |-> work[k].row,
                                       deps |-> Links(work[k].parents), values |-> work[k].values]]
      BY <3>1, <3>2 DEF ManifestWork
    <3>5. mw \in Seq(ToSet(mw))
      <4>1. DOMAIN mw = DOMAIN work /\ mw = [k \in DOMAIN work |-> mw[k]]
        BY <3>4
      <4> QED
        BY <3>3, <4>1, SamePlaces
    <3>6. ASSUME NEW w \in ToSet(mw) PROVE \E v \in ToSet(plan.work) : v.step = w.step /\ v.values = w.values
      <4>1. PICK k \in DOMAIN work : w = mw[k]
        BY <3>4 DEF ToSet
      <4>2. PICK v \in ToSet(work) : v = work[k]
        BY DEF ToSet
      <4>3. v.step = w.step /\ v.values = w.values
        BY <3>4, <4>1, <4>2
      <4> QED
        BY <3>3, <4>3
    <3> QED
      BY <3>1, <3>2, <3>5, <3>6 DEF FromPlan
  <2>2. CASE Built
    BY <2>2 DEF Built, Running
  <2> QED
    BY <1>1, <2>1, <2>2 DEF FailInv, Late
<1> QED
  BY <1>1, <1>2, <1>3, <1>4 DEF FailInv, Running

\* A command starts to analyse what has finished, or weakly.
LEMMA ExecuteFails ==
  ASSUME Listed, FailInv, Execute
  PROVE  FailInv'
<1>1. /\ stage \in {"created", "done"} /\ stage' \in {"analyse", "close"}
      /\ fault' = "none" /\ UNCHANGED <<plan, manifest, component, analysed>>
      /\ outcome' \in [DOMAIN manifest.work -> Statuses]
  BY DEF Execute, madeVars, plannedVars, workVars
<1>2. AnalysedSteps' = AnalysedSteps
  BY <1>1, SameAnalyses
<1>3. stage' = "analyse" => ToSet(todo') \subseteq ToSet(AnalysedSteps)
  BY DEF Execute
<1>4. ASSUME stage' = "analyse", ~weak', NEW k \in DOMAIN manifest.work PROVE outcome'[k] = "FINISHED"
  <2>1. FinalStatus(outcome') = "FINISHED"
    BY <1>4 DEF Execute
  <2>2. outcome'[k] \in {outcome'[j] : j \in DOMAIN outcome'} /\ outcome'[k] \in Statuses
    BY <1>1
  <2>3. outcome'[k] \notin {"NOTSTARTED", "INTERRUPTED", "ERROR", "BLOCKED"}
    BY <2>1, <2>2 DEF FinalStatus
  <2> QED
    BY <2>2, <2>3 DEF Statuses
<1>5. ValuesKnown(plan.work) /\ FromPlan(manifest.work, plan.work) /\ analysed \subseteq DOMAIN Blocks
  BY <1>1 DEF FailInv, Late, Running
<1> QED
  BY <1>1, <1>2, <1>3, <1>4, <1>5 DEF FailInv

\* What an analysis leaves alone.
Analysing ==
  /\ stage \in Running /\ stage' \in Running
  /\ UNCHANGED <<plan, manifest, component, analysed, weak, outcome>>

\* One step is analysed, or the analysis fails or ends.
LEMMA AnalyseFailsOnly ==
  ASSUME PlanInv, Listed, Transacted, FailInv,
         AnalyseCSV \/ AnalyseSQLite \/ AnalyseFails \/ AnalyseEnds \/ Close \/ Killed
  PROVE  FailInv'
<1>1. Analysing
  BY DEF AnalyseCSV, AnalyseSQLite, Insert, AnalyseFails, AnalyseEnds, Close, Killed, Analysing, Running,
         madeVars, plannedVars, workVars
<1>2. AnalysedSteps' = AnalysedSteps
  BY <1>1, SameAnalyses DEF Analysing
<1>3. ValuesKnown(plan.work) /\ FromPlan(manifest.work, plan.work) /\ analysed \subseteq DOMAIN Blocks
  BY <1>1 DEF FailInv, Analysing
<1>4. CASE AnalyseCSV \/ AnalyseSQLite
  <2>1. stage = "analyse" /\ stage' = "analyse" /\ todo # <<>> /\ todo' = Tail(todo) /\ UNCHANGED fault
    BY <1>4 DEF AnalyseCSV, AnalyseSQLite
  <2>2. PICK t, u : t = todo /\ u = Tail(t)
    OBVIOUS
  <2>3. t \in Seq(ToSet(t)) /\ t # <<>>
    BY <2>1, <2>2 DEF Transacted
  <2>4. u \in Seq(ToSet(t))
    BY <2>2, <2>3
  <2>5. ToSet(u) \subseteq ToSet(t)
    BY <2>4 DEF ToSet
  <2>6. ToSet(todo') \subseteq ToSet(AnalysedSteps)
    BY <2>1, <2>2, <2>5 DEF FailInv
  <2> QED
    BY <1>1, <1>2, <1>3, <2>1, <2>6 DEF FailInv, Analysing
<1>5. CASE AnalyseFails
  <2>1. stage = "analyse" /\ stage' = "close" /\ todo # <<>> /\ fault' \in StepFaults(Head(todo))
    BY <1>5 DEF AnalyseFails
  <2>2. PICK t, s : t = todo /\ s = Head(t)
    OBVIOUS
  <2>3. t \in Seq(ToSet(t)) /\ t # <<>>
    BY <2>1, <2>2 DEF Transacted
  <2>4. s \in ToSet(t)
    BY <2>2, <2>3
  <2>5. s \in ToSet(AnalysedSteps) \cap DOMAIN Blocks
    BY <2>1, <2>2, <2>4, AnalysedKnown DEF FailInv
  <2>6. plan.work \in Seq(ToSet(plan.work))
    BY DEF PlanInv, InOrder
  <2>7. PICK f \in StepFaults(s) : f = fault'
    BY <2>1, <2>2
  <2>8. /\ f \in {"file", "capture", "status column", "table"}
        /\ f \in {"status column", "table"} => BadTable(AnalysedSteps, weak)
    BY <2>1, <2>5, <2>6, StepFails
  <2> QED
    BY <1>1, <1>2, <1>3, <2>1, <2>7, <2>8 DEF FailInv, Analysing
<1>6. CASE AnalyseEnds \/ Close \/ Killed
  <2>1. stage' \in {"close", "done", "killed"} /\ UNCHANGED fault
    BY <1>6 DEF AnalyseEnds, Close, Killed
  <2> QED
    BY <1>1, <1>2, <1>3, <2>1 DEF FailInv, Analysing
<1> QED
  BY <1>4, <1>5, <1>6

\* Every step keeps the invariant.
LEMMA FailKeeps ==
  ASSUME PlanInv, MeaningInv, Listed, Transacted, LimitInv, CreateInv, FailInv, [Next]_vars
  PROVE  FailInv'
<1>1. CASE PlanningNext /\ UNCHANGED runVars
  BY <1>1, PlanningFails
<1>2. CASE PlanAnalyses
  <2>1. stage = "select" /\ stage' \in {"selected", "failed"} /\ UNCHANGED <<plan, fault>>
    BY <1>2 DEF PlanAnalyses
  <2>2. analysed' \subseteq DOMAIN Blocks
    BY <1>2, BlockAssumption DEF PlanAnalyses
  <2>3. fault = "none" /\ ValuesKnown(plan.work)
    BY <2>1 DEF FailInv, Late
  <2> QED
    BY <2>1, <2>2, <2>3 DEF FailInv, Running
<1>3. CASE Execute
  BY <1>3, ExecuteFails
<1>4. CASE AnalyseCSV \/ AnalyseSQLite \/ AnalyseFails \/ AnalyseEnds \/ Close \/ Killed
  BY <1>4, AnalyseFailsOnly
<1>5. CASE UNCHANGED vars
  <2>1. UNCHANGED <<stage, todo, plan, manifest, component, analysed, weak, outcome, fault>>
    BY <1>5 DEF vars, madeVars, plannedVars, workVars, runVars
  <2>2. AnalysedSteps' = AnalysedSteps
    BY <2>1, SameAnalyses
  <2> QED
    BY <2>1, <2>2 DEF FailInv
<1> QED
  BY <1>1, <1>2, <1>3, <1>4, <1>5 DEF Next

\* Initially nothing has failed.
LEMMA FailInitially ==
  ASSUME Init
  PROVE  FailInv
<1>1. stage = "check" /\ fault = "none" /\ analysed = {}
  BY DEF Init, PlanningInit, ScopesInit, PlanInit, RunInit
<1> QED
  BY <1>1 DEF FailInv, Late, Running

-----------------------------------------------------------------------------
\* An analysis of an accepted program fails for nothing but missing files,
\* captures that cannot be read, and titles that cannot be told apart in a
\* table: every value of a column can be read as the kind that the values of
\* all workpackages of the plan have together, whatever a component or a limit
\* has left of them (analyseWorkValueKindsByStep, analyseCellFromWorkValue).
THEOREM AnalysesFailForFiles == Spec => []FailsForFilesOnly
<1>1. Init => PlanInv /\ MeaningInv /\ Listed /\ Transacted /\ LimitInv /\ CreateInv /\ FailInv
  BY PlanInitially, MeaningInitially, NothingListed, LimitInitially, CreateInitially, FailInitially
<1>2. (PlanInv /\ MeaningInv /\ Listed /\ Transacted /\ LimitInv /\ CreateInv /\ FailInv) /\ [Next]_vars
        => (PlanInv /\ MeaningInv /\ Listed /\ Transacted /\ LimitInv /\ CreateInv /\ FailInv)'
  <2> SUFFICES ASSUME PlanInv, MeaningInv, Listed, Transacted, LimitInv, CreateInv, FailInv, [Next]_vars
               PROVE  (PlanInv /\ MeaningInv /\ Listed /\ Transacted /\ LimitInv /\ CreateInv /\ FailInv)'
    OBVIOUS
  <2>1. PlanInv' /\ MeaningInv' /\ Listed' /\ Transacted' /\ CreateInv' /\ FailInv'
    BY PlanKeeps, MeaningKeeps, ListedKept, TransactedKept, CreateKeeps, FailKeeps
  <2>2. OrderSound /\ OrderSound'
    BY <2>1 DEF MeaningInv
  <2> QED
    BY <2>1, <2>2, LimitInvKeeps
<1>3. FailInv => FailsForFilesOnly
  <2> SUFFICES ASSUME FailInv, fault \in {"status column", "table"}
               PROVE  \E s \in ToSet(AnalysedSteps) :
                        ~IsInjective([h \in DOMAIN OutputHeader(s) |-> SQLiteName(OutputHeader(s)[h])])
    BY DEF FailInv, FailsForFilesOnly
  <2>1. BadTable(AnalysedSteps, weak)
    BY DEF FailInv
  <2> QED
    BY <2>1, Zenon DEF BadTable, OutputHeader
<1> QED
  BY <1>1, <1>2, <1>3, PTL DEF Spec

-----------------------------------------------------------------------------
(***************************************************************************)
(* What the tables of a run hold.  The invariant.                          *)
(***************************************************************************)
\* A column that shows no pattern shows a name that its step sees.
BlocksSeen ==
  \A s \in analysed : \A c \in ToSet(Blocks[s].columns) :
    IsPattern(s, c) \/ c.source \in DOMAIN scopes[s].effective

\* The same of the workpackages of a manifest.
ColumnsKnown(mw, steps) ==
  \A w \in ToSet(mw) : w.step \in steps => \A c \in ToSet(Blocks[w.step].columns) :
    IsPattern(w.step, c) \/ c.source \in DOMAIN w.values

\* The statuses of the workpackages, and what those that have finished have
\* left.
OutcomesKnown(mw, st, left, end, steps) ==
  /\ DOMAIN st = DOMAIN mw
  /\ end = "FINISHED" => \A k \in DOMAIN mw : st[k] = "FINISHED"
  /\ \A k \in DOMAIN mw : st[k] = "FINISHED" /\ mw[k].step \in steps => left[k] \in Contents[mw[k].step]

\* Whose tables are not to come, have them in out.
Tabled(out, coming) ==
  \A s \in ToSet(AnalysedSteps) : Clash(s) \/ s \in coming \/ (Key(s) \in DOMAIN out /\ out[Key(s)] = Table(s))

\* A command with this end has analysed the run.
Succeeded(end, wk) == end = "FINISHED" \/ (wk /\ end = "ERROR")

\* The columns can be shown, from the planning of the analyses on.
ColumnsPlanned == stage \in {"selected", "limit", "keep", "name"} => BlocksSeen

\* The stages in which there is a manifest.
Recording == {"create", "created"} \cup Running

ColumnsRecorded ==
  stage \in Recording => OneRowEach(manifest.work) /\ ColumnsKnown(manifest.work, analysed)

OutcomesSound ==
  IF stage \in Running THEN OutcomesKnown(manifest.work, outcome, content, final, Analyses)
  ELSE outcome = <<>>

\* An analysis has made the tables of the steps that are done, and one that
\* has ended well those of all.
TablesSound ==
  /\ stage # "analyse" \/ ~database => pending = <<>>
  /\ stage = "analyse" => Tabled(IF database THEN pending ELSE output, ToSet(todo))
  /\ stage \in {"close", "done"} /\ fault = "none" /\ Succeeded(final, weak) => Tabled(output, {})
  /\ stage \in {"close", "done"} /\ fault # "none" => final = "ERROR"
  /\ stage = "done" => root = final

\* The invariant of AnalysisComplete.
TabInv == ColumnsPlanned /\ ColumnsRecorded /\ OutcomesSound /\ TablesSound

-----------------------------------------------------------------------------
(***************************************************************************)
(* Every step keeps the invariant.                                         *)
(***************************************************************************)
\* The steps of a planning: only MakeManifest makes the manifest, and they
\* come before all commands.
LEMMA PlanningStages ==
  ASSUME PlanningNext
  PROVE  /\ stage \notin Running /\ stage' \notin Running /\ UNCHANGED analysed
         /\ MakeManifest \/ (UNCHANGED manifest /\ (stage' \in Recording => stage \in Recording))
         /\ stage' \in {"selected", "limit", "keep", "name"} =>
              stage \in {"selected", "limit", "keep", "name"} /\ UNCHANGED scopes
<1>1. CASE ScopesNext /\ UNCHANGED <<workVars, manifest, made>>
  BY <1>1 DEF ScopesNext, ValidateSteps, Visit, Visited, Ordered, PlanStep, Accept, Running, Recording, workVars
<1>2. CASE (InheritParentStates \/ ExpandStep \/ BuildStep \/ Built) /\ UNCHANGED <<manifest, made>>
  BY <1>2 DEF InheritParentStates, ExpandStep, BuildStep, Built, Running, Recording
<1>3. CASE (SelectComponent \/ ApplyLimit \/ KeepAncestors \/ KeepWork) /\ UNCHANGED <<manifest, made>>
  BY <1>3 DEF SelectComponent, ApplyLimit, KeepAncestors, KeepWork, Running, Recording
<1>4. CASE MakeManifest
  BY <1>4 DEF MakeManifest, Running, plannedVars, workVars
<1>5. CASE PopulateWork \/ Publish
  <2>1. stage = "create" /\ stage' \in {"create", "created", "broken"} /\ UNCHANGED <<analysed, manifest>>
    BY <1>5 DEF PopulateWork, Publish, plannedVars, workVars
  <2> QED
    BY <2>1 DEF Running, Recording
<1> QED
  BY <1>1, <1>2, <1>3, <1>4, <1>5 DEF PlanningNext, PlanNext

\* An analysis shows names that its step sees, or patterns.
LEMMA ColumnsPlannedKept ==
  ASSUME ColumnsPlanned, [Next]_vars
  PROVE  ColumnsPlanned'
<1>1. CASE PlanningNext
  <2>1. stage' \in {"selected", "limit", "keep", "name"} =>
          stage \in {"selected", "limit", "keep", "name"} /\ UNCHANGED <<scopes, analysed>>
    BY <1>1, PlanningStages
  <2> QED
    BY <2>1 DEF ColumnsPlanned, BlocksSeen
<1>2. CASE PlanAnalyses
  <2>1. UNCHANGED scopes /\ (stage' = "selected" => \A s \in analysed' : BlockErrors(s) = {})
        /\ stage' \in {"selected", "failed"}
    BY <1>2 DEF PlanAnalyses
  <2>2. ASSUME stage' = "selected", NEW s \in analysed', NEW c \in ToSet(Blocks[s].columns)
        PROVE  IsPattern(s, c) \/ c.source \in DOMAIN scopes[s].effective
    <3>1. BlockErrors(s) = {}
      BY <2>1, <2>2
    <3>2. {x.source : x \in ToSet(Blocks[s].columns)} \subseteq DOMAIN scopes[s].effective \cup PatternNames(s)
      BY <3>1 DEF BlockErrors
    <3> QED
      BY <3>2 DEF IsPattern
  <2> QED
    BY <2>1, <2>2 DEF ColumnsPlanned, BlocksSeen
<1>3. CASE Execute \/ AnalyseCSV \/ AnalyseSQLite \/ AnalyseFails \/ AnalyseEnds \/ Close \/ Killed
  <2>1. stage' \in Running
    BY <1>3 DEF Execute, AnalyseCSV, AnalyseSQLite, AnalyseFails, AnalyseEnds, Close, Killed, Running
  <2> QED
    BY <2>1 DEF ColumnsPlanned, Running
<1>4. CASE UNCHANGED vars
  <2>1. UNCHANGED <<stage, scopes, analysed>>
    BY <1>4 DEF vars, madeVars, plannedVars, workVars
  <2> QED
    BY <2>1 DEF ColumnsPlanned, BlocksSeen
<1> QED
  BY <1>1, <1>2, <1>3, <1>4 DEF Next

\* The workpackages of a manifest have rows of their own and the values of
\* the columns.
LEMMA ManifestRecorded ==
  ASSUME PlanInv, CreateInv, ColumnsPlanned, MakeManifest
  PROVE  ColumnsRecorded'
<1>1. stage = "name" /\ manifest'.work = ManifestWork(chosen) /\ UNCHANGED analysed
  BY DEF MakeManifest, plannedVars, workVars
<1>2. PICK work, mw : work = chosen.work /\ mw = manifest'.work
  OBVIOUS
<1>3. InOrder(program, work) /\ ToSet(work) \subseteq ToSet(plan.work) /\ WorkNamed /\ BlocksSeen
  BY <1>1, <1>2 DEF PlanInv, CreateInv, ChosenKnown, Late, ColumnsPlanned
<1>4. mw = [k \in DOMAIN work |-> [step |-> work[k].step, row |-> work[k].row,
                                   deps |-> Links(work[k].parents), values |-> work[k].values]]
  BY <1>1, <1>2 DEF ManifestWork
<1>5. /\ DOMAIN mw = DOMAIN work
      /\ \A k \in DOMAIN work : mw[k].step = work[k].step /\ mw[k].row = work[k].row /\ mw[k].values = work[k].values
  BY <1>4
<1>6. OneRowEach(mw)
  <2> SUFFICES ASSUME NEW j \in DOMAIN work, NEW k \in DOMAIN work,
                      mw[j].step = mw[k].step, mw[j].row = mw[k].row
               PROVE  j = k
    BY <1>5 DEF OneRowEach
  <2>1. WorkId(work[j]) = WorkId(work[k])
    BY <1>5 DEF WorkId
  <2>2. \A x \in DOMAIN work : \A y \in 1..(x - 1) : WorkId(work[y]) # WorkId(work[x])
    BY <1>3 DEF InOrder, AfterItsDependencies
  <2>3. j \in Nat \ {0} /\ k \in Nat \ {0}
    BY <1>3 DEF InOrder
  <2>4. ~(j \in 1..(k - 1)) /\ ~(k \in 1..(j - 1))
    BY <2>1, <2>2
  <2> QED
    BY <2>3, <2>4
<1>7. ColumnsKnown(mw, analysed)
  <2> SUFFICES ASSUME NEW w \in ToSet(mw), w.step \in analysed, NEW c \in ToSet(Blocks[w.step].columns),
                      ~IsPattern(w.step, c)
               PROVE  c.source \in DOMAIN w.values
    BY DEF ColumnsKnown
  <2>1. PICK k \in DOMAIN work : w = mw[k]
    BY <1>5 DEF ToSet
  <2>2. PICK v \in ToSet(plan.work) : v = work[k]
    BY <1>3 DEF ToSet
  <2>3. w.step = v.step /\ w.values = v.values
    BY <1>5, <2>1, <2>2
  <2>4. DOMAIN v.values = DOMAIN scopes[v.step].effective
    BY <1>3 DEF WorkNamed
  <2>5. c.source \in DOMAIN scopes[w.step].effective
    BY <1>3 DEF BlocksSeen
  <2> QED
    BY <2>3, <2>4, <2>5
<1> QED
  BY <1>1, <1>2, <1>6, <1>7 DEF ColumnsRecorded

\* The manifest keeps them.
LEMMA ColumnsRecordedKept ==
  ASSUME PlanInv, CreateInv, ColumnsPlanned, ColumnsRecorded, [Next]_vars
  PROVE  ColumnsRecorded'
<1>1. CASE MakeManifest
  BY <1>1, ManifestRecorded
<1>2. CASE UNCHANGED <<manifest, analysed>> /\ (stage' \in Recording => stage \in Recording)
  BY <1>2 DEF ColumnsRecorded
<1>3. CASE PlanningNext
  BY <1>1, <1>2, <1>3, PlanningStages
<1>4. CASE PlanAnalyses
  <2>1. stage' \notin Recording
    BY <1>4 DEF PlanAnalyses, Recording, Running
  <2> QED
    BY <2>1 DEF ColumnsRecorded
<1>5. CASE Execute \/ AnalyseCSV \/ AnalyseSQLite \/ AnalyseFails \/ AnalyseEnds \/ Close \/ Killed
  <2>1. UNCHANGED <<manifest, analysed>> /\ stage \in Recording
    BY <1>5 DEF Execute, AnalyseCSV, AnalyseSQLite, AnalyseFails, AnalyseEnds, Close, Killed, Recording, Running,
                madeVars, plannedVars, workVars
  <2> QED
    BY <1>2, <2>1
<1>6. CASE UNCHANGED vars
  <2>1. UNCHANGED <<manifest, analysed, stage>>
    BY <1>6 DEF vars, madeVars, plannedVars, workVars
  <2> QED
    BY <1>2, <2>1
<1> QED
  BY <1>3, <1>4, <1>5, <1>6 DEF Next

\* A command leaves statuses, and what its finished workpackages may leave.
LEMMA ExecuteOutcomes ==
  ASSUME OutcomesSound, Execute
  PROVE  OutcomesSound'
<1>1. /\ stage \in {"created", "done"} /\ stage' \in Running /\ UNCHANGED <<manifest, component, analysed>>
      /\ final' = FinalStatus(outcome')
  BY DEF Execute, Running, madeVars, plannedVars, workVars
<1>2. Analyses' = Analyses
  BY <1>1 DEF Analyses
<1>3. PICK mw : mw = manifest.work
  OBVIOUS
<1>4. outcome' \in [DOMAIN mw -> Statuses]
  BY <1>3 DEF Execute
<1>5. ASSUME final' = "FINISHED", NEW k \in DOMAIN mw PROVE outcome'[k] = "FINISHED"
  <2>1. FinalStatus(outcome') = "FINISHED"
    BY <1>1, <1>5
  <2>2. outcome'[k] \in {outcome'[j] : j \in DOMAIN outcome'} /\ outcome'[k] \in Statuses
    BY <1>4
  <2>3. outcome'[k] \notin {"NOTSTARTED", "INTERRUPTED", "ERROR", "BLOCKED"}
    BY <2>1, <2>2 DEF FinalStatus
  <2> QED
    BY <2>2, <2>3 DEF Statuses
<1>6. ASSUME NEW k \in DOMAIN mw, outcome'[k] = "FINISHED", mw[k].step \in Analyses
      PROVE  content'[k] \in Contents[mw[k].step]
  <2>1. k \in DOMAIN content' /\
        IF k \in DOMAIN outcome /\ outcome[k] = "FINISHED" THEN content'[k] = content[k]
        ELSE content'[k] \in Contents[mw[k].step]
    BY <1>3, <1>6 DEF Execute
  <2>2. CASE k \in DOMAIN outcome /\ outcome[k] = "FINISHED"
    <3>1. outcome # <<>>
      <4>1. ASSUME outcome = <<>> PROVE DOMAIN outcome = {}
        BY <4>1
      <4> QED
        BY <2>2, <4>1
    <3>2. stage \in Running
      BY <3>1 DEF OutcomesSound
    <3>3. content[k] \in Contents[mw[k].step]
      BY <1>3, <1>6, <2>2, <3>2 DEF OutcomesSound, OutcomesKnown
    <3> QED
      BY <2>1, <2>2, <3>3
  <2> QED
    BY <2>1, <2>2
<1>7. OutcomesKnown(mw, outcome', content', final', Analyses)
  BY <1>4, <1>5, <1>6 DEF OutcomesKnown
<1> QED
  BY <1>1, <1>2, <1>3, <1>7 DEF OutcomesSound

\* Nothing else changes them, but for a failed analysis, which is an error.
LEMMA OutcomesKept ==
  ASSUME OutcomesSound, [Next]_vars
  PROVE  OutcomesSound'
<1>1. CASE Execute
  BY <1>1, ExecuteOutcomes
<1>2. CASE PlanningNext /\ UNCHANGED runVars
  <2>1. stage \notin Running /\ stage' \notin Running /\ UNCHANGED outcome
    BY <1>2, PlanningStages DEF runVars
  <2> QED
    BY <2>1 DEF OutcomesSound
<1>3. CASE PlanAnalyses
  <2>1. stage \notin Running /\ stage' \notin Running /\ UNCHANGED outcome
    BY <1>3 DEF PlanAnalyses, Running
  <2> QED
    BY <2>1 DEF OutcomesSound
<1>4. CASE AnalyseCSV \/ AnalyseSQLite \/ AnalyseFails \/ AnalyseEnds \/ Close \/ Killed
  <2>1. /\ stage \in Running /\ stage' \in Running /\ final' \in {final, "ERROR"}
        /\ UNCHANGED <<manifest, component, analysed, outcome, content>>
    BY <1>4 DEF AnalyseCSV, AnalyseSQLite, AnalyseFails, AnalyseEnds, Close, Killed, Running,
                madeVars, plannedVars, workVars
  <2>2. Analyses' = Analyses
    BY <2>1 DEF Analyses
  <2> QED
    BY <2>1, <2>2 DEF OutcomesSound, OutcomesKnown
<1>5. CASE UNCHANGED vars
  <2>1. UNCHANGED <<stage, final, manifest, component, analysed, outcome, content>>
    BY <1>5 DEF vars, runVars, madeVars, plannedVars, workVars
  <2>2. Analyses' = Analyses
    BY <2>1 DEF Analyses
  <2> QED
    BY <2>1, <2>2 DEF OutcomesSound
<1> QED
  BY <1>1, <1>2, <1>3, <1>4, <1>5 DEF Next

\* The tables of a command do not change while it analyses.
LEMMA SameTables ==
  ASSUME UNCHANGED <<plan, manifest, component, analysed, database, weak, outcome, content, commands>>
  PROVE  /\ AnalysedSteps' = AnalysedSteps
         /\ \A s : Key(s)' = Key(s) /\ Table(s)' = Table(s)
         /\ \A s : Clash(s)' <=> Clash(s)
<1>1. AnalysedSteps' = AnalysedSteps
  BY SameAnalyses
<1>2. \A s : Key(s)' = Key(s)
  BY DEF Key
<1>3. \A s : Clash(s)' <=> Clash(s)
  BY <1>1, <1>2 DEF Clash
<1>4. ASSUME NEW s PROVE Table(s)' = Table(s)
  <2>1. StepWork(s)' = StepWork(s)
    BY DEF StepWork, Select
  <2>2. \A n : WorkValueKind(s, n)' = WorkValueKind(s, n)
    BY DEF WorkValueKind, Select
  <2>3. \A col, w, left, k : ColumnCells(s, col, w, left, k)' = ColumnCells(s, col, w, left, k)
    BY <2>2 DEF ColumnCells, ColumnKinds
  <2>4. \A w, left : WorkRows(s, w, left)' = WorkRows(s, w, left)
    BY <2>3 DEF WorkRows
  <2>5. \A k : RowsOf(s, k)' = RowsOf(s, k)
    BY <2>4 DEF RowsOf, WeakMissingRow
  <2>6. StepRows(s)' = StepRows(s)
    BY <2>1, <2>5 DEF StepRows
  <2>7. OutputHeader(s)' = OutputHeader(s)
    BY DEF OutputHeader
  <2> QED
    BY <2>6, <2>7 DEF Table
<1> QED
  BY <1>1, <1>2, <1>3, <1>4

\* One more table: a step of another name does not lose its own to it.
LEMMA TableAdded ==
  ASSUME NEW out, NEW t, t \in Seq(ToSet(t)), t # <<>>, Head(t) \in ToSet(AnalysedSteps),
         Tabled(out, ToSet(t))
  PROVE  Tabled(Updated(out, Key(Head(t)), Table(Head(t))), ToSet(Tail(t)))
<1>1. PICK h, u : h = Head(t) /\ u = Tail(t)
  OBVIOUS
<1>2. PICK n \in Nat : n = Len(t) /\ n # 0 /\ DOMAIN t = 1..n
  OBVIOUS
<1>3. DOMAIN u = 1..(n - 1) /\ h = t[1] /\ \A i \in 1..(n - 1) : u[i] = t[i + 1]
  BY <1>1, <1>2
<1>4. ToSet(t) \subseteq {h} \cup ToSet(u)
  <2> SUFFICES ASSUME NEW i \in 1..n PROVE t[i] \in {h} \cup ToSet(u)
    BY <1>2 DEF ToSet
  <2>1. CASE i = 1
    BY <1>3, <2>1
  <2>2. CASE i # 1
    <3>1. i - 1 \in DOMAIN u /\ u[i - 1] = t[i]
      BY <1>3, <2>2
    <3> QED
      BY <3>1 DEF ToSet
  <2> QED
    BY <2>1, <2>2
<1>5. PICK key, new : key = Key(h) /\ new = Table(h)
  OBVIOUS
<1>6. PICK to : to = Updated(out, key, new)
  OBVIOUS
<1>7. DOMAIN to = DOMAIN out \cup {key} /\ to[key] = new /\ \A x \in DOMAIN out : x # key => to[x] = out[x]
  BY <1>6 DEF Updated
<1>8. ASSUME NEW s \in ToSet(AnalysedSteps), ~Clash(s), s \notin ToSet(u)
      PROVE  Key(s) \in DOMAIN to /\ to[Key(s)] = Table(s)
  <2>1. CASE s = h
    BY <1>5, <1>7, <2>1
  <2>2. CASE s # h
    <3>1. s \notin ToSet(t)
      BY <1>4, <1>8, <2>2
    <3>2. Key(s) \in DOMAIN out /\ out[Key(s)] = Table(s)
      BY <1>8, <3>1 DEF Tabled
    <3>3. Key(s) # key
      BY <1>1, <1>5, <1>8, <2>2 DEF Clash
    <3> QED
      BY <1>7, <3>2, <3>3
  <2> QED
    BY <2>1, <2>2
<1>9. Tabled(to, ToSet(u))
  BY <1>8 DEF Tabled
<1> QED
  BY <1>1, <1>5, <1>6, <1>9

\* Every step of a command keeps the tables.
LEMMA AnalysingTables ==
  ASSUME PlanInv, Listed, Transacted, FailInv, TablesSound,
         AnalyseCSV \/ AnalyseSQLite \/ AnalyseFails \/ AnalyseEnds \/ Close \/ Killed
  PROVE  TablesSound'
<1>0. UNCHANGED <<plan, manifest, component, analysed, database, weak, outcome, content, commands>>
  BY DEF AnalyseCSV, AnalyseSQLite, Insert, AnalyseFails, AnalyseEnds, Close, Killed, madeVars, plannedVars, workVars
<1>1. /\ AnalysedSteps' = AnalysedSteps
      /\ \A s : Key(s)' = Key(s) /\ Table(s)' = Table(s)
      /\ \A s : Clash(s)' <=> Clash(s)
  BY <1>0, SameTables
<1>2. CASE AnalyseCSV \/ AnalyseSQLite
  <2>1. stage = "analyse" /\ stage' = "analyse" /\ todo # <<>> /\ todo' = Tail(todo)
    BY <1>2 DEF AnalyseCSV, AnalyseSQLite
  <2>2. PICK t : t = todo
    OBVIOUS
  <2>3. t \in Seq(ToSet(t)) /\ t # <<>>
    BY <2>1, <2>2 DEF Transacted
  <2>4. Head(t) \in ToSet(AnalysedSteps)
    <3>1. Head(t) \in ToSet(t)
      BY <2>3
    <3> QED
      BY <2>1, <2>2, <3>1 DEF FailInv
  <2>5. PICK out : out = IF database THEN pending ELSE output
    OBVIOUS
  <2>6. Tabled(out, ToSet(t))
    BY <2>1, <2>2, <2>5 DEF TablesSound
  <2>7. PICK to : to = Updated(out, Key(Head(t)), Table(Head(t)))
    OBVIOUS
  <2>8. Tabled(to, ToSet(Tail(t)))
    BY <2>3, <2>4, <2>6, <2>7, TableAdded
  <2>9. to = IF database THEN pending' ELSE output'
    <3>1. CASE AnalyseCSV
      <4>1. ~database /\ output' = Updated(output, Head(todo), Table(Head(todo)))
        BY <3>1 DEF AnalyseCSV
      <4>2. Key(Head(todo)) = Head(todo)
        BY <4>1 DEF Key
      <4> QED
        BY <2>2, <2>5, <2>7, <4>1, <4>2
    <3>2. CASE AnalyseSQLite
      <4>1. database /\ pending' = Updated(pending, Key(Head(todo)), Table(Head(todo)))
        BY <3>2 DEF AnalyseSQLite, Insert
      <4> QED
        BY <2>2, <2>5, <2>7, <4>1
    <3> QED
      BY <1>2, <3>1, <3>2
  <2>10. Tabled(IF database THEN pending ELSE output, ToSet(todo))'
    <3>1. PICK coming : coming = ToSet(todo') /\ coming = ToSet(Tail(t))
      BY <2>1, <2>2
    <3>2. to = (IF database THEN pending ELSE output)'
      BY <1>0, <2>9
    <3> QED
      BY <1>1, <2>8, <3>1, <3>2 DEF Tabled
  <2>11. ~database => pending' = <<>>
    <3>1. CASE AnalyseCSV
      BY <3>1 DEF AnalyseCSV, TablesSound
    <3>2. CASE AnalyseSQLite
      BY <3>2 DEF AnalyseSQLite
    <3> QED
      BY <1>2, <3>1, <3>2
  <2> QED
    BY <1>0, <2>1, <2>10, <2>11 DEF TablesSound
<1>3. CASE AnalyseFails
  <2>1. /\ stage = "analyse" /\ stage' = "close" /\ todo # <<>> /\ fault' \in StepFaults(Head(todo))
        /\ pending' = <<>> /\ final' = "ERROR"
    BY <1>3 DEF AnalyseFails
  <2>2. PICK t, s : t = todo /\ s = Head(t)
    OBVIOUS
  <2>3. t \in Seq(ToSet(t)) /\ t # <<>>
    BY <2>1, <2>2 DEF Transacted
  <2>4. s \in ToSet(t)
    BY <2>2, <2>3
  <2>5. s \in ToSet(AnalysedSteps) \cap DOMAIN Blocks
    BY <2>1, <2>2, <2>4, AnalysedKnown DEF FailInv
  <2>6. plan.work \in Seq(ToSet(plan.work))
    BY DEF PlanInv, InOrder
  <2>7. PICK f \in StepFaults(s) : f = fault'
    BY <2>1, <2>2
  <2>8. f \in {"file", "capture", "status column", "table"}
    BY <2>1, <2>5, <2>6, StepFails
  <2> QED
    BY <2>1, <2>7, <2>8 DEF TablesSound
<1>4. CASE AnalyseEnds
  <2>1. /\ stage = "analyse" /\ stage' = "close" /\ todo = <<>> /\ pending' = <<>>
        /\ output' = Joined(pending, output) /\ UNCHANGED fault
    BY <1>4 DEF AnalyseEnds
  <2>2. fault' = "none"
    BY <2>1 DEF FailInv
  <2>3. ToSet(todo) = {}
    BY <2>1 DEF ToSet
  <2>4. ASSUME NEW s \in ToSet(AnalysedSteps), ~Clash(s)
        PROVE  Key(s) \in DOMAIN output' /\ output'[Key(s)] = Table(s)
    <3>1. PICK out : out = IF database THEN pending ELSE output
      OBVIOUS
    <3>2. Key(s) \in DOMAIN out /\ out[Key(s)] = Table(s)
      BY <2>1, <2>3, <2>4, <3>1 DEF TablesSound, Tabled
    <3>3. CASE database
      BY <2>1, <3>1, <3>2, <3>3 DEF Joined
    <3>4. CASE ~database
      <4>1. pending = <<>>
        BY <3>4 DEF TablesSound
      <4>2. DOMAIN pending = {}
        BY <4>1
      <4> QED
        BY <2>1, <3>1, <3>2, <3>4, <4>2 DEF Joined
    <3> QED
      BY <3>3, <3>4
  <2>5. Tabled(output, {})'
    BY <1>1, <2>4 DEF Tabled
  <2> QED
    BY <2>1, <2>2, <2>5 DEF TablesSound
<1>5. CASE Close
  <2>1. stage = "close" /\ stage' = "done" /\ root' = final /\ UNCHANGED <<final, fault, output, pending>>
    BY <1>5 DEF Close
  <2>2. Tabled(output, {}) => Tabled(output, {})'
    BY <1>1, <2>1 DEF Tabled
  <2> QED
    BY <1>0, <2>1, <2>2 DEF TablesSound
<1>6. CASE Killed
  <2>1. stage' = "killed" /\ pending' = <<>>
    BY <1>6 DEF Killed
  <2> QED
    BY <2>1 DEF TablesSound
<1> QED
  BY <1>2, <1>3, <1>4, <1>5, <1>6

\* Every step keeps them.
LEMMA TablesKept ==
  ASSUME PlanInv, Listed, Transacted, FailInv, TablesSound, [Next]_vars
  PROVE  TablesSound'
<1>1. CASE PlanningNext /\ UNCHANGED runVars
  <2>1. stage \notin Running /\ stage' \notin Running /\ UNCHANGED pending
    BY <1>1, PlanningStages DEF runVars
  <2> QED
    BY <2>1 DEF TablesSound, Running
<1>2. CASE PlanAnalyses
  <2>1. stage = "select" /\ stage' \in {"selected", "failed"} /\ UNCHANGED pending
    BY <1>2 DEF PlanAnalyses
  <2> QED
    BY <2>1 DEF TablesSound
<1>3. CASE Execute
  <2>1. /\ stage \in {"created", "done"} /\ fault' = "none"
        /\ UNCHANGED <<pending, database, manifest, component, analysed>>
        /\ IF Succeeded(final', weak') THEN stage' = "analyse" /\ todo' = AnalysedSteps ELSE stage' = "close"
    BY <1>3 DEF Execute, Succeeded, madeVars, plannedVars, workVars
  <2>2. pending' = <<>>
    BY <2>1 DEF TablesSound
  <2>3. AnalysedSteps' = AnalysedSteps
    BY <2>1, SameAnalyses
  <2>4. CASE Succeeded(final', weak')
    <3>1. stage' = "analyse" /\ todo' = AnalysedSteps'
      BY <2>1, <2>3, <2>4
    <3>2. Tabled(IF database THEN pending ELSE output, ToSet(todo))'
      BY <3>1 DEF Tabled
    <3> QED
      BY <2>2, <3>1, <3>2 DEF TablesSound
  <2>5. CASE ~Succeeded(final', weak')
    <3>1. stage' = "close"
      BY <2>1, <2>5
    <3> QED
      BY <2>1, <2>2, <2>5, <3>1 DEF TablesSound, Succeeded
  <2> QED
    BY <2>4, <2>5
<1>4. CASE AnalyseCSV \/ AnalyseSQLite \/ AnalyseFails \/ AnalyseEnds \/ Close \/ Killed
  BY <1>4, AnalysingTables
<1>5. CASE UNCHANGED vars
  <2>1. /\ UNCHANGED <<plan, manifest, component, analysed, database, weak, outcome, content, commands>>
        /\ UNCHANGED <<stage, todo, fault, final, root, output, pending>>
    BY <1>5 DEF vars, runVars, madeVars, plannedVars, workVars
  <2>2. /\ AnalysedSteps' = AnalysedSteps
        /\ \A s : Key(s)' = Key(s) /\ Table(s)' = Table(s)
        /\ \A s : Clash(s)' <=> Clash(s)
    BY <2>1, SameTables
  <2>3. Tabled(output, {}) => Tabled(output, {})'
    BY <2>1, <2>2 DEF Tabled
  <2>4. Tabled(IF database THEN pending ELSE output, ToSet(todo))
          => Tabled(IF database THEN pending ELSE output, ToSet(todo))'
    BY <2>1, <2>2 DEF Tabled
  <2> QED
    BY <2>1, <2>3, <2>4 DEF TablesSound
<1> QED
  BY <1>1, <1>2, <1>3, <1>4, <1>5 DEF Next

\* Every step keeps the invariant.
LEMMA TabKeeps ==
  ASSUME PlanInv, Listed, Transacted, CreateInv, FailInv, TabInv, [Next]_vars
  PROVE  TabInv'
<1>1. ColumnsPlanned /\ ColumnsRecorded /\ OutcomesSound /\ TablesSound
  BY DEF TabInv
<1>2. ColumnsPlanned' /\ ColumnsRecorded' /\ OutcomesSound' /\ TablesSound'
  BY <1>1, ColumnsPlannedKept, ColumnsRecordedKept, OutcomesKept, TablesKept
<1> QED
  BY <1>2 DEF TabInv

\* Initially there are no tables.
LEMMA TabInitially ==
  ASSUME Init
  PROVE  TabInv
<1>1. stage = "check" /\ outcome = <<>> /\ pending = <<>>
  BY DEF Init, PlanningInit, ScopesInit, PlanInit, RunInit
<1> QED
  BY <1>1 DEF TabInv, ColumnsPlanned, ColumnsRecorded, OutcomesSound, TablesSound, Recording, Running

\* The table of an analysed step is complete.
LEMMA TablesAre ==
  ASSUME Listed, FailInv, TabInv, stage = "done", weak \/ final = "FINISHED",
         NEW s \in ToSet(AnalysedSteps)
  PROVE  TableComplete(s, Table(s))
<1>1. /\ OneRowEach(manifest.work) /\ ColumnsKnown(manifest.work, analysed)
      /\ OutcomesKnown(manifest.work, outcome, content, final, Analyses)
  BY DEF TabInv, ColumnsRecorded, OutcomesSound, Recording, Running
<1>2. PICK mw : mw = manifest.work
  OBVIOUS
<1>3. mw \in Seq(ToSet(mw))
  BY <1>2 DEF FailInv, FromPlan, Running
<1>4. s \in DOMAIN Blocks
  BY AnalysedKnown
<1>5. s \in Analyses /\ s \in analysed
  <2>1. s \in Analyses
    BY AnalysedSelected
  <2> QED
    BY <2>1 DEF Analyses
<1>6. ASSUME NEW k \in DOMAIN mw, mw[k].step = s PROVE RowsSound(s, k)
  <2>1. CASE outcome[k] = "FINISHED"
    <3>1. content[k] \in Contents[s]
      BY <1>1, <1>2, <1>5, <1>6, <2>1 DEF OutcomesKnown
    <3>2. mw[k] \in ToSet(mw)
      BY DEF ToSet
    <3>3. \A c \in ToSet(Blocks[s].columns) : IsPattern(s, c) \/ c.source \in DOMAIN manifest.work[k].values
      BY <1>1, <1>2, <1>5, <1>6, <3>2 DEF ColumnsKnown
    <3> QED
      BY <1>4, <2>1, <3>1, <3>3, FinishedRows
  <2>2. CASE outcome[k] # "FINISHED"
    <3>1. weak
      BY <1>1, <1>2, <2>2 DEF OutcomesKnown
    <3> QED
      BY <1>4, <2>2, <3>1, UnfinishedRows
  <2> QED
    BY <2>1, <2>2
<1> QED
  BY <1>1, <1>2, <1>3, <1>4, <1>6, TableSound

-----------------------------------------------------------------------------
\* A finished run is an analysed run, and an analysis that ends well has left a
\* complete table of this command for every analysed step, unless a database
\* takes two of their names for one: every match and every value of every
\* workpackage stands in its own row and column (analyseWorkPackage,
\* collectStepAnalyseRows), whatever the patterns have matched, whichever
\* workpackages have finished, and however often the run has been continued.
THEOREM AnalysesAreComplete == Spec => []AnalysisComplete
<1>1. Init => PlanInv /\ MeaningInv /\ Listed /\ Transacted /\ LimitInv /\ CreateInv /\ FailInv /\ TabInv
  BY PlanInitially, MeaningInitially, NothingListed, LimitInitially, CreateInitially, FailInitially, TabInitially
<1>2. (PlanInv /\ MeaningInv /\ Listed /\ Transacted /\ LimitInv /\ CreateInv /\ FailInv /\ TabInv) /\ [Next]_vars
        => (PlanInv /\ MeaningInv /\ Listed /\ Transacted /\ LimitInv /\ CreateInv /\ FailInv /\ TabInv)'
  <2> SUFFICES ASSUME PlanInv, MeaningInv, Listed, Transacted, LimitInv, CreateInv, FailInv, TabInv, [Next]_vars
               PROVE  (PlanInv /\ MeaningInv /\ Listed /\ Transacted /\ LimitInv /\ CreateInv /\ FailInv /\ TabInv)'
    OBVIOUS
  <2>1. PlanInv' /\ MeaningInv' /\ Listed' /\ Transacted' /\ CreateInv' /\ FailInv' /\ TabInv'
    BY PlanKeeps, MeaningKeeps, ListedKept, TransactedKept, CreateKeeps, FailKeeps, TabKeeps
  <2>2. OrderSound /\ OrderSound'
    BY <2>1 DEF MeaningInv
  <2> QED
    BY <2>1, <2>2, LimitInvKeeps
<1>3. Listed /\ FailInv /\ TabInv => AnalysisComplete
  <2> SUFFICES ASSUME Listed, FailInv, TabInv PROVE AnalysisComplete
    OBVIOUS
  <2>1. stage = "done" => root = final /\ (fault # "none" => final = "ERROR")
    BY DEF TabInv, TablesSound
  <2>2. stage = "done" /\ root = "FINISHED" => Analysed
    BY <2>1 DEF Analysed
  <2>3. ASSUME Analysed, NEW s \in ToSet(AnalysedSteps), ~Clash(s)
        PROVE  /\ Key(s) \in DOMAIN output
               /\ output[Key(s)].at = commands
               /\ output[Key(s)].header = OutputHeader(s)
               /\ TableComplete(s, output[Key(s)])
    <3>1. stage = "done" /\ fault = "none" /\ Succeeded(final, weak) /\ (weak \/ final = "FINISHED")
      BY <2>1, <2>3 DEF Analysed, Succeeded
    <3>2. Key(s) \in DOMAIN output /\ output[Key(s)] = Table(s)
      BY <2>3, <3>1 DEF TabInv, TablesSound, Tabled
    <3>3. TableComplete(s, Table(s))
      BY <3>1, TablesAre
    <3>4. Table(s).at = commands /\ Table(s).header = OutputHeader(s)
      BY DEF Table
    <3> QED
      BY <3>2, <3>3, <3>4
  <2> QED
    BY <2>2, <2>3 DEF AnalysisComplete
<1> QED
  BY <1>1, <1>2, <1>3, PTL DEF Spec
=============================================================================
