----------------------------- MODULE WorkProofs -----------------------------
(***************************************************************************)
(* Proofs about which workpackages a plan has (WorkPlan): the plan of all  *)
(* steps has one for every combination of its dependencies and every       *)
(* choice of rows, and the plan of a component keeps just those it needs.  *)
(* Then about what a limit leaves of it, and about the work directories    *)
(* of a run (RuntimePlan): each can be made, in a place of its own.        *)
(***************************************************************************)
EXTENDS PlanProofs

-----------------------------------------------------------------------------
(***************************************************************************)
(* The invariant.                                                          *)
(***************************************************************************)
\* Combinations of workpackages of the first n dependencies that agree.
FirstCombinations(sts, deps, n) ==
  {f \in [1..n -> UNION {{WorkId(s) : s \in ToSet(sts[d])} : d \in ToSet(deps)}] :
     /\ \A k \in 1..n : f[k][1] = deps[k]
     /\ \A j, k \in 1..n : Agree(sts[f[j][1]][f[j][2]].values, sts[f[k][1]][f[k][2]].values)}

\* The rows of its source that are open to an import, given the dependencies.
OpenRows(sts, parents, e) ==
  {r \in DOMAIN Cell[e.source] :
     \A id \in parents : \A c \in ToSet(sts[id[1]][id[2]].rows) : c.source = e.source => r \in c.rows}

\* A choice of one open row for each of the first n imports.
FirstPicks(sts, parents, exps, n) ==
  {f \in [1..n -> UNION {OpenRows(sts, parents, exps[k]) : k \in 1..n}] :
     \A k \in 1..n : f[k] \in OpenRows(sts, parents, exps[k])}

\* What a state says of an import of its own.
OwnSelection(st, e) == CHOOSE c \in ToSet(st.rows) : ~c.inherited /\ c.item = e.item

\* A state stands for a combination and a choice.
StandsFor(st, ids, pick, exps, n) ==
  st.parents = ids /\ \A k \in 1..n : pick[k] \in OwnSelection(st, exps[k]).rows

\* Every combination of the first i dependencies, with every choice for the
\* first j imports, has one state.
EveryOnce(list, sts, deps, i, exps, j) ==
  \A ids \in FirstCombinations(sts, deps, i) : \A pick \in FirstPicks(sts, ToSet(ids), exps, j) :
    \E x \in DOMAIN list : \A y \in DOMAIN list : StandsFor(list[y], ids, pick, exps, j) <=> y = x

\* All the rows that are alike to an import, of those open to it.
AllAlike(rows, open, e) == \A r1 \in rows : \A r2 \in open : r2 \in rows <=> SameRow(e, r1, r2)

\* What a state has inherited is from its parents, and of each of its first j
\* imports it has one selection.
MadeOf(st, sts, exps, j) ==
  /\ \A c \in ToSet(st.rows) : c.inherited =>
       \E id \in ToSet(st.parents) : \E d \in ToSet(sts[id[1]][id[2]].rows) : d.source = c.source /\ d.rows = c.rows
  /\ \A c \in ToSet(st.rows) : ~c.inherited => \E k \in 1..j : c.item = exps[k].item
  /\ \A k \in 1..j : \E c \in ToSet(st.rows) :
       /\ \A d \in ToSet(st.rows) : (~d.inherited /\ d.item = exps[k].item) <=> d = c
       /\ AllAlike(c.rows, OpenRows(sts, ToSet(st.parents), exps[k]), exps[k])

\* The imports of a step are of different items, and an import that tells all
\* rows apart is that of a whole source.
ItemsSound(b, exps) ==
  /\ \A j, k \in DOMAIN exps : exps[j].item = exps[k].item => j = k
  /\ \A k \in DOMAIN exps :
       exps[k].full <=> /\ b.with[exps[k].item].columns = <<>>
                        /\ Len(exps[k].vars) = Len(Columns[exps[k].source])

\* How many imports the growing states have.
ImportsHandled == part - Handled

BuiltComplete ==
  \A name \in DOMAIN states :
    LET deps == Dependencies(Block(program, name))
        exps == scopes[name].expansions
    IN /\ \A k \in DOMAIN states[name] : /\ states[name][k].row = k
                                         /\ MadeOf(states[name][k], states, exps, Len(exps))
       /\ EveryOnce(states[name], states, deps, Len(deps), exps, Len(exps))

GrowingComplete ==
  /\ \A st \in ToSet(growing) : MadeOf(st, states, Expansions, ImportsHandled)
  /\ EveryOnce(growing, states, Dependencies(Current), Handled, Expansions, ImportsHandled)

WorkInv ==
  /\ \A name \in DOMAIN scopes : ItemsSound(Block(program, name), scopes[name].expansions)
  /\ stage = "build" => BuiltComplete /\ (todo # <<>> => GrowingComplete)

-----------------------------------------------------------------------------
(***************************************************************************)
(* Sequences that are combined.                                            *)
(***************************************************************************)
\* Where the elements of Picked come from: t[k] is s[at[k]].
PickedAt(at, s, places, t) ==
  /\ at \in [1..Len(t) -> places \cap DOMAIN s]
  /\ \A j, k \in 1..Len(t) : j < k => at[j] < at[k]
  /\ \A k \in 1..Len(t) : t[k] = s[at[k]]
  /\ \A i \in places \cap DOMAIN s : \E k \in 1..Len(t) : at[k] = i

\* Every element of Picked has its place.
LEMMA PickedPlaces ==
  ASSUME NEW s, s \in Seq(ToSet(s)), NEW places, NEW t, t = Picked(s, places)
  PROVE  /\ t \in Seq(ToSet(s)) /\ DOMAIN t = 1..Len(t) /\ Len(t) \in Nat
         /\ \E at : PickedAt(at, s, places, t)
<1>1. PickedUpTo(t, s, places, Len(s)) /\ DOMAIN s = 1..Len(s)
  BY PickedIs
<1>2. t \in Seq(ToSet(s))
  BY <1>1 DEF PickedUpTo
<1> QED
  BY <1>1, <1>2 DEF PickedUpTo, PickedAt

\* What is flattened are, for each k, the merged elements of parts[k] at some
\* places: every one of them is there once, at[x] is its k and of[x] its place.
CombinedAt(at, of, n, parts, places, merge, t) ==
  /\ at \in [DOMAIN t -> 1..n]
  /\ \A x \in DOMAIN t : /\ of[x] \in places[at[x]] /\ of[x] \in DOMAIN parts[at[x]]
                         /\ t[x] = merge[at[x]][parts[at[x]][of[x]]]
  /\ \A x, y \in DOMAIN t : at[x] = at[y] /\ of[x] = of[y] => x = y
  /\ \A k \in 1..n : \A i \in DOMAIN parts[k] :
       i \in places[k] => \E x \in DOMAIN t : at[x] = k /\ of[x] = i

\* A function on the first numbers is a sequence.
LEMMA ListedIn ==
  ASSUME NEW B, NEW n \in Nat, NEW z, z = [j \in 1..n |-> z[j]], \A j \in 1..n : z[j] \in B
  PROVE  z \in Seq(B) /\ Len(z) = n
OBVIOUS

\* ss[k] are the merged elements of g[k], those of parts[k] at the places pa[k].
PartsAt(n, parts, places, merge, g, pa, ss) ==
  \A k \in 1..n : /\ PickedAt(pa[k], parts[k], places[k], g[k])
                  /\ Len(g[k]) \in Nat /\ DOMAIN parts[k] \subseteq Nat
                  /\ Len(ss[k]) = Len(g[k])
                  /\ \A j \in 1..Len(g[k]) : ss[k][j] = merge[k][g[k][j]]

\* Where the elements of flattened selections come from.
LEMMA FlatPlaces ==
  ASSUME NEW B, NEW n \in Nat, NEW parts, NEW places, NEW merge, NEW g, NEW pa, NEW ss, NEW t,
         FlatUpTo(t, B, ss, n), PartsAt(n, parts, places, merge, g, pa, ss)
  PROVE  \E at, of : CombinedAt(at, of, n, parts, places, merge, t)
<1>5. ASSUME NEW k \in 1..n
      PROVE  /\ PickedAt(pa[k], parts[k], places[k], g[k])
             /\ Len(g[k]) \in Nat /\ DOMAIN parts[k] \subseteq Nat
             /\ Len(ss[k]) = Len(g[k])
             /\ \A j \in 1..Len(g[k]) : ss[k][j] = merge[k][g[k][j]]
  BY Zenon DEF PartsAt
<1>6. t \in Seq(B) /\ DOMAIN t = 1..Len(t)
  BY DEF FlatUpTo
<1>7. PICK f \in [1..Len(t) -> (1..n) \X Nat] :
       /\ \A x \in 1..Len(t) : f[x][2] \in 1..Len(ss[f[x][1]]) /\ t[x] = ss[f[x][1]][f[x][2]]
       /\ \A x, y \in 1..Len(t) : f[x] = f[y] => x = y
       /\ \A i \in 1..n : \A j \in 1..Len(ss[i]) : \E x \in 1..Len(t) : f[x] = <<i, j>>
  BY DEF FlatUpTo
<1>8. PICK at : at = [x \in DOMAIN t |-> f[x][1]]
  OBVIOUS
<1>9. PICK of : of = [x \in DOMAIN t |-> pa[f[x][1]][f[x][2]]]
  OBVIOUS
<1>10. ASSUME NEW x \in DOMAIN t
       PROVE  /\ at[x] \in 1..n /\ at[x] = f[x][1] /\ f[x][2] \in 1..Len(g[at[x]])
              /\ of[x] = pa[at[x]][f[x][2]] /\ f[x] = <<at[x], f[x][2]>>
              /\ of[x] \in places[at[x]] /\ of[x] \in DOMAIN parts[at[x]]
              /\ t[x] = merge[at[x]][parts[at[x]][of[x]]]
  <2>1. PICK k \in 1..n, j \in Nat : f[x] = <<k, j>>
    BY <1>6, <1>7
  <2>2. at[x] = k /\ of[x] = pa[k][j]
    BY <1>8, <1>9, <2>1
  <2>3. j \in 1..Len(g[k]) /\ t[x] = ss[k][j]
    BY <1>5, <1>6, <1>7, <2>1
  <2>4. pa[k][j] \in places[k] /\ pa[k][j] \in DOMAIN parts[k] /\ g[k][j] = parts[k][pa[k][j]]
    BY <1>5, <2>3 DEF PickedAt
  <2>5. t[x] = merge[k][g[k][j]]
    BY <1>5, <2>3
  <2> QED
    BY <2>1, <2>2, <2>3, <2>4, <2>5
<1>11. ASSUME NEW x \in DOMAIN t, NEW y \in DOMAIN t, at[x] = at[y], of[x] = of[y]
       PROVE  x = y
  <2>1. PICK k \in 1..n : k = at[x] /\ k = at[y]
    BY <1>10, <1>11
  <2>2. PICK i \in 1..Len(g[k]), j \in 1..Len(g[k]) :
          i = f[x][2] /\ j = f[y][2] /\ f[x] = <<k, i>> /\ f[y] = <<k, j>>
    <3>1. f[x][2] \in 1..Len(g[k]) /\ f[x] = <<k, f[x][2]>>
      BY <1>10, <2>1
    <3>2. f[y][2] \in 1..Len(g[k]) /\ f[y] = <<k, f[y][2]>>
      BY <1>10, <2>1
    <3> QED
      BY <3>1, <3>2, Zenon
  <2>3. pa[k][i] = pa[k][j]
    BY <1>10, <1>11, <2>1, <2>2
  <2>4. PickedAt(pa[k], parts[k], places[k], g[k]) /\ Len(g[k]) \in Nat
    BY <1>5
  <2>5. pa[k][i] \in DOMAIN parts[k] /\ DOMAIN parts[k] \subseteq Nat
    BY <1>5, <2>4 DEF PickedAt
  <2>6. i = j
    <3>1. ~(i < j)
      BY <2>3, <2>4, <2>5 DEF PickedAt
    <3>2. ~(j < i)
      BY <2>3, <2>4, <2>5 DEF PickedAt
    <3> QED
      BY <2>4, <3>1, <3>2
  <2>7. f[x] = f[y] /\ x \in 1..Len(t) /\ y \in 1..Len(t)
    BY <1>6, <2>2, <2>6
  <2> QED
    BY <1>7, <2>7
<1>12. ASSUME NEW k \in 1..n, NEW i \in DOMAIN parts[k], i \in places[k]
       PROVE  \E x \in DOMAIN t : at[x] = k /\ of[x] = i
  <2>1. PICK j \in 1..Len(g[k]) : pa[k][j] = i
    BY <1>5, <1>12 DEF PickedAt
  <2>2. PICK x \in 1..Len(t) : f[x] = <<k, j>>
    BY <1>5, <1>7, <2>1
  <2> QED
    BY <1>6, <1>8, <1>9, <2>1, <2>2
<1>13. at \in [DOMAIN t -> 1..n]
  BY <1>8, <1>10
<1>14. CombinedAt(at, of, n, parts, places, merge, t)
  BY <1>10, <1>11, <1>12, <1>13, Zenon DEF CombinedAt
<1> QED
  BY <1>14

\* The elements of each of parts at some of its places, merged.
MergedParts(n, parts, places, merge) ==
  [k \in 1..n |-> [j \in DOMAIN Picked(parts[k], places[k]) |-> merge[k][Picked(parts[k], places[k])[j]]]]

\* Flattened selections have every combination once.
LEMMA CombinedOnce ==
  ASSUME NEW B, NEW n \in Nat, NEW parts, \A k \in 1..n : parts[k] \in Seq(ToSet(parts[k])),
         NEW places, NEW merge, \A k \in 1..n : merge[k] \in [ToSet(parts[k]) -> B],
         NEW ss, ss = MergedParts(n, parts, places, merge),
         NEW t, t = FlattenSeq(ss)
  PROVE  t \in Seq(B) /\ \E at, of : CombinedAt(at, of, n, parts, places, merge, t)
<1> DEFINE g == [k \in 1..n |-> Picked(parts[k], places[k])]
           pa == [k \in 1..n |-> CHOOSE a : PickedAt(a, parts[k], places[k], g[k])]
<1>1. ASSUME NEW k \in 1..n
      PROVE  /\ g[k] \in Seq(ToSet(parts[k])) /\ DOMAIN g[k] = 1..Len(g[k]) /\ Len(g[k]) \in Nat
             /\ PickedAt(pa[k], parts[k], places[k], g[k])
             /\ ss[k] = [j \in DOMAIN g[k] |-> merge[k][g[k][j]]]
  <2>1. PICK s, ps, u : s = parts[k] /\ ps = places[k] /\ u = Picked(s, ps)
    OBVIOUS
  <2>2. g[k] = u /\ pa[k] = CHOOSE a : PickedAt(a, s, ps, u)
    BY <2>1
  <2>3. s \in Seq(ToSet(s))
    BY <2>1
  <2>4. /\ u \in Seq(ToSet(s)) /\ DOMAIN u = 1..Len(u) /\ Len(u) \in Nat
        /\ \E a : PickedAt(a, s, ps, u)
    BY <2>1, <2>3, PickedPlaces
  <2>5. ss[k] = [j \in DOMAIN u |-> merge[k][u[j]]]
    BY <2>1 DEF MergedParts
  <2> HIDE DEF g, pa
  <2> QED
    BY <2>1, <2>2, <2>4, <2>5
<1>2. ss = [k \in 1..n |-> ss[k]]
  BY DEF MergedParts
<1> HIDE DEF g, pa
<1>3. ASSUME NEW k \in 1..n
      PROVE  ss[k] \in Seq(B) /\ Len(ss[k]) = Len(g[k])
             /\ \A j \in 1..Len(g[k]) : ss[k][j] = merge[k][g[k][j]]
  <2>1. \A j \in 1..Len(g[k]) : g[k][j] \in ToSet(parts[k])
    <3>1. PICK u, S : u = g[k] /\ S = ToSet(parts[k])
      OBVIOUS
    <3>2. u \in Seq(S)
      BY <1>1, <3>1
    <3>3. \A j \in 1..Len(u) : u[j] \in S
      BY <3>2
    <3> QED
      BY <3>1, <3>3
  <2>2. \A j \in 1..Len(g[k]) : merge[k][g[k][j]] \in B
    BY <2>1
  <2>3. ss[k] = [j \in 1..Len(g[k]) |-> merge[k][g[k][j]]] /\ Len(g[k]) \in Nat
    BY <1>1
  <2> QED
    BY <2>2, <2>3, ListedIn
<1>4. ss \in Seq(Seq(B)) /\ Len(ss) = n
  BY <1>2, <1>3
<1>5. FlatUpTo(t, B, ss, n)
  BY <1>4, FlatIs
<1>6. t \in Seq(B)
  BY <1>5 DEF FlatUpTo
<1>7. \A k \in 1..n : DOMAIN parts[k] \subseteq Nat
  OBVIOUS
<1>8. PartsAt(n, parts, places, merge, g, pa, ss)
  BY <1>1, <1>3, <1>7, Zenon DEF PartsAt
<1>9. \E at, of : CombinedAt(at, of, n, parts, places, merge, t)
  BY <1>5, <1>8, FlatPlaces
<1> QED
  BY <1>6, <1>9

-----------------------------------------------------------------------------
(***************************************************************************)
(* The choices of rows.                                                    *)
(***************************************************************************)
\* To be alike is an equivalence.
LEMMA AlikeRows ==
  ASSUME NEW e, NEW r, NEW s, NEW t
  PROVE  /\ SameRow(e, r, r)
         /\ SameRow(e, r, s) => SameRow(e, s, r)
         /\ SameRow(e, r, s) /\ SameRow(e, s, t) => SameRow(e, r, t)
BY DEF SameRow

\* The rows of its source that what a state has inherited leaves to an import.
LeftTo(st, e) ==
  {r \in DOMAIN Cell[e.source] :
     \A c \in ToSet(st.rows) : c.source = e.source /\ c.inherited => r \in c.rows}

\* Every row that is left to an import is allowed once.
LEMMA AllowedOnce ==
  ASSUME NEW st, NEW e, e.source \in Version, NEW allowed, allowed = AllowedRows(st, e)
  PROVE  /\ allowed \in Seq(ToSet(allowed)) /\ DOMAIN allowed \subseteq Nat
         /\ ToSet(allowed) = LeftTo(st, e) /\ ToSet(allowed) \subseteq Nat
         /\ \A j, k \in DOMAIN allowed : allowed[j] = allowed[k] => j = k
<1>1. PICK rows : rows = Cell[e.source]
  OBVIOUS
<1>2. rows \in Seq(ToSet(rows))
  BY <1>1, CellAssumption
<1>3. PICK all : all = [r \in DOMAIN rows |-> r]
  OBVIOUS
<1>4. all \in Seq(ToSet(all)) /\ DOMAIN all = DOMAIN rows /\ DOMAIN rows \subseteq Nat
  <2>1. DOMAIN rows = 1..Len(rows) /\ Len(rows) \in Nat
    BY <1>2
  <2>2. \A r \in DOMAIN all : all[r] \in ToSet(all)
    BY DEF ToSet
  <2>3. all = [r \in 1..Len(rows) |-> all[r]]
    BY <1>3, <2>1
  <2> QED
    BY <1>3, <2>1, <2>2, <2>3
<1>5. PICK bound : bound = {c \in ToSet(st.rows) : c.source = e.source /\ c.inherited}
  OBVIOUS
<1>6. PICK places : places = {k \in DOMAIN all : \A c \in bound : all[k] \in c.rows}
  OBVIOUS
<1>7. allowed = Picked(all, places)
  BY <1>1, <1>3, <1>5, <1>6 DEF AllowedRows, Select
<1>8. /\ allowed \in Seq(ToSet(all)) /\ DOMAIN allowed = 1..Len(allowed) /\ Len(allowed) \in Nat
      /\ \E at : PickedAt(at, all, places, allowed)
  BY <1>4, <1>7, PickedPlaces
<1>9. PICK at : PickedAt(at, all, places, allowed)
  BY <1>8
<1>10. \A k \in DOMAIN allowed : at[k] \in places /\ allowed[k] = at[k]
  BY <1>3, <1>4, <1>8, <1>9 DEF PickedAt
<1>11. places \subseteq Nat /\ places \subseteq DOMAIN all
  BY <1>4, <1>6
<1>12. ASSUME NEW j \in DOMAIN allowed, NEW k \in DOMAIN allowed, allowed[j] = allowed[k]
       PROVE  j = k
  <2>1. at[j] = at[k] /\ at[j] \in Nat /\ at[k] \in Nat
    BY <1>10, <1>11, <1>12
  <2>2. ~(j < k) /\ ~(k < j)
    BY <1>8, <1>9, <2>1 DEF PickedAt
  <2> QED
    BY <1>8, <2>2
<1>13. ToSet(allowed) = places
  <2>1. ASSUME NEW r \in places PROVE \E k \in DOMAIN allowed : allowed[k] = r
    BY <1>8, <1>9, <1>10, <1>11 DEF PickedAt
  <2> QED
    BY <1>10, <2>1 DEF ToSet
<1>14. places = LeftTo(st, e)
  BY <1>1, <1>3, <1>4, <1>5, <1>6 DEF LeftTo
<1>15. allowed \in Seq(ToSet(allowed))
  BY <1>8 DEF ToSet
<1> QED
  BY <1>8, <1>11, <1>12, <1>13, <1>14, <1>15

\* Of the rows that are left to an import, those alike make one choice.
LEMMA ChoicesOnce ==
  ASSUME NEW st, NEW e, e.source \in Version, NEW choices, choices = RowChoices(st, e)
  PROVE  /\ \A c \in ToSet(choices) : c.rows \subseteq LeftTo(st, e) /\ AllAlike(c.rows, LeftTo(st, e), e)
         /\ \A r \in LeftTo(st, e) : \E x \in DOMAIN choices :
              \A y \in DOMAIN choices : r \in choices[y].rows <=> y = x
<1>1. PICK allowed : allowed = AllowedRows(st, e)
  OBVIOUS
<1>2. /\ allowed \in Seq(ToSet(allowed)) /\ DOMAIN allowed \subseteq Nat
      /\ ToSet(allowed) = LeftTo(st, e) /\ ToSet(allowed) \subseteq Nat
      /\ \A j, k \in DOMAIN allowed : allowed[j] = allowed[k] => j = k
  BY <1>1, AllowedOnce
<1> DEFINE P == {k \in DOMAIN allowed : \A q \in RowsLike(e, allowed, allowed[k]) : allowed[k] <= q}
<1>3. PICK ps : ps = P
  OBVIOUS
<1>4. PICK reps : reps = Picked(allowed, ps)
  OBVIOUS
<1> DEFINE choice(k) == [values |-> RowValues(e, reps[k]), rows |-> RowsLike(e, allowed, reps[k])]
<1>5. choices = [k \in DOMAIN reps |-> choice(k)]
  <2>1. reps = Picked(allowed, {k \in DOMAIN allowed : \A q \in RowsLike(e, allowed, allowed[k]) : allowed[k] <= q})
    BY <1>3, <1>4
  <2> HIDE DEF P
  <2> QED
    BY <1>1, <2>1, ChoicesList
<1>6. ASSUME NEW k PROVE choice(k).rows = RowsLike(e, allowed, reps[k])
  OBVIOUS
<1>7. \A k \in ps : k \in DOMAIN allowed /\ \A q \in RowsLike(e, allowed, allowed[k]) : allowed[k] <= q
  BY <1>3
<1>8. \A k \in DOMAIN allowed : (\A q \in RowsLike(e, allowed, allowed[k]) : allowed[k] <= q) => k \in ps
  BY <1>3
<1> HIDE DEF P, choice
<1>9. DOMAIN choices = DOMAIN reps /\ \A k \in DOMAIN reps : choices[k].rows = RowsLike(e, allowed, reps[k])
  BY <1>5, <1>6
<1>10. /\ DOMAIN reps = 1..Len(reps) /\ Len(reps) \in Nat
       /\ \E at : PickedAt(at, allowed, ps, reps)
  BY <1>2, <1>4, PickedPlaces
<1>11. PICK at : PickedAt(at, allowed, ps, reps)
  BY <1>10
<1>12. \A k \in DOMAIN reps : at[k] \in ps /\ at[k] \in DOMAIN allowed /\ reps[k] = allowed[at[k]]
  BY <1>10, <1>11 DEF PickedAt
<1>13. ASSUME NEW j \in DOMAIN reps, NEW k \in DOMAIN reps, reps[j] = reps[k]
       PROVE  j = k
  <2>1. at[j] = at[k] /\ at[j] \in Nat
    BY <1>2, <1>12, <1>13
  <2>2. ~(j < k) /\ ~(k < j)
    BY <1>10, <1>11, <2>1 DEF PickedAt
  <2> QED
    BY <1>10, <2>2
<1>14. ASSUME NEW k \in DOMAIN reps
       PROVE  AllAlike(RowsLike(e, allowed, reps[k]), LeftTo(st, e), e)
  <2> SUFFICES ASSUME NEW r1 \in RowsLike(e, allowed, reps[k]), NEW r2 \in LeftTo(st, e)
               PROVE  r2 \in RowsLike(e, allowed, reps[k]) <=> SameRow(e, r1, r2)
    BY DEF AllAlike
  <2>1. SameRow(e, r1, reps[k])
    BY DEF RowsLike
  <2>2. SameRow(e, r2, reps[k]) <=> SameRow(e, r1, r2)
    BY <2>1, AlikeRows
  <2> QED
    BY <1>2, <2>2 DEF RowsLike
<1>15. ASSUME NEW r \in LeftTo(st, e)
       PROVE  \E x \in DOMAIN reps : \A y \in DOMAIN reps : r \in RowsLike(e, allowed, reps[y]) <=> y = x
  <2>1. r \in RowsLike(e, allowed, r) /\ RowsLike(e, allowed, r) \subseteq Nat
    BY <1>2, AlikeRows DEF RowsLike
  <2>2. PICK m \in RowsLike(e, allowed, r) : \A q \in RowsLike(e, allowed, r) : m <= q
    BY <2>1, Least
  <2>3. SameRow(e, m, r) /\ m \in ToSet(allowed) /\ m \in Nat
    BY <2>1, <2>2 DEF RowsLike
  <2>4. RowsLike(e, allowed, m) \subseteq RowsLike(e, allowed, r)
    BY <2>3, AlikeRows DEF RowsLike
  <2>5. PICK i \in DOMAIN allowed : allowed[i] = m
    BY <2>3 DEF ToSet
  <2>6. i \in ps
    BY <1>8, <2>2, <2>4, <2>5
  <2>7. PICK x \in DOMAIN reps : reps[x] = m
    BY <1>10, <1>11, <2>5, <2>6 DEF PickedAt
  <2>8. r \in RowsLike(e, allowed, reps[x])
    BY <1>2, <2>3, <2>7, AlikeRows DEF RowsLike
  <2>9. ASSUME NEW y \in DOMAIN reps, r \in RowsLike(e, allowed, reps[y])
        PROVE  y = x
    <3>1. PICK q : q = reps[y] /\ q = allowed[at[y]] /\ q \in ToSet(allowed)
      BY <1>12 DEF ToSet
    <3>2. SameRow(e, r, q)
      BY <2>9, <3>1 DEF RowsLike
    <3>3. q \in RowsLike(e, allowed, r) /\ m \in RowsLike(e, allowed, q)
      BY <2>3, <3>1, <3>2, AlikeRows DEF RowsLike
    <3>4. q <= m
      BY <1>7, <1>12, <3>1, <3>3
    <3>5. m <= q /\ q \in Nat
      BY <2>1, <2>2, <3>3
    <3>6. reps[y] = reps[x]
      BY <2>3, <2>7, <3>1, <3>4, <3>5
    <3> QED
      BY <1>13, <3>6
  <2> QED
    BY <2>8, <2>9
<1>16. ASSUME NEW c \in ToSet(choices)
       PROVE  c.rows \subseteq LeftTo(st, e) /\ AllAlike(c.rows, LeftTo(st, e), e)
  <2>1. PICK k \in DOMAIN reps : c.rows = RowsLike(e, allowed, reps[k])
    BY <1>9 DEF ToSet
  <2> QED
    BY <1>2, <1>14, <2>1 DEF RowsLike
<1> QED
  BY <1>9, <1>15, <1>16

-----------------------------------------------------------------------------
(***************************************************************************)
(* The states with one more dependency or import.                          *)
(***************************************************************************)
\* The x-th state of next is made of the at[x]-th of list and the of[x]-th of
\* added, and every pair that agrees has made one.
InheritedAt(at, of, list, added, next) ==
  /\ \A x \in DOMAIN next :
       /\ at[x] \in DOMAIN list /\ of[x] \in DOMAIN added
       /\ Agree(list[at[x]].values, added[of[x]].values)
       /\ next[x] = MergeParentStates(list[at[x]], added[of[x]])
  /\ \A x, y \in DOMAIN next : at[x] = at[y] /\ of[x] = of[y] => x = y
  /\ \A k \in DOMAIN list : \A i \in DOMAIN added :
       Agree(list[k].values, added[i].values) => \E x \in DOMAIN next : at[x] = k /\ of[x] = i

ExpandedAt(at, of, list, e, next) ==
  /\ \A x \in DOMAIN next :
       /\ at[x] \in DOMAIN list /\ of[x] \in DOMAIN RowChoices(list[at[x]], e)
       /\ next[x] = MergeWithChoice(list[at[x]], e, RowChoices(list[at[x]], e)[of[x]])
  /\ \A x, y \in DOMAIN next : at[x] = at[y] /\ of[x] = of[y] => x = y
  /\ \A k \in DOMAIN list : \A i \in DOMAIN RowChoices(list[k], e) :
       Agree(list[k].values, RowChoices(list[k], e)[i].values) => \E x \in DOMAIN next : at[x] = k /\ of[x] = i

\* The states with each of the states of one more dependency.
WithParents(list, added) == Combined(list, LAMBDA a : added, MergeParentStates)

\* What one more dependency makes of the states, pair by pair.
LEMMA InheritPairs ==
  ASSUME NEW list, list \in Seq(ToSet(list)), NEW added, added \in Seq(ToSet(added)), NEW next,
         next = WithParents(list, added)
  PROVE  \E at, of : InheritedAt(at, of, list, added, next)
<1> DEFINE places == [k \in DOMAIN list |-> {j \in DOMAIN added : Agree(list[k].values, added[j].values)}]
           parts == [k \in DOMAIN list |-> added]
           merge == [k \in DOMAIN list |-> [x \in ToSet(added) |-> MergeParentStates(list[k], x)]]
           B == {MergeParentStates(list[k], x) : k \in DOMAIN list, x \in ToSet(added)}
<1>1. PICK n \in Nat : n = Len(list) /\ DOMAIN list = 1..n
  OBVIOUS
<1>2. \A k \in 1..n : parts[k] = added
  BY <1>1
<1>3. \A k \in 1..n : merge[k] \in [ToSet(parts[k]) -> B]
  <2>1. ASSUME NEW k \in 1..n PROVE merge[k] \in [ToSet(parts[k]) -> B]
    <3>1. merge[k] = [x \in ToSet(added) |-> MergeParentStates(list[k], x)]
      BY <1>1
    <3>2. \A x \in ToSet(added) : MergeParentStates(list[k], x) \in B
      BY <1>1
    <3>3. parts[k] = added
      BY <1>2
    <3> HIDE DEF B, merge, parts
    <3> QED
      BY <3>1, <3>2, <3>3
  <2> HIDE DEF B, merge, parts
  <2> QED
    BY <2>1, Zenon
<1>4. \A k \in 1..n : \A j \in DOMAIN added : merge[k][added[j]] = MergeParentStates(list[k], added[j])
  BY <1>1 DEF ToSet
<1>5. \A k \in 1..n : \A j : j \in places[k] <=> j \in DOMAIN added /\ Agree(list[k].values, added[j].values)
  BY <1>1
<1>6. next = FlattenSeq([k \in 1..n |-> [j \in DOMAIN Picked(added, places[k]) |->
                                      MergeParentStates(list[k], Picked(added, places[k])[j])]])
  BY <1>1 DEF WithParents, Combined, Select
<1> HIDE DEF merge, B, places, parts
<1>7. [k \in 1..n |-> [j \in DOMAIN Picked(added, places[k]) |->
                      MergeParentStates(list[k], Picked(added, places[k])[j])]]
        = MergedParts(n, parts, places, merge)
  <2>1. ASSUME NEW k \in 1..n
        PROVE  [j \in DOMAIN Picked(added, places[k]) |-> MergeParentStates(list[k], Picked(added, places[k])[j])]
                 = [j \in DOMAIN Picked(parts[k], places[k]) |-> merge[k][Picked(parts[k], places[k])[j]]]
    <3>1. PICK g : g = Picked(added, places[k])
      OBVIOUS
    <3>2. g \in Seq(ToSet(added))
      BY <3>1, PickedIn
    <3>3. \A j \in DOMAIN g : merge[k][g[j]] = MergeParentStates(list[k], g[j])
      <4> SUFFICES ASSUME NEW j \in DOMAIN g PROVE merge[k][g[j]] = MergeParentStates(list[k], g[j])
        OBVIOUS
      <4>1. g[j] \in ToSet(added)
        BY <3>2
      <4>2. PICK i \in DOMAIN added : g[j] = added[i]
        BY <4>1 DEF ToSet
      <4> QED
        BY <1>4, <4>2
    <3>4. Picked(parts[k], places[k]) = g
      BY <1>2, <3>1
    <3> QED
      BY <3>1, <3>3, <3>4
  <2> QED
    BY <2>1 DEF MergedParts
<1>8. next = FlattenSeq(MergedParts(n, parts, places, merge))
  BY <1>6, <1>7
<1>9. \A k \in 1..n : parts[k] \in Seq(ToSet(parts[k]))
  BY <1>2
<1>10. \E at, of : CombinedAt(at, of, n, parts, places, merge, next)
  <2>1. PICK ms, t, ps, qs, gs : ms = MergedParts(n, ps, qs, gs) /\ t = next
                                 /\ ps = parts /\ qs = places /\ gs = merge
    OBVIOUS
  <2>2. /\ t = FlattenSeq(ms)
        /\ \A k \in 1..n : ps[k] \in Seq(ToSet(ps[k])) /\ gs[k] \in [ToSet(ps[k]) -> B]
    BY <1>3, <1>8, <1>9, <2>1
  <2>3. \E at, of : CombinedAt(at, of, n, ps, qs, gs, t)
    BY <2>1, <2>2, CombinedOnce
  <2> QED
    BY <2>1, <2>3
<1>11. PICK at, of : CombinedAt(at, of, n, parts, places, merge, next)
  BY <1>10
<1>12. ASSUME NEW x \in DOMAIN next
       PROVE  /\ at[x] \in DOMAIN list /\ of[x] \in DOMAIN added
              /\ Agree(list[at[x]].values, added[of[x]].values)
              /\ next[x] = MergeParentStates(list[at[x]], added[of[x]])
  <2>1. at[x] \in 1..n /\ of[x] \in places[at[x]] /\ next[x] = merge[at[x]][parts[at[x]][of[x]]]
    BY <1>11 DEF CombinedAt
  <2> QED
    BY <1>1, <1>2, <1>4, <1>5, <2>1
<1>13. \A x, y \in DOMAIN next : at[x] = at[y] /\ of[x] = of[y] => x = y
  BY <1>11 DEF CombinedAt
<1>14. ASSUME NEW k \in DOMAIN list, NEW i \in DOMAIN added, Agree(list[k].values, added[i].values)
       PROVE  \E x \in DOMAIN next : at[x] = k /\ of[x] = i
  <2>1. k \in 1..n /\ i \in places[k] /\ i \in DOMAIN parts[k]
    BY <1>1, <1>2, <1>5, <1>14
  <2> QED
    BY <1>11, <2>1, ZenonT(30) DEF CombinedAt
<1>15. InheritedAt(at, of, list, added, next)
  BY <1>12, <1>13, <1>14, Zenon DEF InheritedAt
<1> QED
  BY <1>15

\* The states with each of their choices for an import.
WithChoices(list, e) ==
  Combined(list, LAMBDA st : RowChoices(st, e), LAMBDA st, c : MergeWithChoice(st, e, c))

\* What one more import makes of the states, choice by choice.
LEMMA ExpandPairs ==
  ASSUME NEW list, list \in Seq(ToSet(list)), NEW e, e.source \in Version, NEW next,
         next = WithChoices(list, e)
  PROVE  \E at, of : ExpandedAt(at, of, list, e, next)
<1>1. PICK n \in Nat : n = Len(list) /\ DOMAIN list = 1..n
  OBVIOUS
<1> DEFINE parts == [k \in DOMAIN list |-> RowChoices(list[k], e)]
           places == [k \in DOMAIN list |->
                       {j \in DOMAIN RowChoices(list[k], e) : Agree(list[k].values, RowChoices(list[k], e)[j].values)}]
           merge == [k \in DOMAIN list |-> [x \in ToSet(RowChoices(list[k], e)) |-> MergeWithChoice(list[k], e, x)]]
           results(k) == {MergeWithChoice(list[k], e, x) : x \in ToSet(RowChoices(list[k], e))}
           B == UNION {results(k) : k \in DOMAIN list}
<1>2. \A k \in 1..n : parts[k] = RowChoices(list[k], e)
  BY <1>1
<1>3. \A k \in 1..n : merge[k] \in [ToSet(parts[k]) -> B]
  <2>1. ASSUME NEW k \in 1..n PROVE merge[k] \in [ToSet(parts[k]) -> B]
    <3>1. PICK choices : choices = RowChoices(list[k], e)
      OBVIOUS
    <3>2. merge[k] = [x \in ToSet(choices) |-> MergeWithChoice(list[k], e, x)]
      BY <1>1, <3>1
    <3>3. \A x \in ToSet(choices) : MergeWithChoice(list[k], e, x) \in B
      <4>1. \A x \in ToSet(choices) : MergeWithChoice(list[k], e, x) \in results(k)
        BY <3>1
      <4> HIDE DEF results
      <4> QED
        BY <1>1, <4>1
    <3>4. parts[k] = choices
      BY <1>2, <3>1
    <3> HIDE DEF B, merge, parts
    <3> QED
      BY <3>2, <3>3, <3>4
  <2> HIDE DEF B, merge, parts
  <2> QED
    BY <2>1, Zenon
<1>4. ASSUME NEW k \in 1..n, NEW j \in DOMAIN parts[k]
      PROVE  merge[k][parts[k][j]] = MergeWithChoice(list[k], e, parts[k][j])
  <2>1. PICK choices : choices = RowChoices(list[k], e)
    OBVIOUS
  <2>2. merge[k] = [x \in ToSet(choices) |-> MergeWithChoice(list[k], e, x)]
    BY <1>1, <2>1
  <2>3. parts[k] = choices
    BY <1>2, <2>1
  <2>4. parts[k][j] \in ToSet(choices)
    BY <2>3 DEF ToSet
  <2> HIDE DEF merge, parts
  <2> QED
    BY <2>2, <2>4
<1>5. \A k \in 1..n : \A j : j \in places[k] <=>
        j \in DOMAIN RowChoices(list[k], e) /\ Agree(list[k].values, RowChoices(list[k], e)[j].values)
  BY <1>1
<1>6. next = FlattenSeq([k \in 1..n |-> [j \in DOMAIN Picked(RowChoices(list[k], e), places[k]) |->
                                      MergeWithChoice(list[k], e, Picked(RowChoices(list[k], e), places[k])[j])]])
  BY <1>1 DEF WithChoices, Combined, Select
<1>7. \A k \in 1..n : parts[k] \in Seq(ToSet(parts[k]))
  <2> HIDE DEF parts
  <2> QED
    BY <1>2, ChoicesAre
<1> HIDE DEF merge, B, places, parts
<1>8. [k \in 1..n |-> [j \in DOMAIN Picked(RowChoices(list[k], e), places[k]) |->
                      MergeWithChoice(list[k], e, Picked(RowChoices(list[k], e), places[k])[j])]]
        = MergedParts(n, parts, places, merge)
  <2>1. ASSUME NEW k \in 1..n
        PROVE  [j \in DOMAIN Picked(RowChoices(list[k], e), places[k]) |->
                  MergeWithChoice(list[k], e, Picked(RowChoices(list[k], e), places[k])[j])]
                 = [j \in DOMAIN Picked(parts[k], places[k]) |-> merge[k][Picked(parts[k], places[k])[j]]]
    <3>1. PICK s, g : s = parts[k] /\ s = RowChoices(list[k], e) /\ g = Picked(s, places[k])
      BY <1>2
    <3>2. s \in Seq(ToSet(s)) /\ g \in Seq(ToSet(s))
      BY <1>7, <3>1, PickedIn
    <3>3. \A j \in DOMAIN g : merge[k][g[j]] = MergeWithChoice(list[k], e, g[j])
      <4> SUFFICES ASSUME NEW j \in DOMAIN g PROVE merge[k][g[j]] = MergeWithChoice(list[k], e, g[j])
        OBVIOUS
      <4>1. PICK S, x : S = ToSet(s) /\ x = g[j]
        OBVIOUS
      <4>2. x \in S
        <5>1. g \in Seq(S)
          BY <3>2, <4>1
        <5> QED
          BY <4>1, <5>1
      <4>3. PICK i \in DOMAIN s : x = s[i]
        BY <4>1, <4>2 DEF ToSet
      <4>4. i \in DOMAIN parts[k] /\ parts[k][i] = x
        BY <3>1, <4>3
      <4> QED
        BY <1>4, <4>1, <4>4
    <3> QED
      BY <3>1, <3>3
  <2> QED
    BY <2>1 DEF MergedParts
<1>9. next = FlattenSeq(MergedParts(n, parts, places, merge))
  BY <1>6, <1>8
<1>10. \E at, of : CombinedAt(at, of, n, parts, places, merge, next)
  <2>1. PICK ms, t, ps, qs, gs : ms = MergedParts(n, ps, qs, gs) /\ t = next
                                 /\ ps = parts /\ qs = places /\ gs = merge
    OBVIOUS
  <2>2. /\ t = FlattenSeq(ms)
        /\ \A k \in 1..n : ps[k] \in Seq(ToSet(ps[k])) /\ gs[k] \in [ToSet(ps[k]) -> B]
    BY <1>3, <1>7, <1>9, <2>1
  <2>3. \E at, of : CombinedAt(at, of, n, ps, qs, gs, t)
    BY <2>1, <2>2, CombinedOnce
  <2> QED
    BY <2>1, <2>3
<1>11. PICK at, of : CombinedAt(at, of, n, parts, places, merge, next)
  BY <1>10
<1>12. ASSUME NEW x \in DOMAIN next
       PROVE  /\ at[x] \in DOMAIN list /\ of[x] \in DOMAIN RowChoices(list[at[x]], e)
              /\ next[x] = MergeWithChoice(list[at[x]], e, RowChoices(list[at[x]], e)[of[x]])
  <2>1. /\ at[x] \in 1..n /\ of[x] \in DOMAIN parts[at[x]]
        /\ next[x] = merge[at[x]][parts[at[x]][of[x]]]
    BY <1>11 DEF CombinedAt
  <2>2. next[x] = MergeWithChoice(list[at[x]], e, parts[at[x]][of[x]])
    BY <1>4, <2>1
  <2> QED
    BY <1>1, <1>2, <2>1, <2>2
<1>13. \A x, y \in DOMAIN next : at[x] = at[y] /\ of[x] = of[y] => x = y
  BY <1>11 DEF CombinedAt
<1>14. ASSUME NEW k \in DOMAIN list, NEW i \in DOMAIN RowChoices(list[k], e),
              Agree(list[k].values, RowChoices(list[k], e)[i].values)
       PROVE  \E x \in DOMAIN next : at[x] = k /\ of[x] = i
  <2>1. k \in 1..n /\ i \in places[k] /\ i \in DOMAIN parts[k]
    BY <1>1, <1>2, <1>5, <1>14
  <2> QED
    BY <1>11, <2>1, ZenonT(30) DEF CombinedAt
<1>15. ExpandedAt(at, of, list, e, next)
  BY <1>12, <1>13, <1>14, Zenon DEF ExpandedAt
<1> QED
  BY <1>15

-----------------------------------------------------------------------------
(***************************************************************************)
(* One more dependency.                                                    *)
(***************************************************************************)
\* The states of the dependencies know their step and their number in it.
Numbered(sts, deps) ==
  \A k \in 1..Len(deps) : \A z \in DOMAIN sts[deps[k]] :
    sts[deps[k]][z].step = deps[k] /\ sts[deps[k]][z].row = z

\* The values of a state are those of its i parents.
ComposedOf(st, sts, i) ==
  /\ st.parents \in Seq(ToSet(st.parents)) /\ Len(st.parents) = i
  /\ \A id \in ToSet(st.parents) : \A n \in DOMAIN sts[id[1]][id[2]].values :
       n \in DOMAIN st.values /\ st.values[n] = sts[id[1]][id[2]].values[n]
  /\ \A n \in DOMAIN st.values : \E id \in ToSet(st.parents) : n \in DOMAIN sts[id[1]][id[2]].values

\* Every combination of the first i dependencies has one state.
CombinedOnceEach(list, sts, deps, i) ==
  \A ids \in FirstCombinations(sts, deps, i) :
    \E x \in DOMAIN list : \A y \in DOMAIN list : list[y].parents = ids <=> y = x

\* Without imports there is one choice.
LEMMA NoPicks ==
  ASSUME NEW list, NEW sts, NEW deps, NEW i, NEW exps
  PROVE  EveryOnce(list, sts, deps, i, exps, 0) <=> CombinedOnceEach(list, sts, deps, i)
<1>1. 1..0 = {}
  OBVIOUS
<1>2. ASSUME NEW ids PROVE \E pick : pick \in FirstPicks(sts, ToSet(ids), exps, 0)
  <2>1. PICK S : S = UNION {OpenRows(sts, ToSet(ids), exps[k]) : k \in 1..0}
    OBVIOUS
  <2>2. PICK pick : pick = [k \in 1..0 |-> 0]
    OBVIOUS
  <2>3. pick \in [1..0 -> S]
    BY <1>1, <2>2
  <2>4. \A k \in 1..0 : pick[k] \in OpenRows(sts, ToSet(ids), exps[k])
    BY <1>1
  <2>5. FirstPicks(sts, ToSet(ids), exps, 0)
          = {f \in [1..0 -> S] : \A k \in 1..0 : f[k] \in OpenRows(sts, ToSet(ids), exps[k])}
    BY <2>1 DEF FirstPicks
  <2> QED
    BY <2>3, <2>4, <2>5
<1>3. ASSUME NEW st, NEW ids, NEW pick PROVE StandsFor(st, ids, pick, exps, 0) <=> st.parents = ids
  BY <1>1 DEF StandsFor
<1>4. ASSUME NEW ids \in FirstCombinations(sts, deps, i), NEW pick
      PROVE  (\E x \in DOMAIN list : \A y \in DOMAIN list : StandsFor(list[y], ids, pick, exps, 0) <=> y = x)
               <=> \E x \in DOMAIN list : \A y \in DOMAIN list : list[y].parents = ids <=> y = x
  <2>1. \A y : StandsFor(list[y], ids, pick, exps, 0) <=> list[y].parents = ids
    BY <1>3
  <2> QED
    BY <2>1
<1>5. ASSUME EveryOnce(list, sts, deps, i, exps, 0), NEW ids \in FirstCombinations(sts, deps, i)
      PROVE  \E x \in DOMAIN list : \A y \in DOMAIN list : list[y].parents = ids <=> y = x
  <2>1. PICK pick : pick \in FirstPicks(sts, ToSet(ids), exps, 0)
    BY <1>2
  <2>2. \E x \in DOMAIN list : \A y \in DOMAIN list : StandsFor(list[y], ids, pick, exps, 0) <=> y = x
    BY <1>5, <2>1, Zenon DEF EveryOnce
  <2> QED
    BY <1>4, <2>2
<1>6. ASSUME CombinedOnceEach(list, sts, deps, i), NEW ids \in FirstCombinations(sts, deps, i), NEW pick
      PROVE  \E x \in DOMAIN list : \A y \in DOMAIN list : StandsFor(list[y], ids, pick, exps, 0) <=> y = x
  <2>1. \E x \in DOMAIN list : \A y \in DOMAIN list : list[y].parents = ids <=> y = x
    BY <1>6, Zenon DEF CombinedOnceEach
  <2> QED
    BY <1>4, <2>1
<1>7. EveryOnce(list, sts, deps, i, exps, 0) => CombinedOnceEach(list, sts, deps, i)
  BY <1>5, Zenon DEF CombinedOnceEach
<1>8. CombinedOnceEach(list, sts, deps, i) => EveryOnce(list, sts, deps, i, exps, 0)
  <2> SUFFICES ASSUME CombinedOnceEach(list, sts, deps, i), NEW ids \in FirstCombinations(sts, deps, i),
                      NEW pick \in FirstPicks(sts, ToSet(ids), exps, 0)
               PROVE  \E x \in DOMAIN list : \A y \in DOMAIN list :
                        StandsFor(list[y], ids, pick, exps, 0) <=> y = x
    BY DEF EveryOnce
  <2> QED
    BY <1>6
<1> QED
  BY <1>7, <1>8

\* What a combination of workpackages of dependencies is.
LEMMA CombinationIs ==
  ASSUME NEW sts, NEW deps, deps \in Seq(ToSet(deps)), Numbered(sts, deps),
         NEW i \in Nat, i <= Len(deps), NEW ids \in FirstCombinations(sts, deps, i)
  PROVE  /\ DOMAIN ids = 1..i /\ ids = [k \in 1..i |-> ids[k]]
         /\ \A k \in 1..i : /\ ids[k] = <<deps[k], ids[k][2]>>
                            /\ ids[k][1] = deps[k]
                            /\ ids[k][2] \in DOMAIN sts[deps[k]]
         /\ \A j, k \in 1..i : Agree(sts[ids[j][1]][ids[j][2]].values, sts[ids[k][1]][ids[k][2]].values)
<1>1. PICK S : S = UNION {{WorkId(s) : s \in ToSet(sts[d])} : d \in ToSet(deps)}
  OBVIOUS
<1>2. /\ ids \in [1..i -> S] /\ \A k \in 1..i : ids[k][1] = deps[k]
      /\ \A j, k \in 1..i : Agree(sts[ids[j][1]][ids[j][2]].values, sts[ids[k][1]][ids[k][2]].values)
  BY <1>1 DEF FirstCombinations
<1>3. ASSUME NEW k \in 1..i
      PROVE  ids[k] = <<deps[k], ids[k][2]>> /\ ids[k][2] \in DOMAIN sts[deps[k]]
  <2>1. ids[k] \in S
    BY <1>2
  <2>2. PICK d \in ToSet(deps) : ids[k] \in {WorkId(s) : s \in ToSet(sts[d])}
    BY <1>1, <2>1
  <2>3. PICK s \in ToSet(sts[d]) : ids[k] = WorkId(s)
    BY <2>2
  <2>4. PICK z \in DOMAIN sts[d] : s = sts[d][z]
    BY <2>3 DEF ToSet
  <2>5. PICK m \in 1..Len(deps) : d = deps[m]
    <3>1. DOMAIN deps = 1..Len(deps)
      OBVIOUS
    <3> QED
      BY <2>2, <3>1 DEF ToSet
  <2>6. s.step = d /\ s.row = z
    BY <2>4, <2>5 DEF Numbered
  <2>7. ids[k] = <<d, z>>
    BY <2>3, <2>6 DEF WorkId
  <2>8. d = deps[k]
    BY <1>2, <2>7
  <2> QED
    BY <2>4, <2>7, <2>8
<1> QED
  BY <1>2, <1>3

\* The beginning of a combination is a combination.
LEMMA ShorterCombination ==
  ASSUME NEW sts, NEW deps, NEW i \in Nat, NEW ids \in FirstCombinations(sts, deps, i + 1)
  PROVE  [k \in 1..i |-> ids[k]] \in FirstCombinations(sts, deps, i)
<1>1. PICK S : S = UNION {{WorkId(s) : s \in ToSet(sts[d])} : d \in ToSet(deps)}
  OBVIOUS
<1>2. /\ ids \in [1..(i + 1) -> S] /\ \A k \in 1..(i + 1) : ids[k][1] = deps[k]
      /\ \A j, k \in 1..(i + 1) : Agree(sts[ids[j][1]][ids[j][2]].values, sts[ids[k][1]][ids[k][2]].values)
  BY <1>1 DEF FirstCombinations
<1>3. 1..i \subseteq 1..(i + 1)
  OBVIOUS
<1>4. PICK short : short = [k \in 1..i |-> ids[k]]
  OBVIOUS
<1>5. short \in [1..i -> S] /\ \A k \in 1..i : short[k] = ids[k]
  BY <1>2, <1>3, <1>4
<1>6. \A k \in 1..i : short[k][1] = deps[k]
  BY <1>2, <1>3, <1>5
<1>7. \A j, k \in 1..i : Agree(sts[short[j][1]][short[j][2]].values, sts[short[k][1]][short[k][2]].values)
  BY <1>2, <1>3, <1>5
<1>8. short \in FirstCombinations(sts, deps, i)
  BY <1>1, <1>5, <1>6, <1>7 DEF FirstCombinations
<1> QED
  BY <1>4, <1>8

\* With one more dependency every combination still has one state.
LEMMA InheritOnce ==
  ASSUME NEW list, list \in Seq(ToSet(list)), NEW sts, NEW deps, deps \in Seq(ToSet(deps)), Numbered(sts, deps),
         NEW i \in Nat, i < Len(deps), \A st \in ToSet(list) : ComposedOf(st, sts, i),
         CombinedOnceEach(list, sts, deps, i),
         NEW added, added = sts[deps[i + 1]], NEW at, NEW of, NEW next, InheritedAt(at, of, list, added, next)
  PROVE  CombinedOnceEach(next, sts, deps, i + 1)
<1> SUFFICES ASSUME NEW ids \in FirstCombinations(sts, deps, i + 1)
             PROVE  \E x \in DOMAIN next : \A y \in DOMAIN next : next[y].parents = ids <=> y = x
  BY DEF CombinedOnceEach
<1>1. /\ ids = [k \in 1..(i + 1) |-> ids[k]]
      /\ \A k \in 1..(i + 1) : /\ ids[k] = <<deps[k], ids[k][2]>>
                               /\ ids[k][1] = deps[k]
                               /\ ids[k][2] \in DOMAIN sts[deps[k]]
      /\ \A j, k \in 1..(i + 1) : Agree(sts[ids[j][1]][ids[j][2]].values, sts[ids[k][1]][ids[k][2]].values)
  <2>1. i + 1 \in Nat /\ i + 1 <= Len(deps)
    OBVIOUS
  <2> QED
    BY <2>1, CombinationIs
<1>2. PICK short : short = [k \in 1..i |-> ids[k]]
  OBVIOUS
<1>3. PICK x0 \in DOMAIN list : \A y \in DOMAIN list : list[y].parents = short <=> y = x0
  <2>1. short \in FirstCombinations(sts, deps, i)
    BY <1>2, ShorterCombination
  <2> QED
    BY <2>1 DEF CombinedOnceEach
<1>4. PICK a : a = list[x0] /\ a \in ToSet(list)
  BY DEF ToSet
<1>5. a.parents = short /\ ComposedOf(a, sts, i)
  BY <1>3, <1>4
<1>6. PICK z, w : z = ids[i + 1][2] /\ w = sts[deps[i + 1]][z]
  OBVIOUS
<1>7. /\ i + 1 \in 1..(i + 1) /\ i + 1 \in 1..Len(deps) /\ 1..i \subseteq 1..(i + 1)
  OBVIOUS
<1>8. z \in DOMAIN added /\ added[z] = w /\ ids[i + 1] = <<deps[i + 1], z>>
  BY <1>1, <1>6, <1>7
<1>9. Agree(a.values, w.values)
  <2> SUFFICES ASSUME NEW n \in DOMAIN a.values \cap DOMAIN w.values PROVE a.values[n] = w.values[n]
    BY DEF Agree
  <2>1. PICK id \in ToSet(a.parents) : n \in DOMAIN sts[id[1]][id[2]].values
    BY <1>5 DEF ComposedOf
  <2>2. a.values[n] = sts[id[1]][id[2]].values[n]
    BY <1>5, <2>1 DEF ComposedOf
  <2>3. PICK j \in 1..i : id = ids[j]
    BY <1>2, <1>5, <2>1 DEF ToSet
  <2>4. Agree(sts[ids[j][1]][ids[j][2]].values, sts[ids[i + 1][1]][ids[i + 1][2]].values)
    BY <1>1, <1>7
  <2>5. Agree(sts[id[1]][id[2]].values, w.values)
    <3>1. PICK last : last = ids[i + 1]
      OBVIOUS
    <3>2. last[1] = deps[i + 1] /\ last[2] = z
      BY <1>8, <3>1
    <3>3. sts[last[1]][last[2]] = w
      BY <1>6, <3>2
    <3>4. Agree(sts[id[1]][id[2]].values, sts[last[1]][last[2]].values)
      BY <2>3, <2>4, <3>1
    <3> QED
      BY <3>3, <3>4
  <2> QED
    BY <2>1, <2>2, <2>5 DEF Agree
<1>10. PICK x \in DOMAIN next : at[x] = x0 /\ of[x] = z
  BY <1>4, <1>8, <1>9 DEF InheritedAt
<1>11. ASSUME NEW y \in DOMAIN next
       PROVE  /\ next[y].parents = Append(list[at[y]].parents, <<deps[i + 1], of[y]>>)
              /\ at[y] \in DOMAIN list
              /\ list[at[y]].parents = [k \in 1..i |-> list[at[y]].parents[k]]
              /\ list[at[y]].parents \in Seq(ToSet(list[at[y]].parents)) /\ Len(list[at[y]].parents) = i
  <2>1. PICK b, v : b = list[at[y]] /\ v = added[of[y]]
    OBVIOUS
  <2>2. next[y] = MergeParentStates(b, v) /\ at[y] \in DOMAIN list /\ of[y] \in DOMAIN added
    BY <2>1 DEF InheritedAt
  <2>3. next[y].parents = Append(b.parents, WorkId(v))
    BY <2>2 DEF MergeParentStates
  <2>4. v.step = deps[i + 1] /\ v.row = of[y]
    BY <1>7, <2>1, <2>2 DEF Numbered
  <2>5. b.parents \in Seq(ToSet(b.parents)) /\ Len(b.parents) = i
    <3>1. b \in ToSet(list)
      BY <2>1, <2>2 DEF ToSet
    <3> QED
      BY <3>1 DEF ComposedOf
  <2>6. b.parents = [k \in 1..i |-> b.parents[k]]
    BY <2>5
  <2> QED
    BY <2>1, <2>2, <2>3, <2>4, <2>5, <2>6 DEF WorkId
<1>12. next[x].parents = ids
  <2>1. PICK ps : ps = list[x0].parents
    OBVIOUS
  <2>2. ps = short /\ ps \in Seq(ToSet(ps)) /\ Len(ps) = i
    BY <1>4, <1>5, <2>1 DEF ComposedOf
  <2>3. next[x].parents = Append(ps, ids[i + 1])
    BY <1>8, <1>10, <1>11, <2>1
  <2>4. Append(ps, ids[i + 1]) = [k \in 1..(i + 1) |-> IF k = i + 1 THEN ids[i + 1] ELSE ps[k]]
    BY <2>2
  <2>5. \A k \in 1..i : ps[k] = ids[k]
    BY <1>2, <2>2
  <2>6. ASSUME NEW k \in 1..(i + 1) PROVE ids[k] = IF k = i + 1 THEN ids[i + 1] ELSE ps[k]
    <3>1. k # i + 1 => k \in 1..i
      OBVIOUS
    <3> QED
      BY <2>5, <3>1
  <2>7. [k \in 1..(i + 1) |-> ids[k]] = [k \in 1..(i + 1) |-> IF k = i + 1 THEN ids[i + 1] ELSE ps[k]]
    BY <2>6
  <2> QED
    BY <1>1, <2>3, <2>4, <2>7, Zenon
<1>13. ASSUME NEW y \in DOMAIN next, next[y].parents = ids
       PROVE  y = x
  <2>1. PICK ps : ps = list[at[y]].parents
    OBVIOUS
  <2>2. ps \in Seq(ToSet(ps)) /\ Len(ps) = i /\ ids = Append(ps, <<deps[i + 1], of[y]>>)
    BY <1>11, <1>13, <2>1
  <2>3. ids[i + 1] = <<deps[i + 1], of[y]>> /\ \A k \in 1..i : ids[k] = ps[k]
    BY <2>2
  <2>4. of[y] = z
    BY <1>8, <2>3
  <2>5. ps = short
    <3>1. ps = [k \in 1..i |-> ps[k]]
      BY <2>2
    <3> QED
      BY <1>2, <2>3, <3>1
  <2>6. at[y] = x0
    BY <1>3, <1>11, <2>1, <2>5
  <2> QED
    BY <1>10, <2>4, <2>6 DEF InheritedAt
<1> QED
  BY <1>12, <1>13

\* Before the first import a state has only what it has inherited.
LEMMA NoneMade ==
  ASSUME NEW st, NEW sts, NEW exps
  PROVE  MadeOf(st, sts, exps, 0) <=>
           /\ \A c \in ToSet(st.rows) : c.inherited =>
                \E id \in ToSet(st.parents) : \E d \in ToSet(sts[id[1]][id[2]].rows) :
                  d.source = c.source /\ d.rows = c.rows
           /\ \A c \in ToSet(st.rows) : c.inherited
<1>1. 1..0 = {}
  OBVIOUS
<1> QED
  BY <1>1 DEF MadeOf

\* What a state has inherited with one more dependency is from its parents.
LEMMA InheritMade ==
  ASSUME NEW a, NEW w, NEW sts, NEW exps, NEW st, MadeOf(a, sts, exps, 0),
         a.rows \in Seq(ToSet(a.rows)), a.parents \in Seq(ToSet(a.parents)),
         w.rows \in Seq(ToSet(w.rows)), \A c \in ToSet(w.rows) : Selection(c),
         sts[w.step][w.row] = w, st = MergeParentStates(a, w)
  PROVE  MadeOf(st, sts, exps, 0)
<1>1. PICK old, new, rows : old = a.rows /\ new = Marked(w.rows) /\ rows = st.rows
  OBVIOUS
<1>2. rows = old \o new /\ st.parents = Append(a.parents, WorkId(w))
  BY <1>1 DEF MergeParentStates, Marked
<1>3. /\ new \in Seq(ToSet(new))
      /\ \A d \in ToSet(new) : d.inherited /\ \E c \in ToSet(w.rows) : d.source = c.source /\ d.rows = c.rows
  BY <1>1, MarkedRows
<1>4. ToSet(rows) = ToSet(old) \cup ToSet(new)
  BY <1>1, <1>2, <1>3, JoinedElements
<1>5. ToSet(st.parents) = ToSet(a.parents) \cup {WorkId(w)}
  BY <1>2, AppendedElements
<1>6. /\ \A c \in ToSet(old) : c.inherited
      /\ \A c \in ToSet(old) : \E id \in ToSet(a.parents) : \E d \in ToSet(sts[id[1]][id[2]].rows) :
           d.source = c.source /\ d.rows = c.rows
  BY <1>1, NoneMade
<1>7. WorkId(w)[1] = w.step /\ WorkId(w)[2] = w.row
  BY DEF WorkId
<1>8. ASSUME NEW c \in ToSet(rows)
      PROVE  c.inherited /\ \E id \in ToSet(st.parents) : \E d \in ToSet(sts[id[1]][id[2]].rows) :
                              d.source = c.source /\ d.rows = c.rows
  <2>1. CASE c \in ToSet(old)
    BY <1>5, <1>6, <2>1
  <2>2. CASE c \in ToSet(new)
    <3>1. PICK d \in ToSet(w.rows) : c.source = d.source /\ c.rows = d.rows
      BY <1>3, <2>2
    <3>2. WorkId(w) \in ToSet(st.parents) /\ d \in ToSet(sts[WorkId(w)[1]][WorkId(w)[2]].rows)
      BY <1>5, <1>7
    <3> QED
      BY <1>3, <2>2, <3>1, <3>2
  <2> QED
    BY <1>4, <2>1, <2>2
<1> QED
  BY <1>1, <1>8, NoneMade

-----------------------------------------------------------------------------
(***************************************************************************)
(* One more import.                                                        *)
(***************************************************************************)
\* A state leaves to an import just the rows that are open to it.
LEMMA LeftIsOpen ==
  ASSUME NEW st, NEW sts, NEW exps, NEW j, NEW e, MadeOf(st, sts, exps, j),
         \A id \in ToSet(st.parents) : Keeps(st, sts[id[1]][id[2]])
  PROVE  LeftTo(st, e) = OpenRows(sts, ToSet(st.parents), e)
<1>1. ASSUME NEW r \in LeftTo(st, e) PROVE r \in OpenRows(sts, ToSet(st.parents), e)
  <2> SUFFICES ASSUME NEW id \in ToSet(st.parents), NEW c \in ToSet(sts[id[1]][id[2]].rows), c.source = e.source
               PROVE  r \in c.rows
    BY DEF LeftTo, OpenRows
  <2>1. PICK d \in ToSet(st.rows) : d.inherited /\ d.source = c.source /\ d.rows = c.rows
    BY DEF Keeps
  <2> QED
    BY <2>1 DEF LeftTo
<1>2. ASSUME NEW r \in OpenRows(sts, ToSet(st.parents), e) PROVE r \in LeftTo(st, e)
  <2> SUFFICES ASSUME NEW c \in ToSet(st.rows), c.source = e.source, c.inherited
               PROVE  r \in c.rows
    BY DEF LeftTo, OpenRows
  <2>1. PICK id \in ToSet(st.parents) : \E d \in ToSet(sts[id[1]][id[2]].rows) :
          d.source = c.source /\ d.rows = c.rows
    BY DEF MadeOf
  <2> QED
    BY <2>1 DEF OpenRows
<1> QED
  BY <1>1, <1>2

\* The only selection of its own that a state has for an item.
Only(rows, item, c) == c \in ToSet(rows) /\ \A d \in ToSet(rows) : (~d.inherited /\ d.item = item) <=> d = c

\* It is what OwnSelection finds.
LEMMA OwnIs ==
  ASSUME NEW st, NEW e, NEW c, Only(st.rows, e.item, c)
  PROVE  OwnSelection(st, e) = c
<1>1. PICK rows, item : rows = st.rows /\ item = e.item
  OBVIOUS
<1>2. c \in ToSet(rows) /\ \A d \in ToSet(rows) : (~d.inherited /\ d.item = item) <=> d = c
  BY <1>1 DEF Only
<1>3. (CHOOSE d \in ToSet(rows) : ~d.inherited /\ d.item = item) = c
  BY <1>2
<1> QED
  BY <1>1, <1>3 DEF OwnSelection

\* A choice for the next import leaves the selections of the earlier ones.
LEMMA ExpandMade ==
  ASSUME NEW a, NEW sts, NEW exps, NEW j \in Nat, MadeOf(a, sts, exps, j), a.rows \in Seq(ToSet(a.rows)),
         \A k \in 1..j : exps[k].item # exps[j + 1].item,
         NEW c, AllAlike(c.rows, OpenRows(sts, ToSet(a.parents), exps[j + 1]), exps[j + 1]),
         NEW st, st = MergeWithChoice(a, exps[j + 1], c)
  PROVE  /\ MadeOf(st, sts, exps, j + 1)
         /\ \A k \in 1..j : OwnSelection(st, exps[k]) = OwnSelection(a, exps[k])
         /\ OwnSelection(st, exps[j + 1]).rows = c.rows
<1>1. PICK e : e = exps[j + 1]
  OBVIOUS
<1>2. PICK new : new = [item |-> e.item, source |-> e.source, vars |-> Names(e.vars),
                        rows |-> c.rows, inherited |-> FALSE]
  OBVIOUS
<1>3. PICK old, rows : old = a.rows /\ rows = st.rows
  OBVIOUS
<1>4. rows = Append(old, new) /\ st.parents = a.parents
  BY <1>1, <1>2, <1>3 DEF MergeWithChoice
<1>5. ToSet(rows) = ToSet(old) \cup {new}
  BY <1>3, <1>4, AppendedElements
<1>6. ~new.inherited /\ new.item = e.item /\ new.rows = c.rows
  BY <1>2
<1> HIDE <1>2
<1>7. /\ \A d \in ToSet(old) : d.inherited =>
           \E id \in ToSet(a.parents) : \E f \in ToSet(sts[id[1]][id[2]].rows) :
             f.source = d.source /\ f.rows = d.rows
      /\ \A d \in ToSet(old) : ~d.inherited => \E k \in 1..j : d.item = exps[k].item
      /\ \A k \in 1..j : \E d \in ToSet(old) :
           /\ \A f \in ToSet(old) : (~f.inherited /\ f.item = exps[k].item) <=> f = d
           /\ AllAlike(d.rows, OpenRows(sts, ToSet(a.parents), exps[k]), exps[k])
  BY <1>3 DEF MadeOf
<1>8. ASSUME NEW k \in 1..j
      PROVE  \E d \in ToSet(rows) :
               /\ \A f \in ToSet(rows) : (~f.inherited /\ f.item = exps[k].item) <=> f = d
               /\ AllAlike(d.rows, OpenRows(sts, ToSet(a.parents), exps[k]), exps[k])
               /\ OwnSelection(st, exps[k]) = OwnSelection(a, exps[k])
  <2>1. PICK d \in ToSet(old) :
          /\ \A f \in ToSet(old) : (~f.inherited /\ f.item = exps[k].item) <=> f = d
          /\ AllAlike(d.rows, OpenRows(sts, ToSet(a.parents), exps[k]), exps[k])
    BY <1>7
  <2>2. new.item # exps[k].item
    BY <1>1, <1>6
  <2>3. \A f \in ToSet(rows) : (~f.inherited /\ f.item = exps[k].item) <=> f = d
    BY <1>5, <2>1, <2>2
  <2>4. OwnSelection(a, exps[k]) = d
    <3>1. Only(a.rows, exps[k].item, d)
      BY <1>3, <2>1 DEF Only
    <3> QED
      BY <3>1, OwnIs
  <2>5. OwnSelection(st, exps[k]) = d
    <3>1. Only(st.rows, exps[k].item, d)
      BY <1>3, <1>5, <2>1, <2>3 DEF Only
    <3> QED
      BY <3>1, OwnIs
  <2> QED
    BY <1>5, <2>1, <2>3, <2>4, <2>5
<1>9. /\ new \in ToSet(rows)
      /\ \A f \in ToSet(rows) : (~f.inherited /\ f.item = e.item) <=> f = new
      /\ AllAlike(new.rows, OpenRows(sts, ToSet(a.parents), e), e)
      /\ OwnSelection(st, e) = new
  <2>1. \A f \in ToSet(old) : ~(~f.inherited /\ f.item = e.item)
    BY <1>1, <1>7
  <2>2. \A f \in ToSet(rows) : (~f.inherited /\ f.item = e.item) <=> f = new
    BY <1>5, <1>6, <2>1
  <2>3. OwnSelection(st, e) = new
    <3>1. Only(st.rows, e.item, new)
      BY <1>3, <1>5, <2>2 DEF Only
    <3> QED
      BY <3>1, OwnIs
  <2> QED
    BY <1>1, <1>5, <1>6, <2>2, <2>3
<1>10. ASSUME NEW k \in 1..(j + 1)
       PROVE  \E d \in ToSet(rows) :
                /\ \A f \in ToSet(rows) : (~f.inherited /\ f.item = exps[k].item) <=> f = d
                /\ AllAlike(d.rows, OpenRows(sts, ToSet(a.parents), exps[k]), exps[k])
  <2>1. CASE k = j + 1
    BY <1>1, <1>9, <2>1
  <2>2. CASE k # j + 1
    <3>1. k \in 1..j
      BY <2>2
    <3> QED
      BY <1>8, <3>1
  <2> QED
    BY <2>1, <2>2
<1>11. \A d \in ToSet(rows) : d.inherited =>
         \E id \in ToSet(a.parents) : \E f \in ToSet(sts[id[1]][id[2]].rows) : f.source = d.source /\ f.rows = d.rows
  BY <1>5, <1>6, <1>7
<1>12. ASSUME NEW d \in ToSet(rows), ~d.inherited PROVE \E k \in 1..(j + 1) : d.item = exps[k].item
  <2>1. CASE d \in ToSet(old)
    <3>1. PICK k \in 1..j : d.item = exps[k].item
      BY <1>7, <1>12, <2>1
    <3>2. k \in 1..(j + 1)
      OBVIOUS
    <3> QED
      BY <3>1, <3>2
  <2>2. CASE d = new
    <3>1. j + 1 \in 1..(j + 1)
      OBVIOUS
    <3> QED
      BY <1>1, <1>6, <2>2, <3>1
  <2> QED
    BY <1>5, <2>1, <2>2
<1>13. MadeOf(st, sts, exps, j + 1)
  BY <1>3, <1>4, <1>10, <1>11, <1>12 DEF MadeOf
<1> QED
  BY <1>1, <1>6, <1>8, <1>9, <1>13

\* The beginning of a choice is a choice.
LEMMA ShorterPick ==
  ASSUME NEW sts, NEW parents, NEW exps, NEW j \in Nat, NEW pick \in FirstPicks(sts, parents, exps, j + 1)
  PROVE  /\ [k \in 1..j |-> pick[k]] \in FirstPicks(sts, parents, exps, j)
         /\ pick[j + 1] \in OpenRows(sts, parents, exps[j + 1])
<1>1. PICK S, T : /\ S = UNION {OpenRows(sts, parents, exps[k]) : k \in 1..(j + 1)}
                  /\ T = UNION {OpenRows(sts, parents, exps[k]) : k \in 1..j}
  OBVIOUS
<1>2. pick \in [1..(j + 1) -> S] /\ \A k \in 1..(j + 1) : pick[k] \in OpenRows(sts, parents, exps[k])
  BY <1>1 DEF FirstPicks
<1>3. 1..j \subseteq 1..(j + 1) /\ j + 1 \in 1..(j + 1)
  OBVIOUS
<1>4. PICK short : short = [k \in 1..j |-> pick[k]]
  OBVIOUS
<1>5. \A k \in 1..j : short[k] = pick[k] /\ short[k] \in OpenRows(sts, parents, exps[k])
  BY <1>2, <1>3, <1>4
<1>6. \A k \in 1..j : short[k] \in T
  BY <1>1, <1>5
<1>7. short \in [1..j -> T]
  BY <1>4, <1>5, <1>6
<1>8. short \in FirstPicks(sts, parents, exps, j)
  BY <1>1, <1>5, <1>7 DEF FirstPicks
<1> QED
  BY <1>2, <1>3, <1>4, <1>8

\* With one more import every combination still has one state for each choice.
LEMMA ExpandOnce ==
  ASSUME NEW list, list \in Seq(ToSet(list)), NEW sts, NEW deps, NEW i, NEW exps, NEW j \in Nat,
         EveryOnce(list, sts, deps, i, exps, j),
         \A k \in 1..j : exps[k].item # exps[j + 1].item,
         NEW e, e = exps[j + 1], e.source \in Version,
         \A a \in ToSet(list) :
           /\ MadeOf(a, sts, exps, j) /\ a.rows \in Seq(ToSet(a.rows))
           /\ \A id \in ToSet(a.parents) : Keeps(a, sts[id[1]][id[2]])
           /\ \A c \in ToSet(RowChoices(a, e)) : Agree(a.values, c.values),
         NEW at, NEW of, NEW next, ExpandedAt(at, of, list, e, next)
  PROVE  EveryOnce(next, sts, deps, i, exps, j + 1)
<1>1. ASSUME NEW y \in DOMAIN next
      PROVE  \E a \in ToSet(list) : \E c \in ToSet(RowChoices(a, e)) :
               /\ at[y] \in DOMAIN list /\ a = list[at[y]] /\ of[y] \in DOMAIN RowChoices(a, e)
               /\ c = RowChoices(a, e)[of[y]] /\ next[y] = MergeWithChoice(a, e, c)
               /\ next[y].parents = a.parents
               /\ \A k \in 1..j : OwnSelection(next[y], exps[k]) = OwnSelection(a, exps[k])
               /\ OwnSelection(next[y], e).rows = c.rows
  <2>1. PICK a, c : a = list[at[y]] /\ c = RowChoices(a, e)[of[y]]
    OBVIOUS
  <2>2. at[y] \in DOMAIN list /\ of[y] \in DOMAIN RowChoices(a, e) /\ next[y] = MergeWithChoice(a, e, c)
    BY <2>1 DEF ExpandedAt
  <2>3. a \in ToSet(list) /\ c \in ToSet(RowChoices(a, e))
    BY <2>1, <2>2 DEF ToSet
  <2>4. AllAlike(c.rows, OpenRows(sts, ToSet(a.parents), e), e)
    <3>1. AllAlike(c.rows, LeftTo(a, e), e)
      BY <2>3, ChoicesOnce
    <3>2. LeftTo(a, e) = OpenRows(sts, ToSet(a.parents), e)
      BY <2>3, LeftIsOpen
    <3> QED
      BY <3>1, <3>2
  <2>5. /\ \A k \in 1..j : OwnSelection(next[y], exps[k]) = OwnSelection(a, exps[k])
        /\ OwnSelection(next[y], e).rows = c.rows
    BY <2>2, <2>3, <2>4, ExpandMade
  <2>6. next[y].parents = a.parents
    BY <2>2 DEF MergeWithChoice
  <2> QED
    BY <2>1, <2>2, <2>3, <2>5, <2>6
<1> SUFFICES ASSUME NEW ids \in FirstCombinations(sts, deps, i),
                    NEW pick \in FirstPicks(sts, ToSet(ids), exps, j + 1)
             PROVE  \E x \in DOMAIN next : \A y \in DOMAIN next : StandsFor(next[y], ids, pick, exps, j + 1) <=> y = x
  BY DEF EveryOnce
<1>2. PICK short : short = [k \in 1..j |-> pick[k]]
  OBVIOUS
<1>3. short \in FirstPicks(sts, ToSet(ids), exps, j) /\ pick[j + 1] \in OpenRows(sts, ToSet(ids), e)
  BY <1>2, ShorterPick
<1>4. PICK x0 \in DOMAIN list : \A y \in DOMAIN list : StandsFor(list[y], ids, short, exps, j) <=> y = x0
  BY <1>3 DEF EveryOnce
<1>5. PICK a : a = list[x0] /\ a \in ToSet(list)
  BY DEF ToSet
<1>6. StandsFor(a, ids, short, exps, j) /\ a.parents = ids
  BY <1>4, <1>5 DEF StandsFor
<1>7. PICK choices : choices = RowChoices(a, e)
  OBVIOUS
<1>8. pick[j + 1] \in LeftTo(a, e)
  BY <1>3, <1>5, <1>6, LeftIsOpen
<1>9. PICK z \in DOMAIN choices : \A y \in DOMAIN choices : pick[j + 1] \in choices[y].rows <=> y = z
  BY <1>7, <1>8, ChoicesOnce
<1>10. PICK x \in DOMAIN next : at[x] = x0 /\ of[x] = z
  <2>1. choices[z] \in ToSet(choices)
    BY DEF ToSet
  <2>2. Agree(a.values, choices[z].values)
    BY <1>5, <1>7, <2>1
  <2> QED
    BY <1>5, <1>7, <2>2 DEF ExpandedAt
<1>11. ASSUME NEW y \in DOMAIN next
       PROVE  StandsFor(next[y], ids, pick, exps, j + 1)
                <=> /\ StandsFor(list[at[y]], ids, short, exps, j)
                    /\ pick[j + 1] \in RowChoices(list[at[y]], e)[of[y]].rows
  <2>1. PICK b, c :
          /\ b = list[at[y]] /\ c = RowChoices(b, e)[of[y]]
          /\ next[y].parents = b.parents
          /\ \A k \in 1..j : OwnSelection(next[y], exps[k]) = OwnSelection(b, exps[k])
          /\ OwnSelection(next[y], e).rows = c.rows
    BY <1>1
  <2>2. (\A k \in 1..(j + 1) : pick[k] \in OwnSelection(next[y], exps[k]).rows)
          <=> /\ \A k \in 1..j : pick[k] \in OwnSelection(next[y], exps[k]).rows
              /\ pick[j + 1] \in OwnSelection(next[y], exps[j + 1]).rows
    <3>1. \A k \in 1..(j + 1) : k \in 1..j \/ k = j + 1
      OBVIOUS
    <3>2. 1..j \subseteq 1..(j + 1) /\ j + 1 \in 1..(j + 1)
      OBVIOUS
    <3> QED
      BY <3>1, <3>2
  <2>3. (\A k \in 1..j : pick[k] \in OwnSelection(next[y], exps[k]).rows)
          <=> \A k \in 1..j : short[k] \in OwnSelection(b, exps[k]).rows
    BY <1>2, <2>1
  <2>4. StandsFor(next[y], ids, pick, exps, j + 1)
          <=> /\ b.parents = ids /\ \A k \in 1..j : short[k] \in OwnSelection(b, exps[k]).rows
              /\ pick[j + 1] \in c.rows
    BY <2>1, <2>2, <2>3 DEF StandsFor
  <2> QED
    BY <2>1, <2>4 DEF StandsFor
<1>12. StandsFor(next[x], ids, pick, exps, j + 1)
  BY <1>5, <1>6, <1>7, <1>9, <1>10, <1>11
<1>13. ASSUME NEW y \in DOMAIN next, StandsFor(next[y], ids, pick, exps, j + 1)
       PROVE  y = x
  <2>1. at[y] \in DOMAIN list /\ of[y] \in DOMAIN RowChoices(list[at[y]], e)
    BY DEF ExpandedAt
  <2>2. at[y] = x0
    BY <1>4, <1>11, <1>13, <2>1
  <2>3. of[y] = z
    BY <1>5, <1>7, <1>9, <1>11, <1>13, <2>1, <2>2
  <2> QED
    BY <1>10, <2>2, <2>3 DEF ExpandedAt
<1> QED
  BY <1>12, <1>13

-----------------------------------------------------------------------------
(***************************************************************************)
(* The states of a step stay what they are.                                *)
(***************************************************************************)
\* The rows that are open to an import depend only on the dependencies.
LEMMA OpenStays ==
  ASSUME NEW sts, NEW more, NEW parents, NEW e, \A id \in parents : more[id[1]] = sts[id[1]]
  PROVE  OpenRows(more, parents, e) = OpenRows(sts, parents, e)
<1>1. \A id \in parents : more[id[1]][id[2]] = sts[id[1]][id[2]]
  OBVIOUS
<1> QED
  BY <1>1 DEF OpenRows

\* What a state is made of does not depend on steps that are built later.
LEMMA MadeStays ==
  ASSUME NEW st, NEW sts, NEW exps, NEW j, MadeOf(st, sts, exps, j),
         NEW like, like.rows = st.rows, like.parents = st.parents,
         NEW more, \A id \in ToSet(st.parents) : more[id[1]] = sts[id[1]]
  PROVE  MadeOf(like, more, exps, j)
<1>1. PICK rows, parents : rows = st.rows /\ parents = ToSet(st.parents)
  OBVIOUS
<1>2. \A k : OpenRows(more, parents, exps[k]) = OpenRows(sts, parents, exps[k])
  BY <1>1, OpenStays
<1>3. \A id \in parents : more[id[1]][id[2]] = sts[id[1]][id[2]]
  BY <1>1
<1>4. /\ \A c \in ToSet(rows) : c.inherited =>
           \E id \in parents : \E d \in ToSet(sts[id[1]][id[2]].rows) : d.source = c.source /\ d.rows = c.rows
      /\ \A c \in ToSet(rows) : ~c.inherited => \E k \in 1..j : c.item = exps[k].item
      /\ \A k \in 1..j : \E c \in ToSet(rows) :
           /\ \A d \in ToSet(rows) : (~d.inherited /\ d.item = exps[k].item) <=> d = c
           /\ AllAlike(c.rows, OpenRows(sts, parents, exps[k]), exps[k])
  BY <1>1 DEF MadeOf
<1>5. \A c \in ToSet(rows) : c.inherited =>
        \E id \in parents : \E d \in ToSet(more[id[1]][id[2]].rows) : d.source = c.source /\ d.rows = c.rows
  BY <1>3, <1>4
<1>6. \A k \in 1..j : \E c \in ToSet(rows) :
        /\ \A d \in ToSet(rows) : (~d.inherited /\ d.item = exps[k].item) <=> d = c
        /\ AllAlike(c.rows, OpenRows(more, parents, exps[k]), exps[k])
  BY <1>2, <1>4
<1>7. like.rows = rows /\ ToSet(like.parents) = parents
  BY <1>1
<1> QED
  BY <1>4, <1>5, <1>6, <1>7 DEF MadeOf

\* So do the combinations of the first dependencies, and the choices.
LEMMA CombinationsStay ==
  ASSUME NEW sts, NEW more, NEW deps, deps \in Seq(ToSet(deps)), NEW n \in Nat, n <= Len(deps),
         \A d \in ToSet(deps) : more[d] = sts[d]
  PROVE  /\ FirstCombinations(more, deps, n) = FirstCombinations(sts, deps, n)
         /\ \A ids \in FirstCombinations(sts, deps, n) : \A id \in ToSet(ids) : id[1] \in ToSet(deps)
<1>1. PICK S : S = UNION {{WorkId(s) : s \in ToSet(sts[d])} : d \in ToSet(deps)}
  OBVIOUS
<1>2. S = UNION {{WorkId(s) : s \in ToSet(more[d])} : d \in ToSet(deps)}
  <2>1. \A d \in ToSet(deps) : {WorkId(s) : s \in ToSet(more[d])} = {WorkId(s) : s \in ToSet(sts[d])}
    OBVIOUS
  <2>2. {{WorkId(s) : s \in ToSet(more[d])} : d \in ToSet(deps)} = {{WorkId(s) : s \in ToSet(sts[d])} : d \in ToSet(deps)}
    BY <2>1
  <2> QED
    BY <1>1, <2>2
<1>3. \A k \in 1..n : deps[k] \in ToSet(deps)
  <2>1. \A k \in 1..n : k \in DOMAIN deps
    OBVIOUS
  <2> QED
    BY <2>1 DEF ToSet
<1>4. ASSUME NEW f, \A k \in 1..n : f[k][1] = deps[k]
      PROVE  (\A j, k \in 1..n : Agree(sts[f[j][1]][f[j][2]].values, sts[f[k][1]][f[k][2]].values))
               <=> \A j, k \in 1..n : Agree(more[f[j][1]][f[j][2]].values, more[f[k][1]][f[k][2]].values)
  <2>1. \A k \in 1..n : more[f[k][1]][f[k][2]].values = sts[f[k][1]][f[k][2]].values
    BY <1>3, <1>4
  <2> QED
    BY <2>1
<1>5. FirstCombinations(sts, deps, n) = {f \in [1..n -> S] :
        /\ \A k \in 1..n : f[k][1] = deps[k]
        /\ \A j, k \in 1..n : Agree(sts[f[j][1]][f[j][2]].values, sts[f[k][1]][f[k][2]].values)}
  BY <1>1 DEF FirstCombinations
<1>6. FirstCombinations(more, deps, n) = {f \in [1..n -> S] :
        /\ \A k \in 1..n : f[k][1] = deps[k]
        /\ \A j, k \in 1..n : Agree(more[f[j][1]][f[j][2]].values, more[f[k][1]][f[k][2]].values)}
  BY <1>2 DEF FirstCombinations
<1>7. FirstCombinations(more, deps, n) = FirstCombinations(sts, deps, n)
  BY <1>4, <1>5, <1>6
<1>8. ASSUME NEW ids \in FirstCombinations(sts, deps, n), NEW id \in ToSet(ids) PROVE id[1] \in ToSet(deps)
  <2>1. ids \in [1..n -> S] /\ \A k \in 1..n : ids[k][1] = deps[k]
    BY <1>5
  <2>2. PICK k \in 1..n : id = ids[k]
    BY <2>1 DEF ToSet
  <2> QED
    BY <1>3, <2>1, <2>2
<1> QED
  BY <1>7, <1>8

\* Nor does it that every combination of them has one state.
LEMMA OnceStays ==
  ASSUME NEW list, NEW sts, NEW deps, deps \in Seq(ToSet(deps)), NEW n \in Nat, n <= Len(deps), NEW exps, NEW j,
         EveryOnce(list, sts, deps, n, exps, j), NEW more, \A d \in ToSet(deps) : more[d] = sts[d],
         NEW like, DOMAIN like = DOMAIN list,
         \A k \in DOMAIN list : like[k].rows = list[k].rows /\ like[k].parents = list[k].parents
  PROVE  EveryOnce(like, more, deps, n, exps, j)
<1> SUFFICES ASSUME NEW ids \in FirstCombinations(more, deps, n), NEW pick \in FirstPicks(more, ToSet(ids), exps, j)
             PROVE  \E x \in DOMAIN like : \A y \in DOMAIN like : StandsFor(like[y], ids, pick, exps, j) <=> y = x
  BY DEF EveryOnce
<1>1. ids \in FirstCombinations(sts, deps, n) /\ \A id \in ToSet(ids) : more[id[1]] = sts[id[1]]
  BY CombinationsStay
<1>2. PICK parents : parents = ToSet(ids)
  OBVIOUS
<1>3. \A k : OpenRows(more, parents, exps[k]) = OpenRows(sts, parents, exps[k])
  BY <1>1, <1>2, OpenStays
<1>4. FirstPicks(more, parents, exps, j) = FirstPicks(sts, parents, exps, j)
  BY <1>3 DEF FirstPicks
<1>5. PICK x \in DOMAIN list : \A y \in DOMAIN list : StandsFor(list[y], ids, pick, exps, j) <=> y = x
  BY <1>1, <1>2, <1>4 DEF EveryOnce
<1>6. ASSUME NEW y \in DOMAIN list
      PROVE  StandsFor(like[y], ids, pick, exps, j) <=> StandsFor(list[y], ids, pick, exps, j)
  <2>1. PICK st, s2 : st = list[y] /\ s2 = like[y] /\ s2.rows = st.rows /\ s2.parents = st.parents
    OBVIOUS
  <2>2. \A e : OwnSelection(s2, e) = OwnSelection(st, e)
    BY <2>1 DEF OwnSelection
  <2> QED
    BY <2>1, <2>2 DEF StandsFor
<1> QED
  BY <1>5, <1>6

\* The empty state stands for the one combination of nothing.
LEMMA EmptyOnce ==
  ASSUME NEW sts, NEW deps, NEW exps
  PROVE  /\ EveryOnce(<<EmptyState>>, sts, deps, 0, exps, 0)
         /\ \A st \in ToSet(<<EmptyState>>) : MadeOf(st, sts, exps, 0)
<1>1. 1..0 = {}
  OBVIOUS
<1>2. EmptyState.parents = <<>> /\ EmptyState.rows = <<>>
  BY DEF EmptyState
<1>3. ASSUME NEW ids \in FirstCombinations(sts, deps, 0) PROVE ids = <<>>
  <2>1. PICK S : ids \in [1..0 -> S]
    BY DEF FirstCombinations
  <2> QED
    BY <1>1, <2>1
<1>4. PICK list : list = <<EmptyState>>
  OBVIOUS
<1>5. DOMAIN list = {1} /\ list[1] = EmptyState
  BY <1>4
<1>6. CombinedOnceEach(list, sts, deps, 0)
  <2>1. ASSUME NEW ids \in FirstCombinations(sts, deps, 0)
        PROVE  \E x \in DOMAIN list : \A y \in DOMAIN list : list[y].parents = ids <=> y = x
    BY <1>2, <1>3, <1>5
  <2> QED
    BY <2>1 DEF CombinedOnceEach
<1>7. ToSet(EmptyState.rows) = {}
  <2>1. PICK rows : rows = EmptyState.rows /\ rows = <<>>
    BY <1>2
  <2>2. ToSet(rows) = {}
    BY <2>1 DEF ToSet
  <2> QED
    BY <2>1, <2>2
<1>8. MadeOf(EmptyState, sts, exps, 0)
  BY <1>7, NoneMade
<1>9. ToSet(list) = {EmptyState}
  BY <1>5 DEF ToSet
<1> QED
  BY <1>4, <1>6, <1>8, <1>9, NoPicks

-----------------------------------------------------------------------------
(***************************************************************************)
(* The imports of a step.                                                  *)
(***************************************************************************)
\* If as much is picked as there is, all is picked.
LEMMA AllPicked ==
  ASSUME NEW s, s \in Seq(ToSet(s)), NEW places, NEW t, t = Picked(s, places), Len(t) = Len(s)
  PROVE  t = s
<1>1. t \in Seq(ToSet(s)) /\ DOMAIN t = 1..Len(t) /\ \E at : PickedAt(at, s, places, t)
  BY PickedPlaces
<1>2. PICK at : PickedAt(at, s, places, t)
  BY <1>1
<1>3. PICK n \in Nat : n = Len(s) /\ n = Len(t) /\ DOMAIN s = 1..n
  <2>1. Len(s) \in Nat /\ DOMAIN s = 1..Len(s)
    OBVIOUS
  <2> QED
    BY <2>1, Zenon
<1>4. /\ \A k \in 1..n : at[k] \in 1..n /\ t[k] = s[at[k]]
      /\ \A j, k \in 1..n : j < k => at[j] < at[k]
  BY <1>2, <1>3 DEF PickedAt
<1>5. \A k \in 1..n : at[k] >= k
  <2> DEFINE T == {k \in 1..n : ~(at[k] >= k)}
  <2> SUFFICES ASSUME T # {} PROVE FALSE
    OBVIOUS
  <2>1. T \subseteq Nat
    OBVIOUS
  <2>2. PICK m \in T : \A k \in T : m <= k
    BY <2>1, Least
  <2>3. m \in 1..n /\ at[m] \in 1..n /\ ~(at[m] >= m) /\ m # 1
    BY <1>4, <2>2
  <2>4. m - 1 \in 1..n /\ m - 1 < m /\ ~(m <= m - 1)
    BY <2>3
  <2>5. at[m - 1] >= m - 1 /\ at[m - 1] \in 1..n
    BY <1>4, <2>2, <2>4
  <2>6. at[m - 1] < at[m]
    BY <1>4, <2>3, <2>4
  <2> QED
    BY <2>3, <2>5, <2>6
<1>6. \A k \in 1..n : at[k] <= k
  <2> DEFINE T == {d \in 0..(n - 1) : ~(at[n - d] <= n - d)}
  <2>1. T = {}
    <3> SUFFICES ASSUME T # {} PROVE FALSE
      OBVIOUS
    <3>1. T \subseteq Nat
      OBVIOUS
    <3>2. PICK d \in T : \A k \in T : d <= k
      BY <3>1, Least
    <3>3. d \in 0..(n - 1) /\ n - d \in 1..n /\ ~(at[n - d] <= n - d)
      BY <3>2
    <3>4. at[n - d] \in 1..n /\ d # 0
      BY <1>4, <3>3
    <3>5. d - 1 \in 0..(n - 1) /\ ~(d <= d - 1) /\ n - (d - 1) \in 1..n /\ n - d < n - (d - 1)
      BY <3>3, <3>4
    <3>6. at[n - (d - 1)] <= n - (d - 1) /\ at[n - (d - 1)] \in 1..n
      BY <1>4, <3>2, <3>5
    <3>7. at[n - d] < at[n - (d - 1)]
      BY <1>4, <3>3, <3>5
    <3> QED
      BY <3>3, <3>4, <3>5, <3>6, <3>7
  <2>2. ASSUME NEW k \in 1..n PROVE at[k] <= k
    <3>1. PICK d \in 0..(n - 1) : n - d = k
      <4>1. n - k \in 0..(n - 1) /\ n - (n - k) = k
        OBVIOUS
      <4> QED
        BY <4>1
    <3> QED
      BY <2>1, <3>1
  <2> QED
    BY <2>2
<1>7. \A k \in 1..n : t[k] = s[k]
  <2> SUFFICES ASSUME NEW k \in 1..n PROVE at[k] = k
    BY <1>4
  <2> QED
    BY <1>4, <1>5, <1>6
<1>8. t = [k \in 1..n |-> t[k]] /\ s = [k \in 1..n |-> s[k]]
  BY <1>1, <1>3
<1> QED
  BY <1>7, <1>8

\* An import of a whole source brings in a name for each of its columns.
LEMMA WholeSource ==
  ASSUME NEW p \in Program, NEW b \in ToSet(p), NEW item \in ToSet(b.with),
         ItemError(b, item) = "none", item.columns = <<>>
  PROVE  Len(VisibleVars(b, item)) = Len(Columns[b.scope[item.source]])
<1>1. PICK src : src = b.scope[item.source]
  OBVIOUS
<1>2. item.source \in DOMAIN b.scope
  BY DEF ItemError
<1>3. src \in Version
  <2>1. b.scope \in [DOMAIN b.scope -> Version]
    BY ProgramAssumption
  <2> QED
    BY <1>1, <1>2, <2>1
<1>4. PICK names : names = Columns[src] /\ names = SourceVars(b, item)
  BY <1>1 DEF SourceVars
<1>5. names \in Seq(ToSet(names))
  BY <1>3, <1>4, CellAssumption
<1>6. PICK vis : vis = VisibleVars(b, item)
  OBVIOUS
<1>7. Len(vis) = Len(names)
  <2>1. CASE item.alias # ""
    <3>1. Len(names) = 1
      BY <1>4, <2>1 DEF ItemError
    <3>2. vis = <<[visible |-> item.alias, var |-> Head(names)]>>
      BY <1>4, <1>6, <2>1 DEF VisibleVars
    <3> QED
      BY <3>1, <3>2
  <2>2. CASE item.alias = ""
    <3>1. vis = [k \in DOMAIN names |-> [visible |-> names[k], var |-> names[k]]]
      BY <1>4, <1>6, <2>2 DEF VisibleVars
    <3> QED
      BY <1>5, <3>1
  <2> QED
    BY <2>1, <2>2
<1> QED
  BY <1>1, <1>4, <1>6, <1>7

\* The items of a block that can be used are different, and know whether they
\* are of a whole source.
LEMMA ItemsList ==
  ASSUME NEW p \in Program, NEW b \in ToSet(p), NEW items, items = Resolved(b)
  PROVE  /\ \A i, j \in DOMAIN items : items[i].item = items[j].item => i = j
         /\ \A i \in DOMAIN items :
              /\ items[i].full \in BOOLEAN
              /\ items[i].full <=> b.with[items[i].item].columns = <<>>
              /\ items[i].full => Len(items[i].vars) = Len(Columns[items[i].source])
<1>1. b.with \in Seq(ToSet(b.with))
  BY ProgramAssumption
<1>2. PICK all : all = [k \in DOMAIN b.with |-> k]
  OBVIOUS
<1>3. all \in Seq(ToSet(all)) /\ DOMAIN all = DOMAIN b.with /\ DOMAIN all \subseteq Nat
  <2>1. DOMAIN b.with = 1..Len(b.with) /\ Len(b.with) \in Nat
    BY <1>1
  <2>2. ToSet(all) = DOMAIN b.with
    BY <1>2 DEF ToSet
  <2> QED
    BY <1>2, <2>1, <2>2
<1>4. PICK places : places = {k \in DOMAIN all : ItemError(b, b.with[all[k]]) = "none"}
  OBVIOUS
<1>5. PICK ids : ids = Picked(all, places)
  OBVIOUS
<1>6. ids = Select([k \in DOMAIN b.with |-> k], LAMBDA k : ItemError(b, b.with[k]) = "none")
  BY <1>2, <1>4, <1>5 DEF Select
<1>7. DOMAIN ids = 1..Len(ids) /\ Len(ids) \in Nat /\ \E at : PickedAt(at, all, places, ids)
  BY <1>3, <1>5, PickedPlaces
<1>8. PICK at : PickedAt(at, all, places, ids)
  BY <1>7
<1>9. \A j \in DOMAIN ids : at[j] \in places /\ at[j] \in DOMAIN all /\ at[j] \in Nat /\ ids[j] = at[j]
  BY <1>2, <1>3, <1>7, <1>8 DEF PickedAt
<1>10. items = [j \in DOMAIN ids |->
         LET item == b.with[ids[j]] IN
         [item |-> ids[j], source |-> b.scope[item.source],
          vars |-> VisibleVars(b, item), full |-> item.columns = <<>>]]
  BY <1>6 DEF Resolved
<1>11. DOMAIN items = DOMAIN ids
  BY <1>10
<1>12. ASSUME NEW j \in DOMAIN ids
       PROVE  /\ items[j].item = ids[j]
              /\ items[j].full \in BOOLEAN
              /\ items[j].full <=> b.with[ids[j]].columns = <<>>
              /\ items[j].full => Len(items[j].vars) = Len(Columns[items[j].source])
  <2>1. PICK item : item = b.with[ids[j]]
    OBVIOUS
  <2>2. ItemError(b, item) = "none" /\ item \in ToSet(b.with)
    BY <1>2, <1>3, <1>4, <1>9, <2>1 DEF ToSet
  <2>3. PICK vis, src, full : vis = VisibleVars(b, item) /\ src = b.scope[item.source] /\ full = (item.columns = <<>>)
    OBVIOUS
  <2>4. items[j] = [item |-> ids[j], source |-> src, vars |-> vis, full |-> full]
    BY <1>10, <2>1, <2>3
  <2>5. full => Len(vis) = Len(Columns[src])
    BY <2>2, <2>3, WholeSource
  <2>6. full \in BOOLEAN /\ (full <=> item.columns = <<>>)
    BY <2>3
  <2> QED
    BY <2>1, <2>4, <2>5, <2>6
<1>13. ASSUME NEW i \in DOMAIN ids, NEW j \in DOMAIN ids, ids[i] = ids[j] PROVE i = j
  <2>1. at[i] = at[j] /\ at[i] \in Nat
    BY <1>9, <1>13
  <2>2. ~(i < j) /\ ~(j < i)
    BY <1>7, <1>8, <2>1 DEF PickedAt
  <2> QED
    BY <1>7, <2>2
<1> QED
  BY <1>11, <1>12, <1>13

\* What is left of an item is of the whole source if nothing was taken away.
LEMMA KeptItemsSound ==
  ASSUME NEW p \in Program, NEW b \in ToSet(p)
  PROVE  ItemsSound(b, Kept(b))
<1>0. PICK items, exps : items = Resolved(b) /\ exps = Kept(b)
  OBVIOUS
<1>1. items \in Seq(ToSet(items)) /\ DOMAIN items = 1..Len(items) /\ Len(items) \in Nat
  BY <1>0, ResolvedIs
<1>2. \A i \in 1..Len(items) :
        /\ items[i] = [item |-> items[i].item, source |-> items[i].source, vars |-> items[i].vars,
                       full |-> items[i].full]
        /\ items[i].vars \in Seq(ToSet(items[i].vars))
  <2>1. \A i \in 1..Len(items) : items[i] \in ToSet(items)
    BY <1>1 DEF ToSet
  <2> QED
    BY <1>0, <2>1, ItemsAre
<1>3. /\ \A i, j \in DOMAIN items : items[i].item = items[j].item => i = j
      /\ \A i \in DOMAIN items :
           /\ items[i].full \in BOOLEAN
           /\ items[i].full <=> b.with[items[i].item].columns = <<>>
           /\ items[i].full => Len(items[i].vars) = Len(Columns[items[i].source])
  BY <1>0, ItemsList
<1> DEFINE left(i) == Select(items[i].vars, LAMBDA v : v.visible \notin DOMAIN Inherited(b) \cup Selected(items, i))
<1>4. PICK all : all = [i \in DOMAIN items |->
               [items[i] EXCEPT !.vars = left(i), !.full = @ /\ left(i) = items[i].vars]]
  OBVIOUS
<1>5. PICK places : places = {i \in DOMAIN all : all[i].vars # <<>>}
  OBVIOUS
<1>6. exps = Picked(all, places)
  BY <1>0, <1>4, <1>5, SMTT(30), ZenonT(30) DEF Kept, Select
<1>7. DOMAIN all = 1..Len(items)
  BY <1>1, <1>4
<1>8. ASSUME NEW i \in 1..Len(items), Len(left(i)) = Len(items[i].vars) PROVE left(i) = items[i].vars
  <2>1. PICK vs : vs = items[i].vars
    OBVIOUS
  <2>2. PICK ps : ps = {k \in DOMAIN vs : vs[k].visible \notin DOMAIN Inherited(b) \cup Selected(items, i)}
    OBVIOUS
  <2>3. left(i) = Picked(vs, ps)
    BY <2>1, <2>2 DEF Select
  <2>4. PICK t : t = Picked(vs, ps)
    OBVIOUS
  <2>5. Len(t) = Len(vs)
    BY <1>8, <2>1, <2>3, <2>4
  <2>6. vs \in Seq(ToSet(vs))
    BY <1>2, <2>1
  <2>7. t = vs
    BY <2>4, <2>5, <2>6, AllPicked
  <2> QED
    BY <2>1, <2>3, <2>4, <2>7
<1> HIDE DEF left
<1>9. ASSUME NEW i \in 1..Len(items)
      PROVE  /\ all[i].item = items[i].item
             /\ all[i].full <=> /\ b.with[all[i].item].columns = <<>>
                                /\ Len(all[i].vars) = Len(Columns[all[i].source])
  <2>1. PICK e, vs, full : e = items[i] /\ vs = left(i) /\ full = (e.full /\ left(i) = e.vars)
    OBVIOUS
  <2>2. all[i] = [e EXCEPT !.vars = vs, !.full = full]
    BY <1>4, <1>7, <1>9, <2>1
  <2>3. e = [item |-> e.item, source |-> e.source, vars |-> e.vars, full |-> e.full]
    BY <1>2, <2>1
  <2>4. all[i] = [item |-> e.item, source |-> e.source, vars |-> vs, full |-> full]
    BY <2>2, <2>3
  <2>5. full <=> e.full /\ vs = e.vars
    BY <1>1, <1>3, <2>1
  <2>6. e.full <=> b.with[e.item].columns = <<>>
    BY <1>1, <1>3, <2>1
  <2>7. e.full => Len(e.vars) = Len(Columns[e.source])
    BY <1>1, <1>3, <2>1
  <2>8. Len(vs) = Len(e.vars) => vs = e.vars
    BY <1>8, <2>1
  <2>9. full <=> b.with[e.item].columns = <<>> /\ Len(vs) = Len(Columns[e.source])
    BY <2>5, <2>6, <2>7, <2>8
  <2>10. all[i].item = e.item /\ all[i].source = e.source /\ all[i].vars = vs /\ all[i].full = full
    BY <2>4
  <2> QED
    BY <2>1, <2>9, <2>10
<1>10. all \in Seq(ToSet(all)) /\ Len(all) = Len(items)
  <2>1. \A j \in 1..Len(items) : all[j] \in ToSet(all)
    BY <1>7 DEF ToSet
  <2>2. all = [j \in 1..Len(items) |-> all[j]]
    BY <1>1, <1>4
  <2>3. all \in Seq(ToSet(all))
    BY <1>1, <2>1, <2>2
  <2> QED
    BY <1>1, <1>7, <2>3
<1>11. /\ DOMAIN exps = 1..Len(exps) /\ Len(exps) \in Nat /\ \E at : PickedAt(at, all, places, exps)
  BY <1>6, <1>10, PickedPlaces
<1>12. PICK at : PickedAt(at, all, places, exps)
  BY <1>11
<1>13. \A k \in DOMAIN exps : at[k] \in 1..Len(items) /\ exps[k] = all[at[k]]
  BY <1>7, <1>11, <1>12 DEF PickedAt
<1>14. ASSUME NEW j \in DOMAIN exps, NEW k \in DOMAIN exps, exps[j].item = exps[k].item PROVE j = k
  <2>1. items[at[j]].item = items[at[k]].item
    BY <1>9, <1>13, <1>14
  <2>2. at[j] = at[k] /\ at[j] \in Nat
    BY <1>1, <1>3, <1>13, <2>1
  <2>3. ~(j < k) /\ ~(k < j)
    BY <1>11, <1>12, <2>2 DEF PickedAt
  <2> QED
    BY <1>11, <2>3
<1>15. \A k \in DOMAIN exps : exps[k].full <=> /\ b.with[exps[k].item].columns = <<>>
                                               /\ Len(exps[k].vars) = Len(Columns[exps[k].source])
  BY <1>9, <1>13
<1> QED
  BY <1>0, <1>14, <1>15 DEF ItemsSound

-----------------------------------------------------------------------------
(***************************************************************************)
(* The steps.                                                              *)
(***************************************************************************)
\* The dependencies of the step that is built next are built, the step is not.
LEMMA DependenciesBuilt ==
  ASSUME PlanInv, OrderSound, stage = "build", todo # <<>>
  PROVE  /\ ToSet(Dependencies(Current)) \subseteq DOMAIN states
         /\ Current.name \notin DOMAIN states
<1>1. Current.name = Head(todo) /\ Current = Block(program, Head(todo))
      /\ Head(todo) \in StepNames(program)
  BY CurrentIs
<1>2. InTurn(order, todo, DOMAIN states) /\ StepErrors(program) = {} /\ Found
  BY DEF OrderSound
<1>3. Ordering
  BY DEF PlanInv
<1>4. order \in Seq(StepNames(program)) /\ IsInjective(order) /\ program \in Program
  BY <1>3 DEF Ordering
<1>5. Head(todo) \notin DOMAIN states
      /\ \E k \in DOMAIN order : order[k] = Head(todo) /\ DOMAIN states = UpTo(order, k - 1)
  BY <1>2, <1>4, NextTurn
<1>6. PICK k \in DOMAIN order : order[k] = Head(todo) /\ DOMAIN states = UpTo(order, k - 1)
  BY <1>5
<1>7. ToSet(Block(program, order[k]).after) \subseteq UpTo(order, k - 1)
  BY <1>2, <1>3, DependenciesPlanned
<1>8. PICK b : b = Current /\ b = Block(program, Head(todo))
  BY <1>1
<1>9. b.after \in Seq(ToSet(b.after))
  BY <1>1, <1>4, <1>8, BlockIs
<1>10. ToSet(Unique(b.after)) = ToSet(b.after)
  BY <1>9, UniqueIs
<1>11. ToSet(Dependencies(Current)) = ToSet(b.after)
  BY <1>8, <1>10 DEF Dependencies
<1> QED
  BY <1>1, <1>5, <1>6, <1>7, <1>8, <1>11

\* So are the dependencies of a step that is built.
LEMMA BuiltDependencies ==
  ASSUME PlanInv, OrderSound, stage = "build", NEW name \in DOMAIN states, NEW deps,
         deps = Dependencies(Block(program, name))
  PROVE  /\ name \in StepNames(program) /\ name \in DOMAIN scopes
         /\ deps \in Seq(ToSet(deps)) /\ ToSet(deps) = ToSet(Block(program, name).after)
         /\ ToSet(deps) \subseteq DOMAIN states
<1>1. InTurn(order, todo, DOMAIN states) /\ StepErrors(program) = {} /\ Found /\ DOMAIN scopes = ToSet(order)
  BY DEF OrderSound
<1>2. Ordering
  BY DEF PlanInv
<1>3. order \in Seq(StepNames(program)) /\ program \in Program
  BY <1>2 DEF Ordering
<1>4. PICK n \in 0..Len(order) : DOMAIN states = UpTo(order, n)
  BY <1>1 DEF InTurn
<1>5. PICK k \in 1..n : order[k] = name
  BY <1>4 DEF UpTo
<1>6. k \in DOMAIN order /\ name \in StepNames(program) /\ name \in ToSet(order)
  BY <1>3, <1>4, <1>5 DEF ToSet
<1>7. ToSet(Block(program, name).after) \subseteq UpTo(order, k - 1)
  BY <1>1, <1>2, <1>5, <1>6, DependenciesPlanned
<1>8. UpTo(order, k - 1) \subseteq DOMAIN states
  BY <1>3, <1>4, <1>5 DEF UpTo
<1>9. PICK b : b = Block(program, name)
  OBVIOUS
<1>10. b.after \in Seq(ToSet(b.after))
  BY <1>3, <1>6, <1>9, BlockIs
<1>11. PICK s : s = b.after
  OBVIOUS
<1>12. Unique(s) \in Seq(ToSet(s)) /\ ToSet(Unique(s)) = ToSet(s)
  BY <1>10, <1>11, UniqueIs
<1>13. deps = Unique(s)
  BY <1>9, <1>11 DEF Dependencies
<1> QED
  BY <1>1, <1>6, <1>7, <1>8, <1>9, <1>11, <1>12, <1>13

\* The states of a step that is built are workpackages.
LEMMA BuiltIs ==
  ASSUME PlanInv, StatesSound, stage = "build", NEW x \in DOMAIN states, NEW w \in ToSet(states[x])
  PROVE  /\ w \in ToSet(plan.work) /\ w.step = x /\ states[w.step][w.row] = w
         /\ StateSound(w, DOMAIN scopes[w.step].effective, scopes[w.step].effective, states)
<1>1. states[x] \in Seq({v \in ToSet(plan.work) : v.step = x})
  BY DEF PlanInv, StatesAreWork
<1>2. w \in ToSet(plan.work) /\ w.step = x
  BY <1>1 DEF ToSet
<1> QED
  BY <1>2 DEF StatesSound

\* The states of the dependencies know their place.
LEMMA WorkNumbered ==
  ASSUME PlanInv, stage = "build", BuiltComplete, NEW deps, deps \in Seq(ToSet(deps)),
         ToSet(deps) \subseteq DOMAIN states
  PROVE  Numbered(states, deps)
<1> SUFFICES ASSUME NEW k \in 1..Len(deps), NEW z \in DOMAIN states[deps[k]]
             PROVE  states[deps[k]][z].step = deps[k] /\ states[deps[k]][z].row = z
  BY DEF Numbered
<1>1. PICK d : d = deps[k]
  OBVIOUS
<1>2. d \in DOMAIN states
  BY <1>1 DEF ToSet
<1>3. states[d] \in Seq({v \in ToSet(plan.work) : v.step = d})
  BY <1>2 DEF PlanInv, StatesAreWork
<1>4. states[d][z].step = d
  BY <1>1, <1>3
<1>5. states[d][z].row = z
  BY <1>1, <1>2, Zenon DEF BuiltComplete
<1> QED
  BY <1>1, <1>4, <1>5

\* Until the first import the values of a growing state are those of its
\* parents.
LEMMA GrowingComposed ==
  ASSUME PlanInv, OrderSound, ScopesSound, StatesSound, stage = "build", todo # <<>>,
         part <= Len(Dependencies(Current)), NEW st \in ToSet(growing)
  PROVE  ComposedOf(st, states, part)
<1>1. PICK deps, exps, eff : deps = Dependencies(Current) /\ exps = Expansions /\ eff = scopes[Current.name].effective
  OBVIOUS
<1>2. deps \in Seq(ToSet(deps)) /\ Len(deps) \in Nat /\ part \in Nat /\ Growing
  <2>1. deps \in Seq(ToSet(deps))
    BY <1>1, CurrentIs
  <2>2. part \in Nat /\ Growing
    BY DEF PlanInv, Building
  <2> QED
    BY <2>1, <2>2
<1>3. Handled = part
  BY DEF Handled
<1>4. Combination(st, part, deps, plan.work)
  BY <1>1, <1>2, <1>3 DEF Growing
<1>5. StateSound(st, FirstNames(scopes, deps, exps, part), eff, states)
  BY <1>1 DEF StatesSound
<1>6. PICK m \in Nat : m = Len(deps)
  BY <1>2
<1>7. FirstNames(scopes, deps, exps, part) = InheritedNames(scopes, UpTo(deps, part))
  <2>1. 1..(part - m) = {}
    BY <1>1, <1>2, <1>6
  <2>2. ImportedNames(exps, part - m) = {}
    BY <2>1 DEF ImportedNames
  <2>3. (IF part <= m THEN part ELSE m) = part
    BY <1>1, <1>6
  <2> QED
    BY <1>6, <2>2, <2>3 DEF FirstNames
<1>8. PICK ids, ps : ids = {WorkId(w) : w \in ToSet(plan.work)} /\ ps = st.parents
  OBVIOUS
<1>9. ps \in Seq(ids) /\ Len(ps) = part /\ \A j \in 1..part : ps[j][1] = deps[j]
  BY <1>4, <1>8 DEF Combination
<1>10. ps \in Seq(ToSet(ps))
  BY <1>9 DEF ToSet
<1>11. \A id \in ToSet(ps) : \A n \in DOMAIN states[id[1]][id[2]].values :
         n \in DOMAIN st.values /\ st.values[n] = states[id[1]][id[2]].values[n]
  BY <1>5, <1>8 DEF StateSound, Keeps
<1>12. ASSUME NEW n \in DOMAIN st.values
       PROVE  \E id \in ToSet(ps) : n \in DOMAIN states[id[1]][id[2]].values
  <2>1. n \in InheritedNames(scopes, UpTo(deps, part))
    BY <1>5, <1>7, <1>12 DEF StateSound
  <2>2. PICK k \in 1..part : n \in DOMAIN scopes[deps[k]].effective
    BY <2>1 DEF InheritedNames, UpTo
  <2>3. ps[k] \in ids /\ ps[k] \in ToSet(ps)
    BY <1>2, <1>9, <2>2, SMTT(30), ZenonT(30) DEF ToSet
  <2>4. PICK w \in ToSet(plan.work) : ps[k] = WorkId(w)
    BY <1>8, <2>3
  <2>5. w.step = deps[k] /\ ps[k][1] = w.step /\ ps[k][2] = w.row
    BY <1>9, <2>2, <2>4 DEF WorkId
  <2>6. states[w.step][w.row] = w /\ DOMAIN w.values = DOMAIN scopes[w.step].effective
    BY <2>4 DEF StatesSound, StateSound
  <2> QED
    BY <2>2, <2>3, <2>5, <2>6
<1> QED
  BY <1>8, <1>9, <1>10, <1>11, <1>12 DEF ComposedOf

\* Combining with one more dependency.
LEMMA InheritWork ==
  ASSUME PlanInv, OrderSound, ScopesSound, StatesSound, WorkInv, InheritParentStates
  PROVE  WorkInv'
<1>1. /\ stage = "build" /\ todo # <<>> /\ part' = part + 1
      /\ UNCHANGED <<program, stage, todo, scopes, order, states, plan>>
  BY DEF InheritParentStates
<1>2. BuiltComplete /\ GrowingComplete
      /\ \A name \in DOMAIN scopes : ItemsSound(Block(program, name), scopes[name].expansions)
  BY <1>1 DEF WorkInv
<1>3. PICK deps, exps : deps = Dependencies(Current) /\ exps = Expansions
  OBVIOUS
<1>4. part \in Nat /\ Growing /\ growing \in Seq(ToSet(growing))
  BY <1>1 DEF PlanInv, Building, Growing
<1>5. deps \in Seq(ToSet(deps)) /\ part < Len(deps) /\ ToSet(deps) \subseteq DOMAIN states
  <2>1. deps \in Seq(ToSet(deps))
    BY <1>1, <1>3, CurrentIs
  <2>2. part < Len(deps)
    BY <1>3 DEF InheritParentStates
  <2>3. ToSet(deps) \subseteq DOMAIN states
    BY <1>1, <1>3, DependenciesBuilt
  <2> QED
    BY <2>1, <2>2, <2>3
<1>6. PICK m \in Nat : m = Len(deps)
  BY <1>5
<1>7. Handled = part /\ ImportsHandled = 0
  <2>1. Handled = IF part <= m THEN part ELSE m
    BY <1>3, <1>6 DEF Handled
  <2>2. Handled = part
    BY <1>4, <1>5, <1>6, <2>1
  <2> QED
    BY <1>4, <2>2 DEF ImportsHandled
<1>8. Current' = Current
  BY <1>1 DEF Current
<1>9. Dependencies(Current)' = deps /\ Expansions' = exps
  BY <1>1, <1>3, <1>8 DEF Dependencies, Expansions
<1>10. Handled' = part + 1 /\ ImportsHandled' = 0
  <2>1. Handled' = IF part + 1 <= m THEN part + 1 ELSE m
    BY <1>1, <1>6, <1>9 DEF Handled
  <2>2. Handled' = part + 1
    BY <1>4, <1>5, <1>6, <2>1
  <2> QED
    BY <1>1, <1>4, <2>2 DEF ImportsHandled
<1>11. PICK x : x = deps[part + 1]
  OBVIOUS
<1>12. x \in DOMAIN states
  BY <1>4, <1>5, <1>11 DEF ToSet
<1>13. PICK added : added = states[x]
  OBVIOUS
<1>14. added \in Seq(ToSet(added)) /\ added = StatesOf(x)
  <2>1. states[x] \in Seq({w \in ToSet(plan.work) : w.step = x})
    BY <1>12 DEF PlanInv, StatesAreWork
  <2>2. added \in Seq(ToSet(added))
    BY <1>13, <2>1 DEF ToSet
  <2> QED
    BY <1>12, <1>13, <2>2 DEF StatesOf
<1>15. PICK next : next = growing'
  OBVIOUS
<1>16. next = WithParents(growing, added)
  <2>1. PICK ss : ss = [k \in DOMAIN growing |->
                         LET good == Picked(added, {j \in DOMAIN added : Agree(growing[k].values, added[j].values)})
                         IN [j \in DOMAIN good |-> MergeParentStates(growing[k], good[j])]]
    OBVIOUS
  <2>2. next = FlattenSeq(ss)
    <3>1. StatesOf(Dependencies(Current)[part + 1]) = added
      BY <1>3, <1>11, <1>14
    <3> QED
      BY <1>15, <2>1, <3>1 DEF InheritParentStates, Combined, Select
  <2>3. WithParents(growing, added) = FlattenSeq(ss)
    BY <2>1 DEF WithParents, Combined, Select
  <2> QED
    BY <2>2, <2>3
<1>17. PICK at, of : InheritedAt(at, of, growing, added, next)
  BY <1>4, <1>14, <1>16, InheritPairs
<1>18. CombinedOnceEach(growing, states, deps, part)
  <2>1. EveryOnce(growing, states, deps, part, exps, 0)
    BY <1>2, <1>3, <1>7 DEF GrowingComplete
  <2> QED
    BY <2>1, NoPicks
<1>19. Numbered(states, deps)
  BY <1>1, <1>2, <1>5, WorkNumbered
<1>20. \A st \in ToSet(growing) : ComposedOf(st, states, part)
  <2>1. part <= Len(Dependencies(Current))
    BY <1>3, <1>4, <1>5, <1>6
  <2> QED
    BY <1>1, <2>1, GrowingComposed
<1>21. CombinedOnceEach(next, states, deps, part + 1)
  BY <1>4, <1>5, <1>11, <1>13, <1>17, <1>18, <1>19, <1>20, InheritOnce
<1>22. EveryOnce(next, states, deps, part + 1, exps, 0)
  BY <1>21, NoPicks
<1>23. ASSUME NEW st \in ToSet(next) PROVE MadeOf(st, states, exps, 0)
  <2>1. PICK a \in ToSet(growing), w \in ToSet(added) : st = MergeParentStates(a, w)
    <3>1. PICK k \in DOMAIN next : st = next[k]
      BY <1>23 DEF ToSet
    <3>2. at[k] \in DOMAIN growing /\ of[k] \in DOMAIN added
          /\ next[k] = MergeParentStates(growing[at[k]], added[of[k]])
      BY <1>17 DEF InheritedAt
    <3> QED
      BY <3>1, <3>2 DEF ToSet
  <2>2. MadeOf(a, states, exps, 0)
    BY <1>2, <1>3, <1>7 DEF GrowingComplete
  <2>3. a.rows \in Seq(ToSet(a.rows))
    BY <1>1 DEF StatesSound, StateSound, ValuesSound
  <2>4. a.parents \in Seq(ToSet(a.parents))
    BY <1>20 DEF ComposedOf
  <2>5. states[w.step][w.row] = w /\ w.rows \in Seq(ToSet(w.rows)) /\ \A c \in ToSet(w.rows) : Selection(c)
    BY <1>1, <1>12, <1>13, BuiltIs DEF StateSound, ValuesSound
  <2> QED
    BY <2>1, <2>2, <2>3, <2>4, <2>5, InheritMade
<1>24. BuiltComplete'
  BY <1>1, <1>2 DEF BuiltComplete
<1>25. GrowingComplete'
  BY <1>1, <1>9, <1>10, <1>15, <1>22, <1>23 DEF GrowingComplete
<1> QED
  BY <1>1, <1>2, <1>24, <1>25 DEF WorkInv

\* Combining with the rows of one more import.
LEMMA ExpandWork ==
  ASSUME PlanInv, MeaningInv, WorkInv, ExpandStep
  PROVE  WorkInv'
<1>1. /\ stage = "build" /\ todo # <<>> /\ part' = part + 1
      /\ UNCHANGED <<program, stage, todo, scopes, order, states, plan>>
  BY DEF ExpandStep
<1>2. BuiltComplete /\ GrowingComplete
      /\ \A name \in DOMAIN scopes : ItemsSound(Block(program, name), scopes[name].expansions)
  BY <1>1 DEF WorkInv
<1>3. OrderSound /\ ScopesSound /\ StatesSound /\ "choice disagrees" \notin errors
  BY DEF MeaningInv
<1>4. PICK deps, exps, name : deps = Dependencies(Current) /\ exps = Expansions /\ name = Current.name
  OBVIOUS
<1>5. part \in Nat /\ Growing /\ growing \in Seq(ToSet(growing))
  BY <1>1 DEF PlanInv, Building, Growing
<1>6. deps \in Seq(ToSet(deps)) /\ exps \in Seq(ToSet(exps)) /\ ItemsSound(Current, exps)
      /\ \A e \in ToSet(exps) : e.source \in Version
  <2>1. name \in DOMAIN scopes
    BY <1>1, <1>3, <1>4, ScopeOfCurrent
  <2>2. exps = scopes[name].expansions
    BY <1>4 DEF Expansions
  <2>3. Current = Block(program, name) /\ deps \in Seq(ToSet(deps))
    BY <1>1, <1>4, CurrentIs
  <2>4. ItemsSound(Current, exps)
    BY <1>2, <2>1, <2>2, <2>3
  <2>5. exps \in Seq(ToSet(exps)) /\ \A e \in ToSet(exps) : e.source \in Version
    BY <2>1, <2>2 DEF PlanInv, Scoped
  <2> QED
    BY <2>3, <2>4, <2>5
<1>7. PICK m \in Nat : m = Len(deps)
  BY <1>6
<1>8. PICK n \in Nat : n = Len(exps) /\ DOMAIN exps = 1..n
  BY <1>6
<1>9. m <= part /\ part < m + n
  <2>1. part >= m /\ part < m + n
    BY <1>4, <1>7, <1>8 DEF ExpandStep
  <2> QED
    BY <1>5, <2>1
<1>10. PICK j \in Nat : j = part - m /\ part = m + j /\ j + 1 \in 1..n
  BY <1>5, <1>9
<1>11. Current' = Current
  BY <1>1 DEF Current
<1>12. Dependencies(Current)' = deps /\ Expansions' = exps
  BY <1>1, <1>4, <1>11 DEF Dependencies, Expansions
<1>13. Handled = m /\ ImportsHandled = j
  <2>1. Handled = IF part <= m THEN part ELSE m
    BY <1>4, <1>7 DEF Handled
  <2>2. Handled = m
    BY <1>5, <1>9, <2>1
  <2> QED
    BY <1>10, <2>2 DEF ImportsHandled
<1>14. Handled' = m /\ ImportsHandled' = j + 1
  <2>1. Handled' = IF part + 1 <= m THEN part + 1 ELSE m
    BY <1>1, <1>7, <1>12 DEF Handled
  <2>2. Handled' = m
    BY <1>5, <1>9, <2>1
  <2> QED
    BY <1>1, <1>10, <2>2 DEF ImportsHandled
<1>15. PICK e \in ToSet(exps) : e = exps[j + 1] /\ e = Expansions[part + 1 - Len(Dependencies(Current))]
  <2>1. part + 1 - m = j + 1
    BY <1>10
  <2>2. exps[j + 1] \in ToSet(exps)
    BY <1>8, <1>10 DEF ToSet
  <2> QED
    BY <1>4, <1>7, <2>1, <2>2
<1>16. e.source \in Version
  BY <1>6
<1>17. PICK next : next = growing'
  OBVIOUS
<1>18. next = WithChoices(growing, e)
  <2>1. PICK ss : ss = [k \in DOMAIN growing |->
                         LET good == Picked(RowChoices(growing[k], e),
                                            {i \in DOMAIN RowChoices(growing[k], e) :
                                               Agree(growing[k].values, RowChoices(growing[k], e)[i].values)})
                         IN [i \in DOMAIN good |-> MergeWithChoice(growing[k], e, good[i])]]
    OBVIOUS
  <2>2. next = FlattenSeq(ss)
    BY <1>15, <1>17, <2>1 DEF ExpandStep, Combined, Select
  <2>3. WithChoices(growing, e) = FlattenSeq(ss)
    BY <2>1 DEF WithChoices, Combined, Select
  <2> QED
    BY <2>2, <2>3
<1>19. PICK at, of : ExpandedAt(at, of, growing, e, next)
  BY <1>5, <1>16, <1>18, ExpandPairs
<1>20. \A a \in ToSet(growing) : \A c \in ToSet(RowChoices(a, e)) : Agree(a.values, c.values)
  <2>1. errors' = errors
    BY <1>3, ExpandSound
  <2>2. ~ \E k \in DOMAIN growing : \E c \in ToSet(RowChoices(growing[k], e)) : ~Agree(growing[k].values, c.values)
    BY <1>3, <1>15, <2>1 DEF ExpandStep, Disagree
  <2> QED
    BY <2>2 DEF ToSet
<1>21. \A a \in ToSet(growing) :
         /\ MadeOf(a, states, exps, j) /\ a.rows \in Seq(ToSet(a.rows))
         /\ \A id \in ToSet(a.parents) : Keeps(a, states[id[1]][id[2]])
         /\ \A c \in ToSet(RowChoices(a, e)) : Agree(a.values, c.values)
  <2>1. \A a \in ToSet(growing) : MadeOf(a, states, exps, j)
    BY <1>2, <1>4, <1>13 DEF GrowingComplete
  <2>2. \A a \in ToSet(growing) :
          a.rows \in Seq(ToSet(a.rows)) /\ \A id \in ToSet(a.parents) : Keeps(a, states[id[1]][id[2]])
    BY <1>1, <1>3 DEF StatesSound, StateSound, ValuesSound
  <2> QED
    BY <1>20, <2>1, <2>2, Zenon
<1>22. \A k \in 1..j : exps[k].item # exps[j + 1].item
  BY <1>6, <1>8, <1>10 DEF ItemsSound
<1>23. EveryOnce(growing, states, deps, m, exps, j)
  BY <1>2, <1>4, <1>13 DEF GrowingComplete
<1>24. EveryOnce(next, states, deps, m, exps, j + 1)
  BY <1>5, <1>15, <1>16, <1>19, <1>21, <1>22, <1>23, ExpandOnce
<1>25. ASSUME NEW st \in ToSet(next) PROVE MadeOf(st, states, exps, j + 1)
  <2>1. PICK a \in ToSet(growing) : \E c \in ToSet(RowChoices(a, e)) : st = MergeWithChoice(a, e, c)
    <3>1. PICK k \in DOMAIN next : st = next[k]
      BY <1>25 DEF ToSet
    <3>2. at[k] \in DOMAIN growing /\ of[k] \in DOMAIN RowChoices(growing[at[k]], e)
          /\ next[k] = MergeWithChoice(growing[at[k]], e, RowChoices(growing[at[k]], e)[of[k]])
      BY <1>19 DEF ExpandedAt
    <3> QED
      BY <3>1, <3>2 DEF ToSet
  <2>2. PICK c \in ToSet(RowChoices(a, e)) : st = MergeWithChoice(a, e, c)
    BY <2>1
  <2>3. AllAlike(c.rows, LeftTo(a, e), e)
    BY <1>16, ChoicesOnce
  <2>4. LeftTo(a, e) = OpenRows(states, ToSet(a.parents), e)
    BY <1>21, LeftIsOpen
  <2>5. AllAlike(c.rows, OpenRows(states, ToSet(a.parents), exps[j + 1]), exps[j + 1])
    BY <1>15, <2>3, <2>4
  <2>6. st = MergeWithChoice(a, exps[j + 1], c) /\ MadeOf(a, states, exps, j) /\ a.rows \in Seq(ToSet(a.rows))
    BY <1>15, <1>21, <2>2
  <2> QED
    BY <1>22, <2>5, <2>6, ExpandMade
<1>26. BuiltComplete'
  BY <1>1, <1>2 DEF BuiltComplete
<1>27. GrowingComplete'
  BY <1>1, <1>12, <1>14, <1>17, <1>24, <1>25 DEF GrowingComplete
<1> QED
  BY <1>1, <1>2, <1>26, <1>27 DEF WorkInv

\* The dependencies of a workpackage are of steps that are built.
LEMMA ParentsKnown ==
  ASSUME PlanInv, NEW w \in ToSet(plan.work), NEW id \in ToSet(w.parents)
  PROVE  id[1] \in DOMAIN states
<1>1. PICK work : work = plan.work
  OBVIOUS
<1>2. InOrder(program, work) /\ work \in Seq(ToSet(work))
  BY <1>1 DEF PlanInv, InOrder
<1>3. PICK k \in DOMAIN work : w = work[k]
  BY <1>1 DEF ToSet
<1>4. DOMAIN work = 1..Len(work) /\ Len(work) \in Nat
  BY <1>2
<1>5. PICK j \in 1..(k - 1) : WorkId(work[j]) = id
  BY <1>2, <1>3 DEF InOrder, AfterItsDependencies
<1>6. work[j] \in ToSet(work)
  <2>1. j \in DOMAIN work
    BY <1>4
  <2> QED
    BY <2>1 DEF ToSet
<1>7. work[j].step \in DOMAIN states
  BY <1>1, <1>6 DEF PlanInv, StatesAreWork
<1> QED
  BY <1>5, <1>7 DEF WorkId

\* A step that is built next starts with the combination of nothing.
LEMMA StartWork ==
  ASSUME growing' = <<EmptyState>>, part' = 0, NEW p \in Program, program' = p,
         NEW left \in Seq(StepNames(p)), todo' = left, left # <<>>
  PROVE  GrowingComplete'
<1>1. PICK b : b = Block(p, Head(left))
  OBVIOUS
<1>2. Current' = b
  BY <1>1 DEF Current
<1>3. PICK deps : deps = Dependencies(b)
  OBVIOUS
<1>4. Len(deps) \in Nat
  <2>1. PICK name \in StepNames(p) : name = Head(left)
    OBVIOUS
  <2>2. PICK after : after = b.after
    OBVIOUS
  <2>3. after \in Seq(ToSet(after))
    BY <1>1, <2>1, <2>2, BlockIs
  <2>4. deps = Unique(after)
    BY <1>3, <2>2 DEF Dependencies
  <2>5. deps \in Seq(ToSet(after))
    BY <2>3, <2>4, UniqueIs
  <2> QED
    BY <2>5
<1>5. Dependencies(Current)' = deps
  BY <1>2, <1>3 DEF Dependencies
<1>6. PICK n \in Nat : n = Len(deps)
  BY <1>4
<1>7. Handled' = 0
  <2>1. Handled' = IF 0 <= n THEN 0 ELSE n
    BY <1>5, <1>6 DEF Handled
  <2> QED
    BY <2>1
<1>8. ImportsHandled' = 0
  BY <1>7 DEF ImportsHandled
<1>9. PICK sts, exps : sts = states' /\ exps = Expansions'
  OBVIOUS
<1>10. PICK g : g = <<EmptyState>>
  OBVIOUS
<1>11. EveryOnce(g, sts, deps, 0, exps, 0) /\ \A st \in ToSet(g) : MadeOf(st, sts, exps, 0)
  BY <1>10, EmptyOnce
<1>12. growing' = g
  BY <1>10
<1> QED
  BY <1>5, <1>7, <1>8, <1>9, <1>11, <1>12 DEF GrowingComplete

\* The states of a step become its workpackages.
LEMMA BuildWork ==
  ASSUME PlanInv, OrderSound, ScopesSound, StatesSound, WorkInv, BuildStep
  PROVE  WorkInv'
<1>1. stage = "build" /\ todo # <<>>
  BY DEF BuildStep
<1>2. BuiltComplete /\ GrowingComplete
      /\ \A name \in DOMAIN scopes : ItemsSound(Block(program, name), scopes[name].expansions)
  BY <1>1 DEF WorkInv
<1>3. PICK name, deps, exps, g, old :
        /\ name = Current.name /\ deps = Dependencies(Current) /\ exps = Expansions
        /\ g = growing /\ old = states
  OBVIOUS
<1>4. /\ Current = Block(program, name) /\ exps = scopes[name].expansions
      /\ deps \in Seq(ToSet(deps)) /\ exps \in Seq(ToSet(exps))
      /\ ToSet(deps) \subseteq DOMAIN old /\ name \notin DOMAIN old
  <2>1. Current = Block(program, name) /\ deps \in Seq(ToSet(deps))
    BY <1>1, <1>3, CurrentIs
  <2>2. name \in DOMAIN scopes
    BY <1>1, <1>3, ScopeOfCurrent
  <2>3. exps = scopes[name].expansions
    BY <1>3 DEF Expansions
  <2>4. ToSet(deps) \subseteq DOMAIN old /\ name \notin DOMAIN old
    BY <1>1, <1>3, DependenciesBuilt
  <2> QED
    BY <2>1, <2>2, <2>3, <2>4 DEF PlanInv, Scoped
<1>5. PICK m \in Nat : m = Len(deps)
  BY <1>4
<1>6. PICK n \in Nat : n = Len(exps)
  BY <1>4
<1>7. Handled = m /\ ImportsHandled = n
  <2>1. part = m + n
    BY <1>3, <1>5, <1>6 DEF BuildStep
  <2>2. Handled = IF part <= m THEN part ELSE m
    BY <1>3, <1>5 DEF Handled
  <2>3. Handled = m
    BY <2>1, <2>2
  <2> QED
    BY <2>1, <2>3 DEF ImportsHandled
<1>8. EveryOnce(g, old, deps, m, exps, n) /\ \A st \in ToSet(g) : MadeOf(st, old, exps, n)
  BY <1>2, <1>3, <1>7 DEF GrowingComplete
<1>9. PICK built : built = [k \in DOMAIN g |->
                    [step |-> name, row |-> k, values |-> g[k].values, rows |-> g[k].rows,
                     parents |-> g[k].parents]]
  OBVIOUS
<1>10. /\ states' = Updated(old, name, built)
       /\ growing' = <<EmptyState>> /\ part' = 0 /\ todo' = Tail(todo)
       /\ UNCHANGED <<program, stage, scopes>>
  BY <1>3, <1>9 DEF BuildStep
<1>11. PICK more : more = states'
  OBVIOUS
<1>12. /\ DOMAIN more = DOMAIN old \cup {name} /\ more[name] = built
       /\ \A s \in DOMAIN old : more[s] = old[s]
  BY <1>4, <1>10, <1>11 DEF Updated
<1>13. DOMAIN built = DOMAIN g /\ \A k \in DOMAIN g : /\ built[k].row = k /\ built[k].rows = g[k].rows
                                                      /\ built[k].parents = g[k].parents
  BY <1>9
<1>14. EveryOnce(built, more, deps, m, exps, n)
  <2>1. \A d \in ToSet(deps) : more[d] = old[d]
    BY <1>4, <1>12
  <2>2. m <= Len(deps)
    BY <1>5
  <2> QED
    BY <1>4, <1>5, <1>8, <1>13, <2>1, <2>2, OnceStays
<1>15. ASSUME NEW k \in DOMAIN g PROVE MadeOf(built[k], more, exps, n)
  <2>1. PICK st \in ToSet(g) : st = g[k]
    BY DEF ToSet
  <2>2. \A id \in ToSet(st.parents) : more[id[1]] = old[id[1]]
    <3> SUFFICES ASSUME NEW id \in ToSet(st.parents) PROVE more[id[1]] = old[id[1]]
      OBVIOUS
    <3>1. st.parents \in Seq({WorkId(v) : v \in ToSet(plan.work)})
      BY <1>1, <1>3 DEF PlanInv, Building, Growing, Combination
    <3>2. PICK v \in ToSet(plan.work) : id = WorkId(v)
      BY <3>1 DEF ToSet
    <3>3. v.step \in DOMAIN old
      BY <1>3 DEF PlanInv, StatesAreWork
    <3> QED
      BY <1>12, <3>2, <3>3 DEF WorkId
  <2>3. MadeOf(st, old, exps, n) /\ built[k].rows = st.rows /\ built[k].parents = st.parents
    BY <1>8, <1>13, <2>1
  <2>4. PICK like : like = built[k]
    OBVIOUS
  <2> QED
    BY <2>2, <2>3, <2>4, MadeStays
<1>16. ASSUME NEW nm \in DOMAIN more, NEW ds, ds = Dependencies(Block(program, nm)),
              NEW es, es = scopes[nm].expansions
       PROVE  /\ \A k \in DOMAIN more[nm] : more[nm][k].row = k /\ MadeOf(more[nm][k], more, es, Len(es))
              /\ EveryOnce(more[nm], more, ds, Len(ds), es, Len(es))
  <2>1. CASE nm = name
    <3>1. ds = deps /\ es = exps /\ more[nm] = built
      BY <1>3, <1>4, <1>12, <1>16, <2>1
    <3> QED
      BY <1>5, <1>6, <1>13, <1>14, <1>15, <3>1
  <2>2. CASE nm # name
    <3>1. nm \in DOMAIN old /\ more[nm] = old[nm]
      BY <1>12, <2>2
    <3>2. PICK list : list = old[nm]
      OBVIOUS
    <3>3. /\ \A k \in DOMAIN list : list[k].row = k /\ MadeOf(list[k], old, es, Len(es))
          /\ EveryOnce(list, old, ds, Len(ds), es, Len(es))
      BY <1>2, <1>3, <1>16, <3>1, <3>2 DEF BuiltComplete
    <3>4. ds \in Seq(ToSet(ds)) /\ ToSet(ds) \subseteq DOMAIN old
      BY <1>1, <1>3, <1>16, <3>1, BuiltDependencies
    <3>5. PICK i \in Nat : i = Len(ds) /\ i <= Len(ds)
      BY <3>4
    <3>6. EveryOnce(list, more, ds, i, es, Len(es))
      <4>1. \A d \in ToSet(ds) : more[d] = old[d]
        BY <1>12, <3>4
      <4>2. EveryOnce(list, old, ds, i, es, Len(es))
        BY <3>3, <3>5
      <4> QED
        BY <3>4, <3>5, <4>1, <4>2, OnceStays
    <3>7. ASSUME NEW k \in DOMAIN list PROVE MadeOf(list[k], more, es, Len(es))
      <4>1. PICK w \in ToSet(list) : w = list[k]
        BY DEF ToSet
      <4>2. w \in ToSet(plan.work)
        BY <1>1, <1>3, <3>1, <3>2, BuiltIs
      <4>3. \A id \in ToSet(w.parents) : more[id[1]] = old[id[1]]
        BY <1>3, <1>12, <4>2, ParentsKnown
      <4>4. MadeOf(w, old, es, Len(es))
        BY <3>3, <4>1
      <4>5. MadeOf(w, more, es, Len(es))
        BY <4>3, <4>4, MadeStays
      <4> QED
        BY <4>1, <4>5
    <3> QED
      BY <3>1, <3>2, <3>3, <3>5, <3>6, <3>7
  <2> QED
    BY <2>1, <2>2
<1>17. BuiltComplete'
  <2>1. \A nm \in DOMAIN more : LET ds == Dependencies(Block(program, nm))
                                    es == scopes[nm].expansions
          IN /\ \A k \in DOMAIN more[nm] : more[nm][k].row = k /\ MadeOf(more[nm][k], more, es, Len(es))
             /\ EveryOnce(more[nm], more, ds, Len(ds), es, Len(es))
    BY <1>16
  <2> QED
    BY <1>10, <1>11, <2>1 DEF BuiltComplete, Dependencies
<1>18. ASSUME todo' # <<>> PROVE GrowingComplete'
  <2>1. PICK p \in Program : program = p
    BY DEF PlanInv, Ordering
  <2>2. PICK left : left = Tail(todo)
    OBVIOUS
  <2>3. left \in Seq(StepNames(p)) /\ left # <<>> /\ todo' = left
    BY <1>1, <1>10, <1>18, <2>1, <2>2 DEF PlanInv, Building
  <2> QED
    BY <1>10, <2>1, <2>3, StartWork
<1> QED
  BY <1>2, <1>10, <1>17, <1>18 DEF WorkInv

\* The steps of the front end: imports are of different items.
LEMMA FrontWork ==
  ASSUME PlanInv, MeaningInv, WorkInv, ScopesNext, UNCHANGED workVars
  PROVE  WorkInv'
<1>1. CASE ValidateSteps \/ Visit \/ Visited \/ Ordered
  <2>1. UNCHANGED <<program, scopes>> /\ stage' # "build"
    BY <1>1 DEF ValidateSteps, Visit, Visited, Ordered
  <2> QED
    BY <2>1 DEF WorkInv
<1>2. CASE PlanStep
  <2>1. PICK name, b : name = Head(todo) /\ b = Block(program, name)
    OBVIOUS
  <2>2. name \in StepNames(program) /\ program \in Program
    <3>1. todo \in Seq(StepNames(program)) /\ todo # <<>>
      BY <1>2 DEF PlanStep, PlanInv, Scoped
    <3> QED
      BY <2>1, <3>1 DEF PlanInv, Ordering
  <2>3. b.name = name /\ b \in ToSet(program)
    BY <2>1, <2>2, BlockIs
  <2>4. /\ scopes' = Updated(scopes, name, [effective |-> Effective(b), expansions |-> Kept(b)])
        /\ stage' # "build" /\ program' = program
    BY <1>2, <2>1, <2>3 DEF PlanStep
  <2>5. ItemsSound(b, Kept(b))
    BY <2>2, <2>3, KeptItemsSound
  <2>6. ASSUME NEW nm \in DOMAIN scopes' PROVE ItemsSound(Block(program, nm), scopes'[nm].expansions)
    <3>1. CASE nm = name
      <4>1. scopes'[nm].expansions = Kept(b)
        BY <2>4, <3>1 DEF Updated
      <4> QED
        BY <2>1, <2>5, <3>1, <4>1
    <3>2. CASE nm # name
      <4>1. nm \in DOMAIN scopes /\ scopes'[nm] = scopes[nm]
        BY <2>4, <3>2 DEF Updated
      <4> QED
        BY <4>1 DEF WorkInv
    <3> QED
      BY <3>1, <3>2
  <2> QED
    BY <2>4, <2>6 DEF WorkInv
<1>3. CASE Accept
  <2>1. /\ stage = "scopes" /\ UNCHANGED <<program, scopes, order, states, growing, part>>
        /\ stage' = "build" => todo' = order
    BY <1>3 DEF Accept, workVars
  <2>2. states = <<>> /\ growing = <<EmptyState>> /\ part = 0
    BY <2>1, NoWorkYet
  <2>3. BuiltComplete'
    <3>1. DOMAIN states' = {}
      BY <2>1, <2>2
    <3> QED
      BY <3>1 DEF BuiltComplete
  <2>4. ASSUME stage' = "build", todo' # <<>> PROVE GrowingComplete'
    <3>1. PICK p \in Program : program = p
      BY DEF PlanInv, Ordering
    <3>2. PICK left : left = order
      OBVIOUS
    <3>3. left \in Seq(StepNames(p)) /\ left # <<>> /\ todo' = left /\ program' = p
      BY <2>1, <2>4, <3>1, <3>2 DEF PlanInv, Ordering
    <3>4. growing' = <<EmptyState>> /\ part' = 0
      BY <2>1, <2>2
    <3> QED
      BY <3>3, <3>4, StartWork
  <2> QED
    BY <2>1, <2>3, <2>4 DEF WorkInv
<1> QED
  BY <1>1, <1>2, <1>3 DEF ScopesNext

\* Once the plan is built the invariant has nothing to say of a step.
LEMMA NoWork ==
  ASSUME WorkInv, UNCHANGED <<program, scopes, states, growing, part>>,
         UNCHANGED <<stage, todo>> \/ stage' # "build"
  PROVE  WorkInv'
<1>1. CASE stage' # "build"
  BY <1>1 DEF WorkInv
<1>2. CASE UNCHANGED <<stage, todo>>
  <2>1. Current' = Current
    BY <1>2 DEF Current
  <2>2. Dependencies(Current)' = Dependencies(Current) /\ Expansions' = Expansions
    BY <2>1 DEF Dependencies, Expansions
  <2>3. Handled' = Handled
    BY <2>2 DEF Handled
  <2>4. ImportsHandled' = ImportsHandled
    BY <2>3 DEF ImportsHandled
  <2>5. GrowingComplete => GrowingComplete'
    BY <2>2, <2>3, <2>4 DEF GrowingComplete
  <2>6. BuiltComplete => BuiltComplete'
    BY DEF BuiltComplete
  <2> QED
    BY <1>2, <2>5, <2>6 DEF WorkInv
<1> QED
  BY <1>1, <1>2

\* Every step keeps the invariant.
LEMMA WorkKeeps ==
  ASSUME PlanInv, MeaningInv, WorkInv, [Next]_vars
  PROVE  WorkInv'
<1>0. OrderSound /\ ScopesSound /\ StatesSound
  BY DEF MeaningInv
<1>1. CASE PlanningNext
  <2>1. CASE ScopesNext /\ UNCHANGED <<workVars, manifest, made>>
    BY <2>1, FrontWork
  <2>2. CASE InheritParentStates
    BY <1>0, <2>2, InheritWork
  <2>3. CASE ExpandStep
    BY <2>3, ExpandWork
  <2>4. CASE BuildStep
    BY <1>0, <2>4, BuildWork
  <2>5. CASE Built \/ SelectComponent \/ ApplyLimit \/ KeepAncestors \/ KeepWork
    <3>1. UNCHANGED <<program, scopes, states, growing, part>>
      BY <2>5 DEF Built, SelectComponent, ApplyLimit, KeepAncestors, KeepWork
    <3>2. UNCHANGED <<stage, todo>> \/ stage' # "build"
      BY <2>5 DEF Built, SelectComponent, ApplyLimit, KeepAncestors, KeepWork
    <3> QED
      BY <3>1, <3>2, NoWork
  <2>6. CASE MakeManifest \/ PopulateWork \/ Publish
    <3>1. UNCHANGED <<program, scopes, states, growing, part>>
      BY <2>6 DEF MakeManifest, PopulateWork, Publish, plannedVars, workVars
    <3>2. UNCHANGED <<stage, todo>> \/ stage' # "build"
      BY <2>6 DEF MakeManifest, PopulateWork, Publish
    <3> QED
      BY <3>1, <3>2, NoWork
  <2> QED
    BY <1>1, <2>1, <2>2, <2>3, <2>4, <2>5, <2>6 DEF PlanningNext, PlanNext
<1>2. CASE PlanAnalyses
  BY <1>2, NoWork DEF PlanAnalyses
<1>3. CASE Execute \/ AnalyseCSV \/ AnalyseSQLite \/ AnalyseFails \/ AnalyseEnds \/ Close \/ Killed
  <2>1. UNCHANGED <<program, scopes, states, growing, part>>
    BY <1>3 DEF Execute, AnalyseCSV, AnalyseSQLite, AnalyseFails, AnalyseEnds, Close, Killed,
                madeVars, plannedVars, workVars
  <2>2. stage' # "build"
    BY <1>3 DEF Execute, AnalyseCSV, AnalyseSQLite, AnalyseFails, AnalyseEnds, Close, Killed
  <2> QED
    BY <2>1, <2>2, NoWork
<1>4. CASE UNCHANGED vars
  BY <1>4, NoWork DEF vars, madeVars, plannedVars, workVars
<1> QED
  BY <1>1, <1>2, <1>3, <1>4 DEF Next

\* Initially no step has a plan.
LEMMA WorkInitially ==
  ASSUME Init
  PROVE  WorkInv
<1>1. stage = "check" /\ scopes = <<>>
  BY DEF Init, PlanningInit, ScopesInit
<1> QED
  BY <1>1 DEF WorkInv

-----------------------------------------------------------------------------
(***************************************************************************)
(* What the invariant says of a step that is built.                        *)
(***************************************************************************)
\* An import that tells rows apart by more than their places is not whole.
LEMMA AlikeIs ==
  ASSUME WorkInv, NEW name \in DOMAIN scopes, NEW k \in DOMAIN scopes[name].expansions,
         NEW e, e = scopes[name].expansions[k], NEW r1, NEW r2
  PROVE  SameRow(e, r1, r2) <=> Alike(name, e, r1, r2)
<1>1. PICK b, exps : b = Block(program, name) /\ exps = scopes[name].expansions
  OBVIOUS
<1>2. ItemsSound(b, exps)
  BY <1>1 DEF WorkInv
<1>3. e.full <=> b.with[e.item].columns = <<>> /\ Len(e.vars) = Len(Columns[e.source])
  BY <1>1, <1>2 DEF ItemsSound
<1> QED
  BY <1>1, <1>3 DEF SameRow, Alike

\* A combination of workpackages of the dependencies of a step.
LEMMA CombinationsAre ==
  ASSUME PlanInv, OrderSound, stage = "build", NEW name \in DOMAIN states, NEW ids \in Combinations(name),
         NEW deps, deps = Dependencies(Block(program, name))
  PROVE  /\ Len(deps) \in Nat /\ ids \in FirstCombinations(states, deps, Len(deps))
         /\ \A id \in ToSet(ids) : id[1] \in DOMAIN states
<1>1. deps \in Seq(ToSet(deps)) /\ ToSet(deps) \subseteq DOMAIN states
  BY BuiltDependencies
<1>2. PICK n \in Nat : n = Len(deps) /\ DOMAIN deps = 1..n
  BY <1>1
<1>3. deps = Unique(Block(program, name).after)
  BY DEF Dependencies
<1>4. PICK all : all = UNION {{WorkId(s) : s \in ToSet(states[d])} : d \in ToSet(deps)}
  OBVIOUS
<1>5. /\ ids \in [1..n -> all]
      /\ \A k \in 1..n : ids[k][1] = deps[k]
      /\ \A j, k \in 1..n : Agree(states[ids[j][1]][ids[j][2]].values, states[ids[k][1]][ids[k][2]].values)
  BY <1>2, <1>3, <1>4 DEF Combinations
<1>6. ids \in FirstCombinations(states, deps, n)
  BY <1>4, <1>5 DEF FirstCombinations
<1>7. \A id \in ToSet(ids) : id[1] \in ToSet(deps)
  BY <1>2, <1>5 DEF ToSet
<1> QED
  BY <1>1, <1>2, <1>6, <1>7

\* The rows that are open to an import are those that its dependencies leave.
LEMMA OpenIs ==
  ASSUME NEW parents, \A id \in parents : id[1] \in DOMAIN states, NEW e
  PROVE  Open(parents, e) = OpenRows(states, parents, e)
<1>1. \A id \in parents : StatesOf(id[1]) = states[id[1]]
  BY DEF StatesOf
<1> QED
  BY <1>1 DEF Open, OpenRows

\* The workpackages of a step stand for every combination and choice once.
LEMMA BuiltOnce ==
  ASSUME PlanInv, MeaningInv, WorkInv, stage = "build", NEW name \in DOMAIN states, NEW ids \in Combinations(name),
         NEW exps, exps = scopes[name].expansions
  PROVE  /\ \A pick \in FirstPicks(states, ToSet(ids), exps, Len(exps)) :
              \E w \in ToSet(states[name]) : \A v \in ToSet(states[name]) :
                StandsFor(v, ids, pick, exps, Len(exps)) <=> v = w
         /\ \A w \in ToSet(states[name]) : w.parents = ids => \A k \in 1..Len(exps) :
              /\ AllAlike(OwnSelection(w, exps[k]).rows, OpenRows(states, ToSet(ids), exps[k]), exps[k])
<1>1. OrderSound /\ BuiltComplete
  BY DEF MeaningInv, WorkInv
<1>2. PICK deps : deps = Dependencies(Block(program, name))
  OBVIOUS
<1>3. PICK list, sts : list = states[name] /\ sts = states
  OBVIOUS
<1>4. ids \in FirstCombinations(sts, deps, Len(deps))
  BY <1>1, <1>2, <1>3, CombinationsAre
<1>5. /\ \A k \in DOMAIN list : MadeOf(list[k], sts, exps, Len(exps))
      /\ EveryOnce(list, sts, deps, Len(deps), exps, Len(exps))
  BY <1>1, <1>2, <1>3 DEF BuiltComplete
<1>6. ASSUME NEW pick \in FirstPicks(sts, ToSet(ids), exps, Len(exps))
      PROVE  \E w \in ToSet(list) : \A v \in ToSet(list) : StandsFor(v, ids, pick, exps, Len(exps)) <=> v = w
  <2>1. PICK x \in DOMAIN list : \A y \in DOMAIN list : StandsFor(list[y], ids, pick, exps, Len(exps)) <=> y = x
    BY <1>4, <1>5 DEF EveryOnce
  <2>2. PICK w \in ToSet(list) : w = list[x]
    BY DEF ToSet
  <2>3. ASSUME NEW v \in ToSet(list) PROVE StandsFor(v, ids, pick, exps, Len(exps)) <=> v = w
    <3>1. PICK y \in DOMAIN list : v = list[y]
      BY DEF ToSet
    <3> QED
      BY <2>1, <2>2, <3>1
  <2> QED
    BY <2>3
<1>7. ASSUME NEW w \in ToSet(list), w.parents = ids, NEW k \in 1..Len(exps)
      PROVE  AllAlike(OwnSelection(w, exps[k]).rows, OpenRows(sts, ToSet(ids), exps[k]), exps[k])
  <2>1. PICK e : e = exps[k]
    OBVIOUS
  <2>2. MadeOf(w, sts, exps, Len(exps))
    BY <1>5 DEF ToSet
  <2>3. PICK c \in ToSet(w.rows) :
          /\ \A d \in ToSet(w.rows) : (~d.inherited /\ d.item = e.item) <=> d = c
          /\ AllAlike(c.rows, OpenRows(sts, ToSet(w.parents), e), e)
    BY <2>1, <2>2 DEF MadeOf
  <2>4. OwnSelection(w, e) = c
    <3>1. Only(w.rows, e.item, c)
      BY <2>3 DEF Only
    <3> QED
      BY <3>1, OwnIs
  <2> QED
    BY <1>7, <2>1, <2>3, <2>4
<1> QED
  BY <1>3, <1>6, <1>7

-----------------------------------------------------------------------------
\* For every combination of workpackages of its dependencies that agree, and
\* every choice of one open row for each of its imports, a step has exactly one
\* workpackage, and two choices share it just if the import cannot tell their
\* rows apart (inheritParentStates, expandStep, buildChoices): the plan of all
\* steps loses nothing and does nothing twice.
THEOREM ExpansionIsComplete == Spec => []ExpansionComplete
<1>1. Init => PlanInv /\ MeaningInv /\ WorkInv
  BY PlanInitially, MeaningInitially, WorkInitially
<1>2. (PlanInv /\ MeaningInv /\ WorkInv) /\ [Next]_vars => (PlanInv /\ MeaningInv /\ WorkInv)'
  BY PlanKeeps, MeaningKeeps, WorkKeeps
<1>3. PlanInv /\ MeaningInv /\ WorkInv => ExpansionComplete
  <2> SUFFICES ASSUME PlanInv, MeaningInv, WorkInv, stage = "build",
                      NEW name \in DOMAIN states, NEW ids \in Combinations(name)
               PROVE  LET exps == scopes[name].expansions
                          own(w, k) == (CHOOSE c \in ToSet(w.rows) : ~c.inherited /\ c.item = exps[k].item).rows
                          of == {w \in ToSet(states[name]) : w.parents = ids}
                          open == [k \in DOMAIN exps |-> Open(ToSet(ids), exps[k])]
                      IN
                      /\ \A pick \in {f \in [DOMAIN exps -> UNION {open[k] : k \in DOMAIN exps}] :
                                        \A k \in DOMAIN exps : f[k] \in open[k]} :
                           Cardinality({w \in of : \A k \in DOMAIN exps : pick[k] \in own(w, k)}) = 1
                      /\ \A w \in of : \A k \in DOMAIN exps : \A r1 \in own(w, k) : \A r2 \in open[k] :
                           r2 \in own(w, k) <=> Alike(name, exps[k], r1, r2)
    BY Zenon DEF ExpansionComplete
  <2>1. PICK deps : deps = Dependencies(Block(program, name))
    OBVIOUS
  <2>2. OrderSound
    BY DEF MeaningInv
  <2>3. name \in DOMAIN scopes /\ \A id \in ToSet(ids) : id[1] \in DOMAIN states
    BY <2>1, <2>2, BuiltDependencies, CombinationsAre
  <2> DEFINE exps == scopes[name].expansions
             own(w, k) == (CHOOSE c \in ToSet(w.rows) : ~c.inherited /\ c.item = exps[k].item).rows
             of == {w \in ToSet(states[name]) : w.parents = ids}
             open == [k \in DOMAIN exps |-> Open(ToSet(ids), exps[k])]
  <2>4. PICK n \in Nat : n = Len(exps) /\ DOMAIN exps = 1..n
    <3>1. exps \in Seq(ToSet(exps))
      BY <2>3 DEF PlanInv, Scoped
    <3> HIDE DEF exps
    <3> QED
      BY <3>1
  <2>5. \A k \in DOMAIN exps : open[k] = OpenRows(states, ToSet(ids), exps[k])
    BY <2>3, OpenIs
  <2>6. \A w, k : own(w, k) = OwnSelection(w, exps[k]).rows
    BY DEF OwnSelection
  <2>7. /\ \A pick \in FirstPicks(states, ToSet(ids), exps, n) :
             \E w \in ToSet(states[name]) : \A v \in ToSet(states[name]) : StandsFor(v, ids, pick, exps, n) <=> v = w
        /\ \A w \in ToSet(states[name]) : w.parents = ids => \A k \in 1..n :
             AllAlike(OwnSelection(w, exps[k]).rows, OpenRows(states, ToSet(ids), exps[k]), exps[k])
    BY <2>4, BuiltOnce
  <2>8. \A k \in DOMAIN exps : \A r1, r2 : SameRow(exps[k], r1, r2) <=> Alike(name, exps[k], r1, r2)
    BY <2>3, AlikeIs
  <2> HIDE DEF exps, own, open
  <2>9. ASSUME NEW pick \in {f \in [DOMAIN exps -> UNION {open[k] : k \in DOMAIN exps}] :
                               \A k \in DOMAIN exps : f[k] \in open[k]}
        PROVE  Cardinality({w \in of : \A k \in DOMAIN exps : pick[k] \in own(w, k)}) = 1
    <3>1. pick \in FirstPicks(states, ToSet(ids), exps, n)
      <4>1. UNION {open[k] : k \in DOMAIN exps} = UNION {OpenRows(states, ToSet(ids), exps[k]) : k \in 1..n}
        BY <2>4, <2>5
      <4>2. PICK all : all = UNION {OpenRows(states, ToSet(ids), exps[k]) : k \in 1..n}
        OBVIOUS
      <4>3. pick \in [1..n -> all]
        BY <2>4, <4>1, <4>2
      <4>4. \A k \in 1..n : pick[k] \in OpenRows(states, ToSet(ids), exps[k])
        BY <2>4, <2>5
      <4> QED
        BY <4>2, <4>3, <4>4, Zenon DEF FirstPicks
    <3>2. PICK w \in ToSet(states[name]) : \A v \in ToSet(states[name]) : StandsFor(v, ids, pick, exps, n) <=> v = w
      BY <2>7, <3>1
    <3>3. \A v : StandsFor(v, ids, pick, exps, n) <=> v.parents = ids /\ \A k \in DOMAIN exps : pick[k] \in own(v, k)
      BY <2>4, <2>6 DEF StandsFor
    <3>4. {v \in of : \A k \in DOMAIN exps : pick[k] \in own(v, k)} = {w}
      BY <3>2, <3>3
    <3> QED
      BY <3>4, FS_Singleton
  <2>10. ASSUME NEW w \in of, NEW k \in DOMAIN exps, NEW r1 \in own(w, k), NEW r2 \in open[k]
         PROVE  r2 \in own(w, k) <=> Alike(name, exps[k], r1, r2)
    <3>1. AllAlike(own(w, k), open[k], exps[k])
      BY <2>4, <2>5, <2>6, <2>7, <2>10
    <3>2. r2 \in own(w, k) <=> SameRow(exps[k], r1, r2)
      BY <2>10, <3>1 DEF AllAlike
    <3> QED
      BY <2>8, <2>10, <3>2
  <2> USE DEF exps, own, open
  <2> QED
    BY <2>9, <2>10, Zenon
<1> QED
  BY <1>1, <1>2, <1>3, PTL DEF Spec

-----------------------------------------------------------------------------
(***************************************************************************)
(* A limit keeps the first workpackages and what they need: the invariant. *)
(***************************************************************************)
\* The stages from the plan of all steps to the manifest.
Late == {"select", "selected", "limit", "keep", "name", "create", "created"}

\* The steps a component keeps, and those whose work --limit counts.
Wanted == IF component = {"*"} THEN StepNames(program) ELSE Required(component)

\* The steps of which a limit keeps the first workpackages.
Targets ==
  IF Analyses # {} THEN Analyses
  ELSE {s \in Wanted \cap StepNames(program) : \A t \in Wanted : ~Edge(program, t, s)}

\* The workpackages of a step stand in a plan in the order of their rows.
RowsInOrder(work) ==
  \A k \in DOMAIN work :
    /\ work[k].row \in Nat \ {0}
    /\ \A j \in 1..(k - 1) : work[j].step = work[k].step => work[j].row < work[k].row
    /\ \A r \in 1..(work[k].row - 1) : \E j \in 1..(k - 1) : work[j].step = work[k].step /\ work[j].row = r

\* Every step is planned, and a plan is only made without errors.
StepsPlanned ==
  /\ stage \in {"scopes", "build"} \cup Late => StepNames(program) \subseteq ToSet(order)
  /\ stage \in {"build"} \cup Late => StepErrors(program) = {}
  /\ stage \in Late => DOMAIN states = StepNames(program)
  /\ IsInjective(plan.steps)
  /\ ToSet(plan.steps) = DOMAIN states

\* A state stands in the states of its step at its row.
RowsPlanned ==
  /\ RowsInOrder(plan.work)
  /\ \A s \in DOMAIN states : \A r \in DOMAIN states[s] : states[s][r].row = r

\* The first workpackages of the targets.
FirstOfTargets(n) ==
  {WorkId(w) : w \in {w \in ToSet(chosen.work) : w.step \in Targets /\ w.row <= n}}

\* What is kept are the first workpackages of the targets, and dependencies of
\* what is kept.
KeptSound ==
  /\ limit \in Nat /\ limit > 0
  /\ FirstOfTargets(limit) \subseteq kept
  /\ \A id \in kept \ FirstOfTargets(limit) :
       \E v \in ToSet(chosen.work) : WorkId(v) \in kept /\ id \in ToSet(v.parents)

\* What LimitMinimal says of a plan p with a limit n.
MinimalFor(targets, p, n, sts) ==
  /\ targets \subseteq ToSet(p.steps)
  /\ n > 0 => \A t \in targets : \A r \in 1..Len(sts[t]) :
       r <= n => \E w \in ToSet(p.work) : w.step = t /\ w.row = r
  /\ \A w \in ToSet(p.work) : n > 0 =>
       \/ w.step \in targets /\ w.row <= n
       \/ \E v \in ToSet(p.work) : WorkId(w) \in ToSet(v.parents)

\* The invariant of LimitMinimal.
LimitInv ==
  /\ StepsPlanned /\ RowsPlanned
  /\ stage \in Late \ {"select"} => analysed \subseteq StepNames(program)
  /\ stage \in {"limit", "keep"} => chosen = Filter(plan, Wanted)
  /\ stage = "keep" => KeptSound
  /\ stage \in {"name", "create", "created"} =>
       limit \in Nat /\ MinimalFor(Targets, chosen, limit, states)

-----------------------------------------------------------------------------
(***************************************************************************)
(* Rows and targets.                                                       *)
(***************************************************************************)
\* The number of earlier workpackages of its step is the row of a workpackage.
LEMMA CountedRows ==
  ASSUME NEW work, RowsInOrder(work), NEW k \in DOMAIN work, DOMAIN work \subseteq Nat,
         \A j \in 1..(k - 1) : j \in DOMAIN work
  PROVE  Cardinality({j \in 1..(k - 1) : work[j].step = work[k].step}) = work[k].row - 1
<1>1. PICK n \in Nat : work[k].row = n + 1
  <2>1. PICK r \in Nat \ {0} : r = work[k].row
    BY DEF RowsInOrder
  <2>2. r - 1 \in Nat /\ r = (r - 1) + 1
    BY <2>1
  <2> QED
    BY <2>1, <2>2
<1> DEFINE S == {j \in 1..(k - 1) : work[j].step = work[k].step}
           f == [j \in S |-> work[j].row]
<1>2. ASSUME NEW j \in S PROVE f[j] \in 1..n
  <2>1. j \in DOMAIN work /\ work[j].row \in Nat \ {0} /\ work[j].row < work[k].row
    BY DEF RowsInOrder
  <2> QED
    BY <1>1, <2>1
<1>3. ASSUME NEW i \in S, NEW j \in S, f[i] = f[j] PROVE i = j
  <2>1. i \in DOMAIN work /\ j \in DOMAIN work /\ i \in Nat /\ j \in Nat /\ work[i].row = work[j].row
    BY <1>3
  <2>2. work[i].row \in Nat
    BY <2>1 DEF RowsInOrder
  <2>3. ~(i < j)
    <3>1. i < j => i \in 1..(j - 1) /\ work[i].step = work[j].step
      BY <2>1
    <3>2. i < j => work[i].row < work[j].row
      BY <2>1, <3>1 DEF RowsInOrder
    <3> QED
      BY <2>1, <2>2, <3>2
  <2>4. ~(j < i)
    <3>1. j < i => j \in 1..(i - 1) /\ work[i].step = work[j].step
      BY <2>1
    <3>2. j < i => work[j].row < work[i].row
      BY <2>1, <3>1 DEF RowsInOrder
    <3> QED
      BY <2>1, <2>2, <3>2
  <2> QED
    BY <2>1, <2>3, <2>4
<1>4. ASSUME NEW r \in 1..n PROVE \E j \in S : f[j] = r
  <2>1. r \in 1..(work[k].row - 1)
    BY <1>1
  <2>2. PICK j \in 1..(k - 1) : work[j].step = work[k].step /\ work[j].row = r
    BY <2>1 DEF RowsInOrder
  <2> QED
    BY <2>2
<1>5. f \in [S -> 1..n]
  BY <1>2
<1>6. IsFiniteSet(1..n) /\ Cardinality(1..n) = n
  BY FS_Interval
<1>7. f \in Injection(S, 1..n) /\ f \in Surjection(S, 1..n)
  BY <1>3, <1>4, <1>5 DEF Injection, Surjection, IsInjective
<1> HIDE DEF S, f
<1>8. Cardinality(S) = n
  <2>1. IsFiniteSet(S) /\ (Cardinality(S) = Cardinality(1..n) <=> f \in Surjection(S, 1..n))
    BY <1>6, <1>7, FS_Injection
  <2> QED
    BY <1>6, <1>7, <2>1
<1> QED
  BY <1>1, <1>8 DEF S

\* What is picked by its step stays in order.
LEMMA RowsPicked ==
  ASSUME NEW work, work \in Seq(ToSet(work)), RowsInOrder(work), NEW keep, NEW places,
         places = {k \in DOMAIN work : work[k].step \in keep}, NEW t, t = Picked(work, places)
  PROVE  RowsInOrder(t)
<1>1. PICK at : PickedAt(at, work, places, t)
  BY PickedPlaces
<1>2. t \in Seq(ToSet(work)) /\ DOMAIN t = 1..Len(t) /\ Len(t) \in Nat
  BY PickedPlaces
<1>3. DOMAIN work = 1..Len(work) /\ Len(work) \in Nat
  OBVIOUS
<1>4. \A k \in 1..Len(t) : at[k] \in places /\ at[k] \in DOMAIN work /\ t[k] = work[at[k]]
  BY <1>1 DEF PickedAt
<1>5. ASSUME NEW k \in DOMAIN t
      PROVE  /\ t[k].row \in Nat \ {0}
             /\ \A j \in 1..(k - 1) : t[j].step = t[k].step => t[j].row < t[k].row
             /\ \A r \in 1..(t[k].row - 1) : \E j \in 1..(k - 1) : t[j].step = t[k].step /\ t[j].row = r
  <2>1. PICK i \in DOMAIN work : i = at[k] /\ t[k] = work[i] /\ work[i].step \in keep /\ k \in 1..Len(t)
    BY <1>2, <1>4
  <2>2. /\ work[i].row \in Nat \ {0}
        /\ \A j \in 1..(i - 1) : work[j].step = work[i].step => work[j].row < work[i].row
        /\ \A r \in 1..(work[i].row - 1) : \E j \in 1..(i - 1) : work[j].step = work[i].step /\ work[j].row = r
    BY DEF RowsInOrder
  <2>3. ASSUME NEW j \in 1..(k - 1), t[j].step = t[k].step PROVE t[j].row < t[k].row
    <3>1. j \in 1..Len(t) /\ j < k
      BY <1>2, <2>1
    <3>2. at[j] < at[k] /\ t[j] = work[at[j]] /\ at[j] \in DOMAIN work
      BY <1>1, <1>4, <2>1, <3>1 DEF PickedAt
    <3>3. at[j] \in 1..(i - 1)
      BY <1>3, <2>1, <3>2
    <3>4. work[at[j]].step = work[i].step
      BY <2>1, <2>3, <3>2
    <3>5. work[at[j]].row < work[i].row
      BY <2>2, <3>3, <3>4
    <3> QED
      BY <2>1, <3>2, <3>5
  <2>4. ASSUME NEW r \in 1..(t[k].row - 1)
        PROVE  \E j \in 1..(k - 1) : t[j].step = t[k].step /\ t[j].row = r
    <3>1. PICK h \in 1..(i - 1) : work[h].step = work[i].step /\ work[h].row = r
      BY <2>1, <2>2
    <3>2. h \in DOMAIN work /\ h \in places
      BY <1>3, <2>1, <3>1
    <3>3. PICK j \in 1..Len(t) : at[j] = h
      BY <1>1, <3>2 DEF PickedAt
    <3>4. ~(k <= j)
      <4>1. k < j => at[k] < at[j]
        BY <1>1, <2>1 DEF PickedAt
      <4> QED
        BY <1>2, <1>3, <2>1, <3>1, <3>3, <4>1
    <3>5. j \in 1..(k - 1)
      BY <1>2, <2>1, <3>4
    <3> QED
      BY <1>4, <2>1, <3>1, <3>3, <3>5
  <2> QED
    BY <2>1, <2>2, <2>3, <2>4
<1> QED
  BY <1>5 DEF RowsInOrder

\* The workpackages of one more step come in order.
LEMMA RowsBuilt ==
  ASSUME NEW work, work \in Seq(ToSet(work)), RowsInOrder(work), NEW name, \A w \in ToSet(work) : w.step # name,
         NEW built, built \in Seq(ToSet(built)), \A k \in DOMAIN built : built[k].step = name /\ built[k].row = k
  PROVE  RowsInOrder(work \o built)
<1>1. PICK m \in Nat : m = Len(work) /\ DOMAIN work = 1..m
  OBVIOUS
<1>2. PICK n \in Nat : n = Len(built) /\ DOMAIN built = 1..n
  OBVIOUS
<1>3. PICK t : t = work \o built
  OBVIOUS
<1>4. /\ DOMAIN t = 1..(m + n)
      /\ \A k \in 1..m : t[k] = work[k]
      /\ \A k \in 1..n : t[m + k] = built[k]
  BY <1>1, <1>2, <1>3
<1>5. ASSUME NEW k \in DOMAIN t
      PROVE  /\ t[k].row \in Nat \ {0}
             /\ \A j \in 1..(k - 1) : t[j].step = t[k].step => t[j].row < t[k].row
             /\ \A r \in 1..(t[k].row - 1) : \E j \in 1..(k - 1) : t[j].step = t[k].step /\ t[j].row = r
  <2>1. CASE k \in 1..m
    <3>1. /\ work[k].row \in Nat \ {0}
          /\ \A j \in 1..(k - 1) : work[j].step = work[k].step => work[j].row < work[k].row
          /\ \A r \in 1..(work[k].row - 1) : \E j \in 1..(k - 1) : work[j].step = work[k].step /\ work[j].row = r
      BY <1>1, <2>1 DEF RowsInOrder
    <3>2. t[k] = work[k] /\ \A j \in 1..(k - 1) : t[j] = work[j]
      BY <1>1, <1>4, <2>1
    <3> QED
      BY <3>1, <3>2, SMTT(30), ZenonT(30)
  <2>2. CASE k \notin 1..m
    <3>1. PICK r \in 1..n : k = m + r
      <4>1. k \in 1..(m + n)
        BY <1>4
      <4>2. k - m \in 1..n /\ k = m + (k - m)
        BY <2>2, <4>1
      <4> QED
        BY <4>2
    <3>2. t[k].step = name /\ t[k].row = r
      BY <1>2, <1>4, <3>1
    <3>3. ASSUME NEW j \in 1..(k - 1), t[j].step = name PROVE t[j].row < r
      <4>1. ~(j \in 1..m)
        <5>1. j \in 1..m => t[j] = work[j] /\ work[j] \in ToSet(work)
          BY <1>1, <1>4 DEF ToSet
        <5> QED
          BY <3>3, <5>1
      <4>2. PICK i \in 1..n : j = m + i /\ i < r
        <5>1. j - m \in 1..n /\ j = m + (j - m) /\ j - m < r
          BY <1>1, <1>2, <3>1, <4>1
        <5> QED
          BY <5>1
      <4>3. t[j] = built[i] /\ built[i].row = i
        BY <1>2, <1>4, <4>2
      <4> QED
        BY <4>2, <4>3
    <3>4. ASSUME NEW q \in 1..(r - 1) PROVE \E j \in 1..(k - 1) : t[j].step = name /\ t[j].row = q
      <4>1. q \in 1..n /\ m + q \in 1..(k - 1)
        BY <1>1, <1>2, <3>1
      <4>2. t[m + q] = built[q]
        BY <1>4, <4>1
      <4>3. built[q].step = name /\ built[q].row = q
        BY <1>2, <4>1
      <4> QED
        BY <4>1, <4>2, <4>3
    <3> QED
      BY <3>1, <3>2, <3>3, <3>4, SMTT(30)
  <2> QED
    BY <2>1, <2>2
<1>6. RowsInOrder(t)
  BY <1>5 DEF RowsInOrder
<1> QED
  BY <1>3, <1>6

\* No step of a plan without errors depends on itself.
LEMMA NoSelfEdge ==
  ASSUME NEW p, StepErrors(p) = {}, NEW s
  PROVE  ~Edge(p, s, s)
<1>1. ASSUME Edge(p, s, s) PROVE FALSE
  <2>1. s \in StepNames(p)
    BY <1>1 DEF Edge
  <2>2. s \in Ancestors(p, s)
    BY <1>1, <2>1 DEF Ancestors
  <2>3. "cycle" \in StepErrors(p)
    BY <2>1, <2>2 DEF StepErrors
  <2> QED
    BY <2>3
<1> QED
  BY <1>1

\* The steps of the plan of a component.
LEMMA ChosenSteps ==
  ASSUME PlanInv, Listed, StepsPlanned, stage \in Late, NEW steps, steps = Filter(plan, Wanted).steps
  PROVE  /\ ToSet(steps) = Wanted \cap StepNames(program) /\ steps \in Seq(ToSet(steps))
<1>1. PICK all : all = plan.steps
  OBVIOUS
<1>2. all \in Seq(ToSet(all)) /\ ToSet(all) = StepNames(program)
  BY <1>1 DEF Listed, StepsPlanned
<1>3. PICK places : places = {k \in DOMAIN all : all[k] \in Wanted}
  OBVIOUS
<1>4. steps = Picked(all, places)
  BY <1>1, <1>3 DEF Filter, Select
<1>5. ToSet(steps) = {all[k] : k \in places \cap DOMAIN all}
  BY <1>2, <1>4, PickedElements
<1>6. steps \in Seq(ToSet(steps))
  BY <1>2, <1>4, PickedList
<1> QED
  BY <1>2, <1>3, <1>5, <1>6 DEF ToSet

\* The steps whose work is limited are the targets.
LEMMA TargetsAre ==
  ASSUME PlanInv, Listed, StepsPlanned, stage \in Late, analysed \subseteq StepNames(program),
         NEW p, p = Filter(plan, Wanted), NEW ts, ts = LimitTargets(p, Analyses)
  PROVE  ToSet(ts) = Targets /\ Targets \subseteq ToSet(p.steps) /\ ts \in Seq(ToSet(ts))
<1>1. PICK steps : steps = p.steps
  OBVIOUS
<1>2. ToSet(steps) = Wanted \cap StepNames(program) /\ steps \in Seq(ToSet(steps))
  BY <1>1, ChosenSteps
<1>3. CASE Analyses # {}
  <2>1. PICK places : places = {k \in DOMAIN steps : steps[k] \in Analyses}
    OBVIOUS
  <2>2. ts = Picked(steps, places)
    BY <1>1, <1>3, <2>1 DEF LimitTargets, Select
  <2>3. ToSet(ts) = {steps[k] : k \in places \cap DOMAIN steps} /\ ts \in Seq(ToSet(ts))
    BY <1>2, <2>2, PickedElements, PickedList
  <2>4. Analyses \subseteq Wanted \cap StepNames(program)
    BY DEF Analyses, Wanted, Required
  <2>5. Targets = Analyses
    BY <1>3 DEF Targets
  <2>6. ToSet(ts) = Analyses
    <3>1. \A x \in ToSet(ts) : x \in Analyses
      BY <2>1, <2>3
    <3>2. ASSUME NEW x \in Analyses PROVE x \in ToSet(ts)
      <4>1. PICK k \in DOMAIN steps : x = steps[k]
        BY <1>2, <2>4 DEF ToSet
      <4> QED
        BY <2>1, <2>3, <4>1
    <3> QED
      BY <3>1, <3>2
  <2> QED
    BY <1>1, <1>2, <2>3, <2>4, <2>5, <2>6
<1>4. CASE Analyses = {}
  <2>1. PICK places : places = {k \in DOMAIN steps :
           ~ \E t \in ToSet(steps) \ {steps[k]} : Contains(Block(program, t).after, steps[k])}
    OBVIOUS
  <2>2. ts = Picked(steps, places)
    BY <1>1, <1>4, <2>1 DEF LimitTargets, TerminalSteps, Select
  <2>3. ToSet(ts) = {steps[k] : k \in places \cap DOMAIN steps} /\ ts \in Seq(ToSet(ts))
    BY <1>2, <2>2, PickedElements, PickedList
  <2>4. Targets = {s \in Wanted \cap StepNames(program) : \A t \in Wanted : ~Edge(program, t, s)}
    BY <1>4 DEF Targets
  <2>5. \A s : ~Edge(program, s, s)
    BY NoSelfEdge DEF StepsPlanned, Late
  <2>6. ASSUME NEW k \in DOMAIN steps PROVE k \in places <=> steps[k] \in Targets
    <3>1. steps[k] \in Wanted \cap StepNames(program)
      BY <1>2 DEF ToSet
    <3>2. \A t \in Wanted : Edge(program, t, steps[k]) <=>
            t \in ToSet(steps) /\ Contains(Block(program, t).after, steps[k])
      BY <1>2, <3>1 DEF Edge
    <3>3. k \in places <=> \A t \in Wanted : ~Edge(program, t, steps[k])
      BY <1>2, <2>1, <2>5, <3>2
    <3> QED
      BY <2>4, <3>1, <3>3
  <2>7. ToSet(ts) = Targets /\ Targets \subseteq ToSet(steps)
    <3>1. Targets \subseteq ToSet(steps)
      BY <1>2, <2>4
    <3> QED
      BY <2>3, <2>6, <3>1 DEF ToSet
  <2> QED
    BY <1>1, <2>3, <2>7
<1> QED
  BY <1>3, <1>4

-----------------------------------------------------------------------------
(***************************************************************************)
(* Every step keeps the invariant.                                         *)
(***************************************************************************)
\* What the component, the program and the analyses make of the targets.
LEMMA SameTargets ==
  ASSUME UNCHANGED <<program, component, analysed>>
  PROVE  Wanted' = Wanted /\ Targets' = Targets /\ Analyses' = Analyses
<1>1. Wanted' = Wanted /\ Analyses' = Analyses
  BY DEF Wanted, Analyses, Required
<1> QED
  BY <1>1 DEF Targets

\* A step that leaves the plans alone, or the stages the invariant is about.
LEMMA LimitStays ==
  ASSUME LimitInv, UNCHANGED <<program, states, plan>>,
         \/ stage' \notin {"scopes", "build"} \cup Late
         \/ /\ UNCHANGED <<order, component, analysed, limit, kept, chosen>>
            /\ stage' = stage \/ {stage, stage'} \subseteq {"name", "create", "created"}
  PROVE  LimitInv'
<1>1. RowsPlanned'
  BY DEF LimitInv, RowsPlanned
<1>2. CASE stage' \notin {"scopes", "build"} \cup Late
  <2>1. StepsPlanned'
    BY <1>2 DEF LimitInv, StepsPlanned
  <2> QED
    BY <1>1, <1>2, <2>1 DEF LimitInv, Late
<1>3. CASE /\ UNCHANGED <<order, component, analysed, limit, kept, chosen>>
           /\ stage' = stage \/ {stage, stage'} \subseteq {"name", "create", "created"}
  <2>1. Wanted' = Wanted /\ Targets' = Targets /\ Analyses' = Analyses
    BY <1>3, SameTargets
  <2>2. StepsPlanned'
    BY <1>3 DEF LimitInv, StepsPlanned, Late
  <2>3. KeptSound => KeptSound'
    <3>1. FirstOfTargets(limit)' = FirstOfTargets(limit)
      BY <1>3, <2>1 DEF FirstOfTargets
    <3> QED
      BY <1>3, <3>1 DEF KeptSound
  <2>4. chosen = Filter(plan, Wanted) => chosen' = Filter(plan', Wanted')
    BY <1>3, <2>1
  <2>5. MinimalFor(Targets, chosen, limit, states) => MinimalFor(Targets', chosen', limit', states')
    BY <1>3, <2>1
  <2>6. stage' = "keep" => KeptSound'
    BY <1>3, <2>3 DEF LimitInv
  <2>7. stage' \in {"limit", "keep"} => chosen' = Filter(plan', Wanted')
    BY <1>3, <2>4 DEF LimitInv
  <2>8. stage' \in {"name", "create", "created"} => limit' \in Nat /\ MinimalFor(Targets', chosen', limit', states')
    BY <1>3, <2>5 DEF LimitInv
  <2>9. stage' \in Late \ {"select"} => analysed' \subseteq StepNames(program')
    BY <1>3 DEF LimitInv, Late
  <2> QED
    BY <1>1, <2>2, <2>6, <2>7, <2>8, <2>9 DEF LimitInv
<1> QED
  BY <1>2, <1>3

\* The front end: the order that is found has all steps.
LEMMA FrontLimit ==
  ASSUME PlanInv, OrderSound', LimitInv, ScopesNext, UNCHANGED workVars
  PROVE  LimitInv'
<1>0. UNCHANGED <<states, plan, component, analysed, limit, kept, chosen>>
  BY DEF workVars
<1>1. CASE ValidateSteps \/ Visit \/ Visited \/ PlanStep
  <2>1. UNCHANGED program /\ (stage' = "order" \/ (stage' = stage /\ UNCHANGED order))
    BY <1>1 DEF ValidateSteps, Visit, Visited, PlanStep
  <2> QED
    BY <1>0, <2>1, LimitStays DEF Late
<1>2. CASE Ordered
  <2>1. stage' = "scopes" /\ UNCHANGED <<program, order>> /\ Unvisited = {} /\ walk = <<>>
    BY <1>2 DEF Ordered
  <2>2. StepNames(program) \subseteq ToSet(order)
    <3>1. Calls = [b \in DOMAIN program |-> program[b].name] /\ ToSet(walk) = {}
      BY <2>1 DEF Calls, ToSet
    <3>2. ASSUME NEW b \in DOMAIN program PROVE program[b].name \in ToSet(order)
      <4>1. b \in DOMAIN Calls /\ Calls[b] = program[b].name
        BY <3>1
      <4>2. b \notin Unvisited
        BY <2>1
      <4>3. program[b].name \in StepNames(program)
        BY DEF StepNames
      <4> QED
        BY <3>1, <4>1, <4>2, <4>3 DEF Unvisited
    <3> QED
      BY <3>2 DEF StepNames
  <2>3. StepsPlanned'
    BY <1>0, <2>1, <2>2 DEF LimitInv, StepsPlanned, Late
  <2>4. RowsPlanned'
    BY <1>0 DEF LimitInv, RowsPlanned
  <2> QED
    BY <2>1, <2>3, <2>4 DEF LimitInv, Late
<1>3. CASE Accept
  <2>1. UNCHANGED <<program, order>> /\ stage = "scopes" /\ stage' \in {"build", "failed"}
    BY <1>3 DEF Accept
  <2>2. CASE stage' = "failed"
    BY <1>0, <2>1, <2>2, LimitStays DEF Late
  <2>3. CASE stage' = "build"
    <3>1. StepErrors(program') = {}
      BY <2>3 DEF OrderSound
    <3>2. StepsPlanned'
      BY <1>0, <2>1, <2>3, <3>1 DEF LimitInv, StepsPlanned, Late
    <3>3. RowsPlanned'
      BY <1>0 DEF LimitInv, RowsPlanned
    <3> QED
      BY <2>3, <3>2, <3>3 DEF LimitInv, Late
  <2> QED
    BY <2>1, <2>2, <2>3
<1> QED
  BY <1>1, <1>2, <1>3 DEF ScopesNext

\* A step is built.
LEMMA BuildLimit ==
  ASSUME PlanInv, Listed, LimitInv, BuildStep
  PROVE  LimitInv'
<1>1. PICK name, work, g, steps, sts : name = Current.name /\ work = plan.work /\ g = growing /\ steps = plan.steps
                                       /\ sts = states
  OBVIOUS
<1>2. stage = "build" /\ todo # <<>>
  BY DEF BuildStep
<1>3. PICK built : built = [k \in DOMAIN g |->
                    [step |-> name, row |-> k, values |-> g[k].values, rows |-> g[k].rows,
                     parents |-> g[k].parents]]
  OBVIOUS
<1>4. /\ states' = Updated(sts, name, built)
      /\ plan' = [steps |-> Append(steps, name), work |-> work \o built]
      /\ UNCHANGED <<program, stage, order>>
  BY <1>1, <1>3 DEF BuildStep
<1>5. Growing /\ name \in ToSet(todo)
  BY <1>1, <1>2, CurrentIs DEF PlanInv, Building
<1>6. PICK n \in Nat : DOMAIN g = 1..n
  <2>1. g \in Seq(ToSet(g))
    BY <1>1, <1>5 DEF Growing
  <2> QED
    BY <2>1
<1>7. \A k \in DOMAIN built : built[k].step = name /\ built[k].row = k
  BY <1>3
<1>8. built \in Seq(ToSet(built)) /\ DOMAIN built = 1..n
  <2>1. built = [k \in 1..n |-> built[k]] /\ DOMAIN built = 1..n
    BY <1>3, <1>6
  <2>2. \A k \in 1..n : built[k] \in ToSet(built)
    BY <2>1 DEF ToSet
  <2> QED
    BY <2>1, <2>2, ListedIn
<1>9. name \notin DOMAIN sts /\ \A w \in ToSet(work) : w.step # name
  <2>1. ToSet(todo) \cap DOMAIN sts = {}
    BY <1>1, <1>2 DEF PlanInv, Building
  <2>2. \A w \in ToSet(work) : w.step \in DOMAIN sts
    BY <1>1 DEF PlanInv, StatesAreWork
  <2> QED
    BY <1>5, <2>1, <2>2
<1>10. RowsPlanned'
  <2>1. work \in Seq(ToSet(work)) /\ RowsInOrder(work)
    BY <1>1 DEF PlanInv, InOrder, LimitInv, RowsPlanned
  <2>2. RowsInOrder(work \o built)
    BY <1>7, <1>8, <1>9, <2>1, RowsBuilt
  <2>3. RowsInOrder(plan'.work)
    BY <1>4, <2>2
  <2>4. ASSUME NEW s \in DOMAIN states', NEW r \in DOMAIN states'[s] PROVE states'[s][r].row = r
    <3>1. CASE s = name
      <4>1. states'[s] = built
        BY <1>4, <3>1 DEF Updated
      <4> QED
        BY <1>7, <2>4, <4>1
    <3>2. CASE s # name
      <4>1. s \in DOMAIN sts /\ states'[s] = sts[s]
        BY <1>4, <2>4, <3>2 DEF Updated
      <4> QED
        BY <1>1, <2>4, <4>1 DEF LimitInv, RowsPlanned
    <3> QED
      BY <3>1, <3>2
  <2> QED
    BY <2>3, <2>4 DEF RowsPlanned
<1>11. StepsPlanned'
  <2>1. steps \in Seq(ToSet(steps)) /\ IsInjective(steps) /\ ToSet(steps) = DOMAIN sts
    BY <1>1 DEF Listed, LimitInv, StepsPlanned
  <2>2. PICK m \in Nat : m = Len(steps) /\ DOMAIN steps = 1..m
    BY <2>1
  <2>3. PICK t : t = Append(steps, name)
    OBVIOUS
  <2>4. DOMAIN t = 1..(m + 1) /\ t[m + 1] = name /\ \A k \in 1..m : t[k] = steps[k]
    BY <2>1, <2>2, <2>3
  <2>5. ToSet(t) = DOMAIN sts \cup {name}
    BY <2>1, <2>3, AppendedElements
  <2>6. \A k \in 1..m : t[k] # name
    BY <1>9, <2>1, <2>2, <2>4 DEF ToSet
  <2>7. IsInjective(t)
    <3>1. \A j, k \in 1..m : t[j] = t[k] => j = k
      BY <2>1, <2>2, <2>4 DEF IsInjective
    <3>2. \A j \in 1..(m + 1) : j \in 1..m \/ j = m + 1
      OBVIOUS
    <3> QED
      BY <2>4, <2>6, <3>1, <3>2 DEF IsInjective
  <2>8. plan'.steps = t /\ DOMAIN states' = DOMAIN sts \cup {name}
    BY <1>4, <2>3 DEF Updated
  <2> QED
    BY <1>2, <1>4, <2>5, <2>7, <2>8 DEF LimitInv, StepsPlanned, Late
<1> QED
  BY <1>2, <1>4, <1>10, <1>11 DEF LimitInv, Late

\* When no step is left all are built.
LEMMA AllBuilt ==
  ASSUME PlanInv, OrderSound, StepsPlanned, stage = "build", todo = <<>>
  PROVE  DOMAIN states = StepNames(program)
<1>1. PICK s, done : s = order /\ done = DOMAIN states
  OBVIOUS
<1>2. s \in Seq(StepNames(program)) /\ StepNames(program) \subseteq ToSet(s)
  BY <1>1 DEF PlanInv, Ordering, StepsPlanned
<1>3. PICK m \in Nat : m = Len(s) /\ DOMAIN s = 1..m
  BY <1>2
<1>4. PICK n \in 0..m : <<>> = SubSeq(s, n + 1, m) /\ done = UpTo(s, n)
  BY <1>1, <1>3 DEF OrderSound, InTurn, Remaining
<1>5. n = m
  <2>1. n < m => Len(SubSeq(s, n + 1, m)) = m - n
    BY <1>2, <1>3
  <2>2. Len(SubSeq(s, n + 1, m)) = 0
    BY <1>4
  <2> QED
    BY <1>3, <2>1, <2>2
<1>6. done = ToSet(s)
  BY <1>3, <1>4, <1>5 DEF UpTo, ToSet
<1>7. ToSet(s) \subseteq StepNames(program)
  BY <1>2 DEF ToSet
<1> QED
  BY <1>1, <1>2, <1>6, <1>7

\* The plan of all steps is complete.
LEMMA BuiltLimit ==
  ASSUME PlanInv, OrderSound, LimitInv, Built
  PROVE  LimitInv'
<1>1. /\ stage = "build" /\ todo = <<>> /\ stage' \in {"select", "failed"}
      /\ UNCHANGED <<program, order, states, plan, component, analysed, limit, kept, chosen>>
  BY DEF Built
<1>2. CASE stage' = "failed"
  BY <1>1, <1>2, LimitStays DEF Late
<1>3. CASE stage' = "select"
  <2>1. DOMAIN states = StepNames(program)
    BY <1>1, AllBuilt DEF LimitInv
  <2>2. StepsPlanned'
    BY <1>1, <1>3, <2>1 DEF LimitInv, StepsPlanned, Late
  <2>3. RowsPlanned'
    BY <1>1 DEF LimitInv, RowsPlanned
  <2> QED
    BY <1>3, <2>2, <2>3 DEF LimitInv, Late
<1> QED
  BY <1>1, <1>2, <1>3

\* Analyses are blocks of steps there are.
LEMMA AnalysesLimit ==
  ASSUME LimitInv, PlanAnalyses
  PROVE  LimitInv'
<1>1. /\ stage = "select" /\ stage' \in {"selected", "failed"}
      /\ UNCHANGED <<program, order, states, plan, component, limit, kept, chosen>>
  BY DEF PlanAnalyses
<1>2. CASE stage' = "failed"
  BY <1>1, <1>2, LimitStays DEF Late
<1>3. CASE stage' = "selected"
  <2>1. \A s \in analysed' : BlockErrors(s) = {}
    BY <1>3 DEF PlanAnalyses
  <2>2. analysed' \subseteq StepNames(program)
    BY <2>1 DEF BlockErrors
  <2>3. StepsPlanned'
    BY <1>1, <1>3 DEF LimitInv, StepsPlanned, Late
  <2>4. RowsPlanned'
    BY <1>1 DEF LimitInv, RowsPlanned
  <2> QED
    BY <1>1, <1>3, <2>2, <2>3, <2>4 DEF LimitInv, Late
<1> QED
  BY <1>1, <1>2, <1>3

\* A component is selected.
LEMMA SelectLimit ==
  ASSUME LimitInv, SelectComponent
  PROVE  LimitInv'
<1>1. /\ stage = "selected" /\ stage' \in {"limit", "failed"}
      /\ UNCHANGED <<program, order, states, plan, analysed, limit, kept>>
  BY DEF SelectComponent
<1>2. CASE stage' = "failed"
  BY <1>1, <1>2, LimitStays DEF Late
<1>3. CASE stage' = "limit"
  <2>1. Wanted' = IF component' = {"*"} THEN StepNames(program) ELSE Required(component')
    BY <1>1 DEF Wanted, Required
  <2>2. chosen' = Filter(plan, IF component' = {"*"} THEN StepNames(program) ELSE Required(component'))
    BY DEF SelectComponent
  <2>3. chosen' = Filter(plan', Wanted')
    BY <1>1, <2>1, <2>2
  <2>4. StepsPlanned'
    BY <1>1, <1>3 DEF LimitInv, StepsPlanned, Late
  <2>5. RowsPlanned'
    BY <1>1 DEF LimitInv, RowsPlanned
  <2>6. analysed' \subseteq StepNames(program')
    BY <1>1 DEF LimitInv, Late
  <2> QED
    BY <1>3, <2>3, <2>4, <2>5, <2>6 DEF LimitInv
<1> QED
  BY <1>1, <1>2, <1>3

\* The work of a component before it is limited.
LEMMA ChosenWork ==
  ASSUME PlanInv, LimitInv, stage \in {"limit", "keep"}, NEW work, work = chosen.work
  PROVE  /\ work \in Seq(ToSet(work)) /\ RowsInOrder(work)
         /\ \A w : w \in ToSet(work) <=> w \in ToSet(plan.work) /\ w.step \in Wanted
<1>1. PICK all : all = plan.work
  OBVIOUS
<1>2. all \in Seq(ToSet(all)) /\ RowsInOrder(all)
  BY <1>1 DEF PlanInv, InOrder, LimitInv, RowsPlanned
<1>3. PICK places : places = {k \in DOMAIN all : all[k].step \in Wanted}
  OBVIOUS
<1>4. work = Picked(all, places)
  BY <1>1, <1>3 DEF LimitInv, Filter, Select
<1>5. RowsInOrder(work)
  BY <1>2, <1>3, <1>4, RowsPicked
<1>6. ToSet(work) = {all[k] : k \in places \cap DOMAIN all} /\ work \in Seq(ToSet(work))
  BY <1>2, <1>4, PickedElements, PickedList
<1> QED
  BY <1>1, <1>3, <1>5, <1>6 DEF ToSet

\* The targets of a component, before it is limited.
LEMMA ChosenTargets ==
  ASSUME PlanInv, Listed, LimitInv, stage \in {"limit", "keep"}, NEW ts, ts = LimitTargets(chosen, Analyses)
  PROVE  ToSet(ts) = Targets /\ Targets \subseteq ToSet(chosen.steps) /\ ts \in Seq(ToSet(ts))
<1>1. chosen = Filter(plan, Wanted) /\ analysed \subseteq StepNames(program) /\ StepsPlanned
  BY DEF LimitInv, Late
<1>2. stage \in Late
  BY DEF Late
<1> QED
  BY <1>1, <1>2, TargetsAre

\* A limit counts the first workpackages of the targets.
LEMMA FirstAre ==
  ASSUME PlanInv, Listed, LimitInv, stage = "limit", NEW n \in Nat
  PROVE  FirstBranches(chosen, n, LimitTargets(chosen, Analyses)) = FirstOfTargets(n)
<1>1. PICK ts : ts = LimitTargets(chosen, Analyses)
  OBVIOUS
<1>2. PICK work : work = chosen.work
  OBVIOUS
<1>3. ToSet(ts) = Targets
  BY <1>1, ChosenTargets
<1>4. work \in Seq(ToSet(work)) /\ RowsInOrder(work)
  BY <1>2, ChosenWork
<1>5. DOMAIN work = 1..Len(work) /\ Len(work) \in Nat
  BY <1>4
<1>6. ASSUME NEW k \in DOMAIN work
      PROVE  Cardinality({j \in 1..(k - 1) : work[j].step = work[k].step}) < n <=> work[k].row <= n
  <2>1. Cardinality({j \in 1..(k - 1) : work[j].step = work[k].step}) = work[k].row - 1
    BY <1>4, <1>5, CountedRows
  <2>2. work[k].row \in Nat
    BY <1>4 DEF RowsInOrder
  <2> QED
    BY <2>1, <2>2
<1>7. \A s : Contains(ts, s) <=> s \in Targets
  <2>1. \A s : Contains(ts, s) <=> s \in ToSet(ts)
    <3>1. DOMAIN ts = 1..Len(ts)
      BY <1>1, ChosenTargets
    <3> QED
      BY <3>1 DEF Contains, ToSet
  <2> QED
    BY <1>3, <2>1
<1>8. \A k \in DOMAIN work : (/\ Contains(ts, work[k].step)
                              /\ Cardinality({j \in 1..(k - 1) : work[j].step = work[k].step}) < n)
                             <=> (work[k].step \in Targets /\ work[k].row <= n)
  BY <1>6, <1>7
<1>9. FirstBranches(chosen, n, ts) =
        {WorkId(work[k]) : k \in {k \in DOMAIN work : work[k].step \in Targets /\ work[k].row <= n}}
  BY <1>2, <1>8 DEF FirstBranches
<1> QED
  BY <1>1, <1>2, <1>9 DEF FirstOfTargets, ToSet

\* A limit is applied, or there is none.
LEMMA ApplyKeepsLimit ==
  ASSUME PlanInv, Listed, LimitInv, ApplyLimit
  PROVE  LimitInv'
<1>1. /\ stage = "limit" /\ stage' \in {"keep", "name"}
      /\ UNCHANGED <<program, order, states, plan, component, analysed, chosen>>
  BY DEF ApplyLimit
<1>2. limit' \in Nat
  BY LimitsAssumption DEF ApplyLimit
<1>3. Wanted' = Wanted /\ Targets' = Targets
  BY <1>1, SameTargets
<1>4. RowsPlanned'
  BY <1>1 DEF LimitInv, RowsPlanned
<1>5. StepsPlanned'
  BY <1>1 DEF LimitInv, StepsPlanned, Late
<1>6. analysed' \subseteq StepNames(program')
  BY <1>1 DEF LimitInv, Late
<1>7. chosen' = Filter(plan', Wanted')
  BY <1>1, <1>3 DEF LimitInv
<1>8. CASE limit' > 0
  <2>1. stage' = "keep" /\ kept' = FirstBranches(chosen, limit', LimitTargets(chosen, Analyses))
    BY <1>8 DEF ApplyLimit
  <2>2. kept' = FirstOfTargets(limit')
    BY <1>1, <1>2, <2>1, FirstAre
  <2>3. FirstOfTargets(limit)' = FirstOfTargets(limit')
    BY <1>1, <1>3 DEF FirstOfTargets
  <2>4. KeptSound'
    BY <1>2, <1>8, <2>2, <2>3 DEF KeptSound
  <2> QED
    BY <1>4, <1>5, <1>6, <1>7, <2>1, <2>4 DEF LimitInv
<1>9. CASE ~(limit' > 0)
  <2>1. stage' = "name"
    BY <1>9 DEF ApplyLimit
  <2>2. PICK ts : ts = LimitTargets(chosen, Analyses)
    OBVIOUS
  <2>3. Targets \subseteq ToSet(chosen.steps)
    BY <1>1, <2>2, ChosenTargets
  <2>4. MinimalFor(Targets', chosen', limit', states')
    BY <1>1, <1>3, <1>9, <2>3 DEF MinimalFor
  <2> QED
    BY <1>2, <1>4, <1>5, <1>6, <2>1, <2>4 DEF LimitInv
<1> QED
  BY <1>8, <1>9

\* What is kept gets its dependencies.
LEMMA AncestorsKeepLimit ==
  ASSUME LimitInv, KeepAncestors
  PROVE  LimitInv'
<1>1. /\ stage = "keep" /\ stage' \in {"keep", "broken"}
      /\ UNCHANGED <<program, order, states, plan, component, analysed, limit, chosen>>
  BY DEF KeepAncestors
<1>2. CASE stage' = "broken"
  BY <1>1, <1>2, LimitStays DEF Late
<1>3. CASE stage' = "keep"
  <2>1. kept' = kept \cup Needed
    BY <1>3 DEF KeepAncestors
  <2>2. Wanted' = Wanted /\ Targets' = Targets
    BY <1>1, SameTargets
  <2>3. PICK first : first = FirstOfTargets(limit)
    OBVIOUS
  <2>4. FirstOfTargets(limit)' = first
    BY <1>1, <2>2, <2>3 DEF FirstOfTargets
  <2>5. /\ limit \in Nat /\ limit > 0 /\ first \subseteq kept
        /\ \A id \in kept \ first : \E v \in ToSet(chosen.work) : WorkId(v) \in kept /\ id \in ToSet(v.parents)
    BY <1>1, <2>3 DEF LimitInv, KeptSound
  <2>6. ASSUME NEW id \in kept' \ first
        PROVE  \E v \in ToSet(chosen.work) : WorkId(v) \in kept' /\ id \in ToSet(v.parents)
    <3>1. CASE id \in kept
      BY <2>1, <2>5, <2>6, <3>1
    <3>2. CASE id \in Needed
      BY <2>1, <3>2 DEF Needed
    <3> QED
      BY <2>1, <2>6, <3>1, <3>2
  <2>7. KeptSound'
    BY <1>1, <2>1, <2>4, <2>5, <2>6 DEF KeptSound
  <2>8. RowsPlanned'
    BY <1>1 DEF LimitInv, RowsPlanned
  <2>9. StepsPlanned'
    BY <1>1, <1>3 DEF LimitInv, StepsPlanned, Late
  <2>10. chosen' = Filter(plan', Wanted')
    BY <1>1, <2>2 DEF LimitInv
  <2>11. analysed' \subseteq StepNames(program')
    BY <1>1 DEF LimitInv, Late
  <2> QED
    BY <1>3, <2>7, <2>8, <2>9, <2>10, <2>11 DEF LimitInv
<1> QED
  BY <1>1, <1>2, <1>3

\* What is kept becomes the plan of the component.
LEMMA KeptLimit ==
  ASSUME PlanInv, Listed, LimitInv, KeepWork
  PROVE  LimitInv'
<1>1. /\ stage = "keep" /\ stage' = "name" /\ Needed \subseteq kept
      /\ UNCHANGED <<program, order, states, plan, component, analysed, limit, kept>>
      /\ chosen' = Limited(chosen, kept, LimitTargets(chosen, Analyses))
  BY DEF KeepWork
<1>2. Wanted' = Wanted /\ Targets' = Targets
  BY <1>1, SameTargets
<1>3. PICK ts, work, steps : ts = LimitTargets(chosen, Analyses) /\ work = chosen.work /\ steps = chosen.steps
  OBVIOUS
<1>4. ToSet(ts) = Targets /\ Targets \subseteq ToSet(steps) /\ ts \in Seq(ToSet(ts))
  BY <1>1, <1>3, ChosenTargets
<1>5. /\ work \in Seq(ToSet(work)) /\ RowsInOrder(work)
      /\ \A w : w \in ToSet(work) <=> w \in ToSet(plan.work) /\ w.step \in Wanted
  BY <1>1, <1>3, ChosenWork
<1>6. PICK new : new = chosen'
  OBVIOUS
<1>7. \A w : w \in ToSet(new.work) <=> w \in ToSet(work) /\ WorkId(w) \in kept
  <2>1. PICK places : places = {k \in DOMAIN work : WorkId(work[k]) \in kept}
    OBVIOUS
  <2>2. new.work = Picked(work, places)
    BY <1>1, <1>3, <1>6, <2>1 DEF Limited, Select
  <2>3. ToSet(new.work) = {work[k] : k \in places \cap DOMAIN work}
    BY <1>5, <2>2, PickedElements
  <2> QED
    BY <2>1, <2>3 DEF ToSet
<1>8. Targets \subseteq ToSet(new.steps)
  <2>1. PICK places : places = {k \in DOMAIN steps : Contains(ts, steps[k]) \/ \E id \in kept : id[1] = steps[k]}
    OBVIOUS
  <2>2. new.steps = Picked(steps, places)
    BY <1>1, <1>3, <1>6, <2>1 DEF Limited, Select
  <2>3. steps \in Seq(ToSet(steps))
    BY <1>3 DEF Listed
  <2>4. ToSet(new.steps) = {steps[k] : k \in places \cap DOMAIN steps}
    BY <2>2, <2>3, PickedElements
  <2>5. ASSUME NEW s \in Targets PROVE s \in ToSet(new.steps)
    <3>1. PICK k \in DOMAIN steps : s = steps[k]
      BY <1>4 DEF ToSet
    <3>2. Contains(ts, s)
      <4>1. DOMAIN ts = 1..Len(ts) /\ s \in ToSet(ts)
        BY <1>4
      <4> QED
        BY <4>1 DEF ToSet, Contains
    <3> QED
      BY <2>1, <2>4, <3>1, <3>2
  <2> QED
    BY <2>5
<1>9. PICK n, first : n = limit /\ first = FirstOfTargets(n)
  OBVIOUS
<1>10. /\ n \in Nat /\ n > 0 /\ first \subseteq kept
       /\ \A id \in kept \ first : \E v \in ToSet(work) : WorkId(v) \in kept /\ id \in ToSet(v.parents)
  BY <1>1, <1>3, <1>9 DEF LimitInv, KeptSound
<1>11. \A id : id \in first <=> \E w \in ToSet(work) : id = WorkId(w) /\ w.step \in Targets /\ w.row <= n
  BY <1>3, <1>9 DEF FirstOfTargets
<1>12. ASSUME NEW t \in Targets, NEW r \in 1..Len(states[t]), r <= n
       PROVE  \E w \in ToSet(new.work) : w.step = t /\ w.row = r
  <2>1. t \in Wanted /\ t \in DOMAIN states
    <3>1. t \in ToSet(steps)
      BY <1>4
    <3>2. chosen = Filter(plan, Wanted) /\ StepsPlanned /\ DOMAIN states = StepNames(program)
      BY <1>1 DEF LimitInv, StepsPlanned, Late
    <3>3. ToSet(steps) = Wanted \cap StepNames(program)
      BY <1>1, <1>3, <3>2, ChosenSteps DEF Late
    <3> QED
      BY <3>1, <3>2, <3>3
  <2>2. PICK sts : sts = states[t]
    OBVIOUS
  <2>3. sts \in Seq({w \in ToSet(plan.work) : w.step = t})
    BY <2>1, <2>2 DEF PlanInv, StatesAreWork
  <2>4. r \in DOMAIN sts
    BY <1>12, <2>2, <2>3
  <2>5. PICK w \in ToSet(plan.work) : w = sts[r] /\ w.step = t
    BY <2>3, <2>4
  <2>6. w.row = r
    BY <1>1, <2>1, <2>2, <2>4, <2>5 DEF LimitInv, RowsPlanned
  <2>7. w \in ToSet(work)
    BY <1>5, <2>1, <2>5
  <2>8. WorkId(w) \in kept
    BY <1>10, <1>11, <1>12, <2>5, <2>6, <2>7
  <2> QED
    BY <1>7, <2>5, <2>6, <2>7, <2>8
<1>13. ASSUME NEW w \in ToSet(new.work)
       PROVE  \/ w.step \in Targets /\ w.row <= n
              \/ \E v \in ToSet(new.work) : WorkId(w) \in ToSet(v.parents)
  <2>1. w \in ToSet(work) /\ WorkId(w) \in kept
    BY <1>7
  <2>2. CASE WorkId(w) \in first
    <3>1. PICK v \in ToSet(work) : WorkId(w) = WorkId(v) /\ v.step \in Targets /\ v.row <= n
      BY <1>11, <2>2
    <3>2. w.step = v.step /\ w.row = v.row
      BY <3>1 DEF WorkId
    <3> QED
      BY <3>1, <3>2
  <2>3. CASE WorkId(w) \notin first
    <3>1. PICK v \in ToSet(work) : WorkId(v) \in kept /\ WorkId(w) \in ToSet(v.parents)
      BY <1>10, <2>1, <2>3
    <3> QED
      BY <1>7, <3>1
  <2> QED
    BY <2>2, <2>3
<1>14. MinimalFor(Targets, new, n, states)
  BY <1>8, <1>12, <1>13 DEF MinimalFor
<1>15. MinimalFor(Targets', chosen', limit', states') /\ limit' \in Nat
  BY <1>1, <1>2, <1>6, <1>9, <1>10, <1>14
<1>16. RowsPlanned'
  BY <1>1 DEF LimitInv, RowsPlanned
<1>17. StepsPlanned'
  BY <1>1 DEF LimitInv, StepsPlanned, Late
<1>18. analysed' \subseteq StepNames(program')
  BY <1>1 DEF LimitInv, Late
<1> QED
  BY <1>1, <1>15, <1>16, <1>17, <1>18 DEF LimitInv

\* Every step keeps the invariant.
LEMMA LimitInvKeeps ==
  ASSUME PlanInv, OrderSound, OrderSound', Listed, LimitInv, [Next]_vars
  PROVE  LimitInv'
<1>1. CASE PlanningNext
  <2>1. CASE ScopesNext /\ UNCHANGED <<workVars, manifest, made>>
    BY <2>1, FrontLimit
  <2>2. CASE InheritParentStates \/ ExpandStep
    BY <2>2, LimitStays DEF InheritParentStates, ExpandStep
  <2>3. CASE BuildStep
    BY <2>3, BuildLimit
  <2>4. CASE Built
    BY <2>4, BuiltLimit
  <2>5. CASE SelectComponent
    BY <2>5, SelectLimit
  <2>6. CASE ApplyLimit
    BY <2>6, ApplyKeepsLimit
  <2>7. CASE KeepAncestors
    BY <2>7, AncestorsKeepLimit
  <2>8. CASE KeepWork
    BY <2>8, KeptLimit
  <2>9. CASE MakeManifest \/ PopulateWork \/ Publish
    <3>1. UNCHANGED <<program, states, plan, order, component, analysed, limit, kept, chosen>>
      BY <2>9 DEF MakeManifest, PopulateWork, Publish, plannedVars, workVars
    <3>2. \/ stage' \notin {"scopes", "build"} \cup Late
          \/ stage' = stage \/ {stage, stage'} \subseteq {"name", "create", "created"}
      BY <2>9 DEF MakeManifest, PopulateWork, Publish, Late
    <3> QED
      BY <3>1, <3>2, LimitStays
  <2> QED
    BY <1>1, <2>1, <2>2, <2>3, <2>4, <2>5, <2>6, <2>7, <2>8, <2>9 DEF PlanningNext, PlanNext
<1>2. CASE PlanAnalyses
  BY <1>2, AnalysesLimit
<1>3. CASE Execute \/ AnalyseCSV \/ AnalyseSQLite \/ AnalyseFails \/ AnalyseEnds \/ Close \/ Killed
  <2>1. UNCHANGED <<program, states, plan>>
    BY <1>3 DEF Execute, AnalyseCSV, AnalyseSQLite, AnalyseFails, AnalyseEnds, Close, Killed,
                madeVars, plannedVars, workVars
  <2>2. stage' \notin {"scopes", "build"} \cup Late
    BY <1>3 DEF Execute, AnalyseCSV, AnalyseSQLite, AnalyseFails, AnalyseEnds, Close, Killed, Late
  <2> QED
    BY <2>1, <2>2, LimitStays
<1>4. CASE UNCHANGED vars
  BY <1>4, LimitStays DEF vars, madeVars, plannedVars, workVars
<1> QED
  BY <1>1, <1>2, <1>3, <1>4 DEF Next

\* Initially nothing is planned.
LEMMA LimitInitially ==
  ASSUME Init
  PROVE  LimitInv
<1>1. PICK none : none = <<>>
  OBVIOUS
<1>2. DOMAIN none = {} /\ ToSet(none) = {} /\ IsInjective(none)
  BY <1>1 DEF ToSet, IsInjective
<1>3. stage = "check" /\ states = none /\ plan.steps = none /\ plan.work = none
  BY <1>1 DEF Init, PlanningInit, ScopesInit, PlanInit
<1> QED
  BY <1>2, <1>3 DEF LimitInv, StepsPlanned, RowsPlanned, RowsInOrder, Late

-----------------------------------------------------------------------------
\* With a limit n a component keeps of each of its targets the n first
\* workpackages of the plan of all steps, and otherwise just dependencies of
\* what it keeps; without one it keeps its targets (limitTargetSteps,
\* applyWorkLimit, keepWithAncestors).
THEOREM LimitKeepsWhatIsNeeded == Spec => []LimitMinimal
<1>1. Init => PlanInv /\ MeaningInv /\ Listed /\ LimitInv
  BY PlanInitially, MeaningInitially, NothingListed, LimitInitially
<1>2. (PlanInv /\ MeaningInv /\ Listed /\ LimitInv) /\ [Next]_vars => (PlanInv /\ MeaningInv /\ Listed /\ LimitInv)'
  <2> SUFFICES ASSUME PlanInv, MeaningInv, Listed, LimitInv, [Next]_vars
               PROVE  (PlanInv /\ MeaningInv /\ Listed /\ LimitInv)'
    OBVIOUS
  <2>1. PlanInv' /\ MeaningInv' /\ Listed'
    BY PlanKeeps, MeaningKeeps, ListedKept
  <2>2. OrderSound /\ OrderSound'
    BY <2>1 DEF MeaningInv
  <2> QED
    BY <2>1, <2>2, LimitInvKeeps
<1>3. LimitInv => LimitMinimal
  <2> SUFFICES ASSUME LimitInv, stage \in {"name", "create", "created"} PROVE LimitMinimal
    BY DEF LimitMinimal
  <2> DEFINE targets == IF Analyses # {} THEN Analyses
                        ELSE {s \in StepNames(program) :
                               /\ component = {"*"} \/ s \in Required(component)
                               /\ \A t \in StepNames(program) : Edge(program, t, s) =>
                                    component # {"*"} /\ t \notin Required(component)}
             of(t) == {w.row : w \in {w \in ToSet(chosen.work) : w.step = t}}
  <2>1. targets = Targets
    BY DEF Targets, Wanted, Edge
  <2>2. limit \in Nat /\ MinimalFor(Targets, chosen, limit, states)
    BY DEF LimitInv
  <2>3. targets \subseteq ToSet(chosen.steps)
    BY <2>1, <2>2 DEF MinimalFor
  <2>4. limit > 0 => \A t \in targets : 1..Len(states[t]) \cap 1..limit \subseteq of(t)
    BY <2>1, <2>2 DEF MinimalFor
  <2>5. \A w \in ToSet(chosen.work) : w.step \in targets =>
          limit = 0 \/ w.row <= limit \/ \E v \in ToSet(chosen.work) : WorkId(w) \in ToSet(v.parents)
    BY <2>2 DEF MinimalFor
  <2>6. limit > 0 => \A w \in ToSet(chosen.work) : w.step \notin targets =>
          \E v \in ToSet(chosen.work) : WorkId(w) \in ToSet(v.parents)
    BY <2>1, <2>2 DEF MinimalFor
  <2> QED
    BY <2>3, <2>4, <2>5, <2>6, Zenon DEF LimitMinimal
<1> QED
  BY <1>1, <1>2, <1>3, PTL DEF Spec

-----------------------------------------------------------------------------
(***************************************************************************)
(* The work directories of a run can be made: the invariant.               *)
(***************************************************************************)
\* Planning has let through no template it could trip over.
RefsSeen(p, sc) ==
  \A k \in DOMAIN p : \A f \in ToSet(p[k].fsubs) : f.refs \subseteq DOMAIN sc[p[k].name].effective
TemplatesChecked == RefsSeen(program, scopes)

\* The values of a workpackage are those of the names its step sees.
WorkNamed == \A w \in ToSet(plan.work) : DOMAIN w.values = DOMAIN scopes[w.step].effective

\* The plan of a component has the steps of its work.
ChosenKnown ==
  /\ IsInjective(chosen.steps)
  /\ ToSet(chosen.steps) \subseteq DOMAIN states
  /\ ToSet(chosen.work) \subseteq ToSet(plan.work)
  /\ \A w \in ToSet(chosen.work) : w.step \in ToSet(chosen.steps)

\* The names jbs puts into the directory of workpackage w, with the blocks p.
EntriesIn(p, w) ==
  [k \in DOMAIN w.deps |-> w.deps[k].link]
  \o [k \in DOMAIN Block(p, w.step).fsubs |-> Block(p, w.step).fsubs[k].dest]

\* populateRunTree can make the directory of workpackage w.
Populates(p, m, w) ==
  /\ StepInManifest(m, w.step)
  /\ \A d \in ToSet(w.deps) : StepInManifest(m, d.step) /\ HasWork(m, d.step, d.row)
  /\ IsInjective(EntriesIn(p, w))
  /\ \A f \in ToSet(Block(p, w.step).fsubs) : f.refs \subseteq DOMAIN w.values

\* A manifest of which every work directory can be made, in a place of its own.
CreatableOf(p, m) ==
  /\ m.work \in Seq(ToSet(m.work))
  /\ \A w \in ToSet(m.work) : Populates(p, m, w)
  /\ \A v, w \in ToSet(m.work) : Place(m, v.step, v.row) = Place(m, w.step, w.row) => v = w
Creatable(m) == CreatableOf(program, m)

\* The invariant of CreationCannotFail.
CreateInv ==
  /\ stage \in {"build"} \cup Late => TemplatesChecked
  /\ stage \in Late => WorkNamed
  /\ stage \in {"limit", "keep", "name"} => ChosenKnown
  /\ made \in Nat
  /\ stage = "create" => Creatable(manifest)
  /\ stage # "broken"

-----------------------------------------------------------------------------
\* Populates is what PopulateWork looks at.
LEMMA PopulatesIs ==
  ASSUME NEW m, NEW w
  PROVE  Populates(program, m, w) <=> ~CannotPopulate(m, w)
<1>1. EntriesIn(program, w) = Entries(w)
  BY DEF EntriesIn, Entries
<1> QED
  BY <1>1 DEF Populates, CannotPopulate

(***************************************************************************)
(* Directories.                                                            *)
(***************************************************************************)
\* What dir is in ManifestSteps.
Naming(f, steps, N) == f = [k \in 1..N |-> StepDirName(steps[k], {f[j] : j \in 1..(k - 1)})]

\* The recursion in ManifestSteps has a solution.
LEMMA NamingExists ==
  ASSUME NEW steps, NEW N \in Nat
  PROVE  \E f : Naming(f, steps, N)
<1> DEFINE T == {n \in Nat : ~ \E f : Naming(f, steps, n)}
<1>1. ASSUME T # {} PROVE FALSE
  <2>1. PICK m \in T : \A j \in T : m <= j
    BY <1>1, Least
  <2>2. m # 0
    <3>1. Naming([k \in 1..0 |-> 0], steps, 0)
      BY DEF Naming
    <3>2. \E f : Naming(f, steps, 0)
      BY <3>1
    <3> QED
      BY <2>1, <3>2
  <2>3. m \in Nat /\ m - 1 \in Nat /\ m - 1 \notin T
    BY <2>1, <2>2
  <2>4. PICK f : Naming(f, steps, m - 1)
    BY <2>3
  <2> DEFINE last == StepDirName(steps[m], {f[j] : j \in 1..(m - 1)})
             g == [k \in 1..m |-> IF k = m THEN last ELSE f[k]]
  <2>5. ASSUME NEW k \in 1..m PROVE g[k] = StepDirName(steps[k], {g[j] : j \in 1..(k - 1)})
    <3>1. \A j \in 1..(k - 1) : j \in 1..m /\ j # m /\ g[j] = f[j]
      BY <2>3
    <3>2. {g[j] : j \in 1..(k - 1)} = {f[j] : j \in 1..(k - 1)}
      BY <3>1
    <3>3. CASE k = m
      BY <3>2, <3>3
    <3>4. CASE k # m
      <4>1. k \in 1..(m - 1) /\ g[k] = f[k]
        BY <2>3, <3>4
      <4>2. f[k] = StepDirName(steps[k], {f[j] : j \in 1..(k - 1)})
        BY <2>4, <4>1 DEF Naming
      <4> QED
        BY <3>2, <4>1, <4>2
    <3> QED
      BY <3>3, <3>4
  <2>6. DOMAIN g = 1..m /\ g = [k \in 1..m |-> g[k]]
    OBVIOUS
  <2> HIDE DEF g
  <2>7. Naming(g, steps, m)
    BY <2>5, <2>6 DEF Naming
  <2> QED
    BY <2>1, <2>7
<1> QED
  BY <1>1

\* There is a free name for the directory of a step, if there are fewer used
\* names than steps.
LEMMA FreeName ==
  ASSUME NEW p \in Program, NEW name \in StepNames(p), NEW used, IsFiniteSet(used),
         Cardinality(used) <= Cardinality(StepNames(p)), IsFiniteSet(StepNames(p))
  PROVE  StepDirName(name, used) \notin used
<1>1. PICK c \in Nat : c = Cardinality(used)
  BY FS_CardinalityType
<1>2. PICK d \in Nat : d = Cardinality(StepNames(p)) /\ c <= d
  BY <1>1, FS_CardinalityType
<1>3. PICK base : base = DirBase(name)
  OBVIOUS
<1> DEFINE free == {i \in 0..c : NumberedName(base, i) \notin used}
<1>4. free # {}
  <2> SUFFICES ASSUME free = {} PROVE FALSE
    OBVIOUS
  <2> DEFINE f == [i \in 0..c |-> NumberedName(base, i)]
  <2>1. f \in [0..c -> used]
    OBVIOUS
  <2>2. IsFiniteSet(0..c) /\ Cardinality(0..c) = c + 1
    BY FS_Interval
  <2>3. PICK i, j \in 0..c : i # j /\ f[i] = f[j]
    <3>1. Cardinality(used) < Cardinality(0..c)
      BY <1>1, <2>2
    <3> HIDE DEF f
    <3> QED
      BY <2>1, <2>2, <3>1, FS_PigeonHole
  <2>4. i \in 0..d /\ j \in 0..d /\ NumberedName(base, i) = NumberedName(base, j)
    BY <1>1, <1>2, <2>3
  <2> QED
    BY <1>2, <1>3, <2>3, <2>4, NumberAssumption
<1>5. PICK m \in free : \A j \in free : m <= j
  <2>1. free \subseteq Nat
    BY <1>1
  <2> QED
    BY <1>4, <2>1, Least
<1>6. PICK i : i = CHOOSE x \in free : \A j \in free : x <= j
  OBVIOUS
<1>7. i \in free
  BY <1>5, <1>6
<1>8. StepDirName(name, used) = NumberedName(base, i)
  BY <1>1, <1>3, <1>6 DEF StepDirName
<1> QED
  BY <1>7, <1>8

\* The directories of the steps of a manifest are distinct.
LEMMA DirectoriesDiffer ==
  ASSUME NEW p, p.steps \in Seq(ToSet(p.steps)), IsInjective(p.steps), program \in Program,
         ToSet(p.steps) \subseteq StepNames(program), NEW steps, steps = ManifestSteps(p)
  PROVE  /\ DOMAIN steps = DOMAIN p.steps
         /\ \A k \in DOMAIN steps : steps[k].name = p.steps[k]
         /\ \A j, k \in DOMAIN steps : steps[j].dir = steps[k].dir => j = k
<1>0. PICK names : names = p.steps
  OBVIOUS
<1>1. PICK n \in Nat : names = p.steps /\ n = Len(names) /\ DOMAIN names = 1..n
  BY <1>0
<1>2. IsFiniteSet(StepNames(program)) /\ n <= Cardinality(StepNames(program))
  <2>1. PICK all : all = StepNames(program)
    OBVIOUS
  <2>2. IsFiniteSet(all)
    <3>1. PICK l \in Nat : DOMAIN program = 1..l
      <4>1. program \in Seq(ToSet(program))
        BY ProgramAssumption
      <4> QED
        BY <4>1
    <3> DEFINE f == [k \in 1..l |-> program[k].name]
    <3>2. all = {f[k] : k \in 1..l}
      BY <2>1, <3>1 DEF StepNames
    <3>3. f \in Surjection(1..l, all)
      BY <3>2 DEF Surjection
    <3>4. IsFiniteSet(1..l)
      BY FS_Interval
    <3> QED
      BY <3>3, <3>4, FS_Surjection
  <2>3. names \in Injection(1..n, all)
    <3>1. names \in [1..n -> all]
      BY <1>1, <2>1 DEF ToSet
    <3> QED
      BY <1>1, <3>1 DEF Injection
  <2>4. Cardinality(1..n) = n
    <3>1. n \in Nat /\ n \in Int /\ 1 \in Int
      BY <1>1
    <3>2. Cardinality(1..n) = IF 1 > n THEN 0 ELSE n - 1 + 1
      BY ONLY <3>1, FS_Interval
    <3> QED
      BY ONLY <3>1, <3>2
  <2> QED
    BY <2>1, <2>2, <2>3, <2>4, FS_Injection
<1> DEFINE all(f) == f = [k \in DOMAIN names |-> StepDirName(names[k], {f[j] : j \in 1..(k - 1)})]
<1>3. PICK dir : dir = CHOOSE f : all(f)
  OBVIOUS
<1>4. steps = [k \in DOMAIN names |->
                [name |-> names[k], dir |-> dir[k], nproc |-> ResolveNProc(Block(program, names[k]).nproc),
                 analyse |-> names[k] \in Analyses]]
  BY <1>1, <1>3 DEF ManifestSteps
<1>5. Naming(dir, names, n)
  <2>1. \A f : all(f) <=> Naming(f, names, n)
    BY <1>1 DEF Naming
  <2>2. \E f : all(f)
    <3>1. PICK f : Naming(f, names, n)
      BY <1>1, NamingExists
    <3>2. all(f)
      BY <2>1, <3>1
    <3> HIDE DEF all
    <3> QED
      BY <3>2
  <2> HIDE DEF all
  <2>3. all(dir)
    BY <1>3, <2>2
  <2> QED
    BY <2>1, <2>3
<1>6. ASSUME NEW k \in 1..n PROVE \A j \in 1..(k - 1) : dir[k] # dir[j]
  <2>1. PICK used : used = {dir[j] : j \in 1..(k - 1)}
    OBVIOUS
  <2>2. dir[k] = StepDirName(names[k], used)
    BY <1>5, <2>1 DEF Naming
  <2>3. IsFiniteSet(used) /\ Cardinality(used) <= k - 1
    <3> DEFINE f == [j \in 1..(k - 1) |-> dir[j]]
    <3>1. f \in Surjection(1..(k - 1), used)
      BY <2>1 DEF Surjection
    <3>2. IsFiniteSet(1..(k - 1)) /\ Cardinality(1..(k - 1)) = k - 1
      BY FS_Interval
    <3> HIDE DEF f
    <3> QED
      BY <3>1, <3>2, FS_Surjection
  <2>4. Cardinality(used) <= Cardinality(StepNames(program))
    <3>1. Cardinality(used) \in Nat /\ Cardinality(StepNames(program)) \in Nat
      BY <1>2, <2>3, FS_CardinalityType
    <3> QED
      BY <1>1, <1>2, <2>3, <3>1
  <2>5. names[k] \in StepNames(program)
    BY <1>1 DEF ToSet
  <2>6. dir[k] \notin used
    BY <1>2, <2>2, <2>3, <2>4, <2>5, FreeName
  <2> QED
    BY <2>1, <2>6
<1>7. \A k \in DOMAIN names : steps[k].name = names[k] /\ steps[k].dir = dir[k]
  BY <1>4
<1>8. ASSUME NEW j \in 1..n, NEW k \in 1..n, dir[j] = dir[k] PROVE j = k
  <2>1. j < k => j \in 1..(k - 1)
    OBVIOUS
  <2>2. k < j => k \in 1..(j - 1)
    OBVIOUS
  <2>3. ~(j < k) /\ ~(k < j)
    BY <1>6, <1>8, <2>1, <2>2
  <2> QED
    BY <1>1, <2>3
<1> QED
  BY <1>1, <1>4, <1>7, <1>8

-----------------------------------------------------------------------------
(***************************************************************************)
(* A manifest can be turned into a run.                                    *)
(***************************************************************************)
\* A dependency of a workpackage is in the plan with it.
LEMMA DependencyPlanned ==
  ASSUME NEW p, NEW work, InOrder(p, work), NEW k \in DOMAIN work, NEW d \in ToSet(work[k].parents)
  PROVE  \E v \in ToSet(work) : WorkId(v) = d
<1>1. DOMAIN work = 1..Len(work) /\ Len(work) \in Nat
  BY DEF InOrder
<1>2. PICK j \in 1..(k - 1) : WorkId(work[j]) = d
  BY DEF InOrder, AfterItsDependencies
<1>3. j \in DOMAIN work
  BY <1>1, <1>2
<1> QED
  BY <1>2, <1>3 DEF ToSet

\* The links of a workpackage name its dependencies.
LEMMA LinksAre ==
  ASSUME NEW deps, NEW links, links = Links(deps)
  PROVE  /\ DOMAIN links = DOMAIN deps
         /\ \A k \in DOMAIN deps : links[k].step = deps[k][1] /\ links[k].row = deps[k][2]
BY DEF Links

\* Two functions over the places of sequences, one after the other.
LEMMA EntriesAre ==
  ASSUME NEW w, NEW m \in Nat, DOMAIN w.deps = 1..m,
         NEW n \in Nat, DOMAIN Block(program, w.step).fsubs = 1..n, ~NamespaceError(w)
  PROVE  IsInjective(Entries(w))
<1>1. PICK links, subs : /\ links = [k \in DOMAIN w.deps |-> w.deps[k].link]
                         /\ subs = [k \in DOMAIN Block(program, w.step).fsubs |-> Block(program, w.step).fsubs[k].dest]
  OBVIOUS
<1>2. PICK e : e = Entries(w)
  OBVIOUS
<1>3. e = links \o subs
  BY <1>1, <1>2 DEF Entries
<1>4. links \in Seq(ToSet(links)) /\ subs \in Seq(ToSet(subs))
  <2>1. links = [k \in 1..m |-> links[k]] /\ subs = [k \in 1..n |-> subs[k]]
    BY <1>1
  <2>2. (\A k \in 1..m : links[k] \in ToSet(links)) /\ (\A k \in 1..n : subs[k] \in ToSet(subs))
    BY <1>1 DEF ToSet
  <2> QED
    BY <2>1, <2>2, ListedIn
<1>5. PICK l \in Nat : DOMAIN e = 1..l
  <2>1. e \in Seq(ToSet(links) \cup ToSet(subs))
    BY <1>3, <1>4
  <2> QED
    BY <2>1
<1>6. \A k \in 1..l : \A j \in 1..(k - 1) : e[j] # e[k]
  BY <1>2, <1>5 DEF NamespaceError
<1>7. ASSUME NEW j \in 1..l, NEW k \in 1..l, e[j] = e[k] PROVE j = k
  <2>1. (j < k => j \in 1..(k - 1)) /\ (k < j => k \in 1..(j - 1))
    OBVIOUS
  <2>2. ~(j < k) /\ ~(k < j)
    BY <1>6, <1>7, <2>1
  <2> QED
    BY <2>2
<1> QED
  BY <1>2, <1>5, <1>7 DEF IsInjective

\* Every work directory of a manifest without namespace errors can be made.
LEMMA ManifestCreatable ==
  ASSUME PlanInv, Listed, StepsPlanned, stage \in Late, TemplatesChecked, WorkNamed, ChosenKnown,
         NEW m, m = [steps |-> ManifestSteps(chosen), work |-> ManifestWork(chosen)],
         \A w \in ToSet(m.work) : ~NamespaceError(w)
  PROVE  Creatable(m)
<1>1. PICK work, names, steps : work = chosen.work /\ names = chosen.steps /\ steps = m.steps
  OBVIOUS
<1>2. program \in Program /\ InOrder(program, work) /\ names \in Seq(ToSet(names)) /\ IsInjective(names)
  BY <1>1 DEF PlanInv, Ordering, Listed, ChosenKnown
<1>3. ToSet(names) \subseteq StepNames(program)
  BY <1>1 DEF ChosenKnown, StepsPlanned
<1>4. /\ DOMAIN steps = DOMAIN names
      /\ \A k \in DOMAIN steps : steps[k].name = names[k]
      /\ \A j, k \in DOMAIN steps : steps[j].dir = steps[k].dir => j = k
  <2>1. steps = ManifestSteps(chosen)
    BY <1>1
  <2> QED
    BY <1>1, <1>2, <1>3, <2>1, DirectoriesDiffer
<1>5. PICK l \in Nat : DOMAIN work = 1..l
  <2>1. work \in Seq(ToSet(work))
    BY <1>2 DEF InOrder
  <2> QED
    BY <2>1
<1>6. PICK mw : mw = m.work
  OBVIOUS
<1>7. mw = [k \in 1..l |-> [step |-> work[k].step, row |-> work[k].row,
                            deps |-> Links(work[k].parents), values |-> work[k].values]]
  BY <1>1, <1>5, <1>6 DEF ManifestWork
<1>8. mw \in Seq(ToSet(mw)) /\ DOMAIN mw = 1..l
  <2>1. mw = [k \in 1..l |-> mw[k]] /\ DOMAIN mw = 1..l
    BY <1>7
  <2>2. \A k \in 1..l : mw[k] \in ToSet(mw)
    BY <2>1 DEF ToSet
  <2> QED
    BY <2>1, <2>2, ListedIn
<1>9. \A k \in 1..l : /\ mw[k].step = work[k].step /\ mw[k].row = work[k].row
                      /\ mw[k].deps = Links(work[k].parents) /\ mw[k].values = work[k].values
  BY <1>7
<1>10. ASSUME NEW v \in ToSet(work)
       PROVE  StepInManifest(m, v.step) /\ HasWork(m, v.step, v.row)
  <2>1. v.step \in ToSet(names)
    BY <1>1 DEF ChosenKnown
  <2>2. PICK k \in DOMAIN steps : steps[k].name = v.step
    BY <1>4, <2>1 DEF ToSet
  <2>3. StepInManifest(m, v.step)
    BY <1>1, <2>2 DEF StepInManifest, ToSet
  <2>4. PICK j \in 1..l : v = work[j]
    BY <1>5 DEF ToSet
  <2>5. mw[j] \in ToSet(mw) /\ mw[j].step = v.step /\ mw[j].row = v.row
    BY <1>8, <1>9, <2>4 DEF ToSet
  <2> QED
    BY <1>6, <2>3, <2>5 DEF HasWork
<1>11. ASSUME NEW w \in ToSet(mw) PROVE ~CannotPopulate(m, w)
  <2>1. PICK k \in 1..l : w = mw[k]
    BY <1>8 DEF ToSet
  <2>2. PICK x \in ToSet(work) : x = work[k]
    BY <1>5 DEF ToSet
  <2>3. w.step = x.step /\ w.row = x.row /\ w.deps = Links(x.parents) /\ w.values = x.values
    BY <1>9, <2>1, <2>2
  <2>4. StepInManifest(m, w.step)
    BY <1>10, <2>3
  <2>5. DOMAIN w.deps = DOMAIN x.parents
    BY <2>3, LinksAre
  <2>6. ASSUME NEW d \in ToSet(w.deps) PROVE StepInManifest(m, d.step) /\ HasWork(m, d.step, d.row)
    <3>1. PICK i \in DOMAIN x.parents : d = w.deps[i]
      BY <2>5 DEF ToSet
    <3>2. d.step = x.parents[i][1] /\ d.row = x.parents[i][2]
      BY <2>3, <3>1, LinksAre
    <3>3. PICK v \in ToSet(work) : WorkId(v) = x.parents[i]
      <4>1. x.parents[i] \in ToSet(work[k].parents)
        BY <2>2 DEF ToSet
      <4> QED
        BY <1>2, <1>5, <4>1, DependencyPlanned
    <3>4. v.step = d.step /\ v.row = d.row
      BY <3>2, <3>3 DEF WorkId
    <3> QED
      BY <1>10, <3>4
  <2>7. PICK b \in ToSet(program) : b = Block(program, w.step) /\ b.name = w.step
    <3>1. w.step \in StepNames(program)
      BY <1>2, <1>5, <2>2, <2>3 DEF InOrder
    <3> QED
      BY <1>2, <3>1, BlockIs
  <2>8. IsInjective(Entries(w))
    <3>1. PICK i \in Nat : DOMAIN w.deps = 1..i
      <4>1. DOMAIN x.parents = DOMAIN Unique(Block(program, x.step).after)
        <5>1. [j \in DOMAIN x.parents |-> x.parents[j][1]] = Unique(Block(program, x.step).after)
          BY <1>2, <1>5, <2>2 DEF InOrder, AfterItsDependencies
        <5> QED
          BY <5>1
      <4>2. PICK deps : deps = Unique(Block(program, x.step).after)
        OBVIOUS
      <4>3. deps \in Seq(ToSet(deps))
        <5>1. Block(program, x.step).after \in Seq(ToSet(Block(program, x.step).after))
          BY <1>2, <2>3, <2>7, ProgramAssumption
        <5>2. deps \in Seq(ToSet(Block(program, x.step).after))
          BY <4>2, <5>1, UniqueIs
        <5> QED
          BY <4>2, <5>1, UniqueIs
      <4> QED
        BY <2>5, <4>1, <4>2, <4>3
    <3>2. PICK j \in Nat : DOMAIN b.fsubs = 1..j
      <4>1. b.fsubs \in Seq(ToSet(b.fsubs))
        BY <1>2, ProgramAssumption
      <4> QED
        BY <4>1
    <3>3. ~NamespaceError(w)
      BY <1>6
    <3> QED
      BY <2>7, <3>1, <3>2, <3>3, EntriesAre
  <2>9. \A f \in ToSet(b.fsubs) : f.refs \subseteq DOMAIN w.values
    <3>1. PICK c \in DOMAIN program : b = program[c]
      BY DEF ToSet
    <3>3. \A f \in ToSet(b.fsubs) : f.refs \subseteq DOMAIN scopes[b.name].effective
      BY <3>1 DEF TemplatesChecked, RefsSeen
    <3>4. DOMAIN w.values = DOMAIN scopes[w.step].effective
      BY <1>1, <2>3 DEF WorkNamed, ChosenKnown
    <3> QED
      BY <2>7, <3>3, <3>4
  <2> QED
    BY <2>4, <2>6, <2>7, <2>8, <2>9 DEF CannotPopulate
<1>12. ASSUME NEW v \in ToSet(mw), NEW w \in ToSet(mw), Place(m, v.step, v.row) = Place(m, w.step, w.row)
       PROVE  v = w
  <2>1. PICK i, j : i \in 1..l /\ j \in 1..l /\ v = mw[i] /\ w = mw[j]
    BY <1>8 DEF ToSet
  <2>2. /\ work[i] \in ToSet(work) /\ v.step = work[i].step /\ v.row = work[i].row
        /\ work[j] \in ToSet(work) /\ w.step = work[j].step /\ w.row = work[j].row
    BY <1>5, <1>9, <2>1 DEF ToSet
  <2>3. PICK s \in ToSet(steps) : s = CHOOSE x \in ToSet(m.steps) : x.name = v.step
    <3>1. StepInManifest(m, v.step)
      BY <1>10, <2>2
    <3> QED
      BY <1>1, <3>1 DEF StepInManifest
  <2>4. PICK t \in ToSet(steps) : t = CHOOSE x \in ToSet(m.steps) : x.name = w.step
    <3>1. StepInManifest(m, w.step)
      BY <1>10, <2>2
    <3> QED
      BY <1>1, <3>1 DEF StepInManifest
  <2>5. s.name = v.step /\ t.name = w.step
    <3>1. StepInManifest(m, v.step) /\ StepInManifest(m, w.step)
      BY <1>10, <2>2
    <3> QED
      BY <1>1, <2>3, <2>4, <3>1 DEF StepInManifest
  <2>6. s.dir = t.dir /\ v.row = w.row
    BY <1>12, <2>3, <2>4 DEF Place
  <2>7. s = t
    BY <1>4, <2>6 DEF ToSet
  <2>8. WorkId(work[i]) = WorkId(work[j])
    BY <2>2, <2>5, <2>6, <2>7 DEF WorkId
  <2>9. i = j
    <3>1. \A k \in 1..l : \A h \in 1..(k - 1) : WorkId(work[h]) # WorkId(work[k])
      BY <1>2, <1>5 DEF InOrder, AfterItsDependencies
    <3>2. (i < j => i \in 1..(j - 1)) /\ (j < i => j \in 1..(i - 1))
      BY <2>1
    <3>3. ~(i < j) /\ ~(j < i)
      BY <2>1, <2>8, <3>1, <3>2
    <3> QED
      BY <1>5, <2>1, <3>3
  <2> QED
    BY <2>1, <2>9
<1> QED
  BY <1>6, <1>8, <1>11, <1>12, PopulatesIs DEF Creatable, CreatableOf

-----------------------------------------------------------------------------
(***************************************************************************)
(* Every step keeps the invariant.                                         *)
(***************************************************************************)
\* A step that leaves the plans alone.
LEMMA CreateStays ==
  ASSUME CreateInv, UNCHANGED <<states, plan, chosen>>, made' \in Nat, stage' # "broken",
         \/ stage' \notin {"build"} \cup Late
         \/ UNCHANGED <<program, scopes>> /\ stage' = stage /\ UNCHANGED manifest
         \/ UNCHANGED <<program, scopes>> /\ stage = "select" /\ stage' = "selected"
         \/ UNCHANGED <<program, scopes>> /\ stage = "limit" /\ stage' \in {"keep", "name"}
         \/ UNCHANGED <<program, scopes>> /\ stage = "create" /\ stage' = "created"
  PROVE  CreateInv'
<1>1. CASE stage' \notin {"build"} \cup Late
  BY <1>1 DEF CreateInv, Late
<1>2. CASE UNCHANGED <<program, scopes>>
  <2>1. TemplatesChecked => TemplatesChecked'
    BY <1>2 DEF TemplatesChecked
  <2>2. WorkNamed => WorkNamed'
    BY <1>2 DEF WorkNamed
  <2>3. ChosenKnown => ChosenKnown'
    BY DEF ChosenKnown
  <2>4. UNCHANGED manifest /\ Creatable(manifest) => Creatable(manifest)'
    BY <1>2 DEF Creatable
  <2> QED
    BY <2>1, <2>2, <2>3, <2>4 DEF CreateInv, Late
<1> QED
  BY <1>1, <1>2

\* The front end lets through no bad template.
LEMMA FrontCreate ==
  ASSUME CreateInv, ScopesNext, UNCHANGED <<workVars, manifest, made>>
  PROVE  CreateInv'
<1>0. UNCHANGED <<states, plan, chosen, manifest, made>> /\ made' \in Nat
  BY DEF workVars, CreateInv
<1>1. CASE stage' \notin {"build"} \cup Late
  <2>1. stage' # "broken"
    BY DEF CreateInv, ScopesNext, ValidateSteps, Visit, Visited, Ordered, PlanStep, Accept
  <2> QED
    BY <1>0, <1>1, <2>1, CreateStays
<1>2. CASE stage' \in {"build"} \cup Late
  <2>1. Accept /\ stage' = "build" /\ errors' = {} /\ UNCHANGED <<program, scopes>>
    BY <1>2 DEF ScopesNext, ValidateSteps, Visit, Visited, Ordered, PlanStep, Accept, Late
  <2>2. \A k \in DOMAIN program : FSubErrors(program[k]) = {}
    BY <2>1 DEF Accept
  <2>3. TemplatesChecked'
    <3>1. ASSUME NEW k \in DOMAIN program, NEW f \in ToSet(program[k].fsubs)
          PROVE  f.refs \subseteq DOMAIN scopes[program[k].name].effective
      <4>1. FSubErrors(program[k]) = {}
        BY <2>2
      <4> QED
        BY <4>1 DEF FSubErrors
    <3>2. TemplatesChecked
      BY <3>1 DEF TemplatesChecked, RefsSeen
    <3> QED
      BY <2>1, <3>2 DEF TemplatesChecked
  <2> QED
    BY <1>0, <2>1, <2>3 DEF CreateInv, Late
<1> QED
  BY <1>1, <1>2

\* What is picked from distinct elements are distinct elements.
LEMMA PickedDistinct ==
  ASSUME NEW s, s \in Seq(ToSet(s)), IsInjective(s), NEW places
  PROVE  IsInjective(Picked(s, places))
<1>1. PICK t : t = Picked(s, places)
  OBVIOUS
<1>2. PICK at : PickedAt(at, s, places, t)
  BY <1>1, PickedPlaces
<1>3. DOMAIN t = 1..Len(t) /\ Len(t) \in Nat /\ DOMAIN s \subseteq Nat
  BY <1>1, PickedPlaces
<1>4. ASSUME NEW j \in 1..Len(t), NEW k \in 1..Len(t), t[j] = t[k] PROVE j = k
  <2>1. at[j] \in DOMAIN s /\ at[k] \in DOMAIN s /\ s[at[j]] = s[at[k]]
    BY <1>2, <1>4 DEF PickedAt
  <2>2. at[j] = at[k] /\ at[j] \in Nat
    BY <1>3, <2>1 DEF IsInjective
  <2>3. (j < k => at[j] < at[k]) /\ (k < j => at[k] < at[j])
    BY <1>2 DEF PickedAt
  <2> QED
    BY <1>3, <2>2, <2>3
<1> QED
  BY <1>1, <1>3, <1>4 DEF IsInjective

\* A component has the steps of its work.
LEMMA SelectCreate ==
  ASSUME PlanInv, Listed, LimitInv, CreateInv, SelectComponent, UNCHANGED <<manifest, made>>
  PROVE  CreateInv'
<1>1. /\ stage = "selected" /\ stage' \in {"limit", "failed"}
      /\ UNCHANGED <<program, scopes, states, plan>>
  BY DEF SelectComponent
<1>2. PICK keep : keep = IF component' = {"*"} THEN StepNames(program) ELSE Required(component')
  OBVIOUS
<1>3. PICK work, steps : work = plan.work /\ steps = plan.steps
  OBVIOUS
<1>4. PICK wp, sp : wp = {k \in DOMAIN work : work[k].step \in keep} /\ sp = {k \in DOMAIN steps : steps[k] \in keep}
  OBVIOUS
<1>5. chosen'.work = Picked(work, wp) /\ chosen'.steps = Picked(steps, sp)
  BY <1>2, <1>3, <1>4 DEF SelectComponent, Filter, Select
<1>6. work \in Seq(ToSet(work)) /\ steps \in Seq(ToSet(steps)) /\ IsInjective(steps) /\ ToSet(steps) = DOMAIN states
  BY <1>3 DEF PlanInv, InOrder, Listed, LimitInv, StepsPlanned
<1>7. ToSet(chosen'.work) = {work[k] : k \in wp \cap DOMAIN work}
  BY <1>5, <1>6, PickedElements
<1>8. ToSet(chosen'.steps) = {steps[k] : k \in sp \cap DOMAIN steps} /\ IsInjective(chosen'.steps)
  BY <1>5, <1>6, PickedElements, PickedDistinct
<1>9. ASSUME NEW w \in ToSet(chosen'.work) PROVE w.step \in ToSet(chosen'.steps)
  <2>1. w \in ToSet(work) /\ w.step \in keep
    BY <1>4, <1>7, <1>9 DEF ToSet
  <2>2. w.step \in DOMAIN states
    BY <1>3, <2>1 DEF PlanInv, StatesAreWork
  <2>3. PICK k \in DOMAIN steps : steps[k] = w.step
    BY <1>6, <2>2 DEF ToSet
  <2> QED
    BY <1>4, <1>8, <2>1, <2>3
<1>10. ChosenKnown'
  <2>1. ToSet(chosen'.steps) \subseteq ToSet(steps)
    BY <1>8 DEF ToSet
  <2>2. ToSet(chosen'.work) \subseteq ToSet(work)
    BY <1>7 DEF ToSet
  <2> QED
    BY <1>1, <1>3, <1>6, <1>8, <1>9, <2>1, <2>2 DEF ChosenKnown
<1>11. TemplatesChecked /\ WorkNamed
  BY <1>1 DEF CreateInv, Late
<1>12. TemplatesChecked' /\ WorkNamed'
  BY <1>1, <1>11 DEF TemplatesChecked, WorkNamed
<1> QED
  BY <1>1, <1>10, <1>12 DEF CreateInv, Late

\* A component within its limit has the steps of its work.
LEMMA KeptCreate ==
  ASSUME PlanInv, Listed, CreateInv, KeepWork, UNCHANGED <<manifest, made>>
  PROVE  CreateInv'
<1>1. /\ stage = "keep" /\ stage' = "name"
      /\ UNCHANGED <<program, scopes, states, plan>>
  BY DEF KeepWork
<1>2. PICK ts : ts = LimitTargets(chosen, Analyses)
  OBVIOUS
<1>3. PICK work, steps : work = chosen.work /\ steps = chosen.steps
  OBVIOUS
<1>4. PICK wp, sp : /\ wp = {k \in DOMAIN work : WorkId(work[k]) \in kept}
                    /\ sp = {k \in DOMAIN steps : Contains(ts, steps[k]) \/ \E id \in kept : id[1] = steps[k]}
  OBVIOUS
<1>5. chosen'.work = Picked(work, wp) /\ chosen'.steps = Picked(steps, sp)
  BY <1>2, <1>3, <1>4 DEF KeepWork, Limited, Select
<1>6. /\ work \in Seq(ToSet(work)) /\ steps \in Seq(ToSet(steps)) /\ IsInjective(steps)
      /\ ToSet(steps) \subseteq DOMAIN states /\ ToSet(work) \subseteq ToSet(plan.work)
      /\ \A w \in ToSet(work) : w.step \in ToSet(steps)
  BY <1>1, <1>3 DEF PlanInv, InOrder, Listed, CreateInv, ChosenKnown
<1>7. ToSet(chosen'.work) = {work[k] : k \in wp \cap DOMAIN work}
  BY <1>5, <1>6, PickedElements
<1>8. ToSet(chosen'.steps) = {steps[k] : k \in sp \cap DOMAIN steps} /\ IsInjective(chosen'.steps)
  BY <1>5, <1>6, PickedElements, PickedDistinct
<1>9. ASSUME NEW w \in ToSet(chosen'.work) PROVE w.step \in ToSet(chosen'.steps)
  <2>1. w \in ToSet(work) /\ WorkId(w) \in kept
    BY <1>4, <1>7, <1>9 DEF ToSet
  <2>2. PICK k \in DOMAIN steps : steps[k] = w.step
    BY <1>6, <2>1 DEF ToSet
  <2>3. WorkId(w)[1] = steps[k]
    BY <2>2 DEF WorkId
  <2> QED
    BY <1>4, <1>8, <2>1, <2>2, <2>3
<1>10. ChosenKnown'
  <2>1. ToSet(chosen'.steps) \subseteq ToSet(steps)
    BY <1>8 DEF ToSet
  <2>2. ToSet(chosen'.work) \subseteq ToSet(work)
    BY <1>7 DEF ToSet
  <2> QED
    BY <1>1, <1>3, <1>6, <1>8, <1>9, <2>1, <2>2 DEF ChosenKnown
<1>11. TemplatesChecked /\ WorkNamed
  BY <1>1 DEF CreateInv, Late
<1>12. TemplatesChecked' /\ WorkNamed'
  BY <1>1, <1>11 DEF TemplatesChecked, WorkNamed
<1> QED
  BY <1>1, <1>10, <1>12 DEF CreateInv, Late

\* A manifest is made.
LEMMA ManifestCreate ==
  ASSUME PlanInv, Listed, LimitInv, CreateInv, MakeManifest
  PROVE  CreateInv'
<1>1. stage = "name" /\ stage' \in {"create", "failed"} /\ UNCHANGED <<program, scopes, states, plan, chosen, made>>
  BY DEF MakeManifest, plannedVars, workVars
<1>2. made' \in Nat
  BY <1>1 DEF CreateInv
<1>3. CASE stage' = "failed"
  BY <1>1, <1>2, <1>3, CreateStays DEF Late
<1>4. CASE stage' = "create"
  <2>1. PICK m : m = manifest'
    OBVIOUS
  <2>2. m = [steps |-> ManifestSteps(chosen), work |-> ManifestWork(chosen)]
    BY <2>1 DEF MakeManifest
  <2>3. \A w \in ToSet(m.work) : ~NamespaceError(w)
    BY <1>4, <2>1 DEF MakeManifest
  <2>4. stage \in Late /\ TemplatesChecked /\ WorkNamed /\ ChosenKnown /\ StepsPlanned
    BY <1>1 DEF CreateInv, Late, LimitInv
  <2>5. Creatable(m)
    BY <2>2, <2>3, <2>4, ManifestCreatable
  <2>6. Creatable(manifest)'
    BY <1>1, <2>1, <2>5 DEF Creatable
  <2>7. TemplatesChecked' /\ WorkNamed'
    BY <1>1, <2>4 DEF TemplatesChecked, WorkNamed
  <2> QED
    BY <1>2, <1>4, <2>6, <2>7 DEF CreateInv, Late
<1> QED
  BY <1>1, <1>3, <1>4

\* A work directory is made, or all are.
LEMMA PopulateCreate ==
  ASSUME CreateInv, PopulateWork \/ Publish
  PROVE  CreateInv'
<1>1. stage = "create" /\ UNCHANGED <<program, scopes, states, plan, chosen, manifest>>
  BY DEF PopulateWork, Publish, plannedVars, workVars
<1>2. CASE PopulateWork
  <2>1. made \in Nat /\ made < Len(manifest.work)
    BY <1>2 DEF PopulateWork, CreateInv
  <2>2. PICK work : work = manifest.work /\ work \in Seq(ToSet(work))
    BY <1>1 DEF CreateInv, Creatable, CreatableOf
  <2>3. made + 1 \in DOMAIN work
    BY <2>1, <2>2
  <2>4. ~CannotPopulate(manifest, manifest.work[made + 1])
    BY <1>1, <2>2, <2>3, PopulatesIs DEF CreateInv, Creatable, CreatableOf, ToSet
  <2>5. made' = made + 1 /\ UNCHANGED stage
    BY <1>2, <2>4 DEF PopulateWork
  <2>6. made' \in Nat
    BY <2>1, <2>5
  <2> QED
    BY <1>1, <2>5, <2>6, CreateStays
<1>3. CASE Publish
  BY <1>1, <1>3, CreateStays DEF Publish, CreateInv
<1> QED
  BY <1>2, <1>3

\* Every step keeps the invariant.
LEMMA CreateKeeps ==
  ASSUME PlanInv, MeaningInv, Listed, LimitInv, CreateInv, [Next]_vars
  PROVE  CreateInv'
<1>0. made \in Nat
  BY DEF CreateInv
<1>1. CASE PlanningNext
  <2>1. CASE ScopesNext /\ UNCHANGED <<workVars, manifest, made>>
    BY <2>1, FrontCreate
  <2>2. CASE (InheritParentStates \/ ExpandStep) /\ UNCHANGED <<manifest, made>>
    BY <1>0, <2>2, CreateStays DEF InheritParentStates, ExpandStep
  <2>3. CASE BuildStep /\ UNCHANGED <<manifest, made>>
    <3>1. stage = "build" /\ stage' = "build" /\ UNCHANGED <<program, scopes>>
      BY <2>3 DEF BuildStep
    <3>2. TemplatesChecked'
      BY <3>1 DEF CreateInv, TemplatesChecked
    <3> QED
      BY <1>0, <2>3, <3>1, <3>2 DEF CreateInv, Late
  <2>4. CASE Built /\ UNCHANGED <<manifest, made>>
    <3>1. stage = "build" /\ stage' \in {"select", "failed"} /\ UNCHANGED <<program, scopes, states, plan, chosen>>
      BY <2>4 DEF Built
    <3>2. CASE stage' = "failed"
      BY <1>0, <2>4, <3>1, <3>2, CreateStays DEF Late
    <3>3. CASE stage' = "select"
      <4>1. TemplatesChecked /\ WorkNamed
        BY <3>1 DEF CreateInv, WorkNamed, MeaningInv, StatesSound, StateSound
      <4>2. TemplatesChecked' /\ WorkNamed'
        BY <3>1, <4>1 DEF TemplatesChecked, WorkNamed
      <4> QED
        BY <1>0, <2>4, <3>3, <4>2 DEF CreateInv, Late
    <3> QED
      BY <3>1, <3>2, <3>3
  <2>5. CASE SelectComponent /\ UNCHANGED <<manifest, made>>
    BY <2>5, SelectCreate
  <2>6. CASE ApplyLimit /\ UNCHANGED <<manifest, made>>
    BY <1>0, <2>6, CreateStays DEF ApplyLimit
  <2>7. CASE KeepAncestors /\ UNCHANGED <<manifest, made>>
    <3>1. PICK work : work = chosen.work
      OBVIOUS
    <3>2. InOrder(program, work)
      BY <3>1 DEF PlanInv
    <3>3. Needed \subseteq {WorkId(w) : w \in ToSet(work)}
      <4>1. ASSUME NEW id \in Needed PROVE \E v \in ToSet(work) : WorkId(v) = id
        <5>1. PICK w \in ToSet(work) : id \in ToSet(w.parents)
          BY <3>1, <4>1 DEF Needed
        <5>2. PICK k \in DOMAIN work : w = work[k]
          BY DEF ToSet
        <5> QED
          BY <3>2, <5>1, <5>2, DependencyPlanned
      <4> QED
        BY <4>1
    <3>4. UNCHANGED <<program, scopes, states, plan, chosen, stage>>
      BY <2>7, <3>1, <3>3 DEF KeepAncestors
    <3> QED
      BY <1>0, <2>7, <3>4, CreateStays DEF CreateInv
  <2>8. CASE KeepWork /\ UNCHANGED <<manifest, made>>
    BY <2>8, KeptCreate
  <2>9. CASE MakeManifest
    BY <2>9, ManifestCreate
  <2>10. CASE PopulateWork \/ Publish
    BY <2>10, PopulateCreate
  <2> QED
    BY <1>1, <2>1, <2>2, <2>3, <2>4, <2>5, <2>6, <2>7, <2>8, <2>9, <2>10 DEF PlanningNext, PlanNext
<1>2. CASE PlanAnalyses
  <2>1. /\ stage = "select" /\ stage' \in {"selected", "failed"}
        /\ UNCHANGED <<program, scopes, states, plan, chosen, manifest, made>>
    BY <1>2 DEF PlanAnalyses
  <2> QED
    BY <1>0, <2>1, CreateStays DEF Late
<1>3. CASE Execute \/ AnalyseCSV \/ AnalyseSQLite \/ AnalyseFails \/ AnalyseEnds \/ Close \/ Killed
  <2>1. UNCHANGED <<states, plan, chosen, made>>
    BY <1>3 DEF Execute, AnalyseCSV, AnalyseSQLite, AnalyseFails, AnalyseEnds, Close, Killed,
                madeVars, plannedVars, workVars
  <2>2. stage' \notin {"build", "broken"} \cup Late
    BY <1>3 DEF Execute, AnalyseCSV, AnalyseSQLite, AnalyseFails, AnalyseEnds, Close, Killed, Late
  <2> QED
    BY <1>0, <2>1, <2>2, CreateStays
<1>4. CASE UNCHANGED vars
  <2>1. UNCHANGED <<program, scopes, states, plan, chosen, made, manifest, stage>>
    BY <1>4 DEF vars, madeVars, plannedVars, workVars
  <2> QED
    BY <1>0, <2>1, CreateStays DEF CreateInv
<1> QED
  BY <1>1, <1>2, <1>3, <1>4 DEF Next

\* Initially nothing is made.
LEMMA CreateInitially ==
  ASSUME Init
  PROVE  CreateInv
<1>1. stage = "check" /\ made = 0
  BY DEF Init, PlanningInit, ScopesInit
<1> QED
  BY <1>1 DEF CreateInv, Late

-----------------------------------------------------------------------------
\* Whatever populateRunTree and applyWorkLimit could trip over planning has
\* ruled out, and no two workpackages have one work directory (stepDirName,
\* validateWorkDirNamespaces, validateFileSubstitutions).
THEOREM RunsCanBeCreated == Spec => []CreationCannotFail
<1>1. Init => PlanInv /\ MeaningInv /\ Listed /\ LimitInv /\ CreateInv
  BY PlanInitially, MeaningInitially, NothingListed, LimitInitially, CreateInitially
<1>2. (PlanInv /\ MeaningInv /\ Listed /\ LimitInv /\ CreateInv) /\ [Next]_vars
        => (PlanInv /\ MeaningInv /\ Listed /\ LimitInv /\ CreateInv)'
  <2> SUFFICES ASSUME PlanInv, MeaningInv, Listed, LimitInv, CreateInv, [Next]_vars
               PROVE  (PlanInv /\ MeaningInv /\ Listed /\ LimitInv /\ CreateInv)'
    OBVIOUS
  <2>1. PlanInv' /\ MeaningInv' /\ Listed' /\ CreateInv'
    BY PlanKeeps, MeaningKeeps, ListedKept, CreateKeeps
  <2>2. OrderSound /\ OrderSound'
    BY <2>1 DEF MeaningInv
  <2> QED
    BY <2>1, <2>2, LimitInvKeeps
<1>3. CreateInv => CreationCannotFail
  BY DEF CreateInv, Creatable, CreatableOf, CreationCannotFail
<1> QED
  BY <1>1, <1>2, <1>3, PTL DEF Spec
=============================================================================
