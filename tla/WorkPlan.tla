------------------------------ MODULE WorkPlan ------------------------------
(***************************************************************************)
(* From scope plans to workpackages (workplan/build.go, filter.go,         *)
(* limit.go and planutil): every step is expanded, then a component keeps  *)
(* the steps it needs, and --limit the first branches of its targets.      *)
(*                                                                         *)
(* A state of a step is [values, rows, parents]: the values of its names,  *)
(* the rows of sources it stands for, and the workpackages it is combined  *)
(* from.  A workpackage is such a state with its step and its number in    *)
(* the step (from 1; the code counts from 0).                              *)
(***************************************************************************)
EXTENDS StepScopes

CONSTANTS
  Limits,      \* the values of --limit, 0 for none
  Selections   \* [targets, analysed]: a component, and the analysed steps

\* A limit is a positive number on the command line, or there is none.
ASSUME LimitsAssumption == Limits \subseteq Nat

VARIABLES
  states,      \* [step -> sequence of states], the steps built so far
  growing,     \* the states of the step that is being built
  part,        \* how many dependencies and imports they are made of so far
  plan,        \* [steps, work], the plan of all steps
  component,   \* the targets of the component; "*" for all steps
  analysed,    \* the steps that have an analyse block
  limit,
  kept,        \* the workpackages within the limit, as far as they are found
  chosen       \* [steps, work], the plan of the component

EmptyState == [values |-> <<>>, rows |-> <<>>, parents |-> <<>>]

WorkId(w) == <<w.step, w.row>>

\* One mapping with the values of two; where they meet they agree.
Joined(f, g) == [x \in DOMAIN f \cup DOMAIN g |-> IF x \in DOMAIN f THEN f[x] ELSE g[x]]

StatesOf(step) == IF step \in DOMAIN states THEN states[step] ELSE <<>>

Agree(v1, v2) == \A n \in DOMAIN v1 \cap DOMAIN v2 : v1[n] = v2[n]

\* Every state with each of the parts that go with it.
Combined(from, Parts(_), Merge(_, _)) ==
  FlattenSeq([k \in DOMAIN from |->
    LET good == Select(Parts(from[k]), LAMBDA x : Agree(from[k].values, x.values))
    IN [j \in DOMAIN good |-> Merge(from[k], good[j])]])

\* Some of these combinations is given up with an error.
Disagree(from, Parts(_)) ==
  \E k \in DOMAIN from : \E x \in ToSet(Parts(from[k])) : ~Agree(from[k].values, x.values)

\* The step that is being built.
Current == Block(program, Head(todo))
Expansions == scopes[Current.name].expansions

DependenciesRepeatingBug(b) == b.after

Dependencies(b) == Unique(b.after)

-----------------------------------------------------------------------------
(***************************************************************************)
(* inheritParentStates: one state for every combination of states of the   *)
(* dependencies whose values agree.  The rows the parents stand for bind   *)
(* what a source may add to the combination.                               *)
(***************************************************************************)
MergeLosingRowsBug(a, b) ==
  [values  |-> Joined(a.values, b.values), rows |-> a.rows,
   parents |-> Append(a.parents, WorkId(b))]

MergeParentStates(a, b) ==
  [values  |-> Joined(a.values, b.values),
   rows    |-> a.rows \o [k \in DOMAIN b.rows |-> [b.rows[k] EXCEPT !.inherited = TRUE]],
   parents |-> Append(a.parents, WorkId(b))]

InheritParentStates ==
  /\ stage = "build" /\ todo # <<>> /\ part < Len(Dependencies(Current))
  /\ LET added == StatesOf(Dependencies(Current)[part + 1]) IN
     /\ growing' = Combined(growing, LAMBDA a : added, MergeParentStates)
     /\ errors' = errors \cup (IF Disagree(growing, LAMBDA a : added) THEN {"parents disagree"} ELSE {})
  /\ part' = part + 1
  /\ UNCHANGED <<program, stage, todo, scopes, order, walk, states, plan, component, analysed, limit, kept, chosen>>

-----------------------------------------------------------------------------
(***************************************************************************)
(* buildChoices: the rows of a source that a state may be combined with,   *)
(* those alike in the imported columns taken together.                     *)
(***************************************************************************)
AllowedRows(st, e) ==
  LET bound == {c \in ToSet(st.rows) : c.source = e.source /\ c.inherited}
  IN Select([r \in DOMAIN Cell[e.source] |-> r], LAMBDA r : \A c \in bound : r \in c.rows)

\* Two rows with the same projection; a full import tells all rows apart.
SameRowByValueBug(e, r1, r2) ==
  r1 = r2 \/ \A v \in ToSet(e.vars) : Cell[e.source][r1][v.var].val = Cell[e.source][r2][v.var].val

SameRow(e, r1, r2) ==
  \/ r1 = r2
  \/ ~e.full /\ \A v \in ToSet(e.vars) : Cell[e.source][r1][v.var].key = Cell[e.source][r2][v.var].key

RowsLike(e, allowed, r) == {q \in ToSet(allowed) : SameRow(e, q, r)}

\* BuildProjectedRowGroups and the values of the first row of each group.
RowChoices(st, e) ==
  LET allowed == AllowedRows(st, e)
      reps == Select(allowed, LAMBDA r : \A q \in RowsLike(e, allowed, r) : r <= q)
  IN [k \in DOMAIN reps |->
       [values |-> [n \in Names(e.vars) |->
                     Cell[e.source][reps[k]][(CHOOSE v \in ToSet(e.vars) : v.visible = n).var].val],
        rows   |-> RowsLike(e, allowed, reps[k])]]

MergeWithChoice(st, e, c) ==
  [values  |-> Joined(st.values, c.values),
   rows    |-> Append(st.rows, [item |-> e.item, source |-> e.source, vars |-> Names(e.vars),
                                rows |-> c.rows, inherited |-> FALSE]),
   parents |-> st.parents]

\* expandStep, the next item.
ExpandStep ==
  /\ stage = "build" /\ todo # <<>>
  /\ part >= Len(Dependencies(Current)) /\ part < Len(Dependencies(Current)) + Len(Expansions)
  /\ LET e == Expansions[part + 1 - Len(Dependencies(Current))] IN
     /\ growing' = Combined(growing, LAMBDA st : RowChoices(st, e), LAMBDA st, c : MergeWithChoice(st, e, c))
     /\ errors' = errors \cup (IF Disagree(growing, LAMBDA st : RowChoices(st, e))
                              THEN {"choice disagrees"} ELSE {})
  /\ part' = part + 1
  /\ UNCHANGED <<program, stage, todo, scopes, order, walk, states, plan, component, analysed, limit, kept, chosen>>

-----------------------------------------------------------------------------
PlanInit ==
  /\ states = <<>>
  /\ growing = <<EmptyState>> /\ part = 0
  /\ plan = [steps |-> <<>>, work |-> <<>>]
  /\ component = {} /\ analysed = {} /\ limit = 0 /\ kept = {}
  /\ chosen = [steps |-> <<>>, work |-> <<>>]

\* Build: the states become the workpackages of the step.
BuildStep ==
  /\ stage = "build" /\ todo # <<>> /\ part = Len(Dependencies(Current)) + Len(Expansions)
  /\ LET name == Current.name
         built == [k \in DOMAIN growing |->
                    [step |-> name, row |-> k, values |-> growing[k].values, rows |-> growing[k].rows,
                     parents |-> growing[k].parents]]
     IN
     /\ states' = Updated(states, name, built)
     /\ plan' = [steps |-> Append(plan.steps, name), work |-> plan.work \o built]
  /\ growing' = <<EmptyState>> /\ part' = 0
  /\ todo' = Tail(todo)
  /\ UNCHANGED <<program, stage, scopes, errors, order, walk, component, analysed, limit, kept, chosen>>

\* A plan with errors is not run (command.go).
Built ==
  /\ stage = "build" /\ todo = <<>>
  /\ stage' = IF errors = {} THEN "select" ELSE "failed"
  /\ UNCHANGED <<program, todo, scopes, errors, order, walk, states, growing, part, plan, component, analysed,
                 limit, kept, chosen>>

-----------------------------------------------------------------------------
(***************************************************************************)
(* RequiredStepsForTargets and Filter.                                     *)
(***************************************************************************)
Required(targets) == targets \cup UNION {Ancestors(program, t) : t \in targets}

Filter(p, keep) ==
  [steps |-> Select(p.steps, LAMBDA s : s \in keep),
   work |-> Select(p.work, LAMBDA w : w.step \in keep)]

Dangling(p, keep) ==
  \E w \in ToSet(Filter(p, keep).work) : \E d \in ToSet(w.parents) : d[1] \notin keep

(***************************************************************************)
(* limitTargetSteps: the analysed steps of the component, or, if there are *)
(* none, the steps on which no other step of the plan depends.             *)
(***************************************************************************)
TerminalSteps(p) ==
  Select(p.steps, LAMBDA s : ~ \E t \in ToSet(p.steps) \ {s} : Contains(Block(program, t).after, s))

LimitTargets(p, analyses) ==
  IF analyses = {} THEN TerminalSteps(p) ELSE Select(p.steps, LAMBDA s : s \in analyses)

\* The first n workpackages of each target.
FirstBranches(p, n, targets) ==
  {WorkId(p.work[k]) : k \in {k \in DOMAIN p.work :
     /\ Contains(targets, p.work[k].step)
     /\ Cardinality({j \in 1..(k - 1) : p.work[j].step = p.work[k].step}) < n}}

LimitDroppingEmptyBug(p, ids, targets) ==
  [steps |-> Select(p.steps, LAMBDA s : \E id \in ids : id[1] = s),
   work |-> Select(p.work, LAMBDA w : WorkId(w) \in ids)]

\* filterPlanToKeptWork
Limited(p, ids, targets) ==
  [steps |-> Select(p.steps, LAMBDA s : Contains(targets, s) \/ \E id \in ids : id[1] = s),
   work |-> Select(p.work, LAMBDA w : WorkId(w) \in ids)]

\* The analyses of a component: those of its targets, not of what these need.
Analyses == IF component = {"*"} THEN analysed ELSE analysed \cap component

\* selectedWorkPlanForComponent; the front end has checked that targets exist.
SelectComponent ==
  /\ stage = "selected"
  /\ \E sel \in Selections :
       /\ sel.targets \subseteq {"*"} \cup StepNames(program) /\ sel.analysed = analysed
       /\ component' = sel.targets
  /\ LET keep == IF component' = {"*"} THEN StepNames(program) ELSE Required(component') IN
     /\ chosen' = Filter(plan, keep)
     /\ stage' = IF Dangling(plan, keep) THEN "failed" ELSE "limit"
  /\ UNCHANGED <<program, todo, scopes, errors, order, walk, states, growing, part, plan, analysed, limit, kept>>

\* applyWorkLimit; a limit of 0 is none.
ApplyLimit ==
  /\ stage = "limit"
  /\ limit' \in Limits
  /\ IF limit' > 0
     THEN stage' = "keep" /\ kept' = FirstBranches(chosen, limit', LimitTargets(chosen, Analyses))
     ELSE stage' = "name" /\ UNCHANGED kept
  /\ UNCHANGED <<program, todo, scopes, errors, order, walk, states, growing, part, plan, component, analysed, chosen>>

Needed == UNION {ToSet(w.parents) : w \in {w \in ToSet(chosen.work) : WorkId(w) \in kept}}

\* keepWithAncestors; a workpackage that depends on a missing one is an error.
KeepAncestors ==
  /\ stage = "keep" /\ ~(Needed \subseteq kept)
  /\ IF Needed \subseteq {WorkId(w) : w \in ToSet(chosen.work)}
     THEN kept' = kept \cup Needed /\ UNCHANGED stage
     ELSE stage' = "broken" /\ UNCHANGED kept
  /\ UNCHANGED <<program, todo, scopes, errors, order, walk, states, growing, part, plan, component, analysed, limit,
                 chosen>>

KeepWork ==
  /\ stage = "keep" /\ Needed \subseteq kept
  /\ chosen' = Limited(chosen, kept, LimitTargets(chosen, Analyses))
  /\ stage' = "name"
  /\ UNCHANGED <<program, todo, scopes, errors, order, walk, states, growing, part, plan, component, analysed, limit,
                 kept>>

PlanNext ==
  \/ InheritParentStates \/ ExpandStep \/ BuildStep \/ Built
  \/ SelectComponent
  \/ ApplyLimit \/ KeepAncestors \/ KeepWork
=============================================================================
