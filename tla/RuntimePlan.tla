----------------------------- MODULE RuntimePlan -----------------------------
(***************************************************************************)
(* The plan of a component is turned into a manifest, and the manifest     *)
(* into a run directory (run/plan.go, paths.go, workdir_namespace.go,      *)
(* store.go): every step and every dependency gets a name in the file      *)
(* system, and creating the run relies on what planning has established.   *)
(***************************************************************************)
EXTENDS WorkPlan

CONSTANTS
  Safe,        \* [step name -> what is left of it as a path component]
  Available    \* the processors of the machine, for an nproc of 0

VARIABLES
  manifest,    \* [steps, work] as it is stored
  made         \* how many work directories have been created

workVars == <<states, growing, part, plan, component, analysed, limit, kept, chosen>>
plannedVars == <<program, scopes, errors, order, walk, workVars>>

NoManifest == [steps |-> <<>>, work |-> <<>>]

\* What stepDirName makes of a name, and with a number to tell it apart.
DirBase(name) ==
  IF Safe[name] = "" THEN "step"
  ELSE IF Safe[name] \in {"status", "manifest.json"} THEN Safe[name] \o "__step"
  ELSE Safe[name]

NumberedName(base, i) == IF i = 0 THEN base ELSE base \o "__" \o ToString(i)

\* Numbers tell the directories of steps with one base apart.
ASSUME NumberAssumption ==
  \A p \in Program : \A name \in StepNames(p) : \A i, j \in 0..Cardinality(StepNames(p)) :
    NumberedName(DirBase(name), i) = NumberedName(DirBase(name), j) => i = j

StepDirNameOnceBug(name, used) == NumberedName(DirBase(name), IF DirBase(name) \in used THEN 1 ELSE 0)

\* stepDirName: the first of base, base__1, base__2, ... that is free.
StepDirName(name, used) ==
  LET free == {i \in 0..Cardinality(used) : NumberedName(DirBase(name), i) \notin used}
  IN NumberedName(DirBase(name), CHOOSE i \in free : \A j \in free : i <= j)

\* resolveNProc, for values that validation has let through.
ResolveNProc(n) == IF n = 0 THEN Available ELSE n

ManifestSteps(p) ==
  LET dir[k \in DOMAIN p.steps] == StepDirName(p.steps[k], {dir[j] : j \in 1..(k - 1)})
  IN [k \in DOMAIN p.steps |->
       [name |-> p.steps[k], dir |-> dir[k], nproc |-> ResolveNProc(Block(program, p.steps[k]).nproc),
        analyse |-> p.steps[k] \in Analyses]]

\* A dependency is a link to its work directory, named after its step.
Links(deps) ==
  LET name(k) == IF Safe[deps[k][1]] = "" THEN "dep" ELSE Safe[deps[k][1]]
      link[k \in DOMAIN deps] ==
        IF \E j \in 1..(k - 1) : link[j] = name(k)
        THEN "dep_" \o ToString(k - 1) \o "_" \o name(k) ELSE name(k)
  IN [k \in DOMAIN deps |-> [step |-> deps[k][1], row |-> deps[k][2], link |-> link[k]]]

ManifestWork(p) ==
  [k \in DOMAIN p.work |->
    [step |-> p.work[k].step, row |-> p.work[k].row,
     deps |-> Links(p.work[k].parents), values |-> p.work[k].values]]

\* What jbs puts into a work directory besides its own files.
Entries(w) ==
  [k \in DOMAIN w.deps |-> w.deps[k].link]
  \o [k \in DOMAIN Block(program, w.step).fsubs |-> Block(program, w.step).fsubs[k].dest]

\* validateWorkDirNamespaces, one work directory.
NamespaceError(w) ==
  \E k \in DOMAIN Entries(w) :
    \/ Entries(w)[k] \in WorkFiles \cup {""}
    \/ \E j \in 1..(k - 1) : Entries(w)[j] = Entries(w)[k]

\* buildComponentRuntimePlan, after the limit.
MakeManifest ==
  /\ stage = "name"
  /\ manifest' = [steps |-> ManifestSteps(chosen), work |-> ManifestWork(chosen)]
  /\ stage' = IF \E w \in ToSet(manifest'.work) : NamespaceError(w) THEN "failed" ELSE "create"
  /\ UNCHANGED <<todo, plannedVars, made>>

-----------------------------------------------------------------------------
(***************************************************************************)
(* populateRunTree, one work directory: it has its place under the         *)
(* directory of its step, links to the directories of its dependencies,    *)
(* and the templates, in which variables are replaced by their values.     *)
(***************************************************************************)
Place(m, step, row) == <<(CHOOSE s \in ToSet(m.steps) : s.name = step).dir, row>>

HasWork(m, step, row) == \E w \in ToSet(m.work) : w.step = step /\ w.row = row

StepInManifest(m, step) == \E s \in ToSet(m.steps) : s.name = step

CannotPopulate(m, w) ==
  \/ ~StepInManifest(m, w.step)
  \/ \E d \in ToSet(w.deps) : ~StepInManifest(m, d.step) \/ ~HasWork(m, d.step, d.row)
  \/ ~IsInjective(Entries(w))
  \/ \E f \in ToSet(Block(program, w.step).fsubs) : ~(f.refs \subseteq DOMAIN w.values)

PopulateWork ==
  /\ stage = "create" /\ made < Len(manifest.work)
  /\ IF CannotPopulate(manifest, manifest.work[made + 1])
     THEN stage' = "broken" /\ UNCHANGED made
     ELSE made' = made + 1 /\ UNCHANGED stage
  /\ UNCHANGED <<todo, plannedVars, manifest>>

\* The staging directory is complete and gets its name.
Publish ==
  /\ stage = "create" /\ made = Len(manifest.work)
  /\ stage' = "created"
  /\ UNCHANGED <<todo, plannedVars, manifest, made>>

-----------------------------------------------------------------------------
PlanningInit ==
  /\ ScopesInit
  /\ PlanInit
  /\ manifest = NoManifest /\ made = 0

\* The analyses are planned (Analyse) before a component is selected.
PlanningNext ==
  \/ ScopesNext /\ UNCHANGED <<workVars, manifest, made>>
  \/ PlanNext /\ UNCHANGED <<manifest, made>>
  \/ MakeManifest
  \/ PopulateWork
  \/ Publish

-----------------------------------------------------------------------------
(***************************************************************************)
(* Properties.                                                             *)
(***************************************************************************)
Plans == {plan, chosen}

\* A workpackage has exactly one dependency for every step its own step names
\* in `after`, in that order, and each of them stands earlier in the plan, in
\* the plan of all steps as in that of a component: the scheduler starts work
\* by these dependencies and never looks for one that comes later.
DependenciesFirst ==
  \A p \in Plans : \A k \in DOMAIN p.work :
    LET w == p.work[k] IN
    /\ [j \in DOMAIN w.parents |-> w.parents[j][1]] = Unique(Block(program, w.step).after)
    /\ \A d \in ToSet(w.parents) : \E j \in 1..(k - 1) : WorkId(p.work[j]) = d
    /\ \A j \in 1..(k - 1) : WorkId(p.work[j]) # WorkId(w)

\* The value of a name is that of its column in every row the workpackage
\* stands for, and a step that imports more of a source its dependencies have
\* imported from stays within their rows, however they were combined: it never
\* pairs a column of one row with an inherited column of another.
RowsConsistent ==
  stage = "build" => \A w \in ToSet(plan.work) :
    LET eff == scopes[w.step].effective IN
    /\ \A c \in ToSet(w.rows) : c.rows # {} /\ \A n \in c.vars : \A r \in c.rows :
         eff[n].source = c.source /\ w.values[n] = Cell[c.source][r][eff[n].var].val
    /\ \A id \in ToSet(w.parents) : \A c \in ToSet(StatesOf(id[1])[id[2]].rows) :
         \A d \in ToSet(w.rows) : ~d.inherited /\ d.source = c.source => d.rows \subseteq c.rows

\* The rows of its source that are open to an import, given the dependencies.
Open(parents, e) ==
  {r \in DOMAIN Cell[e.source] :
     \A id \in parents : \A c \in ToSet(StatesOf(id[1])[id[2]].rows) :
       c.source = e.source => r \in c.rows}

\* The combinations of workpackages of the dependencies of a step that give
\* every name one value.
Combinations(name) ==
  LET deps == Unique(Block(program, name).after) IN
  {f \in [DOMAIN deps -> UNION {{WorkId(s) : s \in ToSet(states[d])} : d \in ToSet(deps)}] :
     /\ \A k \in DOMAIN deps : f[k][1] = deps[k]
     /\ \A j, k \in DOMAIN deps : Agree(states[f[j][1]][f[j][2]].values, states[f[k][1]][f[k][2]].values)}

\* Rows that are alike to an import have the same place in all its columns;
\* whoever imports a whole source tells all its rows apart.
Alike(name, e, r1, r2) ==
  LET whole == Block(program, name).with[e.item].columns = <<>> /\ Len(e.vars) = Len(Columns[e.source])
  IN \/ r1 = r2
     \/ ~whole /\ \A v \in ToSet(e.vars) : Cell[e.source][r1][v.var].key = Cell[e.source][r2][v.var].key

\* Nothing is lost and nothing is done twice: for every combination of
\* workpackages of its dependencies and every choice of one open row for each
\* of its imports a step has exactly one workpackage that stands for them, and
\* two choices share it just if their rows are alike ("duplicated values remain
\* when they come from distinct input positions", docs/help_do.md).
ExpansionComplete ==
  stage = "build" =>
    \A name \in DOMAIN states : \A ids \in Combinations(name) :
      LET exps == scopes[name].expansions
          own(w, k) == (CHOOSE c \in ToSet(w.rows) : ~c.inherited /\ c.item = exps[k].item).rows
          of == {w \in ToSet(states[name]) : w.parents = ids}
          open == [k \in DOMAIN exps |-> Open(ToSet(ids), exps[k])]
      IN
      /\ \A pick \in {f \in [DOMAIN exps -> UNION {open[k] : k \in DOMAIN exps}] :
                        \A k \in DOMAIN exps : f[k] \in open[k]} :
           Cardinality({w \in of : \A k \in DOMAIN exps : pick[k] \in own(w, k)}) = 1
      /\ \A w \in of : \A k \in DOMAIN exps : \A r1 \in own(w, k) : \A r2 \in open[k] :
           r2 \in own(w, k) <=> Alike(name, exps[k], r1, r2)

\* A name means one thing to a workpackage: what it means to each of its
\* dependencies, and what the step imports under this name.  The names a step
\* was checked to see are the names its workpackages have, and an accepted
\* import never clashes with a value.
VisibleNames ==
  /\ "choice disagrees" \notin errors
  /\ stage = "build" => \A w \in ToSet(plan.work) :
       /\ DOMAIN w.values = DOMAIN scopes[w.step].effective
       /\ \A id \in ToSet(w.parents) : \A n \in DOMAIN StatesOf(id[1])[id[2]].values :
            w.values[n] = StatesOf(id[1])[id[2]].values[n]
       /\ \A e \in ToSet(Resolved(Block(program, w.step))) : \A v \in ToSet(e.vars) :
            \E r \in DOMAIN Cell[e.source] : w.values[v.visible] = Cell[e.source][r][v.var].val

\* With a limit n a component keeps, of each of its targets, its n first
\* workpackages, and of any other step just what these need: whatever else is
\* kept is a dependency of something kept.
LimitMinimal ==
  stage \in {"name", "create", "created"} =>
    LET work == ToSet(chosen.work)
        targets == IF Analyses # {} THEN Analyses
                   ELSE {s \in StepNames(program) :
                          /\ component = {"*"} \/ s \in Required(component)
                          /\ \A t \in StepNames(program) : Edge(program, t, s) =>
                               component # {"*"} /\ t \notin Required(component)}
        of(t) == {w.row : w \in {w \in work : w.step = t}}
    IN
    /\ targets \subseteq ToSet(chosen.steps)
    /\ limit > 0 =>
         \A t \in targets : 1..Len(states[t]) \cap 1..limit \subseteq of(t)
    /\ \A w \in work : w.step \in targets =>
         limit = 0 \/ w.row <= limit \/ \E v \in work : WorkId(w) \in ToSet(v.parents)
    /\ limit > 0 => \A w \in work : w.step \notin targets =>
         \E v \in work : WorkId(w) \in ToSet(v.parents)

\* Planning has ruled out everything that creating a run could trip over, and
\* no two work directories have one place: a run directory is never given up
\* half way, and no workpackage writes to the files of another.
CreationCannotFail ==
  /\ stage # "broken"
  /\ stage = "create" =>
       \A v, w \in ToSet(manifest.work) :
         Place(manifest, v.step, v.row) = Place(manifest, w.step, w.row) => v = w

\* An accepted program can be planned ("overlapping imports from the same
\* source are tolerated", docs/help_do.md:52).
AcceptedBuilds == stage \in {"build", "select"} => errors = {}
=============================================================================
