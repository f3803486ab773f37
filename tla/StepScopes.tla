----------------------------- MODULE StepScopes -----------------------------
(***************************************************************************)
(* What the steps of a program see (sema/steps_validate.go,                *)
(* with_resolver.go, steps_import_plan.go): the do blocks are checked, and *)
(* then, in dependency order, each step gets a scope plan: the names it    *)
(* inherits through `after`, the names its `with` clause adds, and what    *)
(* remains to be expanded to workpackages.                                 *)
(*                                                                         *)
(* A do block is a record [name, after, with, nproc, fsubs, scope]; scope  *)
(* gives the version of every global at the place of the block, since a    *)
(* global that is assigned twice has two versions; fsubs are the templates *)
(* to copy, [dest, refs] each.  An item of a `with` clause is              *)
(* [source, columns, alias]: <<>> stands for no projection, "" for no      *)
(* alias, and the source "" for an expression that is no name.             *)
(***************************************************************************)
EXTENDS Integers, Sequences, FiniteSets, SequencesExt

CONSTANTS
  Program,     \* the programs considered: sequences of do blocks
  Version,     \* the versions of globals
  Kind,        \* [Version -> {"series", "table", "function"}]
  Columns,     \* [Version -> sequence of the variables of the source]
  Cell,        \* [Version -> sequence of rows: [variable -> [val, key]]]
  Reserved,    \* names that jbs exports itself
  NotAName,    \* aliases that are no shell variables
  WorkFiles    \* the files jbs writes to every work directory

\* A cell knows the position it comes from (its projection key); a product of
\* tables repeats cells, and cells with one key have one value.
ASSUME CellAssumption ==
  \A s \in Version :
    /\ Columns[s] \in Seq(ToSet(Columns[s]))
    /\ Cell[s] \in Seq(ToSet(Cell[s]))
    /\ \A r1, r2 \in DOMAIN Cell[s] : \A v \in ToSet(Columns[s]) :
         Cell[s][r1][v].key = Cell[s][r2][v].key => Cell[s][r1][v].val = Cell[s][r2][v].val

\* A program, what a block names in `after`, its `with` clause, the columns in
\* it and the templates are sequences; a global in scope has a version.
ASSUME ProgramAssumption ==
  \A p \in Program :
    /\ p \in Seq(ToSet(p))
    /\ \A b \in ToSet(p) :
         /\ b.after \in Seq(ToSet(b.after)) /\ b.with \in Seq(ToSet(b.with))
         /\ b.fsubs \in Seq(ToSet(b.fsubs))
         /\ \A item \in ToSet(b.with) : item.columns \in Seq(ToSet(item.columns))
         /\ b.scope \in [DOMAIN b.scope -> Version]

VARIABLES
  program,     \* the do blocks, in the order of the file
  stage,       \* "check", "order", "scopes", "build", ..., "failed"
  todo,        \* the steps still to be handled, in dependency order
  scopes,      \* scope plans by step: [effective, expansions]
  errors,      \* the codes of the diagnostics
  order,       \* the steps, each after its dependencies, as far as they are found
  walk         \* the steps being visited meanwhile, each for the one before it

Updated(f, a, v) == [x \in DOMAIN f \cup {a} |-> IF x = a THEN v ELSE f[x]]

\* The elements of a sequence at some of its places, or that pass a test, in
\* order; each element once.
Picked(s, places) ==
  LET upTo[n \in 0..Len(s)] ==
        IF n = 0 THEN <<>> ELSE IF n \in places THEN Append(upTo[n - 1], s[n]) ELSE upTo[n - 1]
  IN upTo[Len(s)]

Select(s, Test(_)) == Picked(s, {k \in DOMAIN s : Test(s[k])})
Unique(s) == Picked(s, {k \in DOMAIN s : \A j \in 1..(k - 1) : s[j] # s[k]})

StepNames(p) == {p[b].name : b \in DOMAIN p}

\* Of several blocks with one name every map keeps the first.
Block(p, name) ==
  p[CHOOSE b \in DOMAIN p : p[b].name = name /\ \A c \in 1..(b - 1) : p[c].name # name]

-----------------------------------------------------------------------------
(***************************************************************************)
(* validateSteps.                                                          *)
(***************************************************************************)
Edge(p, a, b) == a \in StepNames(p) /\ b \in StepNames(p) /\ Contains(Block(p, a).after, b)

\* The steps that can be reached from step a: those in every set that has
\* the dependencies of a and of its own members.
Ancestors(p, a) ==
  {b \in StepNames(p) : \A S \in SUBSET StepNames(p) :
     (\A c \in S \cup {a}, d \in StepNames(p) : Edge(p, c, d) => d \in S) => b \in S}

StepErrors(p) ==
  (IF \E b, c \in DOMAIN p : b # c /\ p[b].name = p[c].name THEN {"duplicate step"} ELSE {})
  \cup (IF \E n \in StepNames(p) : ~(ToSet(Block(p, n).after) \subseteq StepNames(p))
        THEN {"unknown dependency"} ELSE {})
  \cup (IF \E n \in StepNames(p) : n \in Ancestors(p, n) THEN {"cycle"} ELSE {})
  \cup (IF \E b \in DOMAIN p : p[b].nproc < 0 THEN {"nproc"} ELSE {})

-----------------------------------------------------------------------------
(***************************************************************************)
(* BindingResolver: what one item of a `with` clause imports.              *)
(***************************************************************************)
\* sourceVars of expandDoBinding.
SourceVars(b, item) ==
  IF item.columns # <<>> THEN Unique(item.columns) ELSE Columns[b.scope[item.source]]

VisibleVars(b, item) ==
  IF item.alias # ""
  THEN <<[visible |-> item.alias, var |-> Head(SourceVars(b, item))]>>
  ELSE [k \in DOMAIN SourceVars(b, item) |->
          [visible |-> SourceVars(b, item)[k], var |-> SourceVars(b, item)[k]]]

\* The first reason to refuse an item, in the order of the code.
ItemError(b, item) ==
  LET s == b.scope[item.source] IN
  CASE item.alias \in NotAName -> "alias"
    [] item.source = "" -> "unsupported expression"
    [] item.source \notin DOMAIN b.scope -> "unknown source"
    [] Kind[s] = "function" -> "not data"
    [] item.columns # <<>> /\ Kind[s] # "table" -> "not a table"
    [] ~(ToSet(item.columns) \subseteq ToSet(Columns[s])) -> "unknown column"
    [] item.alias # "" /\ Len(SourceVars(b, item)) # 1 -> "alias of several"
    [] \E v \in ToSet(VisibleVars(b, item)) : v.visible \in Reserved -> "reserved"
    [] OTHER -> "none"

\* ResolveDoWithItems: the items that can be used.
Resolved(b) ==
  LET ids == Select([k \in DOMAIN b.with |-> k], LAMBDA k : ItemError(b, b.with[k]) = "none")
  IN [j \in DOMAIN ids |->
       LET item == b.with[ids[j]] IN
       [item |-> ids[j], source |-> b.scope[item.source],
        vars |-> VisibleVars(b, item), full |-> item.columns = <<>>]]

ResolveErrors(b) == {ItemError(b, b.with[k]) : k \in DOMAIN b.with} \ {"none"}

-----------------------------------------------------------------------------
(***************************************************************************)
(* buildStepScopePlans, one step.  A binding is a variable of a version of *)
(* a source; a name may be bound several times, but only to one binding.   *)
(***************************************************************************)
Binding(e, v) == [source |-> e.source, var |-> v.var]

Names(vars) == {v.visible : v \in ToSet(vars)}

\* The plans of the steps that b names: the dependencies already planned.
Planned(b) == Select(Unique(b.after), LAMBDA dep : dep \in DOMAIN scopes)

\* The first dependency that makes a name visible decides what it means.
Inherited(b) ==
  LET deps == Planned(b)
      visible == UNION {DOMAIN scopes[dep].effective : dep \in ToSet(deps)}
  IN [n \in visible |->
       scopes[Select(deps, LAMBDA dep : n \in DOMAIN scopes[dep].effective)[1]].effective[n]]

\* The names that items before the k-th one bring in.
Selected(exps, k) == UNION {Names(exps[j].vars) : j \in 1..(k - 1)}

\* The meaning of a name that is not inherited: that of its first import.
FirstImport(exps, n) ==
  LET k == CHOOSE k \in DOMAIN exps : n \in Names(exps[k].vars) /\ n \notin Selected(exps, k)
  IN Binding(exps[k], CHOOSE v \in ToSet(exps[k].vars) : v.visible = n)

Effective(b) ==
  LET exps == Resolved(b)
      inherited == Inherited(b)
  IN [n \in DOMAIN inherited \cup Selected(exps, Len(exps) + 1) |->
       IF n \in DOMAIN inherited THEN inherited[n] ELSE FirstImport(exps, n)]

\* What is left to expand: names that are new with their item.  An item that
\* loses a column is expanded like a projection.
Kept(b) ==
  LET exps == Resolved(b)
      kept(k) == Select(exps[k].vars, LAMBDA v :
                   v.visible \notin DOMAIN Inherited(b) \cup Selected(exps, k))
      all == [k \in DOMAIN exps |->
               [exps[k] EXCEPT !.vars = kept(k), !.full = @ /\ kept(k) = exps[k].vars]]
  IN Select(all, LAMBDA e : e.vars # <<>>)

ConflictOfDependenciesBug(b) ==
  \E dep \in ToSet(Planned(b)) : \E n \in DOMAIN scopes[dep].effective :
    scopes[dep].effective[n] # Effective(b)[n]

\* A name is bound to two things, by dependencies, by items, or by both.
Conflict(b) ==
  \/ \E dep \in ToSet(Planned(b)) : \E n \in DOMAIN scopes[dep].effective :
       scopes[dep].effective[n] # Effective(b)[n]
  \/ \E e \in ToSet(Resolved(b)) : \E v \in ToSet(e.vars) :
       Binding(e, v) # Effective(b)[v.visible]

-----------------------------------------------------------------------------
ScopesInit ==
  /\ program \in Program
  /\ stage = "check"
  /\ todo = <<>>
  /\ scopes = <<>>
  /\ errors = {}
  /\ order = <<>> /\ walk = <<>>

ValidateSteps ==
  /\ stage = "check"
  /\ stage' = "order"
  /\ errors' = StepErrors(program)
  /\ UNCHANGED <<program, todo, scopes, order, walk>>

(***************************************************************************)
(* planutil.TopoStepOrder: depth first, in the order of the file, each     *)
(* step after those it names in `after`.  Names that do not exist are      *)
(* skipped, and so is a step that is being visited already: a cycle is     *)
(* cut, not reported.                                                      *)
(***************************************************************************)
\* What visit is called for, and where it has something to do.
Calls == IF walk = <<>> THEN [b \in DOMAIN program |-> program[b].name]
         ELSE Block(program, Last(walk)).after
Unvisited == {k \in DOMAIN Calls : Calls[k] \in StepNames(program) \ (ToSet(order) \cup ToSet(walk))}

Visit ==
  /\ stage = "order" /\ Unvisited # {}
  /\ walk' = Append(walk, Calls[CHOOSE k \in Unvisited : \A j \in Unvisited : k <= j])
  /\ UNCHANGED <<program, stage, todo, scopes, errors, order>>

Visited ==
  /\ stage = "order" /\ Unvisited = {} /\ walk # <<>>
  /\ order' = Append(order, Last(walk))
  /\ walk' = Front(walk)
  /\ UNCHANGED <<program, stage, todo, scopes, errors>>

Ordered ==
  /\ stage = "order" /\ Unvisited = {} /\ walk = <<>>
  /\ stage' = "scopes"
  /\ todo' = order
  /\ UNCHANGED <<program, scopes, errors, order, walk>>

-----------------------------------------------------------------------------

PlanStep ==
  /\ stage = "scopes" /\ todo # <<>>
  /\ LET b == Block(program, Head(todo)) IN
     /\ scopes' = Updated(scopes, b.name, [effective |-> Effective(b), expansions |-> Kept(b)])
     /\ errors' = errors \cup ResolveErrors(b) \cup (IF Conflict(b) THEN {"conflict"} ELSE {})
  /\ todo' = Tail(todo)
  /\ UNCHANGED <<program, stage, order, walk>>

FSubErrorsAnyRefBug(b) ==
  (IF \E f, g \in DOMAIN b.fsubs : f # g /\ b.fsubs[f].dest = b.fsubs[g].dest
   THEN {"duplicate destination"} ELSE {})
  \cup (IF \E f \in ToSet(b.fsubs) : f.dest = "" \/ f.dest \in WorkFiles
        THEN {"bad destination"} ELSE {})

\* validateFileSubstitutions, the templates of one step.
FSubErrors(b) ==
  (IF \E f, g \in DOMAIN b.fsubs : f # g /\ b.fsubs[f].dest = b.fsubs[g].dest
   THEN {"duplicate destination"} ELSE {})
  \cup (IF \E f \in ToSet(b.fsubs) : f.dest = "" \/ f.dest \in WorkFiles
        THEN {"bad destination"} ELSE {})
  \cup (IF \E f \in ToSet(b.fsubs) : ~(f.refs \subseteq DOMAIN scopes[b.name].effective)
        THEN {"invisible reference"} ELSE {})

\* The front end stops after an error (cli); a run needs at least one step.
\* Build orders the same steps once more.
Accept ==
  /\ stage = "scopes" /\ todo = <<>>
  /\ errors' = errors \cup UNION {FSubErrors(program[b]) : b \in DOMAIN program}
  /\ IF errors' = {} /\ program # <<>>
     THEN stage' = "build" /\ todo' = order
     ELSE stage' = "failed" /\ UNCHANGED todo
  /\ UNCHANGED <<program, scopes, order, walk>>

ScopesNext == ValidateSteps \/ Visit \/ Visited \/ Ordered \/ PlanStep \/ Accept
=============================================================================
