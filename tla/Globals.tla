------------------------------ MODULE Globals ------------------------------
(***************************************************************************)
(* The execution of the statements of one module (sema/global_plan.go,     *)
(* global_plan_exec.go, global_plan_snapshot.go): assignments, imports,    *)
(* control flow and deletion change the globals; a do or analyse block     *)
(* takes a snapshot of them.  An error is reported, the statement leaves   *)
(* everything as it was, and the execution goes on.                        *)
(*                                                                         *)
(* The statements are those of Imports!files; x += e is assigned as x + e. *)
(* The version of a global is <<file, statement>>.  The engine keeps four  *)
(* copies of the globals, which assignments, loops, imports and delete     *)
(* change one by one; they are in the memory of the evaluator, as delete   *)
(* reaches them from within an expression:                                 *)
(*   roots[m]          the root frame, which expressions read              *)
(*   globals.values    the values, which snapshots show                    *)
(*   globals.vars      what was assigned: name -> [val, ver]               *)
(*   globals.bindings  the current bindings, which `with` refers to        *)
(* The builtin globals have a value before they are assigned.              *)
(*                                                                         *)
(* Dependencies between globals, the catalogue of visible names, printing  *)
(* and shell calls are left out.                                           *)
(***************************************************************************)
EXTENDS Imports, Scopes, Evaluator

VARIABLES
  engine,      \* the execution: [module, children, control, snaps]
  memory,      \* what the evaluator remembers: [roots, globals, frames, serial]
  placed       \* history: the globals when a block was executed, by <<file, at>>

Idle == [module |-> "", children |-> Nothing, control |-> <<>>, snaps |-> <<>>]

BuiltinValues ==
  (<<"jbs_name">> :> StrVal(<<"jbs_benchmark">>)) @@ (<<"jbs_nproc">> :> IntVal(0))
  @@ (<<"jbs_benchmarks">> :> Dict(<<>>)) @@ (<<"jbs_database">> :> StrVal(<<>>))
Unpublished == [values |-> BuiltinValues, vars |-> Nothing, bindings |-> Nothing]

\* A frame of the control stack executes the statements at..upto; loop is
\* the statement of the loop whose body this is, or 0.
Stretch(from, upto) == [at |-> from, upto |-> upto, loop |-> 0, rest |-> <<>>, count |-> 0]

\* newGlobalSeqEngine
Started(m, children) ==
  [Idle EXCEPT !.module = m, !.children = children, !.control = <<Stretch(1, Len(files[m]))>>]
WithRoot(mem, m) == [mem EXCEPT !.roots = (m :> BuiltinValues) @@ @, !.globals = Unpublished]

Running == engine.module # ""
Body == Last(engine.control)
Ready == Running /\ engine.control # <<>> /\ Body.at <= Body.upto
Exhausted == Running /\ engine.control # <<>> /\ Body.at > Body.upto

Stmt == files[engine.module][Body.at]
Version == <<engine.module, Body.at>>

\* The control stack after the current statement, bodies included.
Extent(s) == CASE s.op \in {"for", "while"} -> s.body
               [] s.op = "if"               -> s.then + s.other
               [] OTHER                     -> 0
Following == [engine.control EXCEPT ![Len(engine.control)].at = @ + 1 + Extent(Stmt)]
Popped == Front(engine.control)

Complain(codes) == diags' = diags \cup {<<c, engine.module, Body.at>> : c \in codes}

\* evalOptions: expressions are evaluated in the root frame.
Mem == memory @@ [errs |-> <<>>, aborted |-> FALSE]
Place == [module |-> engine.module, frame |-> 0, depth |-> 0]
Evaluate(e) == Eval(e, Mem, Place)

\* The engine goes on with the given control stack and the memory that is
\* left; what was reported goes elsewhere.
Remember(mem) == memory' = [f \in DOMAIN memory |-> mem[f]]
GoOn(mem, control) == engine' = [engine EXCEPT !.control = control] /\ Remember(mem)

-----------------------------------------------------------------------------
\* What is wrong with a value for a global: evalAssignStep,
\* publishLoopVariable, acceptGlobalVar.
Problems(name, v) ==
  CASE HasNestedList(v)                               -> {"E305"}
    [] name = <<"jbs_name">> /\ v.kind # "string"     -> {"E301"}
    [] /\ name \in DOMAIN BuiltinValues \ {<<"jbs_benchmarks">>}
       /\ v.kind # "null" /\ ~IsScalar(v)            -> {"E304"}
    [] OTHER                                          -> {}

\* publishGlobalVar, publishBinding: functions and builtin globals are no
\* bindings.
IsBinding(name, data) == data.val.kind # "function" /\ ~IsBuiltin(name)
Published(mem, name, data) ==
  [mem EXCEPT !.globals.values       = (name :> data.val) @@ @,
              !.roots[engine.module] = (name :> data.val) @@ @,
              !.globals.vars         = (name :> data) @@ @,
              !.globals.bindings     = IF IsBinding(name, data) THEN (name :> data) @@ @
                                       ELSE Without(@, {name})]

\* assignmentExpr
Assigned(s) ==
  IF s.by = "=" THEN s.expr
  ELSE [node |-> "binary", by |-> BinaryBy(s.by), left |-> [node |-> "name", name |-> <<s.name>>], right |-> s.expr]

\* evalAssignStep: nothing is assigned if there is an error.
AssignResult(name, r) ==
  LET failed == Errors(r.mem.errs) # <<>>
      problems == IF failed THEN {} ELSE Problems(name, r.val)
      assigned == Published(r.mem, name, [val |-> r.val, ver |-> Version])
  IN /\ Complain(ToSet(r.mem.errs) \cup problems)
     /\ GoOn(IF failed \/ problems # {} THEN r.mem ELSE assigned, Following)

Assign ==
  /\ Ready /\ Stmt.op = "assign"
  /\ AssignResult(<<Stmt.name>>, IF Stmt.by # "=" /\ Find(Mem, Place, <<Stmt.name>>) = {}
                                 THEN Refuse(Mem, "E100") ELSE Evaluate(Assigned(Stmt)))
  /\ UNCHANGED placed

\* evalExprStep
ExprResult(r) == Complain(ToSet(r.mem.errs)) /\ GoOn(r.mem, Following)

ExprStatement ==
  /\ Ready /\ Stmt.op = "expr"
  /\ ExprResult(Evaluate(Stmt.expr))
  /\ UNCHANGED placed

\* evalIfStep: if the condition fails, no branch is executed.
IfResult(test) ==
  LET then == Stretch(Body.at + 1, Body.at + Stmt.then)
      other == Stretch(Body.at + Stmt.then + 1, Body.at + Extent(Stmt))
      branch == IF test.failed THEN <<>> ELSE IF test.holds THEN <<then>> ELSE <<other>>
  IN Complain(ToSet(test.mem.errs)) /\ GoOn(test.mem, Following \o branch)

If ==
  /\ Ready /\ Stmt.op = "if"
  /\ IfResult(Condition(Stmt.expr, Mem, Place))
  /\ UNCHANGED placed

\* A loop starts with its body exhausted.
LoopFrame(rest) ==
  [at |-> Body.at + Stmt.body + 1, upto |-> Body.at + Stmt.body, loop |-> Body.at,
   rest |-> rest, count |-> 0]

\* evalForStep up to its first iteration; the iterable is evaluated once,
\* and its items are taken even if there was an error.
ForResult(r) ==
  /\ Complain(ToSet(r.mem.errs) \cup IF Iterable(r.val) THEN {} ELSE {"E106"})
  /\ GoOn(r.mem, Append(Following, LoopFrame(IF Iterable(r.val) THEN Elements(r.val) ELSE <<>>)))

For ==
  /\ Ready /\ Stmt.op = "for"
  /\ ForResult(Evaluate(Stmt.expr))
  /\ UNCHANGED placed

While ==
  /\ Ready /\ Stmt.op = "while"
  /\ engine' = [engine EXCEPT !.control = Append(Following, LoopFrame(<<>>))]
  /\ UNCHANGED <<diags, memory, placed>>

-----------------------------------------------------------------------------
Loop == files[engine.module][Body.loop]
Iteration == [Body EXCEPT !.at = Body.loop + 1, !.count = @ + 1,
                          !.rest = IF @ = <<>> THEN @ ELSE Tail(@)]

LoopComplain(codes) == diags' = diags \cup {<<c, engine.module, Body.loop>> : c \in codes}

\* The next round of a for loop publishes the loop variable, whose version
\* is the loop statement, in every round; one it may not take ends the loop.
NextItem ==
  /\ Exhausted /\ Body.loop # 0 /\ Loop.op = "for"
  /\ LET name == <<Loop.name>>
         item == Head(Body.rest)
         codes == IF Body.rest = <<>> THEN {}
                  ELSE IF Body.count >= MaxLoop THEN {"E106"}
                  ELSE Problems(name, item)
         goes == Body.rest # <<>> /\ codes = {} /\ Loop.name # ""
     IN /\ LoopComplain(IF Loop.name = "" THEN codes \cap {"E106"} ELSE codes)
        /\ IF goes THEN GoOn(Published(memory, name, [val |-> item, ver |-> <<engine.module, Body.loop>>]),
                             Append(Popped, Iteration))
           ELSE GoOn(memory, Popped)
  /\ UNCHANGED placed

\* The next round of a while loop: the limit is checked before the condition.
RoundResult(test) ==
  /\ LoopComplain(ToSet(test.mem.errs))
  /\ GoOn(test.mem, IF test.holds THEN Append(Popped, Iteration) ELSE Popped)

NextRound ==
  /\ Exhausted /\ Body.loop # 0 /\ Loop.op = "while"
  /\ RoundResult(IF Body.count < MaxLoop THEN Condition(Loop.expr, Mem, Place)
                 ELSE [failed |-> TRUE, holds |-> FALSE, mem |-> Refuse(Mem, "E106").mem])
  /\ UNCHANGED placed

BodyEnds ==
  /\ Exhausted /\ Body.loop = 0
  /\ engine' = [engine EXCEPT !.control = Popped]
  /\ UNCHANGED <<diags, memory, placed>>

Loops == {i \in DOMAIN engine.control : engine.control[i].loop # 0}
Innermost == CHOOSE i \in Loops : \A j \in Loops : j <= i

\* break and continue leave everything up to the innermost loop; outside of
\* loops they end the execution of the module.
OutsideLoops ==
  /\ Ready /\ Stmt.op \in {"break", "continue"} /\ Loops = {}
  /\ Complain({"E080"})
  /\ engine' = [engine EXCEPT !.control = <<>>]
  /\ UNCHANGED <<memory, placed>>

Break ==
  /\ Ready /\ Stmt.op = "break" /\ Loops # {}
  /\ engine' = [engine EXCEPT !.control = SubSeq(@, 1, Innermost - 1)]
  /\ UNCHANGED <<diags, memory, placed>>

Continue ==
  /\ Ready /\ Stmt.op = "continue" /\ Loops # {}
  /\ engine' = [engine EXCEPT !.control = SubSeq(@, 1, Innermost - 1)
                   \o <<[@[Innermost] EXCEPT !.at = engine.control[Innermost].upto + 1]>>]
  /\ UNCHANGED <<diags, memory, placed>>

-----------------------------------------------------------------------------
\* recordDeclarationSnapshot
Block ==
  /\ Ready /\ Stmt.op \in {"do", "analyse"}
  /\ LET snap == [values |-> memory.globals.values, bindings |-> memory.globals.bindings]
     IN /\ engine' = [engine EXCEPT !.control = Following,
                        !.snaps = Append(@, [key |-> Key(Stmt.op, <<Stmt.name>>, engine.module, Body.at),
                                             at |-> Body.at, snap |-> snap])]
        /\ placed' = (Version :> snap) @@ placed
  /\ UNCHANGED <<diags, memory>>

-----------------------------------------------------------------------------
Uses == modules[engine.module]
Aliases(uses) == {uses[i].alias : i \in DOMAIN uses}
DoNames(m) == {s.name : s \in {t \in ToSet(files[m]) : t.op = "do"}}

\* moduleLocalSymbolKind: what a name is in a file, going by its text.
SymbolKind(m, name) ==
  LET defs == IF m \notin DOMAIN files THEN {}
              ELSE {i \in Defining(m, {"assign", "for", "do", "analyse"}) : files[m][i].name = name}
  IN IF defs = {} THEN "none" ELSE Kind(files[m][CHOOSE i \in defs : \A j \in defs : i <= j])

\* prepareModuleBindings: a name may be imported if it is no alias and no
\* step here, and was a global of the module when that was done; a name
\* the module assigns somewhere, but did not keep, is dropped silently.
ImportProblem(m, name, child) ==
  CASE name \in Aliases(modules[m]) \cup DoNames(m)             -> "E534"
    [] <<name>> \in DOMAIN child.locals                         -> ""
    [] SymbolKind(child.program, name) \in {"do", "analyse"}    -> "E533"
    [] SymbolKind(child.program, name) = "none"                 -> "E532"
    [] OTHER                                                    -> "dropped"

ImportErrors(m, children) ==
  UNION {{<<ImportProblem(m, name, children[i]), m, i>> : name \in ToSet(modules[m][i].names)} :
           i \in DOMAIN modules[m]}

\* evalProjectedImportStep, for every name of a use.  The imported global
\* is a version of its own.
ImportNames(use, child) ==
  FoldLeft(LAMBDA acc, name :
             IF ImportProblem(engine.module, name, child) # "" THEN acc
             ELSE Published(acc, <<name>>, [val |-> child.locals[<<name>>].val, ver |-> Version]),
           memory, use.names)

\* evalNamespaceImportStep: the exports are published, and then every
\* binding of the scope becomes the current one of its name, in turn.
ImportNamespace(use, child) ==
  LET scope == PrefixScope(use.alias, child)
      published == FoldSet(LAMBDA name, acc : Published(acc, name, scope.exports[name]),
                           memory, DOMAIN scope.exports)
  IN [published EXCEPT !.globals.bindings = FoldLeft(LAMBDA acc, layer : layer @@ acc, @, scope.bindings)]

ImportUse ==
  /\ Ready /\ Stmt.op = "use" /\ Body.at \in DOMAIN Uses
  /\ LET use == Uses[Body.at]
         child == engine.children[Body.at]
     IN GoOn(IF use.names = <<>> THEN ImportNamespace(use, child) ELSE ImportNames(use, child), Following)
  /\ UNCHANGED <<diags, placed>>

\* The loader refused the use, or a declaration is in a body: there is no
\* step for it.
SkipStatement ==
  /\ Ready /\ Stmt.op \in {"use", "nested"} /\ Body.at \notin DOMAIN Uses
  /\ engine' = [engine EXCEPT !.control = Following]
  /\ UNCHANGED <<diags, memory, placed>>

EngineNext ==
  \/ Assign \/ If \/ For \/ While \/ NextItem \/ NextRound \/ BodyEnds
  \/ ExprStatement \/ OutsideLoops \/ Break \/ Continue \/ Block \/ ImportUse \/ SkipStatement

-----------------------------------------------------------------------------
\* The scope of a finished execution, without the imported ones
\* (compileModule, registerModuleExport, registerModuleBinding,
\* registerSnapshotBindings).
OwnScope(e, vars) ==
  LET local == {n \in DOMAIN vars : Len(n) = 1 /\ ~IsBuiltin(n)}
      bound == {n \in DOMAIN vars : IsBinding(n, vars[n])}
      snap(k) == e.snaps[CHOOSE i \in DOMAIN e.snaps : e.snaps[i].key = k].snap
      at(a) == e.snaps[CHOOSE i \in DOMAIN e.snaps : e.snaps[i].at = a].snap
  IN [EmptyScope EXCEPT
        !.program  = e.module,
        !.exports  = vars,
        !.locals   = [n \in local |-> vars[n]],
        !.bindings = <<[n \in bound |-> vars[n]]>>
                     \o [i \in DOMAIN e.snaps |-> e.snaps[i].snap.bindings],
        !.blocks   = [k \in {e.snaps[i].key : i \in DOMAIN e.snaps} |-> snap(k)],
        !.index    = [a \in {e.snaps[i].at : i \in DOMAIN e.snaps} |-> at(a)]]
=============================================================================
