------------------------------ MODULE FrontEnd ------------------------------
(***************************************************************************)
(* From the entry file to what the steps of a program see: the files are   *)
(* loaded (Imports), and then compiled, each once, after those they import *)
(* (compileModule in sema/module_compile.go); compiling a module executes  *)
(* its statements (Globals) and merges what it imports (Scopes).           *)
(*                                                                         *)
(* Meant(sources[f]) are the statements that the text of a file was        *)
(* written for; one with the op "raw" stands for text that is none.        *)
(***************************************************************************)
EXTENDS Globals, Reading

CONSTANT Meant(_)

VARIABLES
  calls,       \* the modules being compiled: [module, children]
  cache        \* the scopes of the modules compiled

loaded == <<sources, files, stack, modules>>
vars == <<loaded, stage, diags, engine, memory, placed, calls, cache>>

Init ==
  /\ LoadInit
  /\ engine = Idle /\ placed = Nothing
  /\ memory = [roots |-> Nothing, globals |-> Unpublished, frames |-> <<>>, serial |-> 0]
  /\ calls = <<>> /\ cache = Nothing

Compilation(m) == [module |-> m, children |-> Nothing]
Caller == Last(calls)
Visiting == {calls[i].module : i \in DOMAIN calls}

\* The uses of the module whose source is not compiled yet, in their order.
Uncompiled == DOMAIN modules[Caller.module] \ DOMAIN Caller.children
NextUse == CHOOSE i \in Uncompiled : \A j \in Uncompiled : i <= j

Start ==
  /\ stage = "compile" /\ calls = <<>>
  /\ calls' = <<Compilation(Entry)>>
  /\ UNCHANGED <<loaded, stage, diags, engine, memory, placed, cache>>

Compiling == stage = "compile" /\ calls # <<>> /\ ~Running

WithChild(scope) ==
  calls' = [calls EXCEPT ![Len(calls)].children = (NextUse :> scope) @@ @]

\* What was compiled before is still taken for being compiled.
CompileUseBug ==
  /\ Compiling /\ Uncompiled # {}
  /\ LET source == modules[Caller.module][NextUse].source
     IN IF source \in Visiting \cup DOMAIN cache THEN WithChild(EmptyScope)
        ELSE calls' = Append(calls, Compilation(source))
  /\ UNCHANGED <<loaded, stage, diags, engine, memory, placed, cache>>

\* The source of a use: from the cache; nothing, if it is being compiled
\* (an import cycle); or it is compiled first.
CompileUse ==
  /\ Compiling /\ Uncompiled # {}
  /\ LET source == modules[Caller.module][NextUse].source
     IN IF source \in DOMAIN cache THEN WithChild(cache[source])
        ELSE IF source \in Visiting THEN WithChild(EmptyScope)
        ELSE calls' = Append(calls, Compilation(source))
  /\ UNCHANGED <<loaded, stage, diags, engine, memory, placed, cache>>

\* buildModuleGlobalPlan, with the complaints about what is imported.
StartExecution ==
  /\ Compiling /\ Uncompiled = {}
  /\ engine' = Started(Caller.module, Caller.children)
  /\ memory' = WithRoot(memory, Caller.module)
  /\ diags' = diags \cup {d \in ImportErrors(Caller.module, Caller.children) :
                            d[1] \notin {"", "dropped"}}
  /\ UNCHANGED <<loaded, stage, placed, calls, cache>>

Engine ==
  /\ EngineNext
  /\ UNCHANGED <<loaded, stage, calls, cache>>

\* The do blocks of a file, as they stand in it.
OwnDos(m) ==
  LET ats == SelectSeq([i \in DOMAIN files[m] |-> i], LAMBDA i : files[m][i].op = "do")
      do(a) == [name |-> <<files[m][a].name>>, file |-> m, at |-> a,
                after |-> files[m][a].after, with |-> files[m][a].with]
  IN [i \in DOMAIN ats |-> do(ats[i])]

\* The namespace imports of a module, in the order of its statements.
NamespaceUses(m) ==
  SelectSeq([i \in DOMAIN files[m] |-> i],
            LAMBDA i : i \in DOMAIN modules[m] /\ modules[m][i].names = <<>>)

\* compileModule after the execution: the imported scopes are merged before
\* the module's own blocks are added.
ScopeOf(e, final) ==
  LET imported == FoldLeft(LAMBDA acc, i :
                             MergeScope(acc, PrefixScope(modules[e.module][i].alias, e.children[i])),
                           OwnScope(e, final), NamespaceUses(e.module))
  IN [imported EXCEPT !.dos = @ \o OwnDos(e.module)]

Finish ==
  /\ Running /\ engine.control = <<>>
  /\ cache' = (engine.module :> ScopeOf(engine, memory.globals.vars)) @@ cache
  /\ calls' = Front(calls)
  /\ engine' = Idle
  /\ stage' = IF Len(calls) = 1 THEN "done" ELSE stage
  /\ UNCHANGED <<loaded, diags, memory, placed>>

Load == LoadNext /\ UNCHANGED <<engine, memory, placed, calls, cache>>

Terminated == stage \in {"done", "failed"} /\ UNCHANGED vars

Next == Load \/ Start \/ CompileUse \/ StartExecution \/ Engine \/ Finish \/ Terminated

Spec == Init /\ [][Next]_vars

-----------------------------------------------------------------------------
Done == stage = "done"
Compiled == cache[Entry]

\* The data f under the namespace p.
Under(p, f) ==
  [n \in {p \o m : m \in DOMAIN f} |-> f[SubSeq(n, Len(p) + 1, Len(n))]]

\* The name an item of a with clause starts from.
RECURSIVE Base(_)
Base(e) == IF e.node = "index" THEN Base(e.of) ELSE e.name

Prefixed(p, names) == [i \in DOMAIN names |-> p \o names[i]]

\* A file is read as it was written: every statement is found as it was
\* meant, in every layout with a blank before each brace and whatever stands
\* between the statements (a brace right behind break or continue would be
\* misread), one that is malformed spoils no other, and there is a syntax
\* error if, and only if, there is such a one (scanTopLevelStatementOffsets,
\* findControlBodyBrace, readBalancedBlock, and the recursive descent).
ReadAsWritten ==
  stage = "compile" /\ calls = <<>> =>
    \A f \in DOMAIN files :
      LET read == Parser!Program(Written(sources[f]))
          meant == Meant(sources[f])
          malformed == {i \in DOMAIN meant : meant[i].op = "raw"}
      IN /\ Len(read.node) = Len(meant)
         /\ \A i \in DOMAIN meant \ malformed : read.node[i] = meant[i]
         /\ read.errs = {} <=> malformed = {}

\* What expressions see is what snapshots show and scopes hand out: the
\* copies of the globals agree at any time, though assignments, loops,
\* imports and delete change each of them on its own (publishGlobalVar,
\* publishBinding, deleteGlobalName), delete from within an expression and
\* also if the statement fails.  Of names with an alias, imports may leave
\* other bindings.
RootFrameAgrees ==
  Running =>
    LET now == memory.globals
        bound == {n \in DOMAIN now.vars : IsBinding(n, now.vars[n])}
    IN /\ memory.roots[engine.module] = now.values
       /\ DOMAIN now.values = DOMAIN now.vars \cup DOMAIN BuiltinValues
       /\ \A n \in DOMAIN now.vars : now.vars[n].val = now.values[n]
       /\ bound \subseteq DOMAIN now.bindings
       /\ \A n \in DOMAIN now.bindings : Len(n) = 1 => n \in bound /\ now.bindings[n] = now.vars[n]

\* Loader and compiler walk the imports one after the other, each with its
\* own search for cycles (compileModule's cache and visiting), and come to
\* the same: a module is compiled once, before those that import it, which
\* all get its scope; only in a cycle an import finds nothing, and then the
\* loader has reported one.
CompiledOnce ==
  /\ Cardinality(Visiting) = Len(calls) /\ Visiting \cap DOMAIN cache = {}
  /\ Done => DOMAIN cache = DOMAIN modules
  /\ Running => \A i \in DOMAIN Uses :
       LET source == Uses[i].source
       IN IF source \in DOMAIN cache THEN engine.children[i] = cache[source]
          ELSE /\ source \in Visiting /\ engine.children[i] = EmptyScope
               /\ \E d \in diags : d[1] = "E530"

\* A step sees the globals as they were where its block stands, whichever
\* file that is and however many aliases lead to it: the snapshot found for
\* a block of the analysed program is the one its module took there, with
\* every name, and everything the block refers to, under the aliases
\* (prefixModuleScope, mergeModuleScope, snapshotForDoBlock).
BlockSeesItsPlace(b) ==
  LET p == Front(b.name)
      stmt == files[b.file][b.at]
      there == placed[<<b.file, b.at>>]
  IN /\ stmt.op = "do" /\ Last(b.name) = stmt.name
     /\ b.after = Prefixed(p, stmt.after)
     /\ \A i \in DOMAIN stmt.with : Base(b.with[i].expr) = p \o Base(stmt.with[i].expr)
     /\ SnapshotOf(Compiled, b) =
          {[values |-> Under(p, there.values), bindings |-> Under(p, there.bindings)]}

\* A module that is not in a cycle contributes every one of its blocks,
\* under every alias, unless a block of that name came before it.
BlocksPresent ==
  \A i \in DOMAIN modules[Entry] :
    LET use == modules[Entry][i]
        mine(a) == files[use.source][a].op = "do"
                   /\ \A c \in 1..(a - 1) : files[use.source][c].op = "do" =>
                        files[use.source][c].name # files[use.source][a].name
    IN (use.names = <<>> /\ use.source \notin Reached(use.source)) =>
         \A a \in DOMAIN files[use.source] : mine(a) =>
           \E j \in DOMAIN Compiled.dos :
             /\ Compiled.dos[j].name = <<use.alias, files[use.source][a].name>>
             /\ Compiled.dos[j].file = use.source /\ Compiled.dos[j].at = a

BlocksSeeTheirPlace ==
  Done => BlocksPresent /\ \A j \in DOMAIN Compiled.dos :
            <<Compiled.dos[j].file, Compiled.dos[j].at>> \in DOMAIN placed => BlockSeesItsPlace(Compiled.dos[j])

\* All data a scope hands out, by name: final, or as a block saw them.
Layers(scope) ==
  {scope.bindings[i] : i \in DOMAIN scope.bindings}
  \cup {scope.blocks[k].bindings : k \in DOMAIN scope.blocks}

\* Name and version of data say what their value is, which is what the work
\* plan goes by when it tells instances of data apart, while modules are
\* imported several times, prefixed and merged (BindingVersionKey).
VersionsDetermineValues(scope) ==
  \A f, g \in Layers(scope) : \A n \in DOMAIN f \cap DOMAIN g :
    f[n].ver = g[n].ver => f[n].val = g[n].val

TablesOf(scope) == {scope.exports[n].val : n \in {m \in DOMAIN scope.exports : IsTable(scope.exports[m].val)}}

\* The data of a program are what the step scopes and the work plan take them
\* for: a version is one value; whatever operations made a table, a key in
\* a column is one value, and selecting columns undoes the repetitions of
\* products, but not those of rbind (eval.ProjectionKey).
DataSound ==
  Done => /\ VersionsDetermineValues(Compiled)
          /\ \A t \in TablesOf(Compiled) : KeysDetermineValues(t)
          /\ \A t, u \in TablesOf(Compiled) : RepetitionsUndone(t, u)

\* In the scope of a step, a name means one thing: importing it with `with`
\* gives the value an expression sees (docs/help_use.md: "Namespaced
\* imports keep the imported symbols under the alias").
SameData ==
  Done => \A k \in DOMAIN Compiled.blocks :
    LET s == Compiled.blocks[k]
    IN \A n \in DOMAIN s.bindings : n \in DOMAIN s.values /\ s.bindings[n].val = s.values[n]
=============================================================================
