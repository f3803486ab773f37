------------------------------ MODULE Imports ------------------------------
(***************************************************************************)
(* The import loader (imports/loader.go): the entry file and, depth first, *)
(* every file its `use` statements reach are read and parsed, each once.   *)
(* Errors are collected as diagnostics and the loading goes on, so that    *)
(* whatever can be analysed is.                                            *)
(*                                                                         *)
(* sources gives the files that can be read, by name; what the parser      *)
(* finds in a file is ParsedAs(sources[f]), the statements (Reading says   *)
(* how they look) and the codes of syntax errors.  All files are in one    *)
(* directory.                                                              *)
(*                                                                         *)
(* Of the statements the loader looks at the fields op, of and name, and   *)
(* at those of a use [kind, source, alias, names].  The kind of a use is   *)
(* "path" for a quoted source that ends with .jbs, "suffix" for one that   *)
(* does not, "bare" for a name, and "none"; no names make it a namespace   *)
(* import, whose alias, "" by default, is then the source.                 *)
(***************************************************************************)
EXTENDS Integers, Sequences, SequencesExt

CONSTANTS
  Programs,    \* the values of sources considered
  ParsedAs(_), \* what the parser makes of a source: [stmts, errs]
  Entry        \* the name of the entry file

ASSUME ParsedAssumption ==
  \A src \in Programs : \A f \in DOMAIN src : DOMAIN ParsedAs(src[f]).stmts \subseteq Nat \ {0}

VARIABLES
  sources,     \* the files there are, never changed
  files,       \* the statements of the files that were read
  stage,       \* "start", "load", "compile", "done", "failed"
  stack,       \* the modules being loaded: [module, next, aliases, uses]
  modules,     \* the modules loaded: name -> accepted uses, by statement
  diags        \* the errors reported: <<code, file, statement>>

NoFunction == [x \in {} |-> x]
Updated(f, a, v) == [x \in DOMAIN f \cup {a} |-> IF x = a THEN v ELSE f[x]]

-----------------------------------------------------------------------------

Loading == {stack[i].module : i \in DOMAIN stack}

Frame(m) == [module |-> m, next |-> 1, aliases |-> NoFunction, uses |-> NoFunction]

\* The statement of the top frame that is resolved next.
Top == Last(stack)
PendingUses == {i \in DOMAIN files[Top.module] : i >= Top.next /\ files[Top.module][i].op = "use"}
At == CHOOSE i \in PendingUses : \A j \in PendingUses : i <= j
Use == files[Top.module][At]

Kind(s) == IF s.op = "nested" THEN s.of ELSE s.op

\* stmtLocalSymbol: the names a file defines itself, wherever they are nested.
Defining(m, kinds) == {i \in DOMAIN files[m] : Kind(files[m][i]) \in kinds}
LocalSymbols(m) == {files[m][i].name : i \in Defining(m, {"assign", "for", "do"})} \ {""}

\* resolveUseSource: the module a use refers to, at most one.  A bare name
\* is an alias of an earlier use of the same file.
Targets(u) ==
  IF u.kind = "bare"
  THEN {Top.aliases[a] : a \in {u.source} \cap DOMAIN Top.aliases}
  ELSE {f \in DOMAIN sources : u.kind = "path" /\ f = u.source}

SourceErrors(u) ==
  {IF u.kind = "bare" /\ u.source \in DOMAIN sources THEN "E537" ELSE "E531"}
  \cup (IF u.kind = "suffix" THEN {"E535"} ELSE {})

IsNamespace(u) == u.names = <<>>
Alias(u) == IF u.alias = "" THEN u.source \o ".jbs" ELSE u.alias

Complaints(codes) == {<<c, Top.module, At>> : c \in codes}

\* loadFileModule: a file is read and parsed once; complaints are about the
\* use, those of the parser are about no statement.
Read(m, complaints) ==
  LET parsed == ParsedAs(sources[m])
      new == m \notin DOMAIN files
  IN /\ files' = IF new THEN Updated(files, m, parsed.stmts) ELSE files
     /\ diags' = diags \cup complaints \cup IF new THEN {<<c, m, 0>> : c \in parsed.errs} ELSE {}
Advance(frame) == [frame EXCEPT !.next = At + 1]

-----------------------------------------------------------------------------
LoadInit ==
  /\ sources \in Programs
  /\ files = NoFunction
  /\ stage = "start"
  /\ stack = <<>>
  /\ modules = NoFunction
  /\ diags = {}

\* LoadAndExpand: an entry that cannot be read is an error of its own.
LoadEntry ==
  /\ stage = "start"
  /\ IF Entry \in DOMAIN sources
     THEN stage' = "load" /\ stack' = <<Frame(Entry)>> /\ Read(Entry, {})
     ELSE stage' = "failed" /\ UNCHANGED <<files, stack, diags>>
  /\ UNCHANGED <<sources, modules>>

\* The source is not resolved.
UseUnresolved ==
  /\ stage = "load" /\ PendingUses # {}
  /\ Targets(Use) = {}
  /\ diags' = diags \cup Complaints(SourceErrors(Use))
  /\ stack' = [stack EXCEPT ![Len(stack)] = Advance(@)]
  /\ UNCHANGED <<sources, files, stage, modules>>

\* The alias is taken, by a symbol of the file or by an earlier use; a
\* second use of one module under one alias is dropped without a word.
AliasErrors(u, m) ==
  CASE ~IsNamespace(u)                  -> {}
    [] Alias(u) \in LocalSymbols(Top.module)  -> {"E534"}
    [] Alias(u) \in DOMAIN Top.aliases
       /\ Top.aliases[Alias(u)] # m     -> {"E536"}
    [] OTHER                            -> {}

AliasTaken(u) ==
  IsNamespace(u) /\ Alias(u) \in LocalSymbols(Top.module) \cup DOMAIN Top.aliases

UseRefused ==
  /\ stage = "load" /\ PendingUses # {}
  /\ \E m \in Targets(Use) :
       /\ AliasTaken(Use)
       /\ Read(m, Complaints(AliasErrors(Use, m)))
  /\ stack' = [stack EXCEPT ![Len(stack)] = Advance(@)]
  /\ UNCHANGED <<sources, stage, modules>>

\* resolveModule of the source of an accepted use: a loaded module is
\* reused; one that is being loaded closes a cycle, which is reported while
\* the importer goes on without it; any other is loaded now.
Resolve(m, frames) ==
  IF m \in DOMAIN modules \cup Loading THEN stack' = frames
  ELSE stack' = Append(frames, Frame(m))

\* A cycle is noticed only if it leads back to the file that closes it.
CycleErrorsSelfBug(m) == IF m = Top.module THEN {"E530"} ELSE {}

CycleErrors(m) == IF m \in Loading /\ m \notin DOMAIN modules THEN {"E530"} ELSE {}

UseAccepted ==
  /\ stage = "load" /\ PendingUses # {}
  /\ \E m \in Targets(Use) :
       LET u == [source |-> m, alias |-> IF IsNamespace(Use) THEN Alias(Use) ELSE "",
                 names |-> Use.names]
           frame == [Advance(Top) EXCEPT
                       !.uses = Updated(@, At, u),
                       !.aliases = IF IsNamespace(Use) THEN Updated(@, Alias(Use), m) ELSE @]
       IN /\ ~AliasTaken(Use)
          /\ Read(m, Complaints(CycleErrors(m)))
          /\ Resolve(m, [stack EXCEPT ![Len(stack)] = frame])
  /\ UNCHANGED <<sources, stage, modules>>

\* All statements of the module are resolved: it is recorded.
ModuleResolved ==
  /\ stage = "load" /\ PendingUses = {}
  /\ modules' = Updated(modules, Top.module, Top.uses)
  /\ stack' = Front(stack)
  /\ stage' = IF Len(stack) = 1 THEN "compile" ELSE stage
  /\ UNCHANGED <<sources, files, diags>>

LoadNext == LoadEntry \/ UseUnresolved \/ UseRefused \/ UseAccepted \/ ModuleResolved

-----------------------------------------------------------------------------
Loaded == stage \in {"compile", "done"}

\* What is done with the modules after they are loaded: nothing that the
\* loader has found changes, and no cycle is reported any more.
Afterwards ==
  /\ Loaded /\ stage' \in {"compile", "done"}
  /\ \A d \in diags' \ diags : d[1] # "E530"
  /\ diags \subseteq diags'
  /\ UNCHANGED <<sources, files, stack, modules>>

LoadSpec == LoadInit /\ [][LoadNext \/ Afterwards]_<<sources, files, stage, stack, modules, diags>>

Imports ==
  UNION {{<<m, modules[m][i].source>> : i \in DOMAIN modules[m]} : m \in DOMAIN modules}

\* The modules reached from m by one import or more: those in every set that
\* has what m imports, and what its members import.
Reached(m) ==
  {n \in DOMAIN sources : \A S \in SUBSET DOMAIN sources :
     (\A e \in Imports : e[1] \in S \cup {m} => e[2] \in S) => n \in S}

\* A complaint about a use, none of the parser.
CycleReported == \E d \in diags : d[1] = "E530" /\ d[3] # 0

\* Loading is complete and finds every cycle: the modules loaded are exactly
\* those the accepted uses reach from the entry, and a cycle is reported if,
\* and only if, some module reaches itself - whatever order the files are
\* visited in, and however often one is imported (resolveModule's memo, its
\* loading set and reportCycle).
ImportsComplete ==
  Loaded =>
    /\ DOMAIN modules = {Entry} \cup Reached(Entry)
    /\ CycleReported <=> \E m \in DOMAIN modules : m \in Reached(m)
=============================================================================
