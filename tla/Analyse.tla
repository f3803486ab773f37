------------------------------- MODULE Analyse -------------------------------
(***************************************************************************)
(* Analyses (sema/compile_analyse.go, run/plan.go, run/analyse.go,         *)
(* run/analyse_sqlite.go): after its work a run turns what the             *)
(* workpackages of the analysed steps have left in their directories into  *)
(* one table per step, as CSV files or in a SQLite database.               *)
(*                                                                         *)
(* An analyse block is [patterns, columns].  A pattern is [name, regex,    *)
(* files, kinds]: it is applied to one file, or to all the files a regular *)
(* expression names, and has a capture group of each of the kinds.  A      *)
(* column is [source, title].                                              *)
(***************************************************************************)
EXTENDS RuntimePlan

CONSTANTS
  Blocks,      \* [step name -> its analyse block, where it has one]
  FileOrder,   \* the files of a work directory, as they are sorted
  Contents,    \* [step name -> what its work may leave: [file -> [pattern -> captures]]]
  KindOf,      \* [value -> "int", "float", "bool" or "string"]
  Text,        \* [value -> as it is stored in the manifest]
  Readable,    \* [kind -> the texts that can be parsed as this kind]
  SameName,    \* [name -> the name SQLite takes it for]; itself, if not given
  Executed,    \* bound: the programs that are run, the others are only planned
  MaxCommands  \* bound: the run and its continuations

\* The patterns and the columns of a block are sequences, and so are the groups
\* of a pattern; what is analysed has a block.
ASSUME BlockAssumption ==
  /\ \A s \in DOMAIN Blocks :
       /\ Blocks[s].columns \in Seq(ToSet(Blocks[s].columns))
       /\ Blocks[s].patterns \in Seq(ToSet(Blocks[s].patterns))
       /\ \A p \in ToSet(Blocks[s].patterns) : p.kinds \in Seq(ToSet(p.kinds))
  /\ \A sel \in Selections : sel.analysed \subseteq DOMAIN Blocks

\* The files of a work directory are sorted, and what a pattern has matched in
\* one is a sequence.
ASSUME ContentAssumption ==
  /\ FileOrder \in Seq(ToSet(FileOrder))
  /\ \A s \in DOMAIN Blocks : \A left \in Contents[s] : \A p \in ToSet(Blocks[s].patterns) :
       \A f \in p.files \cap DOMAIN left : left[f][p.name] \in Seq(ToSet(left[f][p.name]))

\* Of which kind the values of cells are; the text of a number or a truth value
\* (Value.String) can be read again, and that of an integer as a float too.
ASSUME KindAssumption ==
  /\ \A s \in Version : \A r \in DOMAIN Cell[s] : \A var \in ToSet(Columns[s]) :
       LET v == Cell[s][r][var].val IN
       /\ KindOf[v] \in {"int", "float", "bool", "string"}
       /\ KindOf[v] # "string" => Text[v] \in Readable[KindOf[v]]
  /\ Readable["int"] \subseteq Readable["float"]

VARIABLES
  database,    \* jbs_database is set
  weak,        \* --weak of the command
  outcome,     \* statuses of manifest.work, <<>> before the first command
  content,     \* what manifest.work has left
  root,        \* the root status
  final,       \* the result of the scheduler, or "ERROR" after a failed analysis
  output,      \* [table or file -> [header, rows, at]]
  pending,     \* the same for the open transaction
  fault,       \* why the last analysis failed; "none"
  commands     \* how many commands have been started

runVars == <<database, weak, outcome, content, root, final, output, pending, fault, commands>>
madeVars == <<plannedVars, manifest, made>>
vars == <<madeVars, stage, todo, runVars>>

SQLiteName(n) == IF n \in DOMAIN SameName THEN SameName[n] ELSE n

-----------------------------------------------------------------------------
(***************************************************************************)
(* compileAnalyseBlock and buildAnalysePlan.                               *)
(***************************************************************************)
\* Of several assignments to one name the first counts.
Pattern(step, name) ==
  LET ps == Blocks[step].patterns
  IN ps[CHOOSE k \in DOMAIN ps : ps[k].name = name /\ \A j \in 1..(k - 1) : ps[j].name # name]

PatternNames(step) == {p.name : p \in ToSet(Blocks[step].patterns)}

BlockErrors(step) ==
  IF step \notin StepNames(program) THEN {"unknown step"}
  ELSE LET visible == DOMAIN scopes[step].effective
           ps == Blocks[step].patterns
           sources == {c.source : c \in ToSet(Blocks[step].columns)}
       IN (IF \E j, k \in DOMAIN ps : j # k /\ ps[j].name = ps[k].name
           THEN {"duplicate analyse variable"} ELSE {})
          \cup (IF PatternNames(step) \cap visible # {} THEN {"extraction collides"} ELSE {})
          \cup (IF sources \subseteq visible \cup PatternNames(step) THEN {} ELSE {"unknown symbol"})

MergeKindsFirstBug(a, b) == IF a = "" THEN b ELSE a

\* mergeAnalyseValueKinds.
MergeKinds(a, b) ==
  CASE a = "" \/ a = b -> b
    [] {a, b} = {"int", "float"} -> "float"
    [] OTHER -> "string"

\* The kind of a name, over the plan of all steps, before any limit.
WorkValueKind(step, name) ==
  LET of == Select(plan.work, LAMBDA w : w.step = step /\ name \in DOMAIN w.values)
      kinds[k \in 0..Len(of)] ==
        IF k = 0 THEN "" ELSE MergeKinds(kinds[k - 1], KindOf[of[k].values[name]])
  IN IF kinds[Len(of)] = "" THEN "string" ELSE kinds[Len(of)]

IsPattern(step, col) == col.source \in PatternNames(step)

ColumnKinds(step, col) ==
  IF IsPattern(step, col)
  THEN LET p == Pattern(step, col.source) IN IF p.regex THEN <<"string">> \o p.kinds ELSE p.kinds
  ELSE <<WorkValueKind(step, col.source)>>

ColumnHeader(step, col) ==
  IF IsPattern(step, col)
  THEN LET p == Pattern(step, col.source) IN
       (IF p.regex THEN <<col.title \o ".file">> ELSE <<>>)
       \o (IF Len(p.kinds) = 1 THEN <<col.title>>
           ELSE [k \in DOMAIN p.kinds |-> col.title \o "." \o ToString(k - 1)])
  ELSE <<col.title>>

PlanHeader(step) ==
  <<"run_id">> \o FlattenSeq([k \in DOMAIN Blocks[step].columns |->
                                ColumnHeader(step, Blocks[step].columns[k])])

\* The analyse blocks are compiled and planned with those of the database.
PlanAnalyses ==
  /\ stage = "select"
  /\ \E sel \in Selections : analysed' = sel.analysed
  /\ database' \in IF program \in Executed THEN BOOLEAN ELSE {FALSE}
  /\ stage' = IF \/ \E s \in analysed' : BlockErrors(s) # {}
                 \/ database' /\ \E s \in analysed' : ~IsInjective(PlanHeader(s))
              THEN "failed" ELSE "selected"
  /\ UNCHANGED <<program, todo, scopes, errors, order, walk, states, growing, part, plan, component, limit, kept,
                 chosen, manifest, made>>
  /\ UNCHANGED <<weak, outcome, content, root, final, output, pending, fault, commands>>

-----------------------------------------------------------------------------
(***************************************************************************)
(* analyseWorkPackage.  A cell is [kind, text]; a missing one has kind     *)
(* "missing".                                                              *)
(***************************************************************************)
Missing == [kind |-> "missing", text |-> ""]
TextCell(t) == [kind |-> "string", text |-> t]

Capture(t, kind) ==
  IF t = "" /\ kind # "string" THEN Missing ELSE [kind |-> kind, text |-> t]

\* The files a pattern is applied to, in order.
TargetFiles(p, left) == Select(FileOrder, LAMBDA f : f \in p.files \cap DOMAIN left)

\* collectMatchesFromText, for all the files of a pattern.
Matches(p, left) ==
  FlattenSeq([k \in DOMAIN TargetFiles(p, left) |->
    LET f == TargetFiles(p, left)[k] IN
    [j \in DOMAIN left[f][p.name] |->
      (IF p.regex THEN <<TextCell(f)>> ELSE <<>>)
      \o [g \in DOMAIN p.kinds |-> Capture(left[f][p.name][j][g], p.kinds[g])]]])

\* The selected patterns are those some column shows.
SelectedPatterns(step) ==
  {Pattern(step, c.source) : c \in {c \in ToSet(Blocks[step].columns) : IsPattern(step, c)}}

PatternFaults(step, left) ==
  (IF \E p \in SelectedPatterns(step) : ~p.regex /\ ~(p.files \subseteq DOMAIN left)
   THEN {"file"} ELSE {})
  \cup (IF \E p \in SelectedPatterns(step) : \E m \in ToSet(Matches(p, left)) : \E c \in ToSet(m) :
             c.kind \in {"int", "float"} /\ c.text \notin Readable[c.kind]
        THEN {"capture"} ELSE {})

ValueFaults(step, w) ==
  IF \E c \in ToSet(Blocks[step].columns) :
       /\ ~IsPattern(step, c) /\ c.source \in DOMAIN w.values
       /\ LET kind == WorkValueKind(step, c.source)
          IN kind # "string" /\ Text[w.values[c.source]] \notin Readable[kind]
  THEN {"value"} ELSE {}

\* The k-th row of a column; a column with fewer matches than others ends in
\* missing cells.
ColumnCells(step, col, w, left, k) ==
  IF IsPattern(step, col)
  THEN LET ms == Matches(Pattern(step, col.source), left) IN
       IF k <= Len(ms) THEN ms[k] ELSE [g \in DOMAIN ColumnKinds(step, col) |-> Missing]
  ELSE IF col.source \in DOMAIN w.values
       THEN <<[kind |-> WorkValueKind(step, col.source), text |-> Text[w.values[col.source]]]>>
       ELSE <<Missing>>

RowCountFirstBug(step, left) ==
  IF SelectedPatterns(step) = {} THEN 1
  ELSE LET col == Select(Blocks[step].columns, LAMBDA c : IsPattern(step, c))[1]
       IN Len(Matches(Pattern(step, col.source), left))

\* analyseRowCount.
RowCount(step, left) ==
  IF SelectedPatterns(step) = {} THEN 1
  ELSE Max({Len(Matches(p, left)) : p \in SelectedPatterns(step)})

\* rowDir, the run id of a row: numbers in decimal notation, which differ
\* as the numbers do.
RowDir(row) == <<row>>

WorkRows(step, w, left) ==
  [k \in 1..RowCount(step, left) |->
     <<TextCell(RowDir(w.row))>>
     \o FlattenSeq([c \in DOMAIN Blocks[step].columns |->
                      ColumnCells(step, Blocks[step].columns[c], w, left, k)])]

(***************************************************************************)
(* collectStepAnalyseRows: the workpackages of the step in the order of    *)
(* the manifest.  The first fault ends it.                                 *)
(***************************************************************************)
StepWork(step) == Select([k \in DOMAIN manifest.work |-> k], LAMBDA k : manifest.work[k].step = step)

WeakMissingRow(step, k) ==
  <<TextCell(RowDir(manifest.work[k].row))>>
  \o [h \in 1..(Len(PlanHeader(step)) - 1) |-> Missing] \o <<TextCell(outcome[k])>>

RowsOf(step, k) ==
  IF outcome[k] # "FINISHED" THEN <<WeakMissingRow(step, k)>>
  ELSE LET rows == WorkRows(step, manifest.work[k], content[k])
       IN [r \in DOMAIN rows |-> rows[r] \o (IF weak THEN <<TextCell("FINISHED")>> ELSE <<>>)]

StepRows(step) == FlattenSeq([j \in DOMAIN StepWork(step) |-> RowsOf(step, StepWork(step)[j])])

WorkFaults(step, k) ==
  IF outcome[k] # "FINISHED" THEN (IF weak THEN {} ELSE {"status"})
  ELSE PatternFaults(step, content[k]) \cup ValueFaults(step, manifest.work[k])

\* analyseOutputHeader.
OutputHeader(step) == PlanHeader(step) \o (IF weak THEN <<"jbs_status">> ELSE <<>>)

HeaderFaults(step) ==
  IF weak /\ "jbs_status" \in ToSet(PlanHeader(step)) THEN {"status column"} ELSE {}

\* Columns of a table are told apart without regard to case.
TableFaults(step) ==
  IF database /\ ~IsInjective([k \in DOMAIN OutputHeader(step) |-> SQLiteName(OutputHeader(step)[k])])
  THEN {"table"} ELSE {}

\* What can stop the analysis of a step; which of several faults it is does
\* not follow from the plan, files are read in the order of a Go map.
StepFaults(step) ==
  LET work == StepWork(step)
      bad == {j \in DOMAIN work : WorkFaults(step, work[j]) # {}}
  IN IF HeaderFaults(step) # {} THEN HeaderFaults(step)
     ELSE IF bad # {} THEN WorkFaults(step, work[Min(bad)])
     ELSE TableFaults(step)

-----------------------------------------------------------------------------
(***************************************************************************)
(* runOneStore.  The scheduler is a specification of its own; here it ends *)
(* with any statuses that it can end with.                                 *)
(***************************************************************************)
Parents(w) == {k \in DOMAIN manifest.work : \E d \in ToSet(w.deps) :
                 manifest.work[k].step = d.step /\ manifest.work[k].row = d.row}

Possible(st) ==
  \A k \in DOMAIN manifest.work :
    LET above == {st[p] : p \in Parents(manifest.work[k])} IN
    /\ st[k] \in {"FINISHED", "ERROR"} => above \subseteq {"FINISHED"}
    /\ st[k] = "BLOCKED" => above \cap {"ERROR", "BLOCKED"} # {}
    /\ st[k] \in {"NOTSTARTED", "INTERRUPTED"} => above \cap {"ERROR", "BLOCKED"} = {}

FinalStatus(st) ==
  LET all == {st[k] : k \in DOMAIN st} IN
  IF all \cap {"NOTSTARTED", "INTERRUPTED"} # {} THEN "INTERRUPTED"
  ELSE IF all \cap {"ERROR", "BLOCKED"} # {} THEN "ERROR" ELSE "FINISHED"

AnalysedSteps == Select([k \in DOMAIN manifest.steps |-> manifest.steps[k].name],
                           LAMBDA s : s \in Analyses)

Statuses == {"NOTSTARTED", "INTERRUPTED", "FINISHED", "ERROR", "BLOCKED"}

\* jbs run, or jbs continue: a run whose root status is RUNNING is refused,
\* finished workpackages are kept.
Execute ==
  /\ stage \in {"created", "done"} /\ program \in Executed /\ commands < MaxCommands
  /\ commands' = commands + 1
  /\ weak' \in BOOLEAN
  /\ outcome' \in {st \in [DOMAIN manifest.work -> Statuses] :
       Possible(st) /\ \A k \in DOMAIN outcome : outcome[k] = "FINISHED" => st[k] = "FINISHED"}
  /\ content' \in {left \in [DOMAIN manifest.work -> {<<>>} \cup UNION {Contents[s] : s \in Analyses}] :
       \A k \in DOMAIN left :
         IF k \in DOMAIN outcome /\ outcome[k] = "FINISHED" THEN left[k] = content[k]
         ELSE left[k] \in IF outcome'[k] = "FINISHED" /\ manifest.work[k].step \in Analyses
                          THEN Contents[manifest.work[k].step] ELSE {<<>>}}
  /\ root' = "RUNNING"
  /\ final' = FinalStatus(outcome')
  /\ fault' = "none"
  /\ IF final' = "FINISHED" \/ (weak' /\ final' = "ERROR")
     THEN stage' = "analyse" /\ todo' = AnalysedSteps
     ELSE stage' = "close" /\ todo' = <<>>
  /\ UNCHANGED <<madeVars, database, output, pending>>

\* One table per step: a database knows it by its name without case.
Key(step) == IF database THEN SQLiteName(step) ELSE step

Table(step) == [header |-> OutputHeader(step), rows |-> StepRows(step), at |-> commands]

\* runStepAnalyseCSV: the file is replaced as a whole.
AnalyseCSV ==
  /\ stage = "analyse" /\ ~database /\ todo # <<>> /\ StepFaults(Head(todo)) = {}
  /\ output' = Updated(output, Head(todo), Table(Head(todo)))
  /\ todo' = Tail(todo)
  /\ UNCHANGED <<madeVars, stage, database, weak, outcome, content, root, final, pending, fault, commands>>

InsertCommittingBug(step) ==
  /\ pending' = Updated(pending, Key(step), Table(step))
  /\ output' = Updated(output, Key(step), Table(step))

\* replaceAnalyseTable, in the transaction.
Insert(step) ==
  /\ pending' = Updated(pending, Key(step), Table(step))
  /\ UNCHANGED output

AnalyseSQLite ==
  /\ stage = "analyse" /\ database /\ todo # <<>> /\ StepFaults(Head(todo)) = {}
  /\ Insert(Head(todo))
  /\ todo' = Tail(todo)
  /\ UNCHANGED <<madeVars, stage, database, weak, outcome, content, root, final, fault, commands>>

\* An error: the transaction is rolled back, files already written stay.
AnalyseFails ==
  /\ stage = "analyse" /\ todo # <<>>
  /\ fault' \in StepFaults(Head(todo))
  /\ final' = "ERROR"
  /\ stage' = "close" /\ todo' = <<>> /\ pending' = <<>>
  /\ UNCHANGED <<madeVars, database, weak, outcome, content, root, output, commands>>

\* All steps are done; the transaction is committed.
AnalyseEnds ==
  /\ stage = "analyse" /\ todo = <<>>
  /\ output' = Joined(pending, output)
  /\ pending' = <<>>
  /\ stage' = "close"
  /\ UNCHANGED <<madeVars, todo, database, weak, outcome, content, root, final, fault, commands>>

\* MarkRootFinal.
Close ==
  /\ stage = "close"
  /\ root' = final
  /\ stage' = "done"
  /\ UNCHANGED <<madeVars, todo, database, weak, outcome, content, final, output, pending, fault, commands>>

\* jbs ends at any instruction: the root status stays, a transaction does not.
Killed ==
  /\ stage \in {"analyse", "close"}
  /\ stage' = "killed"
  /\ pending' = <<>>
  /\ UNCHANGED <<madeVars, todo, database, weak, outcome, content, root, final, output, fault, commands>>

-----------------------------------------------------------------------------
RunInit ==
  /\ database = FALSE /\ weak = FALSE
  /\ outcome = <<>> /\ content = <<>>
  /\ root = "NOTSTARTED" /\ final = "NOTSTARTED"
  /\ output = <<>> /\ pending = <<>>
  /\ fault = "none" /\ commands = 0

Init == PlanningInit /\ RunInit

Next ==
  \/ PlanningNext /\ UNCHANGED runVars
  \/ PlanAnalyses
  \/ Execute
  \/ AnalyseCSV \/ AnalyseSQLite \/ AnalyseFails \/ AnalyseEnds
  \/ Close
  \/ Killed

Spec == Init /\ [][Next]_vars

-----------------------------------------------------------------------------
(***************************************************************************)
(* Properties.                                                             *)
(***************************************************************************)
\* componentResult.Analysed, of a command that has ended.
Analysed == stage = "done" /\ fault = "none" /\ (root = "FINISHED" \/ (weak /\ root = "ERROR"))

\* Where the cells of column c of an analyse block stand in a row.
Offset(step, c) ==
  1 + Len(FlattenSeq([j \in 1..(c - 1) |-> ColumnHeader(step, Blocks[step].columns[j])]))

CellsOf(step, c, row) ==
  SubSeq(row, Offset(step, c) + 1, Offset(step, c) + Len(ColumnHeader(step, Blocks[step].columns[c])))

\* Two steps whose tables a database takes for one.
Clash(step) == \E s \in ToSet(AnalysedSteps) : s # step /\ Key(s) = Key(step)

\* The rows of a table that are of the k-th workpackage.
RowsOfWork(rows, k) == Select(rows, LAMBDA r : r[1].text = RowDir(manifest.work[k].row))

\* The rows of a finished workpackage: the cells of a column are, from the
\* first row on, all the matches of its pattern in what the workpackage has
\* left and then missing cells, or in every row its value.
FinishedComplete(step, k, rows) ==
  \A c \in DOMAIN Blocks[step].columns :
    LET col == Blocks[step].columns[c] IN
    IF IsPattern(step, col)
    THEN LET all == Matches(Pattern(step, col.source), content[k])
             none == [h \in DOMAIN ColumnHeader(step, col) |-> Missing]
         IN /\ Len(all) <= Len(rows)
            /\ \A r \in DOMAIN rows : CellsOf(step, c, rows[r]) = IF r <= Len(all) THEN all[r] ELSE none
    ELSE \A r \in DOMAIN rows : CellsOf(step, c, rows[r])[1].text = Text[manifest.work[k].values[col.source]]

\* The one row of any other: nothing but its status.
StatusOnly(rows, width) ==
  Len(rows) = 1 /\ \A h \in 2..(width - 1) : rows[1][h] = Missing

\* Rows follow one another as the workpackages of the step they are of.
InWorkOrder(step, rows) ==
  \A i, j \in DOMAIN rows : i < j => \E a, b \in DOMAIN manifest.work :
    /\ a <= b /\ manifest.work[a].step = step /\ manifest.work[b].step = step
    /\ rows[i][1].text = RowDir(manifest.work[a].row)
    /\ rows[j][1].text = RowDir(manifest.work[b].row)

\* Each row has a cell for every title; the rows of the workpackages follow one
\* another in the order of the manifest, and they are complete.
TableComplete(step, t) ==
  /\ \A r \in ToSet(t.rows) : Len(r) = Len(t.header)
  /\ InWorkOrder(step, t.rows)
  /\ \A k \in {k \in DOMAIN manifest.work : manifest.work[k].step = step} :
       /\ weak => \A r \in ToSet(RowsOfWork(t.rows, k)) : r[Len(r)].text = outcome[k]
       /\ IF outcome[k] = "FINISHED" THEN FinishedComplete(step, k, RowsOfWork(t.rows, k))
          ELSE StatusOnly(RowsOfWork(t.rows, k), Len(t.header))

\* A finished run is an analysed run.  After an analysis there is, for every
\* analysed step, a table of this command, and the table is complete: no match
\* is lost, none is moved to another column or workpackage, and of a
\* workpackage that has not finished there is nothing but its status.
AnalysisComplete ==
  /\ stage = "done" /\ root = "FINISHED" => Analysed
  /\ Analysed => \A s \in {s \in ToSet(AnalysedSteps) : ~Clash(s)} :
       /\ Key(s) \in DOMAIN output
       /\ output[Key(s)].at = commands
       /\ output[Key(s)].header = OutputHeader(s)
       /\ TableComplete(s, output[Key(s)])

\* The tables of a run in a database are replaced together, all by one command
\* or none: whatever fails or is killed, they are never of two runs of the
\* program (a reader would join rows that do not belong together).
TablesReplacedTogether ==
  [][database /\ output' # output =>
       \A s \in ToSet(AnalysedSteps) : Key(s) \in DOMAIN output' /\ output'[Key(s)].at = commands]_vars

\* An analysis that has been accepted with the program only fails for what the
\* work has left, for the column --weak adds, or for titles that differ in case
\* alone: the kind of a column fits the values of all its workpackages, also
\* when a component or a limit has left out those that decided it.
FailsForFilesOnly ==
  /\ fault \in {"none", "file", "capture", "status column", "table"}
  /\ fault \in {"status column", "table"} =>
       \E s \in ToSet(AnalysedSteps) :
         ~IsInjective([h \in DOMAIN OutputHeader(s) |-> SQLiteName(OutputHeader(s)[h])])
=============================================================================
