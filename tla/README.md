# A TLA+ verification of jbs

jbs runs benchmarks: a `.jbs` script describes steps, their parameters and
their dependencies; `jbs run` expands them to workpackages, creates a run
directory with one subdirectory per workpackage, and executes shell scripts
there; `jbs continue` resumes a run, `jbs archive` packs runs away,
`jbs fwait` waits for files. The modules in this directory follow a program
through all of it: from the text of the files to statements and values, to what
each step sees, to workpackages and a run directory, to the processes that are
started, their results and tables, and to the archive. All line numbers are
lines of the repository's `src/`, paths without a directory are below
`src/internal/`.

## Inventory

| component | state it keeps | operations | hard behaviour | what makes it correct |
|---|---|---|---|---|
| Lexer, parser, syntax tree (`lexer/`, `parser/`, `ast/`) | position in the text, errors | cut out statements, headers, shell bodies and clauses; parse them | six scanners with different ideas of quotes, brackets, comments; going on after errors | what is written is what is read; a malformed piece spoils no other |
| Imports (`imports/`) | modules, resolution stack | load, resolve, report cycles | diamonds and cycles, several aliases, refused uses | each module resolved once, every cycle found |
| Evaluator (`eval/`) | the memory: root frames, frames, serial of projection keys | expressions, functions, builtins, tables | evaluation order, captured frames, deletion in the middle of an expression, keys that stand for values | the documented meaning of combinations and tables; a key is one value |
| Semantic analysis (`sema/`) | globals, versions of bindings, snapshots, scopes of modules | execute globals, import, snapshot, prefix, merge; check blocks, plan scopes | two copies of the globals; snapshots found by keys; names that come by several ways | a step sees the globals of its place; a name means one thing |
| Work plan (`workplan/`, `planutil/`) | steps, states, rows | order, inherit, expand, filter, limit | merging the rows of branches, boundaries of limits | complete, without duplicates, dependencies first |
| Runtime plan (`run/plan.go`, `manifest.go`, `store.go`, `workdir_namespace.go`, `script.go`, `hash.go`, `fsub.go`) | manifest, run directory | name directories and links, validate, populate | names that meet in the file system | creating the run cannot fail |
| Scheduler (`run/scheduler.go`), processes (`run/process.go`) | statuses, dependency counts, ready queue, running set, limiters; a goroutine and a process group per shell; status files | start, finish, block, drain, SIGTERM/SIGKILL | goroutines, cancellation at any time, failing status writes, resuming a mixture of statuses | a shell runs only after its dependencies; limits hold; nothing forgotten, orphaned or repeated; the files tell the truth; a run ends |
| Analyses (`run/analyse.go`, `analyse_sqlite.go`, `sema/compile_analyse.go`) | CSV files, a transaction of a database | compile, plan, collect rows, replace tables | several matches, missing files, weak mode, kinds of columns, faults half-way | one complete table per analysed step; tables are replaced together |
| Root lock (`run/lock.go`) | `.jbs.lock`, `.jbs.lock.reclaim` | create, inspect, reclaim, release | several processes and hosts, death between any two system calls | one holder; a stale lock is recoverable, a live one is never taken |
| Run lifecycle (`run/command.go`, `store.go`, `lifecycle_lock.go`, `signal.go`, `paths.go`) | run directories, run ids, root status, locks | run, dry run, continue, hard exit | crash in any state, orphaned shells, several locks | a run is executed by one command at a time; ids are not reused over existing runs |
| Archive (`run/archive.go`) | the archive file, a snapshot of what was copied | discover, validate, rewrite, rename, remove, prune | crash and failure half-way, concurrent commands | what is removed is in the archive; running runs are left alone |
| File wait (`filewait/`) | snapshots, watches | watch, poll, complete | events missed, directories replaced | a change is noticed in the end, none is invented |
| Atomic files (`fsutil/atomic.go`) | temporary file, target | write, sync, rename, sync directory | failure before or after the rename | old or new content, never a mixture |
| Progress and reports (`run/progress.go`, `stats*.go`, `status_duration.go`, `analyse_summary.go`) | last snapshot, last rendering | update, flush, close | updates between ticks | the last state is shown |
| Benchmarks configuration (`benchmarks/`) | components | select, name directories | overlapping directories | components do not share a root |
| Command line, REPL (`cli/`, `repl/`) | options, history | dispatch, read, print | precedence of options | the documented options |
| Printing, diagnostics, names (`printparam/`, `valuefmt/`, `diag/`, `shellref/`, `shellvar/`, `runtimevar/`, `workdir/`, `patternutil/`) | none | formatting and lexical tests | none | formatting only |

How they interact: `cli` parses the command line, `imports` loads the files and
has `parser` parse them, `sema` compiles one module after the other, depth
first, and lets `eval` evaluate its expressions; `workplan` expands,
`run/plan.go` makes a manifest per component. `Run` and `Continue` then take the
root locks, create or open the run directories, and execute one component after
the other: `runOneStore` marks the root RUNNING, runs a scheduler, runs
analyses, and writes the final root status. Commands in different processes meet
only in the file system: lock files, root statuses, run directories and archive
files. Within a command the scheduler's goroutine owns its maps and hears from
process goroutines over one unbuffered channel.

## Modules

Front end, from the text of a program to what its steps see:

| module | models | used by |
|---|---|---|
| `Lexer` | tokens of a text | `Parsing`, `Builtins` |
| `Parsing` | what the parsers share: results, separators, error recovery within tokens | `Expressions`, `Statements` |
| `Expressions` | `parser_expr.go`: expressions and the bodies of functions | `Reading` |
| `Statements` | the other parsers: statement boundaries, headers, shell bodies, clauses | `Reading` |
| `Reading` | from the text of a file to the statements that the later stages go through | `FrontEnd` |
| `Imports` | `loader.go`: reading, resolving and importing files | `Globals`, `ImportsProofs` |
| `Tables` | values, tables, projection keys and their operations | `Operators`, `Scopes` |
| `Operators` | unary and binary operators, comparison, indexing, ranges | `Builtins` |
| `Builtins` | binding of arguments, builtin functions without calls | `Evaluator` |
| `Evaluator` | expressions, functions, frames, `delete`, map/reduce/filter | `Globals` |
| `Scopes` | scopes of modules: prefixing, merging, finding snapshots | `Globals` |
| `Globals` | the execution of the statements of a module | `FrontEnd` |
| `FrontEnd` | `compileModule`: their composition | `MCFrontEnd` |

Planning and running:

| module | models | used by |
|---|---|---|
| `StepScopes` | checks of do blocks, scope plans | `WorkPlan` |
| `WorkPlan` | expansion to workpackages, components, `--limit` | `RuntimePlan` |
| `RuntimePlan` | manifest and run directory | `Analyse` |
| `Analyse` | analyse blocks, their tables, commands that run and continue | `MCRuntimePlan`, `PlanProofs`, `AnalyseProofs` |
| `WorkOrder` | what running a component promises, seen from the run directory | refined by `Scheduler` |
| `Scheduler` | `Scheduler.Run`, `runProcess`, `runOneStore`, status files | `MCScheduler`, `SchedulerProofs` |
| `OwnedRoot` | what the lock of a root promises to the commands that use it | refined by `RootLock` and by `Lifecycle` |
| `RootLock` | `lock.go`, one action per system call | `MCRootLock`, `RootLockProofs` |
| `Lifecycle` | `Run`, `DryRun`, `Continue`, `ArchiveRoot` of several processes | `MCLifecycle`, `LifecycleProofs` |
| `FileWait` | `filewait.go` against a changing file system | `MCFileWait`, `FileWaitProofs` |

Proofs, each module extending the one it is about (see Proofs):

| module | about | theorems |
|---|---|---|
| `SchedulerProofs` | `Scheduler` | order, limits, queue, files, refinement of `WorkOrder`; nothing orphaned, results, draining, blocking |
| `RootLockProofs` | `RootLock` | exclusion, ownership, refinement of `OwnedRoot` |
| `LifecycleProofs` | `Lifecycle` | one execution, data kept and archived, refinement of `OwnedRoot` |
| `FileWaitProofs` | `FileWait` | what is reported, what is noticed |
| `ImportsProofs` | `Imports` | what is loaded, which cycles are reported |
| `PlanProofs` | `StepScopes` to `Analyse` | order of plans, tables of one run, names and rows of workpackages |
| `WorkProofs` | `WorkPlan`, `RuntimePlan`, on top of `PlanProofs` | which workpackages there are, what a limit keeps, that a run can be created |
| `AnalyseProofs` | `Analyse`, on top of `WorkProofs` | what can stop an analysis, what its tables hold |

What one group hands to the next is an assumption there and a property here:
`StepScopes` takes a version of a global for one value, and cells with one key
for one value (`CellAssumption`); `DataSound` of `FrontEnd` shows that the
evaluator and the imports produce nothing else. `Scheduler` takes manifests
whose dependencies point backwards (`DepsAssumption`); `DependenciesFirst` of
`RuntimePlan` shows that planning makes no others. `Analyse` runs its manifests
to the results that `Scheduler` allows (`Possible`, `FinalStatus`). `Lifecycle`
uses of the others only what they promise: its locks are those of `OwnedRoot`,
which `RootLock` implements, and executing a run is a phase in which shells
write (`Scheduler`).

### Lexer, Parsing, Expressions, Statements

A text is a sequence of words: symbols, keywords, numerals, names, a newline, a
quote, `$`, `#`, a backslash; what is between the quotes of a string are words,
too. Blanks are where two words meet. The operators are the parsing functions:
each takes the tokens, or the text, and a position, and gives the node, the
position where parsing goes on, and the codes of the errors. Where the code cuts
a piece out of the text and parses it on its own (statements, headers of `if`
and `while`, items of `with`, bodies), the model does the same, with the same
scanners: `StatementEnd` (`scanTopLevelStatementOffsets`), `BlockEnd`
(`readBalancedBlock`, with here-documents and `${...}`), `ControlHeader`
(`findControlBodyBrace`, which finds the brace by parsing what stands before
it), `ItemEnd` (`readWithItemExprText`). Nodes carry no positions. Errors are
sets of codes; texts of messages, carriage returns, numbers with points and the
layout of do headers (`parser_header_elements.go`, which only the printer uses)
are left out.

### Imports

`stack` is the recursion of `resolveModule`, `modules` its memo with the
accepted uses, `files` the statements of what has been read, flattened: a body
follows its statement, which knows its length. All files are in one directory; a
`use` of a bare name finds the file next to the importer or is unknown; paths
may lack the suffix. `Read` parses, so a file with a syntax error is loaded with
what could be parsed of it, as in the code. `CycleErrors` reports a cycle
when a use reaches a module that is still being resolved.

What parsing makes of a source is a constant operator here, `ParsedAs`; the
configuration gives it the parser, `ParsedText` of `Reading`. Loading can so be
reasoned about for any parser, and apart from recursive descent. Its
specification is `LoadSpec`: `LoadInit`, and every step is a `LoadNext` or one
of the later stages, of which `Afterwards` says what they leave alone. The
steps of `FrontEnd` are of that kind: its `Load` is `LoadNext`, and its other
actions do not touch what was loaded and only add errors.

### Tables, Operators, Builtins, Evaluator

A value is null, an int, a bool, a string (a sequence of words), a list, a tuple, a
dictionary, a function or a table; a table has an order of columns and rows of
cells, and a cell has a value and a key: the source, a serial number of the
memory, and the row it came from. Results are a value and codes of errors; as in
the code an evaluation goes on after an error, with null. A warning, about a
cast to a boolean or lengths that do not match, is a code of its own (`W101`): it
does not make a statement fail, but a call whose callee warns is not made.

The memory is `[roots, frames, serial, errs, aborted, globals]`: a root frame per
module, a frame per call (variables and the frame the function was made in),
the next serial for keys, what was reported, and the other three copies of the
globals, `values`, `vars` and `bindings`. `place` is the module, frame and depth
of a call; `MaxDepth` calls abort the evaluation (`aborted`), as 10000 do in the
code; a loop of more than `MaxLoop` rounds is an error, as 1000000 are. A function captures the frame
it is made in, by reference, and predeclares its local names. `delete` takes
names from each of the four copies, also in the middle of an expression
(`DeleteGlobal`). `sample` takes its picks from `Draws`.

Left out: floats and `/`, conversions between text and numbers, formatting,
`print`, `names`, `order`, `sort`, `read_csv`, `env`, `setseed`, `shell`, the
limits of sizes, and with these their warnings. An expression is always
evaluated as one that is assigned (`EvalCtxBindingAssign`): that is how the
globals are executed, and calls pass it on. `product` and `select` are in
`table_eval.go` but registered nowhere.

### Scopes, Globals, FrontEnd

`engine` is a running `globalSeqEngine`: the control stack of stretches of
statements (a body, or a loop with what is left of its items), the scopes of
what it imports, the snapshots. Its globals are in `memory`, because expressions
delete them: the root frame, the values, the variables with the version that
assigned them, and the current bindings. `Published` writes the four for an
assignment, a loop variable or an import; `RootFrameAgrees` compares them after
every step. An action is one statement, or one step of a loop.
`calls` is the recursion of `compileModule`, `cache` its results. A scope has
exports, local names, layers of bindings (the final ones, then those of every
snapshot), the snapshot of every block under a key of kind, name, file and
place, and the do blocks with their `with` and `after` names. `placed` is a
history variable: what the globals were when a block was passed.

### StepScopes, WorkPlan, RuntimePlan, Analyse

`stage` goes through checking, scope plans, building states, choosing a
component and a limit, naming, creating the directory, and, for the programs
in `Executed`, commands with their analyses. A state of a step has values,
the rows of sources it stands for, and its parents. Steps are ordered by the
depth-first search of `TopoStepOrder` (`Visit`, `Visited`, `Ordered`: `walk` is
its stack, `order` what it has left). The states of a step grow in `growing`:
`InheritParentStates` combines them with the states of one more dependency,
those that agree, `ExpandStep` adds a row for one more import, and `BuildStep`
makes the workpackages; `part` says how far that is. `SelectComponent` filters the
plan, `ApplyLimit` picks the branches, `KeepAncestors` adds what they rest on
until nothing is missing (a dependency the plan does not have is an error, which
`DependenciesFirst` excludes), and `KeepWork` leaves the rest out. `Picked` is
written as a recursive function, and what a step depends on (`Ancestors`) as the
least closed set, because those are forms that can be proved about.
The programs are given by their do blocks, with the versions of globals at
their place (`Scope`), which is what `FrontEnd` computes. In `Analyse` a command
draws the outcome of every workpackage from those the scheduler can end
in and what it has left behind from `Contents`; a regular expression is
given by its matches. The transaction of SQLite is `pending`; `Killed` loses it.

### Scheduler

The variables are the fields of `Scheduler` (`statuses`, `depsLeft`, `running`,
the limiters), the local queue `ready`, the status files `disk` and `root`, and
`proc`, the goroutine of each workpackage. `pc` is the place in `Run`: `loop`
(the inner loop and the tests after it), `select`, `drain` (`waitForRunning`),
`returned`, and `stopped` between two commands. Workpackages are numbers in
manifest order, so that the order in which they are queued can be stated.

- `Open` and its failing variants: `openContinuableStoresLocked` (refusal of a
  RUNNING root), `NormalizeStaleRunning`, `MarkRootRunning`, `loadStatuses`,
  `initialReady`. The variants stop after the first failing read or write.
- `Start`, `StartFails`, `RunCompletes`, `RunCancelled`, `RunWaits`: one
  iteration of the loop, with the tests in the order of the code.
- `ReceiveFinished`, `ReceiveError`, `ReceiveInterrupted`, `ReceiveFails`:
  `finish` with `releaseChildren` and `markBlocked`. A blocked child whose
  status cannot be written stops the walk below it, as in the code; the
  recursion is stated as the least closed set.
- `Drain`, `DrainFails`, `DrainEnds`: `waitForRunning`.
- `Exit`, `Terminate`, `GraceExpires`, `ExitTerminated`, `ExitKilled`:
  `runProcess`. A shell may end by itself although the context is cancelled.
- `Cancel`: the first signal. `Close`, `MarkRootFinalFails`: the rest of
  `runOneStore`, with the outcome of the analyses left open.

A write of a status file has three outcomes: done, failed with the old content
in place, failed with the new content in place (the directory sync).
Timestamps, messages, progress and exit codes are left out.

### RootLock

`lock` is the process whose file is at the path, `written` whether the
content is complete; `guard` is the reclaim file. A pid is never reused within
a behaviour. `Die` may happen anywhere, which is both the normal end and a
crash. `Inspect` and `Judge` are the two halves of `inspectLock`: reading the
file, and asking whether the owner exists.

`Settled` is an assumption about timing: while a reclaimer that holds the
reclaim file is between those two halves, the owner it has read does not both
release the lock and exit. The code relies on it without saying so; `Spec`
does not assume it, `SettledSpec` does.

### Lifecycle

A run is a directory with a status file, a data file with a version, and a
directory `sub`; the version stands for all that scripts write. `occupant`
names the run in a run directory, `latest` the version that was written last.
Processes take the locks of the benchmark and the component, in any order (the
code takes them in a fixed one; without waiting the order does not matter), and
are refused by a held lock. `shells` keeps running after its jbs died. The
archive is a set of pairs of run and version. Each step of `ArchiveRoot` that
another process or a crash can fall between is an action: discovery, the locks
of the components, validation, copying the old archive, copying each run,
renaming, removing each file (the deeper ones first, the status last), pruning,
releasing, pruning again.

Abstractions: one component per command; the staging directory is invisible
until its rename, so `Create` is one step; the second signal releases the locks
and exits in one step (`HardExit`); other refusals of `continue` (hashes,
manifest) are the free choice `OpenRefused`.

### FileWait

The file system (`node`) changes at every step: targets and directories above
them come, go and are written. The waiter prepares a snapshot of every target,
walks up to the deepest directory that exists and watches it and those below
(`refreshWatches`), checks, and then waits for a notification or a tick. `kernel` is what the
kernel watches, `watched` what the waiter believes: a directory that was removed
and made again is in the second only. `Stat` is what the waiter sees of a path,
`Chain` the directories from a path up to the top. Watches may fail and notifications may be
lost (`faults`), which is how a network file system behaves.

## Runs

| run | question | bounds |
|---|---|---|
| `SchedulerFaults` | all safety properties and the refinement of `WorkOrder` | `Net` (5 workpackages, 3 steps, limits 2, 1 and 0), two failed reads or writes anywhere, `run` and one `continue` |
| `SchedulerContinue` | what a run without write failures leaves undone; that every run ends, and a cancelled one even if no shell does | `Net`, no write failures, `run` and two `continue` |
| `RootLock` | exclusion, the refinement of `OwnedRoot`, that a stale lock does not block | 4 processes, two hosts, one failing call, `SettledSpec` |
| `LifecycleSuite` | no data lost, no run executed twice, archives grow | suite root and one component, 3 processes, 4 commands, 2 runs, 2 versions |
| `FileWait` | no change invented, none missed | two targets, one of them two directories deep, 3 changes, 1 fault |
| `RuntimePlan` (`planning`, 99000 states) | that planning is complete and consistent, and what it accepts can be created and analysed | 625 programs of three steps in five shapes and 35 single ones; 4 rows; limits 0 and 1; nine programs are run and continued |
| `FrontEnd` | that programs are read as written, imported completely, and that their steps see the right values | 6541 programs, see below; 2 loop rounds, 3 calls |
| `SchedulerLostCancel`, `SchedulerBlockedGap`, `RootLockRace`, `LifecycleSharedArchive`, `NamespaceBinding` | the divergences below | small |

Why the bounds are enough to be interesting: `Net` has a workpackage with two
parents, a parent with two children, a chain below, a step limit that is
smaller than the global one and one of zero; two faults allow a failure while
the run already drains from the first; two commands let a continuation meet
every mixture of statuses, three let it meet one that a continuation left. In
the lock, one process can hold, one reclaim, one wait for the reclaim file and
one come late, and one of them is on another host. In `LifecycleSuite` a run can be created, executed, orphaned,
continued and archived, and its id used again, with two other commands around.
In `FileWait` three changes make a directory, a file in it, and remove or rewrite
one, at any place of the waiter's walk. Planning imports from the product of two
columns, so that a cell stands in two rows and two branches can take a part of
it each; the single programs have diamonds of four steps, globals with two
versions, names that become one directory name, and every error.

The programs of `FrontEnd` (`MCFrontEnd`) are written as statements and printed,
so that they begin as text:
- import graphs: two uses of the entry, of 13 kinds, and one or none in each of
  two other files, so that all cycles, diamonds and clashes of aliases occur;
- 17 libraries that change, delete, loop, fail, or define functions between
  their blocks, under five importers, directly and through a module between;
- sequences of two out of ten table operations on four kinds of tables;
- functions: recursion to the limit, closures, defaults that read globals,
  spread arguments, loops, and deletions in expressions that then fail;
- every expression of two operators, in every operand, printed with the
  parentheses it needs and no others, in two places each;
- pairs of statements, and statements around each of 16 malformed pieces, in
  three layouts: a line each, on one line with `;`, and with comments that
  contain braces and quotes, and empty lines.
The malformed pieces have balanced brackets and closed strings; the text of the
others is swallowed by what follows, which nothing could prevent.

`begun`, `faults`, `runs`, `changes`, `commands` are the counters behind the
bounds of the processes; deadlock is allowed in those runs because the counters
run out and commands end. `FrontEnd` is checked for deadlock: it may only stop
when the program is compiled or refused (`Terminated`).

### Properties

- Scheduler: `DependenciesFinished`, `LimitsRespected`, `NoOrphans`,
  `QueueSound`, `DiskFollowsMemory`, `ResultTrue`, `FinishedIsFinal`,
  `OnlyFailuresBlock`, `DrainRecordsNoSuccess`, `FailedDependencyBlocks`,
  `CancelledRunEnds`, `RunEnds`, `OrderSpec`.
- Lock: `MutualExclusion`, `HolderIsNamed`, `OwnedSpec`, `StaleLockReclaimed`.
- Lifecycle: `NothingLost`, `ExecutedOnce`, `RunningDataKept`, `SnapshotsPreserved`.
- File wait: `OnlyRealChanges`, `NotificationsSuffice`, `ChangeEndsWait`.
- Planning: `DependenciesFirst`, `RowsConsistent`, `ExpansionComplete`,
  `VisibleNames`, `LimitMinimal`, `CreationCannotFail`.
- Analyses: `AnalysisComplete`, `FailsForFilesOnly`, `TablesReplacedTogether`.
- Front end: `ImportsComplete`, `CompiledOnce`, `ReadAsWritten`, `RootFrameAgrees`,
  `BlocksSeeTheirPlace`, `DataSound`. `CompiledOnce` compares the two searches
  for import cycles: the compiler's is silent, and must give an importer nothing
  only where the loader's has reported an error.

The type invariant of `Scheduler` is checked and proved; those of `RootLock`,
`Lifecycle` and `FileWait` are proved (the last two as parts of the invariants
below).
Each property is stated in words where it is defined. Definitions named `...Bug` are
variants of the definition after them with a mistake that is easy to make;
PROJECT.json pairs each property with one that breaks it.

### Fairness

`FairSpec` of the scheduler: weak fairness of the scheduler's goroutine (it
never stops while it has something to do), of each process goroutine's reaction
to the cancellation and its grace timer, and of the death of a killed shell. No
shell needs to end by itself: `CancelledRunEnds` holds without it. `RunEnds`
assumes, in its statement, that shells do end. `StaleLockReclaimed` states the
fairness it needs: a process that is not killed goes on; nothing is assumed
about being killed. `FairSpec` of `FileWait`: the waiter keeps running, and its
ticker ticks; nothing is assumed of notifications.

## Where code and documents part

Shown by a run:
- `SchedulerLostCancel`: a `continue` cancelled before its first retry returns
  ERROR, so `--weak` analyses run after an interruption (`scheduler.go:127`,
  `docs/help_run.md:102`).
- `SchedulerBlockedGap`: of a diamond, the BLOCKED status of the join is lost
  before the rename. A later continue, whose retry of the first workpackage fails
  again, skips the two in between, which are BLOCKED, and so does not reach the
  join: it stays NOTSTARTED, and the run ends INTERRUPTED though nobody
  interrupted it (`scheduler.go:319`, `docs/help_run.md:167`).
- `RootLockRace`: without `Settled` a reclaimer removes the lock of a live
  process (`lock.go:262`, `store_lock_test.go:46`).
- `LifecycleSharedArchive`: two directories of one name share an archive file
  and no lock; a snapshot can be dropped (`archive.go:329`,
  `docs/help_archive.md:34`).
- `NamespaceBinding`: importing a module under an alias replays the bindings of
  its past, so `with p.x` can give another value than the expression `p.x`, and a
  deleted name can be imported (`sema/global_plan_exec.go:484`,
  `docs/help_use.md:13`).

Met while reading, and modelled as the code is, but not shown by a run:
- Overlapping imports of branches that disagree stop planning with E500, after
  analysis has accepted the program (`workplan/build.go:428`,
  `docs/help_do.md:52`); `AcceptedBuilds` in `RuntimePlan` states what the
  document says and does not hold.
- `use run from "./steps.jbs"` is in `docs/help_use.md:24-32`; importing a step by
  name is E533 (`sema/module_imports.go:62`).
- Prefixing an imported `with cases[col]` prefixes `cases` only; `col` is then
  unknown (`sema/module_prefix.go:135`, `docs/language.md:633`).
- Of two blocks of one name in an imported module the second is dropped without
  E211 (`sema/module_scope.go:57`).
- A kind of a column that a `continue` would change stays as planned; titles that
  differ in case only make CREATE TABLE fail; step names that differ in case
  share a table (`docs/help_analyse.md:49`).
- `break}` without a blank: the statement is read up to and including the brace
  (`parser_toplevel.go:798`), so the body is not closed; `return }` in a
  function likewise. The texts here have a blank before every brace, and
  `ReadAsWritten` is about such. A malformed `do` header takes following lines with it
  (`parseNameList` skips newlines), and a header without a body takes a
  following line that begins with `{` for it. The scanner of shell bodies takes
  any `#` for a comment (`$#`, `a#b`) and `\` within single quotes for an escape.
- A use that is refused for its alias has read and parsed its file before
  (`loader.go:383`).
- `sort(x, inplace=True)` orders the evaluator's copy of `x` only; `with x` keeps
  the old order (`eval/sort_order.go:106`, `docs/function_help/sort.md:14`). Sorting
  is not modelled.

## Proofs

`SchedulerProofs`, for every manifest whose dependencies point backwards
(`DepsAssumption`), every limit, and every bound on faults and commands:
`TypeCorrect`, `DependenciesAreFinished`, `LimitsAreRespected`,
`DiskAgreesWithMemory`, `QueueIsSound`, `FinishedStaysFinished`,
`OnlyFailuresDoBlock`, `ImplementsWorkOrder`.

The properties are not inductive. The invariant `IInv` adds what they rest on:
the processes that are not idle are exactly the running ones; the limiters
equal the cardinalities of the running workpackages, in total and per step;
`depsLeft` is, for a workpackage that is neither running nor finished, the
number of its dependencies that are not FINISHED; a queued workpackage has none
left and is queued once; memory and disk agree unless the scheduler is failing;
and what memory calls FINISHED is FINISHED on disk even then. Each action
preserves it, one lemma per group of conjuncts; the action properties and the
refinement step follow from it. `IInv` was model-checked with two faults
before it was proved.

On top of `IInv`, in the same module: `NothingOrphaned`, `ResultIsTrue`,
`DrainDropsSuccess`, for any number of failing writes, and
`FailedDependenciesBlock`. `ResultIsTrue` needs to know what is missing from the
queue: `Offered` says that what may be started and has not had its turn is
queued, `Awaited` that `Run` waits only while something runs, `Signalled` that
only a cancellation makes a goroutine signal its shell. That an empty queue with
nothing running means success, or a failure above whatever is left, is then a
statement about the first workpackage that is not finished (`FirstWork`).
`FailedDependenciesBlock` has the hypothesis `MaxFaults = 0`: with failing writes
it is false (`SchedulerBlockedGap`). Its invariant adds that disk and memory are
equal, that only a cancelled run drains, that whatever was tried had finished
dependencies (`Tried`), and that everything below a failure is BLOCKED
(`BlockedBelow`), which `markBlocked` establishes as a least closed set.

`RootLockProofs`, for any set of processes, hosts and faults:
`TypeCorrect`, `OneHolder`, `HolderIsAlwaysNamed` and `OwnersKeepTheirLock`,
all from `SettledSpec`. The invariant says that whoever
writes, holds or releases owns the lock file (`Owning`), that whoever is in the
reclaim section owns the reclaim file (`Guarding`), that a reclaimer about to
remove the lock faces one of a dead process (`Condemned`), and where the
counters stand (`Trying`). `Condemned` is the conjunct that needs `Settled`.
And `ImplementsOwnedRoot` (`OwnedSpec`): with the process whose lock file is
there, if it is alive, for `owner`, and those that hold the lock for `inside`,
creating the file is `Take`, the sync `Enter`, reading it back before the release
`Retire`, removing it `Leave`, and so is the end of the owner; reclaiming removes
a file that stands for no owner any more, and is no step at all.

`LifecycleProofs`, for any roots, locks, processes and runs, and crashes at any
point: `RunsOnce` and `RunningKept` from the invariant `SInv`. A command knows
its root and run (`Placed`) and holds the locks of what it works on
(`LocksHeld`); what has a status or data exists (`Present`); shells run
only in directories whose status says so (`Busy`), the status follows the
command that executes the run (`Executed`), and the runs that an archive command
has validated stay what they were until it has removed them (`Validated`).
`SnapshotsAreKept` and `NothingIsLost` from `AInv`, which adds that what a
process has read of the archive is all that is in it (`ReadCurrent`), that its
copies are what the directories hold and that what it removes is in the archive
(`Copies`), that runs are numbered as they are created (`Numbered`), and that the
data in a directory is the last its run wrote (`Current`). Both have the
hypothesis `FilesDiffer`, that different roots are archived to different files:
the code does not see to it, and without it they are false
(`LifecycleSharedArchive`). The run `LifecycleSuite` satisfies it.
`UsesOwnedRoots`: the commands use the lock of every root as `OwnedRoot` has it,
where `inside` are those that work under the lock (`Working`, `Claim`): a command
enters a root only when it owns it, two never work in one, and what takes over
from a dead process finds nobody inside. So the same specification is what the
lock file implements and what the commands rely on. The second pruning of
`ArchiveRoot` (`pruneAgain`) comes after the release and is not counted as work,
as in the code. No run checks it (TLC does not take the instance for each root);
for the two roots of `LifecycleSuite` it was model-checked before it was proved.

`FileWaitProofs`, for any tree of directories, any targets, changes and faults:
`ReportsAreReal` and `NotificationsAreEnough`. The first rests on the file
system being a tree (`Tree`), on where the waiter is in it (`Walking`), on
nothing being notified before watches are added (`Quiet`), on an untouched
target being as its snapshot (`Intact`), and on notifications naming touched
targets only (`Named`). The second adds that without a loss the waiter knows
what the kernel watches (`Watching`), and that a waiter with nothing to receive
has covered every target it is done with (`Alert`): the directory of the target
is watched, or one above it in which the way to the target is missing; and the
targets it has looked at since are as in their snapshots. The argument about the directories
above a target uses `Chain` as a least closed set.

`ImportsProofs`: `LoadingIsComplete`, that `LoadSpec`, for any files, any uses
in them and any parser, loads exactly the modules that the accepted uses reach,
and reports a cycle exactly if there is one. The invariant says what the frames
hold (`Typed`), that a module is on the stack once and not after it is
loaded (`Phases`), that every frame was pushed for a use of the one below and
nothing is loaded that is not reached (`Linked`), and, while no cycle is
reported, that loaded modules use loaded ones only, and that a frame uses, apart
from those, the one above it at most (`Cycles`). Being on a cycle is stated with
sets that are closed under uses, so that no path needs to be exhibited.

`PlanProofs`: `PlansAreInOrder`, for any programs, that every plan
has its dependencies first, one for each step that is named, and no workpackage
twice, from the depth-first search to the limit; and `TablesOfOneRun`. `PlanInv`
says that the names on the stack and in the order are distinct (`Ordering`),
that what is imported has a scope (`Scoped`), that the states of a
step are its workpackages in the plan (`StatesAreWork`), that a state in the
making has one parent for every dependency that has been handled (`Building`),
and that the plan and the chosen part of it are in order. Filter and limit keep
it because a part of a plan that is closed under parents is in order
(`PartInOrder`), and they leave out no parent (`RequiredClosed`). For the tables,
`Transacted` says that a transaction has a table of this command for every step
that has been handled. Assumed of the programs is what their types say:
`ProgramAssumption`, that a program, `after`, `with`, the columns of its items
and the templates are sequences and names in scope have versions, and `CellAssumption`, that the
columns and the rows of a source are sequences and that cells with one key have
one value.

Also in `PlanProofs`: `NamesMeanOneThing` (`VisibleNames`) and `RowsStayConsistent` (`RowsConsistent`). `MeaningInv`
follows a name from its scope to its value. `OrderSound`: without a
cycle the search leaves every step after those it depends on (`Found`: a
dependency that is on the stack itself would close a cycle, `CycleFound`), and
steps are planned, and later built, in that order (`InTurn`), so
that what a step inherits from is there. `ScopesSound`: a name means in a step
what it means in each dependency and each item of `with`, and what is left to
expand are other names, each once. `StatesSound`: the states have just the names
their scopes promise, also half-way (`FirstNames`); a value is that of its
column in every row of its selection; a state keeps the values and, marked as
inherited, the rows of its parents (`Keeps`); and what it imports stays within
the inherited rows of the same source (`Within`). That two states with
equal meanings of a name can be joined at all is `MergeSound`; that a choice
brings only new names, and that the rows of a group have one value, `ChoiceSound`,
which needs the assumption on keys. "choice disagrees" is never reported because
of the last part of `ScopesSound`.

`WorkProofs`, for any programs, data and selections: `ExpansionIsComplete`
(`ExpansionComplete`). What `MeaningInv` says of every state that is there,
`WorkInv` says of every state that should be: each combination of the
dependencies handled so far that agrees, with each choice for the imports
handled so far, has exactly one state (`EveryOnce`), whose selections are all the
rows alike to the chosen ones, of those open to the import (`MadeOf`). It is kept
because combining loses no pair and makes none twice, which is about `Picked` and
`FlattenSeq` (`CombinedOnce`); because the values of a state are those of its
parents and no others (`ComposedOf`), so that a state agrees with one more parent
just if all its parents do (`InheritOnce`); because the groups of `RowChoices`
cut the open rows into pieces (`ChoicesOnce`), rows being alike an equivalence;
and because the rows a state has inherited of a source are those of its parents,
so that what is open depends on the combination alone (`LeftIsOpen`). That an
import of a whole source is told from one that lost a column to a dependency
comes from the lengths of the lists of columns (`ItemsSound`).

Also in `WorkProofs`: `LimitKeepsWhatIsNeeded` (`LimitMinimal`), for any limits
in `Nat` (`LimitsAssumption`: the command line refuses others). `LimitInv` says
that all steps are planned (`StepsPlanned`), that the workpackages of a step
stand in the plan in the order of their rows (`RowsPlanned`), so that the first
ones the limit counts are the ones with the least rows, and, while
`KeepAncestors` takes its steps, that what is kept are those or a dependency of
what is kept (`KeptSound`). Every dependency of what is kept is then kept, since
the loop ends only when nothing is needed that is not kept. The targets are those of the limit
because a step without successor in a component is one without successor among
the steps that the component requires.

And `RunsCanBeCreated` (`CreationCannotFail`): no directory that
`populateRunTree` makes fails for a name that is missing or given twice.
`CreateInv` carries what each stage of planning has ruled out: the templates of
an accepted program name variables their step sees (`TemplatesChecked`); the
values of a workpackage are those of the names its step sees (`WorkNamed`, from
`StatesSound` of `MeaningInv`); a component has the step of each of its
workpackages once (`ChosenKnown`). A manifest made of that is `Creatable`: the
dependencies of its work are in it (`DependencyPlanned`), the names of links and
templates differ because `NamespaceError` has found none alike (`EntriesAre`),
and no two steps have one directory (`DirectoriesDiffer`), as among as many
numbers as there are directories and one more a free one is found (`FreeName`). The last
rests on `NumberAssumption`, that different numbers give a directory different names:
it is the only thing assumed of `ToString`, which the prover knows nothing about.

`AnalyseProofs`, for any programs, data, contents, statuses and continuations:
`AnalysesFailForFiles` (`FailsForFilesOnly`), no value stops an analysis.
The kinds of a column are merged over the workpackages of the plan of all steps,
and what is analysed may be any part of them, so that the kind must fit every
value: `Fits` says what can be read as what, `MergeKinds` gives a kind that both
of its arguments fit, and the fold one that all fit (`FoldedFit`, by the least
counterexample; it is a recursive function in `WorkValueKind` for that).
`FailInv` carries that the values of a plan are those of cells (`ValuesKnown`),
that the workpackages of a manifest have values of the plan (`FromPlan`), that
only a command that has finished or is weak comes to analyse, and that a table
fails only if two of its titles are one name (`BadTable`). The assumptions are
`BlockAssumption`, that columns and patterns are lists and that what is analysed
has a block, and `KindAssumption`, that a cell has one of the four kinds, that
the text `Value.String` writes for a number or a truth value can be read again as
its kind (`strconv` in `analyseCellFromWorkValue`), and an integer also as a float.

And `AnalysesAreComplete` (`AnalysisComplete`), that the tables hold all there
is, each cell in its place. `TabInv` carries it through a command: the columns of
an analysed step are patterns of its block or names that it sees, so that every
workpackage in the manifest has their values (`ColumnsPlanned`,
`ColumnsRecorded`); a workpackage that has finished has left contents, and a run
that has finished has only such (`OutcomesSound`); while tables are made, each
step has its table of this command or is still to come, and an analysis that
ends well leaves none to come (`TablesSound`). That the table of these
workpackages is complete is then a fact about operators: the rows of one
workpackage are as wide as the header, name it, and have all matches of a column and then
missing cells, or its value, between the offsets of the column (`RowsSound`;
`RowPlaces` says where in a row what `FlattenSeq` joins comes to stand), and the
rows of all of them in one table are told apart by their run ids, which differ as
the numbers do (`RowDir`, `TableSound`). Assumed besides `BlockAssumption` is
`ContentAssumption`, that the sorted files and the matches in each of them are
sequences.

Where an argument is by induction over a number, the proofs take the least
counterexample (`WFMin` with the order of the natural numbers), because the
induction rules of the library take operators as parameters, which the provers
cannot instantiate.

Only model-checked:
- `CancelledRunEnds`, `RunEnds`, `StaleLockReclaimed`, `ChangeEndsWait`: liveness
  under fairness is beyond the prover;
- `CompiledOnce`, `ReadAsWritten`, `RootFrameAgrees`, `BlocksSeeTheirPlace` and
  `DataSound`: their modules are recursive descent and recursive evaluation
  (RECURSIVE operators), which the prover does not take.

## Not modelled

- Evaluator and analysis: floats, text conversions and formatting, ordering and
  sorting, printing, reading of CSV files and the environment, shell calls,
  random seeds, limits of sizes; which globals depend on which (`DependsOn`) and
  the catalogue of names, which only serve warnings and hints; materialized functions.
- Parser: the layout of headers over lines, texts and places of messages, the
  scan of incomplete input for the REPL.
- Runs: hashes, the text of scripts and substitutions, failing system calls
  while a run directory is populated, databases beside the archived runs, the
  removal of an emptied benchmark root, run ids as digit strings (they are
  numbers here), several components per command.
- Progress and status reports, the benchmarks configuration, the command line,
  the REPL, printing of parameters, formatting of values, diagnostics and the
  lexical tests of names: input, output and pure functions without an order of
  events.

## Plan

1. Lifecycle with several components per command and the scheduler's
   cancellation in it, so that `HardExit` can be split; that locks taken before
   a refused one are released.
2. `compareRunIDNames` and `nextRunIDAfter` on digit sequences; the benchmarks
   configuration; the throttled rendering of progress.
3. Ordering, sorting and `DependsOn` in the evaluator; the selection rules of
   the benchmarks file.
