SPECIFICATION Spec
CONSTANTS
  Program <- MCProgram
  Version = {"t", "s", "e", "f", "g1", "g2", "v", "w"}
  Kind <- MCKind
  Columns <- MCColumns
  Cell <- MCCell
  Reserved = {"JBS_ROW"}
  NotAName = {"1"}
  WorkFiles = {"run.sh", "stdout", "stderr", "status", "exitcode"}
  Limits = {0, 1}
  Selections <- MCSelections
  Safe <- MCSafe
  Available = 4
  Blocks <- MCBlocks
  FileOrder <- MCFileOrder
  Contents <- MCContents
  KindOf <- MCKindOf
  Text <- MCText
  Readable <- MCReadable
  SameName <- MCSameName
  Executed <- MCExecuted
  MaxCommands = 2
CHECK_DEADLOCK FALSE
INVARIANTS
  DependenciesFirst
  RowsConsistent
  ExpansionComplete
  VisibleNames
  LimitMinimal
  CreationCannotFail
  AnalysisComplete
  FailsForFilesOnly
PROPERTY
  TablesReplacedTogether
