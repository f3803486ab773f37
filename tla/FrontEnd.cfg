SPECIFICATION Spec
CONSTANTS
  Programs <- AllPrograms
  Written <- Text1
  ParsedAs <- ParsedText
  Meant <- Stmts
  Entry = "entry"
  MaxLoop = 2
  MaxDepth = 3
  Draws <- RandomDraws
INVARIANTS
  ImportsComplete
  ReadAsWritten
  RootFrameAgrees
  CompiledOnce
  BlocksSeeTheirPlace
  DataSound
