SPECIFICATION Spec
CONSTANTS
  Programs <- ChangingLibrary
  Written <- Text1
  ParsedAs <- ParsedText
  Meant <- Stmts
  Entry = "entry"
  MaxLoop = 2
  MaxDepth = 3
  Draws <- RandomDraws
INVARIANT SameData
