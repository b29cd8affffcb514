SPECIFICATION Spec
CONSTANTS
  Docs <- MCDocs
  Entities <- MCEntities
  N = 2
  Scripts <- MCScripts
  IgnoreWhite = {2}
  Codes = {"ok", "continue", "break", "error", "return", "wrong"}
  Validates = TRUE
  Shares = TRUE
  LeavesInEntity = FALSE
  MaxCount = 1
INVARIANTS TextIsWhole ParseLeavesNothing
PROPERTIES ImplementsHandlerSets
