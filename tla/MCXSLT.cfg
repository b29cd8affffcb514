SPECIFICATION BothSpec
CONSTANTS
  Names = {"a"}
  VarNames = {"a", "b"}
  Modes = {}
  NoMode = "none"
  TemplateDecls <- MCTemplates
  NoPrio = 1000
  Bits = 4
  MaxSheets = 4
  MaxDecls = 3
  MixedDecls = FALSE
  LateImports = FALSE
  StaleMatch = FALSE
  Programs <- MCPrograms
  MaxFrames = 4
  MaxVars = 2
  MaxNested = 1
  Untangled = TRUE
  Instructions <- MCInstructions
  Source <- MCSource
INVARIANTS
  PrecedenceHolds
  LookupsAreLexical
  StacksFollowCalls
  NumbersAndSorts
CHECK_DEADLOCK FALSE
