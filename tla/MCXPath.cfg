CONSTANTS
  a1 = a1
  a2 = a2
  b1 = b1
  t1 = t1
  x1 = x1
  Elements = {a1, a2, b1}
  Texts = {t1}
  Attrs = {x1}
  Name <- MCName
  AttrsOf <- MCAttrsOf
  Steps <- MCSteps
  Unions <- MCUnions
  Patterns <- MCPatterns
  MaxChanges = 1
  MaxSteps = 2
  Alphabets <- MCAlphabets
  MaxLexemes = 4
  Applications <- MCApplications
SYMMETRY Twins
SPECIFICATION XPathSpec
INVARIANTS PrecedesIsDocumentOrder QuerySelects MatchIsSelection ParsesAsXPath ComputesAsXPath
CHECK_DEADLOCK FALSE
