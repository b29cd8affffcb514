SPECIFICATION ValidatorsSpec
CONSTANTS
  Schemas <- MCSchemas
  Names = {"r", "a", "b"}
  Texts = {"good", "bad"}
  Answers = {"none", "ok", "ignore", "vanish", "error"}
  MaxDepth = 3
  MaxKids = 3
  MaxStack = 6
  Dtds <- MCDtds
  NameWords = {"n", "m"}
  TokenWords = {"1"}
  EmptyCdata = FALSE
  Definitions <- MCDefinitions
INVARIANTS AcceptsExactly ExpectedIsAccepted StateFollowsDocument ValidatesExactly TextsComply
