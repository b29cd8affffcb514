SPECIFICATION Spec
SYMMETRY Symmetry
CHECK_DEADLOCK FALSE
CONSTANTS
  Elements <- MCElements
  e = e
  f = f
  Types = {t}
  Patterns = {p}
  Texts = {x}
  Groups = {"CHOICE"}
  MaxParticles = 4
  MaxDepth = 3
  MaxContent = 2
INVARIANTS DefinitionsAreSound InstancesFollowType
