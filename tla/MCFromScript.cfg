\* Scripts of one document build, and move nodes that no open script points to,
\* and delete documents.
CONSTANTS
    A = A  B = B  e1 = e1  e2 = e2  e3 = e3  e4 = e4  x1 = x1
    Docs = {A}
    Elems = {e1, e2, e3}
    Texts = {x1}
    NULL = NULL
    ReplaceWithFragments = FALSE
    MaxFrames = 2
    Methods = {"append", "insert", "document"}
    ScriptMay = {"move", "drop"}
SPECIFICATION ScriptSpec
SYMMETRY Symmetric
INVARIANTS SoundWhenClosed DeletionWaits
PROPERTIES ClosingKeepsChildren ErrorRollsBack
