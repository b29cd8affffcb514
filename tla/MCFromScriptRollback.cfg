\* Scripts also move nodes that open scripts point to, then fail; a frame that uses
\* freed memory ends the model.
CONSTANTS
    A = A  B = B  e1 = e1  e2 = e2  e3 = e3  e4 = e4  x1 = x1
    Docs = {A}
    Elems = {e1, e2, e3}
    Texts = {x1}
    NULL = NULL
    ReplaceWithFragments = FALSE
    MaxFrames = 3
    Methods = {"append"}
    ScriptMay = {"moveAny"}
SPECIFICATION ScriptSpec
SYMMETRY Symmetric
PROPERTY ErrorAltersNothing
CHECK_DEADLOCK FALSE
