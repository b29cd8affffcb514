\* Two documents, three elements, one leaf.
CONSTANTS
    A = A  B = B  e1 = e1  e2 = e2  e3 = e3  x1 = x1
    Docs = {A, B}
    Elems = {e1, e2, e3}
    Texts = {x1}
    NULL = NULL
    ReplaceWithFragments = FALSE
SPECIFICATION Spec
SYMMETRY Symmetric
INVARIANTS TreeIsSound
PROPERTIES ImplementsForest
