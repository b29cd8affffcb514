\* Scripts nest twice and may delete the document they have locked.
CONSTANTS
    t1 = t1  t2 = t2   d1 = d1  d2 = d2  l1 = l1  l2 = l2  h1 = h1  h2 = h2
    Threads = {t1, t2}
    Docs = {d1, d2}
    Locks = {l1, l2}
    NULL = NULL
    Handles = {h1, h2}
    MaxFrames = 2
SPECIFICATION Spec
SYMMETRY Symmetric
INVARIANTS LocksFollowDocuments DeadlockOnlyByNesting
\* Nested scripts that wait for each other do stop.
CHECK_DEADLOCK FALSE
