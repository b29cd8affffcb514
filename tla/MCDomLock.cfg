\* Two threads that only read, two that read or write; no symmetry because of
\* the temporal properties.
CONSTANTS
    r1 = r1  r2 = r2  w1 = w1  w2 = w2
    ReadCallers <- AllReaders
    WriteCallers <- BothCallers
SPECIFICATION FairSpec
INVARIANTS LockConsistent NoLostWakeup
PROPERTIES WritersNotStarved ImplementsRWLock
