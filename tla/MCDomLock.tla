----------------------------- MODULE MCDomLock ------------------------------
EXTENDS DomLock

CONSTANTS r1, r2, w1, w2

BothCallers == {w1, w2}
AllReaders  == {r1, r2, w1, w2}
=============================================================================
