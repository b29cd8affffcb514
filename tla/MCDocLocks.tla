----------------------------- MODULE MCDocLocks -----------------------------
EXTENDS DocLocks, TLC

CONSTANTS t1, t2, d1, d2, l1, l2, h1, h2

Symmetric == Permutations(Threads) \cup Permutations(Docs) \cup Permutations(Locks)
             \cup Permutations(Handles)
=============================================================================
