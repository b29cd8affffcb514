---------------------------- MODULE MCFromScript ----------------------------
EXTENDS FromScript, TLC

CONSTANTS A, B, e1, e2, e3, e4, x1

Symmetric == Permutations(Docs) \union Permutations(Elems) \union Permutations(Texts)
=============================================================================
