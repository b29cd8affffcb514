------------------------------ MODULE MCDomTree -----------------------------
EXTENDS DomTree, TLC

CONSTANTS A, B, e1, e2, e3, x1

Symmetric == Permutations(Docs) \cup Permutations(Elems) \cup Permutations(Texts)
=============================================================================
