---------------------------- MODULE MCSchemaDefs ----------------------------
EXTENDS SchemaDefs
CONSTANTS e, f
MCElements == {e, f}
Symmetry == Permutations(MCElements)
=============================================================================
