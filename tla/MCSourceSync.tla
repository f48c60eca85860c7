---------------------------- MODULE MCSourceSync ----------------------------
EXTENDS SourceSync, TLC

Symmetry == Permutations(Worker)
=============================================================================
