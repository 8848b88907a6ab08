-------------------------- MODULE MC_ChatRegistry --------------------------
EXTENDS ChatRegistry, TLC

Symmetry == Permutations(Opens)
=============================================================================
