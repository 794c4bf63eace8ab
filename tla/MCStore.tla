------------------------------ MODULE MCStore -------------------------------
EXTENDS Store, TLC

Symmetry == Permutations(Writer) \cup Permutations(Starter)
=============================================================================
