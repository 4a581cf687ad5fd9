------------------------------- MODULE MCPage -------------------------------
EXTENDS Page, TLC

Symmetry == Permutations(Paths) \cup Permutations(Keys) \cup Permutations(Names)
=============================================================================
