-------------------------- MODULE MCEntityWrites --------------------------
EXTENDS EntityWrites, TLC

Symmetry == Permutations(Proc)
===========================================================================
