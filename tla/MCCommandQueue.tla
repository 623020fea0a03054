-------------------------- MODULE MCCommandQueue --------------------------
EXTENDS CommandQueue, TLC
CONSTANTS s1, s2
MCPolicy == [cfg \in Configs |-> cfg]
SessionSymmetry == Permutations({s1, s2})
===========================================================================
