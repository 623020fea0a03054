---------------------------- MODULE MCWorkspaces ----------------------------
EXTENDS Workspaces, TLC

Symmetry == Permutations(Handlers) \cup Permutations(Repos)
===========================================================================
