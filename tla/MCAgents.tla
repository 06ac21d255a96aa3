------------------------------- MODULE MCAgents -------------------------------
EXTENDS Agents, TLC
CONSTANTS v1, v2, k1, k2, l1, l2
Symmetry == Permutations(Specialists) \union Permutations(ChatAgents) \union Permutations(Slots)
=============================================================================
