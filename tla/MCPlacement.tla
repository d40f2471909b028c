----------------------------- MODULE MCPlacement -----------------------------
EXTENDS Placement, TLC
CONSTANTS a, b, i, j
Sym == Permutations(Projects) \cup Permutations(Issues)
=============================================================================
