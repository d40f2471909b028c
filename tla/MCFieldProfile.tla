--------------------------- MODULE MCFieldProfile ---------------------------
EXTENDS FieldProfile, TLC
CONSTANTS a, b, i, j, u, v
Sym == Permutations(Projects) \cup Permutations(Issues) \cup Permutations(Vals)
=============================================================================
