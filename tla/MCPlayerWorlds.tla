--------------------------- MODULE MCPlayerWorlds ---------------------------
EXTENDS PlayerWorlds, TLC

CONSTANTS k1, k2, over, under

\* The worlds are alike, and so are the clients of one kind.
Symmetry == Permutations({over, under})
=============================================================================
