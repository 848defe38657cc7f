---------------------------- MODULE MCLibcCall ----------------------------
EXTENDS LibcCall, TLC

CONSTANTS g1, g2

MCG == {g1, g2}

Symmetry == Permutations(MCG)
====
