---------------------------- MODULE MCPageCache ----------------------------
EXTENDS PageCache, TLC

CONSTANTS p1, p2

MCP == {p1, p2}

Symmetry == Permutations(MCP)
====
