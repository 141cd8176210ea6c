------------------------------ MODULE MCStartup ------------------------------
(* Startup for TLC: the tsp processes are interchangeable.                  *)
EXTENDS Startup, TLC

CONSTANTS p1, p2, p3

MCPids == {p1, p2, p3}

Symmetry == Permutations(MCPids)
==============================================================================
