--------------------------- MODULE MCPosixThread ---------------------------
EXTENDS PosixThread, TLC

(* The threads other than the main one are interchangeable.                *)
Symmetry == Permutations(Thread \ {Main})
=============================================================================
