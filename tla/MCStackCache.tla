---------------------------- MODULE MCStackCache ----------------------------
EXTENDS StackCache, TLC

(* No operation compares threads, addresses or kinds.                      *)
Symmetry == Permutations(Thread) \union Permutations(Addr) \union Permutations(Kind)
=============================================================================
