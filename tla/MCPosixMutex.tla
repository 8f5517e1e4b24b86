---------------------------- MODULE MCPosixMutex ----------------------------
EXTENDS PosixMutex, TLC

(* No operation compares threads or mutexes of one kind.                   *)
Symmetry == Permutations(Thread) \union Permutations(ErrorCheck \ Dynamic)
=============================================================================
