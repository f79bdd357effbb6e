------------------------------ MODULE MCDriver ------------------------------
(* Two user tasks that share one device; each may create its semaphore, and *)
(* one of the application's own may take the memory for the second.         *)
EXTENDS Driver, TLC

CONSTANTS s1, s2

MCPair == {1, 2}
MCSems == {s1, s2}
MCSymmetry == Permutations(MCSems)
=============================================================================
