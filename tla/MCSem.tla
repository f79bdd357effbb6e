-------------------------------- MODULE MCSem --------------------------------
(* Two user tasks that share one semaphore.                                 *)
EXTENDS Sem

CONSTANT s1

MCPair == {1, 2}
MCSems == {s1}
=============================================================================
