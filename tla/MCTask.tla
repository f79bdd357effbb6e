------------------------------- MODULE MCTask -------------------------------
(* Three user tasks with the idle task below and the mutex priority above.  *)
EXTENDS Task

MCBoot == {1, 2, 3}
MCPair == {1, 2}
=============================================================================
