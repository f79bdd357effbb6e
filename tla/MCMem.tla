------------------------------- MODULE MCMem -------------------------------
(* Requests of three first levels, one of them rounded up to where a class  *)
(* begins, and one beyond the largest block.                                *)
EXTENDS Mem

MCRequests == {1, 140, 280, 17000}
=============================================================================
