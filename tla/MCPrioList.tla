----------------------------- MODULE MCPrioList -----------------------------
(* Three groups of priorities, their boundaries, and a few stray words.     *)
EXTENDS PrioList

MCUsed == {0, 1, 31, 32, 33, 63, 64, 69}
MCMemory == {{}, {0}, {5, 31}, Bits}
=============================================================================
