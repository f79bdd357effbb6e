----------------------------- MODULE MCPrioScan -----------------------------
(* One group, as large as it may be, with the priorities at its ends.       *)
EXTENDS PrioScan

MCUsed == {0, 1, 15, 29, 30}
MCMemory == {{}, {4}, Bits}
=============================================================================
