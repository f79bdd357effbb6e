----------------------------- MODULE Allocator -----------------------------
(***************************************************************************)
(* What the heap promises: every block handed out lies inside the heap, is *)
(* as large as was asked for, and shares no byte with another one until it *)
(* is given back.                                                          *)
(***************************************************************************)
EXTENDS Integers

CONSTANTS Low, High,       \* the addresses of the heap
          Align            \* what addresses are a multiple of

VARIABLE live              \* the blocks handed out: [addr, len]

Disjoint(r, s) == r.addr + r.len <= s.addr \/ s.addr + s.len <= r.addr
Inside(r) == Low <= r.addr /\ r.addr + r.len <= High /\ r.addr % Align = 0

AllocatorInit == live = {}

Acquire == \E r \in live' \ live : /\ live' = live \cup {r}
                                   /\ Inside(r)
                                   /\ \A s \in live : Disjoint(r, s)

Release == \E r \in live : live' = live \ {r}

AllocatorSpec == AllocatorInit /\ [][Acquire \/ Release]_live
=============================================================================
