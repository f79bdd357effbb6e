----------------------------- MODULE PrioQueue -----------------------------
(***************************************************************************)
(* What a priority list promises to the scheduler, the tick and the kernel *)
(* objects: a set of priorities to which a priority is added, from which   *)
(* one is removed, and whose highest member is found, 0 standing both for  *)
(* priority 0 (the idle task) and for the empty set.                       *)
(***************************************************************************)
EXTENDS Highest

CONSTANT Used              \* the priorities tasks are given

VARIABLES members,         \* the priorities in the list
          found            \* the answer of the last search

absVars == <<members, found>>

AbsInit == members = {} /\ found = 0

Insert(p) == members' = members \cup {p} /\ UNCHANGED found

Remove(p) == members' = members \ {p} /\ UNCHANGED found

Search == found' = Highest(members) /\ UNCHANGED members

AbsNext == Search \/ \E p \in Used : Insert(p) \/ Remove(p)

AbsSpec == AbsInit /\ [][AbsNext]_absVars
=============================================================================
