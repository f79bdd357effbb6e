------------------------------ MODULE Highest ------------------------------
(***************************************************************************)
(* The answer of uLipeKernelFindHighPrio for the set of priorities a list  *)
(* stands for: the highest, and 0 for the empty set. PrioList shows that   *)
(* the two-level bitmap answers this; the modules of the scheduler and of  *)
(* the kernel objects take a list as the set and search it with Highest.   *)
(***************************************************************************)
EXTENDS Integers, FiniteSetsExt

Highest(S) == IF S = {} THEN 0 ELSE Max(S)
=============================================================================
