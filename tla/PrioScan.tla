------------------------------ MODULE PrioScan ------------------------------
(***************************************************************************)
(* uLipeKernelFindHighPrio as a thread runs it from uLipeKernelTaskYield:  *)
(* with the interrupts enabled, so between its read of prioGrp and its     *)
(* read of prioTbl[x] the tick, or threads that preempt the caller, may    *)
(* run whole critical sections that set and clear priorities.              *)
(***************************************************************************)
EXTENDS PrioList

VARIABLES scan,            \* the x of a search between its two reads, or Idle
          tops             \* every highest member since the search began

scanVars == <<vars, scan, tops>>

Idle == -1

Top == Highest(Members)

ScanInit == Init /\ scan = Idle /\ tops = {}

\* x = 31 - clz(prioGrp)
ScanGroup ==
    /\ scan = Idle
    /\ scan' = ScanDown(prioGrp)
    /\ tops' = {Top}
    /\ UNCHANGED vars

\* Faulty: the wrap is off by one.
ScanTableOffByOne ==
    /\ scan # Idle
    /\ \E stray \in Memory :
         LET ret == 32 * scan + ScanDown(WordAt(scan, stray))
         IN  found' = IF ret > N THEN 0 ELSE ret
    /\ scan' = Idle
    /\ UNCHANGED <<prioGrp, prioTbl, tops>>

\* y = 31 - clz(prioTbl[x]), and the answer formed from both
ScanTable ==
    /\ scan # Idle
    /\ \E stray \in Memory :
         LET ret == 32 * scan + ScanDown(WordAt(scan, stray))
         IN  found' = IF ret > N-1 THEN 0 ELSE ret
    /\ scan' = Idle
    /\ UNCHANGED <<prioGrp, prioTbl, tops>>

\* A critical section of someone else.
Preempt ==
    /\ \E prio \in Used : PrioSet(prio) \/ PrioClr(prio)
    /\ tops' = IF scan = Idle THEN tops ELSE tops \cup {Top'}
    /\ UNCHANGED scan

ScanNext == ScanGroup \/ ScanTable \/ Preempt

ScanSpec == ScanInit /\ [][ScanNext]_scanVars
-----------------------------------------------------------------------------
\* While every priority lies in one group that is not full (fewer than 32
\* tasks), a search that is preempted between its two reads still answers a
\* priority that was the highest at some moment of the search.
ScanAnswersATop == [][ScanTable => found' \in tops]_scanVars
=============================================================================
