------------------------------ MODULE PrioList ------------------------------
(***************************************************************************)
(* OsPrioList_t, the two-level bitmap every list of tasks of the kernel is *)
(* made of (include/microkernel/OsKernel.h), with its three operations:    *)
(* uLipePrioSet, uLipePrioClr and uLipeKernelFindHighPrio in its portable  *)
(* version (microkernel/OsKernel.c).                                       *)
(*                                                                         *)
(* A 32-bit word is the set of the numbers of its bits that are set.       *)
(***************************************************************************)
EXTENDS Highest

CONSTANTS N,               \* OS_NUMBER_OF_TASKS
          Used,            \* the priorities tasks are given
          Memory           \* words that may lie behind the end of the table

Prio == 0..N-1
Bits == 0..31
Words == SUBSET Bits

ASSUME NAssumption == N \in 1..1024
ASSUME UsedAssumption == Used \subseteq Prio
ASSUME MemoryAssumption == Memory # {} /\ Memory \subseteq Words

VARIABLES prioGrp,         \* one bit per word of the table
          prioTbl,         \* one bit per priority
          found            \* the answer of the last search

vars == <<prioGrp, prioTbl, found>>

Groups == 0..N \div 32     \* prioTbl has OS_NUMBER_OF_TASKS/32 + 1 words

\* prio >> 5 and prio & 0x1F
GroupOf(prio) == prio \div 32
BitOf(prio)   == prio % 32
-----------------------------------------------------------------------------
\* Faulty: scans from the other end of the word.
FSScanFromBelow(word) == IF word = {} THEN 32 ELSE 31 - Min(word)

\* The number of leading zeros: 32 for the word without a bit.
FSScan(word) == IF word = {} THEN 32 ELSE 31 - Max(word)

\* OS_KERNEL_ENTRIES_FOR_GROUP minus the scan, kept in a uint16_t and clipped.
ScanDown(word) == LET x == (31 - FSScan(word)) % 65536
                  IN  IF x > 32 THEN 31 ELSE x

\* prioTbl[x]: beyond the table lies some other word of the memory.
WordAt(x, stray) == IF x \in Groups THEN prioTbl[x] ELSE stray

\* Faulty: the wrap of the answer into the priorities is missing.
FindHighPrioUnwrapped(stray) ==
    LET x == ScanDown(prioGrp)
    IN  32 * x + ScanDown(WordAt(x, stray))

FindHighPrio(stray) ==
    LET x   == ScanDown(prioGrp)
        y   == ScanDown(WordAt(x, stray))
        ret == 32 * x + y
    IN  IF ret > N-1 THEN 0 ELSE ret
-----------------------------------------------------------------------------
Init == /\ prioGrp = {}
        /\ prioTbl = [x \in Groups |-> {}]
        /\ found = 0

\* Faulty: assigns the word instead of adding a bit to it.
PrioSetAssigns(prio) ==
    /\ prioGrp' = prioGrp \cup {GroupOf(prio)}
    /\ prioTbl' = [prioTbl EXCEPT ![GroupOf(prio)] = {BitOf(prio)}]
    /\ UNCHANGED found

PrioSet(prio) ==
    /\ prioGrp' = prioGrp \cup {GroupOf(prio)}
    /\ prioTbl' = [prioTbl EXCEPT ![GroupOf(prio)] = @ \cup {BitOf(prio)}]
    /\ UNCHANGED found

\* Faulty: drops the group without looking at the rest of its word.
PrioClrDropsGroup(prio) ==
    /\ prioTbl' = [prioTbl EXCEPT ![GroupOf(prio)] = @ \ {BitOf(prio)}]
    /\ prioGrp' = prioGrp \ {GroupOf(prio)}
    /\ UNCHANGED found

PrioClr(prio) ==
    /\ prioTbl' = [prioTbl EXCEPT ![GroupOf(prio)] = @ \ {BitOf(prio)}]
    /\ prioGrp' = IF prioTbl'[GroupOf(prio)] = {}
                  THEN prioGrp \ {GroupOf(prio)}
                  ELSE prioGrp
    /\ UNCHANGED found

Find == /\ \E stray \in Memory : found' = FindHighPrio(stray)
        /\ UNCHANGED <<prioGrp, prioTbl>>

Next == \/ \E prio \in Used : PrioSet(prio) \/ PrioClr(prio)
        \/ Find

Spec == Init /\ [][Next]_vars
-----------------------------------------------------------------------------
(* Properties                                                              *)

\* The words hold bit numbers, and a search never answers a number that is
\* no priority: tcbPtrTbl is indexed with it.
TypeOK == /\ prioGrp \in Words
          /\ prioTbl \in [Groups -> Words]
          /\ found \in Prio

\* uLipePrioClr drops a group exactly when its last priority leaves it, and
\* uLipePrioSet raises it: the two levels never disagree.
GroupMirrorsTable == \A x \in Bits :
    x \in prioGrp <=> (x \in Groups /\ prioTbl[x] # {})

\* The set of priorities the bitmap stands for.
Members == {prio \in Prio : BitOf(prio) \in prioTbl[GroupOf(prio)]}

\* uLipeKernelFindHighPrio answers the highest member, and 0 for the empty
\* list, whatever lies in memory behind the table it then reads past.
FindIsHighest == \A stray \in Memory : FindHighPrio(stray) = Highest(Members)

\* The bitmap implements a set of priorities with its highest member.
Abs == INSTANCE PrioQueue WITH members <- Members
AbsSpec == Abs!AbsSpec
=============================================================================
