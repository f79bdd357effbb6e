--------------------------- MODULE PrioListProofs ---------------------------
(***************************************************************************)
(* The priority list is correct for every number of tasks below 1024:      *)
(* proofs about PrioList and PrioScan.                                     *)
(***************************************************************************)
EXTENDS PrioScan, HighestProofs

\* Shifting and masking take a priority apart, and 32 x + y puts it together.
LEMMA GroupAndBit ==
  ASSUME NEW prio \in Prio
  PROVE  /\ GroupOf(prio) \in Groups
         /\ GroupOf(prio) \in Bits
         /\ BitOf(prio) \in Bits
         /\ prio = 32 * GroupOf(prio) + BitOf(prio)
BY NAssumption DEF Prio, Groups, Bits, GroupOf, BitOf

\* The two parts of 32 x + y are x and y.
LEMMA PrioOfGroupAndBit ==
  ASSUME NEW x \in Nat, NEW y \in Bits
  PROVE  GroupOf(32 * x + y) = x /\ BitOf(32 * x + y) = y
BY DEF Bits, GroupOf, BitOf

\* A uint16_t wraps once when a subtraction goes below zero.
LEMMA Underflow ==
  \A n \in Nat : n > 31 /\ n < 1000 => (31 - n) % 65536 = 65567 - n
OBVIOUS

\* The scan finds the highest bit; of a word without one it makes bit 31.
LEMMA ScanDownIsMax ==
  ASSUME NEW word \in Words
  PROVE  /\ ScanDown(word) = IF word = {} THEN 31 ELSE Max(word)
         /\ ScanDown(word) \in Bits
<1>1. CASE word = {}
  <2>1. PICK n \in Nat : n = FSScan(word) /\ n > 31 /\ n < 1000
    BY <1>1 DEF FSScan
  <2>2. (31 - n) % 65536 > 32
    BY <2>1, Underflow
  <2>3. ScanDown(word) = 31
    BY <2>1, <2>2 DEF ScanDown
  <2> QED  BY <1>1, <2>3 DEF Bits
<1>2. CASE word # {}
  <2>1. Max(word) \in Bits
    BY <1>2, MaxIsGreatest DEF Words, Bits
  <2>2. FSScan(word) = 31 - Max(word)
    BY <1>2 DEF FSScan
  <2>3. 31 - FSScan(word) = Max(word)
    BY <2>1, <2>2 DEF Bits
  <2>4. Max(word) % 65536 = Max(word)
    BY <2>1 DEF Bits
  <2> QED  BY <1>2, <2>1, <2>3, <2>4 DEF ScanDown, Bits
<1> QED  BY <1>1, <1>2
-----------------------------------------------------------------------------
\* A bit of the table is always the bit of a priority a task may have, so
\* no member hides in the last word beyond N.
OnlyPriorities == \A x \in Groups : \A y \in prioTbl[x] : 32 * x + y \in Prio

Inv == TypeOK /\ GroupMirrorsTable /\ OnlyPriorities

\* A member is exactly a bit of the table.
LEMMA MembersOfTable ==
  ASSUME TypeOK, OnlyPriorities
  PROVE  /\ \A x \in Groups : \A y \in prioTbl[x] : 32 * x + y \in Members
         /\ \A p \in Members : /\ p \in Prio
                               /\ BitOf(p) \in prioTbl[GroupOf(p)]
<1>1. ASSUME NEW x \in Groups, NEW y \in prioTbl[x]
      PROVE  32 * x + y \in Members
  <2>1. x \in Nat /\ y \in Bits
    BY NAssumption DEF TypeOK, Groups, Words
  <2>2. GroupOf(32 * x + y) = x /\ BitOf(32 * x + y) = y
    BY <2>1, PrioOfGroupAndBit
  <2>3. 32 * x + y \in Prio
    BY DEF OnlyPriorities
  <2> QED  BY <2>2, <2>3 DEF Members
<1> QED  BY <1>1 DEF Members

\* In a kernel of fewer than 1024 tasks the search is right, whatever word
\* it meets when it reads past the table.
LEMMA SearchFindsHighest ==
  ASSUME Inv, N < 1024, NEW stray \in Memory
  PROVE  FindHighPrio(stray) = Highest(Members)
<1> USE DEF Highest
<1> DEFINE x == ScanDown(prioGrp)
           word == WordAt(x, stray)
           y == ScanDown(word)
<1>1. x \in Bits
  BY ScanDownIsMax DEF Inv, TypeOK
<1>2. word \in Words
  BY MemoryAssumption DEF Inv, TypeOK, WordAt
<1>3. y \in Bits
  BY <1>2, ScanDownIsMax
<1>4. FindHighPrio(stray) = IF 32 * x + y > N-1 THEN 0 ELSE 32 * x + y
  BY DEF FindHighPrio
<1>5. CASE prioGrp = {}
  <2>1. x = 31
    BY <1>5, ScanDownIsMax DEF Inv, TypeOK
  <2>2. Members = {}
    <3> SUFFICES ASSUME NEW p \in Members PROVE FALSE
      OBVIOUS
    <3>1. p \in Prio /\ BitOf(p) \in prioTbl[GroupOf(p)]
      BY MembersOfTable DEF Inv
    <3>2. GroupOf(p) \in Groups /\ GroupOf(p) \in Bits
      BY <3>1, GroupAndBit
    <3>3. GroupOf(p) \in prioGrp
      BY <3>1, <3>2 DEF Inv, GroupMirrorsTable
    <3> QED  BY <1>5, <3>3
  <2>3. CASE 32 * x + y > N-1
    BY <1>4, <2>2, <2>3
  <2>4. CASE ~ (32 * x + y > N-1)
    <3>1. N = 1024 \/ (N >= 993 /\ N < 1024)
      BY <1>3, <2>1, <2>4, NAssumption DEF Bits
    <3>2. x \in Groups
      BY <2>1, <3>1, NAssumption DEF Groups
    <3>3. prioTbl[x] = {}
      BY <1>1, <1>5, <3>2 DEF Inv, GroupMirrorsTable
    <3>4. y = 31
      BY <1>2, <3>2, <3>3, ScanDownIsMax DEF WordAt
    <3> QED  BY <2>1, <2>4, <3>4, NAssumption
  <2> QED  BY <2>3, <2>4
<1>6. CASE prioGrp # {}
  <2>1. x = Max(prioGrp)
    BY <1>6, ScanDownIsMax DEF Inv, TypeOK
  <2>2. x \in prioGrp /\ \A g \in prioGrp : x >= g
    BY <1>6, <2>1, MaxIsGreatest DEF Inv, TypeOK, Words, Bits
  <2>3. x \in Groups /\ prioTbl[x] # {}
    BY <1>1, <2>2 DEF Inv, GroupMirrorsTable
  <2>4. word = prioTbl[x]
    BY <2>3 DEF WordAt
  <2>5. y = Max(word)
    BY <1>2, <2>3, <2>4, ScanDownIsMax
  <2>6. y \in prioTbl[x] /\ \A b \in prioTbl[x] : y >= b
    BY <1>2, <2>3, <2>4, <2>5, MaxIsGreatest DEF Words, Bits
  <2>7. 32 * x + y \in Members /\ 32 * x + y \in Prio
    BY <2>3, <2>6, MembersOfTable DEF Inv
  <2>8. \A p \in Members : 32 * x + y >= p
    <3> TAKE p \in Members
    <3>1. p \in Prio /\ BitOf(p) \in prioTbl[GroupOf(p)]
      BY MembersOfTable DEF Inv
    <3>2. /\ GroupOf(p) \in Groups /\ GroupOf(p) \in Bits
          /\ BitOf(p) \in Bits /\ p = 32 * GroupOf(p) + BitOf(p)
      BY <3>1, GroupAndBit
    <3>3. x >= GroupOf(p)
      BY <2>2, <3>1, <3>2 DEF Inv, GroupMirrorsTable
    <3>4. x = GroupOf(p) => y >= BitOf(p)
      BY <2>6, <3>1
    <3> HIDE DEF x, y
    <3> QED  BY <1>1, <1>3, <3>2, <3>3, <3>4 DEF Bits
  <2>9. 32 * x + y = Max(Members)
    <3>1. N-1 \in Nat /\ Members \subseteq 0..N-1
      BY NAssumption DEF Members, Prio
    <3> HIDE DEF x, y
    <3> QED  BY <2>7, <2>8, <3>1, GreatestIsMax
  <2> HIDE DEF x, y
  <2> QED  BY <1>4, <2>7, <2>9, NAssumption DEF Prio
<1> QED  BY <1>5, <1>6
-----------------------------------------------------------------------------
\* Whatever word is read, the answer is a priority.
LEMMA SearchAnswersPriority ==
  ASSUME TypeOK, NEW stray \in Memory
  PROVE  FindHighPrio(stray) \in Prio
<1> DEFINE x == ScanDown(prioGrp)
           y == ScanDown(WordAt(x, stray))
<1>1. x \in Bits
  BY ScanDownIsMax DEF TypeOK
<1>2. WordAt(x, stray) \in Words
  BY MemoryAssumption DEF TypeOK, WordAt
<1>3. y \in Bits
  BY <1>2, ScanDownIsMax
<1>4. FindHighPrio(stray) = IF 32 * x + y > N-1 THEN 0 ELSE 32 * x + y
  BY DEF FindHighPrio
<1> HIDE DEF x, y
<1> QED  BY <1>1, <1>3, <1>4, NAssumption DEF Bits, Prio

\* The zeroed list satisfies the invariant.
LEMMA InitInv == Init => Inv
<1> SUFFICES ASSUME Init PROVE Inv
  OBVIOUS
<1>1. TypeOK
  BY NAssumption DEF Init, TypeOK, Words, Prio
<1>2. GroupMirrorsTable /\ OnlyPriorities
  BY DEF Init, GroupMirrorsTable, OnlyPriorities
<1> QED  BY <1>1, <1>2 DEF Inv

\* uLipePrioSet preserves the invariant.
LEMMA PrioSetInv ==
  ASSUME Inv, NEW prio \in Used, PrioSet(prio)
  PROVE  Inv'
<1> DEFINE g == GroupOf(prio)
           b == BitOf(prio)
<1>1. /\ prio \in Prio /\ g \in Groups /\ g \in Bits /\ b \in Bits
      /\ prio = 32 * g + b
  BY UsedAssumption, GroupAndBit
<1>2. /\ prioGrp' = prioGrp \cup {g}
      /\ prioTbl' = [prioTbl EXCEPT ![g] = prioTbl[g] \cup {b}]
      /\ found' = found
  BY DEF PrioSet
<1> HIDE DEF g, b
<1>3. TypeOK'
  BY <1>1, <1>2 DEF Inv, TypeOK, Words
<1>4. GroupMirrorsTable'
  BY <1>1, <1>2 DEF Inv, TypeOK, GroupMirrorsTable
<1>5. OnlyPriorities'
  BY <1>1, <1>2 DEF Inv, TypeOK, OnlyPriorities
<1> QED  BY <1>3, <1>4, <1>5 DEF Inv

\* uLipePrioClr preserves the invariant.
LEMMA PrioClrInv ==
  ASSUME Inv, NEW prio \in Used, PrioClr(prio)
  PROVE  Inv'
<1> DEFINE g == GroupOf(prio)
           b == BitOf(prio)
<1>1. g \in Groups /\ g \in Bits /\ b \in Bits
  BY UsedAssumption, GroupAndBit
<1>2. /\ prioTbl' = [prioTbl EXCEPT ![g] = prioTbl[g] \ {b}]
      /\ prioGrp' = IF prioTbl'[g] = {} THEN prioGrp \ {g} ELSE prioGrp
      /\ found' = found
  BY DEF PrioClr
<1> HIDE DEF g, b
<1>3. TypeOK'
  BY <1>1, <1>2 DEF Inv, TypeOK, Words
<1>4. GroupMirrorsTable'
  BY <1>1, <1>2 DEF Inv, TypeOK, GroupMirrorsTable
<1>5. OnlyPriorities'
  BY <1>1, <1>2 DEF Inv, TypeOK, OnlyPriorities
<1> QED  BY <1>3, <1>4, <1>5 DEF Inv

\* Every operation preserves the invariant.
LEMMA NextInv == Inv /\ [Next]_vars => Inv'
<1> SUFFICES ASSUME Inv, [Next]_vars PROVE Inv'
  OBVIOUS
<1>1. CASE \E prio \in Used : PrioSet(prio) \/ PrioClr(prio)
  BY <1>1, PrioSetInv, PrioClrInv
<1>2. CASE Find
  <2>1. found' \in Prio
    BY <1>2, SearchAnswersPriority DEF Find, Inv
  <2> QED  BY <1>2, <2>1
           DEF Find, Inv, TypeOK, GroupMirrorsTable, OnlyPriorities
<1>3. CASE UNCHANGED vars
  BY <1>3 DEF vars, Inv, TypeOK, GroupMirrorsTable, OnlyPriorities
<1> QED  BY <1>1, <1>2, <1>3 DEF Next

\* Inv is an invariant of the list, for every N up to 1024.
THEOREM Invariance == Spec => []Inv
BY InitInv, NextInv, PTL DEF Spec

\* The words stay words, and a search never answers an index outside
\* tcbPtrTbl, not even when it reads past the end of the table.
THEOREM TypeCorrect == Spec => []TypeOK
<1>1. Inv => TypeOK
  BY DEF Inv
<1> QED  BY Invariance, <1>1, PTL

\* The group word and the table never disagree.
THEOREM GroupsMirrorTable == Spec => []GroupMirrorsTable
<1>1. Inv => GroupMirrorsTable
  BY DEF Inv
<1> QED  BY Invariance, <1>1, PTL

\* With fewer than 1024 tasks the search always finds the highest member.
THEOREM SearchCorrect == N < 1024 => (Spec => []FindIsHighest)
<1>1. N < 1024 /\ Inv => FindIsHighest
  BY SearchFindsHighest DEF FindIsHighest
<1>2. SUFFICES ASSUME N < 1024 PROVE Spec => []FindIsHighest
  OBVIOUS
<1>3. Inv => FindIsHighest
  BY <1>1, <1>2
<1> QED  BY Invariance, <1>3, PTL
-----------------------------------------------------------------------------
\* Setting a bit adds one member and disturbs no other.
LEMMA PrioSetInserts ==
  ASSUME Inv, NEW prio \in Used, PrioSet(prio)
  PROVE  Members' = Members \cup {prio}
<1>1. prio \in Prio
  BY UsedAssumption
<1>2. ASSUME NEW p \in Prio
      PROVE  BitOf(p) \in prioTbl'[GroupOf(p)]
               <=> (BitOf(p) \in prioTbl[GroupOf(p)] \/ p = prio)
  <2>1. /\ GroupOf(p) \in Groups /\ p = 32 * GroupOf(p) + BitOf(p)
        /\ prio = 32 * GroupOf(prio) + BitOf(prio)
        /\ GroupOf(prio) \in Groups
    BY <1>1, GroupAndBit
  <2>2. p = prio <=> (GroupOf(p) = GroupOf(prio) /\ BitOf(p) = BitOf(prio))
    BY <2>1
  <2> QED  BY <2>1, <2>2 DEF PrioSet, Inv, TypeOK
<1> QED  BY <1>1, <1>2 DEF Members

\* Clearing a bit removes one member and disturbs no other.
LEMMA PrioClrRemoves ==
  ASSUME Inv, NEW prio \in Used, PrioClr(prio)
  PROVE  Members' = Members \ {prio}
<1>1. prio \in Prio
  BY UsedAssumption
<1>2. ASSUME NEW p \in Prio
      PROVE  BitOf(p) \in prioTbl'[GroupOf(p)]
               <=> (BitOf(p) \in prioTbl[GroupOf(p)] /\ p # prio)
  <2>1. /\ GroupOf(p) \in Groups /\ p = 32 * GroupOf(p) + BitOf(p)
        /\ prio = 32 * GroupOf(prio) + BitOf(prio)
        /\ GroupOf(prio) \in Groups
    BY <1>1, GroupAndBit
  <2>2. p = prio <=> (GroupOf(p) = GroupOf(prio) /\ BitOf(p) = BitOf(prio))
    BY <2>1
  <2> QED  BY <2>1, <2>2 DEF PrioClr, Inv, TypeOK
<1> QED  BY <1>1, <1>2 DEF Members

\* The bitmap implements the set of priorities: every operation maps to the
\* operation of the same meaning.
THEOREM ImplementsPrioQueue == N < 1024 => (Spec => AbsSpec)
<1> SUFFICES ASSUME N < 1024 PROVE Spec => AbsSpec
  OBVIOUS
<1>1. Init => Abs!AbsInit
  <2> SUFFICES ASSUME Init PROVE Members = {} /\ found = 0
    BY DEF Abs!AbsInit
  <2>1. \A p \in Prio : prioTbl[GroupOf(p)] = {}
    BY GroupAndBit DEF Init
  <2> QED  BY <2>1 DEF Init, Members
<1>2. Inv /\ [Next]_vars => [Abs!AbsNext]_(Abs!absVars)
  <2> SUFFICES ASSUME Inv, [Next]_vars
               PROVE  Abs!AbsNext \/ UNCHANGED <<Members, found>>
    BY DEF Abs!absVars
  <2>1. ASSUME NEW prio \in Used, PrioSet(prio)
        PROVE  Abs!AbsNext
    <3>1. Abs!Insert(prio)
      BY <2>1, PrioSetInserts DEF Abs!Insert, PrioSet
    <3> QED  BY <3>1 DEF Abs!AbsNext
  <2>2. ASSUME NEW prio \in Used, PrioClr(prio)
        PROVE  Abs!AbsNext
    <3>1. Abs!Remove(prio)
      BY <2>2, PrioClrRemoves DEF Abs!Remove, PrioClr
    <3> QED  BY <3>1 DEF Abs!AbsNext
  <2>3. CASE Find
    <3>1. found' = Highest(Members)
      BY <2>3, SearchFindsHighest DEF Find
    <3>2. Abs!Search
      BY <2>3, <3>1 DEF Find, Members, Abs!Search,
           Abs!Highest, Abs!Max, Highest, Max
    <3> QED  BY <3>2 DEF Abs!AbsNext
  <2>4. CASE UNCHANGED vars
    BY <2>4 DEF vars, Members
  <2> QED  BY <2>1, <2>2, <2>3, <2>4 DEF Next
<1> QED  BY Invariance, <1>1, <1>2, PTL DEF Spec, AbsSpec, Abs!AbsSpec
-----------------------------------------------------------------------------
(* A search that is preempted between its two reads.                       *)

\* While a search is under way, the tops it collected hold the present one,
\* and hold 0 if it found no group.
ScanInv == /\ Inv
           /\ scan \in {Idle, 0, 31}
           /\ scan # Idle => Top \in tops
           /\ scan = 31 => 0 \in tops

\* Fewer than 32 tasks have one group, and its word says it all.
LEMMA OneGroup ==
  ASSUME Inv, N < 32
  PROVE  /\ Groups = {0}
         /\ Members = prioTbl[0]
         /\ prioGrp = {} <=> Members = {}
         /\ ScanDown(prioGrp) = IF Members = {} THEN 31 ELSE 0
<1>1. Groups = {0}
  BY NAssumption DEF Groups
<1>2. Members = prioTbl[0]
  <2>1. \A p \in Prio : GroupOf(p) = 0 /\ BitOf(p) = p
    <3> TAKE p \in Prio
    <3>1. GroupOf(p) \in Groups /\ p = 32 * GroupOf(p) + BitOf(p)
             /\ BitOf(p) \in Bits
      BY GroupAndBit
    <3> QED  BY <1>1, <3>1 DEF Bits
  <2>2. prioTbl[0] \subseteq Prio
    <3> SUFFICES ASSUME NEW y \in prioTbl[0] PROVE y \in Prio
      OBVIOUS
    <3>1. y \in Bits
      BY <1>1 DEF Inv, TypeOK, Words
    <3>2. 32 * 0 + y \in Prio
      BY <1>1 DEF Inv, OnlyPriorities
    <3> QED  BY <3>1, <3>2 DEF Bits
  <2> QED  BY <2>1, <2>2 DEF Members
<1>3. prioGrp \subseteq {0} /\ (0 \in prioGrp <=> prioTbl[0] # {})
  BY <1>1 DEF Inv, GroupMirrorsTable, TypeOK, Words, Bits
<1>4. prioGrp # {} => Max(prioGrp) = 0
  <2> SUFFICES ASSUME prioGrp # {} PROVE Max(prioGrp) = 0
    OBVIOUS
  <2>1. Max(prioGrp) \in prioGrp
    BY MaxIsGreatest DEF Inv, TypeOK, Words, Bits
  <2> QED  BY <1>3, <2>1
<1>5. ScanDown(prioGrp) = IF prioGrp = {} THEN 31 ELSE Max(prioGrp)
  BY ScanDownIsMax DEF Inv, TypeOK
<1> QED  BY <1>1, <1>2, <1>3, <1>4, <1>5

\* The invariant of the preempted search is preserved.
LEMMA ScanNextInv ==
  ASSUME N < 32, ScanInv, [ScanNext]_scanVars
  PROVE  ScanInv'
<1>1. CASE ScanGroup
  <2>1. Inv' /\ Top' = Top
    BY <1>1 DEF ScanGroup, vars, ScanInv, Inv, TypeOK, GroupMirrorsTable,
                OnlyPriorities, Top, Members
  <2>2. scan' = (IF Members = {} THEN 31 ELSE 0) /\ tops' = {Top}
    BY <1>1, OneGroup DEF ScanGroup, ScanInv
  <2>3. Members = {} => Top = 0
    BY DEF Top, Highest
  <2> QED  BY <2>1, <2>2, <2>3 DEF ScanInv, Idle
<1>2. CASE ScanTable
  <2>1. \A stray \in Memory : \E y \in Bits :
          y = ScanDown(WordAt(scan, stray))
    <3> TAKE stray \in Memory
    <3>1. WordAt(scan, stray) \in Words
      BY MemoryAssumption DEF ScanInv, Inv, TypeOK, WordAt
    <3> QED  BY <3>1, ScanDownIsMax
  <2>2. PICK stray \in Memory :
          LET ret == 32 * scan + ScanDown(WordAt(scan, stray))
          IN  found' = IF ret > N-1 THEN 0 ELSE ret
    BY <1>2 DEF ScanTable
  <2>3. PICK y \in Bits : y = ScanDown(WordAt(scan, stray))
    BY <2>1
  <2>4. scan \in {0, 31}
    BY <1>2 DEF ScanTable, ScanInv
  <2>5. found' \in Prio
    BY <2>2, <2>3, <2>4, NAssumption DEF Prio, Bits
  <2>6. Inv'
    BY <1>2, <2>5 DEF ScanTable, ScanInv, Inv, TypeOK, GroupMirrorsTable,
                      OnlyPriorities
  <2> QED  BY <1>2, <2>6 DEF ScanTable, ScanInv, Idle
<1>3. CASE Preempt
  <2>1. Inv'
    BY <1>3, PrioSetInv, PrioClrInv DEF Preempt, ScanInv
  <2> QED  BY <1>3, <2>1 DEF Preempt, ScanInv
<1>4. CASE UNCHANGED scanVars
  BY <1>4 DEF scanVars, vars, ScanInv, Inv, TypeOK, GroupMirrorsTable,
              OnlyPriorities, Top, Members
<1> QED  BY <1>1, <1>2, <1>3, <1>4 DEF ScanNext

\* A search answers one of the tops it collected.
LEMMA ScanTableAnswersTop ==
  ASSUME N < 32, ScanInv, ScanTable
  PROVE  found' \in tops
<1>1. PICK stray \in Memory :
        LET ret == 32 * scan + ScanDown(WordAt(scan, stray))
        IN  found' = IF ret > N-1 THEN 0 ELSE ret
  BY DEF ScanTable
<1>2. WordAt(scan, stray) \in Words
  BY MemoryAssumption DEF ScanInv, Inv, TypeOK, WordAt
<1>3. PICK y \in Bits : y = ScanDown(WordAt(scan, stray))
  BY <1>2, ScanDownIsMax
<1>4. CASE scan = 31
  <2>1. found' = 0
    BY <1>1, <1>3, <1>4, NAssumption DEF Bits
  <2> QED  BY <1>4, <2>1 DEF ScanInv
<1>5. CASE scan = 0
  <2>1. WordAt(scan, stray) = Members
    BY <1>5, OneGroup DEF WordAt, ScanInv
  <2>2. y = IF Members = {} THEN 31 ELSE Max(Members)
    BY <1>2, <1>3, <2>1, ScanDownIsMax
  <2>3. Members # {} => y \in Prio
    <3> SUFFICES ASSUME Members # {} PROVE Max(Members) \in Members
      BY <2>2 DEF Members
    <3>1. Members \subseteq 0..N-1 /\ N-1 \in Nat
      BY NAssumption DEF Members, Prio
    <3> QED  BY <3>1, MaxIsGreatest
  <2>4. found' = Top
    <3>1. found' = IF y > N-1 THEN 0 ELSE y
      BY <1>1, <1>3, <1>5 DEF Bits
    <3>2. CASE Members = {}
      BY <2>2, <3>1, <3>2, NAssumption DEF Top, Highest
    <3>3. CASE Members # {}
      BY <2>2, <2>3, <3>1, <3>3, NAssumption DEF Top, Highest, Prio
    <3> QED  BY <3>2, <3>3
  <2> QED  BY <1>5, <2>4 DEF ScanInv, Idle
<1> QED  BY <1>4, <1>5 DEF ScanInv, ScanTable

\* With fewer than 32 tasks a preempted search answers a priority that was
\* the highest at some moment of the search.
THEOREM PreemptedSearchCorrect == N < 32 => (ScanSpec => ScanAnswersATop)
<1> SUFFICES ASSUME N < 32 PROVE ScanSpec => ScanAnswersATop
  OBVIOUS
<1>1. ScanInit => ScanInv
  BY InitInv DEF ScanInit, ScanInv, Idle
<1>2. ScanInv /\ [ScanNext]_scanVars => ScanInv'
  BY ScanNextInv
<1>3. ScanInv /\ [ScanNext]_scanVars
        => [ScanTable => found' \in tops]_scanVars
  BY ScanTableAnswersTop
<1> QED  BY <1>1, <1>2, <1>3, PTL DEF ScanSpec, ScanAnswersATop
=============================================================================
