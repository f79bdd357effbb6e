----------------------------- MODULE FlagsProofs -----------------------------
(***************************************************************************)
(* Event flags, for every number of tasks, every set of flags and every    *)
(* timeout: whoever waits is listed where the next post looks for it,      *)
(* nobody waits for any flag while one is set, a post leaves nobody        *)
(* waiting whose flags are there, and no flag of the lower half of the     *)
(* register is consumed twice.                                             *)
(*                                                                         *)
(* A post meets the waiters from the highest down, and each finds the      *)
(* register the one before it left: a recursion whose solution is shown to *)
(* exist first, and reasoned about by its greatest counterexample.         *)
(***************************************************************************)
EXTENDS Flags, TaskProofs

FlagThreads == ThreadPart({}, {})

FlagPart == /\ group \in BOOLEAN
            /\ flagRegister \subseteq UNION Masks
            /\ flagsActive \in {0, 1}
            /\ flagsPending \in [Prio -> SUBSET UNION Masks]
            /\ tasksCount \in 0..N /\ heap \in 0..HeapBlocks /\ heapDirty = FALSE

\* Whoever waits is listed, waits for the group, consumes only while it waits,
\* and has asked for a flag if it waits for all it asked for.
PendingPart ==
    /\ WaitersInActiveList /\ AnyWaitersFindNone
    /\ WaitsFor(IdlePrio) = {}
    /\ \A p \in Prio :
           /\ "PenFlagConsume" \in taskStatus[p] => WaitsFor(p) # {}
           /\ "PendFlagAll" \in taskStatus[p] => flagsPending[p] # {}
           /\ ~group => WaitsFor(p) = {}

FInv == KernelParts /\ FlagThreads /\ FlagPart /\ PendingPart
-----------------------------------------------------------------------------
(* The register, down the waiters                                          *)

LEMMA CallsAllowed == Api \subseteq TimingCalls
BY TasksStayAssumption, ApiAssumption DEF TimingCalls

LEMMA UserFacts == UserPrio \subseteq Prio /\ IdlePrio \notin UserPrio
BY SizeAssumption DEF UserPrio, Prio, IdlePrio

\* The waiter that the loop meets just before it comes down to p.
LEMMA BeforeFacts ==
  ASSUME Waiters \in SUBSET Prio, NEW p \in Prio, Above(p) # {}
  PROVE  /\ Before(p) \in Waiters /\ Before(p) \in Prio /\ Before(p) > p
         /\ \A q \in Waiters : q > p => Before(p) <= q
<1>0. \A q \in Prio : q \in Nat
  BY PrioFacts
<1>1. Above(p) \in SUBSET Nat
  BY <1>0 DEF Above
<1>2. PICK least \in Above(p) : \A r \in Above(p) : least <= r
  BY <1>1, LeastExists
<1>3. Before(p) \in Above(p) /\ \A r \in Above(p) : Before(p) <= r
  BY <1>2 DEF Before
<1>4. Before(p) \in Waiters /\ Before(p) > p
  BY <1>3 DEF Above
<1>5. \A q \in Waiters : q > p => Before(p) <= q
  BY <1>3 DEF Above
<1> QED  BY <1>4, <1>5

\* The recursion has a solution: it goes up, and the priorities end.
LEMMA RegisterExists ==
  ASSUME Waiters \in SUBSET Prio, NEW posted
  PROVE  \E f : f = [p \in Prio |-> IF Above(p) = {} THEN posted
                                    ELSE Consume(Before(p), f[Before(p)])]
<1> DEFINE Upto(k) == k..(N-1)
           Solves(f, k) == f = [p \in Upto(k) |-> IF Above(p) = {} THEN posted
                                                ELSE Consume(Before(p), f[Before(p)])]
           Bad == {k \in 0..N : ~ \E f : Solves(f, k)}
<1>1. N \in Nat /\ N > 0
  BY SizeAssumption
<1>2. Bad = {}
  <2> SUFFICES ASSUME Bad # {} PROVE FALSE
    OBVIOUS
  <2>1. \E m \in Bad : \A k \in Bad : m >= k
    <3>1. Bad \in SUBSET (0..N)
      OBVIOUS
    <3> HIDE DEF Bad
    <3>2. Max(Bad) \in Bad /\ \A k \in Bad : Max(Bad) >= k
      BY <1>1, <3>1, MaxIsGreatest
    <3> QED  BY <3>2
  <2> PICK m \in Bad : \A k \in Bad : m >= k
    BY <2>1
  <2>2. m \in 0..N /\ ~ \E f : Solves(f, m)
    BY <2>1
  <2>3. CASE m = N
    <3>1. Upto(N) = {}
      BY <1>1
    <3>2. Solves([p \in {} |-> 0], N)
      BY <3>1
    <3> QED  BY <2>2, <2>3, <3>2
  <2>4. CASE m # N
    <3>1. m + 1 \in 0..N /\ m \in Prio /\ ~(m >= m + 1)
      BY <1>1, <2>2, <2>4 DEF Prio
    <3>2. PICK g : Solves(g, m + 1)
      <4>1. m + 1 \notin Bad
        <5> HIDE DEF Bad
        <5> QED  BY <3>1
      <4> QED  BY <3>1, <4>1
    <3> DEFINE Value(f, p) == IF Above(p) = {} THEN posted
                              ELSE Consume(Before(p), f[Before(p)])
               h == [p \in Upto(m) |-> IF p = m THEN Value(g, m) ELSE g[p]]
    <3>3. ASSUME NEW p \in Upto(m), Above(p) # {} PROVE h[Before(p)] = g[Before(p)]
      <4>1. p \in Prio
        BY <1>1, <2>2, <3>3 DEF Prio
      <4>2. Before(p) \in Prio /\ Before(p) > p
        BY <3>3, <4>1, BeforeFacts
      <4>3. Before(p) \in Upto(m) /\ Before(p) # m
        BY <1>1, <2>2, <3>3, <4>2 DEF Prio
      <4> QED  BY <4>3
    <3>4. ASSUME NEW p \in Upto(m) PROVE h[p] = Value(h, p)
      <4>1. Value(h, p) = Value(g, p)
        BY <3>3, <3>4
      <4>2. CASE p = m
        BY <4>1, <4>2
      <4>3. CASE p # m
        <5>1. p \in Upto(m + 1)
          BY <1>1, <2>2, <4>3
        <5>2. g[p] = Value(g, p)
          BY <3>2, <5>1
        <5> QED  BY <4>1, <4>3, <5>2
      <4> QED  BY <4>2, <4>3
    <3>5. Solves(h, m)
      BY <3>4
    <3> QED  BY <2>2, <3>5
  <2> QED  BY <2>3, <2>4
<1>3. 0 \in 0..N /\ Upto(0) = Prio
  BY <1>1 DEF Prio
<1>4. \E f : Solves(f, 0)
  BY <1>2, <1>3
<1> QED  BY <1>3, <1>4

LEMMA RegisterEquation ==
  ASSUME Waiters \in SUBSET Prio, NEW posted, NEW p \in Prio
  PROVE  Register(posted)[p] = IF Above(p) = {} THEN posted
                               ELSE Consume(Before(p), Register(posted)[Before(p)])
<1> DEFINE Is(f) == f = [q \in Prio |-> IF Above(q) = {} THEN posted
                                        ELSE Consume(Before(q), f[Before(q)])]
<1>1. \E f : Is(f)
  BY RegisterExists
<1>2. Register(posted) = CHOOSE f : Is(f)
  BY DEF Register
<1>3. Is(Register(posted))
  <2> HIDE DEF Is
  <2> QED  BY <1>1, <1>2
<1> QED  BY <1>3

\* Of a set of priorities there is a greatest.
LEMMA GreatestPrio ==
  ASSUME NEW S \in SUBSET Prio, S # {}
  PROVE  \E m \in S : \A k \in Prio : k > m => k \notin S
<1>1. Highest(S) \in S /\ Highest(S) \in Prio /\ \A k \in S : Highest(S) >= k
  BY HighestPrio
<1>2. \A h, k \in Prio : k > h => ~(h >= k)
  BY PrioFacts
<1> QED  BY <1>1, <1>2

\* A waiter only takes flags away, and none of the upper half.
LEMMA ConsumeFacts ==
  ASSUME NEW p, NEW register
  PROVE  /\ Consume(p, register) \subseteq register
         /\ \A b \in register : ~(b < 16) => b \in Consume(p, register)
BY DEF Consume

\* Below a waiter only what it left is found.
LEMMA RegisterStep ==
  ASSUME Waiters \in SUBSET Prio, NEW posted, NEW p \in Prio, Above(p) # {}
  PROVE  /\ Register(posted)[p] = Consume(Before(p), Register(posted)[Before(p)])
         /\ Before(p) \in Waiters /\ Before(p) \in Prio /\ Before(p) > p
         /\ \A q \in Waiters : q > p => Before(p) <= q
BY RegisterEquation, BeforeFacts

LEMMA RegisterWithin ==
  ASSUME Waiters \in SUBSET Prio, NEW posted
  PROVE  \A p \in Prio : Register(posted)[p] \subseteq posted
<1> DEFINE R == Register(posted)
           Bad == {p \in Prio : ~(R[p] \subseteq posted)}
<1> HIDE DEF R
<1> SUFFICES ASSUME Bad # {} PROVE FALSE
  BY DEF R
<1>1. PICK m \in Bad : \A k \in Prio : k > m => k \notin Bad
  <2> HIDE DEF Bad
  <2>1. Bad \in SUBSET Prio
    BY DEF Bad
  <2> QED  BY <2>1, GreatestPrio
<1>2. m \in Prio /\ ~(R[m] \subseteq posted)
  BY <1>1
<1>3. CASE Above(m) = {}
  BY <1>2, <1>3, RegisterEquation DEF R
<1>4. CASE Above(m) # {}
  <2>1. Before(m) \in Prio /\ Before(m) > m /\ R[m] = Consume(Before(m), R[Before(m)])
    BY <1>2, <1>4, RegisterStep DEF R
  <2>2. R[Before(m)] \subseteq posted
    BY <1>1, <2>1
  <2>3. R[m] \subseteq R[Before(m)]
    BY <2>1, ConsumeFacts
  <2> QED  BY <1>2, <2>2, <2>3
<1> QED  BY <1>3, <1>4

LEMMA RegisterBelow ==
  ASSUME Waiters \in SUBSET Prio, NEW posted, NEW w \in Waiters
  PROVE  \A q \in Prio : q < w =>
             /\ Register(posted)[q] \subseteq Consume(w, Register(posted)[w])
             /\ Register(posted)[q] \subseteq Register(posted)[w]
             /\ \A b \in Register(posted)[w] : ~(b < 16) => b \in Register(posted)[q]
<1> DEFINE R == Register(posted)
           Good(q) == /\ R[q] \subseteq Consume(w, R[w])
                      /\ \A b \in R[w] : ~(b < 16) => b \in R[q]
           Bad == {q \in Prio : q < w /\ ~Good(q)}
<1> HIDE DEF R
<1>0. Consume(w, R[w]) \subseteq R[w]
  BY ConsumeFacts
<1> SUFFICES ASSUME Bad # {} PROVE FALSE
  BY <1>0 DEF R
<1>1. PICK m \in Bad : \A k \in Prio : k > m => k \notin Bad
  <2> HIDE DEF Bad
  <2>1. Bad \in SUBSET Prio
    BY DEF Bad
  <2> QED  BY <2>1, GreatestPrio
<1>2. m \in Prio /\ w \in Prio /\ m < w /\ ~Good(m)
  BY <1>1
<1>3. w \in Above(m)
  BY <1>2, PrioFacts DEF Above
<1> DEFINE B == Before(m)
<1>4. /\ B \in Waiters /\ B \in Prio /\ B > m /\ B <= w
      /\ R[m] = Consume(B, R[B])
  <2>1. w > m
    BY <1>2, PrioFacts
  <2> QED  BY <1>2, <1>3, <2>1, RegisterStep DEF R
<1> HIDE DEF B
<1>5. CASE B = w
  <2>1. Good(m)
    BY <1>4, <1>5, ConsumeFacts
  <2> QED  BY <1>2, <2>1
<1>6. CASE B # w
  <2>1. B < w
    BY <1>2, <1>4, <1>6, PrioFacts
  <2>2. Good(B)
    BY <1>1, <1>4, <2>1
  <2>3. R[m] \subseteq R[B] /\ \A b \in R[B] : ~(b < 16) => b \in R[m]
    BY <1>4, ConsumeFacts
  <2>4. Good(m)
    BY <2>2, <2>3
  <2> QED  BY <1>2, <2>4
<1> QED  BY <1>5, <1>6
-----------------------------------------------------------------------------
(* The invariant gives what the runs check                                 *)

LEMMA NoLabels == LabelsOK({}, {})
BY DEF LabelsOK

LEMMA FInvTypes == FInv => FlagsTypeOK
<1> SUFFICES ASSUME FInv PROVE FlagsTypeOK
  OBVIOUS
<1>1. KernelTypeOK(TaskLabels \cup {})
  <2>1. KernelParts /\ ThreadPart({}, {})
    BY DEF FInv, FlagThreads
  <2> QED  BY <2>1, NoLabels, PartsTypes
<1>2. arg \in [Prio -> Prio]
  BY DEF FInv, FlagThreads, ThreadPart
<1>3. TaskLabels \cup {} = TaskLabels
  OBVIOUS
<1>4. TypeOK
  BY <1>1, <1>2, <1>3 DEF FInv, FlagPart, TypeOK
<1> QED  BY <1>4 DEF FInv, FlagPart, FlagsTypeOK

\* Whoever waits is met by the loop.
LEMMA WaitersMet ==
  ASSUME KernelParts, FlagPart, PendingPart
  PROVE  /\ Waiters \in SUBSET Prio /\ Waiters \in SUBSET InstalledTasks
         /\ ActiveWait.prioTbl \in SUBSET InstalledTasks
         /\ \A p \in Prio : WaitsFor(p) # {} => p \in Waiters /\ IdlePrio < p
         /\ UNION Masks \subseteq 0..31
         /\ flagsActive \in {0, 1} /\ 1 - flagsActive \in {0, 1}
         /\ WaitTasks[flagsActive] \in List /\ WaitTasks[1 - flagsActive] \in List
         /\ WaitTasks[flagsActive] # WaitTasks[1 - flagsActive]
<1>1. /\ flagsActive \in {0, 1} /\ 1 - flagsActive \in {0, 1}
      /\ WaitTasks[flagsActive] \in List /\ WaitTasks[1 - flagsActive] \in List
      /\ WaitTasks[flagsActive] # WaitTasks[1 - flagsActive]
  BY WaitTasksAssumption DEF FlagPart
<1>2. ActiveWait \in [prioGrp : BOOLEAN, prioTbl : SUBSET InstalledTasks]
  BY <1>1 DEF ActiveWait, KernelParts, ListPart
<1>3. InstalledTasks \in SUBSET Prio
  BY DEF InstalledTasks
<1>4. ActiveWait.prioTbl \in SUBSET InstalledTasks /\ ActiveWait.prioTbl \in SUBSET Prio
  BY <1>2, <1>3
<1>5. Waiters \in SUBSET Prio /\ Waiters \in SUBSET InstalledTasks
  BY <1>4 DEF Waiters
<1>6. ASSUME NEW p \in Prio, WaitsFor(p) # {} PROVE p \in Waiters /\ IdlePrio < p
  <2>1. p # IdlePrio /\ ActiveWait.prioGrp /\ p \in ActiveWait.prioTbl
    BY <1>6 DEF PendingPart, WaitersInActiveList
  <2>2. Highest(ActiveWait.prioTbl) \in Prio /\ Highest(ActiveWait.prioTbl) >= p
    BY <1>4, <2>1, HighestPrio
  <2>3. IdlePrio < p /\ Highest(ActiveWait.prioTbl) # 0
    BY <1>6, <2>1, <2>2, PrioFacts
  <2> QED  BY <2>1, <2>3 DEF Waiters, First
<1> QED  BY <1>1, <1>4, <1>5, <1>6, MasksAssumption

LEMMA FlagThreadYields ==
  ASSUME KernelParts, FlagThreads, NEW t \in UserPrio, FlagCalls(t), Goto(t, "yield"),
         UNCHANGED <<tcbPtrTbl, yieldPrio, after, arg>>
  PROVE  FlagThreads'
<1>1. t \in Prio /\ t # IdlePrio
  BY UserFacts
<1>2. "yield" \in TimingPlaces \cup {} /\ arg' \in [Prio -> Prio] /\ after' \in [Prio -> {"run"} \cup {}]
      /\ \A p \in Prio \ {t} : arg'[p] = arg[p]
  BY DEF TimingPlaces, FlagThreads, ThreadPart
<1> QED  BY <1>1, <1>2, ThreadStep DEF FlagThreads

LEMMA FInit == FlagsInit => FInv
<1> SUFFICES ASSUME FlagsInit PROVE FInv
  OBVIOUS
<1>1. Init
  BY DEF FlagsInit
<1>2. KernelParts /\ FlagThreads /\ heapDirty = FALSE
  BY <1>1, InitParts DEF FlagThreads
<1>3. FlagPart
  <2>1. tasksCount \in 0..N /\ heap \in 0..HeapBlocks
    BY <1>1, InitInv DEF Inv, TypeOK
  <2> QED  BY <1>2, <2>1 DEF FlagsInit, FlagPart
<1>4. \A p \in Prio : taskStatus[p] = {}
  BY <1>1 DEF Init, KernelInit
<1>5. PendingPart
  BY <1>4, PrioFacts DEF PendingPart, WaitersInActiveList, AnyWaitersFindNone, WaitsFor
<1> QED  BY <1>2, <1>3, <1>5 DEF FInv
-----------------------------------------------------------------------------
(* The tasks' own calls and the interrupts                                 *)

LEMMA NextFInv ==
  ASSUME FInv, Next, UNCHANGED flagVars
  PROVE  FInv'
<1>0. KernelParts /\ FlagThreads /\ FlagPart /\ PendingPart
  BY DEF FInv
<1>1. KernelParts' /\ FlagThreads' /\ UNCHANGED <<tcbPtrTbl, taskVars>> /\ WaitsStep
  <2>1. ThreadPart({}, {})
    BY <1>0 DEF FlagThreads
  <2> QED  BY <1>0, <2>1, CallsAllowed, NoLabels, TaskStep DEF FlagThreads
<1>2. UNCHANGED <<group, flagRegister, flagsActive, flagsPending>>
  BY DEF flagVars
<1>3. FlagPart'
  BY <1>0, <1>1, <1>2 DEF FlagPart, taskVars
<1>4. CASE WaitsStay
  <2>1. ASSUME NEW p \in Prio
        PROVE  /\ WaitsFor(p)' = WaitsFor(p)
               /\ "PenFlagConsume" \in taskStatus'[p] <=> "PenFlagConsume" \in taskStatus[p]
               /\ "PendFlagAll" \in taskStatus'[p] <=> "PendFlagAll" \in taskStatus[p]
    <3>1. taskStatus'[p] \ {"Suspend", "PendDelay"} = taskStatus[p] \ {"Suspend", "PendDelay"}
      BY <1>4 DEF WaitsStay
    <3> QED  BY <3>1 DEF WaitsFor, FlagCauses
  <2>2. ActiveWait' = ActiveWait
    BY <1>2, <1>4 DEF ActiveWait, WaitsStay
  <2>3. WaitersInActiveList' /\ AnyWaitersFindNone'
    BY <1>0, <1>2, <2>1, <2>2 DEF PendingPart, WaitersInActiveList, AnyWaitersFindNone
  <2>4. PendingPart'
    BY <1>0, <1>2, <2>1, <2>3, PrioFacts DEF PendingPart
  <2> QED  BY <1>0, <1>1, <1>3, <2>4 DEF FInv
<1>5. ASSUME NEW i \in InstalledTasks, Expires(i) PROVE PendingPart'
  <2>1. i \in Prio /\ i # IdlePrio /\ taskStatus' = [taskStatus EXCEPT ![i] = {}]
        /\ taskStatus \in [Prio -> SUBSET Status]
    BY <1>0, <1>5 DEF Expires, InstalledTasks, KernelParts, ReadyPart
  <2>2. taskStatus'[i] = {} /\ \A p \in Prio \ {i} : taskStatus'[p] = taskStatus[p]
    BY <2>1
  <2>3. WaitsFor(i)' = {} /\ \A p \in Prio \ {i} : WaitsFor(p)' = WaitsFor(p)
    BY <2>2 DEF WaitsFor
  <2>4. WaitTasks[flagsActive] \in List
    BY <1>0, WaitersMet
  <2>5. ActiveWait' = ActiveWait \/ ActiveWait' = Delist(ActiveWait, {i})
    BY <1>2, <1>5, <2>4 DEF Expires, LeaveWaitLists, ActiveWait
  <2>6. WaitersInActiveList'
    <3> SUFFICES ASSUME NEW p \in Prio, WaitsFor(p)' # {}
                 PROVE  ActiveWait'.prioGrp /\ p \in ActiveWait'.prioTbl
      BY DEF WaitersInActiveList
    <3>1. p # i /\ ActiveWait.prioGrp /\ p \in ActiveWait.prioTbl
      BY <1>0, <2>3 DEF PendingPart, WaitersInActiveList
    <3>2. ASSUME ActiveWait' = Delist(ActiveWait, {i})
          PROVE  ActiveWait'.prioGrp /\ p \in ActiveWait'.prioTbl
      <4>1. p \in ActiveWait.prioTbl \ {i}
        BY <3>1
      <4>2. /\ ActiveWait'.prioTbl = ActiveWait.prioTbl \ {i}
            /\ ActiveWait'.prioGrp <=>
                  ActiveWait.prioGrp /\ ({i} = {} \/ ActiveWait.prioTbl \ {i} # {})
        BY <3>2 DEF Delist
      <4> QED  BY <3>1, <4>1, <4>2
    <3> QED  BY <2>5, <3>1, <3>2
  <2>7. AnyWaitersFindNone'
    BY <1>0, <1>2, <2>3 DEF PendingPart, AnyWaitersFindNone
  <2> QED  BY <1>0, <1>2, <2>1, <2>2, <2>3, <2>6, <2>7, PrioFacts DEF PendingPart
<1> QED  BY <1>0, <1>1, <1>3, <1>4, <1>5 DEF FInv, WaitsStep
-----------------------------------------------------------------------------
(* uLipeFlagsPend                                                          *)

\* What a call that leaves the tasks alone has to leave in order.
LEMMA FlagsAlone ==
  ASSUME FInv, UNCHANGED vars, UNCHANGED <<group, flagsActive, flagsPending>>,
         flagRegister' \subseteq flagRegister
  PROVE  FInv'
<1>1. /\ UNCHANGED <<lists, objects, cpu, threads, arg>>
      /\ UNCHANGED <<tcbPtrTbl, taskStatus, waitList, tasksCount, heap, heapDirty>>
  BY DEF vars, kernelVars, objects, tcb, taskVars
<1>2. KernelParts' /\ FlagThreads'
  BY <1>1, PartsKept, ThreadsKept DEF FInv, FlagThreads
<1>3. FlagPart'
  BY <1>1 DEF FInv, FlagPart
<1>4. ActiveWait' = ActiveWait /\ \A p : WaitsFor(p)' = WaitsFor(p)
  BY <1>1 DEF ActiveWait, WaitsFor
<1>5. WaitersInActiveList' /\ AnyWaitersFindNone'
  BY <1>4 DEF FInv, PendingPart, WaitersInActiveList, AnyWaitersFindNone
<1>6. PendingPart'
  BY <1>1, <1>4, <1>5 DEF FInv, PendingPart
<1> QED  BY <1>2, <1>3, <1>6 DEF FInv

LEMMA PendMatchesFInv ==
  ASSUME FInv, NEW t \in UserPrio, NEW opt \in FlagCauses, NEW flags \in Masks,
         NEW consume \in BOOLEAN, PendMatches(t, opt, flags, consume)
  PROVE  FInv'
<1>1. UNCHANGED vars /\ UNCHANGED <<group, flagsActive, flagsPending>>
      /\ flagRegister' \subseteq flagRegister
  BY DEF PendMatches
<1> QED  BY <1>1, FlagsAlone

LEMMA PendBlocksFInv ==
  ASSUME FInv, NEW t \in UserPrio, NEW opt \in FlagCauses, NEW flags \in Masks,
         NEW consume \in BOOLEAN, NEW ticks \in 0..MaxDelay,
         PendBlocks(t, opt, flags, consume, ticks)
  PROVE  FInv'
<1> DEFINE causes == {opt} \cup (IF consume THEN {"PenFlagConsume"} ELSE {})
                          \cup (IF ticks # 0 THEN {"PendDelay"} ELSE {})
<1>0. /\ KernelParts /\ FlagThreads /\ FlagPart /\ PendingPart
      /\ TablePart /\ ReadyPart /\ ListPart /\ CpuPart
  BY DEF FInv, KernelParts
<1>1. /\ t \in Prio /\ t # IdlePrio /\ FlagCalls(t) /\ Runs(t) /\ group
      /\ ~Matches(t, opt, flags) /\ Unready(t) /\ Goto(t, "yield")
      /\ UNCHANGED <<activeList, tcbPtrTbl, cpu, yieldPrio, after, arg>>
      /\ UNCHANGED <<tasksCount, heap, heapDirty, group, flagRegister, flagsActive>>
  BY UserFacts DEF PendBlocks, FlagCalls, At, taskVars
<1>2. t \in InstalledTasks /\ tick = "off"
  BY <1>0, <1>1, Runner DEF FlagThreads
<1>3. /\ taskStatus' = [taskStatus EXCEPT ![t] = @ \cup causes]
      /\ flagsPending' = [flagsPending EXCEPT ![t] = @ \cup flags]
      /\ waitList' = [waitList EXCEPT ![WaitTasks[flagsActive]] = Enlist(@, t)]
      /\ bmp' = [bmp EXCEPT ![t]["flags"] = WaitTasks[0]]
  <2>1. taskStatus' = [taskStatus EXCEPT ![t] = @ \cup {opt}
                          \cup (IF consume THEN {"PenFlagConsume"} ELSE {})
                          \cup (IF ticks # 0 THEN {"PendDelay"} ELSE {})]
    BY DEF PendBlocks
  <2>2. taskStatus[t] \cup causes
          = taskStatus[t] \cup {opt} \cup (IF consume THEN {"PenFlagConsume"} ELSE {})
                          \cup (IF ticks # 0 THEN {"PendDelay"} ELSE {})
    OBVIOUS
  <2> HIDE DEF causes
  <2>3. taskStatus' = [taskStatus EXCEPT ![t] = taskStatus[t] \cup causes]
    BY <2>1, <2>2
  <2> QED  BY <2>3 DEF PendBlocks
<1>4. ReadyPart' /\ TimerPart'
  <2>1. UNCHANGED <<tick, irqCounter>>
    BY <1>1 DEF cpu
  <2>2. causes \in SUBSET Status /\ causes # {}
    BY DEF Status, FlagCauses
  <2>3. \/ UNCHANGED <<delayTime, timerPendingList>> /\ "PendDelay" \notin causes
        \/ \E k \in 1..MaxDelay :
              /\ delayTime' = [delayTime EXCEPT ![t] = k]
              /\ timerPendingList' = [timerPendingList EXCEPT ![activeList] = @ \cup {t}]
    <3>1. CASE ticks = 0
      BY <3>1 DEF PendBlocks, FlagCauses
    <3>2. CASE ticks # 0
      <4>1. ticks \in 1..MaxDelay
        BY <3>2, DelayAssumption
      <4> QED  BY <3>2, <4>1 DEF PendBlocks
    <3> QED  BY <3>1, <3>2
  <2> HIDE DEF causes
  <2> QED  BY <1>0, <1>1, <1>2, <1>3, <2>1, <2>2, <2>3, BlockedParts
<1>5. /\ WaitTasks[flagsActive] \in List /\ WaitTasks[0] \in List
      /\ waitList[WaitTasks[flagsActive]] = ActiveWait
      /\ ActiveWait \in [prioGrp : BOOLEAN, prioTbl : SUBSET InstalledTasks]
  BY <1>0, WaitTasksAssumption DEF FlagPart, ActiveWait, ListPart
<1>6. ListPart'
  <2>1. Enlist(ActiveWait, t) \in [prioGrp : BOOLEAN, prioTbl : SUBSET InstalledTasks]
    BY <1>2, <1>5 DEF Enlist
  <2>2. waitList' \in [List -> [prioGrp : BOOLEAN, prioTbl : SUBSET InstalledTasks]]
    BY <1>0, <1>3, <1>5, <2>1 DEF ListPart
  <2>3. bmp' \in [Prio -> [Bmp -> List \cup {NULL}]]
    BY <1>0, <1>3, <1>5 DEF ListPart
  <2> QED  BY <1>1, <2>2, <2>3, SameTasks DEF ListPart
<1>7. TablePart' /\ CpuPart' /\ FlagThreads'
  BY <1>0, <1>1, SameTasks, CpuKept, FlagThreadYields DEF cpu
<1>8. /\ flagsPending' \in [Prio -> SUBSET UNION Masks]
      /\ flagsPending'[t] = flagsPending[t] \cup flags
      /\ \A p \in Prio \ {t} : flagsPending'[p] = flagsPending[p]
  BY <1>0, <1>1, <1>3 DEF FlagPart
<1>9. FlagPart'
  BY <1>0, <1>1, <1>8 DEF FlagPart
<1>10. /\ taskStatus'[t] = taskStatus[t] \cup causes
       /\ \A p \in Prio \ {t} : taskStatus'[p] = taskStatus[p]
       /\ WaitsFor(t)' = WaitsFor(t) \cup {opt}
       /\ \A p \in Prio \ {t} : WaitsFor(p)' = WaitsFor(p)
  <2>1. /\ taskStatus'[t] = taskStatus[t] \cup causes
        /\ \A p \in Prio \ {t} : taskStatus'[p] = taskStatus[p]
    BY <1>0, <1>1, <1>3 DEF ReadyPart
  <2>2. causes \cap FlagCauses = {opt}
    BY DEF FlagCauses
  <2> HIDE DEF causes
  <2> QED  BY <2>1, <2>2 DEF WaitsFor
<1>11. WaitersInActiveList'
  <2>1. ActiveWait' = Enlist(ActiveWait, t)
    BY <1>0, <1>1, <1>3, <1>5 DEF ActiveWait, ListPart
  <2>2. ActiveWait'.prioGrp /\ ActiveWait'.prioTbl = ActiveWait.prioTbl \cup {t}
    BY <2>1 DEF Enlist
  <2> QED  BY <1>0, <1>10, <2>2 DEF PendingPart, WaitersInActiveList
<1>12. AnyWaitersFindNone'
  <2> SUFFICES ASSUME NEW p \in Prio, WaitsFor(p)' = {"PendFlagAny"}
               PROVE  flagRegister = {}
    BY <1>1 DEF AnyWaitersFindNone
  <2>1. CASE p # t
    BY <1>0, <1>10, <2>1 DEF PendingPart, AnyWaitersFindNone
  <2>2. CASE p = t
    <3>1. opt = "PendFlagAny"
      BY <1>10, <2>2
    <3> QED  BY <1>1, <3>1 DEF Matches
  <2> QED  BY <2>1, <2>2
<1>13. ASSUME NEW p \in Prio
       PROVE  /\ "PenFlagConsume" \in taskStatus'[p] => WaitsFor(p)' # {}
              /\ "PendFlagAll" \in taskStatus'[p] => flagsPending'[p] # {}
  <2>1. CASE p # t
    BY <1>0, <1>8, <1>10, <2>1 DEF PendingPart
  <2>2. CASE p = t
    <3>1. opt = "PendFlagAll" => flagsPending'[t] # {}
      BY <1>1, <1>8 DEF Matches
    <3>2. opt # "PendFlagAll" => ("PendFlagAll" \in taskStatus'[t] <=> "PendFlagAll" \in taskStatus[t])
      BY <1>10 DEF FlagCauses
    <3> QED  BY <1>0, <1>1, <1>8, <1>10, <2>2, <3>1, <3>2 DEF PendingPart
  <2> QED  BY <2>1, <2>2
<1>14. WaitsFor(IdlePrio)' = {}
  BY <1>0, <1>1, <1>10, PrioFacts DEF PendingPart
<1>15. PendingPart'
  BY <1>1, <1>11, <1>12, <1>13, <1>14 DEF PendingPart
<1> QED  BY <1>4, <1>6, <1>7, <1>9, <1>15 DEF FInv, KernelParts
-----------------------------------------------------------------------------
(* uLipeFlagsPost                                                          *)

\* The register as each waiter finds it, and those it releases.
PostFinds(flags) == Register(flagRegister \cup flags)
PostReleases(flags) == {p \in Waiters : Satisfied(p, PostFinds(flags)[p])}

\* Those released wait for nothing any more, and nothing else changes but the
\* lists; the register is what the last of them leaves.
LEMMA PostEffect ==
  ASSUME FInv, NEW t \in UserPrio, NEW flags \in Masks, FlagsPost(t, flags)
  PROVE  /\ flagRegister' = PostFinds(flags)[IdlePrio]
         /\ UNCHANGED flagsPending /\ flagsActive' = 1 - flagsActive
         /\ \A p \in Prio : PostFinds(flags)[p] \subseteq UNION Masks
         /\ \A p \in PostReleases(flags) :
               /\ taskStatus'[p] = taskStatus[p] \ (FlagCauses \cup {"PendDelay", "PenFlagConsume"})
               /\ WaitsFor(p)' = {}
         /\ \A p \in Prio \ PostReleases(flags) :
               /\ taskStatus'[p] = taskStatus[p] /\ WaitsFor(p)' = WaitsFor(p)
               /\ WaitsFor(p) # {} => p \in Waiters /\ ~Satisfied(p, PostFinds(flags)[p])
<1> DEFINE R == PostFinds(flags)
           left(p) == taskStatus[p] \ (FlagCauses \cup {"PendDelay", "PenFlagConsume"})
<1>0. /\ KernelParts /\ FlagPart /\ PendingPart
  BY DEF FInv
<1>1. /\ flagRegister' = R[IdlePrio] /\ UNCHANGED flagsPending /\ flagsActive' = 1 - flagsActive
      /\ taskStatus' = [p \in Prio |-> IF p \in PostReleases(flags) THEN left(p)
                                       ELSE taskStatus[p]]
  BY DEF FlagsPost, Swap, PostFinds, PostReleases
<1>2. Waiters \in SUBSET Prio /\ PostReleases(flags) \in SUBSET Prio
      /\ \A p \in Prio : WaitsFor(p) # {} => p \in Waiters
  BY <1>0, WaitersMet DEF PostReleases
<1>3. \A p \in Prio : R[p] \subseteq UNION Masks
  <2>1. flagRegister \cup flags \subseteq UNION Masks
    BY <1>0 DEF FlagPart
  <2>2. \A p \in Prio : R[p] \subseteq flagRegister \cup flags
    BY <1>2, RegisterWithin DEF PostFinds
  <2> QED  BY <2>1, <2>2
<1>4. ASSUME NEW p \in PostReleases(flags) PROVE taskStatus'[p] = left(p) /\ WaitsFor(p)' = {}
  <2>1. taskStatus'[p] = left(p)
    BY <1>1, <1>2
  <2> QED  BY <2>1 DEF WaitsFor
<1>5. ASSUME NEW p \in Prio \ PostReleases(flags)
      PROVE  /\ taskStatus'[p] = taskStatus[p] /\ WaitsFor(p)' = WaitsFor(p)
             /\ WaitsFor(p) # {} => p \in Waiters /\ ~Satisfied(p, PostFinds(flags)[p])
  <2>1. taskStatus'[p] = taskStatus[p]
    BY <1>1
  <2>2. WaitsFor(p) # {} => p \in Waiters /\ ~Satisfied(p, PostFinds(flags)[p])
    BY <1>2 DEF PostReleases
  <2> QED  BY <2>1, <2>2 DEF WaitsFor
<1> QED  BY <1>1, <1>3, <1>4, <1>5

LEMMA PostFInv ==
  ASSUME FInv, NEW t \in UserPrio, NEW flags \in Masks, FlagsPost(t, flags)
  PROVE  FInv'
<1> DEFINE R == PostFinds(flags)
           released == PostReleases(flags)
           moved == {p \in Waiters \ released : WaitsFor(p) # {}}
           causes == FlagCauses \cup {"PendDelay", "PenFlagConsume"}
<1>0. /\ KernelParts /\ FlagThreads /\ FlagPart /\ PendingPart
      /\ TablePart /\ ReadyPart /\ ListPart /\ CpuPart
  BY DEF FInv, KernelParts
<1>1. /\ FlagCalls(t) /\ group /\ Swap(moved) /\ Goto(t, "yield")
      /\ taskStatus' = [p \in Prio |-> IF p \in released THEN Held(p, causes) ELSE taskStatus[p]]
      /\ taskPrioList' = taskPrioList \cup {p \in released : Held(p, causes) = {}}
      /\ UNCHANGED <<timerPendingList, activeList, tcbPtrTbl, delayTime, bmp, cpu>>
      /\ UNCHANGED <<yieldPrio, after, arg, group, tasksCount, heap, heapDirty>>
  BY DEF FlagsPost, FlagCalls, PostFinds, PostReleases, Held, taskVars
<1>2. /\ Waiters \in SUBSET Prio /\ Waiters \in SUBSET InstalledTasks
      /\ ActiveWait.prioTbl \in SUBSET InstalledTasks
      /\ \A p \in Prio : WaitsFor(p) # {} => p \in Waiters /\ IdlePrio < p
      /\ flagsActive \in {0, 1} /\ 1 - flagsActive \in {0, 1}
      /\ WaitTasks[flagsActive] \in List /\ WaitTasks[1 - flagsActive] \in List
      /\ WaitTasks[flagsActive] # WaitTasks[1 - flagsActive]
  BY <1>0, WaitersMet
<1>3. /\ flagRegister' = R[IdlePrio] /\ UNCHANGED flagsPending /\ flagsActive' = 1 - flagsActive
      /\ \A p \in Prio : R[p] \subseteq UNION Masks
      /\ \A p \in released : /\ taskStatus'[p] = taskStatus[p] \ causes
                             /\ WaitsFor(p)' = {}
      /\ \A p \in Prio \ released :
            /\ taskStatus'[p] = taskStatus[p] /\ WaitsFor(p)' = WaitsFor(p)
            /\ WaitsFor(p) # {} => p \in Waiters /\ ~Satisfied(p, R[p])
  BY PostEffect
<1>4. released \in SUBSET Prio /\ released \in SUBSET InstalledTasks /\ moved \in SUBSET InstalledTasks
      /\ released \in SUBSET Waiters
  BY <1>2 DEF PostReleases
<1> HIDE DEF R, released
<1>5. ReadyPart' /\ TimerPart'
  <2> HIDE DEF causes
  <2>1. UNCHANGED <<tick, irqCounter>>
    BY <1>1 DEF cpu
  <2> QED  BY <1>0, <1>1, <1>4, <2>1, LetGoParts
<1>6. /\ waitList[WaitTasks[flagsActive]] = ActiveWait
      /\ \A l \in List : waitList[l] \in [prioGrp : BOOLEAN, prioTbl : SUBSET InstalledTasks]
      /\ waitList' = [waitList EXCEPT ![WaitTasks[flagsActive]] = Delist(@, Waiters),
                                      ![WaitTasks[1 - flagsActive]] =
                        [prioGrp |-> @.prioGrp \/ moved # {}, prioTbl |-> @.prioTbl \cup moved]]
  BY <1>0, <1>1 DEF ActiveWait, ListPart, Swap
<1> DEFINE other == waitList[WaitTasks[1 - flagsActive]]
           next == [prioGrp |-> other.prioGrp \/ moved # {}, prioTbl |-> other.prioTbl \cup moved]
<1>7. /\ waitList' = [[waitList EXCEPT ![WaitTasks[flagsActive]] = Delist(ActiveWait, Waiters)]
                        EXCEPT ![WaitTasks[1 - flagsActive]] = next]
      /\ ActiveWait \in [prioGrp : BOOLEAN, prioTbl : SUBSET InstalledTasks]
      /\ other \in [prioGrp : BOOLEAN, prioTbl : SUBSET InstalledTasks]
  <2> HIDE DEF moved
  <2> QED  BY <1>0, <1>2, <1>6 DEF ListPart
<1>8. /\ Delist(ActiveWait, Waiters) \in [prioGrp : BOOLEAN, prioTbl : SUBSET InstalledTasks]
      /\ next \in [prioGrp : BOOLEAN, prioTbl : SUBSET InstalledTasks]
  BY <1>4, <1>7 DEF Delist
<1>9. waitList' \in [List -> [prioGrp : BOOLEAN, prioTbl : SUBSET InstalledTasks]]
      /\ ActiveWait' = next
  <2> HIDE DEF next
  <2>1. waitList'[WaitTasks[1 - flagsActive]] = next
    BY <1>0, <1>2, <1>7 DEF ListPart
  <2>2. ActiveWait' = waitList'[WaitTasks[flagsActive']]
    BY DEF ActiveWait
  <2> QED  BY <1>0, <1>2, <1>3, <1>7, <1>8, <2>1, <2>2 DEF ListPart
<1>10. TablePart' /\ ListPart' /\ CpuPart' /\ FlagThreads'
  <2>1. ListPart'
    BY <1>0, <1>1, <1>9, SameTasks DEF ListPart
  <2>2. UNCHANGED <<currentTask, highPrioTask, pendSV, halted>>
    BY <1>1 DEF cpu
  <2> QED  BY <1>0, <1>1, <2>1, <2>2, SameTasks, CpuKept, FlagThreadYields
<1>11. FlagPart'
  BY <1>0, <1>1, <1>2, <1>3, PrioFacts DEF FlagPart
<1>12. WaitersInActiveList'
  <2> SUFFICES ASSUME NEW p \in Prio, WaitsFor(p)' # {}
               PROVE  ActiveWait'.prioGrp /\ p \in ActiveWait'.prioTbl
    BY DEF WaitersInActiveList
  <2>1. p \in moved
    BY <1>3
  <2> HIDE DEF moved
  <2> QED  BY <1>9, <2>1
<1>13. AnyWaitersFindNone'
  <2> SUFFICES ASSUME NEW p \in Prio, WaitsFor(p)' = {"PendFlagAny"}
               PROVE  flagRegister' = {}
    BY DEF AnyWaitersFindNone
  <2>1. p \notin released /\ WaitsFor(p) = {"PendFlagAny"} /\ p \in Waiters /\ ~Satisfied(p, R[p])
        /\ IdlePrio < p
    BY <1>2, <1>3
  <2>2. R[p] = {}
    BY <2>1 DEF Satisfied, Found
  <2>3. R[IdlePrio] \subseteq R[p]
    BY <1>2, <2>1, RegisterBelow, PrioFacts DEF R, PostFinds
  <2> QED  BY <1>3, <2>2, <2>3
<1>14. ASSUME NEW p \in Prio
       PROVE  /\ "PenFlagConsume" \in taskStatus'[p] => WaitsFor(p)' # {}
              /\ "PendFlagAll" \in taskStatus'[p] => flagsPending'[p] # {}
  BY <1>0, <1>3 DEF PendingPart, FlagCauses
<1>15. WaitsFor(IdlePrio)' = {}
  BY <1>0, <1>3, PrioFacts DEF PendingPart
<1>16. PendingPart'
  BY <1>1, <1>12, <1>13, <1>14, <1>15 DEF PendingPart
<1> QED  BY <1>5, <1>10, <1>11, <1>16 DEF FInv, KernelParts
-----------------------------------------------------------------------------
(* uLipeFlagsCreate, uLipeFlagsDelete                                      *)

LEMMA CreateFInv ==
  ASSUME FInv, NEW t \in UserPrio, FlagsCreate(t)
  PROVE  FInv'
<1>0. /\ KernelParts /\ FlagThreads /\ FlagPart /\ PendingPart
      /\ TablePart /\ ReadyPart /\ TimerPart /\ ListPart /\ CpuPart
  BY DEF FInv, KernelParts
<1>1. /\ ~group /\ group' = TRUE /\ flagRegister' = {} /\ flagsActive' = 0
      /\ heap < HeapBlocks /\ heap' = heap + 1
      /\ UNCHANGED <<lists, tcbPtrTbl, taskStatus, delayTime, bmp, cpu, threads>>
      /\ UNCHANGED <<tasksCount, heapDirty, arg, flagsPending>>
  BY DEF FlagsCreate, tcb
<1>2. waitList' = [waitList EXCEPT ![WaitTasks[0]] = EmptyList, ![WaitTasks[1]] = EmptyList]
  BY <1>0 DEF FlagsCreate, FlagPart, EmptyList
<1>3. ListPart'
  <2>1. EmptyList \in [prioGrp : BOOLEAN, prioTbl : SUBSET InstalledTasks]
    BY DEF EmptyList
  <2>2. waitList' \in [List -> [prioGrp : BOOLEAN, prioTbl : SUBSET InstalledTasks]]
    BY <1>0, <1>2, <2>1 DEF ListPart
  <2> QED  BY <1>0, <1>1, <2>2, SameTasks DEF ListPart
<1>4. TablePart' /\ ReadyPart' /\ TimerPart' /\ CpuPart' /\ FlagThreads'
  BY <1>0, <1>1, SameTasks, ReadyKept, TimerKept, CpuKept, ThreadsKept
  DEF lists, cpu, Sleeps, FlagThreads
<1>5. FlagPart'
  <2>1. heap' \in 0..HeapBlocks
    <3>1. heap \in 0..HeapBlocks /\ HeapBlocks \in Nat
      BY <1>0, HeapAssumption DEF FlagPart
    <3> QED  BY <1>1, <3>1
  <2> QED  BY <1>0, <1>1, <2>1 DEF FlagPart
<1>6. \A p \in Prio : WaitsFor(p)' = {} /\ taskStatus'[p] = taskStatus[p] /\ WaitsFor(p) = {}
  BY <1>0, <1>1 DEF PendingPart, WaitsFor
<1>7. WaitersInActiveList' /\ AnyWaitersFindNone'
  BY <1>6 DEF WaitersInActiveList, AnyWaitersFindNone
<1>8. PendingPart'
  BY <1>0, <1>1, <1>6, <1>7, PrioFacts DEF PendingPart
<1> QED  BY <1>3, <1>4, <1>5, <1>8 DEF FInv, KernelParts

LEMMA DeleteFInv ==
  ASSUME FInv, NEW t \in UserPrio, FlagsDelete(t)
  PROVE  FInv'
<1> DEFINE causes == FlagCauses \cup {"PenFlagConsume"}
<1>0. /\ KernelParts /\ FlagThreads /\ FlagPart /\ PendingPart
      /\ TablePart /\ ReadyPart /\ ListPart /\ CpuPart
  BY DEF FInv, KernelParts
<1>1. /\ FlagCalls(t) /\ group' = FALSE /\ Goto(t, "yield")
      /\ taskStatus' = [p \in Prio |-> IF p \in Waiters THEN Held(p, causes) ELSE taskStatus[p]]
      /\ taskPrioList' = taskPrioList \cup {p \in Waiters : Held(p, causes) = {}}
      /\ waitList' = [waitList EXCEPT ![WaitTasks[flagsActive]] = Delist(@, Waiters)]
      /\ UNCHANGED <<timerPendingList, activeList, tcbPtrTbl, delayTime, bmp, cpu>>
      /\ UNCHANGED <<yieldPrio, after, arg, tasksCount, heap, heapDirty>>
      /\ UNCHANGED <<flagRegister, flagsActive, flagsPending>>
  BY DEF FlagsDelete, FlagsDeleteLoop, Held, taskVars
<1>2. /\ Waiters \in SUBSET Prio /\ Waiters \in SUBSET InstalledTasks
      /\ \A p \in Prio : WaitsFor(p) # {} => p \in Waiters
      /\ WaitTasks[flagsActive] \in List
  BY <1>0, WaitersMet
<1>3. ReadyPart' /\ TimerPart'
  <2> HIDE DEF causes
  <2>1. UNCHANGED <<tick, irqCounter>>
    BY <1>1 DEF cpu
  <2> QED  BY <1>0, <1>1, <1>2, <2>1, LetGoParts
<1>4. ListPart'
  <2>1. \A l \in List : Delist(waitList[l], Waiters) \in [prioGrp : BOOLEAN, prioTbl : SUBSET InstalledTasks]
    BY <1>0 DEF ListPart, Delist
  <2>2. waitList' \in [List -> [prioGrp : BOOLEAN, prioTbl : SUBSET InstalledTasks]]
    BY <1>0, <1>1, <1>2, <2>1 DEF ListPart
  <2> QED  BY <1>0, <1>1, <2>2, SameTasks DEF ListPart
<1>5. TablePart' /\ CpuPart' /\ FlagThreads'
  <2>1. UNCHANGED <<currentTask, highPrioTask, pendSV, halted>>
    BY <1>1 DEF cpu
  <2> QED  BY <1>0, <1>1, <2>1, SameTasks, CpuKept, FlagThreadYields
<1>6. FlagPart'
  BY <1>0, <1>1 DEF FlagPart
<1>7. ASSUME NEW p \in Prio
      PROVE  /\ WaitsFor(p)' = {} /\ "PenFlagConsume" \notin taskStatus'[p]
             /\ "PendFlagAll" \notin taskStatus'[p]
  <2>1. CASE p \in Waiters
    <3>1. taskStatus'[p] = taskStatus[p] \ causes
      BY <1>1, <2>1 DEF Held
    <3> QED  BY <3>1 DEF WaitsFor, FlagCauses
  <2>2. CASE p \notin Waiters
    <3>1. taskStatus'[p] = taskStatus[p] /\ WaitsFor(p) = {}
      BY <1>1, <1>2, <2>2
    <3> QED  BY <1>0, <3>1 DEF PendingPart, WaitsFor, FlagCauses
  <2> QED  BY <2>1, <2>2
<1>8. WaitersInActiveList' /\ AnyWaitersFindNone'
  BY <1>7 DEF WaitersInActiveList, AnyWaitersFindNone
<1>9. PendingPart'
  BY <1>7, <1>8, PrioFacts DEF PendingPart
<1> QED  BY <1>3, <1>4, <1>5, <1>6, <1>9 DEF FInv, KernelParts
-----------------------------------------------------------------------------
(* The specification                                                       *)

LEMMA CallFInv ==
  ASSUME FInv, NEW t \in UserPrio, FlagsCall(t)
  PROVE  FInv'
<1>1. CASE FlagsCreate(t) \/ FlagsDelete(t)
  BY <1>1, CreateFInv, DeleteFInv
<1>2. ASSUME NEW flags \in Masks, FlagsPost(t, flags) PROVE FInv'
  BY <1>2, PostFInv
<1>3. ASSUME NEW flags \in Masks, NEW opt \in FlagCauses, NEW how \in Pends[t],
             \/ PendMatches(t, opt, flags, how.consume)
             \/ PendBlocks(t, opt, flags, how.consume, how.ticks)
      PROVE  FInv'
  <2>1. how.consume \in BOOLEAN /\ how.ticks \in 0..MaxDelay
    BY PendsAssumption
  <2> QED  BY <1>3, <2>1, PendMatchesFInv, PendBlocksFInv
<1> QED  BY <1>1, <1>2, <1>3 DEF FlagsCall

LEMMA StepFInv ==
  ASSUME FInv, [FlagsNext]_flagsAll
  PROVE  FInv'
<1>1. CASE UNCHANGED flagsAll
  <2>1. UNCHANGED vars /\ UNCHANGED <<group, flagRegister, flagsActive, flagsPending>>
    BY <1>1 DEF flagsAll, flagVars
  <2> QED  BY <2>1, FlagsAlone
<1>2. CASE Next /\ UNCHANGED flagVars
  BY <1>2, NextFInv
<1>3. ASSUME NEW t \in UserPrio, FlagsCall(t) PROVE FInv'
  BY <1>3, CallFInv
<1> QED  BY <1>1, <1>2, <1>3 DEF FlagsNext

\* The invariant is one of the specification.
LEMMA FlagsInvariance == FlagsSpec => []FInv
<1>1. FInv /\ [FlagsNext]_flagsAll => FInv'
  BY StepFInv
<1> QED  BY <1>1, FInit, PTL DEF FlagsSpec

\* Type correctness with a group of flags: the register and what the tasks
\* have asked for hold flags that were posted or pended for, and no thread
\* leaves the places of the tasks' calls.
THEOREM FlagsTypeCorrect == FlagsSpec => []FlagsTypeOK
BY FlagsInvariance, FInvTypes, PTL

\* A task that waits for flags is in the list the next post works off, first
\* level included, however posts, timeouts and the tick's stray clear interleave.
THEOREM WaitersFound == FlagsSpec => []WaitersInActiveList
<1>1. FInv => WaitersInActiveList
  BY DEF FInv, PendingPart
<1> QED  BY <1>1, FlagsInvariance, PTL

\* Nobody waits for any flag while one is set.
THEOREM AnyWaitersCorrect == FlagsSpec => []AnyWaitersFindNone
<1>1. FInv => AnyWaitersFindNone
  BY DEF FInv, PendingPart
<1> QED  BY <1>1, FlagsInvariance, PTL

\* With a group of flags too, a task is in the ready list exactly when nothing
\* blocks it, sleepers count in one list, and no assertion of the kernel fails.
THEOREM FlagsKernelCorrect ==
    FlagsSpec => [](ReadyIffUnblocked /\ SleepersCount /\ NoFault)
<1>1. FInv => ReadyIffUnblocked /\ SleepersCount /\ NoFault
  <2> SUFFICES ASSUME FInv PROVE ReadyIffUnblocked /\ SleepersCount /\ NoFault
    OBVIOUS
  <2>1. KernelParts /\ ThreadPart({}, {})
    BY DEF FInv, FlagThreads
  <2>2. NoFault
    BY <2>1, NoLabels, PartsTypes
  <2> QED  BY <2>1, <2>2 DEF KernelParts, ReadyPart, TimerPart
<1> QED  BY <1>1, FlagsInvariance, PTL
-----------------------------------------------------------------------------
(* What a post does                                                        *)

\* The two lists are exchanged by a post, and put in their first order by a
\* create.
LEMMA ExchangeIsPost ==
  ASSUME FInv, [FlagsNext]_flagsAll, flagsActive' # flagsActive
  PROVE  \/ \E t \in UserPrio : FlagsCreate(t)
         \/ \E t \in UserPrio, flags \in Masks : FlagsPost(t, flags)
<1>1. flagsActive' = flagsActive
        \/ \E t \in UserPrio : FlagsCreate(t) \/ \E flags \in Masks : FlagsPost(t, flags)
  <2>1. CASE UNCHANGED flagsAll \/ (Next /\ UNCHANGED flagVars)
    BY <2>1 DEF flagsAll, flagVars
  <2>2. ASSUME NEW t \in UserPrio, FlagsCall(t)
        PROVE  \/ flagsActive' = flagsActive
               \/ FlagsCreate(t) \/ \E flags \in Masks : FlagsPost(t, flags)
    BY <2>2 DEF FlagsCall, FlagsDelete, PendMatches, PendBlocks
  <2> QED  BY <2>1, <2>2 DEF FlagsNext
<1> QED  BY <1>1

\* A post leaves nobody waiting whose flags are there, in the register it
\* leaves: what later waiters consumed included.
THEOREM PostSatisfies == FlagsSpec => PostSatisfiesAll
<1>1. FInv /\ [FlagsNext]_flagsAll
        => (flagsActive' # flagsActive => \A p \in Prio : ~Satisfied(p, flagRegister)')
  <2> SUFFICES ASSUME FInv, [FlagsNext]_flagsAll, flagsActive' # flagsActive, NEW p \in Prio
               PROVE  ~Satisfied(p, flagRegister)'
    OBVIOUS
  <2>1. ASSUME NEW t \in UserPrio, FlagsCreate(t) PROVE ~Satisfied(p, flagRegister)'
    <3>1. WaitsFor(p)' = {}
      BY <2>1 DEF FlagsCreate, FInv, PendingPart, WaitsFor, tcb
    <3> QED  BY <3>1 DEF Satisfied
  <2>2. ASSUME NEW t \in UserPrio, NEW flags \in Masks, FlagsPost(t, flags)
        PROVE  ~Satisfied(p, flagRegister)'
    <3> DEFINE R == PostFinds(flags)
    <3>1. /\ flagRegister' = R[IdlePrio] /\ UNCHANGED flagsPending
          /\ p \in PostReleases(flags) => WaitsFor(p)' = {}
          /\ p \notin PostReleases(flags) =>
                /\ WaitsFor(p)' = WaitsFor(p)
                /\ WaitsFor(p) # {} => p \in Waiters /\ ~Satisfied(p, R[p])
      BY <2>2, PostEffect
    <3>2. Waiters \in SUBSET Prio /\ (WaitsFor(p) # {} => IdlePrio < p)
      BY WaitersMet DEF FInv
    <3>3. CASE WaitsFor(p)' = {}
      BY <3>3 DEF Satisfied
    <3>4. CASE WaitsFor(p)' # {}
      <4>1. WaitsFor(p)' = WaitsFor(p) /\ p \in Waiters /\ ~Satisfied(p, R[p])
        BY <3>1, <3>4
      <4>2. R[IdlePrio] \subseteq R[p]
        BY <3>2, <3>4, <4>1, RegisterBelow, PrioFacts DEF PostFinds
      <4> QED  BY <3>1, <4>1, <4>2 DEF Satisfied, Found
    <3> QED  BY <3>3, <3>4
  <2> QED  BY <2>1, <2>2, ExchangeIsPost
<1> QED  BY <1>1, FlagsInvariance, PTL DEF FlagsSpec, PostSatisfiesAll

\* A flag of the lower half that one task consumes releases no second one in
\* the same post: what p takes, q, which is served after it, does not find.
THEOREM ConsumedOnceHolds == FlagsSpec => ConsumedOnce
<1>1. ASSUME FInv, [FlagsNext]_flagsAll, flagsActive' # flagsActive, flagRegister' \subseteq 0..15,
             NEW p \in Prio, NEW q \in Prio, p > q, Released(p), Released(q)
      PROVE  /\ WaitsFor(p) = {"PendFlagAll"}
             /\ \/ WaitsFor(q) = {"PendFlagAny"}
                \/ flagsPending[p] \cap flagsPending[q] = {}
  <2>0. /\ KernelParts /\ FlagPart /\ PendingPart
        /\ "PenFlagConsume" \in taskStatus[p] /\ WaitsFor(p) # {} /\ WaitsFor(p)' = {}
        /\ "PenFlagConsume" \in taskStatus[q] /\ WaitsFor(q) # {} /\ WaitsFor(q)' = {}
        /\ flagsPending[p] \subseteq UNION Masks /\ flagsPending[q] \subseteq UNION Masks
    BY <1>1 DEF FInv, FlagPart, PendingPart, Released, WaitsFor
  <2>1. ~ \E t \in UserPrio : FlagsCreate(t)
    BY <2>0 DEF FlagsCreate, PendingPart
  <2> PICK t \in UserPrio, flags \in Masks : FlagsPost(t, flags)
    BY <1>1, <2>1, ExchangeIsPost
  <2> DEFINE R == PostFinds(flags)
  <2>2. /\ flagRegister' = R[IdlePrio] /\ R[p] \subseteq UNION Masks /\ R[q] \subseteq UNION Masks
        /\ p \in PostReleases(flags) /\ q \in PostReleases(flags)
    BY <1>1, <2>0, PostEffect
  <2>3. /\ Waiters \in SUBSET Prio /\ UNION Masks \subseteq 0..31 /\ IdlePrio < q
        /\ p \in Waiters /\ q \in Waiters /\ Satisfied(p, R[p]) /\ Satisfied(q, R[q])
    BY <2>0, <2>2, WaitersMet DEF PostReleases
  <2>4. R[q] \subseteq Consume(p, R[p]) /\ R[q] \subseteq R[p]
    <3>1. q < p
      BY <1>1, PrioFacts
    <3> QED  BY <2>3, <3>1, RegisterBelow DEF PostFinds
  <2>5. \A b \in R[q] : b < 16
    <3> SUFFICES ASSUME NEW b \in R[q], ~(b < 16) PROVE FALSE
      OBVIOUS
    <3>1. b \in R[IdlePrio]
      BY <2>3, RegisterBelow, PrioFacts DEF PostFinds
    <3>2. b \in 0..15
      BY <1>1, <2>2, <3>1
    <3> QED  BY <3>2
  <2>6. Consume(p, R[p]) = R[p] \ {b \in Found(p, R[p]) : b < 16}
    BY <2>0, <2>3 DEF Consume
  <2>7. \A b \in R[q] : b \notin Found(p, R[p])
    BY <2>4, <2>5, <2>6
  <2>8. R[q] # {}
    <3>1. CASE WaitsFor(q) = {"PendFlagAny"}
      BY <2>3, <3>1 DEF Satisfied, Found
    <3>2. CASE WaitsFor(q) = {"PendFlagAll"}
      <4>1. flagsPending[q] # {} /\ R[q] \cap flagsPending[q] = flagsPending[q]
        BY <2>0, <2>3, <3>2 DEF PendingPart, Satisfied, Found, WaitsFor
      <4> QED  BY <4>1
    <3> QED  BY <2>3, <3>1, <3>2 DEF Satisfied
  <2>9. WaitsFor(p) = {"PendFlagAll"}
    <3>1. WaitsFor(p) # {"PendFlagAny"}
      BY <2>4, <2>7, <2>8 DEF Found
    <3> QED  BY <2>3, <3>1 DEF Satisfied
  <2>10. CASE WaitsFor(q) = {"PendFlagAll"}
    <3>1. flagsPending[q] \subseteq R[q]
      BY <2>3, <2>10 DEF Satisfied, Found
    <3>2. Found(p, R[p]) = R[p] \cap flagsPending[p]
      BY <2>9 DEF Found
    <3> QED  BY <2>4, <2>7, <2>9, <3>1, <3>2
  <2> QED  BY <2>3, <2>9, <2>10 DEF Satisfied
<1>2. FInv /\ [FlagsNext]_flagsAll
        => ((flagsActive' # flagsActive /\ flagRegister' \subseteq 0..15) =>
              \A p, q \in Prio :
                  (p > q /\ Released(p) /\ Released(q)) =>
                      /\ WaitsFor(p) = {"PendFlagAll"}
                      /\ \/ WaitsFor(q) = {"PendFlagAny"}
                         \/ flagsPending[p] \cap flagsPending[q] = {})
  BY <1>1
<1> QED  BY <1>2, FlagsInvariance, PTL DEF FlagsSpec, ConsumedOnce
=============================================================================
