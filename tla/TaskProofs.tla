----------------------------- MODULE TaskProofs -----------------------------
(***************************************************************************)
(* Proofs about Task, for every number of tasks, every delay, every set of *)
(* calls and every size of the heap.                                       *)
(***************************************************************************)
EXTENDS Task, HighestProofs, FiniteSetTheorems

\* A slot of the table holds the TCB created for it, and the idle task is
\* there and blocked by nothing.
TableOK ==
    /\ \A p \in Prio : tcbPtrTbl[p] \in {p, NULL}
    /\ tcbPtrTbl[IdlePrio] = IdlePrio
    /\ taskStatus[IdlePrio] = {}

\* Calls in progress are about user tasks, and a yield leads back to the
\* application or to the end.
InCall == {"suspend", "resume", "create", "delete"}
CallsOK ==
    /\ \A t \in Prio : pc[t] \in InCall => arg[t] # IdlePrio
    /\ \A t \in Prio : after[t] \in {"run", "spin"}

\* PendSV finds a task to switch to, and the running task, once deleted, is
\* on its way out of a yield that does.
DispatchOK ==
    /\ pendSV => tick = "off" /\ Installed(highPrioTask)
    /\ (halted = "no" /\ ~pendSV /\ ~Installed(currentTask))
         => \/ pc[currentTask] = "yield"
            \/ /\ pc[currentTask] = "publish"
               /\ Installed(yieldPrio[currentTask])

Inv == /\ TypeOK
       /\ TableOK
       /\ CallsOK
       /\ ReadyIffUnblocked
       /\ DispatchOK
       /\ HeapCoversTasks
-----------------------------------------------------------------------------
LEMMA PrioFacts ==
  /\ N \in Nat /\ Prio = 0..(N-1) /\ IdlePrio \in Prio /\ IdlePrio = 0
  /\ NULL \notin Prio /\ NULL # Wild
BY SizeAssumption, PointerAssumption DEF Prio, IdlePrio

\* The highest priority of a list is one.
LEMMA HighestPrio ==
  ASSUME NEW S \in SUBSET Prio
  PROVE  /\ Highest(S) \in Prio
         /\ S # {} => Highest(S) \in S
         /\ \A p \in S : Highest(S) >= p
<1>1. N - 1 \in Nat /\ S \in SUBSET (0..(N-1))
  BY SizeAssumption DEF Prio
<1> QED  BY <1>1, HighestIsMember DEF Prio

\* An entry's TCB, when there is one, is that of the same priority.
LEMMA Owner ==
  ASSUME TableOK, NEW p \in Prio, tcbPtrTbl[p] # NULL
  PROVE  tcbPtrTbl[p] = p
BY DEF TableOK
-----------------------------------------------------------------------------
(* Initially                                                               *)

\* The tasks created before the kernel starts are fewer than the priorities.
LEMMA BootFacts ==
  IsFiniteSet(Boot) /\ Cardinality(Boot) \in Nat /\ Cardinality(Boot) + 1 =< N
<1> USE PrioFacts
<1>1. IsFiniteSet(1..(N-1)) /\ Cardinality(1..(N-1)) = N - 1
  BY SizeAssumption, FS_Interval
<1>2. Boot \in SUBSET (1..(N-1))
  BY BootAssumption
<1>3. IsFiniteSet(Boot) /\ Cardinality(Boot) =< N - 1
  BY <1>1, <1>2, FS_Subset
<1>4. Cardinality(Boot) \in Nat
  BY <1>3, FS_CardinalityType
<1> QED  BY <1>3, <1>4

LEMMA InitInv == Init => Inv
<1> SUFFICES ASSUME Init PROVE Inv
  OBVIOUS
<1> USE PrioFacts
<1>1. Boot \cup {IdlePrio} \in SUBSET Prio
  BY BootAssumption
<1>2. IsFiniteSet(Boot) /\ Cardinality(Boot) \in Nat /\ Cardinality(Boot) + 1 =< N
  BY BootFacts
<1>3. TypeOK
  <2>1. Highest(Boot \cup {IdlePrio}) \in Prio
    BY <1>1, HighestPrio
  <2>2. KernelTypeOK(TaskLabels)
    <3>1. 0 \in 0..MaxDelay
      BY DelayAssumption
    <3>2. tcbPtrTbl \in [Prio -> Prio \cup {NULL}]
      BY <1>1 DEF Init, KernelInit
    <3>3. /\ taskStatus \in [Prio -> SUBSET Status] /\ delayTime \in [Prio -> 0..MaxDelay]
          /\ bmp \in [Prio -> [Bmp -> List \cup {NULL, Wild}]]
      BY <3>1 DEF Init, KernelInit, NoList
    <3>4. waitList \in [List -> [prioGrp : BOOLEAN, prioTbl : SUBSET Prio]]
      BY DEF Init, KernelInit, EmptyList
    <3>5. /\ taskPrioList \in SUBSET Prio /\ timerPendingList \in [{0, 1} -> SUBSET Prio]
          /\ activeList \in {0, 1} /\ currentTask \in Prio /\ highPrioTask \in Prio
          /\ irqCounter = IF tick = "off" THEN 0 ELSE 1
          /\ pendSV \in BOOLEAN /\ tick \in {"off", "loop", "out"}
          /\ halted \in {"no", "null", "assert", "wild"}
      BY <1>1, <2>1 DEF Init, KernelInit
    <3>6. /\ pc \in [Prio -> TaskLabels] /\ yieldPrio \in [Prio -> Prio]
          /\ after \in [Prio -> TaskLabels]
      BY DEF Init, KernelInit, TaskLabels
    <3> QED  BY <3>2, <3>3, <3>4, <3>5, <3>6 DEF KernelTypeOK
  <2>3. tasksCount \in 0..N /\ heap \in 0..HeapBlocks
    BY <1>2, HeapAssumption DEF Init
  <2> QED  BY <2>2, <2>3 DEF TypeOK, Init
<1>4. TableOK /\ ReadyIffUnblocked
  BY <1>1 DEF Init, KernelInit, TableOK, ReadyIffUnblocked, Installed
<1>5. CallsOK
  BY DEF Init, KernelInit, CallsOK, InCall
<1>6. DispatchOK
  <2>1. Highest(Boot \cup {IdlePrio}) \in Boot \cup {IdlePrio}
    BY <1>1, HighestPrio
  <2>2. Installed(currentTask) /\ ~pendSV
    BY <1>1, <2>1 DEF Init, KernelInit, Installed
  <2> QED  BY <2>2 DEF DispatchOK
<1>7. HeapCoversTasks
  <2>1. InstalledTasks = Boot \cup {IdlePrio}
    BY <1>1 DEF Init, KernelInit, Installed, InstalledTasks
  <2>2. Creators = {}
    BY DEF Init, KernelInit, Creators, InstalledTasks
  <2>3. IdlePrio \notin Boot
    BY BootAssumption
  <2>4. Cardinality(Boot \cup {IdlePrio}) = Cardinality(Boot) + 1
    BY <1>2, <2>3, FS_AddElement
  <2> QED  BY <1>2, <2>1, <2>2, <2>4, FS_EmptySet DEF Init, HeapCoversTasks
<1> QED  BY <1>3, <1>4, <1>5, <1>6, <1>7 DEF Inv
-----------------------------------------------------------------------------
(* The types, one step per action                                          *)

\* A list of the ready, timer or wait kind with a priority set or cleared.
LEMMA WaitListType ==
  ASSUME TypeOK, NEW p \in Prio, NEW stray, LeaveWaitLists(p, stray)
  PROVE  waitList' \in [List -> [prioGrp : BOOLEAN, prioTbl : SUBSET Prio]]
<1>1. \A l \in List : /\ waitList[l] \in [prioGrp : BOOLEAN, prioTbl : SUBSET Prio]
                      /\ Delist(waitList[l], {p}) \in [prioGrp : BOOLEAN, prioTbl : SUBSET Prio]
  BY DEF TypeOK, KernelTypeOK, Delist
<1> QED  BY <1>1 DEF LeaveWaitLists

\* The lists and the tick after one turn of the loop.
LEMMA TurnType ==
  ASSUME TypeOK, tick = "loop", NEW active \in SUBSET Prio, NEW backup \in SUBSET Prio,
         Turn(active, backup)
  PROVE  /\ timerPendingList' \in [{0, 1} -> SUBSET Prio]
         /\ activeList' \in {0, 1}
         /\ tick' \in {"loop", "out"}
<1>1. timerPendingList \in [{0, 1} -> SUBSET Prio] /\ activeList \in {0, 1}
  BY DEF TypeOK, KernelTypeOK
<1> QED  BY <1>1 DEF Turn

LEMMA TickTypes ==
  ASSUME Inv, NEW i \in Prio, tick = "loop",
         TickExpire(i) \/ TickForget(i) \/ TickKeep(i) \/ TickFault(i)
  PROVE  /\ taskPrioList' \in SUBSET Prio
         /\ timerPendingList' \in [{0, 1} -> SUBSET Prio]
         /\ activeList' \in {0, 1}
         /\ taskStatus' \in [Prio -> SUBSET Status]
         /\ delayTime' \in [Prio -> 0..MaxDelay]
         /\ bmp' \in [Prio -> [Bmp -> List \cup {NULL, Wild}]]
         /\ waitList' \in [List -> [prioGrp : BOOLEAN, prioTbl : SUBSET Prio]]
         /\ tick' \in {"loop", "out"}
         /\ halted' \in {"no", "null", "assert", "wild"}
<1> USE PrioFacts DEF Inv
<1>0. /\ taskPrioList \in SUBSET Prio
      /\ timerPendingList \in [{0, 1} -> SUBSET Prio] /\ activeList \in {0, 1}
      /\ taskStatus \in [Prio -> SUBSET Status] /\ delayTime \in [Prio -> 0..MaxDelay]
      /\ bmp \in [Prio -> [Bmp -> List \cup {NULL, Wild}]]
      /\ waitList \in [List -> [prioGrp : BOOLEAN, prioTbl : SUBSET Prio]]
      /\ halted \in {"no", "null", "assert", "wild"}
  BY DEF TypeOK, KernelTypeOK
<1>1. Active \in SUBSET Prio /\ Backup \in SUBSET Prio
  BY <1>0 DEF Active, Backup
<1>2. Active \ {i} \in SUBSET Prio /\ Backup \cup {i} \in SUBSET Prio
  BY <1>1
<1>3. NoList \in [Bmp -> List \cup {NULL, Wild}]
  BY DEF NoList
<1>4. CASE TickExpire(i)
  <2>1. tcbPtrTbl[i] = i
    BY <1>4, Owner DEF TickExpire
  <2>2. Turn(Active \ {i}, Backup) /\ \E stray \in List \cup {NULL} : LeaveWaitLists(i, stray)
    BY <1>4, <2>1 DEF TickExpire
  <2>3. waitList' \in [List -> [prioGrp : BOOLEAN, prioTbl : SUBSET Prio]]
    BY <2>2, WaitListType
  <2>4. 0 \in 0..MaxDelay
    BY DelayAssumption
  <2>5. /\ taskPrioList' \in SUBSET Prio
        /\ taskStatus' \in [Prio -> SUBSET Status]
        /\ delayTime' \in [Prio -> 0..MaxDelay]
        /\ bmp' \in [Prio -> [Bmp -> List \cup {NULL, Wild}]]
        /\ halted' = halted
    BY <1>0, <1>3, <1>4, <2>1, <2>4 DEF TickExpire, Ready
  <2> QED  BY <1>0, <1>1, <1>2, <2>2, <2>3, <2>5, TurnType
<1>5. CASE TickForget(i) \/ TickKeep(i)
  <2>1. tcbPtrTbl[i] = i
    BY <1>5, Owner DEF TickForget, TickKeep
  <2>2. /\ delayTime[i] > 1 /\ delayTime' = [delayTime EXCEPT ![i] = @ - 1]
        /\ UNCHANGED <<taskPrioList, taskStatus, bmp, waitList, halted>>
        /\ Turn(Active \ {i}, Backup) \/ Turn(Active \ {i}, Backup \cup {i})
    BY <1>5, <2>1 DEF TickForget, TickKeep
  <2>3. delayTime[i] - 1 \in 0..MaxDelay
    <3>1. delayTime[i] \in 0..MaxDelay /\ delayTime[i] > 1
      BY <1>0, <2>2
    <3> QED  BY <3>1, DelayAssumption
  <2>4. delayTime' \in [Prio -> 0..MaxDelay]
    BY <1>0, <2>2, <2>3
  <2> QED  BY <1>0, <1>1, <1>2, <2>2, <2>4, TurnType
<1>6. CASE TickFault(i)
  BY <1>0, <1>6 DEF TickFault, tcb
<1> QED  BY <1>4, <1>5, <1>6

LEMMA InterruptType ==
  ASSUME Inv, Interrupts
  PROVE  TypeOK'
<1> USE PrioFacts DEF Inv
<1>1. CASE TickEnter /\ UNCHANGED <<taskVars, arg>>
  <2>1. tick = "off" /\ irqCounter = 0
    BY <1>1 DEF TickEnter, TypeOK, KernelTypeOK
  <2>2. tick' \in {"loop", "out"} /\ irqCounter' = 1
    BY <1>1, <2>1 DEF TickEnter
  <2>3. /\ irqCounter' = IF tick' = "off" THEN 0 ELSE 1
        /\ tick' \in {"off", "loop", "out"}
    BY <2>2
  <2>4. UNCHANGED <<lists, objects, currentTask, highPrioTask, pendSV, halted, threads, taskVars, arg>>
    BY <1>1 DEF TickEnter
  <2> QED  BY <2>3, <2>4 DEF TypeOK, KernelTypeOK, lists, objects, tcb, threads, taskVars
<1>2. CASE TickTask /\ UNCHANGED <<taskVars, arg>>
  <2>1. Active \in SUBSET Prio
    BY DEF TypeOK, KernelTypeOK, Active
  <2>2. PICK i \in Prio : TickExpire(i) \/ TickForget(i) \/ TickKeep(i) \/ TickFault(i)
    BY <1>2, <2>1, HighestPrio DEF TickTask
  <2>3. tick = "loop" /\ UNCHANGED <<tcbPtrTbl, currentTask, highPrioTask, irqCounter, threads, pendSV>>
    BY <1>2 DEF TickTask
  <2> QED  BY <1>2, <2>2, <2>3, TickTypes DEF TypeOK, KernelTypeOK, threads, taskVars
<1>3. CASE TickOut /\ UNCHANGED <<taskVars, arg>>
  <2>1. Highest(taskPrioList) \in Prio
    BY HighestPrio DEF TypeOK, KernelTypeOK
  <2>2. highPrioTask' \in Prio /\ pendSV' \in BOOLEAN /\ halted' \in {"no", "null", "assert", "wild"}
    BY <1>3, <2>1, Owner DEF TickOut, Publish, TypeOK, KernelTypeOK
  <2>3. irqCounter' = 0 /\ tick' = "off"
    BY <1>3 DEF TickOut, TypeOK, KernelTypeOK
  <2> QED  BY <1>3, <2>2, <2>3 DEF TickOut, TypeOK, KernelTypeOK, lists, objects, tcb, threads, taskVars
<1>4. CASE PendSV /\ UNCHANGED <<taskVars, arg>>
  BY <1>4 DEF PendSV, TypeOK, KernelTypeOK, lists, objects, tcb, threads, taskVars
<1> QED  BY <1>1, <1>2, <1>3, <1>4 DEF Interrupts, Interrupt

\* A thread's labels after it goes on to one of them.
LEMMA GotoType ==
  ASSUME TypeOK, NEW t, NEW label \in TaskLabels, Goto(t, label)
  PROVE  pc' \in [Prio -> TaskLabels]
BY DEF TypeOK, KernelTypeOK, Goto

LEMMA YieldType ==
  ASSUME Inv, NEW t \in Prio, Yield(t), UNCHANGED <<taskVars, arg>>
  PROVE  TypeOK'
<1> USE PrioFacts
<1>0. TypeOK /\ TableOK /\ CallsOK
  BY DEF Inv
<1>1. CASE YieldFind(t)
  <2>1. Highest(taskPrioList) \in Prio
    BY <1>0, HighestPrio DEF TypeOK, KernelTypeOK
  <2>2. /\ yieldPrio' \in [Prio -> Prio]
        /\ \E label \in {after[t], "publish"} : Goto(t, label)
        /\ UNCHANGED <<lists, objects, cpu, after>>
    BY <1>0, <1>1, <2>1 DEF YieldFind, TypeOK, KernelTypeOK
  <2>3. {after[t], "publish"} \subseteq TaskLabels
    BY <1>0 DEF CallsOK, TaskLabels
  <2>4. pc' \in [Prio -> TaskLabels]
    BY <1>0, <2>2, <2>3, GotoType
  <2> QED  BY <1>0, <2>2, <2>4 DEF TypeOK, KernelTypeOK, lists, objects, tcb, cpu, taskVars
<1>2. CASE YieldPublish(t)
  <2>1. yieldPrio[t] \in Prio /\ after[t] \in TaskLabels
    BY <1>0 DEF TypeOK, KernelTypeOK
  <2>2. /\ highPrioTask' \in Prio /\ pendSV' \in BOOLEAN
        /\ Goto(t, "trapped") \/ Goto(t, after[t])
    BY <1>0, <1>2, <2>1, Owner DEF YieldPublish, Publish, TypeOK, KernelTypeOK
  <2>3. pc' \in [Prio -> TaskLabels]
    BY <1>0, <2>1, <2>2, GotoType DEF TaskLabels
  <2>4. yieldPrio' \in [Prio -> Prio] /\ after' \in [Prio -> TaskLabels]
    BY <1>0, <1>2 DEF YieldPublish, TypeOK, KernelTypeOK, TaskLabels
  <2>5. UNCHANGED <<lists, objects, currentTask, irqCounter, tick, halted>>
    BY <1>2 DEF YieldPublish
  <2> QED  BY <1>0, <2>2, <2>3, <2>4, <2>5 DEF TypeOK, KernelTypeOK, lists, objects, tcb, taskVars
<1> QED  BY <1>1, <1>2 DEF Yield

\* A thread that executes anything but the yield of its own deletion is
\* installed.
LEMMA RunnerInstalled ==
  ASSUME Inv, NEW t \in Prio, Runs(t), pc[t] \notin {"yield", "publish"}
  PROVE  Installed(t)
BY DEF Inv, DispatchOK, Runs

\* While a task is installed, two blocks are its own.
LEMMA InstalledBlocks ==
  ASSUME Inv
  PROVE  heap >= 2
<1>1. IdlePrio \in InstalledTasks
  BY PrioFacts DEF InstalledTasks, Installed, Inv, TableOK
<1>2. IsFiniteSet(Prio)
  BY PrioFacts, FS_Interval
<1>3. IsFiniteSet(InstalledTasks) /\ IsFiniteSet(Creators)
  BY <1>2, FS_Subset DEF InstalledTasks, Creators
<1>4. Cardinality(InstalledTasks) \in Nat /\ Cardinality(Creators) \in Nat
      /\ Cardinality(InstalledTasks) # 0
  BY <1>1, <1>3, FS_CardinalityType, FS_EmptySet
<1> QED  BY <1>4 DEF Inv, HeapCoversTasks, TypeOK

\* What the calls leave to their callers' types: everything a step of a
\* thread outside the interrupts and the yield may change.
LEMMA CallTypes ==
  ASSUME TypeOK,
         taskPrioList' \in SUBSET Prio,
         timerPendingList' \in [{0, 1} -> SUBSET Prio],
         tcbPtrTbl' \in [Prio -> Prio \cup {NULL}],
         taskStatus' \in [Prio -> SUBSET Status],
         delayTime' \in [Prio -> 0..MaxDelay],
         bmp' \in [Prio -> [Bmp -> List \cup {NULL, Wild}]],
         halted' \in {"no", "null", "assert", "wild"},
         pc' \in [Prio -> TaskLabels],
         yieldPrio' \in [Prio -> Prio],
         after' \in [Prio -> TaskLabels],
         tasksCount' \in 0..N, heap' \in 0..HeapBlocks, heapDirty' \in BOOLEAN,
         arg' \in [Prio -> Prio],
         UNCHANGED <<activeList, waitList, currentTask, highPrioTask, irqCounter,
                     pendSV, tick>>
  PROVE  TypeOK'
BY DEF TypeOK, KernelTypeOK

LEMMA ProceedType ==
  ASSUME Inv, NEW t \in Prio, Proceed(t)
  PROVE  TypeOK'
<1> USE PrioFacts
<1>0. /\ TypeOK /\ InCall \subseteq TaskLabels
      /\ TypeOK => KernelTypeOK(TaskLabels)
      /\ arg[t] \in Prio /\ after[t] \in TaskLabels
      /\ "yield" \in TaskLabels /\ "run" \in TaskLabels
  BY DEF Inv, TypeOK, KernelTypeOK, InCall, TaskLabels
<1>1. ASSUME Leave(t)
      PROVE  pc' \in [Prio -> TaskLabels] /\ arg' \in [Prio -> Prio]
  <2>1. pc' \in [Prio -> TaskLabels]
    BY <1>0, <1>1, GotoType DEF Leave
  <2> QED  BY <1>0, <1>1, <2>1 DEF Leave, TypeOK
<1>2. CASE Yield(t) /\ UNCHANGED <<taskVars, arg>>
  BY <1>2, YieldType
<1>3. CASE SuspendTask(t)
  <2>1. taskPrioList' \in SUBSET Prio /\ taskStatus' \in [Prio -> SUBSET Status]
    <3>1. taskPrioList \in SUBSET Prio /\ taskStatus \in [Prio -> SUBSET Status]
      BY <1>0 DEF KernelTypeOK
    <3>2. taskStatus[arg[t]] \cup {"Suspend"} \in SUBSET Status
      BY <1>0, <3>1 DEF Status
    <3>3. \/ taskStatus' = taskStatus
          \/ taskStatus' = [taskStatus EXCEPT ![arg[t]] = @ \cup {"Suspend"}]
      BY <1>3 DEF SuspendTask
    <3>4. taskPrioList' = taskPrioList \ {arg[t]}
      BY <1>3 DEF SuspendTask, Unready
    <3> QED  BY <1>0, <3>1, <3>2, <3>3, <3>4
  <2>2. halted' \in {"no", "null", "assert", "wild"}
    BY <1>0, <1>3 DEF SuspendTask, KernelTypeOK
  <2>3. pc' \in [Prio -> TaskLabels] /\ arg' \in [Prio -> Prio]
    BY <1>1, <1>3 DEF SuspendTask
  <2> QED  BY <1>0, <1>3, <2>1, <2>2, <2>3, CallTypes DEF SuspendTask, taskVars, TypeOK, KernelTypeOK
<1>4. CASE ResumeTask(t)
  <2>1. taskPrioList' \in SUBSET Prio /\ taskStatus' \in [Prio -> SUBSET Status]
    <3>1. taskPrioList \in SUBSET Prio /\ taskStatus \in [Prio -> SUBSET Status]
      BY <1>0 DEF KernelTypeOK
    <3>2. \/ taskStatus' = taskStatus
          \/ taskStatus' = [taskStatus EXCEPT ![arg[t]] = taskStatus[arg[t]] \ {"Suspend"}]
      BY <1>4 DEF ResumeTask
    <3>3. taskPrioList' = taskPrioList \/ taskPrioList' = taskPrioList \cup {arg[t]}
      BY <1>4 DEF ResumeTask, Ready
    <3>4. taskStatus[arg[t]] \ {"Suspend"} \in SUBSET Status
      BY <1>0, <3>1
    <3>5. taskStatus' \in [Prio -> SUBSET Status]
      BY <1>0, <3>1, <3>2, <3>4
    <3> QED  BY <1>0, <3>1, <3>3, <3>5
  <2>2. halted' \in {"no", "null", "assert", "wild"}
    BY <1>0, <1>4 DEF ResumeTask, KernelTypeOK
  <2>3. pc' \in [Prio -> TaskLabels] /\ arg' \in [Prio -> Prio]
    BY <1>1, <1>4 DEF ResumeTask
  <2> QED  BY <1>0, <1>4, <2>1, <2>2, <2>3, CallTypes DEF ResumeTask, taskVars, TypeOK, KernelTypeOK
<1>5. CASE CreateRefused(t)
  <2>1. heap' \in 0..HeapBlocks /\ heapDirty' \in BOOLEAN
    <3>1. heap \in 0..HeapBlocks /\ heap >= 2 /\ HeapBlocks \in Nat /\ heapDirty \in BOOLEAN
      BY <1>0, InstalledBlocks, HeapAssumption DEF TypeOK
    <3>2. heap' = heap \/ heap' = heap - 2
      BY <1>5 DEF CreateRefused
    <3>3. heapDirty' = heapDirty \/ heapDirty' = TRUE
      BY <1>5 DEF CreateRefused
    <3>4. heap' \in 0..HeapBlocks
      BY <3>1, <3>2
    <3> QED  BY <3>1, <3>3, <3>4
  <2>2. pc' \in [Prio -> TaskLabels]
    BY <1>0, <1>5, GotoType DEF CreateRefused, Enter
  <2>3. arg' \in [Prio -> Prio]
    BY <1>0, <1>5 DEF CreateRefused, Enter, TypeOK
  <2> QED  BY <1>0, <1>5, <2>1, <2>2, <2>3, CallTypes
           DEF CreateRefused, TypeOK, KernelTypeOK, lists, objects, tcb, cpu
<1>6. CASE CreateTask(t)
  <2>1. RawTCB(arg[t])
    BY <1>6 DEF CreateTask
  <2>2. taskStatus' \in [Prio -> SUBSET Status]
    BY <1>0, <2>1 DEF RawTCB, KernelTypeOK
  <2>3. delayTime' \in [Prio -> 0..MaxDelay]
    <3>1. PICK ticks \in {0, MaxDelay} : delayTime' = [delayTime EXCEPT ![arg[t]] = ticks]
      BY <2>1 DEF RawTCB
    <3>2. ticks \in 0..MaxDelay
      BY DelayAssumption
    <3> QED  BY <1>0, <3>1, <3>2 DEF KernelTypeOK
  <2>4. bmp' \in [Prio -> [Bmp -> List \cup {NULL, Wild}]]
    <3>1. PICK b \in Bmp, v \in {NULL, Wild} :
                 bmp' = [bmp EXCEPT ![arg[t]] = [NoList EXCEPT ![b] = v]]
      BY <2>1 DEF RawTCB
    <3>2. [NoList EXCEPT ![b] = v] \in [Bmp -> List \cup {NULL, Wild}]
      BY DEF NoList
    <3> QED  BY <1>0, <3>1, <3>2 DEF KernelTypeOK
  <2>5. tasksCount' \in 0..N
    <3>1. tasksCount \in Nat /\ tasksCount < N /\ tasksCount' = tasksCount + 1
      BY <1>0, <1>6 DEF CreateTask, TypeOK
    <3> QED  BY <3>1
  <2>6. /\ taskPrioList' \in SUBSET Prio /\ tcbPtrTbl' \in [Prio -> Prio \cup {NULL}]
        /\ pc' \in [Prio -> TaskLabels] /\ yieldPrio' \in [Prio -> Prio]
        /\ after' \in [Prio -> TaskLabels]
    BY <1>0, <1>6 DEF CreateTask, Ready, KernelTypeOK
  <2>7. arg' \in [Prio -> Prio]
    BY <1>0, <1>6 DEF CreateTask, TypeOK
  <2> QED  BY <1>0, <1>6, <2>2, <2>3, <2>4, <2>5, <2>6, <2>7, CallTypes
           DEF CreateTask, TypeOK, KernelTypeOK, cpu
<1>7. CASE DeleteTask(t)
  <2>1. heap' \in 0..HeapBlocks /\ heapDirty' \in BOOLEAN
    <3>1. heap \in 0..HeapBlocks /\ heap >= 2 /\ HeapBlocks \in Nat /\ heapDirty \in BOOLEAN
      BY <1>0, InstalledBlocks, HeapAssumption DEF TypeOK
    <3>2. heap' = heap \/ heap' = heap - 1
      BY <1>7 DEF DeleteTask
    <3>3. heapDirty' = heapDirty \/ heapDirty' = TRUE
      BY <1>7 DEF DeleteTask
    <3>4. heap' \in 0..HeapBlocks
      BY <3>1, <3>2
    <3> QED  BY <3>1, <3>3, <3>4
  <2>2. halted' \in {"no", "null", "assert", "wild"}
    BY <1>0, <1>7 DEF DeleteTask, KernelTypeOK
  <2>3. /\ taskPrioList' \in SUBSET Prio /\ tcbPtrTbl' \in [Prio -> Prio \cup {NULL}]
        /\ pc' \in [Prio -> TaskLabels] /\ yieldPrio' \in [Prio -> Prio]
        /\ after' \in [Prio -> TaskLabels]
    BY <1>0, <1>7 DEF DeleteTask, Unready, KernelTypeOK
  <2>4. arg' \in [Prio -> Prio]
    BY <1>0, <1>7 DEF DeleteTask, TypeOK
  <2> QED  BY <1>0, <1>7, <2>1, <2>2, <2>3, <2>4, CallTypes
           DEF DeleteTask, TypeOK, KernelTypeOK, tcb
<1> QED  BY <1>2, <1>3, <1>4, <1>5, <1>6, <1>7 DEF Proceed

LEMMA CallType ==
  ASSUME Inv, NEW t \in Prio, Call(t)
  PROVE  TypeOK'
<1> USE PrioFacts
<1>0. /\ TypeOK /\ KernelTypeOK(TaskLabels) /\ UserPrio \subseteq Prio
      /\ InCall \cup {"run", "yield", "spin"} \subseteq TaskLabels
  <2>1. TypeOK /\ KernelTypeOK(TaskLabels)
    BY DEF Inv, TypeOK
  <2>2. UserPrio \subseteq Prio
    BY SizeAssumption DEF UserPrio
  <2>3. InCall \cup {"run", "yield", "spin"} \subseteq TaskLabels
    BY DEF InCall, TaskLabels
  <2> QED  BY <2>1, <2>2, <2>3
<1>1. ASSUME NEW label \in InCall, NEW p \in Prio, Enter(t, label, p)
      PROVE  pc' \in [Prio -> TaskLabels] /\ arg' \in [Prio -> Prio]
  <2>1. pc' \in [Prio -> TaskLabels]
    BY <1>0, <1>1, GotoType DEF Enter
  <2> QED  BY <1>0, <1>1, <2>1 DEF Enter, TypeOK
<1>2. ASSUME NEW ticks \in 1..MaxDelay, Delay(t, ticks) PROVE TypeOK'
  <2>1. ticks \in 0..MaxDelay
    BY DelayAssumption
  <2>2. /\ taskPrioList' \in SUBSET Prio /\ taskStatus' \in [Prio -> SUBSET Status]
        /\ delayTime' \in [Prio -> 0..MaxDelay]
    BY <1>0, <1>2, <2>1 DEF Delay, Unready, Status, KernelTypeOK
  <2>3. timerPendingList' \in [{0, 1} -> SUBSET Prio]
    BY <1>0, <1>2 DEF Delay, KernelTypeOK
  <2>4. pc' \in [Prio -> TaskLabels]
    BY <1>0, <1>2, GotoType DEF Delay, Leave
  <2>5. arg' \in [Prio -> Prio]
    BY <1>0, <1>2 DEF Delay, Leave, TypeOK
  <2> QED  BY <1>0, <1>2, <2>2, <2>3, <2>4, <2>5, CallTypes
           DEF Delay, TypeOK, KernelTypeOK, cpu, taskVars
<1>3. ASSUME NEW p \in UserPrio,
             SuspendCheck(t, p) \/ ResumeCheck(t, p) \/ DeleteCheck(t, p)
      PROVE  TypeOK'
  <2>1. PICK label \in InCall : Enter(t, label, p)
    BY <1>3 DEF SuspendCheck, ResumeCheck, DeleteCheck, InCall
  <2>2. pc' \in [Prio -> TaskLabels] /\ arg' \in [Prio -> Prio]
    BY <1>0, <1>1, <2>1
  <2>3. UNCHANGED <<lists, objects, cpu, yieldPrio, after, taskVars>>
    BY <1>3 DEF SuspendCheck, ResumeCheck, DeleteCheck
  <2> QED  BY <1>0, <2>2, <2>3 DEF TypeOK, KernelTypeOK, lists, objects, tcb, cpu, taskVars
<1>4. ASSUME NEW p \in UserPrio, CreateAlloc(t, p) PROVE TypeOK'
  <2>1. pc' \in [Prio -> TaskLabels] /\ arg' \in [Prio -> Prio]
    BY <1>0, <1>1, <1>4 DEF CreateAlloc, InCall
  <2>2. heap' \in 0..HeapBlocks
    BY <1>0, <1>4, HeapAssumption DEF CreateAlloc, TypeOK
  <2> QED  BY <1>0, <1>4, <2>1, <2>2 DEF CreateAlloc, TypeOK, KernelTypeOK, lists, objects, tcb, cpu
<1>5. CASE CreateOutOfMemory(t)
  <2>1. heap' \in 0..HeapBlocks /\ heapDirty' \in BOOLEAN
    <3>1. heap \in 0..HeapBlocks /\ heapDirty \in BOOLEAN /\ HeapBlocks \in Nat
      BY <1>0, HeapAssumption DEF TypeOK
    <3>2. heap < HeapBlocks /\ (heap' = heap \/ heap' = heap + 1)
      BY <1>5 DEF CreateOutOfMemory
    <3>3. heapDirty' = heapDirty \/ heapDirty' = TRUE
      BY <1>5 DEF CreateOutOfMemory
    <3>4. heap' \in 0..HeapBlocks
      BY <3>1, <3>2
    <3> QED  BY <3>1, <3>3, <3>4
  <2> QED  BY <1>0, <1>5, <2>1
           DEF CreateOutOfMemory, TypeOK, KernelTypeOK, kernelVars, lists, objects, tcb, cpu, threads
<1>6. CASE Return(t)
  <2>1. PICK label \in InCall : Enter(t, label, t)
    BY <1>6 DEF Return, InCall
  <2>2. pc' \in [Prio -> TaskLabels] /\ arg' \in [Prio -> Prio]
    BY <1>0, <1>1, <2>1
  <2>3. after' \in [Prio -> TaskLabels]
    BY <1>0, <1>6 DEF Return, KernelTypeOK
  <2> QED  BY <1>0, <1>6, <2>2, <2>3 DEF Return, TypeOK, KernelTypeOK, lists, objects, tcb, cpu, taskVars
<1> QED  BY <1>2, <1>3, <1>4, <1>5, <1>6 DEF Call
-----------------------------------------------------------------------------
(* The table, the calls in progress and the ready list                     *)

\* The steps of the interrupts leave the table and the calls alone; what
\* they do to a task's status they do to the ready list.
LEMMA InterruptReady ==
  ASSUME Inv, Interrupts
  PROVE  (TableOK /\ CallsOK /\ ReadyIffUnblocked)'
<1> USE PrioFacts
<1>0. TypeOK /\ TableOK /\ CallsOK /\ ReadyIffUnblocked
  BY DEF Inv
<1>1. UNCHANGED <<tcbPtrTbl, pc, after, arg>>
  BY DEF Interrupts, Interrupt, TickEnter, TickTask, TickOut, PendSV, objects, threads
<1>2. \/ UNCHANGED <<taskPrioList, taskStatus>>
      \/ \E i \in Prio : /\ tcbPtrTbl[i] = i
                         /\ Ready(i)
                         /\ taskStatus' = [taskStatus EXCEPT ![i] = {}]
  <2>1. CASE TickTask
    <3>1. Active \in SUBSET Prio
      BY <1>0 DEF TypeOK, KernelTypeOK, Active
    <3>2. PICK i \in Prio : TickExpire(i) \/ TickForget(i) \/ TickKeep(i) \/ TickFault(i)
      BY <2>1, <3>1, HighestPrio DEF TickTask
    <3>3. CASE TickExpire(i)
      BY <1>0, <3>3, Owner DEF TickExpire
    <3>4. CASE TickForget(i) \/ TickKeep(i) \/ TickFault(i)
      BY <3>4 DEF TickForget, TickKeep, TickFault, tcb
    <3> QED  BY <3>2, <3>3, <3>4
  <2>2. CASE TickEnter \/ TickOut \/ PendSV
    BY <2>2 DEF TickEnter, TickOut, PendSV, lists, objects, tcb
  <2> QED  BY <2>1, <2>2 DEF Interrupts, Interrupt
<1>3. CASE UNCHANGED <<taskPrioList, taskStatus>>
  BY <1>0, <1>1, <1>3 DEF TableOK, CallsOK, ReadyIffUnblocked, Installed
<1>4. ASSUME NEW i \in Prio, tcbPtrTbl[i] = i, Ready(i),
             taskStatus' = [taskStatus EXCEPT ![i] = {}]
      PROVE  (TableOK /\ CallsOK /\ ReadyIffUnblocked)'
  <2>1. taskStatus \in [Prio -> SUBSET Status]
    BY <1>0 DEF TypeOK, KernelTypeOK
  <2>2. TableOK' /\ CallsOK'
    BY <1>0, <1>1, <1>4, <2>1 DEF TableOK, CallsOK
  <2>3. ReadyIffUnblocked'
    BY <1>0, <1>1, <1>4, <2>1 DEF ReadyIffUnblocked, Installed, Ready
  <2> QED  BY <2>2, <2>3
<1> QED  BY <1>2, <1>3, <1>4

\* What a step of a thread preserves that changes neither table nor ready
\* list nor status.
LEMMA NothingReady ==
  ASSUME TableOK, ReadyIffUnblocked, UNCHANGED <<tcbPtrTbl, taskPrioList, taskStatus>>
  PROVE  (TableOK /\ ReadyIffUnblocked)'
BY DEF TableOK, ReadyIffUnblocked, Installed

LEMMA ProceedReady ==
  ASSUME Inv, NEW t \in Prio, Proceed(t)
  PROVE  (TableOK /\ CallsOK /\ ReadyIffUnblocked)'
<1> USE PrioFacts
<1>0. TypeOK /\ TableOK /\ CallsOK /\ ReadyIffUnblocked
  BY DEF Inv
<1>1. /\ taskStatus \in [Prio -> SUBSET Status] /\ tcbPtrTbl \in [Prio -> Prio \cup {NULL}]
      /\ pc \in [Prio -> TaskLabels] /\ after \in [Prio -> TaskLabels]
      /\ arg \in [Prio -> Prio] /\ arg[t] \in Prio
  BY <1>0 DEF TypeOK, KernelTypeOK
<1>2. pc[t] \in InCall => arg[t] # IdlePrio
  BY <1>0 DEF CallsOK
<1>3. CASE Yield(t) /\ UNCHANGED <<taskVars, arg>>
  <2>1. UNCHANGED <<tcbPtrTbl, taskPrioList, taskStatus>>
    BY <1>3 DEF Yield, YieldFind, YieldPublish, lists, objects, tcb
  <2>2. CallsOK'
    <3>1. PICK label \in {after[t], "publish", "trapped"} : Goto(t, label)
      BY <1>3 DEF Yield, YieldFind, YieldPublish
    <3>2. label \notin InCall
      BY <1>0, <3>1 DEF CallsOK, InCall
    <3>3. after' = after \/ after' = [after EXCEPT ![t] = "run"]
      BY <1>3 DEF Yield, YieldFind, YieldPublish
    <3>4. \A s \in Prio : pc'[s] \in InCall => arg'[s] # IdlePrio
      BY <1>0, <1>1, <1>3, <3>1, <3>2 DEF CallsOK, Goto
    <3>5. \A s \in Prio : after'[s] \in {"run", "spin"}
      BY <1>0, <1>1, <3>3 DEF CallsOK
    <3> QED  BY <3>4, <3>5 DEF CallsOK
  <2> QED  BY <1>0, <2>1, <2>2, NothingReady
<1>4. ASSUME NEW label \in {"yield", "run"}, Goto(t, label),
             arg' = [arg EXCEPT ![t] = 0], UNCHANGED after
      PROVE  CallsOK'
  BY <1>0, <1>1, <1>4 DEF CallsOK, Goto, InCall
<1>5. CASE SuspendTask(t)
  <2>1. arg[t] # IdlePrio
    BY <1>2, <1>5 DEF SuspendTask, At, InCall
  <2>2. CallsOK'
    BY <1>4, <1>5 DEF SuspendTask, Leave
  <2>3. TableOK'
    BY <1>0, <1>1, <1>5, <2>1 DEF SuspendTask, TableOK
  <2>4. ReadyIffUnblocked'
    <3>1. taskPrioList' = taskPrioList \ {arg[t]} /\ tcbPtrTbl' = tcbPtrTbl
      BY <1>5 DEF SuspendTask, Unready
    <3>2. CASE tcbPtrTbl[arg[t]] = NULL
      BY <1>0, <1>5, <3>1, <3>2 DEF SuspendTask, ReadyIffUnblocked, Installed
    <3>3. CASE tcbPtrTbl[arg[t]] # NULL
      <4>1. taskStatus' = [taskStatus EXCEPT ![arg[t]] = @ \cup {"Suspend"}]
        BY <1>5, <3>3 DEF SuspendTask
      <4>2. taskStatus'[arg[t]] # {}
            /\ \A p \in Prio \ {arg[t]} : taskStatus'[p] = taskStatus[p]
        BY <1>1, <4>1
      <4> QED  BY <1>0, <3>1, <4>2 DEF ReadyIffUnblocked, Installed
    <3> QED  BY <3>2, <3>3
  <2> QED  BY <2>2, <2>3, <2>4
<1>6. CASE ResumeTask(t)
  <2>1. arg[t] # IdlePrio
    BY <1>2, <1>6 DEF ResumeTask, At, InCall
  <2>2. CallsOK'
    BY <1>4, <1>6 DEF ResumeTask, Leave
  <2>3. TableOK'
    BY <1>0, <1>1, <1>6, <2>1 DEF ResumeTask, TableOK
  <2>4. ReadyIffUnblocked'
    <3>1. tcbPtrTbl' = tcbPtrTbl
      BY <1>6 DEF ResumeTask
    <3>2. CASE tcbPtrTbl[arg[t]] = NULL
      BY <1>0, <1>6, <3>1, <3>2 DEF ResumeTask, ReadyIffUnblocked, Installed
    <3>3. CASE tcbPtrTbl[arg[t]] # NULL
      <4> DEFINE left == taskStatus[arg[t]] \ {"Suspend"}
      <4>1. /\ taskStatus' = [taskStatus EXCEPT ![arg[t]] = left]
            /\ taskPrioList' = IF left = {} THEN taskPrioList \cup {arg[t]} ELSE taskPrioList
        BY <1>6, <3>3 DEF ResumeTask, Ready
      <4>2. taskStatus'[arg[t]] = left
            /\ \A p \in Prio \ {arg[t]} : taskStatus'[p] = taskStatus[p]
        BY <1>1, <4>1
      <4>3. left # {} => taskStatus[arg[t]] # {}
        OBVIOUS
      <4> HIDE DEF left
      <4> QED  BY <1>0, <1>1, <3>1, <3>3, <4>1, <4>2, <4>3 DEF ReadyIffUnblocked, Installed
    <3> QED  BY <3>2, <3>3
  <2> QED  BY <2>2, <2>3, <2>4
<1>7. CASE CreateRefused(t)
  <2>1. UNCHANGED <<tcbPtrTbl, taskPrioList, taskStatus>>
    BY <1>7 DEF CreateRefused, lists, objects, tcb
  <2>2. CallsOK'
    BY <1>4, <1>7 DEF CreateRefused, Enter
  <2> QED  BY <1>0, <2>1, <2>2, NothingReady
<1>8. CASE CreateTask(t)
  <2>1. /\ arg[t] # IdlePrio /\ tcbPtrTbl[arg[t]] = NULL
        /\ taskStatus' = [taskStatus EXCEPT ![arg[t]] = {}]
        /\ tcbPtrTbl' = [tcbPtrTbl EXCEPT ![arg[t]] = arg[t]]
    BY <1>2, <1>8 DEF CreateTask, RawTCB, At, InCall
  <2>2. CallsOK'
    BY <1>0, <1>1, <1>8 DEF CreateTask, CallsOK, InCall
  <2>3. TableOK'
    BY <1>0, <1>1, <2>1 DEF TableOK
  <2>4. ReadyIffUnblocked'
    BY <1>0, <1>1, <1>8, <2>1 DEF CreateTask, Ready, ReadyIffUnblocked, Installed
  <2> QED  BY <2>2, <2>3, <2>4
<1>9. CASE DeleteTask(t)
  <2>1. arg[t] # IdlePrio
    BY <1>2, <1>9 DEF DeleteTask, At, InCall
  <2>2. CallsOK'
    BY <1>0, <1>1, <1>9 DEF DeleteTask, CallsOK, InCall
  <2>3. TableOK'
    BY <1>0, <1>1, <1>9, <2>1 DEF DeleteTask, TableOK, tcb
  <2>4. ReadyIffUnblocked'
    BY <1>0, <1>1, <1>9 DEF DeleteTask, Unready, ReadyIffUnblocked, Installed, tcb
  <2> QED  BY <2>2, <2>3, <2>4
<1> QED  BY <1>3, <1>5, <1>6, <1>7, <1>8, <1>9 DEF Proceed

LEMMA CallReady ==
  ASSUME Inv, NEW t \in Prio, Call(t)
  PROVE  (TableOK /\ CallsOK /\ ReadyIffUnblocked)'
<1> USE PrioFacts
<1>0. TypeOK /\ TableOK /\ CallsOK /\ ReadyIffUnblocked
  BY DEF Inv
<1>1. /\ taskStatus \in [Prio -> SUBSET Status] /\ pc \in [Prio -> TaskLabels]
      /\ after \in [Prio -> TaskLabels] /\ arg \in [Prio -> Prio]
  BY <1>0 DEF TypeOK, KernelTypeOK
<1>2. \A p \in UserPrio : p \in Prio /\ p # IdlePrio
  BY SizeAssumption DEF UserPrio
<1>3. ASSUME NEW ticks \in 1..MaxDelay, Delay(t, ticks)
      PROVE  (TableOK /\ CallsOK /\ ReadyIffUnblocked)'
  <2>1. t # IdlePrio
    BY <1>3 DEF Delay, Calls
  <2>2. CallsOK'
    BY <1>0, <1>1, <1>3 DEF Delay, Leave, Goto, CallsOK, InCall
  <2>3. TableOK'
    BY <1>0, <1>1, <1>3, <2>1 DEF Delay, TableOK
  <2>4. ReadyIffUnblocked'
    <3>1. /\ taskPrioList' = taskPrioList \ {t} /\ tcbPtrTbl' = tcbPtrTbl
          /\ taskStatus' = [taskStatus EXCEPT ![t] = @ \cup {"PendDelay"}]
      BY <1>3 DEF Delay, Unready
    <3>2. taskStatus'[t] # {} /\ \A p \in Prio \ {t} : taskStatus'[p] = taskStatus[p]
      BY <1>1, <3>1
    <3> QED  BY <1>0, <3>1, <3>2 DEF ReadyIffUnblocked, Installed
  <2> QED  BY <2>2, <2>3, <2>4
<1>4. ASSUME NEW p \in Prio, p # IdlePrio, NEW label, Enter(t, label, p),
             UNCHANGED <<tcbPtrTbl, taskPrioList, taskStatus>>,
             after' = after \/ after' = [after EXCEPT ![t] = "spin"]
      PROVE  (TableOK /\ CallsOK /\ ReadyIffUnblocked)'
  <2>1. CallsOK'
    BY <1>0, <1>1, <1>4 DEF Enter, Goto, CallsOK
  <2> QED  BY <1>0, <1>4, <2>1, NothingReady
<1>5. ASSUME NEW p \in UserPrio,
             \/ SuspendCheck(t, p) \/ ResumeCheck(t, p)
             \/ CreateAlloc(t, p) \/ DeleteCheck(t, p)
      PROVE  (TableOK /\ CallsOK /\ ReadyIffUnblocked)'
  <2>1. PICK label \in InCall : Enter(t, label, p)
    BY <1>5 DEF SuspendCheck, ResumeCheck, CreateAlloc, DeleteCheck, InCall
  <2>2. UNCHANGED <<tcbPtrTbl, taskPrioList, taskStatus, after>>
    BY <1>5 DEF SuspendCheck, ResumeCheck, CreateAlloc, DeleteCheck, lists, objects, tcb
  <2> QED  BY <1>2, <1>4, <2>1, <2>2
<1>6. CASE CreateOutOfMemory(t)
  <2>1. UNCHANGED <<tcbPtrTbl, taskPrioList, taskStatus, pc, after, arg>>
    BY <1>6 DEF CreateOutOfMemory, kernelVars, lists, objects, tcb, threads
  <2> QED  BY <1>0, <2>1, NothingReady DEF CallsOK
<1>7. CASE Return(t)
  <2>1. t # IdlePrio
    BY <1>7 DEF Return, Calls
  <2>2. PICK label \in InCall : Enter(t, label, t)
    BY <1>7 DEF Return, InCall
  <2>3. UNCHANGED <<tcbPtrTbl, taskPrioList, taskStatus>>
        /\ after' = [after EXCEPT ![t] = "spin"]
    BY <1>7 DEF Return, lists, objects, tcb
  <2> QED  BY <1>4, <2>1, <2>2, <2>3
<1> QED  BY <1>3, <1>5, <1>6, <1>7 DEF Call
-----------------------------------------------------------------------------
(* Dispatching                                                             *)

\* The highest ready priority belongs to an installed task.
LEMMA HighestInstalled ==
  ASSUME Inv
  PROVE  /\ Highest(taskPrioList) \in Prio
         /\ Installed(Highest(taskPrioList))
         /\ tcbPtrTbl[Highest(taskPrioList)] = Highest(taskPrioList)
<1>1. taskPrioList \in SUBSET Prio /\ IdlePrio \in taskPrioList
  BY PrioFacts DEF Inv, TypeOK, KernelTypeOK, TableOK, ReadyIffUnblocked, Installed
<1>2. Highest(taskPrioList) \in taskPrioList
  BY <1>1, HighestPrio
<1>3. Installed(Highest(taskPrioList))
  BY <1>1, <1>2 DEF Inv, ReadyIffUnblocked
<1> QED  BY <1>1, <1>2, <1>3, Owner DEF Inv, Installed

\* Publishing an installed task's priority, the running task is deleted only
\* if PendSV is requested.
LEMMA PublishOK ==
  ASSUME Inv, NEW prio \in Prio, Installed(prio), Publish(prio), tick' = "off",
         UNCHANGED <<tcbPtrTbl, currentTask>>
  PROVE  DispatchOK'
<1>1. tcbPtrTbl[prio] = prio
  BY Owner DEF Inv, Installed
<1>2. highPrioTask' = prio /\ pendSV' = (prio # currentTask)
  BY <1>1 DEF Publish
<1>3. Installed(prio)'
  BY DEF Installed
<1>4. pendSV' => tick' = "off" /\ Installed(highPrioTask)'
  BY <1>2, <1>3 DEF Installed
<1>5. ~pendSV' => Installed(currentTask)'
  BY <1>2, <1>3 DEF Installed
<1> QED  BY <1>4, <1>5 DEF DispatchOK

LEMMA InterruptDispatch ==
  ASSUME Inv, Interrupts
  PROVE  DispatchOK'
<1> USE PrioFacts
<1>0. DispatchOK /\ UNCHANGED <<tcbPtrTbl, pc, yieldPrio>>
  BY DEF Inv, Interrupts, Interrupt, TickEnter, TickTask, TickOut, PendSV, objects, threads
<1>1. CASE TickEnter
  BY <1>0, <1>1 DEF TickEnter, DispatchOK, Installed
<1>2. CASE TickTask
  <2>1. ~pendSV /\ halted = "no" /\ UNCHANGED <<pendSV, currentTask>>
    BY <1>0, <1>2 DEF TickTask, DispatchOK
  <2> QED  BY <1>0, <2>1 DEF DispatchOK, Installed
<1>3. CASE TickOut
  <2>1. tcbPtrTbl[Highest(taskPrioList)] # NULL
    BY HighestInstalled DEF Installed
  <2>2. /\ Publish(Highest(taskPrioList)) /\ tick' = "off"
        /\ UNCHANGED <<tcbPtrTbl, currentTask>>
    BY <1>0, <1>3, <2>1 DEF TickOut
  <2> QED  BY <2>2, HighestInstalled, PublishOK
<1>4. CASE PendSV
  <2>1. Installed(highPrioTask) /\ currentTask' = highPrioTask /\ ~pendSV'
    BY <1>0, <1>4 DEF PendSV, DispatchOK
  <2> QED  BY <1>0, <2>1 DEF DispatchOK, Installed
<1> QED  BY <1>1, <1>2, <1>3, <1>4 DEF Interrupts, Interrupt

\* A thread that runs and stays installed may do anything but request PendSV.
LEMMA RunnerStays ==
  ASSUME Inv, NEW t \in Prio, Runs(t), Installed(t)',
         UNCHANGED <<currentTask, pendSV, tick>>
  PROVE  DispatchOK'
<1>1. ~pendSV /\ currentTask = t
  BY DEF Runs
<1> QED  BY <1>1 DEF DispatchOK, Installed

LEMMA YieldDispatch ==
  ASSUME Inv, NEW t \in Prio, Yield(t)
  PROVE  DispatchOK'
<1>0. /\ TypeOK /\ DispatchOK /\ yieldPrio[t] \in Prio
      /\ pc \in [Prio -> TaskLabels] /\ yieldPrio \in [Prio -> Prio]
  BY DEF Inv, TypeOK, KernelTypeOK
<1>1. CASE YieldFind(t)
  <2>1. irqCounter = 0 /\ ~pendSV /\ currentTask = t /\ tick = "off"
    BY <1>0, <1>1 DEF YieldFind, At, Runs, TypeOK, KernelTypeOK
  <2>2. /\ pc' = [pc EXCEPT ![t] = "publish"]
        /\ yieldPrio' = [yieldPrio EXCEPT ![t] = Highest(taskPrioList)]
        /\ UNCHANGED <<tcbPtrTbl, currentTask, pendSV, tick, halted>>
    BY <1>1, <2>1 DEF YieldFind, Goto, objects, cpu
  <2>3. pc'[t] = "publish" /\ yieldPrio'[t] = Highest(taskPrioList)
    BY <1>0, <2>2
  <2>4. Installed(Highest(taskPrioList))
    BY HighestInstalled
  <2> QED  BY <2>1, <2>2, <2>3, <2>4 DEF DispatchOK, Installed
<1>2. CASE YieldPublish(t)
  <2>1. /\ Runs(t) /\ pc[t] = "publish" /\ tick' = "off"
        /\ UNCHANGED <<tcbPtrTbl, currentTask, tick>>
    BY <1>2 DEF YieldPublish, At, Runs, objects
  <2>2. CASE Installed(yieldPrio[t])
    <3>1. Publish(yieldPrio[t])
      BY <1>2, <2>2 DEF YieldPublish, Installed
    <3> QED  BY <1>0, <2>1, <2>2, <3>1, PublishOK
  <2>3. CASE ~Installed(yieldPrio[t])
    <3>1. Installed(t)
      BY <1>0, <2>1, <2>3 DEF DispatchOK, Runs
    <3>2. UNCHANGED pendSV
      BY <1>2, <2>3 DEF YieldPublish, Installed
    <3> QED  BY <2>1, <3>1, <3>2, RunnerStays DEF Installed
  <2> QED  BY <2>2, <2>3
<1> QED  BY <1>1, <1>2 DEF Yield

LEMMA ProceedDispatch ==
  ASSUME Inv, NEW t \in Prio, Proceed(t)
  PROVE  DispatchOK'
<1>0. /\ pc \in [Prio -> TaskLabels] /\ arg[t] \in Prio
      /\ tcbPtrTbl \in [Prio -> Prio \cup {NULL}]
  BY DEF Inv, TypeOK, KernelTypeOK
<1>1. CASE Yield(t) /\ UNCHANGED <<taskVars, arg>>
  BY <1>1, YieldDispatch
<1>2. CASE SuspendTask(t) \/ ResumeTask(t) \/ CreateRefused(t)
  <2>1. /\ Runs(t) /\ pc[t] \notin {"yield", "publish"}
        /\ UNCHANGED <<tcbPtrTbl, currentTask, pendSV, tick>>
    BY <1>2 DEF SuspendTask, ResumeTask, CreateRefused, At, objects, cpu
  <2>2. Installed(t)
    BY <2>1, RunnerInstalled
  <2> QED  BY <2>1, <2>2, RunnerStays DEF Installed
<1>3. CASE CreateTask(t)
  <2>1. /\ Runs(t) /\ pc[t] \notin {"yield", "publish"}
        /\ tcbPtrTbl' = [tcbPtrTbl EXCEPT ![arg[t]] = arg[t]]
        /\ UNCHANGED <<currentTask, pendSV, tick>>
    BY <1>3 DEF CreateTask, At, cpu
  <2>2. Installed(t)
    BY <2>1, RunnerInstalled
  <2>3. Installed(t)'
    BY <1>0, <2>1, <2>2, PrioFacts DEF Installed
  <2> QED  BY <2>1, <2>3, RunnerStays
<1>4. CASE DeleteTask(t)
  <2>1. /\ Runs(t) /\ pc[t] \notin {"yield", "publish"}
        /\ tcbPtrTbl' = [tcbPtrTbl EXCEPT ![arg[t]] = NULL]
        /\ pc' = [pc EXCEPT ![arg[t]] = "run", ![t] = "yield"]
        /\ UNCHANGED <<currentTask, pendSV, tick>>
    BY <1>4 DEF DeleteTask, At
  <2>2. ~pendSV /\ currentTask = t
    BY <2>1 DEF Runs
  <2>3. pc'[t] = "yield"
    BY <1>0, <2>1
  <2> QED  BY <2>1, <2>2, <2>3 DEF DispatchOK
<1> QED  BY <1>1, <1>2, <1>3, <1>4 DEF Proceed

LEMMA CallDispatch ==
  ASSUME Inv, NEW t \in Prio, Call(t)
  PROVE  DispatchOK'
<1>1. /\ Runs(t) /\ pc[t] = "run"
      /\ UNCHANGED <<tcbPtrTbl, currentTask, pendSV, tick>>
  BY DEF Call, Calls, At, Delay, SuspendCheck, ResumeCheck, CreateAlloc, DeleteCheck,
         CreateOutOfMemory, Return, kernelVars, objects, cpu
<1>2. Installed(t)
  BY <1>1, RunnerInstalled
<1> QED  BY <1>1, <1>2, RunnerStays DEF Installed
-----------------------------------------------------------------------------
(* The heap                                                                *)

LEMMA CountFacts ==
  /\ IsFiniteSet(InstalledTasks) /\ Cardinality(InstalledTasks) \in Nat
  /\ IsFiniteSet(Creators) /\ Cardinality(Creators) \in Nat
<1>1. IsFiniteSet(Prio)
  BY PrioFacts, FS_Interval
<1>2. IsFiniteSet(InstalledTasks) /\ IsFiniteSet(Creators)
  BY <1>1, FS_Subset DEF InstalledTasks, Creators
<1> QED  BY <1>2, FS_CardinalityType

\* Nobody is installed, deleted or begins to create, and no block is freed.
LEMMA HeapKept ==
  ASSUME HeapCoversTasks, heap \in Nat, heap' \in Nat, heap' >= heap,
         UNCHANGED tcbPtrTbl,
         \A p \in Prio : pc'[p] = "create" => pc[p] = "create"
  PROVE  HeapCoversTasks'
<1>1. InstalledTasks' = InstalledTasks
  BY DEF InstalledTasks, Installed
<1>2. Creators' \in SUBSET Creators
  BY <1>1 DEF Creators, InstalledTasks
<1>3. IsFiniteSet(Creators') /\ Cardinality(Creators') =< Cardinality(Creators)
  BY <1>2, CountFacts, FS_Subset
<1>4. Cardinality(Creators') \in Nat
  BY <1>3, FS_CardinalityType
<1> DEFINE i == Cardinality(InstalledTasks)
           c == Cardinality(Creators)
           d == Cardinality(Creators')
<1>5. i \in Nat /\ c \in Nat /\ d \in Nat /\ d =< c /\ heap >= 2 * (i + c)
  BY <1>3, <1>4, CountFacts DEF HeapCoversTasks
<1>6. heap' >= 2 * (i + d)
  <2> HIDE DEF i, c, d
  <2> QED  BY <1>5
<1> QED  BY <1>1, <1>6 DEF HeapCoversTasks

LEMMA ProceedHeap ==
  ASSUME Inv, NEW t \in Prio, Proceed(t)
  PROVE  HeapCoversTasks'
<1> DEFINE p == arg[t]
           i == Cardinality(InstalledTasks)
           c == Cardinality(Creators)
<1>0. /\ pc \in [Prio -> TaskLabels] /\ p \in Prio /\ heap \in Nat
      /\ tcbPtrTbl \in [Prio -> Prio \cup {NULL}] /\ HeapCoversTasks
      /\ after[t] \in {"run", "spin"}
  BY DEF Inv, TypeOK, KernelTypeOK, CallsOK
<1>1. i \in Nat /\ c \in Nat /\ heap >= 2 * (i + c)
  BY CountFacts DEF Inv, HeapCoversTasks
<1>2. At(t, "create") => t \in Creators /\ t \in InstalledTasks
  BY RunnerInstalled DEF At, Creators, InstalledTasks
<1>3. CASE \/ Yield(t) /\ UNCHANGED <<taskVars, arg>>
           \/ SuspendTask(t) \/ ResumeTask(t)
  <2>1. UNCHANGED <<tcbPtrTbl, heap>>
    BY <1>3 DEF Yield, YieldFind, YieldPublish, SuspendTask, ResumeTask, objects, taskVars
  <2>2. PICK label \in {"yield", "publish", "trapped", "run", "spin"} : Goto(t, label)
    BY <1>0, <1>3 DEF Yield, YieldFind, YieldPublish, SuspendTask, ResumeTask, Leave
  <2>3. \A q \in Prio : pc'[q] = "create" => pc[q] = "create"
    BY <1>0, <2>2 DEF Goto
  <2> QED  BY <1>0, <2>1, <2>3, HeapKept
<1>4. CASE CreateRefused(t)
  <2>1. Goto(t, "run") /\ UNCHANGED tcbPtrTbl
    BY <1>4 DEF CreateRefused, Enter, objects
  <2>2. InstalledTasks' = InstalledTasks
    BY <2>1 DEF InstalledTasks, Installed
  <2>3. Creators' = Creators \ {t}
    BY <1>0, <2>1, <2>2 DEF Creators, InstalledTasks, Goto
  <2>4. Cardinality(Creators') = c - 1
    BY <1>2, <1>4, <2>3, CountFacts, FS_RemoveElement DEF CreateRefused
  <2>5. heap' = heap \/ heap' = heap - 2
    BY <1>4 DEF CreateRefused
  <2>6. heap' >= 2 * (i + (c - 1))
    <3> HIDE DEF i, c
    <3> QED  BY <1>0, <1>1, <2>5
  <2> QED  BY <2>2, <2>4, <2>6 DEF HeapCoversTasks
<1>5. CASE CreateTask(t)
  <2>1. /\ tcbPtrTbl[p] = NULL /\ tcbPtrTbl' = [tcbPtrTbl EXCEPT ![p] = p]
        /\ pc' = [pc EXCEPT ![p] = "run", ![t] = "yield"] /\ heap' = heap
    BY <1>5 DEF CreateTask
  <2>2. t \in Creators /\ p \notin InstalledTasks
    BY <1>2, <1>5, <2>1 DEF CreateTask, InstalledTasks, Installed
  <2>3. InstalledTasks' = InstalledTasks \cup {p}
    BY <1>0, <2>1, PrioFacts DEF InstalledTasks, Installed
  <2>4. Creators' = Creators \ {t}
    BY <1>0, <2>1, <2>2, <2>3 DEF Creators, InstalledTasks
  <2>5. Cardinality(InstalledTasks') = i + 1
    BY <2>2, <2>3, CountFacts, FS_AddElement
  <2>6. Cardinality(Creators') = c - 1
    BY <2>2, <2>4, CountFacts, FS_RemoveElement
  <2>7. heap' >= 2 * ((i + 1) + (c - 1))
    <3> HIDE DEF i, c
    <3> QED  BY <1>0, <1>1, <2>1
  <2> QED  BY <2>5, <2>6, <2>7 DEF HeapCoversTasks
<1>6. CASE DeleteTask(t)
  <2>1. /\ tcbPtrTbl' = [tcbPtrTbl EXCEPT ![p] = NULL]
        /\ pc' = [pc EXCEPT ![p] = "run", ![t] = "yield"]
    BY <1>6 DEF DeleteTask
  <2>2. CASE tcbPtrTbl[p] = NULL
    <3>1. tcbPtrTbl' = tcbPtrTbl /\ heap' = heap
      BY <1>0, <1>6, <2>1, <2>2 DEF DeleteTask
    <3>2. \A q \in Prio : pc'[q] = "create" => pc[q] = "create"
      BY <1>0, <2>1
    <3> QED  BY <1>0, <3>1, <3>2, HeapKept
  <2>3. CASE tcbPtrTbl[p] # NULL
    <3>1. heap' = heap - 1
      BY <1>6, <2>3 DEF DeleteTask
    <3>2. InstalledTasks' = InstalledTasks \ {p} /\ p \in InstalledTasks
      BY <1>0, <2>1, <2>3 DEF InstalledTasks, Installed
    <3>3. Creators' \in SUBSET Creators
      BY <1>0, <2>1, <3>2 DEF Creators, InstalledTasks
    <3>4. Cardinality(InstalledTasks') = i - 1
      BY <3>2, CountFacts, FS_RemoveElement
    <3>5. Cardinality(Creators') =< c /\ IsFiniteSet(Creators')
      BY <3>3, CountFacts, FS_Subset
    <3>6. PICK d \in Nat : d = Cardinality(Creators') /\ d =< c
      BY <3>5, FS_CardinalityType
    <3>7. heap' >= 2 * ((i - 1) + d)
      <4> HIDE DEF i, c
      <4> QED  BY <1>0, <1>1, <3>1, <3>6
    <3> QED  BY <3>4, <3>6, <3>7 DEF HeapCoversTasks
  <2> QED  BY <2>2, <2>3
<1> QED  BY <1>3, <1>4, <1>5, <1>6 DEF Proceed

LEMMA CallHeap ==
  ASSUME Inv, NEW t \in Prio, Call(t)
  PROVE  HeapCoversTasks'
<1>0. /\ pc \in [Prio -> TaskLabels] /\ heap \in Nat /\ HeapCoversTasks
  BY DEF Inv, TypeOK, KernelTypeOK
<1>1. Runs(t) /\ pc[t] = "run" /\ UNCHANGED tcbPtrTbl
  BY DEF Call, Calls, At, Delay, SuspendCheck, ResumeCheck, CreateAlloc, DeleteCheck,
         CreateOutOfMemory, Return, kernelVars, objects
<1>2. ASSUME NEW q \in UserPrio, CreateAlloc(t, q) PROVE HeapCoversTasks'
  <2> DEFINE i == Cardinality(InstalledTasks)
             c == Cardinality(Creators)
  <2>1. Goto(t, "create") /\ heap' = heap + 2
    BY <1>2 DEF CreateAlloc, Enter
  <2>2. InstalledTasks' = InstalledTasks /\ t \in InstalledTasks
    BY <1>1, RunnerInstalled DEF InstalledTasks, Installed
  <2>3. Creators' = Creators \cup {t} /\ t \notin Creators
    BY <1>0, <1>1, <2>1, <2>2 DEF Creators, InstalledTasks, Goto
  <2>4. Cardinality(Creators') = c + 1
    BY <2>3, CountFacts, FS_AddElement
  <2>5. i \in Nat /\ c \in Nat /\ heap >= 2 * (i + c)
    BY CountFacts DEF Inv, HeapCoversTasks
  <2>6. heap' >= 2 * (i + (c + 1))
    <3> HIDE DEF i, c
    <3> QED  BY <1>0, <2>1, <2>5
  <2> QED  BY <2>2, <2>4, <2>6 DEF HeapCoversTasks
<1>3. CASE \/ \E ticks \in 1..MaxDelay : Delay(t, ticks)
           \/ \E q \in UserPrio : SuspendCheck(t, q) \/ ResumeCheck(t, q) \/ DeleteCheck(t, q)
           \/ Return(t)
  <2>1. PICK label \in {"yield", "suspend", "resume", "delete"} : Goto(t, label)
    BY <1>3 DEF Delay, Leave, SuspendCheck, ResumeCheck, DeleteCheck, Return, Enter
  <2>2. heap' = heap
    BY <1>3 DEF Delay, SuspendCheck, ResumeCheck, DeleteCheck, Return, taskVars
  <2>3. \A q \in Prio : pc'[q] = "create" => pc[q] = "create"
    BY <1>0, <2>1 DEF Goto
  <2> QED  BY <1>0, <1>1, <2>2, <2>3, HeapKept
<1>4. CASE CreateOutOfMemory(t)
  <2>1. UNCHANGED pc
    BY <1>4 DEF CreateOutOfMemory, kernelVars, threads
  <2>2. heap' \in Nat /\ heap' >= heap
    <3>1. heap' = heap \/ heap' = heap + 1
      BY <1>4 DEF CreateOutOfMemory
    <3> QED  BY <1>0, <3>1
  <2> QED  BY <1>0, <1>1, <2>1, <2>2, HeapKept
<1> QED  BY <1>2, <1>3, <1>4 DEF Call

LEMMA InterruptHeap ==
  ASSUME Inv, Interrupts
  PROVE  HeapCoversTasks'
<1>1. UNCHANGED <<tcbPtrTbl, pc, heap>>
  BY DEF Interrupts, Interrupt, TickEnter, TickTask, TickOut, PendSV, objects, threads, taskVars
<1>2. heap \in Nat /\ HeapCoversTasks
  BY DEF Inv, TypeOK
<1> QED  BY <1>1, <1>2, HeapKept
-----------------------------------------------------------------------------
(* The theorems                                                            *)

LEMMA StutterInv ==
  ASSUME Inv, UNCHANGED vars
  PROVE  Inv'
<1>1. UNCHANGED <<lists, objects, tcb, cpu, threads, taskVars, arg>>
  BY DEF vars, kernelVars, objects
<1>2. TypeOK'
  BY <1>1 DEF Inv, TypeOK, KernelTypeOK, lists, objects, tcb, cpu, threads, taskVars
<1>3. TableOK' /\ CallsOK' /\ ReadyIffUnblocked'
  BY <1>1 DEF Inv, TableOK, CallsOK, ReadyIffUnblocked, Installed,
              lists, objects, tcb, cpu, threads
<1>4. DispatchOK'
  BY <1>1 DEF Inv, DispatchOK, Installed, objects, cpu, threads
<1>5. HeapCoversTasks'
  <2>1. UNCHANGED <<tcbPtrTbl, pc, heap>>
    BY <1>1 DEF objects, threads, taskVars
  <2> QED  BY <2>1, HeapKept DEF Inv, TypeOK
<1> QED  BY <1>2, <1>3, <1>4, <1>5 DEF Inv

\* Every step preserves the inductive invariant.
LEMMA StepInv == Inv /\ [Next]_vars => Inv'
<1> SUFFICES ASSUME Inv, [Next]_vars PROVE Inv'
  OBVIOUS
<1>1. CASE Interrupts
  BY <1>1, InterruptType, InterruptReady, InterruptDispatch, InterruptHeap DEF Inv
<1>2. ASSUME NEW t \in Prio, Proceed(t) PROVE Inv'
  BY <1>2, ProceedType, ProceedReady, ProceedDispatch, ProceedHeap DEF Inv
<1>3. ASSUME NEW t \in Prio, Call(t) PROVE Inv'
  BY <1>3, CallType, CallReady, CallDispatch, CallHeap DEF Inv
<1>4. CASE UNCHANGED vars
  BY <1>4, StutterInv
<1> QED  BY <1>1, <1>2, <1>3, <1>4 DEF Next

\* The invariant holds of every behaviour.
THEOREM Invariance == Spec => []Inv
<1>1. Init => Inv
  BY InitInv
<1>2. Inv /\ [Next]_vars => Inv'
  BY StepInv
<1> QED  BY <1>1, <1>2, PTL DEF Spec

\* The kernel's variables keep their types: in particular the heap's count
\* never goes below zero and the count of tasks never beyond N.
THEOREM TypeCorrect == Spec => []TypeOK
<1>1. Inv => TypeOK
  BY DEF Inv
<1> QED  BY <1>1, Invariance, PTL

\* The ready list and the tasks' status agree, whatever the tasks call and
\* wherever the tick comes between.
THEOREM ReadyCorrect == Spec => []ReadyIffUnblocked
<1>1. Inv => ReadyIffUnblocked
  BY DEF Inv
<1> QED  BY <1>1, Invariance, PTL

\* A deleted task executes nothing but the yield it was deleted in.
THEOREM DeletedCorrect == Spec => []DeletedNeverRuns
<1>1. Inv => DeletedNeverRuns
  BY DEF Inv, DispatchOK, DeletedNeverRuns, Runs
<1> QED  BY <1>1, Invariance, PTL

\* No block of an installed task or of a create in progress is ever free.
THEOREM HeapCorrect == Spec => []HeapCoversTasks
<1>1. Inv => HeapCoversTasks
  BY DEF Inv
<1> QED  BY <1>1, Invariance, PTL
-----------------------------------------------------------------------------
(***************************************************************************)
(* As long as no task is created, deleted or returns while the kernel      *)
(* runs, the two timer lists implement the clock, for every number of      *)
(* tasks and every delay, and no assertion of the kernel fails. The second *)
(* half is what the proofs about the kernel objects rest on.               *)
(***************************************************************************)
\* The calls that leave the set of tasks alone.
TimingCalls == {"delay", "suspend", "resume"}

\* What a call in progress or a yield is about is installed.
TargetsOK == \A t \in Prio :
    /\ pc[t] \notin {"create", "delete"}
    /\ pc[t] \in {"suspend", "resume"} => Installed(arg[t])
    /\ pc[t] = "publish" => Installed(yieldPrio[t])

\* Sleepers are user tasks, and nobody waits for a kernel object.
SleepersOK ==
    /\ \A p \in Prio : Sleeps(p) => Installed(p) /\ p # IdlePrio
    /\ bmp = [p \in Prio |-> NoList]

\* The tick's loop has an entry to work off.
LoopOK == tick = "loop" => Active # {}

TInv == Inv /\ TimerMatchesDelay /\ NoFault /\ TargetsOK /\ SleepersOK /\ LoopOK
-----------------------------------------------------------------------------
\* Initially nobody sleeps.
LEMMA InitTInv == Init => TInv
<1> SUFFICES ASSUME Init PROVE TInv
  OBVIOUS
<1>1. Inv
  BY InitInv
<1>2. TimerMatchesDelay /\ SleepersOK
  BY DEF Init, KernelInit, TimerMatchesDelay, SleepersOK, Sleeps, Counting, Active, Backup
<1>3. NoFault /\ TargetsOK /\ LoopOK
  BY DEF Init, KernelInit, NoFault, TargetsOK, LoopOK
<1> QED  BY <1>1, <1>2, <1>3 DEF TInv

\* The types the proofs below use.
LEMMA TimerTypes ==
  ASSUME Inv
  PROVE  /\ timerPendingList \in [{0, 1} -> SUBSET Prio] /\ activeList \in {0, 1}
         /\ taskStatus \in [Prio -> SUBSET Status] /\ delayTime \in [Prio -> 0..MaxDelay]
         /\ \A p \in Prio : delayTime[p] \in Nat
         /\ pc \in [Prio -> TaskLabels] /\ after \in [Prio -> TaskLabels]
         /\ yieldPrio \in [Prio -> Prio] /\ arg \in [Prio -> Prio]
         /\ tcbPtrTbl \in [Prio -> Prio \cup {NULL}]
         /\ Active \in SUBSET Prio /\ Backup \in SUBSET Prio
         /\ tick \in {"off", "loop", "out"}
<1>1. /\ TypeOK /\ KernelTypeOK(TaskLabels)
  BY DEF Inv, TypeOK
<1>2. Active \in SUBSET Prio /\ Backup \in SUBSET Prio
  BY <1>1 DEF KernelTypeOK, Active, Backup
<1>3. \A p \in Prio : delayTime[p] \in Nat
  <2>1. MaxDelay \in Nat /\ delayTime \in [Prio -> 0..MaxDelay]
    <3>1. MaxDelay \in Nat
      BY DelayAssumption
    <3>2. delayTime \in [Prio -> 0..MaxDelay]
      BY <1>1 DEF KernelTypeOK
    <3> QED  BY <3>1, <3>2
  <2> QED  BY <2>1
<1>4. arg \in [Prio -> Prio]
  BY <1>1 DEF TypeOK
<1>5. /\ timerPendingList \in [{0, 1} -> SUBSET Prio] /\ activeList \in {0, 1}
      /\ taskStatus \in [Prio -> SUBSET Status] /\ delayTime \in [Prio -> 0..MaxDelay]
      /\ tcbPtrTbl \in [Prio -> Prio \cup {NULL}] /\ tick \in {"off", "loop", "out"}
  BY <1>1 DEF KernelTypeOK
<1>6. /\ pc \in [Prio -> TaskLabels] /\ after \in [Prio -> TaskLabels]
      /\ yieldPrio \in [Prio -> Prio]
  BY <1>1 DEF KernelTypeOK
<1> QED  BY <1>2, <1>3, <1>4, <1>5, <1>6

\* A task counts exactly when it is in the active or in the backup list.
LEMMA CountingLists ==
  ASSUME Inv, NEW p
  PROVE  Counting(p) <=> p \in Active \cup Backup
BY TimerTypes DEF Counting, Active, Backup

\* What a turn of the loop does to the lists, as a set of members each.
LEMMA TurnLists ==
  ASSUME Inv, NEW active \in SUBSET Prio, NEW backup \in SUBSET Prio,
         IdlePrio \notin active, tick = "loop", Turn(active, backup)
  PROVE  /\ timerPendingList'[0] \cup timerPendingList'[1] = active \cup backup
         /\ \/ /\ active # {} /\ tick' = "loop" /\ Active' = active /\ Backup' = backup
            \/ /\ active = {} /\ tick' = "out" /\ Active' = backup /\ Backup' = {}
<1>1. Highest(active) # 0 <=> active # {}
  <2>1. active # {} => Highest(active) \in active
    BY HighestPrio
  <2> QED  BY <2>1 DEF Highest, IdlePrio
<1>2. /\ timerPendingList' = [timerPendingList EXCEPT ![activeList] = active,
                                                    ![1 - activeList] = backup]
      /\ timerPendingList \in [{0, 1} -> SUBSET Prio] /\ activeList \in {0, 1}
  BY TimerTypes DEF Turn
<1>3. /\ timerPendingList'[activeList] = active
      /\ timerPendingList'[1 - activeList] = backup
      /\ timerPendingList'[0] \cup timerPendingList'[1] = active \cup backup
  BY <1>2
<1>4. CASE active # {}
  BY <1>1, <1>2, <1>3, <1>4 DEF Turn, Active, Backup
<1>5. CASE active = {}
  <2>1. activeList' = 1 - activeList /\ tick' = "out"
    BY <1>1, <1>5 DEF Turn
  <2>2. 1 - activeList' = activeList
    BY <1>2, <2>1
  <2> QED  BY <1>2, <1>3, <1>5, <2>1, <2>2 DEF Active, Backup
<1> QED  BY <1>3, <1>4, <1>5
-----------------------------------------------------------------------------
(* One turn of the tick's loop                                             *)

\* The entry the loop looks at sleeps and has ticks left.
LEMMA LoopEntry ==
  ASSUME TInv, tick = "loop"
  PROVE  /\ Highest(Active) \in Prio /\ Highest(Active) \in Active
         /\ Sleeps(Highest(Active)) /\ delayTime[Highest(Active)] > 0
         /\ tcbPtrTbl[Highest(Active)] = Highest(Active)
         /\ Highest(Active) # NULL
         /\ IdlePrio \notin Active
<1> DEFINE i == Highest(Active)
<1>1. i \in Prio /\ i \in Active
  BY TimerTypes, HighestPrio DEF TInv, LoopOK
<1>2. Sleeps(i) /\ delayTime[i] > 0
  BY <1>1, CountingLists DEF TInv, TimerMatchesDelay
<1>3. tcbPtrTbl[i] = i
  BY <1>1, <1>2, Owner DEF TInv, SleepersOK, Installed, Inv
<1>4. IdlePrio \notin Active
  BY CountingLists, PrioFacts DEF TInv, TimerMatchesDelay, SleepersOK
<1> HIDE DEF i
<1>5. i # NULL
  BY <1>1, PrioFacts
<1> QED  BY <1>1, <1>2, <1>3, <1>4, <1>5 DEF i

\* A turn ends a delay or takes one tick off it.
LEMMA LoopTurn ==
  ASSUME TInv, TickTask
  PROVE  \E i \in Active :
           /\ i \in Prio /\ Sleeps(i) /\ tick = "loop"
           /\ \/ /\ delayTime[i] = 1
                 /\ taskStatus' = [taskStatus EXCEPT ![i] = {}]
                 /\ delayTime' = [delayTime EXCEPT ![i] = 0]
                 /\ bmp' = [bmp EXCEPT ![i] = NoList]
                 /\ Turn(Active \ {i}, Backup)
              \/ /\ delayTime[i] > 1
                 /\ delayTime' = [delayTime EXCEPT ![i] = @ - 1]
                 /\ UNCHANGED <<taskStatus, bmp>>
                 /\ Turn(Active \ {i}, Backup \cup {i})
           /\ UNCHANGED halted
<1> DEFINE i == Highest(Active)
<1>1. tick = "loop" /\ (TickExpire(i) \/ TickForget(i) \/ TickKeep(i) \/ TickFault(i))
  BY DEF TickTask
<1>2. /\ i \in Prio /\ i \in Active /\ Sleeps(i) /\ delayTime[i] > 0
      /\ tcbPtrTbl[i] = i /\ i # NULL
  BY <1>1, LoopEntry
<1> HIDE DEF i
<1>3. ~TickForget(i)
  BY <1>2 DEF TickForget, Sleeps
<1>4. ~TickFault(i)
  <2>1. \A b \in Bmp : bmp[i][b] = NULL
    BY <1>2 DEF TInv, SleepersOK, NoList
  <2>2. delayTime[i] # 0
    BY <1>2, TimerTypes DEF TInv
  <2> QED  BY <1>2, <2>1, <2>2, PrioFacts DEF TickFault
<1>5. CASE TickExpire(i)
  BY <1>1, <1>2, <1>5 DEF TickExpire
<1>6. CASE TickKeep(i)
  BY <1>1, <1>2, <1>6 DEF TickKeep
<1> QED  BY <1>1, <1>3, <1>4, <1>5, <1>6
-----------------------------------------------------------------------------
(* The tick keeps the lists and the delays in step                         *)

\* The interrupts leave threads and table alone.
LEMMA InterruptTargets ==
  ASSUME TInv, Interrupts
  PROVE  TargetsOK' /\ UNCHANGED <<pc, tcbPtrTbl>>
<1>1. UNCHANGED <<pc, arg, yieldPrio, tcbPtrTbl>>
  BY DEF Interrupts, Interrupt, TickEnter, TickTask, TickOut, PendSV, objects, threads
<1> QED  BY <1>1 DEF TInv, TargetsOK, Installed

LEMMA InterruptTimer ==
  ASSUME TInv, Interrupts
  PROVE  (TimerMatchesDelay /\ NoFault /\ SleepersOK /\ LoopOK)'
<1>0. TimerMatchesDelay /\ NoFault /\ SleepersOK /\ LoopOK /\ Inv
      /\ UNCHANGED <<pc, tcbPtrTbl>>
  BY InterruptTargets DEF TInv
<1>1. CASE TickTask
  <2>1. PICK i \in Active :
           /\ i \in Prio /\ Sleeps(i) /\ tick = "loop"
           /\ \/ /\ delayTime[i] = 1
                 /\ taskStatus' = [taskStatus EXCEPT ![i] = {}]
                 /\ delayTime' = [delayTime EXCEPT ![i] = 0]
                 /\ bmp' = [bmp EXCEPT ![i] = NoList]
                 /\ Turn(Active \ {i}, Backup)
              \/ /\ delayTime[i] > 1
                 /\ delayTime' = [delayTime EXCEPT ![i] = @ - 1]
                 /\ UNCHANGED <<taskStatus, bmp>>
                 /\ Turn(Active \ {i}, Backup \cup {i})
           /\ UNCHANGED halted
    BY <1>0, <1>1, LoopTurn
  <2>2. PICK backup \in {Backup, Backup \cup {i}} :
           /\ Turn(Active \ {i}, backup)
           /\ i \in backup <=> "PendDelay" \in taskStatus'[i]
           /\ "PendDelay" \in taskStatus'[i] => delayTime'[i] > 0
           /\ \A p \in Prio \ {i} : /\ taskStatus'[p] = taskStatus[p]
                                   /\ delayTime'[p] = delayTime[p]
    <3>1. /\ taskStatus \in [Prio -> SUBSET Status] /\ delayTime \in [Prio -> 0..MaxDelay]
          /\ \A p \in Prio : delayTime[p] \in Nat
      BY <1>0, TimerTypes
    <3>2. i \notin Backup
      BY <2>1, <1>0 DEF TimerMatchesDelay
    <3>3. CASE delayTime[i] = 1
      BY <2>1, <3>1, <3>2, <3>3
    <3>4. CASE delayTime[i] > 1
      <4>1. delayTime'[i] > 0 /\ \A p \in Prio \ {i} : delayTime'[p] = delayTime[p]
        BY <2>1, <3>1, <3>4
      <4>2. taskStatus' = taskStatus /\ Turn(Active \ {i}, Backup \cup {i})
        BY <2>1, <3>4
      <4> QED  BY <2>1, <4>1, <4>2 DEF Sleeps
    <3> QED  BY <2>1, <3>3, <3>4
  <2>3. IdlePrio \notin Active /\ Active \in SUBSET Prio /\ Backup \in SUBSET Prio
    BY <1>0, <2>1, TimerTypes, LoopEntry
  <2>4. /\ timerPendingList'[0] \cup timerPendingList'[1] = (Active \ {i}) \cup backup
        /\ \/ /\ Active \ {i} # {} /\ tick' = "loop" /\ Active' = Active \ {i} /\ Backup' = backup
           \/ /\ Active \ {i} = {} /\ tick' = "out" /\ Active' = backup /\ Backup' = {}
    <3>1. Active \ {i} \in SUBSET Prio /\ backup \in SUBSET Prio /\ IdlePrio \notin Active \ {i}
      BY <2>1, <2>3
    <3> QED  BY <1>0, <2>1, <2>2, <3>1, TurnLists
  <2>5. \A p \in Prio : Sleeps(p)' <=> Counting(p)'
    <3>1. \A p \in Prio : Counting(p)' <=> p \in (Active \ {i}) \cup backup
      BY <2>4 DEF Counting
    <3>2. \A p \in Prio : Sleeps(p) <=> p \in Active \cup Backup
      BY <1>0, CountingLists DEF TimerMatchesDelay
    <3>3. ASSUME NEW p \in Prio, p # i
          PROVE  (Sleeps(p)' <=> Sleeps(p)) /\ (p \in (Active \ {i}) \cup backup <=> p \in Active \cup Backup)
      BY <2>2, <3>3 DEF Sleeps
    <3>4. Sleeps(i)' <=> i \in (Active \ {i}) \cup backup
      BY <2>2 DEF Sleeps
    <3> QED  BY <3>1, <3>2, <3>3, <3>4
  <2>6. \A p \in Prio : Counting(p)' => delayTime'[p] > 0
    <3>1. ASSUME NEW p \in Prio, Sleeps(p)' PROVE delayTime'[p] > 0
      <4>1. CASE p = i
        BY <2>2, <3>1, <4>1 DEF Sleeps
      <4>2. CASE p # i
        BY <1>0, <2>2, <3>1, <4>2 DEF Sleeps, TimerMatchesDelay
      <4> QED  BY <4>1, <4>2
    <3> QED  BY <2>5, <3>1
  <2>7. Active' \cap Backup' = {} /\ (tick' # "loop" => Backup' = {})
    BY <1>0, <2>2, <2>4 DEF TimerMatchesDelay
  <2>8. NoFault' /\ LoopOK'
    BY <1>0, <2>1, <2>4 DEF NoFault, LoopOK
  <2>9. SleepersOK'
    <3>1. \A p \in Prio : Sleeps(p)' => Sleeps(p)
      BY <2>1, <2>2 DEF Sleeps
    <3>2. bmp' = [p \in Prio |-> NoList]
      BY <1>0, <2>1 DEF SleepersOK
    <3> QED  BY <1>0, <3>1, <3>2 DEF SleepersOK, Installed
  <2> QED  BY <2>5, <2>6, <2>7, <2>8, <2>9 DEF TimerMatchesDelay
<1>2. ASSUME UNCHANGED <<timerPendingList, activeList, taskStatus, delayTime, bmp>>,
             halted' = "no", tick' = "loop" => Active # {},
             tick' # "loop" => Backup = {}
      PROVE  (TimerMatchesDelay /\ NoFault /\ SleepersOK /\ LoopOK)'
  <2>1. Active' = Active /\ Backup' = Backup /\ \A p \in Prio : Counting(p)' <=> Counting(p)
    BY <1>2 DEF Active, Backup, Counting
  <2>2. TimerMatchesDelay'
    BY <1>0, <1>2, <2>1 DEF TimerMatchesDelay, Sleeps
  <2>3. SleepersOK'
    BY <1>0, <1>2 DEF SleepersOK, Sleeps, Installed
  <2>4. NoFault' /\ LoopOK'
    BY <1>0, <1>2, <2>1 DEF NoFault, LoopOK
  <2> QED  BY <2>2, <2>3, <2>4
<1>3. CASE TickEnter
  <2>1. UNCHANGED <<timerPendingList, activeList, taskStatus, delayTime, bmp>> /\ halted' = "no"
    BY <1>3 DEF TickEnter, lists, objects, tcb
  <2>2. Backup = {}
    BY <1>0, <1>3 DEF TickEnter, TimerMatchesDelay
  <2>3. tick' = "loop" => Active # {}
    BY <1>3 DEF TickEnter, Highest
  <2> QED  BY <1>2, <2>1, <2>2, <2>3
<1>4. CASE TickOut \/ PendSV
  <2>1. tcbPtrTbl[Highest(taskPrioList)] # NULL
    BY <1>0, HighestInstalled DEF Installed
  <2>2. UNCHANGED <<timerPendingList, activeList, taskStatus, delayTime, bmp>> /\ halted' = "no"
    BY <1>4, <2>1 DEF TickOut, PendSV, lists, objects, tcb
  <2>3. tick # "loop" /\ tick' # "loop"
    BY <1>4 DEF TickOut, PendSV
  <2>4. Backup = {}
    BY <1>0, <2>3 DEF TimerMatchesDelay
  <2> QED  BY <1>2, <2>2, <2>3, <2>4
<1> QED  BY <1>1, <1>3, <1>4 DEF Interrupts, Interrupt
-----------------------------------------------------------------------------
(* The threads                                                             *)

\* A step of a thread that touches no timer.
LEMMA NoTimer ==
  ASSUME TInv,
         UNCHANGED <<timerPendingList, activeList, delayTime, bmp, tcbPtrTbl, tick>>,
         \A p \in Prio : Sleeps(p)' <=> Sleeps(p)
  PROVE  (TimerMatchesDelay /\ SleepersOK /\ LoopOK)'
<1>1. Active' = Active /\ Backup' = Backup /\ \A p \in Prio : Counting(p)' <=> Counting(p)
  BY DEF Active, Backup, Counting
<1> QED  BY <1>1 DEF TInv, TimerMatchesDelay, SleepersOK, LoopOK, Installed

LEMMA ProceedTimer ==
  ASSUME TInv, NEW t \in Prio, Proceed(t)
  PROVE  /\ (TimerMatchesDelay /\ NoFault /\ TargetsOK /\ SleepersOK /\ LoopOK)'
         /\ UNCHANGED <<timerPendingList, activeList, delayTime, bmp, tcbPtrTbl, tick>>
         /\ \A p \in Prio : Sleeps(p)' <=> Sleeps(p)
<1>0. Inv /\ TargetsOK /\ NoFault /\ CallsOK /\ pc \in [Prio -> TaskLabels]
      /\ yieldPrio \in [Prio -> Prio] /\ arg \in [Prio -> Prio]
      /\ taskStatus \in [Prio -> SUBSET Status] /\ arg[t] \in Prio
  BY TimerTypes DEF TInv, Inv
<1>1. pc[t] \notin {"create", "delete"}
  BY <1>0 DEF TargetsOK
<1>2. ASSUME NEW label \in {"yield", "run", "spin"}, Goto(t, label),
             UNCHANGED <<timerPendingList, activeList, delayTime, bmp, tcbPtrTbl, tick, halted>>,
             arg' = arg \/ arg' = [arg EXCEPT ![t] = 0],
             yieldPrio' = yieldPrio \/ yieldPrio' = [yieldPrio EXCEPT ![t] = 0]
      PROVE  NoFault' /\ TargetsOK'
  <2>1. pc'[t] = label /\ \A s \in Prio \ {t} : pc'[s] = pc[s]
    BY <1>0, <1>2 DEF Goto
  <2>2. \A s \in Prio \ {t} : arg'[s] = arg[s] /\ yieldPrio'[s] = yieldPrio[s]
    BY <1>0, <1>2
  <2> QED  BY <1>0, <1>2, <2>1, <2>2 DEF NoFault, TargetsOK, Installed
<1>3. CASE YieldFind(t) /\ UNCHANGED <<taskVars, arg>>
  <2>1. /\ UNCHANGED <<timerPendingList, activeList, taskStatus, delayTime, bmp,
                       tcbPtrTbl, tick, halted, arg>>
        /\ yieldPrio' = [yieldPrio EXCEPT ![t] = Highest(taskPrioList)]
    BY <1>3 DEF YieldFind, lists, objects, tcb, cpu
  <2>2. irqCounter = 0
    BY <1>0, <1>3 DEF YieldFind, At, Runs, Inv, TypeOK, KernelTypeOK
  <2>3. Goto(t, "publish")
    BY <1>3, <2>2 DEF YieldFind
  <2>4. pc'[t] = "publish" /\ \A s \in Prio \ {t} : pc'[s] = pc[s]
    BY <1>0, <2>3 DEF Goto
  <2>5. Installed(yieldPrio'[t]) /\ \A s \in Prio \ {t} : yieldPrio'[s] = yieldPrio[s]
    BY <1>0, <2>1, HighestInstalled
  <2>6. NoFault' /\ TargetsOK'
    BY <1>0, <2>1, <2>4, <2>5 DEF NoFault, TargetsOK, Installed
  <2> QED  BY <2>1, <2>6, NoTimer DEF Sleeps
<1>4. CASE YieldPublish(t) /\ UNCHANGED <<taskVars, arg>>
  <2>1. /\ UNCHANGED <<timerPendingList, activeList, taskStatus, delayTime, bmp,
                       tcbPtrTbl, tick, halted, arg>>
        /\ yieldPrio' = [yieldPrio EXCEPT ![t] = 0]
    BY <1>4 DEF YieldPublish, lists, objects, tcb
  <2>2. Installed(yieldPrio[t])
    BY <1>0, <1>4 DEF YieldPublish, At, TargetsOK
  <2>3. Goto(t, after[t]) /\ after[t] \in {"yield", "run", "spin"}
    BY <1>0, <1>4, <2>2 DEF YieldPublish, Installed, CallsOK
  <2>4. NoFault' /\ TargetsOK'
    BY <1>2, <2>1, <2>3
  <2> QED  BY <2>1, <2>4, NoTimer DEF Sleeps
<1>5. CASE SuspendTask(t)
  <2>1. tcbPtrTbl[arg[t]] # NULL
    BY <1>0, <1>5 DEF SuspendTask, At, TargetsOK, Installed
  <2>2. /\ UNCHANGED <<timerPendingList, activeList, delayTime, bmp, tcbPtrTbl, tick,
                       halted, yieldPrio>>
        /\ taskStatus' = [taskStatus EXCEPT ![arg[t]] = @ \cup {"Suspend"}]
        /\ Goto(t, "yield") /\ arg' = [arg EXCEPT ![t] = 0]
    BY <1>5, <2>1 DEF SuspendTask, Leave
  <2>3. \A p \in Prio : Sleeps(p)' <=> Sleeps(p)
    BY <1>0, <2>2 DEF Sleeps
  <2>4. NoFault' /\ TargetsOK'
    BY <1>2, <2>2
  <2> QED  BY <2>2, <2>3, <2>4, NoTimer
<1>6. CASE ResumeTask(t)
  <2>1. tcbPtrTbl[arg[t]] # NULL
    BY <1>0, <1>6 DEF ResumeTask, At, TargetsOK, Installed
  <2>2. /\ UNCHANGED <<timerPendingList, activeList, delayTime, bmp, tcbPtrTbl, tick,
                       halted, yieldPrio>>
        /\ taskStatus' = [taskStatus EXCEPT ![arg[t]] = taskStatus[arg[t]] \ {"Suspend"}]
        /\ Goto(t, "yield") /\ arg' = [arg EXCEPT ![t] = 0]
    BY <1>6, <2>1 DEF ResumeTask, Leave
  <2>3. \A p \in Prio : Sleeps(p)' <=> Sleeps(p)
    BY <1>0, <2>2 DEF Sleeps
  <2>4. NoFault' /\ TargetsOK'
    BY <1>2, <2>2
  <2> QED  BY <2>2, <2>3, <2>4, NoTimer
<1>7. ~CreateRefused(t) /\ ~CreateTask(t) /\ ~DeleteTask(t)
  BY <1>1 DEF CreateRefused, CreateTask, DeleteTask, At
<1> QED  BY <1>3, <1>4, <1>5, <1>6, <1>7 DEF Proceed, Yield

\* A delay lets one task lie down, for as long as it asked.
LEMMA DelayStep ==
  ASSUME TInv, NEW t \in Prio, NEW ticks \in 1..MaxDelay, Delay(t, ticks)
  PROVE  /\ (TimerMatchesDelay /\ NoFault /\ TargetsOK /\ SleepersOK /\ LoopOK)'
         /\ tick = "off" /\ tick' = "off" /\ Sleeps(t)' /\ delayTime'[t] = ticks
         /\ \A p \in Prio \ {t} : /\ Sleeps(p)' <=> Sleeps(p)
                                 /\ delayTime'[p] = delayTime[p]
<1>0. Inv /\ TargetsOK /\ NoFault /\ TimerMatchesDelay /\ SleepersOK
  BY DEF TInv
<1>1. /\ pc \in [Prio -> TaskLabels] /\ arg \in [Prio -> Prio]
      /\ taskStatus \in [Prio -> SUBSET Status] /\ delayTime \in [Prio -> 0..MaxDelay]
      /\ timerPendingList \in [{0, 1} -> SUBSET Prio] /\ activeList \in {0, 1}
  BY <1>0, TimerTypes
<1>2. /\ tick = "off" /\ Runs(t) /\ pc[t] = "run" /\ t # IdlePrio
      /\ taskStatus' = [taskStatus EXCEPT ![t] = @ \cup {"PendDelay"}]
      /\ delayTime' = [delayTime EXCEPT ![t] = ticks]
      /\ timerPendingList' = [timerPendingList EXCEPT ![activeList] = @ \cup {t}]
      /\ Goto(t, "yield") /\ arg' = [arg EXCEPT ![t] = 0]
      /\ UNCHANGED <<activeList, tcbPtrTbl, bmp, tick, halted, yieldPrio>>
  BY DEF Delay, Calls, At, Runs, Leave, cpu
<1>3. Installed(t)
  BY <1>0, <1>2, RunnerInstalled
<1>4. ticks > 0 /\ Sleeps(t)' /\ delayTime'[t] = ticks
      /\ \A p \in Prio \ {t} : (Sleeps(p)' <=> Sleeps(p)) /\ delayTime'[p] = delayTime[p]
  <2>1. ticks > 0
    BY DelayAssumption
  <2>2. delayTime'[t] = ticks /\ \A p \in Prio \ {t} : delayTime'[p] = delayTime[p]
    BY <1>1, <1>2
  <2>3. taskStatus'[t] = taskStatus[t] \cup {"PendDelay"}
        /\ \A p \in Prio \ {t} : taskStatus'[p] = taskStatus[p]
    BY <1>1, <1>2
  <2> QED  BY <2>1, <2>2, <2>3 DEF Sleeps
<1>5. Active' = Active \cup {t} /\ Backup' = Backup /\ Backup = {}
  BY <1>0, <1>1, <1>2 DEF Active, Backup, TimerMatchesDelay
<1>6. \A p \in Prio : Counting(p)' <=> Counting(p) \/ p = t
  BY <1>1, <1>2 DEF Counting
<1>7. TimerMatchesDelay'
  <2>1. \A p \in Prio : Sleeps(p)' <=> Counting(p)'
    BY <1>0, <1>4, <1>6 DEF TimerMatchesDelay
  <2>2. \A p \in Prio : Counting(p)' => delayTime'[p] > 0
    BY <1>0, <1>4, <1>6 DEF TimerMatchesDelay
  <2> QED  BY <1>5, <2>1, <2>2 DEF TimerMatchesDelay
<1>8. SleepersOK' /\ LoopOK'
  <2>1. \A p \in Prio : Sleeps(p)' => Installed(p)' /\ p # IdlePrio
    BY <1>0, <1>2, <1>3, <1>4 DEF SleepersOK, Installed
  <2> QED  BY <1>0, <1>2, <2>1 DEF SleepersOK, LoopOK
<1>9. NoFault' /\ TargetsOK'
  <2>1. pc'[t] = "yield" /\ \A s \in Prio \ {t} : pc'[s] = pc[s] /\ arg'[s] = arg[s]
    BY <1>1, <1>2 DEF Goto
  <2> QED  BY <1>0, <1>2, <2>1 DEF NoFault, TargetsOK, Installed
<1> QED  BY <1>2, <1>4, <1>7, <1>8, <1>9

\* The other calls of these tasks begin with a check of an installed task.
LEMMA CheckStep ==
  ASSUME TInv, Api \subseteq TimingCalls, NEW t \in Prio, Call(t),
         ~ \E ticks \in 1..MaxDelay : Delay(t, ticks)
  PROVE  /\ (TimerMatchesDelay /\ NoFault /\ TargetsOK /\ SleepersOK /\ LoopOK)'
         /\ UNCHANGED <<timerPendingList, activeList, taskStatus, delayTime, tick>>
<1>0. Inv /\ TargetsOK /\ NoFault
  BY DEF TInv
<1>1. pc \in [Prio -> TaskLabels] /\ arg \in [Prio -> Prio]
  BY <1>0, TimerTypes
<1>2. PICK p \in UserPrio : SuspendCheck(t, p) \/ ResumeCheck(t, p)
  BY DEF Call, Calls, CreateAlloc, CreateOutOfMemory, DeleteCheck, Return, TimingCalls
<1>3. /\ UNCHANGED <<timerPendingList, activeList, taskStatus, delayTime, bmp, tcbPtrTbl,
                     tick, halted, yieldPrio>>
      /\ tcbPtrTbl[p] # NULL
      /\ \E label \in {"suspend", "resume"} : Enter(t, label, p)
  BY <1>2 DEF SuspendCheck, ResumeCheck, lists, objects, tcb, cpu
<1>4. /\ pc'[t] \in {"suspend", "resume"} /\ arg'[t] = p
      /\ \A s \in Prio \ {t} : pc'[s] = pc[s] /\ arg'[s] = arg[s]
  BY <1>1, <1>3 DEF Enter, Goto
<1>5. NoFault' /\ TargetsOK'
  BY <1>0, <1>3, <1>4 DEF NoFault, TargetsOK, Installed
<1> QED  BY <1>3, <1>5, NoTimer DEF Sleeps
-----------------------------------------------------------------------------
(* The theorems                                                            *)

LEMMA StepTInv ==
  ASSUME Api \subseteq TimingCalls, TInv, [Next]_vars
  PROVE  TInv'
<1>1. Inv'
  BY StepInv DEF TInv
<1>2. CASE Interrupts
  BY <1>1, <1>2, InterruptTimer, InterruptTargets DEF TInv
<1>3. ASSUME NEW t \in Prio, Proceed(t) PROVE TInv'
  BY <1>1, <1>3, ProceedTimer DEF TInv
<1>4. ASSUME NEW t \in Prio, Call(t) PROVE TInv'
  <2>1. CASE \E ticks \in 1..MaxDelay : Delay(t, ticks)
    BY <1>1, <2>1, DelayStep DEF TInv
  <2>2. CASE ~ \E ticks \in 1..MaxDelay : Delay(t, ticks)
    BY <1>1, <1>4, <2>2, CheckStep DEF TInv
  <2> QED  BY <2>1, <2>2
<1>5. CASE UNCHANGED vars
  <2>1. UNCHANGED <<timerPendingList, activeList, taskStatus, delayTime, bmp, tcbPtrTbl,
                    tick, halted, pc, arg, yieldPrio>>
    BY <1>5 DEF vars, kernelVars, lists, objects, tcb, cpu, threads
  <2>2. NoFault' /\ TargetsOK'
    BY <2>1 DEF TInv, NoFault, TargetsOK, Installed
  <2> QED  BY <1>1, <2>1, <2>2, NoTimer DEF TInv, Sleeps
<1> QED  BY <1>2, <1>3, <1>4, <1>5 DEF Next

LEMMA TimingInvariance == Api \subseteq TimingCalls => (Spec => []TInv)
<1> SUFFICES ASSUME Api \subseteq TimingCalls PROVE Spec => []TInv
  OBVIOUS
<1>1. Init => TInv
  BY InitTInv
<1>2. TInv /\ [Next]_vars => TInv'
  BY StepTInv
<1> QED  BY <1>1, <1>2, PTL DEF Spec

\* A task counts ticks exactly while it sleeps, and every entry has ticks
\* left to count.
THEOREM TimerCorrect == Api \subseteq TimingCalls => (Spec => []TimerMatchesDelay)
<1>1. TInv => TimerMatchesDelay
  BY DEF TInv
<1> QED  BY <1>1, TimingInvariance, PTL

\* No assertion of the kernel fails and no null pointer is followed.
THEOREM FaultFree == Api \subseteq TimingCalls => (Spec => []NoFault)
<1>1. TInv => NoFault
  BY DEF TInv
<1> QED  BY <1>1, TimingInvariance, PTL
-----------------------------------------------------------------------------
(* The clock                                                               *)

\* What the clock shows of a task that sleeps, or does not.
LEMMA LeftOf ==
  \A p \in Prio :
    /\ ~Sleeps(p) => Left[p] = 0
    /\ Sleeps(p) /\ tick = "loop" /\ p \in Active => Left[p] = delayTime[p] - 1
    /\ Sleeps(p) /\ ~(tick = "loop" /\ p \in Active) => Left[p] = delayTime[p]
BY DEF Left

\* Two clocks that show the same of every task are the same.
LEMMA SameLeft ==
  ASSUME \A p \in Prio : Left'[p] = Left[p]
  PROVE  Left' = Left
BY DEF Left

\* The tick's handler counts one tick for everybody when it enters; the turns
\* of its loop only write down what has been counted.
LEMMA ClockInterrupt ==
  ASSUME TInv, Interrupts
  PROVE  Clock!Tick \/ UNCHANGED Left
<1>0. /\ Inv /\ TimerMatchesDelay /\ \A p \in Prio : Sleeps(p) <=> p \in Active \cup Backup
      /\ \A p \in Prio : delayTime[p] \in Nat
      /\ taskStatus \in [Prio -> SUBSET Status] /\ delayTime \in [Prio -> 0..MaxDelay]
      /\ Active \in SUBSET Prio /\ Backup \in SUBSET Prio
  BY TimerTypes, CountingLists DEF TInv, TimerMatchesDelay
<1>1. CASE TickEnter
  <2>1. /\ tick = "off" /\ Backup = {} /\ UNCHANGED <<timerPendingList, activeList, taskStatus, delayTime>>
    BY <1>0, <1>1 DEF TickEnter, TimerMatchesDelay, lists, objects, tcb
  <2>2. Active' = Active /\ \A p \in Prio : Sleeps(p)' <=> Sleeps(p)
    BY <2>1 DEF Active, Sleeps
  <2>3. CASE Active = {}
    <3>1. \A p \in Prio : ~Sleeps(p) /\ ~Sleeps(p)'
      BY <1>0, <2>1, <2>2, <2>3
    <3>2. \A p \in Prio : Left[p] = 0 /\ Left'[p] = 0
      BY <3>1 DEF Left
    <3> QED  BY <3>2, SameLeft
  <2>4. CASE Active # {}
    <3>1. Highest(Active) \in Active /\ IdlePrio \notin Active
      BY <1>0, <2>4, HighestPrio, PrioFacts DEF TInv, SleepersOK
    <3>2. tick' = "loop"
      BY <1>1, <3>1 DEF TickEnter, IdlePrio
    <3>3. \A p \in Prio : Left'[p] = IF Left[p] = 0 THEN 0 ELSE Left[p] - 1
      <4> TAKE p \in Prio
      <4>1. CASE Sleeps(p)
        <5>1. Left[p] = delayTime[p] /\ p \in Active
          BY <1>0, <2>1, <4>1 DEF Left
        <5>2. Left'[p] = delayTime[p] - 1
          BY <2>1, <2>2, <3>2, <4>1, <5>1 DEF Left
        <5>3. delayTime[p] # 0
          BY <1>0, <4>1 DEF TimerMatchesDelay
        <5> QED  BY <5>1, <5>2, <5>3
      <4>2. CASE ~Sleeps(p)
        BY <2>2, <4>2 DEF Left
      <4> QED  BY <4>1, <4>2
    <3>4. Left' = [p \in Prio |-> IF Left[p] = 0 THEN 0 ELSE Left[p] - 1]
      BY <3>3 DEF Left
    <3> QED  BY <3>4 DEF Clock!Tick
  <2> QED  BY <2>3, <2>4
<1>2. CASE TickTask
  <2>1. PICK i \in Active :
           /\ i \in Prio /\ Sleeps(i) /\ tick = "loop"
           /\ \/ /\ delayTime[i] = 1
                 /\ taskStatus' = [taskStatus EXCEPT ![i] = {}]
                 /\ delayTime' = [delayTime EXCEPT ![i] = 0]
                 /\ bmp' = [bmp EXCEPT ![i] = NoList]
                 /\ Turn(Active \ {i}, Backup)
              \/ /\ delayTime[i] > 1
                 /\ delayTime' = [delayTime EXCEPT ![i] = @ - 1]
                 /\ UNCHANGED <<taskStatus, bmp>>
                 /\ Turn(Active \ {i}, Backup \cup {i})
           /\ UNCHANGED halted
    BY <1>2, LoopTurn
  <2>2. i \notin Backup /\ Left[i] = delayTime[i] - 1
    BY <1>0, <2>1, LeftOf DEF TimerMatchesDelay
  <2>3. IdlePrio \notin Active \ {i} /\ Active \ {i} \in SUBSET Prio
        /\ Backup \cup {i} \in SUBSET Prio
    BY <1>0, <2>1, LoopEntry
  <2>4. \/ tick' = "loop" /\ Active' = Active \ {i}
        \/ tick' = "out" /\ Active \ {i} = {}
    BY <1>0, <2>1, <2>3, TurnLists
  <2>5. Left'[i] = Left[i]
    <3>1. ~(tick' = "loop" /\ i \in Active')
      BY <2>4
    <3>2. CASE delayTime[i] = 1
      <4>1. ~Sleeps(i)'
        BY <1>0, <2>1, <3>2 DEF Sleeps
      <4> QED  BY <2>1, <2>2, <3>2, <4>1 DEF Left
    <3>3. CASE delayTime[i] > 1
      <4>1. Sleeps(i)' /\ delayTime'[i] = delayTime[i] - 1
        BY <1>0, <2>1, <3>3 DEF Sleeps
      <4> QED  BY <2>1, <2>2, <3>1, <4>1 DEF Left
    <3> QED  BY <2>1, <3>2, <3>3
  <2>6. ASSUME NEW p \in Prio \ {i} PROVE Left'[p] = Left[p]
    <3>1. (Sleeps(p)' <=> Sleeps(p)) /\ delayTime'[p] = delayTime[p]
      BY <1>0, <2>1 DEF Sleeps
    <3>2. (tick' = "loop" /\ p \in Active') <=> (tick = "loop" /\ p \in Active)
      BY <2>1, <2>4
    <3> QED  BY <3>1, <3>2 DEF Left
  <2> QED  BY <2>5, <2>6, SameLeft
<1>3. CASE TickOut \/ PendSV
  <2>1. /\ tick # "loop" /\ tick' # "loop" /\ UNCHANGED <<taskStatus, delayTime>>
    BY <1>3 DEF TickOut, PendSV, objects, tcb
  <2>2. \A p \in Prio : Left'[p] = Left[p]
    BY <2>1 DEF Left, Sleeps
  <2> QED  BY <2>2, SameLeft
<1> QED  BY <1>1, <1>2, <1>3 DEF Interrupts, Interrupt

\* The threads only arm it.
LEMMA ClockThread ==
  ASSUME TInv, Api \subseteq TimingCalls, NEW t \in Prio, Proceed(t) \/ Call(t)
  PROVE  UNCHANGED Left \/ \E s \in Prio, ticks \in 1..MaxDelay : Clock!Arm(s, ticks)
<1>1. ASSUME UNCHANGED <<timerPendingList, activeList, delayTime, tick>>,
             \A p \in Prio : Sleeps(p)' <=> Sleeps(p)
      PROVE  UNCHANGED Left
  <2>1. Active' = Active
    BY <1>1 DEF Active
  <2>2. \A p \in Prio : Left'[p] = Left[p]
    BY <1>1, <2>1 DEF Left
  <2> QED  BY <2>2, SameLeft
<1>2. CASE Proceed(t)
  BY <1>1, <1>2, ProceedTimer
<1>3. ASSUME NEW ticks \in 1..MaxDelay, Delay(t, ticks) PROVE Clock!Arm(t, ticks)
  <2>1. /\ tick = "off" /\ tick' = "off" /\ Sleeps(t)' /\ delayTime'[t] = ticks
        /\ \A p \in Prio \ {t} : /\ Sleeps(p)' <=> Sleeps(p)
                                /\ delayTime'[p] = delayTime[p]
    BY <1>3, DelayStep
  <2>2. Left'[t] = ticks /\ \A p \in Prio \ {t} : Left'[p] = Left[p]
    BY <2>1 DEF Left
  <2>3. Left' = [Left EXCEPT ![t] = ticks]
    BY <2>2 DEF Left
  <2> QED  BY <2>3 DEF Clock!Arm
<1>4. CASE Call(t) /\ ~ \E ticks \in 1..MaxDelay : Delay(t, ticks)
  BY <1>1, <1>4, CheckStep DEF Sleeps
<1> QED  BY <1>2, <1>3, <1>4

\* The kernel's two timer lists and their exchange implement the clock that
\* counts every tick exactly once for every sleeper.
THEOREM ImplementsClock == Api \subseteq TimingCalls => (Spec => ClockSpec)
<1> SUFFICES ASSUME Api \subseteq TimingCalls PROVE Spec => ClockSpec
  OBVIOUS
<1>1. Init => Clock!ClockInit
  <2> SUFFICES ASSUME Init PROVE Clock!ClockInit
    OBVIOUS
  <2>1. \A p \in Prio : ~Sleeps(p)
    BY DEF Init, KernelInit, Sleeps
  <2> QED  BY <2>1 DEF Left, Clock!ClockInit
<1>2. TInv /\ [Next]_vars => [Clock!ClockNext]_Left
  <2> SUFFICES ASSUME TInv, [Next]_vars PROVE Clock!ClockNext \/ UNCHANGED Left
    OBVIOUS
  <2>1. CASE Interrupts
    BY <2>1, ClockInterrupt DEF Clock!ClockNext
  <2>2. ASSUME NEW t \in Prio, Proceed(t) \/ Call(t)
        PROVE  Clock!ClockNext \/ UNCHANGED Left
    BY <2>2, ClockThread DEF Clock!ClockNext
  <2>3. CASE UNCHANGED vars
    <3>1. UNCHANGED <<timerPendingList, activeList, taskStatus, delayTime, tick>>
      BY <2>3 DEF vars, kernelVars, lists, objects, tcb, cpu
    <3>2. \A p \in Prio : Left'[p] = Left[p]
      BY <3>1 DEF Left, Sleeps, Active
    <3> QED  BY <3>2, SameLeft
  <2> QED  BY <2>1, <2>2, <2>3 DEF Next
<1> QED  BY <1>1, <1>2, TimingInvariance, PTL DEF Spec, ClockSpec, Clock!ClockSpec
-----------------------------------------------------------------------------
(* With kernel objects: what the tasks' own calls and the interrupts keep  *)
(* in order whatever else blocks and wakes tasks, in parts that each hold  *)
(* a few variables. The proofs about the objects rest on these.            *)

\* The table of tasks, which no step changes then.
TablePart == /\ tcbPtrTbl \in [Prio -> Prio \cup {NULL}]
             /\ \A p \in Prio : tcbPtrTbl[p] \in {p, NULL}
             /\ tcbPtrTbl[IdlePrio] = IdlePrio

ReadyPart == /\ taskPrioList \in SUBSET Prio
             /\ taskStatus \in [Prio -> SUBSET Status]
             /\ ReadyIffUnblocked

\* Whoever counts ticks is a user task.
TimerPart == /\ timerPendingList \in [{0, 1} -> SUBSET (InstalledTasks \ {IdlePrio})]
             /\ activeList \in {0, 1}
             /\ delayTime \in [Prio -> 0..MaxDelay]
             /\ tick \in {"off", "loop", "out"}
             /\ irqCounter = IF tick = "off" THEN 0 ELSE 1
             /\ SleepersCount
             /\ LoopOK
             /\ tick # "loop" => Backup = {}

\* Wait lists hold tasks, and the TCBs point to no list nobody initialised.
ListPart == /\ waitList \in [List -> [prioGrp : BOOLEAN, prioTbl : SUBSET InstalledTasks]]
            /\ bmp \in [Prio -> [Bmp -> List \cup {NULL}]]

CpuPart == /\ currentTask \in InstalledTasks /\ highPrioTask \in InstalledTasks
           /\ pendSV \in BOOLEAN
           /\ halted = "no"

KernelParts == TablePart /\ ReadyPart /\ TimerPart /\ ListPart /\ CpuPart

\* Where threads are: in a call that delays, suspends or resumes, or at one of
\* the labels of an object's calls, some of which a thread goes to after its
\* yield.
TimingPlaces == {"run", "yield", "publish", "suspend", "resume"}
ThreadPart(Labels, Afters) ==
    /\ pc \in [Prio -> TimingPlaces \cup Labels] /\ pc[IdlePrio] = "run"
    /\ after \in [Prio -> {"run"} \cup Afters]
    /\ yieldPrio \in [Prio -> InstalledTasks]
    /\ arg \in [Prio -> Prio]
    /\ \A t \in Prio : pc[t] \in {"suspend", "resume"} => Installed(arg[t])

\* The labels of an object's calls are not those of the tasks' calls.
LabelsOK(Labels, Afters) == Afters \subseteq Labels /\ Labels \cap TaskLabels = {}

\* What such a step does to those who wait: nothing but for their delays and
\* suspensions, or the wait of one is over.
Expires(i) == /\ i # IdlePrio
              /\ taskStatus' = [taskStatus EXCEPT ![i] = {}]
              /\ bmp' = [bmp EXCEPT ![i] = NoList]
              /\ \E stray \in List \cup {NULL} : LeaveWaitLists(i, stray)
WaitsStay == /\ UNCHANGED <<waitList, bmp>>
             /\ \A p \in Prio : taskStatus'[p] \ {"Suspend", "PendDelay"}
                                = taskStatus[p] \ {"Suspend", "PendDelay"}
WaitsStep == WaitsStay \/ \E i \in InstalledTasks : Expires(i)

\* How such a step moves a thread.
Moves(p) ==
    \/ pc'[p] = pc[p] /\ after'[p] = after[p]
    \/ pc[p] = "yield" /\ pc'[p] = "publish" /\ after'[p] = after[p]
    \/ pc[p] = "publish" /\ pc'[p] = after[p] /\ after'[p] = "run"
    \/ /\ pc[p] \in {"run", "suspend", "resume"} /\ pc'[p] \in {"suspend", "resume", "yield"}
       /\ after'[p] = after[p]
-----------------------------------------------------------------------------
(* What a step leaves alone stays in order                                 *)

LEMMA SameTasks ==
  ASSUME UNCHANGED tcbPtrTbl
  PROVE  /\ InstalledTasks' = InstalledTasks
         /\ \A p : Installed(p)' <=> Installed(p)
         /\ TablePart => TablePart'
BY DEF InstalledTasks, Installed, TablePart

LEMMA ReadyKept ==
  ASSUME ReadyPart, UNCHANGED <<tcbPtrTbl, taskPrioList, taskStatus>>
  PROVE  ReadyPart'
BY SameTasks DEF ReadyPart, ReadyIffUnblocked, Installed

\* Nobody else begins to sleep.
LEMMA TimerKept ==
  ASSUME TimerPart,
         UNCHANGED <<tcbPtrTbl, timerPendingList, activeList, delayTime, tick, irqCounter>>,
         \A p \in Prio : Sleeps(p)' => Sleeps(p)
  PROVE  TimerPart'
<1>1. /\ Active' = Active /\ Backup' = Backup
      /\ \A p \in Prio : Counting(p)' <=> Counting(p)
  BY DEF Active, Backup, Counting
<1> QED  BY <1>1, SameTasks DEF TimerPart, SleepersCount, LoopOK

LEMMA ListKept ==
  ASSUME ListPart, UNCHANGED <<tcbPtrTbl, waitList, bmp>>
  PROVE  ListPart'
BY SameTasks DEF ListPart

LEMMA CpuKept ==
  ASSUME CpuPart, UNCHANGED <<tcbPtrTbl, currentTask, highPrioTask, pendSV, halted>>
  PROVE  CpuPart'
BY SameTasks DEF CpuPart

LEMMA PartsKept ==
  ASSUME KernelParts, UNCHANGED <<lists, objects, cpu>>
  PROVE  KernelParts'
<1>1. UNCHANGED <<taskPrioList, timerPendingList, activeList, tcbPtrTbl, taskStatus, delayTime,
                  bmp, waitList, currentTask, highPrioTask, irqCounter, pendSV, tick, halted>>
  BY DEF lists, objects, tcb, cpu
<1>2. \A p \in Prio : Sleeps(p)' => Sleeps(p)
  BY <1>1 DEF Sleeps
<1> QED  BY <1>1, <1>2, SameTasks, ReadyKept, TimerKept, ListKept, CpuKept DEF KernelParts

LEMMA ThreadsKept ==
  ASSUME NEW Labels, NEW Afters, ThreadPart(Labels, Afters),
         UNCHANGED <<tcbPtrTbl, threads, arg>>
  PROVE  /\ ThreadPart(Labels, Afters)' /\ \A p \in Prio : Moves(p)
BY SameTasks DEF ThreadPart, threads, Moves

\* Initially.
LEMMA InitParts ==
  ASSUME Init, NEW Labels, NEW Afters
  PROVE  /\ KernelParts /\ ThreadPart(Labels, Afters) /\ heapDirty = FALSE
         /\ InstalledTasks = Boot \cup {IdlePrio}
<1> USE PrioFacts
<1>1. KernelInit(Boot) /\ heapDirty = FALSE /\ arg = [p \in Prio |-> 0]
  BY DEF Init
<1>2. Inv
  BY InitInv
<1>3. InstalledTasks = Boot \cup {IdlePrio} /\ Boot \cup {IdlePrio} \in SUBSET Prio
  BY <1>1, BootAssumption DEF KernelInit, InstalledTasks, Installed
<1>4. TablePart
  BY <1>2 DEF Inv, TypeOK, KernelTypeOK, TableOK, TablePart
<1>5. ReadyPart
  BY <1>2 DEF Inv, TypeOK, KernelTypeOK, ReadyPart
<1>6. TimerPart
  <2>1. 0 \in 0..MaxDelay
    BY DelayAssumption
  <2> QED
    BY <1>1, <2>1
    DEF KernelInit, TimerPart, SleepersCount, LoopOK, Sleeps, Counting, Active, Backup
<1>7. ListPart
  BY <1>1 DEF KernelInit, ListPart, EmptyList, NoList
<1>8. CpuPart
  <2>1. Highest(Boot \cup {IdlePrio}) \in InstalledTasks
    BY <1>3, HighestPrio
  <2> QED  BY <1>1, <2>1 DEF KernelInit, CpuPart
<1>9. ThreadPart(Labels, Afters)
  BY <1>1, <1>3 DEF KernelInit, ThreadPart, TimingPlaces
<1> QED  BY <1>1, <1>3, <1>4, <1>5, <1>6, <1>7, <1>8, <1>9 DEF KernelParts

\* The parts give the kernel's types, whatever the labels.
LEMMA PartsTypes ==
  ASSUME KernelParts, NEW Labels, NEW Afters, LabelsOK(Labels, Afters),
         ThreadPart(Labels, Afters)
  PROVE  KernelTypeOK(TaskLabels \cup Labels) /\ NoFault
<1>1. InstalledTasks \in SUBSET Prio
  BY DEF InstalledTasks
<1>2. /\ taskPrioList \in SUBSET Prio /\ taskStatus \in [Prio -> SUBSET Status]
      /\ tcbPtrTbl \in [Prio -> Prio \cup {NULL}]
  BY DEF KernelParts, ReadyPart, TablePart
<1>3. /\ timerPendingList \in [{0, 1} -> SUBSET Prio] /\ activeList \in {0, 1}
      /\ delayTime \in [Prio -> 0..MaxDelay] /\ tick \in {"off", "loop", "out"}
      /\ irqCounter = IF tick = "off" THEN 0 ELSE 1
  BY <1>1 DEF KernelParts, TimerPart
<1>4. /\ waitList \in [List -> [prioGrp : BOOLEAN, prioTbl : SUBSET Prio]]
      /\ bmp \in [Prio -> [Bmp -> List \cup {NULL, Wild}]]
  <2>1. [prioGrp : BOOLEAN, prioTbl : SUBSET InstalledTasks]
          \subseteq [prioGrp : BOOLEAN, prioTbl : SUBSET Prio]
    BY <1>1
  <2>2. [Bmp -> List \cup {NULL}] \subseteq [Bmp -> List \cup {NULL, Wild}]
    OBVIOUS
  <2>3. /\ waitList \in [List -> [prioGrp : BOOLEAN, prioTbl : SUBSET InstalledTasks]]
        /\ bmp \in [Prio -> [Bmp -> List \cup {NULL}]]
    BY DEF KernelParts, ListPart
  <2> QED  BY <2>1, <2>2, <2>3
<1>5. /\ currentTask \in Prio /\ highPrioTask \in Prio /\ pendSV \in BOOLEAN
      /\ halted \in {"no", "null", "assert", "wild"}
  BY <1>1 DEF KernelParts, CpuPart
<1>6. /\ pc \in [Prio -> TaskLabels \cup Labels] /\ after \in [Prio -> TaskLabels \cup Labels]
      /\ yieldPrio \in [Prio -> Prio]
  BY <1>1 DEF ThreadPart, LabelsOK, TimingPlaces, TaskLabels
<1>7. NoFault
  BY DEF KernelParts, CpuPart, ThreadPart, LabelsOK, TimingPlaces, TaskLabels, NoFault
<1> QED  BY <1>2, <1>3, <1>4, <1>5, <1>6, <1>7 DEF KernelTypeOK
-----------------------------------------------------------------------------
(* The places of the threads                                               *)

\* A thread goes from one label to another.
LEMMA ThreadStep ==
  ASSUME NEW Labels, NEW Afters, ThreadPart(Labels, Afters), NEW t \in Prio, t # IdlePrio,
         NEW label \in TimingPlaces \cup Labels, Goto(t, label),
         UNCHANGED <<tcbPtrTbl, yieldPrio>>,
         arg' \in [Prio -> Prio], \A p \in Prio \ {t} : arg'[p] = arg[p],
         label \in {"suspend", "resume"} => Installed(arg'[t]),
         after' \in [Prio -> {"run"} \cup Afters]
  PROVE  ThreadPart(Labels, Afters)'
<1>1. /\ pc' \in [Prio -> TimingPlaces \cup Labels] /\ pc'[t] = label
      /\ \A p \in Prio \ {t} : pc'[p] = pc[p]
  BY DEF ThreadPart, Goto
<1>2. pc'[IdlePrio] = "run" /\ yieldPrio' \in [Prio -> InstalledTasks']
  BY <1>1, SameTasks, PrioFacts DEF ThreadPart
<1>3. ASSUME NEW p \in Prio PROVE pc'[p] \in {"suspend", "resume"} => Installed(arg[p])'
  BY <1>1, SameTasks DEF ThreadPart, Installed
<1> QED  BY <1>1, <1>2, <1>3 DEF ThreadPart

-----------------------------------------------------------------------------
(* The interrupts                                                          *)


LEMMA TimerLists ==
  ASSUME TimerPart
  PROVE  /\ Active \in SUBSET (InstalledTasks \ {IdlePrio})
         /\ Backup \in SUBSET (InstalledTasks \ {IdlePrio})
         /\ \A p : Counting(p) <=> p \in Active \cup Backup
         /\ Active \cap Backup = {}
         /\ \A p \in Prio : Sleeps(p) => p \in Active \cup Backup
         /\ \A p \in Prio : delayTime[p] \in Nat
         /\ \A p \in Prio : p \in Active \cup Backup => delayTime[p] > 0
<1>1. /\ timerPendingList \in [{0, 1} -> SUBSET (InstalledTasks \ {IdlePrio})]
      /\ activeList \in {0, 1} /\ SleepersCount
  BY DEF TimerPart
<1>2. /\ Active \in SUBSET (InstalledTasks \ {IdlePrio})
      /\ Backup \in SUBSET (InstalledTasks \ {IdlePrio})
      /\ \A p : Counting(p) <=> p \in Active \cup Backup
  BY <1>1 DEF Active, Backup, Counting
<1>3. \A p \in Prio : delayTime[p] \in Nat
  <2>1. delayTime \in [Prio -> 0..MaxDelay] /\ MaxDelay \in Nat
    BY DelayAssumption DEF TimerPart
  <2> QED  BY <2>1
<1> QED  BY <1>1, <1>2, <1>3 DEF SleepersCount

\* After a turn of the loop that leaves these lists.
LEMMA TurnTimer ==
  ASSUME TimerPart, tick = "loop", UNCHANGED <<tcbPtrTbl, irqCounter>>,
         NEW active \in SUBSET (InstalledTasks \ {IdlePrio}),
         NEW backup \in SUBSET (InstalledTasks \ {IdlePrio}),
         Turn(active, backup), active \cap backup = {},
         delayTime' \in [Prio -> 0..MaxDelay],
         \A p \in Prio : Sleeps(p)' => p \in active \cup backup,
         \A p \in active \cup backup : delayTime'[p] > 0
  PROVE  TimerPart'
<1>1. Highest(active) # 0 <=> active # {}
  <2>1. active \in SUBSET Prio /\ IdlePrio \notin active
    BY DEF InstalledTasks
  <2>2. active # {} => Highest(active) \in active
    BY <2>1, HighestPrio
  <2> QED  BY <2>1, <2>2 DEF Highest, IdlePrio
<1>2. /\ timerPendingList' = [timerPendingList EXCEPT ![activeList] = active,
                                                    ![1 - activeList] = backup]
      /\ timerPendingList \in [{0, 1} -> SUBSET (InstalledTasks \ {IdlePrio})]
      /\ activeList \in {0, 1} /\ irqCounter' = 1
  BY DEF Turn, TimerPart
<1>3. /\ timerPendingList'[activeList] = active /\ timerPendingList'[1 - activeList] = backup
      /\ timerPendingList' \in [{0, 1} -> SUBSET (InstalledTasks' \ {IdlePrio})]
      /\ \A p : Counting(p)' <=> p \in active \cup backup
  <2>1. /\ timerPendingList'[activeList] = active /\ timerPendingList'[1 - activeList] = backup
        /\ timerPendingList' \in [{0, 1} -> SUBSET (InstalledTasks \ {IdlePrio})]
    BY <1>2
  <2>2. timerPendingList'[0] \cup timerPendingList'[1] = active \cup backup
    BY <1>2, <2>1
  <2> QED  BY <2>1, <2>2, SameTasks DEF Counting
<1>4. \/ active # {} /\ tick' = "loop" /\ activeList' = activeList
         /\ Active' = active /\ Backup' = backup
      \/ active = {} /\ tick' = "out" /\ activeList' = 1 - activeList
         /\ Active' = backup /\ Backup' = {}
  <2>1. CASE active # {}
    BY <1>1, <1>3, <2>1 DEF Turn, Active, Backup
  <2>2. CASE active = {}
    <3>1. activeList' = 1 - activeList /\ tick' = "out" /\ 1 - activeList' = activeList
      BY <1>1, <1>2, <2>2 DEF Turn
    <3> QED  BY <1>3, <2>2, <3>1 DEF Active, Backup
  <2> QED  BY <2>1, <2>2
<1>5. SleepersCount'
  BY <1>3, <1>4 DEF SleepersCount, InstalledTasks
<1>6. /\ activeList' \in {0, 1} /\ tick' \in {"off", "loop", "out"}
      /\ irqCounter' = IF tick' = "off" THEN 0 ELSE 1
  BY <1>2, <1>4
<1>7. LoopOK' /\ (tick' # "loop" => Backup' = {})
  BY <1>4 DEF LoopOK
<1> QED  BY <1>3, <1>5, <1>6, <1>7 DEF TimerPart

\* The entry the loop looks at belongs to a task that has ticks left, and no
\* assertion fails.
LEMMA PartsLoopEntry ==
  ASSUME KernelParts, TickTask
  PROVE  \E i \in Active :
           /\ tick = "loop" /\ i \in InstalledTasks /\ i \in Prio
           /\ tcbPtrTbl[i] = i /\ delayTime[i] > 0
           /\ TickExpire(i) \/ TickForget(i) \/ TickKeep(i)
<1> DEFINE i == Highest(Active)
<1>1. tick = "loop" /\ (TickExpire(i) \/ TickForget(i) \/ TickKeep(i) \/ TickFault(i))
  BY DEF TickTask
<1>2. Active # {} /\ Active \in SUBSET InstalledTasks
  BY <1>1, TimerLists DEF KernelParts, TimerPart, LoopOK
<1>3. i \in Active /\ i \in Prio /\ i \in InstalledTasks
  BY <1>2, HighestPrio DEF InstalledTasks
<1> HIDE DEF i
<1>4. tcbPtrTbl[i] = i /\ i # NULL
  BY <1>3, PrioFacts DEF KernelParts, TablePart, InstalledTasks, Installed
<1>5. delayTime[i] > 0 /\ delayTime[i] # 0
  BY <1>3, TimerLists DEF KernelParts
<1>6. \A b \in Bmp : bmp[i][b] # Wild
  BY <1>3, PointerAssumption DEF KernelParts, ListPart
<1>7. ~TickFault(i)
  BY <1>4, <1>5, <1>6 DEF TickFault
<1> QED  BY <1>1, <1>3, <1>4, <1>5, <1>7 DEF i

LEMMA TickTaskParts ==
  ASSUME KernelParts, TickTask
  PROVE  KernelParts' /\ WaitsStep /\ UNCHANGED <<tcbPtrTbl, threads>>
<1>1. PICK i \in Active :
           /\ tick = "loop" /\ i \in InstalledTasks /\ i \in Prio
           /\ tcbPtrTbl[i] = i /\ delayTime[i] > 0
           /\ TickExpire(i) \/ TickForget(i) \/ TickKeep(i)
  BY PartsLoopEntry
<1>2. /\ UNCHANGED <<tcbPtrTbl, currentTask, highPrioTask, irqCounter, pendSV, threads>>
      /\ UNCHANGED <<halted>>
  BY <1>1 DEF TickTask, TickExpire, TickForget, TickKeep
<1>3. TablePart' /\ CpuPart'
  BY <1>2, SameTasks, CpuKept DEF KernelParts
<1>4. /\ Active \in SUBSET (InstalledTasks \ {IdlePrio})
      /\ Backup \in SUBSET (InstalledTasks \ {IdlePrio})
      /\ Active \cap Backup = {}
      /\ \A p \in Prio : Sleeps(p) => p \in Active \cup Backup
      /\ \A p \in Prio : p \in Active \cup Backup => delayTime[p] > 0
      /\ delayTime \in [Prio -> 0..MaxDelay] /\ \A p \in Prio : delayTime[p] \in Nat
      /\ TimerPart /\ ReadyPart /\ ListPart
  BY TimerLists DEF KernelParts, TimerPart
<1>5. InstalledTasks \in SUBSET Prio
  BY DEF InstalledTasks
<1>6. CASE TickExpire(i)
  <2>1. /\ Ready(i) /\ taskStatus' = [taskStatus EXCEPT ![i] = {}]
        /\ delayTime' = [delayTime EXCEPT ![i] = 0]
        /\ bmp' = [bmp EXCEPT ![i] = NoList]
        /\ Turn(Active \ {i}, Backup)
    BY <1>1, <1>6 DEF TickExpire
  <2>2. ReadyPart'
    BY <1>1, <1>2, <1>4, <2>1 DEF ReadyPart, Ready, ReadyIffUnblocked, Installed, InstalledTasks
  <2>3. TimerPart'
    <3>1. delayTime' \in [Prio -> 0..MaxDelay]
      <4>1. 0 \in 0..MaxDelay
        BY DelayAssumption
      <4> QED  BY <1>4, <2>1, <4>1
    <3>2. \A p \in Prio : Sleeps(p)' => p \in (Active \ {i}) \cup Backup
      BY <1>4, <2>1 DEF Sleeps, ReadyPart
    <3>3. \A p \in (Active \ {i}) \cup Backup : delayTime'[p] > 0
      BY <1>1, <1>4, <1>5, <2>1
    <3> QED  BY <1>1, <1>2, <1>4, <2>1, <3>1, <3>2, <3>3, TurnTimer
  <2>4. ListPart'
    <3>1. bmp' \in [Prio -> [Bmp -> List \cup {NULL}]]
      BY <1>4, <2>1 DEF ListPart, NoList
    <3>2. PICK stray : LeaveWaitLists(i, stray)
      BY <1>1, <1>6 DEF TickExpire
    <3>3. \A l \in List :
             /\ waitList[l] \in [prioGrp : BOOLEAN, prioTbl : SUBSET InstalledTasks]
             /\ Delist(waitList[l], {i}) \in [prioGrp : BOOLEAN, prioTbl : SUBSET InstalledTasks]
      BY <1>4 DEF ListPart, Delist
    <3>4. waitList' \in [List -> [prioGrp : BOOLEAN, prioTbl : SUBSET InstalledTasks]]
      BY <3>2, <3>3 DEF LeaveWaitLists
    <3> QED  BY <1>2, <1>4, <3>1, <3>4, SameTasks DEF ListPart
  <2>5. WaitsStep
    BY <1>1, <1>4, <1>6, <2>1 DEF WaitsStep, Expires, TickExpire
  <2> QED  BY <1>2, <1>3, <2>2, <2>3, <2>4, <2>5 DEF KernelParts
<1>7. CASE TickForget(i) \/ TickKeep(i)
  <2>1. /\ delayTime[i] > 1 /\ delayTime' = [delayTime EXCEPT ![i] = @ - 1]
        /\ UNCHANGED <<taskPrioList, taskStatus, bmp, waitList>>
        /\ \/ "PendDelay" \notin taskStatus[i] /\ Turn(Active \ {i}, Backup)
           \/ Turn(Active \ {i}, Backup \cup {i})
    BY <1>1, <1>7 DEF TickForget, TickKeep
  <2>2. ReadyPart' /\ ListPart'
    BY <1>2, <1>4, <2>1, ReadyKept, ListKept
  <2>3. PICK backup \in {Backup, Backup \cup {i}} :
           /\ Turn(Active \ {i}, backup)
           /\ i \in backup \/ ~Sleeps(i)
    BY <2>1 DEF Sleeps
  <2>4. delayTime' \in [Prio -> 0..MaxDelay] /\ \A p \in Prio : p # i => delayTime'[p] = delayTime[p]
    <3>1. delayTime[i] - 1 \in 0..MaxDelay
      <4>1. delayTime[i] \in 0..MaxDelay /\ delayTime[i] > 1
        BY <1>1, <1>4, <2>1
      <4> QED  BY <4>1, DelayAssumption
    <3> QED  BY <1>4, <2>1, <3>1
  <2>5. \A p \in Prio : Sleeps(p)' => p \in (Active \ {i}) \cup backup
    BY <1>4, <2>1, <2>3 DEF Sleeps
  <2>6. \A p \in (Active \ {i}) \cup backup : delayTime'[p] > 0
    <3>1. delayTime'[i] > 0
      BY <1>1, <1>4, <2>1
    <3> QED  BY <1>1, <1>4, <1>5, <2>3, <2>4, <3>1
  <2>7. /\ Active \ {i} \in SUBSET (InstalledTasks \ {IdlePrio})
        /\ backup \in SUBSET (InstalledTasks \ {IdlePrio})
        /\ (Active \ {i}) \cap backup = {}
    BY <1>1, <1>4, <2>3
  <2>8. TimerPart'
    BY <1>1, <1>2, <1>4, <2>3, <2>4, <2>5, <2>6, <2>7, TurnTimer
  <2>9. WaitsStep
    BY <2>1 DEF WaitsStep, WaitsStay
  <2> QED  BY <1>2, <1>3, <2>2, <2>8, <2>9 DEF KernelParts
<1> QED  BY <1>1, <1>6, <1>7

\* What the search of the ready list finds is a task.
LEMMA SearchFinds ==
  ASSUME KernelParts
  PROVE  /\ Highest(taskPrioList) \in InstalledTasks
         /\ \A p \in InstalledTasks : tcbPtrTbl[p] = p /\ p # NULL /\ p \in Prio
<1>1. \A p \in InstalledTasks : tcbPtrTbl[p] = p /\ p # NULL /\ p \in Prio
  BY PrioFacts DEF KernelParts, TablePart, InstalledTasks, Installed
<1>2. taskPrioList \in SUBSET InstalledTasks /\ IdlePrio \in InstalledTasks
  BY PrioFacts
  DEF KernelParts, ReadyPart, ReadyIffUnblocked, TablePart, InstalledTasks, Installed
<1>3. taskPrioList \in SUBSET Prio
  BY <1>1, <1>2
<1>4. CASE taskPrioList = {}
  BY <1>1, <1>2, <1>4 DEF Highest, IdlePrio
<1>5. CASE taskPrioList # {}
  BY <1>1, <1>2, <1>3, <1>5, HighestPrio
<1> QED  BY <1>1, <1>4, <1>5

LEMMA InterruptParts ==
  ASSUME KernelParts, Interrupt
  PROVE  KernelParts' /\ WaitsStep /\ UNCHANGED <<tcbPtrTbl, threads>>
<1>0. TablePart /\ ReadyPart /\ TimerPart /\ ListPart /\ CpuPart
  BY DEF KernelParts
<1>1. CASE TickTask
  BY <1>1, TickTaskParts
<1>2. ASSUME UNCHANGED <<lists, objects, threads>>, TimerPart', CpuPart'
      PROVE  KernelParts' /\ WaitsStep /\ UNCHANGED <<tcbPtrTbl, threads>>
  BY <1>0, <1>2, SameTasks, ReadyKept, ListKept
  DEF KernelParts, lists, objects, tcb, WaitsStep, WaitsStay
<1>3. ASSUME UNCHANGED <<lists, objects>>,
             tick' \in {"off", "loop", "out"}, irqCounter' = IF tick' = "off" THEN 0 ELSE 1,
             tick' = "loop" => Active # {}, tick' # "loop" => Backup = {}
      PROVE  TimerPart'
  <2>1. /\ Active' = Active /\ Backup' = Backup
        /\ \A p \in Prio : (Counting(p)' <=> Counting(p)) /\ (Sleeps(p)' <=> Sleeps(p))
    BY <1>3 DEF lists, objects, tcb, Active, Backup, Counting, Sleeps
  <2>2. InstalledTasks' = InstalledTasks
        /\ UNCHANGED <<timerPendingList, activeList, delayTime>>
    BY <1>3, SameTasks DEF lists, objects, tcb
  <2> QED  BY <1>0, <1>3, <2>1, <2>2 DEF TimerPart, SleepersCount, LoopOK
<1>4. CASE TickEnter
  <2>1. /\ UNCHANGED <<lists, objects, currentTask, highPrioTask, pendSV, halted, threads>>
        /\ tick = "off" /\ irqCounter' = 1 /\ tick' \in {"loop", "out"}
        /\ tick' = "loop" => Highest(Active) # 0
    BY <1>0, <1>4 DEF TickEnter, TimerPart
  <2>2. Backup = {} /\ (tick' = "loop" => Active # {})
    BY <1>0, <2>1 DEF TimerPart, Highest
  <2>3. TimerPart'
    BY <1>3, <2>1, <2>2
  <2>4. CpuPart'
    BY <1>0, <2>1, CpuKept DEF objects
  <2> QED  BY <1>2, <2>1, <2>3, <2>4
<1>5. CASE TickOut
  <2>1. tcbPtrTbl[Highest(taskPrioList)] = Highest(taskPrioList)
        /\ Highest(taskPrioList) # NULL /\ Highest(taskPrioList) \in InstalledTasks
    BY SearchFinds
  <2>2. /\ UNCHANGED <<lists, objects, currentTask, threads, halted>>
        /\ highPrioTask' \in InstalledTasks /\ pendSV' \in BOOLEAN
        /\ tick = "out" /\ tick' = "off" /\ irqCounter' = irqCounter - 1
    BY <1>5, <2>1 DEF TickOut, Publish
  <2>3. irqCounter' = 0 /\ Backup = {}
    BY <1>0, <2>2 DEF TimerPart
  <2>4. TimerPart'
    BY <1>3, <2>2, <2>3
  <2>5. CpuPart'
    BY <1>0, <2>2, SameTasks DEF CpuPart, objects
  <2> QED  BY <1>2, <2>2, <2>4, <2>5
<1>6. CASE PendSV
  <2>1. /\ UNCHANGED <<lists, objects, highPrioTask, irqCounter, tick, halted, threads>>
        /\ currentTask' = highPrioTask /\ pendSV' = FALSE
    BY <1>6 DEF PendSV
  <2>2. TimerPart'
    BY <1>0, <2>1, TimerKept DEF lists, objects, tcb, Sleeps
  <2>3. CpuPart'
    BY <1>0, <2>1, SameTasks DEF CpuPart, objects
  <2> QED  BY <1>2, <2>1, <2>2, <2>3
<1> QED  BY <1>1, <1>4, <1>5, <1>6 DEF Interrupt

-----------------------------------------------------------------------------
(* The tasks' calls                                                        *)

\* The thread that takes a step is a task's; outside of a call it is not the
\* idle task's.
LEMMA Runner ==
  ASSUME KernelParts, NEW Labels, NEW Afters, ThreadPart(Labels, Afters),
         NEW t \in Prio, Runs(t)
  PROVE  /\ t \in InstalledTasks /\ tick = "off" /\ irqCounter = 0 /\ Backup = {}
         /\ pc[t] # "run" => t # IdlePrio
BY DEF KernelParts, CpuPart, Runs, TimerPart, ThreadPart

LEMMA YieldParts ==
  ASSUME KernelParts, NEW Labels, NEW Afters, LabelsOK(Labels, Afters),
         ThreadPart(Labels, Afters), NEW t \in Prio, Yield(t), UNCHANGED arg
  PROVE  /\ KernelParts' /\ ThreadPart(Labels, Afters)' /\ UNCHANGED tcbPtrTbl
         /\ WaitsStep /\ \A p \in Prio : Moves(p)
<1>0. TablePart /\ ReadyPart /\ TimerPart /\ ListPart /\ CpuPart
  BY DEF KernelParts
<1>1. UNCHANGED <<lists, objects, currentTask, irqCounter, tick>>
  BY DEF Yield, YieldFind, YieldPublish, cpu
<1>2. TablePart' /\ ReadyPart' /\ TimerPart' /\ ListPart' /\ WaitsStep /\ UNCHANGED tcbPtrTbl
  BY <1>0, <1>1, SameTasks, ReadyKept, TimerKept, ListKept
  DEF lists, objects, tcb, Sleeps, WaitsStep, WaitsStay
<1>3. InstalledTasks' = InstalledTasks /\ (\A p : Installed(p)' <=> Installed(p))
  BY <1>1, SameTasks DEF objects
<1>4. CASE YieldFind(t)
  <2>1. Runs(t) /\ pc[t] = "yield"
    BY <1>4 DEF YieldFind, At
  <2>2. irqCounter = 0 /\ t # IdlePrio
    BY <2>1, Runner
  <2>3. Goto(t, "publish") /\ yieldPrio' = [yieldPrio EXCEPT ![t] = Highest(taskPrioList)]
        /\ UNCHANGED <<cpu, after>>
    BY <1>4, <2>2 DEF YieldFind
  <2>4. Highest(taskPrioList) \in InstalledTasks
    BY SearchFinds
  <2>5. CpuPart'
    BY <1>0, <1>1, <2>3, CpuKept DEF cpu, objects
  <2>6. ThreadPart(Labels, Afters)'
    BY <1>3, <2>1, <2>2, <2>3, <2>4 DEF ThreadPart, Goto, TimingPlaces
  <2>7. \A p \in Prio : Moves(p)
    BY <2>1, <2>3 DEF Moves, Goto, ThreadPart
  <2> QED  BY <1>2, <2>5, <2>6, <2>7 DEF KernelParts
<1>5. CASE YieldPublish(t)
  <2>1. Runs(t) /\ pc[t] = "publish"
    BY <1>5 DEF YieldPublish, At
  <2>2. t # IdlePrio
    BY <2>1, Runner
  <2>3. /\ yieldPrio[t] \in InstalledTasks /\ tcbPtrTbl[yieldPrio[t]] = yieldPrio[t]
        /\ yieldPrio[t] # NULL
    BY <1>0, SearchFinds DEF ThreadPart
  <2>4. /\ Goto(t, after[t]) /\ highPrioTask' \in InstalledTasks /\ pendSV' \in BOOLEAN
        /\ yieldPrio' = [yieldPrio EXCEPT ![t] = 0] /\ after' = [after EXCEPT ![t] = "run"]
        /\ UNCHANGED <<currentTask, halted>>
    BY <1>5, <2>3 DEF YieldPublish, Publish
  <2>5. CpuPart'
    BY <1>0, <1>3, <2>4 DEF CpuPart
  <2>6. 0 \in InstalledTasks
    BY <1>0, PrioFacts DEF TablePart, InstalledTasks, Installed
  <2>7. after[t] \in TimingPlaces \cup Labels /\ after[t] \notin {"suspend", "resume"}
    BY DEF ThreadPart, LabelsOK, TimingPlaces, TaskLabels
  <2>8. /\ pc' \in [Prio -> TimingPlaces \cup Labels] /\ pc'[t] = after[t]
        /\ \A p \in Prio \ {t} : pc'[p] = pc[p] /\ after'[p] = after[p]
        /\ after' \in [Prio -> {"run"} \cup Afters] /\ after'[t] = "run"
        /\ yieldPrio' \in [Prio -> InstalledTasks]
    BY <2>4, <2>6, <2>7 DEF ThreadPart, Goto
  <2>9. ThreadPart(Labels, Afters)'
    <3>1. \A p \in Prio : pc'[p] \in {"suspend", "resume"} => Installed(arg[p])
      BY <2>7, <2>8 DEF ThreadPart
    <3>2. pc'[IdlePrio] = "run"
      BY <2>2, <2>8, PrioFacts DEF ThreadPart
    <3> QED  BY <1>3, <2>8, <3>1, <3>2 DEF ThreadPart
  <2>10. \A p \in Prio : Moves(p)
    BY <2>1, <2>8 DEF Moves
  <2> QED  BY <1>2, <2>5, <2>9, <2>10 DEF KernelParts
<1> QED  BY <1>4, <1>5 DEF Yield

\* The end of a critical section of the tasks' calls.
LEMMA LeaveThread ==
  ASSUME NEW Labels, NEW Afters, ThreadPart(Labels, Afters), NEW t \in Prio, t # IdlePrio,
         pc[t] \in {"run", "suspend", "resume"}, Leave(t),
         UNCHANGED <<tcbPtrTbl, yieldPrio, after>>
  PROVE  ThreadPart(Labels, Afters)' /\ \A p \in Prio : Moves(p)
<1>1. arg' \in [Prio -> Prio] /\ \A p \in Prio \ {t} : arg'[p] = arg[p]
  BY PrioFacts DEF ThreadPart, Leave, IdlePrio
<1>2. Goto(t, "yield") /\ "yield" \in TimingPlaces \cup Labels
  BY DEF Leave, TimingPlaces
<1>3. after' \in [Prio -> {"run"} \cup Afters]
  BY DEF ThreadPart
<1>4. \A p \in Prio : Moves(p)
  BY <1>2 DEF Moves, Goto, ThreadPart
<1> QED  BY <1>1, <1>2, <1>3, <1>4, ThreadStep

LEMMA SuspendResumeParts ==
  ASSUME KernelParts, NEW Labels, NEW Afters, ThreadPart(Labels, Afters),
         NEW t \in Prio, SuspendTask(t) \/ ResumeTask(t)
  PROVE  /\ KernelParts' /\ ThreadPart(Labels, Afters)' /\ UNCHANGED <<tcbPtrTbl, taskVars>>
         /\ WaitsStep /\ \A p \in Prio : Moves(p)
<1>0. TablePart /\ ReadyPart /\ TimerPart /\ ListPart /\ CpuPart
  BY DEF KernelParts
<1>1. Runs(t) /\ pc[t] \in {"suspend", "resume"} /\ Leave(t)
  BY DEF SuspendTask, ResumeTask, At
<1>2. t # IdlePrio /\ Installed(arg[t]) /\ arg[t] \in Prio
  BY <1>1, Runner DEF ThreadPart
<1>3. /\ UNCHANGED <<timerPendingList, activeList, tcbPtrTbl, delayTime, bmp, waitList>>
      /\ UNCHANGED <<currentTask, highPrioTask, irqCounter, pendSV, tick, halted>>
      /\ UNCHANGED <<yieldPrio, after, taskVars>>
  BY <1>2 DEF SuspendTask, ResumeTask, Installed
<1>4. \/ /\ taskPrioList' = taskPrioList \ {arg[t]}
         /\ taskStatus' = [taskStatus EXCEPT ![arg[t]] = @ \cup {"Suspend"}]
      \/ /\ taskStatus' = [taskStatus EXCEPT ![arg[t]] = @ \ {"Suspend"}]
         /\ taskPrioList' = IF taskStatus[arg[t]] \ {"Suspend"} = {}
                            THEN taskPrioList \cup {arg[t]} ELSE taskPrioList
  BY <1>2 DEF SuspendTask, ResumeTask, Installed, Ready, Unready
<1>5. ReadyPart'
  <2>1. taskPrioList \in SUBSET Prio /\ taskStatus \in [Prio -> SUBSET Status]
    BY <1>0 DEF ReadyPart
  <2>2. /\ \A p \in Prio \ {arg[t]} :
              taskStatus'[p] = taskStatus[p] /\ (p \in taskPrioList' <=> p \in taskPrioList)
        /\ arg[t] \in taskPrioList' <=> taskStatus'[arg[t]] = {}
        /\ taskPrioList' \in SUBSET Prio /\ taskStatus' \in [Prio -> SUBSET Status]
    <3>1. CASE /\ taskPrioList' = taskPrioList \ {arg[t]}
               /\ taskStatus' = [taskStatus EXCEPT ![arg[t]] = @ \cup {"Suspend"}]
      BY <1>2, <2>1, <3>1 DEF Status
    <3>2. CASE /\ taskStatus' = [taskStatus EXCEPT ![arg[t]] = @ \ {"Suspend"}]
               /\ taskPrioList' = IF taskStatus[arg[t]] \ {"Suspend"} = {}
                                  THEN taskPrioList \cup {arg[t]} ELSE taskPrioList
      <4>1. arg[t] \in taskPrioList => taskStatus[arg[t]] = {}
        BY <1>0, <1>2 DEF ReadyPart, ReadyIffUnblocked
      <4> QED  BY <1>2, <2>1, <3>2, <4>1
    <3> QED  BY <1>4, <3>1, <3>2
  <2> QED  BY <1>0, <1>2, <1>3, <2>2, SameTasks DEF ReadyPart, ReadyIffUnblocked
<1>6. TimerPart'
  <2>1. \A p \in Prio : Sleeps(p)' => Sleeps(p)
    BY <1>0, <1>2, <1>4 DEF Sleeps, ReadyPart
  <2> QED  BY <1>0, <1>3, <2>1, TimerKept
<1>7. ThreadPart(Labels, Afters)' /\ \A p \in Prio : Moves(p)
  BY <1>1, <1>2, <1>3, LeaveThread
<1>8. TablePart' /\ ListPart' /\ CpuPart'
  BY <1>0, <1>3, SameTasks, ListKept, CpuKept
<1>9. WaitsStep
  BY <1>0, <1>2, <1>3, <1>4 DEF WaitsStep, WaitsStay, ReadyPart
<1> QED  BY <1>3, <1>5, <1>6, <1>7, <1>8, <1>9 DEF KernelParts

\* A task that is blocked for some ticks, or for ever, by one of its calls.
LEMMA BlockedParts ==
  ASSUME KernelParts, NEW t \in InstalledTasks, t \in Prio, tick = "off", t # IdlePrio,
         UNCHANGED <<tcbPtrTbl, activeList, tick, irqCounter>>, Unready(t),
         NEW causes \in SUBSET Status, causes # {},
         taskStatus' = [taskStatus EXCEPT ![t] = @ \cup causes],
         \/ UNCHANGED <<delayTime, timerPendingList>> /\ "PendDelay" \notin causes
         \/ \E ticks \in 1..MaxDelay :
               /\ delayTime' = [delayTime EXCEPT ![t] = ticks]
               /\ timerPendingList' = [timerPendingList EXCEPT ![activeList] = @ \cup {t}]
  PROVE  ReadyPart' /\ TimerPart'
<1>0. TablePart /\ ReadyPart /\ TimerPart
  BY DEF KernelParts
<1>1. t \in InstalledTasks /\ tick = "off" /\ Backup = {}
  BY <1>0 DEF TimerPart
<1>2. ReadyPart'
  <2>1. taskPrioList \in SUBSET Prio /\ taskStatus \in [Prio -> SUBSET Status]
    BY <1>0 DEF ReadyPart
  <2>2. /\ taskPrioList' = taskPrioList \ {t}
        /\ taskStatus' \in [Prio -> SUBSET Status] /\ taskStatus'[t] # {}
        /\ \A p \in Prio \ {t} : taskStatus'[p] = taskStatus[p]
    BY <2>1 DEF Unready
  <2> QED  BY <1>0, <2>1, <2>2, SameTasks DEF ReadyPart, ReadyIffUnblocked
<1>3. CASE UNCHANGED <<delayTime, timerPendingList>> /\ "PendDelay" \notin causes
  <2>1. \A p \in Prio : Sleeps(p)' => Sleeps(p)
    BY <1>0, <1>3 DEF Sleeps, ReadyPart
  <2> QED  BY <1>0, <1>2, <1>3, <2>1, TimerKept
<1>4. ASSUME NEW ticks \in 1..MaxDelay,
             delayTime' = [delayTime EXCEPT ![t] = ticks],
             timerPendingList' = [timerPendingList EXCEPT ![activeList] = @ \cup {t}]
      PROVE  TimerPart'
  <2>1. /\ timerPendingList \in [{0, 1} -> SUBSET (InstalledTasks \ {IdlePrio})]
        /\ activeList \in {0, 1}
    BY <1>0 DEF TimerPart
  <2>2. /\ Active' = Active \cup {t} /\ Backup' = {}
        /\ timerPendingList' \in [{0, 1} -> SUBSET (InstalledTasks \ {IdlePrio})]
        /\ \A p : Counting(p)' <=> (Counting(p) \/ p = t)
    BY <1>1, <1>4, <2>1 DEF Active, Backup, Counting
  <2>3. /\ delayTime' \in [Prio -> 0..MaxDelay] /\ delayTime'[t] > 0
        /\ \A p \in Prio \ {t} : delayTime'[p] = delayTime[p]
    <3>1. ticks \in 0..MaxDelay /\ ticks > 0 /\ delayTime \in [Prio -> 0..MaxDelay]
      BY <1>0, DelayAssumption DEF TimerPart
    <3> QED  BY <1>4, <3>1
  <2>4. \A p \in Prio \ {t} : Sleeps(p)' <=> Sleeps(p)
    BY <1>0 DEF Sleeps, ReadyPart
  <2>5. SleepersCount'
    <3>1. \A p \in Prio : Sleeps(p)' => Counting(p)'
      BY <1>0, <2>2, <2>4 DEF TimerPart, SleepersCount
    <3>2. \A p \in Prio : Counting(p)' => delayTime'[p] > 0
      BY <1>0, <2>2, <2>3 DEF TimerPart, SleepersCount
    <3> QED  BY <2>2, <3>1, <3>2 DEF SleepersCount
  <2>6. LoopOK' /\ irqCounter' = IF tick' = "off" THEN 0 ELSE 1
    BY <1>0, <1>1 DEF LoopOK, TimerPart
  <2> QED  BY <1>0, <2>1, <2>2, <2>3, <2>5, <2>6, SameTasks DEF TimerPart
<1> QED  BY <1>2, <1>3, <1>4

LEMMA DelayParts ==
  ASSUME KernelParts, NEW Labels, NEW Afters, ThreadPart(Labels, Afters),
         NEW t \in Prio, NEW ticks \in 1..MaxDelay, Delay(t, ticks)
  PROVE  /\ KernelParts' /\ ThreadPart(Labels, Afters)' /\ UNCHANGED <<tcbPtrTbl, taskVars>>
         /\ WaitsStep /\ \A p \in Prio : Moves(p)
<1>0. TablePart /\ ReadyPart /\ TimerPart /\ ListPart /\ CpuPart
  BY DEF KernelParts
<1>1. /\ Runs(t) /\ pc[t] = "run" /\ t # IdlePrio
      /\ Unready(t) /\ taskStatus' = [taskStatus EXCEPT ![t] = @ \cup {"PendDelay"}]
      /\ delayTime' = [delayTime EXCEPT ![t] = ticks]
      /\ timerPendingList' = [timerPendingList EXCEPT ![activeList] = @ \cup {t}]
      /\ Leave(t)
      /\ UNCHANGED <<activeList, tcbPtrTbl, bmp, waitList, cpu, yieldPrio, after, taskVars>>
  BY DEF Delay, Calls, At
<1>2. t \in InstalledTasks /\ tick = "off"
  BY <1>1, Runner
<1>3. ReadyPart' /\ TimerPart'
  <2>1. {"PendDelay"} \in SUBSET Status /\ {"PendDelay"} # {}
    BY DEF Status
  <2>2. UNCHANGED <<tick, irqCounter>>
    BY <1>1 DEF cpu
  <2> QED  BY <1>1, <1>2, <2>1, <2>2, BlockedParts
<1>4. ThreadPart(Labels, Afters)' /\ \A p \in Prio : Moves(p)
  BY <1>1, LeaveThread
<1>5. TablePart' /\ ListPart' /\ CpuPart'
  BY <1>0, <1>1, SameTasks, ListKept, CpuKept DEF cpu
<1>6. WaitsStep
  BY <1>0, <1>1 DEF WaitsStep, WaitsStay, ReadyPart
<1> QED  BY <1>1, <1>3, <1>4, <1>5, <1>6 DEF KernelParts

LEMMA CheckParts ==
  ASSUME KernelParts, NEW Labels, NEW Afters, ThreadPart(Labels, Afters),
         NEW t \in Prio, NEW p \in UserPrio, SuspendCheck(t, p) \/ ResumeCheck(t, p)
  PROVE  /\ KernelParts' /\ ThreadPart(Labels, Afters)' /\ UNCHANGED <<tcbPtrTbl, taskVars>>
         /\ WaitsStep /\ \A q \in Prio : Moves(q)
<1>1. p \in Prio
  BY SizeAssumption DEF UserPrio, Prio
<1>2. PICK label \in {"suspend", "resume"} : Enter(t, label, p)
  BY DEF SuspendCheck, ResumeCheck
<1>3. /\ pc[t] = "run" /\ t # IdlePrio /\ Installed(p)
      /\ UNCHANGED <<lists, objects, cpu, yieldPrio, after, taskVars>>
  BY DEF SuspendCheck, ResumeCheck, Installed, Calls, At
<1>4. /\ Goto(t, label) /\ arg' \in [Prio -> Prio] /\ arg'[t] = p
      /\ \A q \in Prio \ {t} : arg'[q] = arg[q]
  BY <1>1, <1>2 DEF Enter, ThreadPart
<1>5. /\ label \in TimingPlaces \cup Labels /\ after' \in [Prio -> {"run"} \cup Afters]
      /\ UNCHANGED <<tcbPtrTbl, yieldPrio>>
  BY <1>2, <1>3 DEF TimingPlaces, ThreadPart, objects
<1>6. ThreadPart(Labels, Afters)'
  BY <1>3, <1>4, <1>5, ThreadStep
<1>7. \A q \in Prio : Moves(q)
  BY <1>2, <1>3, <1>4 DEF Moves, Goto, ThreadPart
<1>8. KernelParts' /\ WaitsStep
  BY <1>3, PartsKept DEF WaitsStep, WaitsStay, objects, tcb
<1> QED  BY <1>3, <1>5, <1>6, <1>7, <1>8

\* Every step of the tasks' calls and of the interrupts, whatever the labels of
\* the objects' calls are.
LEMMA TaskStep ==
  ASSUME Api \subseteq TimingCalls, KernelParts,
         NEW Labels, NEW Afters, LabelsOK(Labels, Afters), ThreadPart(Labels, Afters), Next
  PROVE  /\ KernelParts' /\ ThreadPart(Labels, Afters)' /\ UNCHANGED <<tcbPtrTbl, taskVars>>
         /\ WaitsStep /\ \A p \in Prio : Moves(p)
<1>1. CASE Interrupts
  BY <1>1, InterruptParts, ThreadsKept DEF Interrupts
<1>2. ASSUME NEW t \in Prio, Proceed(t) \/ Call(t)
      PROVE  /\ KernelParts' /\ ThreadPart(Labels, Afters)' /\ UNCHANGED <<tcbPtrTbl, taskVars>>
             /\ WaitsStep /\ \A p \in Prio : Moves(p)
  <2>1. pc[t] \notin {"create", "delete"}
    BY DEF ThreadPart, LabelsOK, TimingPlaces, TaskLabels
  <2>2. CASE Proceed(t)
    <3>1. \/ Yield(t) /\ UNCHANGED <<taskVars, arg>>
          \/ SuspendTask(t) \/ ResumeTask(t)
      BY <2>1, <2>2 DEF Proceed, CreateRefused, CreateTask, DeleteTask, At
    <3> QED  BY <3>1, YieldParts, SuspendResumeParts
  <2>3. CASE Call(t)
    <3>1. \/ \E ticks \in 1..MaxDelay : Delay(t, ticks)
          \/ \E p \in UserPrio : SuspendCheck(t, p) \/ ResumeCheck(t, p)
      BY <2>3 DEF Call, Calls, TimingCalls, CreateAlloc, DeleteCheck, CreateOutOfMemory, Return
    <3> QED  BY <3>1, DelayParts, CheckParts
  <2> QED  BY <1>2, <2>2, <2>3
<1> QED  BY <1>1, <1>2 DEF Next

-----------------------------------------------------------------------------
(* The wait lists of kernel objects                                        *)

LEMMA OnlyAll ==
  ASSUME NEW l, NEW waiters
  PROVE  /\ DOMAIN Only(l, waiters) = {l} /\ Only(l, waiters)[l] = waiters
         /\ All(Only(l, waiters)) = waiters
BY DEF Only, All

\* The waiters an object lets go are tasks.
LEMMA WaitersAreTasks ==
  ASSUME KernelParts, NEW l \in List
  PROVE  /\ waitList[l].prioTbl \in SUBSET InstalledTasks
         /\ FirstWaiter(l) \in SUBSET waitList[l].prioTbl
<1>1. waitList[l].prioTbl \in SUBSET InstalledTasks
  BY DEF KernelParts, ListPart
<1>2. InstalledTasks \in SUBSET Prio
  BY DEF InstalledTasks
<1>3. waitList[l].prioTbl # {} => Highest(waitList[l].prioTbl) \in waitList[l].prioTbl
  BY <1>1, <1>2, HighestPrio
<1>4. First(waitList[l]) # 0 => First(waitList[l]) \in waitList[l].prioTbl
  BY <1>3 DEF First, Highest
<1> QED  BY <1>1, <1>4 DEF FirstWaiter

\* Whoever does not leave a list stays in it, on both its levels.
LEMMA StaysListed ==
  ASSUME NEW list, NEW gone, NEW p, list.prioGrp, p \in list.prioTbl, p \notin gone
  PROVE  Delist(list, gone).prioGrp /\ p \in Delist(list, gone).prioTbl
<1>1. list.prioTbl \ gone # {}
  OBVIOUS
<1> DEFINE raised == list.prioGrp /\ (gone = {} \/ list.prioTbl \ gone # {})
           table == list.prioTbl \ gone
<1>2. raised /\ p \in table
  BY <1>1
<1> HIDE DEF raised, table
<1>3. [prioGrp |-> raised, prioTbl |-> table].prioGrp = raised
      /\ [prioGrp |-> raised, prioTbl |-> table].prioTbl = table
  OBVIOUS
<1> QED  BY <1>2, <1>3 DEF Delist, raised, table

\* Some waiters are let go, without these causes: whoever nothing else holds
\* back is ready.
LEMMA LetGoParts ==
  ASSUME KernelParts, NEW waiters \in SUBSET InstalledTasks, NEW causes,
         taskStatus' = [p \in Prio |-> IF p \in waiters THEN Held(p, causes) ELSE taskStatus[p]],
         taskPrioList' = taskPrioList \cup {p \in waiters : Held(p, causes) = {}},
         UNCHANGED <<tcbPtrTbl, timerPendingList, activeList, delayTime, tick, irqCounter>>
  PROVE  ReadyPart' /\ TimerPart'
<1>0. TablePart /\ ReadyPart /\ TimerPart
  BY DEF KernelParts
<1>1. \A p \in waiters : p \in Prio /\ Installed(p)
  BY DEF InstalledTasks
<1>2. /\ taskPrioList \in SUBSET Prio /\ taskStatus \in [Prio -> SUBSET Status]
      /\ \A p \in Prio : p \in taskPrioList <=> (Installed(p) /\ taskStatus[p] = {})
  BY <1>0 DEF ReadyPart, ReadyIffUnblocked
<1>3. ReadyPart'
  <2>1. taskStatus' \in [Prio -> SUBSET Status]
    BY <1>2 DEF Held
  <2>2. taskPrioList' \in SUBSET Prio
    BY <1>1, <1>2
  <2>3. \A p \in Prio : p \in taskPrioList' <=> (Installed(p) /\ taskStatus'[p] = {})
    BY <1>1, <1>2 DEF Held
  <2> QED  BY <2>1, <2>2, <2>3, SameTasks DEF ReadyPart, ReadyIffUnblocked
<1>4. TimerPart'
  <2>1. \A p \in Prio : Sleeps(p)' => Sleeps(p)
    BY DEF Sleeps, Held
  <2> QED  BY <1>0, <2>1, TimerKept
<1> QED  BY <1>3, <1>4

\* Each of the lists in from is left by some of its waiters, as in Wake.
LEMMA WakeParts ==
  ASSUME KernelParts, NEW from, DOMAIN from \subseteq List,
         \A l \in DOMAIN from : from[l] \in SUBSET InstalledTasks,
         NEW causes, Wake(from, causes),
         UNCHANGED <<tcbPtrTbl, timerPendingList, activeList, delayTime, bmp, tick, irqCounter>>
  PROVE  /\ ReadyPart' /\ TimerPart' /\ ListPart' /\ UNCHANGED halted
         /\ taskStatus' = [p \in Prio |-> IF p \in All(from) THEN Held(p, causes)
                                          ELSE taskStatus[p]]
         /\ waitList' = [l \in List |-> IF l \in DOMAIN from THEN Delist(waitList[l], from[l])
                                        ELSE waitList[l]]
<1>1. All(from) \in SUBSET InstalledTasks
  BY DEF All
<1>2. \A p \in All(from) : tcbPtrTbl[p] # NULL
  BY <1>1 DEF InstalledTasks, Installed
<1>3. /\ taskStatus' = [p \in Prio |-> IF p \in All(from) THEN Held(p, causes)
                                       ELSE taskStatus[p]]
      /\ waitList' = [l \in List |-> IF l \in DOMAIN from THEN Delist(waitList[l], from[l])
                                     ELSE waitList[l]]
      /\ UNCHANGED halted
  BY <1>2 DEF Wake, Unblock
<1>4. taskPrioList' = taskPrioList \cup {p \in All(from) : Held(p, causes) = {}}
  BY <1>2 DEF Wake, Freed
<1>5. ReadyPart' /\ TimerPart'
  <2> DEFINE waiters == All(from)
  <2> HIDE DEF waiters
  <2>1. /\ waiters \in SUBSET InstalledTasks
        /\ taskStatus' = [p \in Prio |-> IF p \in waiters THEN Held(p, causes)
                                         ELSE taskStatus[p]]
        /\ taskPrioList' = taskPrioList \cup {p \in waiters : Held(p, causes) = {}}
    BY <1>1, <1>3, <1>4 DEF waiters
  <2> QED  BY <2>1, LetGoParts
<1>6. ListPart'
  <2>1. \A l \in List : waitList[l] \in [prioGrp : BOOLEAN, prioTbl : SUBSET InstalledTasks]
    BY DEF KernelParts, ListPart
  <2>2. \A l \in DOMAIN from :
           Delist(waitList[l], from[l]) \in [prioGrp : BOOLEAN, prioTbl : SUBSET InstalledTasks]
    BY <2>1 DEF Delist
  <2>3. waitList' \in [List -> [prioGrp : BOOLEAN, prioTbl : SUBSET InstalledTasks]]
    BY <1>3, <2>1, <2>2
  <2> QED  BY <2>3, SameTasks DEF KernelParts, ListPart
<1> QED  BY <1>3, <1>5, <1>6
-----------------------------------------------------------------------------
(* The types alone, which are kept whatever becomes of the tasks' order.    *)

ListTypes == /\ taskPrioList \in SUBSET Prio
             /\ timerPendingList \in [{0, 1} -> SUBSET Prio]
             /\ activeList \in {0, 1}
TaskTypes == /\ tcbPtrTbl \in [Prio -> Prio \cup {NULL}]
             /\ taskStatus \in [Prio -> SUBSET Status]
             /\ delayTime \in [Prio -> 0..MaxDelay]
             /\ bmp \in [Prio -> [Bmp -> List \cup {NULL, Wild}]]
WaitTypes == waitList \in [List -> [prioGrp : BOOLEAN, prioTbl : SUBSET Prio]]
CpuTypes == /\ currentTask \in Prio /\ highPrioTask \in Prio
            /\ irqCounter = IF tick = "off" THEN 0 ELSE 1
            /\ pendSV \in BOOLEAN
            /\ tick \in {"off", "loop", "out"}
            /\ halted \in {"no", "null", "assert", "wild"}
KernelTypes == ListTypes /\ TaskTypes /\ WaitTypes /\ CpuTypes

\* Where threads may be: at least at these places, and never in a create or a
\* delete.
TypesLabels(Labels) ==
    /\ {"run", "suspend", "resume", "yield", "publish", "trapped"} \subseteq Labels
    /\ {"create", "delete"} \cap Labels = {}
ThreadTypes(Labels) == /\ pc \in [Prio -> Labels]
                       /\ yieldPrio \in [Prio -> Prio]
                       /\ after \in [Prio -> Labels]
                       /\ arg \in [Prio -> Prio]

LEMMA WriteTypes ==
  ASSUME NEW S, NEW T, NEW f \in [S -> T], NEW x, NEW v \in T
  PROVE  [f EXCEPT ![x] = v] \in [S -> T]
OBVIOUS

LEMMA SameTypes ==
  ASSUME KernelTypes, UNCHANGED <<lists, objects, cpu>>
  PROVE  KernelTypes'
BY DEF KernelTypes, ListTypes, TaskTypes, WaitTypes, CpuTypes, lists, objects, tcb, cpu

LEMMA SameThreads ==
  ASSUME NEW Labels, ThreadTypes(Labels), UNCHANGED <<threads, arg>>
  PROVE  ThreadTypes(Labels)'
BY DEF ThreadTypes, threads

\* A thread goes to one of its places.
LEMMA GotoTypes ==
  ASSUME NEW Labels, ThreadTypes(Labels), NEW t \in Prio, NEW label \in Labels, Goto(t, label),
         UNCHANGED <<yieldPrio, after, arg>>
  PROVE  ThreadTypes(Labels)'
BY DEF ThreadTypes, Goto

\* A wait list of whose waiters some leave, or which one more enters.
LEMMA WaitListTypes ==
  ASSUME WaitTypes, NEW l \in List
  PROVE  /\ waitList[l].prioTbl \in SUBSET Prio
         /\ \A gone : Delist(waitList[l], gone) \in [prioGrp : BOOLEAN, prioTbl : SUBSET Prio]
         /\ \A p \in Prio :
               Enlist(waitList[l], p) \in [prioGrp : BOOLEAN, prioTbl : SUBSET Prio]
         /\ FirstWaiter(l) \in SUBSET Prio
<1>1. waitList[l] \in [prioGrp : BOOLEAN, prioTbl : SUBSET Prio]
  BY DEF WaitTypes
<1>2. Highest(waitList[l].prioTbl) \in Prio
  BY <1>1, HighestPrio
<1>3. FirstWaiter(l) \in SUBSET Prio
  BY <1>2, PrioFacts DEF FirstWaiter, First, IdlePrio
<1>4. \A gone : Delist(waitList[l], gone) \in [prioGrp : BOOLEAN, prioTbl : SUBSET Prio]
  BY <1>1 DEF Delist
<1>5. \A p \in Prio : Enlist(waitList[l], p) \in [prioGrp : BOOLEAN, prioTbl : SUBSET Prio]
  BY <1>1 DEF Enlist
<1> QED  BY <1>1, <1>3, <1>4, <1>5

LEMMA LeaveTypes ==
  ASSUME WaitTypes, NEW p, NEW stray, LeaveWaitLists(p, stray)
  PROVE  WaitTypes'
<1>1. \A l \in List : /\ waitList[l] \in [prioGrp : BOOLEAN, prioTbl : SUBSET Prio]
                      /\ Delist(waitList[l], {p}) \in [prioGrp : BOOLEAN, prioTbl : SUBSET Prio]
  BY WaitListTypes DEF WaitTypes
<1> QED  BY <1>1 DEF LeaveWaitLists, WaitTypes

LEMMA TurnTypes ==
  ASSUME ListTypes, tick = "loop", NEW active \in SUBSET Prio, NEW backup \in SUBSET Prio,
         Turn(active, backup)
  PROVE  /\ timerPendingList' \in [{0, 1} -> SUBSET Prio]
         /\ activeList' \in {0, 1}
         /\ tick' \in {"loop", "out"}
<1>1. timerPendingList \in [{0, 1} -> SUBSET Prio] /\ activeList \in {0, 1}
  BY DEF ListTypes
<1> QED  BY <1>1 DEF Turn

\* The tick works off one entry.
LEMMA EntryTypes ==
  ASSUME KernelTypes, NEW i \in Prio, tick = "loop",
         TickExpire(i) \/ TickForget(i) \/ TickKeep(i) \/ TickFault(i),
         UNCHANGED <<tcbPtrTbl, currentTask, highPrioTask, irqCounter, pendSV>>
  PROVE  KernelTypes'
<1>0. ListTypes /\ TaskTypes /\ WaitTypes /\ CpuTypes
  BY DEF KernelTypes
<1>1. /\ Active \in SUBSET Prio /\ Backup \in SUBSET Prio
      /\ Active \ {i} \in SUBSET Prio /\ Backup \cup {i} \in SUBSET Prio
  BY <1>0 DEF ListTypes, Active, Backup
<1>2. NoList \in [Bmp -> List \cup {NULL, Wild}] /\ 0 \in 0..MaxDelay
  BY DelayAssumption DEF NoList
<1>3. tcbPtrTbl[i] # NULL => tcbPtrTbl[i] \in Prio
  BY <1>0 DEF TaskTypes
<1>4. CASE TickExpire(i)
  <2>1. PICK p \in Prio : p = tcbPtrTbl[i]
    BY <1>3, <1>4 DEF TickExpire
  <2>2. /\ taskPrioList' = taskPrioList \cup {p}
        /\ taskStatus' = [taskStatus EXCEPT ![p] = {}]
        /\ delayTime' = [delayTime EXCEPT ![p] = 0]
        /\ bmp' = [bmp EXCEPT ![p] = NoList]
        /\ Turn(Active \ {i}, Backup) /\ UNCHANGED halted
        /\ \E stray \in List \cup {NULL} : LeaveWaitLists(p, stray)
    BY <1>4, <2>1 DEF TickExpire, Ready
  <2>3. ListTypes' /\ tick' \in {"loop", "out"}
    BY <1>0, <1>1, <2>2, TurnTypes DEF ListTypes
  <2>4. TaskTypes'
    BY <1>0, <1>2, <2>2 DEF TaskTypes
  <2>5. WaitTypes'
    BY <1>0, <2>2, LeaveTypes
  <2> QED  BY <1>0, <2>2, <2>3, <2>4, <2>5 DEF CpuTypes, KernelTypes
<1>5. CASE TickForget(i) \/ TickKeep(i)
  <2>1. PICK p \in Prio : p = tcbPtrTbl[i]
    BY <1>3, <1>5 DEF TickForget, TickKeep
  <2>2. /\ delayTime[p] > 1 /\ delayTime' = [delayTime EXCEPT ![p] = @ - 1]
        /\ UNCHANGED <<taskPrioList, taskStatus, bmp, waitList, halted>>
        /\ Turn(Active \ {i}, Backup) \/ Turn(Active \ {i}, Backup \cup {i})
    BY <1>5, <2>1 DEF TickForget, TickKeep
  <2>3. delayTime[p] - 1 \in 0..MaxDelay
    <3>1. delayTime[p] \in 0..MaxDelay /\ delayTime[p] > 1
      BY <1>0, <2>2 DEF TaskTypes
    <3> QED  BY <3>1, DelayAssumption
  <2>4. TaskTypes'
    BY <1>0, <2>2, <2>3 DEF TaskTypes
  <2>5. ListTypes' /\ tick' \in {"loop", "out"}
    BY <1>0, <1>1, <2>2, TurnTypes DEF ListTypes
  <2>6. WaitTypes'
    BY <1>0, <2>2 DEF WaitTypes
  <2> QED  BY <1>0, <2>2, <2>4, <2>5, <2>6 DEF CpuTypes, KernelTypes
<1>6. CASE TickFault(i)
  <2>1. /\ halted' \in {"no", "null", "assert", "wild"}
        /\ timerPendingList' = [timerPendingList EXCEPT ![activeList] = @ \ {i}]
        /\ UNCHANGED <<taskPrioList, activeList, tcb, waitList, tick>>
    BY <1>6 DEF TickFault
  <2>2. ListTypes'
    BY <1>0, <2>1 DEF ListTypes
  <2> QED  BY <1>0, <2>1, <2>2 DEF TaskTypes, WaitTypes, CpuTypes, KernelTypes, tcb
<1> QED  BY <1>4, <1>5, <1>6

LEMMA InterruptTypes ==
  ASSUME KernelTypes, Interrupt
  PROVE  KernelTypes' /\ UNCHANGED threads
<1>0. ListTypes /\ TaskTypes /\ WaitTypes /\ CpuTypes
  BY DEF KernelTypes
<1>1. CASE TickEnter
  <2>1. /\ tick' \in {"loop", "out"} /\ irqCounter' = 1
        /\ UNCHANGED <<lists, objects, currentTask, highPrioTask, pendSV, halted, threads>>
    BY <1>0, <1>1 DEF TickEnter, CpuTypes
  <2>2. CpuTypes'
    BY <1>0, <2>1 DEF CpuTypes
  <2> QED
    BY <1>0, <2>1, <2>2 DEF KernelTypes, ListTypes, TaskTypes, WaitTypes, lists, objects, tcb
<1>2. CASE TickTask
  <2>1. Highest(Active) \in Prio
    <3>1. Active \in SUBSET Prio
      BY <1>0 DEF ListTypes, Active
    <3> QED  BY <3>1, HighestPrio
  <2>2. PICK i \in Prio : TickExpire(i) \/ TickForget(i) \/ TickKeep(i) \/ TickFault(i)
    BY <1>2, <2>1 DEF TickTask
  <2>3. /\ tick = "loop"
        /\ UNCHANGED <<tcbPtrTbl, currentTask, highPrioTask, irqCounter, pendSV, threads>>
    BY <1>2 DEF TickTask
  <2> QED  BY <2>2, <2>3, EntryTypes
<1>3. CASE TickOut
  <2>1. Highest(taskPrioList) \in Prio
    BY <1>0, HighestPrio DEF ListTypes
  <2>2. /\ highPrioTask' \in Prio /\ pendSV' \in BOOLEAN
        /\ halted' \in {"no", "null", "assert", "wild"}
    BY <1>0, <1>3, <2>1 DEF TickOut, Publish, TaskTypes, CpuTypes
  <2>3. /\ irqCounter' = 0 /\ tick' = "off"
        /\ UNCHANGED <<lists, objects, currentTask, threads>>
    BY <1>0, <1>3 DEF TickOut, CpuTypes
  <2>4. CpuTypes'
    BY <1>0, <2>2, <2>3 DEF CpuTypes
  <2> QED
    BY <1>0, <2>3, <2>4 DEF KernelTypes, ListTypes, TaskTypes, WaitTypes, lists, objects, tcb
<1>4. CASE PendSV
  <2>1. /\ currentTask' = highPrioTask /\ pendSV' = FALSE
        /\ UNCHANGED <<lists, objects, highPrioTask, irqCounter, tick, halted, threads>>
    BY <1>4 DEF PendSV
  <2>2. CpuTypes'
    BY <1>0, <2>1 DEF CpuTypes
  <2> QED
    BY <1>0, <2>1, <2>2 DEF KernelTypes, ListTypes, TaskTypes, WaitTypes, lists, objects, tcb
<1> QED  BY <1>1, <1>2, <1>3, <1>4 DEF Interrupt

LEMMA YieldTypes ==
  ASSUME KernelTypes, NEW Labels, TypesLabels(Labels), ThreadTypes(Labels),
         NEW t \in Prio, Yield(t), UNCHANGED arg
  PROVE  KernelTypes' /\ ThreadTypes(Labels)'
<1>0. ListTypes /\ TaskTypes /\ WaitTypes /\ CpuTypes
  BY DEF KernelTypes
<1>1. {"run", "publish", "trapped"} \subseteq Labels
  BY DEF TypesLabels
<1>2. CASE YieldFind(t)
  <2>1. Highest(taskPrioList) \in Prio
    BY <1>0, HighestPrio DEF ListTypes
  <2>2. /\ yieldPrio' = [yieldPrio EXCEPT ![t] = Highest(taskPrioList)]
        /\ \E label \in {after[t], "publish"} : pc' = [pc EXCEPT ![t] = label]
        /\ UNCHANGED <<lists, objects, cpu, after>>
    BY <1>2 DEF YieldFind, Goto
  <2>3. after[t] \in Labels
    BY DEF ThreadTypes
  <2> QED  BY <1>1, <2>1, <2>2, <2>3, SameTypes DEF ThreadTypes
<1>3. CASE YieldPublish(t)
  <2>1. yieldPrio[t] \in Prio /\ after[t] \in Labels
    BY DEF ThreadTypes
  <2>2. /\ \E label \in {after[t], "trapped"} : pc' = [pc EXCEPT ![t] = label]
        /\ yieldPrio' = [yieldPrio EXCEPT ![t] = 0] /\ after' = [after EXCEPT ![t] = "run"]
        /\ UNCHANGED <<lists, objects, currentTask, irqCounter, tick, halted>>
    BY <1>3 DEF YieldPublish, Goto
  <2>3. highPrioTask' \in Prio /\ pendSV' \in BOOLEAN
    BY <1>0, <1>3, <2>1 DEF YieldPublish, Publish, TaskTypes, CpuTypes
  <2>4. CpuTypes'
    BY <1>0, <2>2, <2>3 DEF CpuTypes
  <2>5. ThreadTypes(Labels)'
    <3>1. pc' \in [Prio -> Labels]
      BY <1>1, <2>1, <2>2 DEF ThreadTypes
    <3>2. after' \in [Prio -> Labels]
      BY <1>1, <2>2 DEF ThreadTypes
    <3>3. yieldPrio' \in [Prio -> Prio]
      BY <2>2, PrioFacts DEF ThreadTypes, IdlePrio
    <3> QED  BY <3>1, <3>2, <3>3 DEF ThreadTypes
  <2> QED
    BY <1>0, <2>2, <2>4, <2>5 DEF KernelTypes, ListTypes, TaskTypes, WaitTypes, lists, objects, tcb
<1> QED  BY <1>2, <1>3 DEF Yield

LEMMA SuspendResumeTypes ==
  ASSUME KernelTypes, NEW Labels, TypesLabels(Labels), ThreadTypes(Labels),
         NEW t \in Prio, SuspendTask(t) \/ ResumeTask(t)
  PROVE  KernelTypes' /\ ThreadTypes(Labels)' /\ UNCHANGED taskVars
<1>0. ListTypes /\ TaskTypes /\ WaitTypes /\ CpuTypes /\ arg[t] \in Prio
  BY DEF KernelTypes, ThreadTypes
<1>1. /\ Leave(t)
      /\ UNCHANGED <<timerPendingList, activeList, tcbPtrTbl, delayTime, bmp, waitList, currentTask,
                     highPrioTask, irqCounter, pendSV, tick, yieldPrio, after, taskVars>>
      /\ halted' \in {halted, "null"}
  BY DEF SuspendTask, ResumeTask
<1>2. taskPrioList' \in SUBSET Prio
  BY <1>0 DEF SuspendTask, ResumeTask, Ready, Unready, ListTypes
<1>3. taskStatus' \in [Prio -> SUBSET Status]
  BY <1>0 DEF SuspendTask, ResumeTask, TaskTypes, Status
<1>4. ListTypes' /\ TaskTypes' /\ WaitTypes' /\ CpuTypes'
  BY <1>0, <1>1, <1>2, <1>3 DEF ListTypes, TaskTypes, WaitTypes, CpuTypes
<1>5. ThreadTypes(Labels)'
  <2>1. "yield" \in Labels
    BY DEF TypesLabels
  <2> QED  BY <1>1, <2>1, PrioFacts DEF Leave, Goto, ThreadTypes, IdlePrio
<1> QED  BY <1>1, <1>4, <1>5 DEF KernelTypes

\* A call of a task that blocks for some ticks, or for ever.
LEMMA BlockedTypes ==
  ASSUME ListTypes, TaskTypes, NEW t \in Prio, taskPrioList' \in SUBSET Prio,
         NEW causes \in SUBSET Status, taskStatus' = [taskStatus EXCEPT ![t] = @ \cup causes],
         \/ UNCHANGED <<delayTime, timerPendingList>>
         \/ \E ticks \in 0..MaxDelay :
               /\ delayTime' = [delayTime EXCEPT ![t] = ticks]
               /\ \/ timerPendingList' = [timerPendingList EXCEPT ![activeList] = @ \cup {t}]
                  \/ UNCHANGED timerPendingList,
         UNCHANGED <<tcbPtrTbl, activeList>>,
         bmp' \in [Prio -> [Bmp -> List \cup {NULL, Wild}]]
  PROVE  ListTypes' /\ TaskTypes'
<1>1. delayTime' \in [Prio -> 0..MaxDelay] /\ timerPendingList' \in [{0, 1} -> SUBSET Prio]
  BY DEF ListTypes, TaskTypes
<1>2. taskStatus' \in [Prio -> SUBSET Status]
  BY DEF TaskTypes
<1> QED  BY <1>1, <1>2 DEF ListTypes, TaskTypes

LEMMA CallsTypes ==
  ASSUME Api \subseteq TimingCalls, KernelTypes, NEW Labels, TypesLabels(Labels),
         ThreadTypes(Labels), NEW t \in Prio, Call(t)
  PROVE  KernelTypes' /\ ThreadTypes(Labels)' /\ UNCHANGED taskVars
<1>0. ListTypes /\ TaskTypes /\ WaitTypes /\ CpuTypes
  BY DEF KernelTypes
<1>1. \/ \E ticks \in 1..MaxDelay : Delay(t, ticks)
      \/ \E p \in UserPrio : SuspendCheck(t, p) \/ ResumeCheck(t, p)
  BY DEF Call, Calls, TimingCalls, CreateAlloc, DeleteCheck, CreateOutOfMemory, Return
<1>2. ASSUME NEW ticks \in 1..MaxDelay, Delay(t, ticks)
      PROVE  KernelTypes' /\ ThreadTypes(Labels)' /\ UNCHANGED taskVars
  <2>1. /\ taskPrioList' = taskPrioList \ {t} /\ Leave(t)
        /\ taskStatus' = [taskStatus EXCEPT ![t] = @ \cup {"PendDelay"}]
        /\ delayTime' = [delayTime EXCEPT ![t] = ticks]
        /\ timerPendingList' = [timerPendingList EXCEPT ![activeList] = @ \cup {t}]
        /\ UNCHANGED <<activeList, tcbPtrTbl, bmp, waitList, cpu, yieldPrio, after, taskVars>>
    BY <1>2 DEF Delay, Unready
  <2>2. ticks \in 0..MaxDelay /\ {"PendDelay"} \in SUBSET Status
    BY DelayAssumption DEF Status
  <2>3. taskPrioList' \in SUBSET Prio /\ bmp' \in [Prio -> [Bmp -> List \cup {NULL, Wild}]]
    BY <1>0, <2>1 DEF ListTypes, TaskTypes
  <2>4. ListTypes' /\ TaskTypes'
    BY <1>0, <2>1, <2>2, <2>3, BlockedTypes
  <2>5. ThreadTypes(Labels)'
    <3>1. "yield" \in Labels
      BY DEF TypesLabels
    <3> QED  BY <2>1, <3>1, PrioFacts DEF Leave, Goto, ThreadTypes, IdlePrio
  <2> QED  BY <1>0, <2>1, <2>4, <2>5 DEF KernelTypes, WaitTypes, CpuTypes, cpu
<1>3. ASSUME NEW p \in UserPrio, SuspendCheck(t, p) \/ ResumeCheck(t, p)
      PROVE  KernelTypes' /\ ThreadTypes(Labels)' /\ UNCHANGED taskVars
  <2>1. p \in Prio
    BY SizeAssumption DEF UserPrio, Prio
  <2>2. /\ \E label \in {"suspend", "resume"} : Enter(t, label, p)
        /\ UNCHANGED <<lists, objects, cpu, yieldPrio, after, taskVars>>
    BY <1>3 DEF SuspendCheck, ResumeCheck
  <2>3. {"suspend", "resume"} \subseteq Labels
    BY DEF TypesLabels
  <2> QED  BY <2>1, <2>2, <2>3, SameTypes DEF Enter, Goto, ThreadTypes
<1> QED  BY <1>1, <1>2, <1>3

\* The tasks' own calls and the interrupts.
LEMMA ProceedTypes ==
  ASSUME KernelTypes, NEW Labels, TypesLabels(Labels), ThreadTypes(Labels),
         NEW t \in Prio, Proceed(t)
  PROVE  KernelTypes' /\ ThreadTypes(Labels)' /\ UNCHANGED taskVars
<1>1. pc[t] \notin {"create", "delete"}
  BY DEF ThreadTypes, TypesLabels
<1>2. \/ Yield(t) /\ UNCHANGED <<taskVars, arg>>
      \/ SuspendTask(t) \/ ResumeTask(t)
  BY <1>1 DEF Proceed, CreateRefused, CreateTask, DeleteTask, At
<1> QED  BY <1>2, YieldTypes, SuspendResumeTypes

LEMMA TasksTypes ==
  ASSUME Api \subseteq TimingCalls, KernelTypes, NEW Labels, TypesLabels(Labels),
         ThreadTypes(Labels),
         Interrupts \/ \E t \in Prio : Proceed(t) \/ Call(t)
  PROVE  KernelTypes' /\ ThreadTypes(Labels)' /\ UNCHANGED taskVars
<1>1. CASE Interrupts
  BY <1>1, InterruptTypes, SameThreads DEF Interrupts
<1>2. ASSUME NEW t \in Prio, Proceed(t) \/ Call(t)
      PROVE  KernelTypes' /\ ThreadTypes(Labels)' /\ UNCHANGED taskVars
  BY <1>2, ProceedTypes, CallsTypes
<1> QED  BY <1>1, <1>2

\* Waiters are let go.
LEMMA UnblockTypes ==
  ASSUME TaskTypes, WaitTypes,
         NEW from, DOMAIN from \subseteq List, \A l \in DOMAIN from : from[l] \in SUBSET Prio,
         NEW causes, Unblock(from, causes)
  PROVE  /\ WaitTypes' /\ taskStatus' \in [Prio -> SUBSET Status] /\ halted' \in {halted, "null"}
         /\ Freed(from, causes) \in SUBSET Prio
<1>1. All(from) \in SUBSET Prio
  BY DEF All
<1>2. Freed(from, causes) \in SUBSET Prio
  BY <1>1 DEF Freed
<1>3. CASE \E p \in All(from) : tcbPtrTbl[p] = NULL
  BY <1>2, <1>3 DEF Unblock, TaskTypes, WaitTypes
<1>4. CASE ~\E p \in All(from) : tcbPtrTbl[p] = NULL
  <2>1. /\ waitList' = [l \in List |-> IF l \in DOMAIN from THEN Delist(waitList[l], from[l])
                                       ELSE waitList[l]]
        /\ taskStatus' = [p \in Prio |-> IF p \in All(from) THEN Held(p, causes)
                                         ELSE taskStatus[p]]
        /\ UNCHANGED halted
    BY <1>4 DEF Unblock
  <2>2. \A l \in List :
           /\ waitList[l] \in [prioGrp : BOOLEAN, prioTbl : SUBSET Prio]
           /\ Delist(waitList[l], from[l]) \in [prioGrp : BOOLEAN, prioTbl : SUBSET Prio]
    BY WaitListTypes DEF WaitTypes
  <2>3. WaitTypes'
    BY <2>1, <2>2 DEF WaitTypes
  <2>4. taskStatus' \in [Prio -> SUBSET Status]
    BY <2>1 DEF Held, TaskTypes
  <2> QED  BY <1>2, <2>1, <2>3, <2>4
<1> QED  BY <1>3, <1>4
=============================================================================
