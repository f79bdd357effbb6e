------------------------------ MODULE SemProofs ------------------------------
(***************************************************************************)
(* As long as no task is created, deleted or returns while the kernel      *)
(* runs: with semaphores, of any number, created and deleted at any time,  *)
(* the ready list, the timer lists and the status of the tasks stay in     *)
(* step, and no assertion of the kernel fails. For every number of tasks,  *)
(* every timeout, count and limit.                                         *)
(***************************************************************************)
EXTENDS Sem, TaskProofs

\* A thread that is in a take, or goes on with one after its yield, has a
\* semaphore; one that is not, goes on with its application. The words read
\* from wait lists hold tasks.
SemThreads == ThreadPart(TakeLabels, {"retake"})
TakePart ==
    /\ semOf \in [Prio -> Sems \cup {NULL}]
    /\ word \in [Prio -> SUBSET InstalledTasks]
    /\ back = [p \in Prio |-> Application]
    /\ \A t \in Prio :
           /\ after[t] = "retake" => pc[t] \in {"yield", "publish"}
           /\ (pc[t] \in TakeLabels \/ after[t] = "retake") => semOf[t] \in Sems

CountPart == /\ tasksCount \in 0..N /\ heap \in 0..HeapBlocks /\ heapDirty = FALSE
             /\ sems \in SUBSET Sems
             /\ semCount \in [Sems -> 0..SemLimit]
             /\ timeout \in [Prio -> 0..MaxDelay]

SInv == KernelParts /\ SemThreads /\ TakePart /\ CountPart
-----------------------------------------------------------------------------
LEMMA TakeLabelsOK ==
  /\ LabelsOK(TakeLabels, {"retake"})
  /\ TakeLabels = {"store", "group", "read", "write", "block", "retake"}
BY DEF LabelsOK, TakeLabels, TaskLabels

LEMMA ListFacts == Sems \subseteq List /\ NULL \notin Sems /\ Wild \notin Sems
BY SemsAssumption, PointerAssumption

LEMMA SInvTypes == SInv => SemTypeOK
<1> SUFFICES ASSUME SInv PROVE SemTypeOK
  OBVIOUS
<1>1. KernelTypeOK(TaskLabels \cup TakeLabels)
  BY TakeLabelsOK, PartsTypes DEF SInv, SemThreads
<1>2. InstalledTasks \in SUBSET Prio
  BY DEF InstalledTasks
<1>3. word \in [Prio -> SUBSET Prio] /\ semOf \in [Prio -> Sems \cup {NULL}]
  BY <1>2 DEF SInv, TakePart
<1>4. back \in [Prio -> [key : TaskLabels, none : TaskLabels]]
  BY DEF SInv, TakePart, Application, TaskLabels
<1> QED  BY <1>1, <1>3, <1>4 DEF SInv, SemTypeOK, CountPart, SemThreads, ThreadPart

LEMMA SInvProperties == SInv => ReadyIffUnblocked /\ SleepersCount /\ NoFault
<1> SUFFICES ASSUME SInv PROVE ReadyIffUnblocked /\ SleepersCount /\ NoFault
  OBVIOUS
<1>1. NoFault
  BY TakeLabelsOK, PartsTypes DEF SInv, SemThreads
<1> QED  BY <1>1 DEF SInv, KernelParts, ReadyPart, TimerPart

LEMMA SInit == SemInit => SInv
<1> SUFFICES ASSUME SemInit PROVE SInv
  OBVIOUS
<1>1. Init
  BY DEF SemInit
<1>2. KernelParts /\ SemThreads /\ heapDirty = FALSE
  BY <1>1, InitParts DEF SemThreads
<1>3. TakePart
  BY <1>1 DEF Init, KernelInit, SemInit, TakePart, TakeLabels
<1>4. CountPart
  <2>1. 0 \in 0..MaxDelay
    BY DelayAssumption
  <2>2. tasksCount \in 0..N /\ heap \in 0..HeapBlocks
    BY <1>1, InitInv DEF Inv, TypeOK
  <2> QED  BY <1>2, <2>1, <2>2, SemsAssumption, SemLimitAssumption DEF SemInit, CountPart
<1> QED  BY <1>2, <1>3, <1>4 DEF SInv
-----------------------------------------------------------------------------
(* What a step leaves alone stays in order                                 *)

LEMMA CountKept ==
  ASSUME CountPart, UNCHANGED <<taskVars, sems, semCount, timeout>>
  PROVE  CountPart'
BY DEF CountPart, taskVars

LEMMA TakeKept ==
  ASSUME SemThreads, TakePart, UNCHANGED <<tcbPtrTbl, semOf, word, back>>,
         \A p \in Prio : Moves(p)
  PROVE  TakePart'
<1>1. ASSUME NEW t \in Prio
      PROVE  /\ after'[t] = "retake" => pc'[t] \in {"yield", "publish"}
             /\ (pc'[t] \in TakeLabels \/ after'[t] = "retake") => semOf[t] \in Sems
  <2>1. after[t] \in {"run", "retake"} /\ Moves(t)
    BY DEF SemThreads, ThreadPart
  <2> QED  BY <2>1 DEF TakePart, Moves, TakeLabels
<1> QED  BY <1>1, SameTasks DEF TakePart

LEMMA StutterSInv ==
  ASSUME SInv, UNCHANGED allVars
  PROVE  SInv'
<1>1. UNCHANGED <<lists, objects, cpu, threads, taskVars, arg, semVars>>
  BY DEF allVars, vars, kernelVars
<1>2. KernelParts' /\ SemThreads' /\ \A p \in Prio : Moves(p)
  BY <1>1, PartsKept, ThreadsKept DEF SInv, SemThreads, objects
<1>3. TakePart' /\ CountPart'
  BY <1>1, <1>2, TakeKept, CountKept DEF SInv, semVars, objects
<1> QED  BY <1>2, <1>3 DEF SInv

\* The tasks' own calls and the interrupts.
LEMMA NextSInv ==
  ASSUME Api \subseteq TimingCalls, SInv, Next, UNCHANGED semVars
  PROVE  SInv'
<1>1. KernelParts' /\ SemThreads' /\ UNCHANGED <<tcbPtrTbl, taskVars>> /\ \A p \in Prio : Moves(p)
  <2>1. KernelParts /\ ThreadPart(TakeLabels, {"retake"})
    BY DEF SInv, SemThreads
  <2> QED  BY <2>1, TakeLabelsOK, TaskStep DEF SemThreads
<1>2. TakePart' /\ CountPart'
  BY <1>1, TakeKept, CountKept DEF SInv, semVars
<1> QED  BY <1>1, <1>2 DEF SInv

\* A thread goes from one label to another, within a take or not.
LEMMA SemThreadStep ==
  ASSUME SemThreads, TakePart, NEW t \in Prio, t # IdlePrio,
         NEW label \in {"run", "yield"} \cup TakeLabels, Goto(t, label),
         UNCHANGED <<tcbPtrTbl, yieldPrio, arg>>,
         semOf' \in [Prio -> Sems \cup {NULL}], \A p \in Prio \ {t} : semOf'[p] = semOf[p],
         word' \in [Prio -> SUBSET InstalledTasks],
         back' = [p \in Prio |-> Application],
         label \in TakeLabels => semOf'[t] \in Sems,
         \/ UNCHANGED after /\ after[t] # "retake"
         \/ after' = [after EXCEPT ![t] = "retake"] /\ label = "yield" /\ semOf'[t] \in Sems
  PROVE  SemThreads' /\ TakePart'
<1>1. after' \in [Prio -> {"run", "retake"}] /\ \A p \in Prio \ {t} : after'[p] = after[p]
  BY DEF SemThreads, ThreadPart
<1>2. label \in TimingPlaces \cup TakeLabels /\ label \notin {"suspend", "resume"}
  BY DEF TimingPlaces, TakeLabels
<1>3. SemThreads'
  <2>1. arg' \in [Prio -> Prio] /\ \A p \in Prio \ {t} : arg'[p] = arg[p]
    BY DEF SemThreads, ThreadPart
  <2>2. after' \in [Prio -> {"run"} \cup {"retake"}]
    BY <1>1
  <2> QED  BY <1>2, <2>1, <2>2, ThreadStep DEF SemThreads
<1>4. pc'[t] = label /\ \A p \in Prio \ {t} : pc'[p] = pc[p]
  BY DEF SemThreads, ThreadPart, Goto
<1>5. ASSUME NEW p \in Prio
      PROVE  /\ after'[p] = "retake" => pc'[p] \in {"yield", "publish"}
             /\ (pc'[p] \in TakeLabels \/ after'[p] = "retake") => semOf'[p] \in Sems
  <2>1. CASE p # t
    BY <1>1, <1>4, <2>1 DEF TakePart
  <2>2. CASE p = t /\ after[t] # "retake" /\ UNCHANGED after
    BY <1>4, <2>2
  <2>3. CASE p = t /\ label = "yield" /\ semOf'[t] \in Sems
    BY <1>4, <2>3
  <2> QED  BY <2>1, <2>2, <2>3
<1> QED  BY <1>3, <1>5, SameTasks DEF TakePart

\* A thread outside of a yield goes on with no take when it has yielded.
LEMMA NoRetake ==
  ASSUME TakePart, NEW t \in Prio, pc[t] \notin {"yield", "publish"}
  PROVE  after[t] # "retake"
BY DEF TakePart

\* The thread that takes a step, as Runner has it.
LEMMA SemRunner ==
  ASSUME SInv, NEW t \in Prio, Runs(t)
  PROVE  /\ t \in InstalledTasks /\ tick = "off" /\ (pc[t] # "run" => t # IdlePrio)
         /\ pc[t] \in TakeLabels => semOf[t] \in Sems /\ semOf[t] \in List
<1>1. t \in InstalledTasks /\ tick = "off" /\ (pc[t] # "run" => t # IdlePrio)
  BY Runner DEF SInv, SemThreads
<1> QED  BY <1>1, ListFacts DEF SInv, TakePart
-----------------------------------------------------------------------------
(* uLipeSemTake                                                            *)

LEMMA TakeSInv ==
  ASSUME SInv, NEW t \in Prio, NEW s \in sems, NEW ticks \in 0..MaxDelay, Take(t, s, ticks)
  PROVE  SInv'
<1>0. SemThreads /\ TakePart /\ CountPart
  BY DEF SInv
<1>1. pc[t] = "run" /\ t # IdlePrio /\ s \in Sems
  BY <1>0 DEF Take, SemCalls, At, CountPart
<1>2. after[t] # "retake"
  BY <1>0, <1>1, NoRetake
<1>3. UNCHANGED <<lists, objects, cpu, yieldPrio, after, taskVars, arg, sems, word>>
  BY DEF Take, TakeFrom
<1>4. KernelParts' /\ UNCHANGED tcbPtrTbl
  BY <1>3, PartsKept DEF SInv, objects
<1>5. word' \in [Prio -> SUBSET InstalledTasks] /\ UNCHANGED <<tcbPtrTbl, yieldPrio, arg, after>>
  BY <1>0, <1>3, <1>4 DEF TakePart
<1>6. CASE semCount[s] > 0
  <2>1. /\ semCount' = [semCount EXCEPT ![s] = @ - 1]
        /\ Goto(t, "run") /\ UNCHANGED <<semOf, timeout, back>>
    BY <1>6 DEF Take, TakeFrom, Application
  <2>2. CountPart'
    <3>1. semCount[s] \in 0..SemLimit /\ SemLimit \in Nat
      BY <1>0, <1>1, SemLimitAssumption DEF CountPart
    <3>2. semCount[s] - 1 \in 0..SemLimit
      BY <1>6, <3>1
    <3> QED  BY <1>0, <1>3, <2>1, <3>2 DEF CountPart, taskVars
  <2>3. SemThreads' /\ TakePart'
    <3>1. "run" \in {"run", "yield"} \cup TakeLabels /\ "run" \notin TakeLabels
      BY DEF TakeLabels
    <3>2. semOf' \in [Prio -> Sems \cup {NULL}] /\ back' = [p \in Prio |-> Application]
      BY <1>0, <2>1 DEF TakePart
    <3> QED  BY <1>0, <1>1, <1>2, <1>5, <2>1, <3>1, <3>2, SemThreadStep
  <2> QED  BY <1>4, <2>2, <2>3 DEF SInv
<1>7. CASE ~(semCount[s] > 0)
  <2>1. /\ Goto(t, "store") /\ semOf' = [semOf EXCEPT ![t] = s]
        /\ timeout' = [timeout EXCEPT ![t] = ticks]
        /\ back' = [back EXCEPT ![t] = Application] /\ UNCHANGED semCount
    BY <1>7 DEF Take, TakeFrom
  <2>2. CountPart'
    BY <1>0, <1>3, <2>1 DEF CountPart, taskVars
  <2>3. SemThreads' /\ TakePart'
    <3>1. "store" \in {"run", "yield"} \cup TakeLabels
      BY DEF TakeLabels
    <3>2. /\ semOf' \in [Prio -> Sems \cup {NULL}]
          /\ semOf'[t] = s /\ \A p \in Prio \ {t} : semOf'[p] = semOf[p]
          /\ back' = [p \in Prio |-> Application]
      BY <1>0, <1>1, <2>1 DEF TakePart
    <3> QED  BY <1>0, <1>1, <1>2, <1>5, <2>1, <3>1, <3>2, SemThreadStep
  <2> QED  BY <1>4, <2>2, <2>3 DEF SInv
<1> QED  BY <1>6, <1>7

LEMMA EntrySInv ==
  ASSUME SInv, NEW t \in Prio, TakeStore(t) \/ TakeGroup(t) \/ TakeRead(t) \/ TakeWrite(t)
  PROVE  SInv'
<1>0. /\ TablePart /\ ReadyPart /\ TimerPart /\ ListPart /\ CpuPart
      /\ SemThreads /\ TakePart /\ CountPart
  BY DEF SInv, KernelParts
<1>1. Runs(t) /\ pc[t] \in TakeLabels /\ pc[t] \notin {"yield", "publish", "run"}
      /\ \E label \in TakeLabels : Goto(t, label)
  BY DEF TakeStore, TakeGroup, TakeRead, TakeWrite, At, TakeLabels
<1>2. t # IdlePrio /\ semOf[t] \in Sems /\ t \in InstalledTasks /\ semOf[t] \in List
      /\ after[t] # "retake"
  BY <1>0, <1>1, SemRunner, NoRetake
<1>3. /\ UNCHANGED <<lists, tcbPtrTbl, taskStatus, delayTime, cpu, yieldPrio, after, taskVars>>
      /\ UNCHANGED <<arg, sems, semCount, semOf, timeout, back>>
  BY DEF TakeStore, TakeGroup, TakeRead, TakeWrite, objects, tcb, semVars
<1>4. TablePart' /\ ReadyPart' /\ TimerPart' /\ CpuPart' /\ CountPart'
  BY <1>0, <1>3, SameTasks, ReadyKept, TimerKept, CpuKept, CountKept
  DEF cpu, lists, Sleeps
<1>5. ListPart' /\ word' \in [Prio -> SUBSET InstalledTasks]
  <2>0. /\ waitList \in [List -> [prioGrp : BOOLEAN, prioTbl : SUBSET InstalledTasks]]
        /\ word \in [Prio -> SUBSET InstalledTasks]
        /\ bmp \in [Prio -> [Bmp -> List \cup {NULL}]]
        /\ InstalledTasks' = InstalledTasks
    BY <1>0, <1>3, SameTasks DEF ListPart, TakePart
  <2>1. CASE TakeStore(t)
    <3>1. bmp' \in [Prio -> [Bmp -> List \cup {NULL}]] /\ UNCHANGED <<waitList, word>>
      BY <1>2, <2>0, <2>1 DEF TakeStore, semVars
    <3> QED  BY <2>0, <3>1 DEF ListPart
  <2>2. CASE TakeGroup(t)
    <3>1. /\ waitList' \in [List -> [prioGrp : BOOLEAN, prioTbl : SUBSET InstalledTasks]]
          /\ UNCHANGED <<bmp, word>>
      BY <1>2, <2>0, <2>2 DEF TakeGroup, tcb, semVars
    <3> QED  BY <2>0, <3>1 DEF ListPart
  <2>3. CASE TakeRead(t)
    <3>1. word' \in [Prio -> SUBSET InstalledTasks] /\ UNCHANGED <<bmp, waitList>>
      BY <1>2, <2>0, <2>3 DEF TakeRead, objects, tcb
    <3> QED  BY <2>0, <3>1 DEF ListPart
  <2>4. CASE TakeWrite(t)
    <3>1. word[t] \cup {t} \in SUBSET InstalledTasks
      BY <1>2, <2>0
    <3>2. waitList' \in [List -> [prioGrp : BOOLEAN, prioTbl : SUBSET InstalledTasks]]
      BY <1>2, <2>0, <2>4, <3>1 DEF TakeWrite
    <3>3. word' \in [Prio -> SUBSET InstalledTasks] /\ UNCHANGED bmp
      BY <2>0, <2>4 DEF TakeWrite, tcb
    <3> QED  BY <2>0, <3>2, <3>3 DEF ListPart
  <2> QED  BY <2>1, <2>2, <2>3, <2>4
<1>6. SemThreads' /\ TakePart'
  <2>1. PICK label \in TakeLabels : Goto(t, label)
    BY <1>1
  <2>2. label \in {"run", "yield"} \cup TakeLabels
    OBVIOUS
  <2>3. semOf' \in [Prio -> Sems \cup {NULL}] /\ back' = [p \in Prio |-> Application]
        /\ UNCHANGED <<tcbPtrTbl, yieldPrio, arg, after, semOf>>
    BY <1>0, <1>3 DEF TakePart
  <2> QED  BY <1>0, <1>2, <1>5, <2>1, <2>2, <2>3, SemThreadStep
<1> QED  BY <1>4, <1>5, <1>6 DEF SInv, KernelParts

LEMMA TakeBlockSInv ==
  ASSUME SInv, NEW t \in Prio, TakeBlock(t)
  PROVE  SInv'
<1>0. TablePart /\ ListPart /\ CpuPart /\ SemThreads /\ TakePart /\ CountPart
  BY DEF SInv, KernelParts
<1>1. /\ Runs(t) /\ pc[t] = "block" /\ Goto(t, "yield") /\ Unready(t)
      /\ after' = [after EXCEPT ![t] = "retake"]
      /\ UNCHANGED <<activeList, tcbPtrTbl, bmp, waitList, cpu, yieldPrio, taskVars, arg, semVars>>
  BY DEF TakeBlock, At
<1>2. t # IdlePrio /\ semOf[t] \in Sems /\ t \in InstalledTasks /\ tick = "off"
  BY <1>1, SemRunner DEF TakeLabels
<1>3. ReadyPart' /\ TimerPart'
  <2>1. UNCHANGED <<tick, irqCounter>> /\ timeout[t] \in 0..MaxDelay /\ KernelParts
    BY <1>0, <1>1 DEF cpu, CountPart, SInv
  <2>2. CASE timeout[t] = 0
    <3>1. /\ taskStatus' = [taskStatus EXCEPT ![t] = @ \cup {"PendSem"}]
          /\ UNCHANGED <<delayTime, timerPendingList>>
      BY <2>2 DEF TakeBlock
    <3>2. {"PendSem"} \in SUBSET Status /\ {"PendSem"} # {} /\ "PendDelay" \notin {"PendSem"}
      BY DEF Status
    <3> QED  BY <1>1, <1>2, <2>1, <3>1, <3>2, BlockedParts
  <2>3. CASE timeout[t] # 0
    <3>1. /\ taskStatus' = [taskStatus EXCEPT ![t] = @ \cup {"PendSem", "PendDelay"}]
          /\ delayTime' = [delayTime EXCEPT ![t] = timeout[t]]
          /\ timerPendingList' = [timerPendingList EXCEPT ![activeList] = @ \cup {t}]
      BY <2>3 DEF TakeBlock, CountTicks
    <3>2. timeout[t] \in 1..MaxDelay
      BY <2>1, <2>3, DelayAssumption
    <3>3. {"PendSem", "PendDelay"} \in SUBSET Status /\ {"PendSem", "PendDelay"} # {}
      BY DEF Status
    <3> QED  BY <1>1, <1>2, <2>1, <3>1, <3>2, <3>3, BlockedParts
  <2> QED  BY <2>2, <2>3
<1>4. SemThreads' /\ TakePart'
  <2>1. "yield" \in {"run", "yield"} \cup TakeLabels /\ "yield" \notin TakeLabels
    BY DEF TakeLabels
  <2>2. /\ semOf' \in [Prio -> Sems \cup {NULL}] /\ word' \in [Prio -> SUBSET InstalledTasks]
        /\ back' = [p \in Prio |-> Application] /\ UNCHANGED <<arg, semOf>>
    BY <1>0, <1>1 DEF TakePart, semVars
  <2> QED  BY <1>0, <1>1, <1>2, <2>1, <2>2, SemThreadStep
<1>5. TablePart' /\ ListPart' /\ CpuPart' /\ CountPart'
  BY <1>0, <1>1, SameTasks, ListKept, CpuKept, CountKept DEF semVars, cpu
<1> QED  BY <1>3, <1>4, <1>5 DEF SInv, KernelParts

LEMMA RetakeSInv ==
  ASSUME SInv, NEW t \in Prio, Retake(t)
  PROVE  SInv'
<1>0. SemThreads /\ TakePart /\ CountPart
  BY DEF SInv
<1>1. Runs(t) /\ pc[t] = "retake"
  BY DEF Retake, At
<1>2. t # IdlePrio /\ semOf[t] \in Sems /\ after[t] # "retake" /\ back[t] = Application
  BY <1>0, <1>1, SemRunner, NoRetake DEF TakePart, TakeLabels
<1>3. /\ semOf' = [semOf EXCEPT ![t] = NULL] /\ timeout' = [timeout EXCEPT ![t] = 0]
      /\ back' = [back EXCEPT ![t] = Application] /\ Goto(t, "run")
      /\ semCount' = [semCount EXCEPT ![semOf[t]] = IF @ > 0 THEN @ - 1 ELSE @]
      /\ UNCHANGED <<lists, objects, cpu, yieldPrio, after, taskVars, arg, sems, word>>
  BY <1>2 DEF Retake, Application
<1>4. KernelParts' /\ UNCHANGED tcbPtrTbl
  BY <1>3, PartsKept DEF SInv, objects
<1>5. CountPart'
  <2>1. semCount[semOf[t]] \in 0..SemLimit /\ SemLimit \in Nat /\ 0 \in 0..MaxDelay
    BY <1>0, <1>2, SemLimitAssumption, DelayAssumption DEF CountPart
  <2>2. (IF semCount[semOf[t]] > 0 THEN semCount[semOf[t]] - 1 ELSE semCount[semOf[t]])
          \in 0..SemLimit
    BY <2>1
  <2>3. semCount' \in [Sems -> 0..SemLimit]
    BY <1>0, <1>2, <1>3, <2>2 DEF CountPart
  <2>4. timeout' \in [Prio -> 0..MaxDelay]
    BY <1>0, <1>3, <2>1 DEF CountPart
  <2> QED  BY <1>0, <1>3, <2>3, <2>4 DEF CountPart, taskVars
<1>6. SemThreads' /\ TakePart'
  <2>1. "run" \in {"run", "yield"} \cup TakeLabels /\ "run" \notin TakeLabels
    BY DEF TakeLabels
  <2>2. /\ semOf' \in [Prio -> Sems \cup {NULL}] /\ word' \in [Prio -> SUBSET InstalledTasks]
        /\ \A p \in Prio \ {t} : semOf'[p] = semOf[p]
        /\ back' = [p \in Prio |-> Application]
    BY <1>0, <1>3 DEF TakePart
  <2> QED  BY <1>0, <1>2, <1>3, <1>4, <2>1, <2>2, SemThreadStep
<1> QED  BY <1>4, <1>5, <1>6 DEF SInv
-----------------------------------------------------------------------------
(* uLipeSemGive, uLipeSemDelete, uLipeSemCreate                            *)

LEMMA GiveSInv ==
  ASSUME SInv, NEW t \in Prio, NEW s \in sems,
         \/ \E count \in 1..MaxGive : Give(t, s, count)
         \/ SemDelete(t, s)
  PROVE  SInv'
<1>0. TablePart /\ CpuPart /\ SemThreads /\ TakePart /\ CountPart /\ s \in Sems /\ s \in List
  BY ListFacts DEF SInv, KernelParts, CountPart
<1>1. /\ pc[t] = "run" /\ t # IdlePrio /\ Goto(t, "yield")
      /\ UNCHANGED <<timerPendingList, activeList, tcbPtrTbl, delayTime, bmp>>
      /\ UNCHANGED <<currentTask, highPrioTask, irqCounter, pendSV, tick>>
      /\ UNCHANGED <<yieldPrio, after, taskVars, arg, sems, semOf, timeout, word, back>>
  BY DEF Give, SemDelete, SemCalls, At, semVars
<1>2. waitList[s].prioTbl \in SUBSET InstalledTasks
      /\ \E waiters \in SUBSET waitList[s].prioTbl : Wake(Only(s, waiters), SemCauses)
  BY <1>0, WaitersAreTasks DEF Give, SemDelete, SInv
<1>3. ReadyPart' /\ TimerPart' /\ ListPart' /\ UNCHANGED halted
  <2>1. PICK waiters \in SUBSET waitList[s].prioTbl : Wake(Only(s, waiters), SemCauses)
    BY <1>2
  <2> DEFINE from == Only(s, waiters)
  <2>2. DOMAIN from \subseteq List /\ \A l \in DOMAIN from : from[l] \in SUBSET InstalledTasks
    <3>1. DOMAIN from = {s} /\ from[s] = waiters
      BY OnlyAll
    <3> HIDE DEF from
    <3> QED  BY <1>0, <1>2, <3>1
  <2>3. KernelParts /\ Wake(from, SemCauses)
    BY <2>1 DEF SInv
  <2> HIDE DEF from
  <2> QED  BY <1>1, <2>2, <2>3, WakeParts
<1>4. CountPart'
  <2>1. CASE SemDelete(t, s)
    BY <1>0, <1>1, <2>1, CountKept DEF SemDelete, semVars
  <2>2. ASSUME NEW count \in 1..MaxGive, Give(t, s, count) PROVE CountPart'
    <3>1. /\ semCount[s] \in 0..SemLimit /\ SemLimit \in Nat /\ MaxGive \in Nat
          /\ semCount' = [semCount EXCEPT ![s] = Keys(s, count)]
      BY <1>0, <2>2, SemLimitAssumption DEF CountPart, Give
    <3>2. Keys(s, count) \in 0..SemLimit
      BY <3>1 DEF Keys
    <3> QED  BY <1>0, <1>1, <3>1, <3>2 DEF CountPart, taskVars
  <2> QED  BY <2>1, <2>2
<1>5. SemThreads' /\ TakePart'
  <2>1. "yield" \in {"run", "yield"} \cup TakeLabels /\ "yield" \notin TakeLabels
    BY DEF TakeLabels
  <2>2. /\ semOf' \in [Prio -> Sems \cup {NULL}] /\ word' \in [Prio -> SUBSET InstalledTasks]
        /\ back' = [p \in Prio |-> Application] /\ after[t] # "retake"
    BY <1>0, <1>1, NoRetake DEF TakePart
  <2> QED  BY <1>0, <1>1, <2>1, <2>2, SemThreadStep
<1>6. TablePart' /\ CpuPart'
  BY <1>0, <1>1, <1>3, SameTasks, CpuKept
<1> QED  BY <1>3, <1>4, <1>5, <1>6 DEF SInv, KernelParts

LEMMA CreateSInv ==
  ASSUME SInv, NEW t \in Prio, NEW s \in Sems, SemCreate(t, s)
  PROVE  SInv'
<1>0. /\ TablePart /\ ReadyPart /\ TimerPart /\ ListPart /\ CpuPart
      /\ SemThreads /\ TakePart /\ CountPart
  BY DEF SInv, KernelParts
<1>1. heapDirty = FALSE /\ s \in List
  BY <1>0, ListFacts DEF CountPart
<1>2. /\ heap < HeapBlocks /\ heap' = heap + 1 /\ sems' = sems \cup {s}
      /\ semCount' = [semCount EXCEPT ![s] = InitCount]
      /\ waitList' = [waitList EXCEPT ![s] = EmptyList]
      /\ UNCHANGED <<lists, tcbPtrTbl, tcb, cpu, yieldPrio, after, tasksCount, heapDirty, arg>>
      /\ UNCHANGED <<semOf, timeout, word, back, pc>>
  BY <1>1 DEF SemCreate, NewSem
<1>3. ListPart'
  <2>1. EmptyList \in [prioGrp : BOOLEAN, prioTbl : SUBSET InstalledTasks]
    BY DEF EmptyList
  <2>2. waitList' \in [List -> [prioGrp : BOOLEAN, prioTbl : SUBSET InstalledTasks]]
    BY <1>0, <1>2, <2>1 DEF ListPart
  <2> QED  BY <1>0, <1>2, <2>2, SameTasks DEF ListPart, tcb
<1>4. CountPart'
  <2>1. heap' \in 0..HeapBlocks
    <3>1. heap \in 0..HeapBlocks /\ HeapBlocks \in Nat
      BY <1>0, HeapAssumption DEF CountPart
    <3> QED  BY <1>2, <3>1
  <2>2. semCount' \in [Sems -> 0..SemLimit] /\ sems' \in SUBSET Sems
    BY <1>0, <1>2, SemLimitAssumption DEF CountPart
  <2> QED  BY <1>0, <1>2, <2>1, <2>2 DEF CountPart
<1>5. SemThreads' /\ TakePart'
  <2>1. SemThreads' /\ \A p \in Prio : Moves(p)
    BY <1>0, <1>2, ThreadsKept DEF SemThreads, threads
  <2> QED  BY <1>0, <1>2, <2>1, TakeKept
<1>6. TablePart' /\ ReadyPart' /\ TimerPart' /\ CpuPart'
  BY <1>0, <1>2, SameTasks, ReadyKept, TimerKept, CpuKept DEF cpu, lists, tcb, Sleeps
<1> QED  BY <1>3, <1>4, <1>5, <1>6 DEF SInv, KernelParts
-----------------------------------------------------------------------------
(* The specification                                                       *)

LEMMA StepSInv ==
  ASSUME Api \subseteq TimingCalls, SInv, [SemNext]_allVars
  PROVE  SInv'
<1>1. CASE Next /\ UNCHANGED semVars
  BY <1>1, NextSInv
<1>2. ASSUME NEW t \in Prio, TakeProceeds(t) PROVE SInv'
  BY <1>2, EntrySInv, TakeBlockSInv, RetakeSInv DEF TakeProceeds
<1>3. ASSUME NEW t \in Prio, SemCall(t) PROVE SInv'
  BY <1>3, TakeSInv, GiveSInv, CreateSInv DEF SemCall
<1>4. CASE UNCHANGED allVars
  BY <1>4, StutterSInv
<1> QED  BY <1>1, <1>2, <1>3, <1>4 DEF SemNext

\* The invariant is one of the specification.
LEMMA SemInvariance == Api \subseteq TimingCalls => (SemSpec => []SInv)
<1> SUFFICES ASSUME Api \subseteq TimingCalls PROVE SemSpec => []SInv
  OBVIOUS
<1>1. SInv /\ [SemNext]_allVars => SInv'
  BY StepSInv
<1> QED  BY <1>1, SInit, PTL DEF SemSpec

\* Type correctness with semaphores: their keys stay between 0 and the limit,
\* every place a take is interrupted at included.
THEOREM SemTypeCorrect == Api \subseteq TimingCalls => (SemSpec => []SemTypeOK)
<1> SUFFICES ASSUME Api \subseteq TimingCalls PROVE SemSpec => []SemTypeOK
  OBVIOUS
<1> QED  BY SemInvariance, SInvTypes, PTL

\* A task is in the ready list exactly when nothing blocks it: uLipeSemTake
\* and uLipeSemGive keep what uLipeTaskDelay and the tick established, though
\* the wait list itself is written unprotected.
THEOREM SemReadyCorrect == Api \subseteq TimingCalls => (SemSpec => []ReadyIffUnblocked)
<1> SUFFICES ASSUME Api \subseteq TimingCalls PROVE SemSpec => []ReadyIffUnblocked
  OBVIOUS
<1> QED  BY SemInvariance, SInvProperties, PTL

\* The timer entries that uLipeSemGive leaves behind harm neither a sleeper,
\* which always counts, nor the two lists, which stay disjoint.
THEOREM SleepersCorrect == Api \subseteq TimingCalls => (SemSpec => []SleepersCount)
<1> SUFFICES ASSUME Api \subseteq TimingCalls PROVE SemSpec => []SleepersCount
  OBVIOUS
<1> QED  BY SemInvariance, SInvProperties, PTL

\* No assertion of the kernel fails and no null or wild pointer is followed,
\* by a tick that meets such an entry or by a give whose list lost a waiter.
THEOREM SemFaultFree == Api \subseteq TimingCalls => (SemSpec => []NoFault)
<1> SUFFICES ASSUME Api \subseteq TimingCalls PROVE SemSpec => []NoFault
  OBVIOUS
<1> QED  BY SemInvariance, SInvProperties, PTL
=============================================================================
