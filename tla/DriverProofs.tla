---------------------------- MODULE DriverProofs ----------------------------
(***************************************************************************)
(* Tasks that share a device: whoever locks it is still there to unlock    *)
(* it, and a read from the bus that reports success has its data. For      *)
(* every number of tasks and semaphores, every timeout, count and limit.   *)
(***************************************************************************)
EXTENDS Driver, TaskProofs

\* The places a thread can be at.
DriverPlaces == {"run", "suspend", "resume", "yield", "publish", "trapped"}
                \cup TakeLabels \cup DeviceLabels

\* The ready list names tasks only, although the device's interrupt may lose
\* one of its bits.
ReadyTasks == TablePart /\ taskPrioList \in SUBSET InstalledTasks

\* What a driver's call in progress can be about.
Jobs == {NoJob} \cup [op : {"tx", "rx", "config", "poll", "enable", "disable"},
                      ticks : 0..MaxDelay]

SemTypes == /\ sems \in SUBSET Sems
            /\ semCount \in [Sems -> 0..SemLimit]
            /\ semOf \in [Prio -> Sems \cup {NULL}]
            /\ timeout \in [Prio -> 0..MaxDelay]
            /\ word \in [Prio -> SUBSET Prio]

DeviceTypes == /\ kind \in Kinds
               /\ deviceSync \in Sems \cup {NULL}
               /\ opened \in SUBSET Prio /\ refCount = Cardinality(opened)
               /\ sucess \in SUBSET Direction
               /\ transfer \in [Direction -> Prio \cup {NULL}]
               /\ enabled \in BOOLEAN /\ busy \in BOOLEAN /\ master \in BOOLEAN /\ irq \in BOOLEAN
               /\ job \in [Prio -> Jobs]

\* A thread that takes a key, or will go on with that after its yield, goes
\* back into the driver's call exactly if it is in one.
Taking(t) == pc[t] \in TakeLabels \/ after[t] = "retake"
Caller(t) ==
    /\ after[t] \in {"run", "retake"}
    /\ after[t] = "retake" => pc[t] \in {"yield", "publish"}
    /\ Taking(t) => /\ semOf[t] \in Sems
                    /\ back[t] = IF job[t] # NoJob THEN Transfer ELSE Application
    /\ pc[t] \in {"run", "suspend", "resume", "open"} => job[t] = NoJob
    /\ pc[t] \in {"yield", "publish"} /\ after[t] = "run" => job[t] = NoJob
    /\ pc[t] \in {"lock", "locked", "sync", "done", "timedout"} => job[t] # NoJob
    /\ pc[t] = "open" => t \notin opened
Callers == /\ back \in [Prio -> {Application, Transfer}]
           /\ \A t \in Prio : Caller(t)

DInv == /\ KernelTypes /\ ThreadTypes(DriverPlaces) /\ ReadyTasks
        /\ SemTypes /\ DeviceTypes /\ Callers /\ LockHasHolder
-----------------------------------------------------------------------------
LEMMA DriverPlacesOK ==
  /\ TypesLabels(DriverPlaces)
  /\ DriverPlaces = {"run", "suspend", "resume", "yield", "publish", "trapped",
                     "store", "group", "read", "write", "block", "retake",
                     "open", "lock", "locked", "sync", "done", "timedout"}
  /\ TakeLabels = {"store", "group", "read", "write", "block", "retake"}
BY DEF TypesLabels, DriverPlaces, TakeLabels, DeviceLabels

LEMMA SemFacts == Sems \subseteq List /\ NULL \notin Sems /\ NULL \notin Prio
<1>1. Sems \subseteq List /\ NULL \notin Sems
  BY SemsAssumption, PointerAssumption
<1> QED  BY <1>1, PointerAssumption DEF Prio

LEMMA DInvTypes == DInv => DriverTypeOK
<1> SUFFICES ASSUME DInv PROVE DriverTypeOK
  OBVIOUS
<1> DEFINE Labels == TaskLabels \cup TakeLabels \cup DeviceLabels
<1>1. KernelTypeOK(Labels)
  <2>1. DriverPlaces \subseteq Labels
    BY DEF DriverPlaces, TaskLabels
  <2> HIDE DEF Labels
  <2>2. pc \in [Prio -> Labels] /\ after \in [Prio -> Labels] /\ yieldPrio \in [Prio -> Prio]
    BY <2>1 DEF DInv, ThreadTypes
  <2>3. ListTypes /\ TaskTypes /\ WaitTypes /\ CpuTypes
    BY DEF DInv, KernelTypes
  <2> QED  BY <2>2, <2>3 DEF ListTypes, TaskTypes, WaitTypes, CpuTypes, KernelTypeOK
<1> QED  BY <1>1 DEF DInv, SemTypes, DeviceTypes, DriverTypeOK

LEMMA DInitInv == DriverInit => DInv
<1> SUFFICES ASSUME DriverInit PROVE DInv
  OBVIOUS
<1>1. SemInit /\ Init /\ KernelInit(Boot)
  BY DEF DriverInit, DeviceInit, SemInit, Init
<1>2. Inv
  BY <1>1, InitInv
<1>3. TypeOK /\ KernelTypeOK(TaskLabels) /\ arg \in [Prio -> Prio]
  BY <1>2 DEF Inv, TypeOK
<1>4. KernelTypes
  BY <1>3 DEF KernelTypeOK, KernelTypes, ListTypes, TaskTypes, WaitTypes, CpuTypes
<1>5. pc = [p \in Prio |-> "run"] /\ after = [p \in Prio |-> "run"]
  BY <1>1 DEF KernelInit
<1>6. ThreadTypes(DriverPlaces)
  <2>1. yieldPrio \in [Prio -> Prio]
    BY <1>3 DEF KernelTypeOK
  <2> QED  BY <1>3, <1>5, <2>1, DriverPlacesOK DEF ThreadTypes
<1>7. ReadyTasks
  <2>1. KernelParts
    BY <1>1, InitParts
  <2> QED
    BY <2>1 DEF KernelParts, ReadyPart, ReadyIffUnblocked, ReadyTasks, InstalledTasks
<1>8. SemTypes
  <2>1. 0 \in 0..MaxDelay
    BY DelayAssumption
  <2> QED  BY <1>1, <2>1, SemsAssumption, SemLimitAssumption DEF SemInit, SemTypes
<1>9. DeviceTypes /\ busy = FALSE /\ job = [p \in Prio |-> NoJob] /\ opened = {}
  <2>1. Cardinality({}) = 0
    BY FS_EmptySet
  <2> QED  BY <2>1 DEF DriverInit, DeviceInit, DeviceTypes, Idle, Jobs
<1>10. Callers
  <2>1. back = [p \in Prio |-> Application]
    BY <1>1 DEF SemInit
  <2> QED  BY <1>5, <1>9, <2>1, DriverPlacesOK DEF Callers, Caller, Taking
<1>11. LockHasHolder
  BY <1>9 DEF LockHasHolder
<1> QED  BY <1>4, <1>6, <1>7, <1>8, <1>9, <1>10, <1>11 DEF DInv
-----------------------------------------------------------------------------
(* What a step leaves alone stays in order                                 *)

\* A thread whose call will unlock the device.
Holds(t) == job[t] # NoJob /\ pc[t] # "lock"

\* One thread takes a step.
LEMMA CallersStep ==
  ASSUME Callers, LockHasHolder, NEW t \in Prio,
         \A p \in Prio \ {t} : /\ pc'[p] = pc[p] /\ after'[p] = after[p]
                               /\ semOf'[p] = semOf[p] /\ back'[p] = back[p] /\ job'[p] = job[p],
         opened' \subseteq opened \cup {t},
         back' \in [Prio -> {Application, Transfer}], Caller(t)',
         busy' => busy \/ Holds(t)', busy' /\ Holds(t) => Holds(t)'
  PROVE  Callers' /\ LockHasHolder'
<1>1. ASSUME NEW p \in Prio PROVE Caller(p)'
  <2>1. CASE p = t
    BY <2>1
  <2>2. CASE p # t
    <3>1. Caller(p) /\ (p \in opened' => p \in opened)
      BY <2>2 DEF Callers
    <3> QED  BY <2>2, <3>1 DEF Caller, Taking
  <2> QED  BY <2>1, <2>2
<1>2. LockHasHolder'
  <2> SUFFICES ASSUME busy' PROVE \E p \in Prio : Holds(p)'
    BY DEF LockHasHolder, Holds
  <2>1. CASE Holds(t)'
    BY <2>1
  <2>2. CASE ~Holds(t)'
    <3>1. busy /\ ~Holds(t)
      BY <2>2
    <3>2. PICK p \in Prio : Holds(p)
      BY <3>1 DEF LockHasHolder, Holds
    <3>3. p # t /\ Holds(p)'
      BY <3>1, <3>2 DEF Holds
    <3> QED  BY <3>3
  <2> QED  BY <2>1, <2>2
<1> QED  BY <1>1, <1>2 DEF Callers

LEMMA CallersKept ==
  ASSUME Callers, LockHasHolder, UNCHANGED <<threads, semOf, back, opened, busy, job>>
  PROVE  Callers' /\ LockHasHolder'
BY DEF Callers, Caller, Taking, LockHasHolder, threads

LEMMA SemTypesKept ==
  ASSUME SemTypes, UNCHANGED semVars
  PROVE  SemTypes'
BY DEF SemTypes, semVars

LEMMA DeviceTypesKept ==
  ASSUME DeviceTypes, UNCHANGED deviceVars
  PROVE  DeviceTypes'
BY DEF DeviceTypes, deviceVars, handle, custom, hardware

LEMMA ReadyTasksKept ==
  ASSUME ReadyTasks, UNCHANGED tcbPtrTbl, taskPrioList' \subseteq taskPrioList
  PROVE  ReadyTasks'
BY SameTasks DEF ReadyTasks

LEMMA StutterDInv ==
  ASSUME DInv, UNCHANGED everything
  PROVE  DInv'
<1>1. /\ UNCHANGED <<lists, objects, cpu>> /\ UNCHANGED <<threads, arg>> /\ UNCHANGED semVars
      /\ UNCHANGED deviceVars
  BY DEF everything, allVars, vars, kernelVars
<1>2. KernelTypes' /\ ThreadTypes(DriverPlaces)' /\ SemTypes' /\ DeviceTypes'
  BY <1>1, SameTypes, SameThreads, SemTypesKept, DeviceTypesKept DEF DInv
<1>3. ReadyTasks'
  BY <1>1, ReadyTasksKept DEF DInv, lists, objects
<1>4. Callers' /\ LockHasHolder'
  BY <1>1, CallersKept DEF DInv, semVars, deviceVars, handle, custom
<1> QED  BY <1>2, <1>3, <1>4 DEF DInv
-----------------------------------------------------------------------------
(* The interrupts of the kernel and the tasks' own calls                   *)

LEMMA EntryReady ==
  ASSUME ReadyTasks, NEW i \in Prio,
         TickExpire(i) \/ TickForget(i) \/ TickKeep(i) \/ TickFault(i), UNCHANGED tcbPtrTbl
  PROVE  ReadyTasks'
<1>1. tcbPtrTbl[i] \in {i, NULL}
  BY DEF ReadyTasks, TablePart
<1>2. taskPrioList' \subseteq taskPrioList \cup {i}
      /\ (taskPrioList' = taskPrioList \/ i \in InstalledTasks)
  BY <1>1 DEF TickExpire, TickForget, TickKeep, TickFault, Ready, InstalledTasks, Installed
<1> QED  BY <1>2, SameTasks DEF ReadyTasks

LEMMA ClockReady ==
  ASSUME KernelTypes, ReadyTasks, Interrupt
  PROVE  ReadyTasks'
<1>1. tcbPtrTbl' = tcbPtrTbl
  BY DEF Interrupt, TickEnter, TickTask, TickOut, PendSV, objects
<1>2. CASE TickTask
  <2>1. Active \in SUBSET Prio
    BY DEF KernelTypes, ListTypes, Active
  <2>2. \E i \in Prio : TickExpire(i) \/ TickForget(i) \/ TickKeep(i) \/ TickFault(i)
    BY <1>2, <2>1, HighestPrio DEF TickTask
  <2> QED  BY <1>1, <2>2, EntryReady
<1>3. CASE TickEnter \/ TickOut \/ PendSV
  <2>1. UNCHANGED taskPrioList
    BY <1>3 DEF TickEnter, TickOut, PendSV, lists
  <2> QED  BY <1>1, <2>1, ReadyTasksKept
<1> QED  BY <1>2, <1>3 DEF Interrupt

\* How a thread goes on in its own calls, its yields included.
Goes(t) ==
    /\ \E label \in {"publish", "trapped", after[t]} :
          /\ Goto(t, label)
          /\ \/ pc[t] = "yield" /\ label = "publish" /\ UNCHANGED after
             \/ pc[t] = "publish" /\ label # "publish" /\ after' = [after EXCEPT ![t] = "run"]

LEMMA YieldGoes ==
  ASSUME KernelTypes, NEW t \in Prio, Yield(t), after[t] # "publish"
  PROVE  Goes(t) /\ UNCHANGED <<tcbPtrTbl, taskPrioList>>
<1>1. CASE YieldFind(t)
  <2>1. tick = "off" /\ irqCounter = 0
    BY <1>1 DEF YieldFind, At, Runs, KernelTypes, CpuTypes
  <2> QED  BY <1>1, <2>1 DEF YieldFind, At, Goes, lists, objects
<1>2. CASE YieldPublish(t)
  BY <1>2 DEF YieldPublish, At, Goes, lists, objects
<1> QED  BY <1>1, <1>2 DEF Yield

\* A thread's own calls: what they change of it, and of the ready list.
Enters(t) == \/ pc[t] \in {"run", "suspend", "resume"} /\ Goto(t, "yield")
             \/ pc[t] = "run" /\ Goto(t, "suspend")
             \/ pc[t] = "run" /\ Goto(t, "resume")

LEMMA OwnCalls ==
  ASSUME Api \subseteq TimingCalls, KernelTypes, ThreadTypes(DriverPlaces), NEW t \in Prio,
         after[t] # "publish", Proceed(t) \/ Call(t)
  PROVE  /\ Goes(t) \/ (Enters(t) /\ UNCHANGED after)
         /\ UNCHANGED tcbPtrTbl
         /\ taskPrioList' \subseteq taskPrioList \cup {p \in Prio : Installed(p)}
<1>1. CASE Proceed(t)
  <2>1. pc[t] \notin {"create", "delete"}
    BY DriverPlacesOK DEF ThreadTypes
  <2>2. \/ Yield(t) \/ SuspendTask(t) \/ ResumeTask(t)
    BY <1>1, <2>1 DEF Proceed, CreateRefused, CreateTask, DeleteTask, At
  <2>3. CASE Yield(t)
    BY <2>3, YieldGoes
  <2>4. CASE SuspendTask(t)
    BY <2>4 DEF SuspendTask, At, Leave, Enters, Unready
  <2>5. CASE ResumeTask(t)
    <3>1. /\ pc[t] = "resume" /\ Leave(t) /\ UNCHANGED <<after, tcbPtrTbl>>
          /\ tcbPtrTbl[arg[t]] = NULL => UNCHANGED taskPrioList
          /\ taskPrioList' \in {taskPrioList, taskPrioList \cup {arg[t]}}
      BY <2>5 DEF ResumeTask, At, Ready
    <3>2. Enters(t)
      BY <3>1 DEF Leave, Enters
    <3>3. arg[t] \in Prio
      BY DEF ThreadTypes
    <3>4. taskPrioList' = taskPrioList
          \/ (Installed(arg[t]) /\ taskPrioList' = taskPrioList \cup {arg[t]})
      BY <3>1 DEF Installed
    <3> QED  BY <3>1, <3>2, <3>3, <3>4
  <2> QED  BY <2>2, <2>3, <2>4, <2>5
<1>2. CASE Call(t)
  <2>1. \/ \E ticks \in 1..MaxDelay : Delay(t, ticks)
        \/ \E p \in UserPrio : SuspendCheck(t, p) \/ ResumeCheck(t, p)
    BY <1>2 DEF Call, Calls, TimingCalls, CreateAlloc, DeleteCheck, CreateOutOfMemory, Return
  <2>2. ASSUME NEW ticks \in 1..MaxDelay, Delay(t, ticks)
        PROVE  Enters(t) /\ UNCHANGED <<after, tcbPtrTbl>> /\ taskPrioList' \subseteq taskPrioList
    BY <2>2 DEF Delay, Calls, At, Leave, Enters, Unready
  <2>3. ASSUME NEW p \in UserPrio, SuspendCheck(t, p) \/ ResumeCheck(t, p)
        PROVE  Enters(t) /\ UNCHANGED <<after, tcbPtrTbl, taskPrioList>>
    BY <2>3 DEF SuspendCheck, ResumeCheck, Calls, At, Enter, Enters, lists, objects
  <2> QED  BY <2>1, <2>2, <2>3
<1> QED  BY <1>1, <1>2

LEMMA OwnCallers ==
  ASSUME ThreadTypes(DriverPlaces), Callers, LockHasHolder, NEW t \in Prio,
         Goes(t) \/ (Enters(t) /\ UNCHANGED after),
         UNCHANGED <<semOf, back, opened, busy, job>>
  PROVE  Callers' /\ LockHasHolder'
<1>1. /\ after[t] \in {"run", "retake"} /\ pc \in [Prio -> DriverPlaces]
      /\ after \in [Prio -> DriverPlaces] /\ Caller(t)
  BY DEF Callers, Caller, ThreadTypes
<1>2. \A p \in Prio \ {t} : pc'[p] = pc[p] /\ after'[p] = after[p]
  BY <1>1 DEF Goes, Enters, Goto
<1>3. Caller(t)' /\ (Holds(t) => Holds(t)')
  <2>1. CASE pc[t] = "yield" /\ pc'[t] = "publish" /\ UNCHANGED after
    BY <1>1, <2>1 DEF Caller, Taking, Holds, TakeLabels
  <2>2. CASE pc[t] = "publish" /\ pc'[t] \in {"trapped", after[t]} /\ after'[t] = "run"
    BY <1>1, <2>2 DEF Caller, Taking, Holds, TakeLabels
  <2>3. CASE /\ pc[t] \in {"run", "suspend", "resume"}
             /\ pc'[t] \in {"yield", "suspend", "resume"} /\ UNCHANGED after
    BY <1>1, <2>3 DEF Caller, Taking, Holds, TakeLabels
  <2> QED  BY <1>1, <2>1, <2>2, <2>3 DEF Goes, Enters, Goto
<1>4. back' \in [Prio -> {Application, Transfer}]
  BY DEF Callers
<1> QED  BY <1>2, <1>3, <1>4, CallersStep

LEMMA NextDInv ==
  ASSUME Api \subseteq TimingCalls, DInv, Next, UNCHANGED semVars, UNCHANGED deviceVars
  PROVE  DInv'
<1>1. UNCHANGED <<semOf, back, opened, busy, job>>
  BY DEF semVars, deviceVars, handle, custom
<1>2. KernelTypes' /\ ThreadTypes(DriverPlaces)'
  BY DriverPlacesOK, TasksTypes DEF DInv, Next
<1>3. SemTypes' /\ DeviceTypes'
  BY SemTypesKept, DeviceTypesKept DEF DInv
<1>4. CASE Interrupts
  <2>1. UNCHANGED threads
    BY <1>4, InterruptTypes DEF Interrupts, DInv
  <2>2. Callers' /\ LockHasHolder'
    BY <1>1, <2>1, CallersKept DEF DInv
  <2>3. ReadyTasks'
    BY <1>4, ClockReady DEF DInv, Interrupts
  <2> QED  BY <1>2, <1>3, <2>2, <2>3 DEF DInv
<1>5. ASSUME NEW t \in Prio, Proceed(t) \/ Call(t)
      PROVE  DInv'
  <2>1. after[t] # "publish" /\ KernelTypes /\ ThreadTypes(DriverPlaces)
    BY DEF DInv, Callers, Caller
  <2>2. /\ Goes(t) \/ (Enters(t) /\ UNCHANGED after)
        /\ UNCHANGED tcbPtrTbl
        /\ taskPrioList' \subseteq taskPrioList \cup {p \in Prio : Installed(p)}
    BY <1>5, <2>1, OwnCalls
  <2>3. Callers' /\ LockHasHolder'
    BY <1>1, <2>1, <2>2, OwnCallers DEF DInv
  <2>4. ReadyTasks'
    BY <2>2, SameTasks DEF DInv, ReadyTasks, InstalledTasks
  <2> QED  BY <1>2, <1>3, <2>3, <2>4 DEF DInv
<1> QED  BY <1>4, <1>5 DEF Next
-----------------------------------------------------------------------------
(* uLipeSemTake, for the application and for a driver                      *)

\* A thread goes on, and nothing else of the kernel changes.
LEMMA AsideParts ==
  ASSUME DInv, NEW t \in Prio, NEW label \in DriverPlaces, Goto(t, label),
         UNCHANGED <<lists, objects, cpu>>, UNCHANGED <<yieldPrio, after, arg>>
  PROVE  /\ KernelTypes' /\ ThreadTypes(DriverPlaces)' /\ ReadyTasks'
         /\ pc'[t] = label /\ \A p \in Prio \ {t} : pc'[p] = pc[p]
<1>1. KernelTypes' /\ ThreadTypes(DriverPlaces)'
  BY SameTypes, GotoTypes DEF DInv
<1>2. ReadyTasks'
  BY ReadyTasksKept DEF DInv, lists, objects
<1> QED  BY <1>1, <1>2 DEF Goto, DInv, ThreadTypes

\* Where the caller of a take goes on.
LEMMA Callees == /\ Application.key = "run" /\ Application.none = "run"
                 /\ Transfer.key = "done" /\ Transfer.none = "timedout"
                 /\ Application # Transfer
BY DEF Application, Transfer

LEMMA TakeFromDInv ==
  ASSUME DInv, NEW t \in Prio, NEW s \in Sems, NEW ticks \in 0..MaxDelay, NEW caller,
         \/ caller = Application /\ pc[t] = "run"
         \/ caller = Transfer /\ pc[t] = "sync",
         TakeFrom(t, s, ticks, caller), UNCHANGED deviceVars
  PROVE  DInv'
<1>0. /\ SemTypes /\ DeviceTypes /\ Callers /\ LockHasHolder
      /\ Caller(t) /\ caller \in {Application, Transfer}
  BY DEF DInv, Callers
<1>1. /\ UNCHANGED <<lists, objects, cpu>> /\ UNCHANGED <<yieldPrio, after, arg>>
      /\ UNCHANGED <<sems, word>> /\ UNCHANGED <<opened, busy, job>>
  BY DEF TakeFrom, deviceVars, handle, custom
<1>2. DeviceTypes'
  BY <1>0, DeviceTypesKept
<1>3. after[t] = "run" /\ (job[t] = NoJob <=> caller = Application)
  BY <1>0, Callees DEF Caller
<1>4. CASE semCount[s] > 0
  <2>1. /\ semCount' = [semCount EXCEPT ![s] = @ - 1] /\ UNCHANGED <<semOf, timeout, back>>
        /\ Goto(t, caller.key) /\ caller.key \in {"run", "done"}
    BY <1>0, <1>4, Callees DEF TakeFrom
  <2>2. SemTypes'
    <3>1. semCount[s] \in 0..SemLimit /\ SemLimit \in Nat
      BY <1>0, SemLimitAssumption DEF SemTypes
    <3>2. semCount[s] - 1 \in 0..SemLimit
      BY <1>4, <3>1
    <3> QED  BY <1>0, <1>1, <2>1, <3>2 DEF SemTypes
  <2>3. /\ KernelTypes' /\ ThreadTypes(DriverPlaces)' /\ ReadyTasks'
        /\ pc'[t] = caller.key /\ \A p \in Prio \ {t} : pc'[p] = pc[p]
    BY <1>1, <2>1, DriverPlacesOK, AsideParts
  <2>4. Caller(t)' /\ (Holds(t) => Holds(t)')
    BY <1>0, <1>1, <1>3, <2>1, <2>3, Callees, DriverPlacesOK DEF Caller, Taking, Holds
  <2>5. Callers' /\ LockHasHolder'
    <3>1. back' \in [Prio -> {Application, Transfer}]
      BY <1>0, <2>1 DEF Callers
    <3> QED  BY <1>0, <1>1, <2>1, <2>3, <2>4, <3>1, CallersStep
  <2> QED  BY <1>2, <2>2, <2>3, <2>5 DEF DInv
<1>5. CASE ~(semCount[s] > 0)
  <2>1. /\ Goto(t, "store") /\ semOf' = [semOf EXCEPT ![t] = s]
        /\ timeout' = [timeout EXCEPT ![t] = ticks]
        /\ back' = [back EXCEPT ![t] = caller] /\ UNCHANGED semCount
    BY <1>5 DEF TakeFrom
  <2>2. SemTypes'
    BY <1>0, <1>1, <2>1 DEF SemTypes
  <2>3. /\ KernelTypes' /\ ThreadTypes(DriverPlaces)' /\ ReadyTasks'
        /\ pc'[t] = "store" /\ \A p \in Prio \ {t} : pc'[p] = pc[p]
    BY <1>1, <2>1, DriverPlacesOK, AsideParts
  <2>4. /\ semOf'[t] = s /\ \A p \in Prio \ {t} : semOf'[p] = semOf[p]
        /\ back'[t] = caller /\ \A p \in Prio \ {t} : back'[p] = back[p]
        /\ back' \in [Prio -> {Application, Transfer}]
    BY <1>0, <2>1 DEF SemTypes, Callers
  <2>5. Caller(t)' /\ (Holds(t) => Holds(t)')
    BY <1>0, <1>1, <1>3, <2>3, <2>4, Callees DEF Caller, Taking, Holds
  <2>6. Callers' /\ LockHasHolder'
    BY <1>0, <1>1, <2>3, <2>4, <2>5, CallersStep
  <2> QED  BY <1>2, <2>2, <2>3, <2>6 DEF DInv
<1> QED  BY <1>4, <1>5

\* Within a take.
LEMMA EntryDInv ==
  ASSUME DInv, NEW t \in Prio, TakeStore(t) \/ TakeGroup(t) \/ TakeRead(t) \/ TakeWrite(t),
         UNCHANGED deviceVars
  PROVE  DInv'
<1>0. /\ ListTypes /\ TaskTypes /\ WaitTypes /\ CpuTypes /\ ThreadTypes(DriverPlaces)
      /\ ReadyTasks /\ SemTypes /\ DeviceTypes /\ Callers /\ LockHasHolder /\ Caller(t)
  BY DEF DInv, KernelTypes, Callers
<1>1. /\ pc[t] \in TakeLabels
      /\ UNCHANGED <<lists, tcbPtrTbl, taskStatus, delayTime, cpu, yieldPrio, after, arg>>
      /\ UNCHANGED <<sems, semCount, semOf, timeout, back>>
  BY DEF TakeStore, TakeGroup, TakeRead, TakeWrite, At, TakeLabels, objects, tcb, semVars
<1>2. PICK label \in TakeLabels : Goto(t, label)
  BY DEF TakeStore, TakeGroup, TakeRead, TakeWrite, TakeLabels
<1>3. semOf[t] \in Sems /\ semOf[t] \in List
  BY <1>0, <1>1, SemFacts DEF Caller, Taking
<1>4. /\ pc'[t] = label /\ (\A p \in Prio \ {t} : pc'[p] = pc[p])
      /\ ThreadTypes(DriverPlaces)'
  <2>1. label \in DriverPlaces
    BY DEF DriverPlaces
  <2>2. ThreadTypes(DriverPlaces)'
    BY <1>0, <1>1, <1>2, <2>1, GotoTypes
  <2> QED  BY <1>0, <1>2, <2>2 DEF Goto, ThreadTypes
<1>5. ListTypes' /\ CpuTypes' /\ ReadyTasks' /\ DeviceTypes'
  BY <1>0, <1>1, ReadyTasksKept, DeviceTypesKept DEF ListTypes, CpuTypes, lists, cpu
<1>6. bmp' \in [Prio -> [Bmp -> List \cup {NULL, Wild}]]
  <2>1. UNCHANGED bmp \/ bmp' = [bmp EXCEPT ![t]["sem"] = semOf[t]]
    BY DEF TakeStore, TakeGroup, TakeRead, TakeWrite, objects, tcb
  <2> QED  BY <1>0, <1>3, <2>1 DEF TaskTypes, Bmp
<1>7. TaskTypes'
  BY <1>0, <1>1, <1>6 DEF TaskTypes
<1>8. WaitTypes' /\ word' \in [Prio -> SUBSET Prio]
  <2>1. /\ waitList[semOf[t]].prioTbl \in SUBSET Prio
        /\ waitList[semOf[t]] \in [prioGrp : BOOLEAN, prioTbl : SUBSET Prio]
        /\ word[t] \cup {t} \in SUBSET Prio /\ word \in [Prio -> SUBSET Prio]
    BY <1>0, <1>3 DEF WaitTypes, SemTypes
  <2>2. \/ UNCHANGED waitList
        \/ waitList' = [waitList EXCEPT ![semOf[t]].prioGrp = TRUE]
        \/ waitList' = [waitList EXCEPT ![semOf[t]].prioTbl = word[t] \cup {t}]
    BY DEF TakeStore, TakeGroup, TakeRead, TakeWrite, objects
  <2>3. \/ UNCHANGED word
        \/ word' = [word EXCEPT ![t] = waitList[semOf[t]].prioTbl]
        \/ word' = [word EXCEPT ![t] = {}]
    BY DEF TakeStore, TakeGroup, TakeRead, TakeWrite, semVars
  <2>4. word' \in [Prio -> SUBSET Prio]
    BY <2>1, <2>3
  <2>5. WaitTypes'
    <3>1. \/ UNCHANGED waitList
          \/ \E list \in [prioGrp : BOOLEAN, prioTbl : SUBSET Prio] :
                waitList' = [waitList EXCEPT ![semOf[t]] = list]
      <4>1. /\ [waitList[semOf[t]] EXCEPT !.prioGrp = TRUE]
                 \in [prioGrp : BOOLEAN, prioTbl : SUBSET Prio]
            /\ [waitList[semOf[t]] EXCEPT !.prioTbl = word[t] \cup {t}]
                 \in [prioGrp : BOOLEAN, prioTbl : SUBSET Prio]
        BY <2>1
      <4> QED  BY <2>2, <4>1
    <3> QED  BY <1>0, <3>1 DEF WaitTypes
  <2> QED  BY <2>4, <2>5
<1>9. SemTypes'
  BY <1>0, <1>1, <1>8 DEF SemTypes
<1>10. Callers' /\ LockHasHolder'
  <2>1. /\ UNCHANGED <<opened, busy, job>> /\ back' \in [Prio -> {Application, Transfer}]
        /\ UNCHANGED <<after, semOf, back>>
    BY <1>0, <1>1 DEF Callers, deviceVars, handle, custom
  <2>2. Caller(t)' /\ (Holds(t) => Holds(t)')
    BY <1>0, <1>1, <1>4, <2>1, DriverPlacesOK DEF Caller, Taking, Holds
  <2> QED  BY <1>0, <1>4, <2>1, <2>2, CallersStep
<1> QED  BY <1>4, <1>5, <1>7, <1>8, <1>9, <1>10 DEF DInv, KernelTypes

LEMMA BlockDInv ==
  ASSUME DInv, NEW t \in Prio, TakeBlock(t), UNCHANGED deviceVars
  PROVE  DInv'
<1>0. /\ ListTypes /\ TaskTypes /\ WaitTypes /\ CpuTypes /\ ThreadTypes(DriverPlaces)
      /\ ReadyTasks /\ SemTypes /\ DeviceTypes /\ Callers /\ LockHasHolder /\ Caller(t)
  BY DEF DInv, KernelTypes, Callers
<1>1. /\ pc[t] = "block" /\ Goto(t, "yield") /\ after' = [after EXCEPT ![t] = "retake"]
      /\ taskPrioList' = taskPrioList \ {t}
      /\ UNCHANGED <<activeList, tcbPtrTbl, bmp, waitList, cpu, yieldPrio, arg>>
      /\ UNCHANGED semVars
  BY DEF TakeBlock, At, Unready
<1>2. ListTypes' /\ TaskTypes'
  <2>1. /\ \E causes \in {{"PendSem"}, {"PendSem", "PendDelay"}} :
              taskStatus' = [taskStatus EXCEPT ![t] = @ \cup causes]
        /\ \/ UNCHANGED <<delayTime, timerPendingList>>
           \/ /\ delayTime' = [delayTime EXCEPT ![t] = timeout[t]]
              /\ timerPendingList' = [timerPendingList EXCEPT ![activeList] = @ \cup {t}]
    BY DEF TakeBlock, CountTicks
  <2>2. /\ timeout[t] \in 0..MaxDelay
        /\ {{"PendSem"}, {"PendSem", "PendDelay"}} \subseteq SUBSET Status
    BY <1>0 DEF SemTypes, Status
  <2>3. PICK causes \in SUBSET Status : taskStatus' = [taskStatus EXCEPT ![t] = @ \cup causes]
    BY <2>1, <2>2
  <2>4. taskPrioList' \in SUBSET Prio /\ bmp' \in [Prio -> [Bmp -> List \cup {NULL, Wild}]]
    BY <1>0, <1>1 DEF ListTypes, TaskTypes
  <2> QED  BY <1>0, <1>1, <2>1, <2>2, <2>3, <2>4, BlockedTypes
<1>3. WaitTypes' /\ CpuTypes' /\ ReadyTasks' /\ SemTypes' /\ DeviceTypes'
  BY <1>0, <1>1, ReadyTasksKept, SemTypesKept, DeviceTypesKept DEF WaitTypes, CpuTypes, cpu
<1>4. ThreadTypes(DriverPlaces)'
  BY <1>0, <1>1, DriverPlacesOK DEF ThreadTypes, Goto
<1>5. /\ pc'[t] = "yield" /\ after'[t] = "retake"
      /\ \A p \in Prio \ {t} : pc'[p] = pc[p] /\ after'[p] = after[p]
  BY <1>0, <1>1 DEF ThreadTypes, Goto
<1>6. Callers' /\ LockHasHolder'
  <2>1. /\ UNCHANGED <<opened, busy, job>> /\ UNCHANGED <<semOf, back>>
        /\ back' \in [Prio -> {Application, Transfer}]
    BY <1>0, <1>1 DEF Callers, deviceVars, handle, custom, semVars
  <2>2. Caller(t)' /\ (Holds(t) => Holds(t)')
    BY <1>0, <1>1, <1>5, <2>1 DEF Caller, Taking, Holds, TakeLabels
  <2> QED  BY <1>0, <1>5, <2>1, <2>2, CallersStep
<1> QED  BY <1>2, <1>3, <1>4, <1>6 DEF DInv, KernelTypes

LEMMA RetakeDInv ==
  ASSUME DInv, NEW t \in Prio, Retake(t), UNCHANGED deviceVars
  PROVE  DInv'
<1>0. /\ SemTypes /\ DeviceTypes /\ Callers /\ LockHasHolder /\ Caller(t)
  BY DEF DInv, Callers
<1>1. /\ pc[t] = "retake"
      /\ semCount' = [semCount EXCEPT ![semOf[t]] = IF @ > 0 THEN @ - 1 ELSE @]
      /\ semOf' = [semOf EXCEPT ![t] = NULL]
      /\ timeout' = [timeout EXCEPT ![t] = 0]
      /\ back' = [back EXCEPT ![t] = Application]
      /\ \E label \in {back[t].key, back[t].none} : Goto(t, label)
      /\ UNCHANGED <<lists, objects, cpu>> /\ UNCHANGED <<yieldPrio, after, arg>>
      /\ UNCHANGED <<sems, word>>
  BY DEF Retake, At
<1>2. /\ semOf[t] \in Sems /\ after[t] = "run"
      /\ back[t] = IF job[t] # NoJob THEN Transfer ELSE Application
  BY <1>0, <1>1 DEF Caller, Taking, TakeLabels
<1>3. SemTypes'
  <2>1. semCount[semOf[t]] \in 0..SemLimit /\ SemLimit \in Nat
    BY <1>0, <1>2, SemLimitAssumption DEF SemTypes
  <2>2. (IF semCount[semOf[t]] > 0 THEN semCount[semOf[t]] - 1 ELSE semCount[semOf[t]])
           \in 0..SemLimit
    BY <2>1
  <2>3. semCount' \in [Sems -> 0..SemLimit]
    BY <1>0, <1>1, <2>2 DEF SemTypes
  <2>4. timeout' \in [Prio -> 0..MaxDelay]
    <3>1. 0 \in 0..MaxDelay
      BY DelayAssumption
    <3> QED  BY <1>0, <1>1, <3>1 DEF SemTypes
  <2> QED  BY <1>0, <1>1, <2>3, <2>4 DEF SemTypes
<1>4. PICK label : /\ Goto(t, label)
                   /\ label \in IF job[t] = NoJob THEN {"run"} ELSE {"done", "timedout"}
  BY <1>1, <1>2, Callees
<1>5. /\ KernelTypes' /\ ThreadTypes(DriverPlaces)' /\ ReadyTasks'
      /\ pc'[t] = label /\ \A p \in Prio \ {t} : pc'[p] = pc[p]
  <2>1. label \in DriverPlaces
    BY <1>4, DriverPlacesOK
  <2> QED  BY <1>1, <1>4, <2>1, AsideParts
<1>6. Callers' /\ LockHasHolder'
  <2>1. /\ UNCHANGED <<opened, busy, job>>
        /\ back' \in [Prio -> {Application, Transfer}]
        /\ \A p \in Prio \ {t} : semOf'[p] = semOf[p] /\ back'[p] = back[p]
    BY <1>0, <1>1 DEF Callers, SemTypes, deviceVars, handle, custom
  <2>2. Caller(t)' /\ (Holds(t) => Holds(t)')
    BY <1>1, <1>2, <1>4, <1>5, <2>1 DEF Caller, Taking, Holds, TakeLabels
  <2> QED  BY <1>0, <1>1, <1>5, <2>1, <2>2, CallersStep
<1>7. DeviceTypes'
  BY <1>0, DeviceTypesKept
<1> QED  BY <1>3, <1>5, <1>6, <1>7 DEF DInv
-----------------------------------------------------------------------------
(* uLipeSemGive, uLipeSemCreate, uLipeSemDelete                            *)

\* Those a semaphore lets go.
LEMMA WaitersOfSem ==
  ASSUME WaitTypes, NEW s \in Sems,
         NEW waiters \in {FirstWaiter(s),
                          IF First(waitList[s]) # 0 THEN waitList[s].prioTbl ELSE {}}
  PROVE  /\ DOMAIN Only(s, waiters) \subseteq List
         /\ \A l \in DOMAIN Only(s, waiters) : Only(s, waiters)[l] \in SUBSET Prio
<1>1. s \in List
  BY SemFacts
<1>2. waiters \in SUBSET Prio
  BY <1>1, WaitListTypes
<1>3. DOMAIN Only(s, waiters) = {s} /\ Only(s, waiters)[s] = waiters
  BY OnlyAll
<1> QED  BY <1>1, <1>2, <1>3

LEMMA FreedAreTasks ==
  ASSUME NEW from, NEW causes
  PROVE  Freed(from, causes) \cap Prio \subseteq InstalledTasks
BY DEF Freed, InstalledTasks, Installed

LEMMA WakeDInv ==
  ASSUME DInv, NEW t \in Prio, NEW s \in sems,
         SemDelete(t, s) \/ \E count \in 1..MaxGive : Give(t, s, count),
         UNCHANGED deviceVars
  PROVE  DInv'
<1>0. /\ ListTypes /\ TaskTypes /\ WaitTypes /\ CpuTypes /\ ThreadTypes(DriverPlaces)
      /\ ReadyTasks /\ SemTypes /\ DeviceTypes /\ Callers /\ LockHasHolder /\ Caller(t)
  BY DEF DInv, KernelTypes, Callers
<1>1. /\ pc[t] = "run" /\ Goto(t, "yield")
      /\ UNCHANGED <<timerPendingList, activeList, tcbPtrTbl, delayTime, bmp, currentTask>>
      /\ UNCHANGED <<highPrioTask, irqCounter, pendSV, tick, yieldPrio, after, arg>>
      /\ UNCHANGED <<sems, semOf, timeout, word, back>>
  BY DEF SemDelete, Give, SemCalls, At, semVars
<1>2. PICK waiters \in {FirstWaiter(s),
                        IF First(waitList[s]) # 0 THEN waitList[s].prioTbl ELSE {}} :
         Wake(Only(s, waiters), SemCauses)
  BY DEF SemDelete, Give
<1> DEFINE from == Only(s, waiters)
<1>3. /\ DOMAIN from \subseteq List /\ \A l \in DOMAIN from : from[l] \in SUBSET Prio
      /\ s \in Sems
  BY <1>0, WaitersOfSem DEF SemTypes
<1>4. Unblock(from, SemCauses) /\ taskPrioList' = taskPrioList \cup Freed(from, SemCauses)
  BY <1>2 DEF Wake
<1> HIDE DEF from
<1>5. /\ WaitTypes' /\ taskStatus' \in [Prio -> SUBSET Status] /\ halted' \in {halted, "null"}
      /\ Freed(from, SemCauses) \in SUBSET Prio
  BY <1>0, <1>3, <1>4, UnblockTypes
<1>6. KernelTypes'
  BY <1>0, <1>1, <1>4, <1>5 DEF KernelTypes, ListTypes, TaskTypes, CpuTypes
<1>7. ReadyTasks'
  <2>1. Freed(from, SemCauses) \subseteq InstalledTasks
    BY <1>5, FreedAreTasks
  <2> QED  BY <1>0, <1>1, <1>4, <2>1, SameTasks DEF ReadyTasks
<1>8. SemTypes'
  <2>1. UNCHANGED semCount
        \/ \E count \in 1..MaxGive : semCount' = [semCount EXCEPT ![s] = Keys(s, count)]
    BY DEF SemDelete, Give, semVars
  <2>2. ASSUME NEW count \in 1..MaxGive PROVE Keys(s, count) \in 0..SemLimit
    <3>1. semCount[s] \in 0..SemLimit /\ SemLimit \in Nat /\ MaxGive \in Nat
      BY <1>0, <1>3, SemLimitAssumption DEF SemTypes
    <3> QED  BY <3>1 DEF Keys
  <2> QED  BY <1>0, <1>1, <2>1, <2>2 DEF SemTypes
<1>9. ThreadTypes(DriverPlaces)'
  BY <1>0, <1>1, DriverPlacesOK, GotoTypes
<1>10. Callers' /\ LockHasHolder'
  <2>1. UNCHANGED <<opened, busy, job>>
    BY DEF deviceVars, handle, custom
  <2> QED  BY <1>0, <1>1, <2>1, OwnCallers DEF Enters
<1>11. DeviceTypes'
  BY <1>0, DeviceTypesKept
<1> QED  BY <1>6, <1>7, <1>8, <1>9, <1>10, <1>11 DEF DInv

\* A new semaphore, of the application or of the device.
LEMMA NewSemParts ==
  ASSUME DInv, NEW s \in Sems, NewSem(s)
  PROVE  KernelTypes' /\ ReadyTasks' /\ SemTypes'
         /\ UNCHANGED <<yieldPrio, after, arg, semOf, back>>
<1>0. /\ ListTypes /\ TaskTypes /\ WaitTypes /\ CpuTypes /\ ReadyTasks /\ SemTypes
  BY DEF DInv, KernelTypes
<1>1. /\ UNCHANGED <<lists, tcbPtrTbl, tcb, cpu>>
      /\ UNCHANGED <<yieldPrio, after, arg, semOf, timeout, word, back>>
      /\ sems' = sems \cup {s} /\ semCount' = [semCount EXCEPT ![s] = InitCount]
  BY DEF NewSem
<1>2. WaitTypes'
  <2>1. UserPrio \in SUBSET Prio /\ s \in List
    BY SizeAssumption, SemFacts DEF UserPrio, Prio
  <2>2. {EmptyList, [prioGrp |-> TRUE, prioTbl |-> UserPrio]}
           \subseteq [prioGrp : BOOLEAN, prioTbl : SUBSET Prio]
    BY <2>1 DEF EmptyList
  <2>3. \E raw \in [prioGrp : BOOLEAN, prioTbl : SUBSET Prio] :
           waitList' = [waitList EXCEPT ![s] = raw]
    BY <2>2 DEF NewSem
  <2> QED  BY <1>0, <2>3 DEF WaitTypes
<1>3. ListTypes' /\ TaskTypes' /\ CpuTypes' /\ ReadyTasks'
  BY <1>0, <1>1, ReadyTasksKept DEF ListTypes, TaskTypes, CpuTypes, lists, tcb, cpu
<1>4. SemTypes'
  BY <1>0, <1>1, SemLimitAssumption DEF SemTypes
<1> QED  BY <1>1, <1>2, <1>3, <1>4 DEF KernelTypes

LEMMA SemDInv ==
  ASSUME Api \subseteq TimingCalls, DInv, SemNext, UNCHANGED deviceVars
  PROVE  DInv'
<1>1. CASE Next /\ UNCHANGED semVars
  BY <1>1, NextDInv
<1>2. ASSUME NEW t \in Prio, TakeProceeds(t)
      PROVE  DInv'
  BY <1>2, EntryDInv, BlockDInv, RetakeDInv DEF TakeProceeds
<1>3. ASSUME NEW t \in Prio, NEW s \in sems, NEW ticks \in 0..MaxDelay, Take(t, s, ticks)
      PROVE  DInv'
  <2>1. /\ pc[t] = "run" /\ TakeFrom(t, s, ticks, Application) /\ s \in Sems
    BY <1>3 DEF Take, SemCalls, At, DInv, SemTypes
  <2> QED  BY <2>1, TakeFromDInv
<1>4. ASSUME NEW t \in Prio, NEW s \in Sems, SemCreate(t, s)
      PROVE  DInv'
  <2>1. NewSem(s) /\ UNCHANGED pc
    BY <1>4 DEF SemCreate
  <2>2. KernelTypes' /\ ReadyTasks' /\ SemTypes'
        /\ UNCHANGED <<yieldPrio, after, arg, semOf, back>>
    BY <2>1, NewSemParts
  <2>3. ThreadTypes(DriverPlaces)'
    BY <2>1, <2>2 DEF DInv, ThreadTypes
  <2>4. Callers' /\ LockHasHolder'
    BY <2>1, <2>2, CallersKept DEF DInv, threads, deviceVars, handle, custom
  <2>5. DeviceTypes'
    BY DeviceTypesKept DEF DInv
  <2> QED  BY <2>2, <2>3, <2>4, <2>5 DEF DInv
<1>5. ASSUME NEW t \in Prio, SemCall(t)
      PROVE  DInv'
  <2>1. PICK s \in Sems :
           \/ /\ s \in sems
              /\ \/ \E ticks \in 0..MaxDelay : Take(t, s, ticks)
                 \/ \E count \in 1..MaxGive : Give(t, s, count)
                 \/ SemDelete(t, s)
           \/ SemCreate(t, s)
    BY <1>5 DEF SemCall
  <2> QED  BY <2>1, <1>3, <1>4, WakeDInv
<1> QED  BY <1>1, <1>2, <1>5 DEF SemNext
-----------------------------------------------------------------------------
(* The device table: opening, waiting for the interrupt, and the interrupt *)

\* A driver's call goes on, and nothing of the kernel changes but its place.
LEMMA CallGoes ==
  ASSUME DInv, NEW t \in Prio, NEW label \in DriverPlaces, Goto(t, label), KernelUnchanged
  PROVE  /\ KernelTypes' /\ ThreadTypes(DriverPlaces)' /\ ReadyTasks' /\ SemTypes'
         /\ UNCHANGED <<after, semOf, back>>
         /\ pc'[t] = label /\ \A p \in Prio \ {t} : pc'[p] = pc[p]
<1>1. /\ UNCHANGED <<lists, objects, cpu>> /\ UNCHANGED <<yieldPrio, after, arg>>
      /\ UNCHANGED semVars /\ UNCHANGED <<semOf, back>>
  BY DEF KernelUnchanged, semVars
<1>2. SemTypes'
  BY <1>1, SemTypesKept DEF DInv
<1> QED  BY <1>1, <1>2, AsideParts

\* A call has made its checks.
LEMMA BeginDInv ==
  ASSUME DInv, NEW t \in Prio, pc[t] = "run",
         NEW operation \in {"tx", "rx", "config", "poll", "enable", "disable"},
         NEW ticks \in 0..MaxDelay, Begin(t, operation, ticks)
  PROVE  DInv'
<1>0. DeviceTypes /\ Callers /\ LockHasHolder /\ Caller(t)
  BY DEF DInv, Callers
<1> DEFINE new == [op |-> operation, ticks |-> ticks]
<1>1. /\ Goto(t, "lock") /\ KernelUnchanged /\ UNCHANGED <<handle, custom, hardware>>
      /\ job' = [job EXCEPT ![t] = new]
  BY DEF Begin
<1>2. new \in Jobs /\ new # NoJob
  BY DEF Jobs, NoJob
<1> HIDE DEF new
<1>3. /\ KernelTypes' /\ ThreadTypes(DriverPlaces)' /\ ReadyTasks' /\ SemTypes'
      /\ UNCHANGED <<after, semOf, back>>
      /\ pc'[t] = "lock" /\ \A p \in Prio \ {t} : pc'[p] = pc[p]
  BY <1>1, DriverPlacesOK, CallGoes
<1>4. job' \in [Prio -> Jobs] /\ job'[t] = new /\ \A p \in Prio \ {t} : job'[p] = job[p]
  BY <1>0, <1>1, <1>2 DEF DeviceTypes
<1>5. DeviceTypes' /\ UNCHANGED <<opened, busy>>
  BY <1>0, <1>1, <1>4 DEF DeviceTypes, handle, custom, hardware
<1>6. Callers' /\ LockHasHolder'
  <2>1. Caller(t)' /\ ~Holds(t)
    BY <1>0, <1>2, <1>3, <1>4 DEF Caller, Taking, Holds, TakeLabels
  <2>2. back' \in [Prio -> {Application, Transfer}]
    BY <1>0, <1>3 DEF Callers
  <2> QED  BY <1>0, <1>3, <1>4, <1>5, <2>1, <2>2, CallersStep
<1> QED  BY <1>3, <1>5, <1>6 DEF DInv

\* A call locks the device.
LEMMA LocksDInv ==
  ASSUME DInv, NEW t \in Prio, pc[t] = "lock", NEW label \in {"sync", "locked"}, Goto(t, label),
         KernelUnchanged, busy' = TRUE, UNCHANGED <<handle, enabled, master, irq, job>>,
         sucess' \subseteq sucess,
         \/ UNCHANGED transfer
         \/ \E x \in Prio \cup {NULL} : transfer' = [transfer EXCEPT ![job[t].op] = x]
  PROVE  DInv'
<1>0. DeviceTypes /\ Callers /\ LockHasHolder /\ Caller(t)
  BY DEF DInv, Callers
<1>1. /\ KernelTypes' /\ ThreadTypes(DriverPlaces)' /\ ReadyTasks' /\ SemTypes'
      /\ UNCHANGED <<after, semOf, back>>
      /\ pc'[t] = label /\ \A p \in Prio \ {t} : pc'[p] = pc[p]
  <2>1. label \in DriverPlaces
    BY DriverPlacesOK
  <2> QED  BY <2>1, CallGoes
<1>2. DeviceTypes'
  BY <1>0 DEF DeviceTypes, handle
<1>3. Callers' /\ LockHasHolder'
  <2>1. Caller(t)' /\ Holds(t)'
    BY <1>0, <1>1 DEF Caller, Taking, Holds, TakeLabels
  <2>2. back' \in [Prio -> {Application, Transfer}] /\ UNCHANGED opened
    BY <1>0, <1>1 DEF Callers, handle
  <2> QED  BY <1>0, <1>1, <2>1, <2>2, CallersStep
<1> QED  BY <1>1, <1>2, <1>3 DEF DInv

\* A call unlocks the device and returns.
LEMMA ReturnsDInv ==
  ASSUME DInv, NEW t \in Prio, pc[t] \in {"lock", "locked", "done", "timedout"}, Returns(t),
         busy' = FALSE, UNCHANGED handle, sucess' \subseteq sucess,
         enabled' \in BOOLEAN, master' \in BOOLEAN, irq' \in BOOLEAN,
         \/ UNCHANGED transfer \/ transfer' = Idle
         \/ transfer' = [transfer EXCEPT ![job[t].op] = NULL]
  PROVE  DInv'
<1>0. DeviceTypes /\ Callers /\ LockHasHolder /\ Caller(t)
  BY DEF DInv, Callers
<1>1. Goto(t, "run") /\ KernelUnchanged /\ job' = [job EXCEPT ![t] = NoJob]
  BY DEF Returns
<1>2. /\ KernelTypes' /\ ThreadTypes(DriverPlaces)' /\ ReadyTasks' /\ SemTypes'
      /\ UNCHANGED <<after, semOf, back>>
      /\ pc'[t] = "run" /\ \A p \in Prio \ {t} : pc'[p] = pc[p]
  BY <1>1, DriverPlacesOK, CallGoes
<1>3. job' \in [Prio -> Jobs] /\ job'[t] = NoJob /\ \A p \in Prio \ {t} : job'[p] = job[p]
  BY <1>0, <1>1 DEF DeviceTypes, Jobs
<1>4. DeviceTypes'
  BY <1>0, <1>3 DEF DeviceTypes, handle, Idle
<1>5. Callers' /\ LockHasHolder'
  <2>1. Caller(t)'
    BY <1>0, <1>2, <1>3 DEF Caller, Taking, TakeLabels
  <2>2. back' \in [Prio -> {Application, Transfer}] /\ UNCHANGED opened
    BY <1>0, <1>2 DEF Callers, handle
  <2> QED  BY <1>0, <1>2, <1>3, <2>1, <2>2, CallersStep
<1> QED  BY <1>2, <1>4, <1>5 DEF DInv

\* One more task has opened the device.
LEMMA OneMoreOpened ==
  ASSUME opened \in SUBSET Prio, NEW t \in Prio, t \notin opened, refCount = Cardinality(opened)
  PROVE  refCount + 1 = Cardinality(opened \cup {t})
<1>1. IsFiniteSet(opened)
  <2>1. IsFiniteSet(0..N-1)
    BY SizeAssumption, FS_Interval
  <2> QED  BY <2>1, FS_Subset DEF Prio
<1> QED  BY <1>1, FS_AddElement

LEMMA OpenDInv ==
  ASSUME DInv, NEW t \in Prio, Open(t)
  PROVE  DInv'
<1>0. DeviceTypes /\ Callers /\ LockHasHolder /\ Caller(t)
  BY DEF DInv, Callers
<1>1. /\ pc[t] = "run" /\ t \notin opened /\ KernelUnchanged
      /\ UNCHANGED <<kind, deviceSync, custom, hardware, job>>
  BY DEF Open, DevCalls, At
<1>2. PICK label \in {"run", "open"} :
         /\ Goto(t, label)
         /\ \/ label = "open" /\ UNCHANGED <<refCount, opened>>
            \/ label = "run" /\ refCount' = refCount + 1 /\ opened' = opened \cup {t}
  <2>1. UNCHANGED pc => Goto(t, "run")
    BY <1>1 DEF Goto, DInv, ThreadTypes
  <2> QED  BY <2>1 DEF Open
<1>3. /\ KernelTypes' /\ ThreadTypes(DriverPlaces)' /\ ReadyTasks' /\ SemTypes'
      /\ UNCHANGED <<after, semOf, back>>
      /\ pc'[t] = label /\ \A p \in Prio \ {t} : pc'[p] = pc[p]
  <2>1. label \in DriverPlaces
    BY DriverPlacesOK
  <2> QED  BY <1>1, <1>2, <2>1, CallGoes
<1>4. DeviceTypes' /\ UNCHANGED busy
  <2>1. refCount + 1 = Cardinality(opened \cup {t}) /\ opened \cup {t} \in SUBSET Prio
    BY <1>0, <1>1, OneMoreOpened DEF DeviceTypes
  <2> QED  BY <1>0, <1>1, <1>2, <2>1 DEF DeviceTypes, custom, hardware
<1>5. Callers' /\ LockHasHolder'
  <2>1. Caller(t)' /\ ~Holds(t)
    BY <1>0, <1>1, <1>2, <1>3 DEF Caller, Taking, Holds, TakeLabels
  <2>2. back' \in [Prio -> {Application, Transfer}] /\ opened' \subseteq opened \cup {t}
    BY <1>0, <1>2, <1>3 DEF Callers
  <2> QED  BY <1>0, <1>1, <1>3, <1>4, <2>1, <2>2, CallersStep
<1> QED  BY <1>3, <1>4, <1>5 DEF DInv

LEMMA OpenCreateDInv ==
  ASSUME DInv, NEW t \in Prio, OpenCreate(t)
  PROVE  DInv'
<1>0. DeviceTypes /\ Callers /\ LockHasHolder /\ Caller(t) /\ ThreadTypes(DriverPlaces)
  BY DEF DInv, Callers
<1>1. /\ pc[t] = "open" /\ Goto(t, "run")
      /\ UNCHANGED <<kind, custom, hardware, job>> /\ UNCHANGED busy
  BY DEF OpenCreate, At, custom
<1>2. KernelTypes' /\ ReadyTasks' /\ SemTypes'
      /\ UNCHANGED <<yieldPrio, after, arg, semOf, back>>
  <2>1. CASE heap < HeapBlocks
    BY <2>1, NewSemParts DEF OpenCreate
  <2>2. CASE ~(heap < HeapBlocks)
    <3>1. /\ UNCHANGED <<lists, objects, cpu>> /\ UNCHANGED <<yieldPrio, after, arg>>
          /\ UNCHANGED semVars /\ UNCHANGED <<semOf, back>>
      BY <2>2 DEF OpenCreate, semVars
    <3>2. ReadyTasks'
      BY <3>1, ReadyTasksKept DEF DInv, lists, objects
    <3> QED  BY <3>1, <3>2, SameTypes, SemTypesKept DEF DInv
  <2> QED  BY <2>1, <2>2
<1>3. ThreadTypes(DriverPlaces)' /\ pc'[t] = "run" /\ \A p \in Prio \ {t} : pc'[p] = pc[p]
  BY <1>0, <1>1, <1>2, DriverPlacesOK DEF ThreadTypes, Goto
<1>4. /\ deviceSync' \in Sems \cup {NULL}
      /\ \/ UNCHANGED <<refCount, opened>>
         \/ refCount' = refCount + 1 /\ opened' = opened \cup {t}
  BY DEF OpenCreate
<1>5. t \notin opened
  BY <1>0, <1>1 DEF Caller
<1>6. DeviceTypes'
  <2>1. refCount + 1 = Cardinality(opened \cup {t}) /\ opened \cup {t} \in SUBSET Prio
    BY <1>0, <1>5, OneMoreOpened DEF DeviceTypes
  <2> QED  BY <1>0, <1>1, <1>4, <2>1 DEF DeviceTypes, custom, hardware
<1>7. Callers' /\ LockHasHolder'
  <2>1. Caller(t)' /\ ~Holds(t)
    BY <1>0, <1>1, <1>2, <1>3 DEF Caller, Taking, Holds, TakeLabels
  <2>2. back' \in [Prio -> {Application, Transfer}] /\ opened' \subseteq opened \cup {t}
    BY <1>0, <1>2, <1>4 DEF Callers
  <2> QED  BY <1>0, <1>1, <1>2, <1>3, <2>1, <2>2, CallersStep
<1> QED  BY <1>2, <1>3, <1>6, <1>7 DEF DInv

LEMMA StartSyncDInv ==
  ASSUME DInv, NEW t \in Prio, StartSync(t)
  PROVE  DInv'
<1>0. DeviceTypes /\ Callers /\ LockHasHolder /\ Caller(t)
  BY DEF DInv, Callers
<1>1. pc[t] = "sync" /\ UNCHANGED deviceVars /\ UNCHANGED <<opened, busy, job>>
  BY DEF StartSync, At, deviceVars, handle, custom
<1>2. CASE deviceSync = NULL
  <2>1. Goto(t, "timedout") /\ KernelUnchanged
    BY <1>2 DEF StartSync
  <2>2. /\ KernelTypes' /\ ThreadTypes(DriverPlaces)' /\ ReadyTasks' /\ SemTypes'
        /\ UNCHANGED <<after, semOf, back>>
        /\ pc'[t] = "timedout" /\ \A p \in Prio \ {t} : pc'[p] = pc[p]
    BY <2>1, DriverPlacesOK, CallGoes
  <2>3. DeviceTypes'
    BY <1>0, <1>1, DeviceTypesKept
  <2>4. Callers' /\ LockHasHolder'
    <3>1. Caller(t)' /\ (Holds(t) => Holds(t)')
      BY <1>0, <1>1, <2>2 DEF Caller, Taking, Holds, TakeLabels
    <3>2. back' \in [Prio -> {Application, Transfer}]
      BY <1>0, <2>2 DEF Callers
    <3> QED  BY <1>0, <1>1, <2>2, <3>1, <3>2, CallersStep
  <2> QED  BY <2>2, <2>3, <2>4 DEF DInv
<1>3. CASE deviceSync # NULL
  <2>1. deviceSync \in Sems /\ TakeFrom(t, deviceSync, job[t].ticks, Transfer)
    BY <1>0, <1>3 DEF StartSync, DeviceTypes
  <2>2. job[t].ticks \in 0..MaxDelay
    <3>1. job[t] \in Jobs /\ 0 \in 0..MaxDelay
      BY <1>0, DelayAssumption DEF DeviceTypes
    <3> QED  BY <3>1 DEF Jobs, NoJob
  <2> QED  BY <1>1, <2>1, <2>2, TakeFromDInv
<1> QED  BY <1>2, <1>3

\* KL25Z_UartConfig switches the interrupt off at once.
LEMMA ConfigDInv ==
  ASSUME DInv, NEW t \in Prio, UartConfig(t)
  PROVE  DInv'
<1>1. /\ UNCHANGED <<lists, objects, cpu>> /\ UNCHANGED <<threads, arg>> /\ UNCHANGED semVars
      /\ UNCHANGED <<handle, custom, transfer, job>> /\ irq' = FALSE
  BY DEF UartConfig, KernelUnchanged, threads
<1>2. KernelTypes' /\ ThreadTypes(DriverPlaces)' /\ SemTypes'
  BY <1>1, SameTypes, SameThreads, SemTypesKept DEF DInv
<1>3. ReadyTasks'
  BY <1>1, ReadyTasksKept DEF DInv, lists, objects
<1>4. DeviceTypes'
  BY <1>1 DEF DInv, DeviceTypes, handle, custom
<1>5. Callers' /\ LockHasHolder'
  BY <1>1, CallersKept DEF DInv, semVars, handle, custom
<1> QED  BY <1>2, <1>3, <1>4, <1>5 DEF DInv

\* The interrupt gives a key and wakes the first waiter.
LEMMA FinishDInv ==
  ASSUME KernelTypes, ReadyTasks, SemTypes, deviceSync \in Sems, FinishSync, IrqOut,
         UNCHANGED <<timerPendingList, activeList, tcbPtrTbl, delayTime, bmp, currentTask,
                     irqCounter, tick, sems, semOf, timeout, word>>
  PROVE  KernelTypes' /\ ReadyTasks' /\ SemTypes'
<1>0. ListTypes /\ TaskTypes /\ WaitTypes /\ CpuTypes
  BY DEF KernelTypes
<1> DEFINE from == Only(deviceSync, FirstWaiter(deviceSync))
<1>1. /\ semCount' = [semCount EXCEPT ![deviceSync] = Keys(deviceSync, 1)]
      /\ Unblock(from, SemCauses)
      /\ taskPrioList' \subseteq taskPrioList \cup Freed(from, SemCauses)
  BY DEF FinishSync
<1>2. DOMAIN from \subseteq List /\ \A l \in DOMAIN from : from[l] \in SUBSET Prio
  BY <1>0, WaitersOfSem
<1> HIDE DEF from
<1>3. /\ WaitTypes' /\ taskStatus' \in [Prio -> SUBSET Status] /\ halted' \in {halted, "null"}
      /\ Freed(from, SemCauses) \in SUBSET Prio
  BY <1>0, <1>1, <1>2, UnblockTypes
<1>4. taskPrioList' \in SUBSET InstalledTasks
  <2>1. Freed(from, SemCauses) \subseteq InstalledTasks
    BY <1>3, FreedAreTasks
  <2> QED  BY <1>1, <2>1 DEF ReadyTasks
<1>5. taskPrioList' \in SUBSET Prio
  BY <1>4 DEF InstalledTasks
<1>6. ListTypes' /\ TaskTypes' /\ ReadyTasks'
  BY <1>0, <1>3, <1>4, <1>5, SameTasks DEF ListTypes, TaskTypes, ReadyTasks
<1>7. highPrioTask' \in Prio /\ pendSV' \in BOOLEAN
  <2>1. CASE tick # "off"
    BY <1>0, <2>1 DEF IrqOut, CpuTypes
  <2>2. CASE tick = "off"
    <3>1. tcbPtrTbl[Highest(taskPrioList')] \in Prio
      <4>1. Highest(taskPrioList') \in Prio /\ Installed(Highest(taskPrioList'))
        <5>1. CASE taskPrioList' = {}
          <6>1. Highest(taskPrioList') = IdlePrio
            BY <5>1 DEF Highest, IdlePrio
          <6> QED  BY <6>1, PrioFacts DEF ReadyTasks, TablePart, Installed
        <5>2. CASE taskPrioList' # {}
          BY <1>4, <1>5, <5>2, HighestPrio DEF InstalledTasks
        <5> QED  BY <5>1, <5>2
      <4> QED  BY <4>1, PrioFacts DEF ReadyTasks, TablePart, Installed
    <3> QED  BY <1>0, <2>2, <3>1 DEF IrqOut, CpuTypes
  <2> QED  BY <2>1, <2>2
<1>8. CpuTypes'
  BY <1>0, <1>3, <1>7 DEF CpuTypes
<1>9. SemTypes'
  <2>1. Keys(deviceSync, 1) \in 0..SemLimit
    <3>1. semCount[deviceSync] \in 0..SemLimit /\ SemLimit \in Nat
      BY SemLimitAssumption DEF SemTypes
    <3> QED  BY <3>1 DEF Keys
  <2> QED  BY <1>1, <2>1 DEF SemTypes
<1> QED  BY <1>3, <1>6, <1>8, <1>9 DEF KernelTypes

LEMMA CompletesDInv ==
  ASSUME DInv, NEW dir \in Direction, NEW ok \in BOOLEAN, Completes(dir, ok)
  PROVE  DInv'
<1>0. KernelTypes /\ ReadyTasks /\ SemTypes /\ DeviceTypes
  BY DEF DInv
<1>1. /\ UNCHANGED <<timerPendingList, activeList, tcbPtrTbl, delayTime, bmp, currentTask,
                     irqCounter, tick, sems, semOf, timeout, word>>
      /\ UNCHANGED <<threads, arg>> /\ UNCHANGED back
      /\ UNCHANGED <<handle, enabled, busy, master, irq, job>>
  BY DEF Completes
<1>2. KernelTypes' /\ ReadyTasks' /\ SemTypes'
  <2>1. CASE deviceSync # NULL
    <3>1. deviceSync \in Sems /\ FinishSync /\ IrqOut
      BY <1>0, <2>1 DEF Completes, DeviceTypes
    <3> QED  BY <1>0, <1>1, <3>1, FinishDInv
  <2>2. CASE deviceSync = NULL
    <3>1. /\ halted' = "assert"
          /\ UNCHANGED <<taskPrioList, taskStatus, waitList, highPrioTask, pendSV, semCount>>
      BY <2>2 DEF Completes
    <3>2. KernelTypes'
      BY <1>0, <1>1, <3>1 DEF KernelTypes, ListTypes, TaskTypes, WaitTypes, CpuTypes
    <3>3. ReadyTasks' /\ SemTypes'
      BY <1>0, <1>1, <3>1, ReadyTasksKept DEF SemTypes
    <3> QED  BY <3>2, <3>3
  <2> QED  BY <2>1, <2>2
<1>3. ThreadTypes(DriverPlaces)'
  BY <1>1, SameThreads DEF DInv
<1>4. DeviceTypes'
  <2>1. sucess' \in SUBSET Direction
    BY DEF Completes
  <2>2. transfer' \in [Direction -> Prio \cup {NULL}]
    BY <1>0 DEF Completes, DeviceTypes
  <2> QED  BY <1>0, <1>1, <2>1, <2>2 DEF DeviceTypes, handle
<1>5. Callers' /\ LockHasHolder'
  BY <1>1, CallersKept DEF DInv, handle
<1> QED  BY <1>2, <1>3, <1>4, <1>5 DEF DInv
-----------------------------------------------------------------------------
(* The drivers                                                             *)

LEMMA UartDInv ==
  ASSUME DInv, NEW t \in Prio, UartNext(t)
  PROVE  DInv'
<1>0. DeviceTypes /\ 0 \in 0..MaxDelay /\ job[t] \in Jobs
  BY DelayAssumption DEF DInv, DeviceTypes
<1>1. CASE UartConfig(t)
  BY <1>1, ConfigDInv
<1>2. ASSUME NEW operation \in {"tx", "rx", "poll", "enable", "disable"},
             NEW ticks \in 0..MaxDelay, pc[t] = "run", Begin(t, operation, ticks)
      PROVE  DInv'
  BY <1>2, BeginDInv
<1>3. ASSUME NEW ticks \in 0..MaxDelay,
             \/ UartSendByte(t, ticks) \/ UartReadByte(t, ticks)
             \/ \E size \in {0, 1} :
                    UartSendStream(t, size, ticks) \/ UartReadStream(t, size, ticks)
      PROVE  DInv'
  <2>1. pc[t] = "run" /\ (Begin(t, "tx", ticks) \/ Begin(t, "rx", ticks))
    BY <1>3 DEF UartSendByte, UartReadByte, UartSendStream, UartReadStream, UartFree, DevCalls, At
  <2> QED  BY <1>2, <2>1
<1>4. CASE \/ UartPollOut(t) \/ (\E buffer \in {NULL, t} : UartPollIn(t, buffer))
           \/ UartEnable(t) \/ UartDisable(t)
  <2>1. /\ pc[t] = "run"
        /\ \E operation \in {"poll", "enable", "disable"} : Begin(t, operation, 0)
    BY <1>4 DEF UartPollOut, UartPollIn, UartEnable, UartDisable, UartFree, DevCalls, At
  <2> QED  BY <1>0, <1>2, <2>1
<1>5. CASE UartStart(t)
  <2>1. \E x \in Prio \cup {NULL} : transfer' = [transfer EXCEPT ![job[t].op] = x]
    BY <1>0, <1>5 DEF UartStart, Locks, DeviceTypes
  <2>2. /\ pc[t] = "lock" /\ Goto(t, "sync") /\ KernelUnchanged /\ busy' = TRUE
        /\ UNCHANGED <<handle, enabled, master, sucess, irq, job>>
    BY <1>5 DEF UartStart, Locks, At
  <2> QED  BY <2>1, <2>2, LocksDInv
<1>6. CASE UartTimedOut(t) \/ UartDone(t)
  <2>1. /\ pc[t] \in {"timedout", "done"} /\ Returns(t) /\ busy' = FALSE
        /\ UNCHANGED <<handle, enabled, master, sucess, irq>>
        /\ UNCHANGED transfer \/ transfer' = [transfer EXCEPT ![job[t].op] = NULL]
    BY <1>6 DEF UartTimedOut, UartDone, At
  <2> QED  BY <1>0, <2>1, ReturnsDInv DEF DeviceTypes
<1>7. CASE UartPolled(t) \/ UartSwitched(t)
  <2>1. /\ pc[t] = "locked" /\ Returns(t) /\ busy' = FALSE
        /\ UNCHANGED <<handle, master, sucess, transfer>>
        /\ \/ UNCHANGED <<enabled, irq>>
           \/ enabled' = (job[t].op = "enable") /\ irq' = (job[t].op = "enable")
    BY <1>7 DEF UartPolled, UartSwitched, Locked, At, hardware
  <2>2. enabled' \in BOOLEAN /\ irq' \in BOOLEAN /\ master' \in BOOLEAN
    BY <1>0, <2>1 DEF DeviceTypes
  <2> QED  BY <2>1, <2>2, ReturnsDInv
<1> QED  BY <1>1, <1>3, <1>4, <1>5, <1>6, <1>7 DEF UartNext

LEMMA I2cDInv ==
  ASSUME DInv, NEW t \in Prio, I2cNext(t)
  PROVE  DInv'
<1>0. DeviceTypes /\ 0 \in 0..MaxDelay /\ job[t] \in Jobs
  BY DelayAssumption DEF DInv, DeviceTypes
<1>1. ASSUME NEW operation \in {"tx", "rx", "config", "enable", "disable"},
             NEW ticks \in 0..MaxDelay, pc[t] = "run", Begin(t, operation, ticks)
      PROVE  DInv'
  BY <1>1, BeginDInv
<1>2. ASSUME NEW ticks \in 0..MaxDelay,
             \/ I2cSendByte(t, ticks)
             \/ \E size, addrSize \in {0, 1} :
                    \/ I2cSendStream(t, size, addrSize, ticks)
                    \/ I2cReadByte(t, addrSize, ticks)
                    \/ I2cReadStream(t, size, addrSize, ticks)
      PROVE  DInv'
  <2>1. pc[t] = "run" /\ (Begin(t, "tx", ticks) \/ Begin(t, "rx", ticks))
    BY <1>2 DEF I2cSendByte, I2cSendStream, I2cReadByte, I2cReadStream, I2cFree, DevCalls, At
  <2> QED  BY <1>1, <2>1
<1>3. CASE I2cConfig(t) \/ I2cEnable(t) \/ I2cDisable(t)
  <2>1. /\ pc[t] = "run"
        /\ \E operation \in {"config", "enable", "disable"} : Begin(t, operation, 0)
    BY <1>3 DEF I2cConfig, I2cEnable, I2cDisable, I2cFree, DevCalls, At
  <2> QED  BY <1>0, <1>1, <2>1
<1>4. CASE I2cStart(t)
  <2>1. /\ pc[t] = "lock" /\ Goto(t, "sync") /\ KernelUnchanged /\ busy' = TRUE
        /\ UNCHANGED <<handle, enabled, master, irq, job>> /\ sucess' \subseteq sucess
        /\ transfer' = [transfer EXCEPT ![job[t].op] = t]
    BY <1>4 DEF I2cStart, Locks, At
  <2> QED  BY <2>1, LocksDInv
<1>5. CASE I2cNotStarted(t)
  <2>1. /\ pc[t] = "lock" /\ Returns(t) /\ busy' = FALSE /\ sucess' \subseteq sucess
        /\ UNCHANGED <<handle, enabled, master, irq>> /\ UNCHANGED transfer
    BY <1>5 DEF I2cNotStarted, Locks, At, hardware
  <2> QED  BY <1>0, <2>1, ReturnsDInv DEF DeviceTypes
<1>6. CASE I2cTimedOut(t) \/ I2cDone(t)
  <2>1. /\ pc[t] \in {"timedout", "done"} /\ Returns(t) /\ busy' = FALSE
        /\ UNCHANGED <<handle, enabled, master, sucess, irq>>
        /\ UNCHANGED transfer \/ transfer' = Idle
    BY <1>6 DEF I2cTimedOut, I2cDone, At
  <2> QED  BY <1>0, <2>1, ReturnsDInv DEF DeviceTypes
<1>7. CASE I2cConfigured(t) \/ I2cSwitched(t)
  <2>1. /\ pc[t] = "locked" /\ Returns(t) /\ busy' = FALSE /\ UNCHANGED <<handle, sucess>>
        /\ UNCHANGED transfer \/ transfer' = Idle
        /\ \/ master' \in BOOLEAN /\ enabled' = FALSE /\ irq' = FALSE
           \/ /\ UNCHANGED master
              /\ enabled' = (job[t].op = "enable") /\ irq' = (job[t].op = "enable")
    BY <1>7 DEF I2cConfigured, I2cSwitched, Locked, At
  <2>2. enabled' \in BOOLEAN /\ irq' \in BOOLEAN /\ master' \in BOOLEAN
    BY <1>0, <2>1 DEF DeviceTypes
  <2> QED  BY <2>1, <2>2, ReturnsDInv
<1> QED  BY <1>2, <1>3, <1>4, <1>5, <1>6, <1>7 DEF I2cNext

LEMMA LockDInv ==
  ASSUME DInv, NEW t \in Prio, Lock(t)
  PROVE  DInv'
<1>1. /\ pc[t] = "lock" /\ Goto(t, "locked") /\ KernelUnchanged /\ busy' = TRUE
      /\ UNCHANGED <<handle, enabled, master, sucess, irq, job>> /\ UNCHANGED transfer
  BY DEF Lock, At, hardware
<1> QED  BY <1>1, LocksDInv

LEMMA DNextInv ==
  ASSUME Api \subseteq TimingCalls, DInv, [DriverNext]_everything
  PROVE  DInv'
<1>1. CASE SemNext /\ UNCHANGED deviceVars
  BY <1>1, SemDInv
<1>2. ASSUME NEW t \in Prio,
             \/ Open(t) \/ OpenCreate(t) \/ Lock(t) \/ StartSync(t) \/ UartNext(t) \/ I2cNext(t)
      PROVE  DInv'
  BY <1>2, OpenDInv, OpenCreateDInv, LockDInv, StartSyncDInv, UartDInv, I2cDInv
<1>3. ASSUME NEW dir \in Direction, NEW ok \in BOOLEAN, Completes(dir, ok)
      PROVE  DInv'
  BY <1>3, CompletesDInv
<1>4. CASE UNCHANGED everything
  BY <1>4, StutterDInv
<1> QED  BY <1>1, <1>2, <1>3, <1>4 DEF DriverNext
-----------------------------------------------------------------------------
\* The variables keep their types, and refCount is the number of the tasks that
\* have opened the device, in any interleaving of the tasks' calls with the tick
\* and with the device's interrupt, even where that interrupt falls into the
\* tick's update of the ready list and loses a task.
THEOREM DriverTypeCorrect ==
  Api \subseteq TimingCalls => (DriverSpec => []DriverTypeOK)
<1> SUFFICES ASSUME Api \subseteq TimingCalls PROVE DriverSpec => []DriverTypeOK
  OBVIOUS
<1>1. DriverInit => DInv
  BY DInitInv
<1>2. DInv /\ [DriverNext]_everything => DInv'
  BY DNextInv
<1>3. DInv => DriverTypeOK
  BY DInvTypes
<1> QED  BY <1>1, <1>2, <1>3, PTL DEF DriverSpec

\* Whenever uartDriverData or i2cDriverData says the device is busy, a call is in
\* progress that will clear the flag: it has been through its lock and every way
\* on from there, with a key, without one, or refused by the hardware, unlocks.
THEOREM LockHeld ==
  Api \subseteq TimingCalls => (DriverSpec => []LockHasHolder)
<1> SUFFICES ASSUME Api \subseteq TimingCalls PROVE DriverSpec => []LockHasHolder
  OBVIOUS
<1>1. DriverInit => DInv
  BY DInitInv
<1>2. DInv /\ [DriverNext]_everything => DInv'
  BY DNextInv
<1>3. DInv => LockHasHolder
  BY DEF DInv
<1> QED  BY <1>1, <1>2, <1>3, PTL DEF DriverSpec
-----------------------------------------------------------------------------
(* Reads from the bus                                                      *)

\* The bus has one transfer at most, and none that reads once the receiver's
\* success flag is set.
BusPart == /\ transfer \in [Direction -> Prio \cup {NULL}]
           /\ kind = "i2c" => /\ \E dir \in Direction : transfer[dir] = NULL
                              /\ "rx" \in sucess => transfer["rx"] = NULL

LEMMA IdleBus == Idle \in [Direction -> Prio \cup {NULL}] /\ \A dir \in Direction : Idle[dir] = NULL
BY DEF Idle

\* The bus is left alone, stopped, or has its transfer ended with no new success.
LEMMA BusKept ==
  ASSUME BusPart, UNCHANGED kind, sucess' \subseteq sucess,
         \/ UNCHANGED transfer \/ transfer' = Idle
         \/ \E dir \in Direction : transfer' = [transfer EXCEPT ![dir] = NULL]
  PROVE  BusPart'
BY IdleBus DEF BusPart, Direction

LEMMA UartBus ==
  ASSUME BusPart, NEW t \in Prio, UartNext(t)
  PROVE  BusPart'
<1>1. kind = "uart" /\ UNCHANGED kind
  BY DEF UartNext, UartConfig, UartSendByte, UartReadByte, UartSendStream, UartReadStream,
         UartStart, UartTimedOut, UartDone, UartPollOut, UartPollIn, UartPolled, UartEnable,
         UartDisable, UartSwitched, UartFree, Locks, Locked, Begin, handle, custom, hardware
<1>2. transfer' \in [Direction -> Prio \cup {NULL}]
  <2>1. \/ UNCHANGED transfer
        \/ \E x \in Prio \cup {NULL} : transfer' = [transfer EXCEPT ![job[t].op] = x]
    <3>1. job[t].op \in Direction => transfer[job[t].op] \in Prio \cup {NULL}
      BY DEF BusPart
    <3> QED
      BY <3>1
      DEF UartNext, UartConfig, UartSendByte, UartReadByte, UartSendStream, UartReadStream,
          UartStart, UartTimedOut, UartDone, UartPollOut, UartPollIn, UartPolled, UartEnable,
          UartDisable, UartSwitched, UartFree, Locks, Begin, hardware
  <2> QED  BY <2>1 DEF BusPart
<1> QED  BY <1>1, <1>2 DEF BusPart

LEMMA I2cBus ==
  ASSUME BusPart, NEW t \in Prio, I2cNext(t)
  PROVE  BusPart'
<1>1. CASE I2cStart(t)
  <2>1. /\ transfer = Idle /\ job[t].op \in Direction /\ UNCHANGED kind
        /\ sucess' = sucess \ {job[t].op}
        /\ transfer' = [transfer EXCEPT ![job[t].op] = t]
    BY <1>1 DEF I2cStart, Locks, handle
  <2> QED  BY <2>1, IdleBus DEF BusPart, Direction
<1>2. CASE ~I2cStart(t)
  <2>1. /\ UNCHANGED kind /\ sucess' \subseteq sucess
        /\ UNCHANGED transfer \/ transfer' = Idle
    BY <1>2 DEF I2cNext, I2cConfig, I2cConfigured, I2cSendByte, I2cSendStream, I2cReadByte,
                I2cReadStream, I2cNotStarted, I2cTimedOut, I2cDone, I2cEnable, I2cDisable,
                I2cSwitched, I2cFree, Begin, handle, custom, hardware
  <2> QED  BY <2>1, BusKept
<1> QED  BY <1>1, <1>2

LEMMA CompletesBus ==
  ASSUME BusPart, NEW dir \in Direction, NEW ok \in BOOLEAN, Completes(dir, ok)
  PROVE  BusPart'
<1>1. /\ transfer[dir] # NULL /\ UNCHANGED kind
      /\ sucess' = IF ok THEN Direction ELSE {}
      /\ transfer' = IF ~ok /\ kind = "uart" /\ dir = "rx" THEN transfer
                     ELSE [transfer EXCEPT ![dir] = NULL]
  BY DEF Completes, handle
<1>2. transfer' \in [Direction -> Prio \cup {NULL}]
  BY <1>1 DEF BusPart
<1>3. ASSUME kind = "i2c" PROVE transfer'["tx"] = NULL /\ transfer'["rx"] = NULL
  BY <1>1, <1>3 DEF BusPart, Direction
<1> QED  BY <1>1, <1>2, <1>3 DEF BusPart, Direction

LEMMA BusNext ==
  ASSUME BusPart, [DriverNext]_everything
  PROVE  BusPart'
<1>1. CASE (SemNext /\ UNCHANGED deviceVars) \/ UNCHANGED everything
  BY <1>1, BusKept DEF deviceVars, everything, handle, custom, hardware
<1>2. ASSUME NEW t \in Prio, Open(t) \/ OpenCreate(t) \/ Lock(t) \/ StartSync(t)
      PROVE  BusPart'
  <2>1. UNCHANGED <<kind, sucess, transfer>>
    BY <1>2 DEF Open, OpenCreate, Lock, StartSync, deviceVars, handle, custom, hardware
  <2> QED  BY <2>1, BusKept
<1>3. ASSUME NEW t \in Prio, UartNext(t) \/ I2cNext(t)
      PROVE  BusPart'
  BY <1>3, UartBus, I2cBus
<1>4. ASSUME NEW dir \in Direction, NEW ok \in BOOLEAN, Completes(dir, ok)
      PROVE  BusPart'
  BY <1>4, CompletesBus
<1> QED  BY <1>1, <1>2, <1>3, <1>4 DEF DriverNext

\* KL25Z_I2CReadByte and KL25Z_I2CReadStream report success only for a read of
\* their own that the bus has ended: they clear the receiver's flag before they
\* start it, and the bus takes no other transfer meanwhile. So it is whatever calls
\* the tasks make, and whatever key an earlier transfer left in the semaphore.
THEOREM ReadsComplete == DriverSpec => ReadsAreComplete
<1>1. DriverInit => BusPart
  BY IdleBus DEF DriverInit, DeviceInit, BusPart, Direction
<1>2. BusPart /\ [DriverNext]_everything => BusPart'
  BY BusNext
<1> DEFINE Complete == \A t \in Prio : (pc[t] = "done" /\ pc'[t] = "run" /\ kind = "i2c"
                                        /\ job[t].op = "rx" /\ "rx" \in sucess)
                                           => transfer["rx"] # t
<1>3. BusPart => Complete
  BY SemFacts DEF BusPart
<1>4. BusPart /\ [DriverNext]_everything => [Complete]_everything
  BY <1>3
<1> HIDE DEF Complete
<1>5. DriverSpec => [][Complete]_everything
  BY <1>1, <1>2, <1>4, PTL DEF DriverSpec
<1> QED  BY <1>5 DEF ReadsAreComplete, Complete
=============================================================================
