-------------------------------- MODULE Task --------------------------------
(***************************************************************************)
(* The task calls (microkernel/OsTask.c) and what a task that returns      *)
(* falls into (uLipeTaskEntry, microkernel/OsKernel.c), on top of Kernel.  *)
(*                                                                         *)
(* A call is a check outside the critical section, the critical section,   *)
(* and a yield: three or four steps another thread or the tick may come    *)
(* between. A call its check refuses changes nothing and is left out.      *)
(***************************************************************************)
EXTENDS Kernel

CONSTANTS Boot,            \* tasks created before the kernel starts
          Api,             \* the calls the tasks make
          HeapBlocks       \* blocks the heap has room for

ASSUME BootAssumption == Boot \subseteq Prio \ {IdlePrio}
ASSUME ApiAssumption ==
    Api \subseteq {"delay", "suspend", "resume", "create", "delete", "return"}
ASSUME HeapAssumption ==
    HeapBlocks \in Nat /\ HeapBlocks >= 2 * Cardinality(Boot) + 2

VARIABLES
    tasksCount,            \* count of installed tasks
    heap,                  \* blocks allocated: two per task, stack and TCB
    heapDirty,             \* some block was freed: new ones may hold anything
    arg                    \* the priority a call in progress is about

taskVars == <<tasksCount, heap, heapDirty>>
vars == <<kernelVars, taskVars, arg>>

\* The priorities calls are about: the idle task is left alone, and the
\* highest priority is the one reserved for mutexes.
UserPrio == 1..N-2

TaskLabels == {"run", "suspend", "resume", "create", "delete",
               "yield", "publish", "spin", "trapped"}

Init == /\ KernelInit(Boot)
        /\ tasksCount = Cardinality(Boot) + 1
        /\ heap = 2 * (Cardinality(Boot) + 1)
        /\ heapDirty = FALSE
        /\ arg = [p \in Prio |-> 0]

\* Application code makes a call: user tasks only.
Calls(t, call) == call \in Api /\ t # IdlePrio /\ At(t, "run")

\* On to the critical section of a call about priority p.
Enter(t, label, p) == /\ Goto(t, label)
                      /\ arg' = [arg EXCEPT ![t] = p]

\* The end of a critical section whose call then yields.
Leave(t) == /\ Goto(t, "yield")
            /\ arg' = [arg EXCEPT ![t] = 0]
-----------------------------------------------------------------------------
(* uLipeTaskDelay                                                          *)

\* Faulty: counts one tick more.
DelayOneMore(t, ticks) ==
    /\ Calls(t, "delay")
    /\ Unready(t)
    /\ taskStatus' = [taskStatus EXCEPT ![t] = @ \cup {"PendDelay"}]
    /\ delayTime' = [delayTime EXCEPT ![t] = ticks + 1]
    /\ timerPendingList' = [timerPendingList EXCEPT ![activeList] = @ \cup {t}]
    /\ Leave(t)
    /\ UNCHANGED <<activeList, tcbPtrTbl, bmp, waitList, cpu, yieldPrio, after, taskVars>>

Delay(t, ticks) ==
    /\ Calls(t, "delay")
    /\ Unready(t)
    /\ taskStatus' = [taskStatus EXCEPT ![t] = @ \cup {"PendDelay"}]
    /\ delayTime' = [delayTime EXCEPT ![t] = ticks]
    /\ timerPendingList' = [timerPendingList EXCEPT ![activeList] = @ \cup {t}]
    /\ Leave(t)
    /\ UNCHANGED <<activeList, tcbPtrTbl, bmp, waitList, cpu, yieldPrio, after, taskVars>>
-----------------------------------------------------------------------------
(* uLipeTaskSuspend                                                        *)

\* The check, outside the critical section.
SuspendCheck(t, p) ==
    /\ Calls(t, "suspend")
    /\ tcbPtrTbl[p] # NULL
    /\ taskStatus[p] = {}
    /\ Enter(t, "suspend", p)
    /\ UNCHANGED <<lists, objects, cpu, yieldPrio, after, taskVars>>

SuspendTask(t) ==
    /\ At(t, "suspend")
    /\ Unready(arg[t])
    /\ IF tcbPtrTbl[arg[t]] = NULL
       THEN halted' = "null" /\ UNCHANGED taskStatus
       ELSE /\ taskStatus' = [taskStatus EXCEPT ![arg[t]] = @ \cup {"Suspend"}]
            /\ UNCHANGED halted
    /\ Leave(t)
    /\ UNCHANGED <<timerPendingList, activeList, tcbPtrTbl, delayTime, bmp, waitList,
                   currentTask, highPrioTask, irqCounter, pendSV, tick, yieldPrio, after, taskVars>>
-----------------------------------------------------------------------------
(* uLipeTaskResume                                                         *)

ResumeCheck(t, p) ==
    /\ Calls(t, "resume")
    /\ tcbPtrTbl[p] # NULL
    /\ Enter(t, "resume", p)
    /\ UNCHANGED <<lists, objects, cpu, yieldPrio, after, taskVars>>

\* Ready again only if nothing else holds the task back.
ResumeTask(t) ==
    /\ At(t, "resume")
    /\ IF tcbPtrTbl[arg[t]] = NULL
       THEN halted' = "null" /\ UNCHANGED <<taskStatus, taskPrioList>>
       ELSE LET left == taskStatus[arg[t]] \ {"Suspend"}
            IN  /\ taskStatus' = [taskStatus EXCEPT ![arg[t]] = left]
                /\ IF left = {} THEN Ready(arg[t]) ELSE UNCHANGED taskPrioList
                /\ UNCHANGED halted
    /\ Leave(t)
    /\ UNCHANGED <<timerPendingList, activeList, tcbPtrTbl, delayTime, bmp, waitList,
                   currentTask, highPrioTask, irqCounter, pendSV, tick, yieldPrio, after, taskVars>>
-----------------------------------------------------------------------------
(* uLipeTaskCreate                                                         *)

\* The TCB of a new task. Its memory is as the allocator returns it: zero as
\* the heap starts out, but what it last held once blocks have been freed.
\* Create initialises taskStatus only, beside the priority, the entry function
\* and the stack. One stale pointer at a time.
RawTCB(p) ==
    /\ taskStatus' = [taskStatus EXCEPT ![p] = {}]
    /\ \E ticks \in IF heapDirty THEN {0, MaxDelay} ELSE {0} :
           delayTime' = [delayTime EXCEPT ![p] = ticks]
    /\ \E b \in Bmp, v \in IF heapDirty THEN {NULL, Wild} ELSE {NULL} :
           bmp' = [bmp EXCEPT ![p] = [NoList EXCEPT ![b] = v]]

\* Both allocations succeed.
CreateAlloc(t, p) ==
    /\ Calls(t, "create")
    /\ heap + 2 <= HeapBlocks
    /\ heap' = heap + 2
    /\ Enter(t, "create", p)
    /\ UNCHANGED <<lists, objects, cpu, yieldPrio, after, tasksCount, heapDirty>>

\* Faulty: without a stack the TCB is freed twice.
CreateOutOfMemoryFreesTwice(t) ==
    /\ Calls(t, "create")
    /\ heap < HeapBlocks
    /\ \/ heap' = heap + 1 /\ UNCHANGED heapDirty
       \/ heapDirty' = TRUE /\ heap' = heap - 1
    /\ UNCHANGED <<kernelVars, tasksCount, arg>>

\* One of the two fails. Without a TCB a stack is forgotten; without a stack
\* the TCB is freed again.
CreateOutOfMemory(t) ==
    /\ Calls(t, "create")
    /\ heap < HeapBlocks
    /\ \/ heap' = heap + 1 /\ UNCHANGED heapDirty
       \/ heapDirty' = TRUE /\ UNCHANGED heap
    /\ UNCHANGED <<kernelVars, tasksCount, arg>>

\* The critical section refuses: too many tasks, and both blocks are
\* forgotten, or the priority is taken, and both are freed.
CreateRefused(t) ==
    /\ At(t, "create")
    /\ \/ /\ tasksCount >= N
          /\ UNCHANGED <<heap, heapDirty>>
       \/ /\ tasksCount < N
          /\ tcbPtrTbl[arg[t]] # NULL
          /\ heap' = heap - 2
          /\ heapDirty' = TRUE
    /\ Enter(t, "run", 0)
    /\ UNCHANGED <<lists, objects, cpu, yieldPrio, after, tasksCount>>

\* The task is installed and made ready.
CreateTask(t) ==
    LET p == arg[t]
    IN  /\ At(t, "create")
        /\ tasksCount < N
        /\ tcbPtrTbl[p] = NULL
        /\ tasksCount' = tasksCount + 1
        /\ RawTCB(p)
        /\ tcbPtrTbl' = [tcbPtrTbl EXCEPT ![p] = p]
        /\ Ready(p)
        /\ pc' = [pc EXCEPT ![p] = "run", ![t] = "yield"]
        /\ arg' = [arg EXCEPT ![p] = 0, ![t] = 0]
        /\ yieldPrio' = [yieldPrio EXCEPT ![p] = 0]
        /\ after' = [after EXCEPT ![p] = "run"]
        /\ UNCHANGED <<timerPendingList, activeList, waitList, cpu, heap, heapDirty>>
-----------------------------------------------------------------------------
(* uLipeTaskDelete                                                         *)

DeleteCheck(t, p) ==
    /\ Calls(t, "delete")
    /\ tcbPtrTbl[p] # NULL
    /\ Enter(t, "delete", p)
    /\ UNCHANGED <<lists, objects, cpu, yieldPrio, after, taskVars>>

\* The TCB goes back to the heap. The stack does not: the address freed is
\* the task's stack pointer, not the block's. The timer lists, the wait
\* lists and tasksCount keep the task. Where another task had got to is lost
\* with its context.
DeleteTask(t) ==
    LET p == arg[t]
    IN  /\ At(t, "delete")
        /\ Unready(p)
        /\ tcbPtrTbl' = [tcbPtrTbl EXCEPT ![p] = NULL]
        /\ IF tcbPtrTbl[p] = NULL
           THEN halted' = "null" /\ UNCHANGED <<heap, heapDirty>>
           ELSE heap' = heap - 1 /\ heapDirty' = TRUE /\ UNCHANGED halted
        /\ pc' = [pc EXCEPT ![p] = "run", ![t] = "yield"]
        /\ arg' = [arg EXCEPT ![p] = 0, ![t] = 0]
        /\ yieldPrio' = [yieldPrio EXCEPT ![p] = 0]
        /\ after' = [after EXCEPT ![p] = "run", ![t] = after[t]]
        /\ UNCHANGED <<timerPendingList, activeList, tcb, waitList, currentTask,
                       highPrioTask, irqCounter, pendSV, tick, tasksCount>>
-----------------------------------------------------------------------------
(* uLipeTaskEntry                                                          *)

\* The task's function returns: the task suspends itself, or deletes itself
\* if that is refused, and spins if it ever runs again.
Return(t) ==
    /\ Calls(t, "return")
    /\ tcbPtrTbl[t] # NULL
    /\ Enter(t, IF taskStatus[t] = {} THEN "suspend" ELSE "delete", t)
    /\ after' = [after EXCEPT ![t] = "spin"]
    /\ UNCHANGED <<lists, objects, cpu, yieldPrio, taskVars>>
-----------------------------------------------------------------------------
\* A thread goes on with the call it is in.
Proceed(t) == \/ Yield(t) /\ UNCHANGED <<taskVars, arg>>
              \/ SuspendTask(t) \/ ResumeTask(t)
              \/ CreateRefused(t) \/ CreateTask(t) \/ DeleteTask(t)

\* A task starts a call, or returns.
Call(t) == \/ \E ticks \in 1..MaxDelay : Delay(t, ticks)
           \/ \E p \in UserPrio : \/ SuspendCheck(t, p) \/ ResumeCheck(t, p)
                                  \/ CreateAlloc(t, p) \/ DeleteCheck(t, p)
           \/ CreateOutOfMemory(t)
           \/ Return(t)

Interrupts == Interrupt /\ UNCHANGED <<taskVars, arg>>

Next == Interrupts \/ \E t \in Prio : Proceed(t) \/ Call(t)

Spec == Init /\ [][Next]_vars

\* The handlers end, a pending exception is taken, and SysTick, whose
\* request stays latched while PendSV goes first, is taken again and again.
\* Nothing is assumed of the threads, whose every step an interrupt may delay.
Fairness ==
    /\ SF_vars(TickEnter /\ UNCHANGED <<taskVars, arg>>)
    /\ WF_vars((TickTask \/ TickOut \/ PendSV) /\ UNCHANGED <<taskVars, arg>>)

FairSpec == Spec /\ Fairness
-----------------------------------------------------------------------------
(* Properties                                                              *)

TypeOK == /\ KernelTypeOK(TaskLabels)
          /\ tasksCount \in 0..N
          /\ heap \in 0..HeapBlocks
          /\ heapDirty \in BOOLEAN
          /\ arg \in [Prio -> Prio]

Installed(p) == tcbPtrTbl[p] # NULL
InstalledTasks == {p \in Prio : Installed(p)}
Creators == {p \in InstalledTasks : pc[p] = "create"}
Sleeps(p) == "PendDelay" \in taskStatus[p]
Counting(p) == p \in timerPendingList[0] \cup timerPendingList[1]

\* The scheduler's list and the tasks' own status say the same: an installed
\* task is in the ready list exactly when no status bit holds it back, and
\* the list names no task that is not installed. Create, delete, suspend,
\* resume, delay and the tick each write the two in separate statements.
ReadyIffUnblocked == \A p \in Prio :
    p \in taskPrioList <=> (Installed(p) /\ taskStatus[p] = {})

\* A task counts ticks exactly while it sleeps, in one of the two lists, with
\* ticks left to count, and outside the tick's loop in the active one.
TimerMatchesDelay ==
    /\ \A p \in Prio : Sleeps(p) <=> Counting(p)
    /\ \A p \in Prio : Counting(p) => delayTime[p] > 0
    /\ Active \cap Backup = {}
    /\ tick # "loop" => Backup = {}

\* The timer entries that a kernel object leaves behind when it wakes a task
\* (uLipeSemGive, say) do no harm to the lists: whoever sleeps is counting, in
\* one list only, and every entry, stale or not, has ticks left, so that the
\* tick's assertion holds.
SleepersCount ==
    /\ \A p \in Prio : Sleeps(p) => Counting(p)
    /\ \A p \in Prio : Counting(p) => delayTime[p] > 0
    /\ Active \cap Backup = {}

\* The kernel's assertions hold, and it follows no null or wild pointer.
NoFault == halted = "no" /\ \A t \in Prio : pc[t] # "trapped"

\* Every sleeper's ticks as the clock counts them: while the tick's loop
\* runs, an entry still in the active list is about to be decremented.
Left == [p \in Prio |->
           IF ~Sleeps(p) THEN 0
           ELSE IF tick = "loop" /\ p \in Active THEN delayTime[p] - 1
           ELSE delayTime[p]]

\* The two timer lists with their exchange implement a clock that counts
\* every tick exactly once for every sleeper.
Clock == INSTANCE AlarmClock WITH Sleeper <- Prio, left <- Left
ClockSpec == Clock!ClockSpec

\* A deleted task executes nothing but the yield of the call that deleted it,
\* although its context stays on the processor and its TCB is freed before
\* that yield: no stale dispatch brings it back, and the tick switches away
\* from it for good.
DeletedNeverRuns == \A t \in Prio :
    Runs(t) /\ ~Installed(t) => pc[t] \in {"yield", "publish"}

\* No path of create, delete or the failing allocations frees a block twice
\* or frees one in use: the heap holds a TCB and a stack for every installed
\* task and for every create in progress.
HeapCoversTasks ==
    heap >= 2 * (Cardinality(InstalledTasks) + Cardinality(Creators))

\* "uLipeAssert(tcb->delayTime > 0)" (OsKernel.c) for the entry the tick's
\* loop looks at: it belongs to an installed task that has ticks to count.
TickEntriesCount ==
    tick = "loop" => LET i == Highest(Active)
                     IN  Installed(i) /\ delayTime[i] > 0

\* A task that is the highest ready one runs, unless that changes first.
HighestRuns == \A p \in Prio :
    (p = Highest(taskPrioList) /\ currentTask # p)
        ~> (currentTask = p \/ p # Highest(taskPrioList))

\* A sleeper is made ready, unless it is put to sleep again.
DelayEnds == \A p \in Prio : Sleeps(p) ~> p \in taskPrioList

\* "Suspends current task execution for a amount of ticks" (OsTask.h): a task
\* that a delay or a suspension holds back executes no application code.
SleepersDoNotRun == \A t \in Prio : At(t, "run") => taskStatus[t] = {}
=============================================================================
