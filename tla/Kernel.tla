------------------------------- MODULE Kernel -------------------------------
(***************************************************************************)
(* The scheduler of uLipeRtos: ready list, timer lists, tick interrupt,    *)
(* yield and context switch (microkernel/OsKernel.c and the Cortex-M0 port *)
(* in microkernel/arch/arm_cm0/). Task and the modules of the kernel       *)
(* objects extend this one with the calls the threads make.                *)
(*                                                                         *)
(* One core. Threads interleave where an interrupt may preempt them: a     *)
(* critical section (OS_CRITICAL_IN .. OS_CRITICAL_OUT, primask) is one    *)
(* step. SysTick and PendSV have the same effective priority, so neither   *)
(* preempts the other, and PendSV, the lower exception number, goes first. *)
(*                                                                         *)
(* A TCB is named by the priority its task was created with, the code's    *)
(* tcb->taskPrio; a set of priorities stands for an OsPrioList_t of the    *)
(* kernel's own (see PrioList).                                            *)
(***************************************************************************)
EXTENDS Highest

CONSTANTS N,               \* OS_NUMBER_OF_TASKS
          MaxDelay,        \* the longest delay or timeout asked for
          List,            \* the wait lists of the kernel objects
          NULL,            \* no TCB, no wait list
          Wild             \* a pointer read from memory nobody initialised

ASSUME SizeAssumption == N \in 2..31
ASSUME DelayAssumption == MaxDelay \in Nat /\ MaxDelay > 0 /\ MaxDelay <= 65535
ASSUME PointerAssumption == /\ NULL \notin 0..N-1
                            /\ NULL \notin List /\ Wild \notin List
                            /\ NULL # Wild

Prio == 0..N-1
IdlePrio == 0              \* OS_LEAST_PRIO

\* The bits of taskStatus; the empty set is kTaskReady.
Status == {"Suspend", "PendDelay", "PendFlagAll", "PendFlagAny",
           "PenFlagConsume", "PendSem", "PendMtx", "PendQueue"}

\* The TCB's pointers to the list the task waits in, one per kind of object.
Bmp == {"mtx", "flags", "queue", "sem"}

VARIABLES
    taskPrioList,          \* priorities ready to run
    timerPendingList,      \* the two lists of priorities that count ticks
    activeList,            \* which of the two the next tick works off
    tcbPtrTbl,             \* priority -> its TCB, or NULL
    taskStatus,            \* what blocks each TCB's task
    delayTime,             \* the ticks it has left to wait
    bmp,                   \* the wait lists it points to
    waitList,              \* the priority lists of the kernel objects
    currentTask,           \* the task whose context is on the processor
    highPrioTask,          \* the task PendSV switches to
    irqCounter,            \* nesting of the interrupt handlers
    pendSV,                \* the PendSV exception is pending
    tick,                  \* where SysTick_Handler is: "off", "loop", "out"
    halted,                \* why the model stops, or "no"
    pc,                    \* where each thread is
    yieldPrio,             \* uLipeKernelTaskYield's local prio, per thread
    after                  \* where the thread goes on after its yield

lists   == <<taskPrioList, timerPendingList, activeList>>
tcb     == <<taskStatus, delayTime, bmp>>
objects == <<tcbPtrTbl, tcb, waitList>>
cpu     == <<currentTask, highPrioTask, irqCounter, pendSV, tick, halted>>
threads == <<pc, yieldPrio, after>>

kernelVars == <<lists, objects, cpu, threads>>
-----------------------------------------------------------------------------
(* Operators                                                               *)

\* Faulty: clears the neighbour's bit.
UnreadyNeighbour(p) == taskPrioList' = taskPrioList \ {p + 1}

Ready(p)   == taskPrioList' = taskPrioList \cup {p}
Unready(p) == taskPrioList' = taskPrioList \ {p}

\* uLipePrioSet, uLipePrioClr (of every priority in gone) and
\* uLipeKernelFindHighPrio on an object's wait list, whose two levels may
\* disagree: its words are not always written inside one critical section.
Enlist(list, p) == [prioGrp |-> TRUE, prioTbl |-> list.prioTbl \cup {p}]
Delist(list, gone) ==
    [prioGrp |-> list.prioGrp /\ (gone = {} \/ list.prioTbl \ gone # {}),
     prioTbl |-> list.prioTbl \ gone]
First(list) == IF list.prioGrp THEN Highest(list.prioTbl) ELSE 0

\* The waiter an object wakes first, if there is one.
FirstWaiter(l) == LET first == First(waitList[l]) IN IF first # 0 THEN {first} ELSE {}

\* What still holds a task back that these causes no longer do.
Held(p, causes) == taskStatus[p] \ causes

\* These tasks of one wait list, and of no other.
Only(l, waiters) == [k \in {l} |-> waiters]
All(from) == UNION {from[l] : l \in DOMAIN from}

\* Faulty: woken, whatever else holds the task back.
WakeAlways(from, causes) ==
    /\ waitList' = [l \in List |-> IF l \in DOMAIN from THEN Delist(waitList[l], from[l])
                                    ELSE waitList[l]]
    /\ taskStatus' = [p \in Prio |-> IF p \in All(from) THEN Held(p, causes) ELSE taskStatus[p]]
    /\ taskPrioList' = taskPrioList \cup All(from)
    /\ UNCHANGED halted

\* The loops in which an object lets waiters go: from says which leave which
\* wait list, and those nothing else holds back are ready. Their entries in a
\* timer list and their pointers to the wait list stay.
Unblock(from, causes) ==
    IF \E p \in All(from) : tcbPtrTbl[p] = NULL
    THEN halted' = "null" /\ UNCHANGED <<taskStatus, waitList>>
    ELSE /\ waitList' = [l \in List |-> IF l \in DOMAIN from THEN Delist(waitList[l], from[l])
                                         ELSE waitList[l]]
         /\ taskStatus' = [p \in Prio |-> IF p \in All(from) THEN Held(p, causes)
                                          ELSE taskStatus[p]]
         /\ UNCHANGED halted

Freed(from, causes) == {p \in All(from) : tcbPtrTbl[p] # NULL /\ Held(p, causes) = {}}

Wake(from, causes) == /\ Unblock(from, causes)
                      /\ taskPrioList' = taskPrioList \cup Freed(from, causes)

NoList == [b \in Bmp |-> NULL]
EmptyList == [prioGrp |-> FALSE, prioTbl |-> {}]

\* The thread may execute its next instruction.
Runs(t) == /\ halted = "no" /\ tick = "off" /\ ~pendSV
           /\ currentTask = t

\* The thread's next step, and where it goes from there.
At(t, label) == Runs(t) /\ pc[t] = label
Goto(t, label) == pc' = [pc EXCEPT ![t] = label]
-----------------------------------------------------------------------------
(* Start: uLipeRtosInit, the creation of the tasks in boot, uLipeRtosStart *)
(* and SVC_Handler have run; the interrupts only then begin to count.      *)

KernelInit(boot) ==
    /\ taskPrioList = boot \cup {IdlePrio}
    /\ timerPendingList = [l \in {0, 1} |-> {}]
    /\ activeList = 0
    /\ tcbPtrTbl = [p \in Prio |-> IF p \in boot \cup {IdlePrio} THEN p ELSE NULL]
    /\ taskStatus = [p \in Prio |-> {}]
    /\ delayTime = [p \in Prio |-> 0]
    /\ bmp = [p \in Prio |-> NoList]
    /\ waitList = [l \in List |-> EmptyList]
    /\ currentTask = Highest(boot \cup {IdlePrio})
    /\ highPrioTask = currentTask
    /\ irqCounter = 0
    /\ pendSV = FALSE
    /\ tick = "off"
    /\ halted = "no"
    /\ pc = [p \in Prio |-> "run"]
    /\ yieldPrio = [p \in Prio |-> 0]
    /\ after = [p \in Prio |-> "run"]
-----------------------------------------------------------------------------
(* uLipeKernelTaskYield                                                    *)

\* Faulty: switches to higher priorities only.
PublishUpwards(prio) == /\ highPrioTask' = tcbPtrTbl[prio]
                        /\ pendSV' = (prio > currentTask)

\* The second half: tcbPtrTbl[prio] becomes highPrioTask, and PendSV is
\* requested unless that is the running task. Nothing needs separating here:
\* after the store only the comparison and the request are left, and a tick
\* between them has stored, compared and requested itself.
Publish(prio) == /\ highPrioTask' = tcbPtrTbl[prio]
                 /\ pendSV' = (tcbPtrTbl[prio] # currentTask)

\* Called by a thread, first half: an interrupt after it leaves prio stale.
YieldFind(t) ==
    /\ At(t, "yield")
    /\ yieldPrio' = [yieldPrio EXCEPT ![t] = Highest(taskPrioList)]
    /\ Goto(t, IF irqCounter > 0 THEN after[t] ELSE "publish")
    /\ UNCHANGED <<lists, objects, cpu, after>>

\* The assertion that the priority is installed, and the second half. A
\* failed assertion spins in the thread that made it.
YieldPublish(t) ==
    /\ At(t, "publish")
    /\ IF tcbPtrTbl[yieldPrio[t]] = NULL
       THEN Goto(t, "trapped") /\ UNCHANGED <<highPrioTask, pendSV>>
       ELSE Goto(t, after[t]) /\ Publish(yieldPrio[t])
    /\ yieldPrio' = [yieldPrio EXCEPT ![t] = 0]
    /\ after' = [after EXCEPT ![t] = "run"]
    /\ UNCHANGED <<lists, objects, currentTask, irqCounter, tick, halted>>

\* PendSV_Handler: saves the context of currentTask and restores that of
\* highPrioTask.
PendSV ==
    /\ halted = "no" /\ pendSV /\ tick = "off"
    /\ currentTask' = highPrioTask
    /\ pendSV' = FALSE
    /\ UNCHANGED <<lists, objects, highPrioTask, irqCounter, tick, halted, threads>>
-----------------------------------------------------------------------------
(* SysTick_Handler: uLipeKernelRtosTick                                    *)

Active == timerPendingList[activeList]
Backup == timerPendingList[1 - activeList]

\* uLipeKernelIrqIn, and the first look at the active list.
TickEnter ==
    /\ halted = "no" /\ tick = "off" /\ ~pendSV
    /\ irqCounter' = IF irqCounter < 65535 THEN irqCounter + 1 ELSE irqCounter
    /\ tick' = IF Highest(Active) # 0 THEN "loop" ELSE "out"
    /\ UNCHANGED <<lists, objects, currentTask, highPrioTask, pendSV, halted, threads>>

\* Faulty: the lists are never exchanged.
TurnNoExchange(active, backup) ==
    /\ timerPendingList' = [timerPendingList EXCEPT ![activeList] = active,
                                                    ![1 - activeList] = backup]
    /\ tick' = IF Highest(active) # 0 THEN tick ELSE "out"
    /\ UNCHANGED activeList

\* Faulty: the task stays listed whatever became of it.
TurnKeepsAll(active, backup) ==
    /\ timerPendingList' = [timerPendingList EXCEPT ![activeList] = active,
                                                    ![1 - activeList] = backup \cup Active]
    /\ IF Highest(active) # 0
       THEN UNCHANGED <<activeList, tick>>
       ELSE activeList' = 1 - activeList /\ tick' = "out"

\* Faulty: the lists are exchanged after the first task.
TurnOnce(active, backup) ==
    /\ timerPendingList' = [timerPendingList EXCEPT ![activeList] = active,
                                                    ![1 - activeList] = backup]
    /\ activeList' = 1 - activeList
    /\ tick' = "out"

\* One turn of the loop leaves the two lists with these members; when the
\* active one holds nothing more, the lists are exchanged.
Turn(active, backup) ==
    /\ timerPendingList' = [timerPendingList EXCEPT ![activeList] = active,
                                                    ![1 - activeList] = backup]
    /\ IF Highest(active) # 0
       THEN UNCHANGED <<activeList, tick>>
       ELSE activeList' = 1 - activeList /\ tick' = "out"

\* The wait lists a TCB points to lose its priority. The second word of a
\* flag group is missed: "flagsBmp + sizeof(OsPrioList_t)" advances by whole
\* lists, so a bit is cleared in whatever lies there, stray.
LeaveWaitLists(p, stray) ==
    LET left == {bmp[p][b] : b \in Bmp}
                \cup (IF bmp[p]["flags"] # NULL THEN {stray} ELSE {})
    IN  waitList' = [l \in List |-> IF l \in left THEN Delist(waitList[l], {p})
                                                  ELSE waitList[l]]

\* The delay or timeout is over: the task becomes ready whatever else it was
\* waiting for.
TickExpire(i) ==
    LET p == tcbPtrTbl[i]
    IN  /\ p # NULL
        /\ delayTime[p] = 1
        /\ \A b \in Bmp : bmp[p][b] # Wild
        /\ Ready(p)
        /\ \E stray \in List \cup {NULL} : LeaveWaitLists(p, stray)
        /\ taskStatus' = [taskStatus EXCEPT ![p] = {}]
        /\ delayTime' = [delayTime EXCEPT ![p] = 0]
        /\ bmp' = [bmp EXCEPT ![p] = NoList]
        /\ Turn(Active \ {i}, Backup)
        /\ UNCHANGED halted

\* The task no longer waits for its timeout: its entry is dropped.
TickForget(i) ==
    LET p == tcbPtrTbl[i]
    IN  /\ p # NULL
        /\ delayTime[p] > 1
        /\ "PendDelay" \notin taskStatus[p]
        /\ delayTime' = [delayTime EXCEPT ![p] = @ - 1]
        /\ Turn(Active \ {i}, Backup)
        /\ UNCHANGED <<taskPrioList, taskStatus, bmp, waitList, halted>>

\* The task goes on waiting: its entry moves to the backup list.
TickKeep(i) ==
    LET p == tcbPtrTbl[i]
    IN  /\ p # NULL
        /\ delayTime[p] > 1
        /\ "PendDelay" \in taskStatus[p]
        /\ delayTime' = [delayTime EXCEPT ![p] = @ - 1]
        /\ Turn(Active \ {i}, Backup \cup {i})
        /\ UNCHANGED <<taskPrioList, taskStatus, bmp, waitList, halted>>

\* The entry's TCB is gone, its assertion fails, or it expires and a clear
\* goes through a pointer nobody initialised. The model stops there.
TickFault(i) ==
    LET p == tcbPtrTbl[i]
    IN  /\ halted' = IF p = NULL THEN "null"
                     ELSE IF delayTime[p] = 0 THEN "assert" ELSE "wild"
        /\ p # NULL => \/ delayTime[p] = 0
                       \/ /\ delayTime[p] = 1
                          /\ \E b \in Bmp : bmp[p][b] = Wild
        /\ timerPendingList' = [timerPendingList EXCEPT ![activeList] = @ \ {i}]
        /\ UNCHANGED <<taskPrioList, activeList, tcb, waitList, tick>>

\* One turn: the highest priority of the active list.
TickTask ==
    /\ halted = "no" /\ tick = "loop"
    /\ LET i == Highest(Active)
       IN  TickExpire(i) \/ TickForget(i) \/ TickKeep(i) \/ TickFault(i)
    /\ UNCHANGED <<tcbPtrTbl, currentTask, highPrioTask, irqCounter, pendSV, threads>>

\* uLipeKernelIrqOut, which yields from the handler.
TickOut ==
    /\ halted = "no" /\ tick = "out"
    /\ irqCounter' = irqCounter - 1
    /\ tick' = "off"
    /\ IF tcbPtrTbl[Highest(taskPrioList)] = NULL
       THEN halted' = "assert" /\ UNCHANGED <<highPrioTask, pendSV>>
       ELSE UNCHANGED halted /\ Publish(Highest(taskPrioList))
    /\ UNCHANGED <<lists, objects, currentTask, threads>>
-----------------------------------------------------------------------------
\* What the interrupts do, and what every thread does inside a yield.
Interrupt == TickEnter \/ TickTask \/ TickOut \/ PendSV
Yield(t) == YieldFind(t) \/ YieldPublish(t)

\* The state all modules share is well-formed. Labels are the places a thread
\* of the extending module can be at.
KernelTypeOK(Labels) ==
    /\ taskPrioList \in SUBSET Prio
    /\ timerPendingList \in [{0, 1} -> SUBSET Prio]
    /\ activeList \in {0, 1}
    /\ tcbPtrTbl \in [Prio -> Prio \cup {NULL}]
    /\ taskStatus \in [Prio -> SUBSET Status]
    /\ delayTime \in [Prio -> 0..MaxDelay]
    /\ bmp \in [Prio -> [Bmp -> List \cup {NULL, Wild}]]
    /\ waitList \in [List -> [prioGrp : BOOLEAN, prioTbl : SUBSET Prio]]
    /\ currentTask \in Prio /\ highPrioTask \in Prio
    /\ irqCounter = IF tick = "off" THEN 0 ELSE 1
    /\ pendSV \in BOOLEAN
    /\ tick \in {"off", "loop", "out"}
    /\ halted \in {"no", "null", "assert", "wild"}
    /\ pc \in [Prio -> Labels]
    /\ yieldPrio \in [Prio -> Prio]
    /\ after \in [Prio -> Labels]
=============================================================================
