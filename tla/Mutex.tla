-------------------------------- MODULE Mutex --------------------------------
(***************************************************************************)
(* Mutexes (microkernel/OsMutex.c) on top of the tasks' calls: one mutex.  *)
(* Its owner runs under the highest priority, OS_MUTEX_PRIO, whose entry   *)
(* of the table of TCBs, mutexTCB, points to it; its own entry stays.      *)
(*                                                                         *)
(* Applications are disciplined: a task takes a mutex it does not have,    *)
(* gives one it has, and while it is raised makes no call but that.        *)
(***************************************************************************)
EXTENDS Task

CONSTANT TasksPending      \* tasksPending, the wait list of the mutex

ASSUME TasksPendingAssumption == TasksPending \in List

VARIABLES
    mutex,                 \* there is a mutex
    mutexOwner, mutexTaken,
    taskPrio,              \* TCB field: the priority each task runs under
    holders,               \* the tasks whose take has returned
    strayed                \* a task that was held back has run

mutexVars == <<mutex, mutexOwner, mutexTaken, taskPrio, holders>>
mutexAll == <<vars, mutexVars, strayed>>

MutexPrio == N - 1         \* OS_MUTEX_PRIO
mutexTCB == tcbPtrTbl[MutexPrio]

\* Where a thread is in uLipeMutexTake.
MutexLabels == {"own", "raise", "taken"}

MutexInit ==
    /\ Init
    /\ mutex = FALSE
    /\ mutexOwner = 0 /\ mutexTaken = FALSE
    /\ taskPrio = [p \in Prio |-> p]
    /\ holders = {}
    /\ strayed = FALSE

MutexCalls(t) == mutex /\ t # IdlePrio /\ At(t, "run")

\* Faulty: the table of TCBs does not show it.
RaiseUnseen(t, left) ==
    /\ taskStatus' = [taskStatus EXCEPT ![t] = left]
    /\ UNCHANGED tcbPtrTbl

\* The task becomes the one behind OS_MUTEX_PRIO, ready unless it is held back.
Raise(t, left) ==
    /\ tcbPtrTbl' = [tcbPtrTbl EXCEPT ![MutexPrio] = t]
    /\ taskStatus' = [taskStatus EXCEPT ![t] = left]
-----------------------------------------------------------------------------
(* uLipeMutexCreate, uLipeMutexTake                                        *)

\* The words of the wait list are what the memory last held.
MutexCreate(t) ==
    /\ ~mutex /\ t # IdlePrio /\ At(t, "run")
    /\ heap < HeapBlocks
    /\ heap' = heap + 1
    /\ mutex' = TRUE
    /\ mutexOwner' = 0 /\ mutexTaken' = FALSE
    /\ \E raw \in IF heapDirty THEN {{}, UserPrio} ELSE {{}} :
           waitList' = [waitList EXCEPT ![TasksPending] = [prioGrp |-> FALSE, prioTbl |-> raw]]
    /\ UNCHANGED <<lists, tcbPtrTbl, tcb, cpu, threads, tasksCount, heapDirty, arg,
                   taskPrio, holders>>

\* Faulty: the caller is listed, but goes on.
TakeGoesOn(t) ==
    /\ MutexCalls(t)
    /\ t \notin holders
    /\ mutexTaken
    /\ waitList' = [waitList EXCEPT ![TasksPending] = Enlist(@, taskPrio[t])]
    /\ bmp' = [bmp EXCEPT ![t]["mtx"] = TasksPending]
    /\ Goto(t, "yield")
    /\ after' = [after EXCEPT ![t] = "taken"]
    /\ UNCHANGED <<lists, tcbPtrTbl, taskStatus, delayTime, cpu, yieldPrio, taskVars, arg,
                   mutexVars>>

\* The mutex is taken: the caller blocks.
TakeBlocks(t) ==
    /\ MutexCalls(t)
    /\ t \notin holders
    /\ mutexTaken
    /\ waitList' = [waitList EXCEPT ![TasksPending] = Enlist(@, taskPrio[t])]
    /\ Unready(taskPrio[t])
    /\ taskStatus' = [taskStatus EXCEPT ![t] = @ \cup {"PendMtx"}]
    /\ bmp' = [bmp EXCEPT ![t]["mtx"] = TasksPending]
    /\ Goto(t, "yield")
    /\ after' = [after EXCEPT ![t] = "taken"]
    /\ UNCHANGED <<timerPendingList, activeList, tcbPtrTbl, delayTime, cpu, yieldPrio,
                   taskVars, arg, mutexVars>>

\* It is free. The owner is stored, and raised, in steps of their own.
TakeFree(t) ==
    /\ MutexCalls(t)
    /\ t \notin holders
    /\ ~mutexTaken
    /\ mutexTaken' = TRUE
    /\ Goto(t, "own")
    /\ UNCHANGED <<lists, objects, cpu, yieldPrio, after, taskVars, arg,
                   mutex, mutexOwner, taskPrio, holders>>

TakeOwn(t) ==
    /\ At(t, "own")
    /\ mutexOwner' = taskPrio[t]
    /\ Goto(t, "raise")
    /\ UNCHANGED <<lists, objects, cpu, yieldPrio, after, taskVars, arg,
                   mutex, mutexTaken, taskPrio, holders>>

TakeRaise(t) ==
    LET left == taskStatus[t] \ {"PendMtx"}
    IN  /\ At(t, "raise")
        /\ Raise(t, left)
        /\ taskPrio' = [taskPrio EXCEPT ![t] = MutexPrio]
        /\ IF left = {} THEN Ready(MutexPrio) ELSE UNCHANGED taskPrioList
        /\ Goto(t, "yield")
        /\ after' = [after EXCEPT ![t] = "taken"]
        /\ UNCHANGED <<timerPendingList, activeList, delayTime, bmp, waitList, cpu, yieldPrio,
                       taskVars, arg, mutex, mutexOwner, mutexTaken, holders>>

\* uLipeMutexTake returns.
Taken(t) ==
    /\ At(t, "taken")
    /\ holders' = holders \cup {t}
    /\ Goto(t, "run")
    /\ UNCHANGED <<lists, objects, cpu, yieldPrio, after, taskVars, arg,
                   mutex, mutexOwner, mutexTaken, taskPrio>>
-----------------------------------------------------------------------------
(* uLipeMutexGive, uLipeMutexDelete                                        *)

\* Faulty: the group of the wait list is cleared with the owner's bit.
PendingNobody == [Delist(waitList[TasksPending], {mutexOwner}) EXCEPT !.prioGrp = FALSE]

\* The wait list once the owner has left it, and the task that owns the mutex
\* next: it stays in the list until it gives the mutex itself.
Pending == Delist(waitList[TasksPending], {mutexOwner})
NewOwner == First(Pending)

\* mutexTCB is held back no longer, nor is its priority ready, and the owner
\* gets its own priority back: not its place in the ready list.
GiveFree ==
    LET status == taskStatus[mutexTCB] \ {"PendMtx"}
    IN  /\ ~Pending.prioGrp
        /\ taskStatus' = [taskStatus EXCEPT ![mutexTCB] = status]
        /\ Unready(taskPrio[mutexTCB])
        /\ taskPrio' = [taskPrio EXCEPT ![tcbPtrTbl[mutexOwner]] = mutexOwner]
        /\ mutexTaken' = FALSE
        /\ mutexOwner' = MutexPrio
        /\ UNCHANGED tcbPtrTbl

\* The first waiter is raised in the owner's place.
GiveOn ==
    LET status == [taskStatus EXCEPT ![mutexTCB] = @ \ {"PendMtx"}]
        new == tcbPtrTbl[NewOwner]
    IN  /\ Pending.prioGrp
        /\ tcbPtrTbl' = [tcbPtrTbl EXCEPT ![MutexPrio] = new]
        /\ taskStatus' = [status EXCEPT ![new] = @ \ {"PendMtx"}]
        /\ taskPrioList' = (taskPrioList \ {taskPrio[mutexTCB]})
                           \cup (IF taskStatus'[new] = {} THEN {MutexPrio} ELSE {})
        /\ taskPrio' = [taskPrio EXCEPT ![tcbPtrTbl[mutexOwner]] = mutexOwner,
                                        ![new] = MutexPrio]
        /\ mutexOwner' = NewOwner
        /\ UNCHANGED mutexTaken

Give(t) ==
    /\ MutexCalls(t)
    /\ t \in holders
    /\ IF \/ mutexTCB = NULL \/ tcbPtrTbl[mutexOwner] = NULL
          \/ Pending.prioGrp /\ tcbPtrTbl[NewOwner] = NULL
       THEN /\ halted' = "null"
            /\ UNCHANGED <<tcbPtrTbl, taskStatus, taskPrioList, waitList, taskPrio, mutexOwner,
                           mutexTaken>>
       ELSE /\ GiveFree \/ GiveOn
            /\ waitList' = [waitList EXCEPT ![TasksPending] = Pending]
            /\ UNCHANGED halted
    /\ holders' = holders \ {t}
    /\ Goto(t, "yield")
    /\ UNCHANGED <<timerPendingList, activeList, delayTime, bmp, currentTask, highPrioTask,
                   irqCounter, pendSV, tick, yieldPrio, after, taskVars, arg, mutex>>

\* A taken mutex is not deleted.
MutexDelete(t) ==
    /\ MutexCalls(t)
    /\ ~mutexTaken
    /\ mutex' = FALSE
    /\ heap' = heap - 1
    /\ heapDirty' = TRUE
    /\ UNCHANGED <<kernelVars, tasksCount, arg, mutexOwner, mutexTaken, taskPrio, holders>>
-----------------------------------------------------------------------------
MutexCall(t) == \/ MutexCreate(t) \/ TakeBlocks(t) \/ TakeFree(t) \/ Give(t) \/ MutexDelete(t)
MutexProceeds(t) == TakeOwn(t) \/ TakeRaise(t) \/ Taken(t)

\* The kernel's stale dispatch (Task_stale) has brought a task back that is
\* held back, and it executes more than the rest of a yield.
Strays == \E t \in Prio : /\ Runs(t) /\ pc[t] \notin {"yield", "publish"}
                          /\ taskStatus[t] # {}

MutexStep ==
    \/ /\ Interrupts \/ \E t \in Prio : Proceed(t) \/ (taskPrio[t] = t /\ Call(t))
       /\ UNCHANGED mutexVars
    \/ \E t \in Prio : MutexCall(t) \/ MutexProceeds(t)

MutexNext == MutexStep /\ strayed' = (strayed \/ Strays')

MutexSpec == MutexInit /\ [][MutexNext]_mutexAll
-----------------------------------------------------------------------------
(* Properties                                                              *)

MutexTypeOK ==
    /\ mutex \in BOOLEAN /\ mutexTaken \in BOOLEAN
    /\ mutexOwner \in Prio
    /\ taskPrio \in [Prio -> Prio]
    /\ holders \in SUBSET Prio

\* The three that follow are about the mutex, and leave out what a task that
\* sleeps or waits does when the kernel runs it all the same.

\* "Mutual exclusion semaphore" (README.md): of the tasks whose take has
\* returned and that have not given the mutex back there is one at most, over
\* handovers, and with the owner stored outside the critical sections.
MutualExclusion == ~strayed => Cardinality(holders) <= 1

\* A give and a take that overlap leave nobody waiting for a free mutex.
NobodyWaitsForFree == (~strayed /\ ~mutexTaken) => \A p \in Prio : "PendMtx" \notin taskStatus[p]

\* The priority of the mutex and its owner stay together: a task runs under
\* the one only while it is the other, and a mutex that is free or being given
\* leaves nobody raised.
RaisedIsOwner == ~strayed => \A p \in Prio \ {MutexPrio} :
    taskPrio[p] = MutexPrio => mutexTaken /\ p = mutexOwner /\ p = mutexTCB

\* The first without the condition does not hold of the code: two tasks that
\* delay, one of which runs before its ticks are over, can both have the mutex.
OneHolder == Cardinality(holders) <= 1
=============================================================================
