--------------------------------- MODULE Sem ---------------------------------
(***************************************************************************)
(* Counting semaphores (microkernel/OsSem.c) on top of the tasks' calls.   *)
(*                                                                         *)
(* uLipeSemTake leaves its critical section to enter the wait list: it     *)
(* stores the TCB's pointer, raises the group, and reads and writes back   *)
(* the word of the table, and interrupts may come between any two of them. *)
(* All priorities lie in one group here (N < 32), so raising it overwrites *)
(* nothing; the word is another matter.                                    *)
(***************************************************************************)
EXTENDS Task

CONSTANTS Sems,            \* the semaphores, named by their wait lists
          SemBoot,         \* those created before the kernel starts
          SemApi,          \* the calls the tasks make
          InitCount,       \* the keys a semaphore starts with
          SemLimit,        \* and the most it holds
          MaxGive          \* the most keys given at once

ASSUME SemsAssumption == SemBoot \subseteq Sems /\ Sems \subseteq List
ASSUME SemApiAssumption == SemApi \subseteq {"take", "give", "semcreate", "semdelete"}
ASSUME SemLimitAssumption == /\ SemLimit \in Nat /\ SemLimit <= 65535
                             /\ InitCount \in 0..SemLimit
                             /\ MaxGive \in Nat /\ MaxGive > 0 /\ MaxGive <= 65535

VARIABLES
    sems,                  \* the semaphores created
    semCount,              \* their keys
    semOf,                 \* the semaphore a take in progress is about
    timeout,               \* and the ticks it waits at most, 0 for ever
    word,                  \* the word of the table it has read
    back                   \* where the caller goes on, with and without a key

semVars == <<sems, semCount, semOf, timeout, word, back>>
allVars == <<vars, semVars>>

\* Where a thread is within uLipeSemTake.
TakeLabels == {"store", "group", "read", "write", "block", "retake"}

\* Application code goes on alike whatever uLipeSemTake returns.
Application == [key |-> "run", none |-> "run"]

SemInit == /\ Init
           /\ sems = SemBoot
           /\ semCount = [s \in Sems |-> InitCount]
           /\ semOf = [p \in Prio |-> NULL]
           /\ timeout = [p \in Prio |-> 0]
           /\ word = [p \in Prio |-> {}]
           /\ back = [p \in Prio |-> Application]

SemCalls(t, call) == call \in SemApi /\ t # IdlePrio /\ At(t, "run")
-----------------------------------------------------------------------------
(* uLipeSemTake                                                            *)

\* A key is there and the call returns at once, or the caller begins to wait.
TakeFrom(t, s, ticks, caller) ==
    /\ IF semCount[s] > 0
       THEN /\ semCount' = [semCount EXCEPT ![s] = @ - 1]
            /\ Goto(t, caller.key)
            /\ UNCHANGED <<semOf, timeout, back>>
       ELSE /\ Goto(t, "store")
            /\ semOf' = [semOf EXCEPT ![t] = s]
            /\ timeout' = [timeout EXCEPT ![t] = ticks]
            /\ back' = [back EXCEPT ![t] = caller]
            /\ UNCHANGED semCount
    /\ UNCHANGED <<lists, objects, cpu, yieldPrio, after, taskVars, arg, sems, word>>

Take(t, s, ticks) == SemCalls(t, "take") /\ TakeFrom(t, s, ticks, Application)

\* Outside the critical section: currentTask->semBmp = &s->tasksWaiting, and
\* the three steps of uLipePrioSet.
TakeStore(t) ==
    /\ At(t, "store")
    /\ bmp' = [bmp EXCEPT ![t]["sem"] = semOf[t]]
    /\ Goto(t, "group")
    /\ UNCHANGED <<lists, tcbPtrTbl, taskStatus, delayTime, waitList, cpu, yieldPrio,
                   after, taskVars, arg, semVars>>

TakeGroup(t) ==
    /\ At(t, "group")
    /\ waitList' = [waitList EXCEPT ![semOf[t]].prioGrp = TRUE]
    /\ Goto(t, "read")
    /\ UNCHANGED <<lists, tcbPtrTbl, tcb, cpu, yieldPrio, after, taskVars, arg, semVars>>

TakeRead(t) ==
    /\ At(t, "read")
    /\ word' = [word EXCEPT ![t] = waitList[semOf[t]].prioTbl]
    /\ Goto(t, "write")
    /\ UNCHANGED <<lists, objects, cpu, yieldPrio, after, taskVars, arg,
                   sems, semCount, semOf, timeout, back>>

TakeWrite(t) ==
    /\ At(t, "write")
    /\ waitList' = [waitList EXCEPT ![semOf[t]].prioTbl = word[t] \cup {t}]
    /\ word' = [word EXCEPT ![t] = {}]
    /\ Goto(t, "block")
    /\ UNCHANGED <<lists, tcbPtrTbl, tcb, cpu, yieldPrio, after, taskVars, arg,
                   sems, semCount, semOf, timeout, back>>

\* Faulty: the caller enters no timer list, enters the one the next tick does
\* not look at, or keeps the delayTime it had.
CountTicksUnlisted(t) == /\ delayTime' = [delayTime EXCEPT ![t] = timeout[t]]
                         /\ UNCHANGED timerPendingList

CountTicksInBackup(t) ==
    /\ delayTime' = [delayTime EXCEPT ![t] = timeout[t]]
    /\ timerPendingList' = [timerPendingList EXCEPT ![1 - activeList] = @ \cup {t}]

CountTicksUnset(t) ==
    /\ timerPendingList' = [timerPendingList EXCEPT ![activeList] = @ \cup {t}]
    /\ UNCHANGED delayTime

\* The caller begins to count the ticks of its timeout.
CountTicks(t) ==
    /\ delayTime' = [delayTime EXCEPT ![t] = timeout[t]]
    /\ timerPendingList' = [timerPendingList EXCEPT ![activeList] = @ \cup {t}]

\* The second critical section blocks the caller, for a time or for ever.
TakeBlock(t) ==
    /\ At(t, "block")
    /\ Unready(t)
    /\ IF timeout[t] = 0
       THEN /\ taskStatus' = [taskStatus EXCEPT ![t] = @ \cup {"PendSem"}]
            /\ UNCHANGED <<delayTime, timerPendingList>>
       ELSE /\ taskStatus' = [taskStatus EXCEPT ![t] = @ \cup {"PendSem", "PendDelay"}]
            /\ CountTicks(t)
    /\ Goto(t, "yield")
    /\ after' = [after EXCEPT ![t] = "retake"]
    /\ UNCHANGED <<activeList, tcbPtrTbl, bmp, waitList, cpu, yieldPrio, taskVars, arg,
                   semVars>>

\* Awake again: a key is taken if one is there, and kTimeout returned if not.
Retake(t) ==
    /\ At(t, "retake")
    /\ semCount' = [semCount EXCEPT ![semOf[t]] = IF @ > 0 THEN @ - 1 ELSE @]
    /\ semOf' = [semOf EXCEPT ![t] = NULL]
    /\ timeout' = [timeout EXCEPT ![t] = 0]
    /\ back' = [back EXCEPT ![t] = Application]
    /\ Goto(t, IF semCount[semOf[t]] > 0 THEN back[t].key ELSE back[t].none)
    /\ UNCHANGED <<lists, objects, cpu, yieldPrio, after, taskVars, arg, sems, word>>
-----------------------------------------------------------------------------
(* uLipeSemGive, uLipeSemCreate, uLipeSemDelete                            *)

\* What SemPostLoop and SemDeleteLoop clear of a waiter's status.
SemCauses == {"PendSem", "PendDelay"}

\* Faulty: the limit is compared with the keys there were.
KeysCheckedBefore(s, count) == IF semCount[s] > SemLimit THEN SemLimit ELSE semCount[s] + count

\* The keys there are once count more have been given.
Keys(s, count) == IF semCount[s] + count > SemLimit THEN SemLimit ELSE semCount[s] + count

Give(t, s, count) ==
    /\ SemCalls(t, "give")
    /\ semCount' = [semCount EXCEPT ![s] = Keys(s, count)]
    /\ Wake(Only(s, FirstWaiter(s)), SemCauses)
    /\ Goto(t, "yield")
    /\ UNCHANGED <<timerPendingList, activeList, tcbPtrTbl, delayTime, bmp, currentTask,
                   highPrioTask, irqCounter, pendSV, tick, yieldPrio, after, taskVars, arg,
                   sems, semOf, timeout, word, back>>

\* The wait list of a new semaphore is not initialised: empty on a heap that
\* starts out zero, anything once blocks have been freed.
NewSem(s) ==
    /\ s \notin sems
    /\ heap < HeapBlocks
    /\ heap' = heap + 1
    /\ sems' = sems \cup {s}
    /\ semCount' = [semCount EXCEPT ![s] = InitCount]
    /\ \E raw \in IF heapDirty THEN {EmptyList, [prioGrp |-> TRUE, prioTbl |-> UserPrio]}
                  ELSE {EmptyList} : waitList' = [waitList EXCEPT ![s] = raw]
    /\ UNCHANGED <<lists, tcbPtrTbl, tcb, cpu, yieldPrio, after, tasksCount, heapDirty, arg,
                   semOf, timeout, word, back>>

SemCreate(t, s) == SemCalls(t, "semcreate") /\ NewSem(s) /\ UNCHANGED pc

\* All waiters are woken. The address then freed is that of the caller's
\* handle, not of the semaphore, which goes on working for whoever has its
\* handle; what the allocator makes of that address is not modelled.
SemDelete(t, s) ==
    /\ SemCalls(t, "semdelete")
    /\ Wake(Only(s, IF First(waitList[s]) # 0 THEN waitList[s].prioTbl ELSE {}), SemCauses)
    /\ Goto(t, "yield")
    /\ UNCHANGED <<timerPendingList, activeList, tcbPtrTbl, delayTime, bmp, currentTask,
                   highPrioTask, irqCounter, pendSV, tick, yieldPrio, after, taskVars, arg,
                   semVars>>
-----------------------------------------------------------------------------
\* A thread goes on with the take it is in.
TakeProceeds(t) == \/ TakeStore(t) \/ TakeGroup(t) \/ TakeRead(t) \/ TakeWrite(t)
                   \/ TakeBlock(t) \/ Retake(t)

\* A task calls for a semaphore.
SemCall(t) == \E s \in Sems :
    \/ /\ s \in sems
       /\ \/ \E ticks \in 0..MaxDelay : Take(t, s, ticks)
          \/ \E count \in 1..MaxGive : Give(t, s, count)
          \/ SemDelete(t, s)
    \/ SemCreate(t, s)

SemNext == \/ Next /\ UNCHANGED semVars
           \/ \E t \in Prio : TakeProceeds(t) \/ SemCall(t)

SemSpec == SemInit /\ [][SemNext]_allVars

\* As for Task: the tick comes again and again, and the handlers end.
SemFairness ==
    /\ SF_allVars(TickEnter /\ UNCHANGED <<taskVars, arg, semVars>>)
    /\ WF_allVars((TickTask \/ TickOut \/ PendSV) /\ UNCHANGED <<taskVars, arg, semVars>>)

SemFairSpec == SemSpec /\ SemFairness
-----------------------------------------------------------------------------
(* Properties                                                              *)

SemTypeOK ==
    /\ KernelTypeOK(TaskLabels \cup TakeLabels)
    /\ tasksCount \in 0..N /\ heap \in 0..HeapBlocks /\ heapDirty \in BOOLEAN
    /\ arg \in [Prio -> Prio]
    /\ sems \in SUBSET Sems
    /\ semCount \in [Sems -> 0..SemLimit]
    /\ semOf \in [Prio -> Sems \cup {NULL}]
    /\ timeout \in [Prio -> 0..MaxDelay]
    /\ word \in [Prio -> SUBSET Prio]
    /\ back \in [Prio -> [key : TaskLabels, none : TaskLabels]]

\* A take with a timeout ends: if no give wakes its caller then the tick does,
\* even where the wait list has lost it, and only a suspension still holds it.
TimedTakeEnds == \A p \in UserPrio :
    (Sleeps(p) /\ "PendSem" \in taskStatus[p])
        ~> (p \in taskPrioList \/ taskStatus[p] = {"Suspend"})

\* "...suspend and add this task in wait list" (OsSem.c): a task blocked on a
\* semaphore is where uLipeSemGive looks for it.
WaitersAreListed == \A p \in Prio :
    "PendSem" \in taskStatus[p] =>
        \E s \in Sems : waitList[s].prioGrp /\ p \in waitList[s].prioTbl
=============================================================================
