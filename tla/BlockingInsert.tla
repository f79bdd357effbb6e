---------------------------- MODULE BlockingInsert ----------------------------
(***************************************************************************)
(* uLipeQueueInsert with OS_Q_BLOCK_FULL (microkernel/OsQueue.c): it finds *)
(* the queue full, leaves its critical section, and enters no other. Each  *)
(* word of a list that it shares with the tick and the other threads is    *)
(* read and written back with interrupts between.                          *)
(***************************************************************************)
EXTENDS Queue

VARIABLE word              \* the word of a list a thread has read

insertVars == <<vars, queueVars, word>>

InsertLabels == {"full", "unready", "pend", "timer", "count", "point", "group", "read", "write"}

InsertInit == QueueInit /\ word = [p \in Prio |-> {}]

InsertBlocks(t, ticks) ==
    /\ QueueCalls(t, "insert")
    /\ option = "full"
    /\ usedSlots >= Slots
    /\ Begin(t, "insert", ticks, "full")
    /\ UNCHANGED <<option, created, ring, index, word>> /\ ButThread

\* The ready list, which loses the caller.
FullReadReady(t) ==
    /\ At(t, "full")
    /\ word' = [word EXCEPT ![t] = taskPrioList]
    /\ Goto(t, "unready")
    /\ UNCHANGED queueVars /\ ButThread

FullUnready(t) ==
    /\ At(t, "unready")
    /\ taskPrioList' = word[t] \ {t}
    /\ Goto(t, "pend")
    /\ UNCHANGED <<timerPendingList, activeList, objects, cpu, yieldPrio, after, taskVars, arg,
                   queueVars, word>>

\* The caller's own fields, which nobody else looks at meanwhile.
FullPend(t) ==
    /\ At(t, "pend")
    /\ IF request[t].ticks = 0
       THEN /\ taskStatus' = [taskStatus EXCEPT ![t] = @ \cup {"PendQueue"}]
            /\ Goto(t, "point")
            /\ UNCHANGED delayTime
       ELSE /\ taskStatus' = [taskStatus EXCEPT ![t] = @ \cup {"PendQueue", "PendDelay"}]
            /\ delayTime' = [delayTime EXCEPT ![t] = request[t].ticks]
            /\ Goto(t, "timer")
    /\ UNCHANGED <<lists, tcbPtrTbl, bmp, waitList, cpu, yieldPrio, after, taskVars, arg,
                   queueVars, word>>

\* The timer list that is active when it is read gains the caller.
FullReadTimer(t) ==
    /\ At(t, "timer")
    /\ word' = [word EXCEPT ![t] = Active]
    /\ index' = [index EXCEPT ![t] = activeList]
    /\ Goto(t, "count")
    /\ UNCHANGED <<option, created, ring, request>> /\ ButThread

FullCount(t) ==
    /\ At(t, "count")
    /\ timerPendingList' = [timerPendingList EXCEPT ![index[t]] = word[t] \cup {t}]
    /\ index' = [index EXCEPT ![t] = 0]
    /\ Goto(t, "point")
    /\ UNCHANGED <<taskPrioList, activeList, objects, cpu, yieldPrio, after, taskVars, arg,
                   option, created, ring, request, word>>

\* The pointer, the group, and the word of the wait list.
FullPoint(t) ==
    /\ At(t, "point")
    /\ bmp' = [bmp EXCEPT ![t]["queue"] = SlotWait]
    /\ Goto(t, "group")
    /\ UNCHANGED <<lists, tcbPtrTbl, taskStatus, delayTime, waitList, cpu, yieldPrio, after,
                   taskVars, arg, queueVars, word>>

FullGroup(t) ==
    /\ At(t, "group")
    /\ waitList' = [waitList EXCEPT ![SlotWait].prioGrp = TRUE]
    /\ Goto(t, "read")
    /\ UNCHANGED <<lists, tcbPtrTbl, tcb, cpu, yieldPrio, after, taskVars, arg, queueVars, word>>

FullRead(t) ==
    /\ At(t, "read")
    /\ word' = [word EXCEPT ![t] = waitList[SlotWait].prioTbl]
    /\ Goto(t, "write")
    /\ UNCHANGED queueVars /\ ButThread

FullWrite(t) ==
    /\ At(t, "write")
    /\ waitList' = [waitList EXCEPT ![SlotWait].prioTbl = word[t] \cup {t}]
    /\ word' = [word EXCEPT ![t] = {}]
    /\ Leaves(t)
    /\ UNCHANGED <<lists, tcbPtrTbl, tcb, cpu, yieldPrio, after, taskVars, arg,
                   option, created, ring, index>>
-----------------------------------------------------------------------------
InsertProceeds(t) ==
    \/ FullReadReady(t) \/ FullUnready(t) \/ FullPend(t) \/ FullReadTimer(t) \/ FullCount(t)
    \/ FullPoint(t) \/ FullGroup(t) \/ FullRead(t) \/ FullWrite(t)

InsertNext ==
    \/ QueueNext /\ UNCHANGED word
    \/ \E t \in Prio : \/ InsertProceeds(t)
                       \/ \E ticks \in 0..MaxDelay : InsertBlocks(t, ticks)

InsertSpec == InsertInit /\ [][InsertNext]_insertVars
=============================================================================
