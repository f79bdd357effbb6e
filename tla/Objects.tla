------------------------------ MODULE Objects ------------------------------
(***************************************************************************)
(* An application with a queue, or with a mutex.                           *)
(***************************************************************************)
EXTENDS BlockingInsert, Mutex

VARIABLE object            \* what the application uses

objectsAll == <<insertVars, mutexVars, strayed, object>>

ObjectsInit == InsertInit /\ MutexInit /\ object \in {"queue", "mutex"}

ObjectsNext ==
    /\ \/ object = "queue" /\ InsertNext /\ UNCHANGED <<mutexVars, strayed>>
       \/ object = "mutex" /\ MutexNext /\ UNCHANGED <<queueVars, word>>
    /\ UNCHANGED object

ObjectsSpec == ObjectsInit /\ [][ObjectsNext]_objectsAll
-----------------------------------------------------------------------------
(* Properties                                                              *)

ObjectsTypeOK ==
    /\ KernelTypeOK(TaskLabels \cup QueueLabels \cup InsertLabels \cup MutexLabels)
    /\ tasksCount \in 0..N /\ heap \in 0..HeapBlocks /\ heapDirty \in BOOLEAN
    /\ QueueTypeOK /\ MutexTypeOK
    /\ word \in [Prio -> SUBSET Prio]

\* The calls of a queue enter and leave every list inside one critical section;
\* the tasks that share a mutex run while nothing holds them back.
Protected == IF object = "queue" THEN option = "block" ELSE ~strayed

\* No call leaves behind what the kernel's assertions reject or what it cannot
\* follow: neither the timer entries of receivers that were woken, nor the
\* wait lists of a queue that was deleted, nor the priority of a mutex.
ObjectsNoFault == Protected => NoFault

\* A queue's calls keep the ready list and the status of the tasks in step.
QueueReadyIffUnblocked == (object = "queue" /\ Protected) => ReadyIffUnblocked

\* A task that waits for a message is where an insert looks for it, over
\* timeouts, late timer entries and flushes, until a queue is deleted: its
\* waiters are forgotten with it.
ReceiversAreListed ==
    (object = "queue" /\ Protected /\ ~heapDirty) =>
        \A p \in Prio : "PendQueue" \in taskStatus[p] =>
            waitList[InsertWait].prioGrp /\ p \in waitList[InsertWait].prioTbl

\* The rest do not hold of the code, and no run checks them.

\* "suspend task to insert in a full queue" (OsQueue.h): an insert that blocks,
\* interrupted where it writes the lists unprotected, leaves them in order.
InsertNoFault == (object = "queue" /\ option = "full") => NoFault
InsertKeepsReady ==
    (object = "queue" /\ option = "full") =>
        \A p \in Prio \ {currentTask} :
            (Installed(p) /\ taskStatus[p] = {}) => p \in taskPrioList

\* A call with OS_Q_NON_BLOCK that finds nothing returns and leaves the ring
\* alone, also where a message comes in before it looks again.
ReturnKeepsRing == (object = "queue" /\ option = "non") => NoFault

\* A mutex gives back what it took: a task nothing holds back, under its own
\* priority, is ready, though the mutex was handed over to it.
OwnersComeBack ==
    object = "mutex" => \A p \in Prio \ {MutexPrio} :
        (taskStatus[p] = {} /\ taskPrio[p] = p /\ Installed(p)) => p \in taskPrioList
=============================================================================
