-------------------------------- MODULE Queue --------------------------------
(***************************************************************************)
(* Message queues (microkernel/OsQueue.c) on top of the tasks' calls: one  *)
(* queue, whose messages are pointers each task makes of its own.          *)
(*                                                                         *)
(* Insert and remove leave their critical section when the queue is full   *)
(* or empty. A remove then blocks in a second one; a call that is not to   *)
(* block looks once more, and may go on to use the ring unprotected. The   *)
(* insert that blocks is in BlockingInsert.                                *)
(***************************************************************************)
EXTENDS Task, Sequences

CONSTANTS SlotWait, InsertWait,   \* the wait lists for a free slot, for a message
          Slots,                  \* numSlots
          Users                   \* with each option, the tasks that make each call

ASSUME QueueListsAssumption == {SlotWait, InsertWait} \subseteq List /\ SlotWait # InsertWait
ASSUME SlotsAssumption == Slots \in Nat /\ Slots > 0 /\ Slots <= 65535

WordMax == 65535           \* the counters are of 16 bits

\* An application uses the queue with one option.
Options == DOMAIN Users
QueueApi == {"create", "insert", "remove", "flush", "delete", "delay"}
ASSUME UsersAssumption ==
    /\ Options \subseteq {"block", "non", "full"}
    /\ Users \in [Options -> [QueueApi -> SUBSET (Prio \ {IdlePrio})]]

VARIABLES
    option,                \* what this application's calls do where they cannot go on
    created,               \* there is a queue
    queueBase, queueFront, queueBack, usedSlots,
    request,               \* the insert or remove a thread is in
    index                  \* the counter it has read

ring == <<queueBase, queueFront, queueBack, usedSlots>>
locals == <<request, index>>
queueVars == <<option, created, ring, locals>>
queueAll == <<vars, queueVars>>

NoRequest == [op |-> "none", ticks |-> 0]

\* Where a thread is in a remove that blocks, and in a call that does not.
QueueLabels == {"empty", "again", "index", "slot", "next", "wrap", "used", "reuse", "wake"}

QueueInit ==
    /\ Init
    /\ option \in Options
    /\ created = FALSE
    /\ queueBase = [i \in 0..Slots-1 |-> Wild]
    /\ queueFront = 0 /\ queueBack = 0 /\ usedSlots = 0
    /\ request = [p \in Prio |-> NoRequest]
    /\ index = [p \in Prio |-> 0]

Uses(t, call) == t \in Users[option][call] /\ At(t, "run")
QueueCalls(t, call) == created /\ Uses(t, call)

\* Of the kernel, a step changes these only.
ButThread == UNCHANGED <<lists, objects, cpu, yieldPrio, after, taskVars, arg>>
ButWaiters == UNCHANGED <<timerPendingList, activeList, tcbPtrTbl, delayTime, bmp, currentTask,
                          highPrioTask, irqCounter, pendSV, tick, yieldPrio, after, arg>>

\* On to the next place in a call; and the call is over but for its yield.
Begin(t, operation, ticks, label) ==
    /\ Goto(t, label)
    /\ request' = [request EXCEPT ![t] = [op |-> operation, ticks |-> ticks]]

Leaves(t) == Goto(t, "yield") /\ request' = [request EXCEPT ![t] = NoRequest]
-----------------------------------------------------------------------------
(* The ring, and the loops that follow its changes                         *)

QueueCauses == {"PendQueue", "PendDelay"}

\* QueueRemoveLoop, QueueInsertLoop: the first who waits for a slot, for a
\* message, is woken.
RemoveLoop == Only(SlotWait, FirstWaiter(SlotWait))
InsertLoop == Only(InsertWait, FirstWaiter(InsertWait))
BothLoops == [l \in {SlotWait, InsertWait} |-> FirstWaiter(l)]

\* Faulty: wraps one slot late.
NextSlotLate(i) == IF i + 1 > Slots THEN 0 ELSE i + 1

\* The slot after this one.
NextSlot(i) == IF i + 1 > Slots - 1 THEN 0 ELSE i + 1

Put(message) == /\ queueBase' = [queueBase EXCEPT ![queueFront] = message]
                /\ queueFront' = NextSlot(queueFront)
                /\ usedSlots' = usedSlots + 1
                /\ UNCHANGED queueBack

Get == /\ queueBack' = NextSlot(queueBack)
       /\ usedSlots' = usedSlots - 1
       /\ UNCHANGED <<queueBase, queueFront>>
-----------------------------------------------------------------------------
(* uLipeQueueInsert                                                        *)

Insert(t) ==
    /\ QueueCalls(t, "insert")
    /\ usedSlots < Slots
    /\ Put(t)
    /\ Wake(InsertLoop, QueueCauses)
    /\ Goto(t, "yield")
    /\ UNCHANGED <<option, created, locals, taskVars>> /\ ButWaiters

\* With any other option but OS_Q_BLOCK_FULL the call returns.
InsertFull(t) ==
    /\ QueueCalls(t, "insert")
    /\ usedSlots >= Slots
    /\ option = "non"
    /\ Begin(t, "insert", 0, "again")
    /\ UNCHANGED <<option, created, ring, index>> /\ ButThread
-----------------------------------------------------------------------------
(* uLipeQueueRemove                                                        *)

Remove(t) ==
    /\ QueueCalls(t, "remove")
    /\ usedSlots # 0
    /\ Get
    /\ Wake(RemoveLoop, QueueCauses)
    /\ Goto(t, "yield")
    /\ UNCHANGED <<option, created, locals, taskVars>> /\ ButWaiters

RemoveEmpty(t, ticks) ==
    /\ QueueCalls(t, "remove")
    /\ usedSlots = 0
    /\ \/ option # "non" /\ Begin(t, "remove", ticks, "empty")
       \/ option = "non" /\ ticks = 0 /\ Begin(t, "remove", 0, "again")
    /\ UNCHANGED <<option, created, ring, index>> /\ ButThread

\* Faulty: a caller with a timeout is left out of the wait list.
EmptyBlockUnlisted(t) ==
    /\ At(t, "empty")
    /\ Unready(t)
    /\ bmp' = [bmp EXCEPT ![t]["queue"] = InsertWait]
    /\ IF request[t].ticks = 0
       THEN /\ taskStatus' = [taskStatus EXCEPT ![t] = @ \cup {"PendQueue"}]
            /\ waitList' = [waitList EXCEPT ![InsertWait] = Enlist(@, t)]
            /\ UNCHANGED <<delayTime, timerPendingList>>
       ELSE /\ taskStatus' = [taskStatus EXCEPT ![t] = @ \cup {"PendQueue", "PendDelay"}]
            /\ delayTime' = [delayTime EXCEPT ![t] = request[t].ticks]
            /\ timerPendingList' = [timerPendingList EXCEPT ![activeList] = @ \cup {t}]
            /\ UNCHANGED waitList
    /\ Leaves(t)
    /\ UNCHANGED <<activeList, tcbPtrTbl, cpu, yieldPrio, after, taskVars, arg,
                   option, created, ring, index>>

\* OS_Q_BLOCK_EMPTY: the second critical section blocks the caller, whatever
\* has come into the queue since.
EmptyBlock(t) ==
    /\ At(t, "empty")
    /\ Unready(t)
    /\ bmp' = [bmp EXCEPT ![t]["queue"] = InsertWait]
    /\ waitList' = [waitList EXCEPT ![InsertWait] = Enlist(@, t)]
    /\ IF request[t].ticks = 0
       THEN /\ taskStatus' = [taskStatus EXCEPT ![t] = @ \cup {"PendQueue"}]
            /\ UNCHANGED <<delayTime, timerPendingList>>
       ELSE /\ taskStatus' = [taskStatus EXCEPT ![t] = @ \cup {"PendQueue", "PendDelay"}]
            /\ delayTime' = [delayTime EXCEPT ![t] = request[t].ticks]
            /\ timerPendingList' = [timerPendingList EXCEPT ![activeList] = @ \cup {t}]
    /\ Leaves(t)
    /\ UNCHANGED <<activeList, tcbPtrTbl, cpu, yieldPrio, after, taskVars, arg,
                   option, created, ring, index>>
-----------------------------------------------------------------------------
(* OS_Q_NON_BLOCK: what is left of the call, unprotected                   *)

Inserting(t) == request[t].op = "insert"

\* The second look: the call returns, or goes on as if it had been the first.
Again(t) ==
    /\ At(t, "again")
    /\ IF IF Inserting(t) THEN usedSlots < Slots ELSE usedSlots # 0
       THEN Goto(t, "index") /\ UNCHANGED request
       ELSE Begin(t, "none", 0, "run")
    /\ UNCHANGED <<option, created, ring, index>> /\ ButThread

RawIndex(t) ==
    /\ At(t, "index")
    /\ index' = [index EXCEPT ![t] = IF Inserting(t) THEN queueFront ELSE queueBack]
    /\ Goto(t, IF Inserting(t) THEN "slot" ELSE "next")
    /\ UNCHANGED <<option, created, ring, request>> /\ ButThread

\* A write behind the end of the ring is where the model stops.
RawSlot(t) ==
    /\ At(t, "slot")
    /\ IF index[t] < Slots
       THEN /\ queueBase' = [queueBase EXCEPT ![index[t]] = t]
            /\ UNCHANGED halted
       ELSE halted' = "wild" /\ UNCHANGED queueBase
    /\ Goto(t, "next")
    /\ UNCHANGED <<lists, objects, currentTask, highPrioTask, irqCounter, pendSV, tick,
                   yieldPrio, after, taskVars, arg,
                   option, created, queueFront, queueBack, usedSlots, locals>>

\* The caller's end of the ring becomes i.
Move(t, i) == /\ queueFront' = IF Inserting(t) THEN i ELSE queueFront
              /\ queueBack' = IF Inserting(t) THEN queueBack ELSE i

RawNext(t) ==
    /\ At(t, "next")
    /\ Move(t, (index[t] + 1) % 65536)
    /\ Goto(t, "wrap")
    /\ UNCHANGED <<option, created, queueBase, usedSlots, locals>> /\ ButThread

RawWrap(t) ==
    /\ At(t, "wrap")
    /\ LET i == IF Inserting(t) THEN queueFront ELSE queueBack
       IN  Move(t, IF i > Slots - 1 THEN 0 ELSE i)
    /\ Goto(t, "used")
    /\ UNCHANGED <<option, created, queueBase, usedSlots, locals>> /\ ButThread

RawUsed(t) ==
    /\ At(t, "used")
    /\ index' = [index EXCEPT ![t] = usedSlots]
    /\ Goto(t, "reuse")
    /\ UNCHANGED <<option, created, ring, request>> /\ ButThread

\* A counter that wraps below zero is where the model stops.
RawReuse(t) ==
    /\ At(t, "reuse")
    /\ usedSlots' = (index[t] + (IF Inserting(t) THEN 1 ELSE 65535)) % 65536
    /\ halted' = IF usedSlots' = 65535 THEN "wild" ELSE halted
    /\ index' = [index EXCEPT ![t] = 0]
    /\ Goto(t, "wake")
    /\ UNCHANGED <<lists, objects, currentTask, highPrioTask, irqCounter, pendSV, tick,
                   yieldPrio, after, taskVars, arg,
                   option, created, queueBase, queueFront, queueBack, request>>

\* The loop: an application that never blocks has nobody to wake.
RawWake(t) ==
    /\ At(t, "wake")
    /\ Wake(IF Inserting(t) THEN InsertLoop ELSE RemoveLoop, QueueCauses)
    /\ Leaves(t)
    /\ UNCHANGED <<option, created, ring, index, taskVars>> /\ ButWaiters
-----------------------------------------------------------------------------
(* uLipeQueueCreate, uLipeQueueFlush, uLipeQueueDelete                     *)

\* The wait lists of a new queue are not initialised.
QueueCreate(t) ==
    /\ ~created /\ Uses(t, "create")
    /\ heap + 2 <= HeapBlocks
    /\ heap' = heap + 2
    /\ created' = TRUE
    /\ \E raw \in IF heapDirty THEN {EmptyList, [prioGrp |-> TRUE, prioTbl |-> UserPrio]}
                  ELSE {EmptyList} :
           waitList' = [waitList EXCEPT ![SlotWait] = raw, ![InsertWait] = raw]
    /\ queueBase' = [i \in 0..Slots-1 |-> Wild]
    /\ queueFront' = 0 /\ queueBack' = 0 /\ usedSlots' = 0
    /\ UNCHANGED <<lists, tcbPtrTbl, tcb, cpu, threads, tasksCount, heapDirty, arg,
                   option, locals>>

\* There is room for one of the two blocks. Without a control block the data
\* array is forgotten; without an array the control block is freed.
QueueCreateOutOfMemory(t) ==
    /\ ~created /\ Uses(t, "create")
    /\ heap = HeapBlocks - 1
    /\ \/ heap' = heap + 1 /\ UNCHANGED heapDirty
       \/ heapDirty' = TRUE /\ UNCHANGED heap
    /\ UNCHANGED <<kernelVars, tasksCount, arg, queueVars>>

QueueFlush(t) ==
    /\ QueueCalls(t, "flush")
    /\ queueFront' = 0 /\ queueBack' = 0 /\ usedSlots' = 0
    /\ Wake(BothLoops, QueueCauses)
    /\ Goto(t, "yield")
    /\ UNCHANGED <<option, created, queueBase, locals, taskVars>> /\ ButWaiters

\* QueueDeleteLoop takes one task out of each wait list until one of them is
\* empty, and leaves what waits in the other. A group raised over an empty
\* table counts for the idle task.
Listed(l) == IF ~waitList[l].prioGrp THEN {}
             ELSE IF waitList[l].prioTbl = {} THEN {IdlePrio} ELSE waitList[l].prioTbl

DeleteLoop ==
    LET Above(l, p) == Cardinality({q \in Listed(l) : q > p})
        Other(l) == IF l = SlotWait THEN InsertWait ELSE SlotWait
    IN  [l \in {SlotWait, InsertWait} |->
            {p \in Listed(l) : Above(l, p) < Cardinality(Listed(Other(l)))}]

\* The timeouts of those let go run on. What is freed as the data array is the
\* control block, the array is forgotten, and the address freed as the control
\* block is that of the caller's handle, of which nothing is modelled.
QueueDelete(t) ==
    /\ QueueCalls(t, "delete")
    /\ Wake(DeleteLoop, {"PendQueue"})
    /\ created' = FALSE
    /\ heap' = heap - 1
    /\ heapDirty' = TRUE
    /\ Goto(t, "yield")
    /\ UNCHANGED <<option, ring, locals, tasksCount>> /\ ButWaiters
-----------------------------------------------------------------------------
QueueCall(t) ==
    \/ QueueCreate(t) \/ QueueCreateOutOfMemory(t)
    \/ Insert(t) \/ Remove(t) \/ QueueFlush(t) \/ QueueDelete(t)
    \/ InsertFull(t)
    \/ \E ticks \in 0..MaxDelay : RemoveEmpty(t, ticks)

QueueProceeds(t) ==
    \/ EmptyBlock(t)
    \/ Again(t) \/ RawIndex(t) \/ RawSlot(t) \/ RawNext(t) \/ RawWrap(t) \/ RawUsed(t)
    \/ RawReuse(t) \/ RawWake(t)

\* Of the other calls, a task makes those that delay it.
QueueNext == \/ /\ \/ Interrupts
                   \/ \E t \in Prio : Proceed(t) \/ (Uses(t, "delay") /\ Call(t))
                /\ UNCHANGED queueVars
             \/ \E t \in Prio : QueueCall(t) \/ QueueProceeds(t)

QueueSpec == QueueInit /\ [][QueueNext]_queueAll
-----------------------------------------------------------------------------
(* Properties                                                              *)

QueueTypeOK ==
    /\ option \in Options /\ created \in BOOLEAN
    /\ queueBase \in [0..Slots-1 -> Prio \cup {Wild}]
    /\ {queueFront, queueBack, usedSlots} \subseteq 0..WordMax
    /\ request \in [Prio -> [op : {"none", "insert", "remove"}, ticks : 0..MaxDelay]]
    /\ index \in [Prio -> 0..WordMax]

\* The messages in the ring, the oldest first.
Around(i) == IF i >= Slots THEN i - Slots ELSE i
Items == [i \in 1..usedSlots |-> queueBase[Around(queueBack + i - 1)]]

Contents == IF created /\ option # "non" THEN Items ELSE <<>>

\* Whatever blocks and whoever is woken, the queue is a first-in first-out
\* buffer, full or empty exactly when insert and remove find it so, over wraps,
\* flushes and deletions; unless calls that do not block use the ring.
Buffer == INSTANCE Fifo WITH Message <- Prio, items <- Contents
FifoSpec == Buffer!FifoSpec

=============================================================================
