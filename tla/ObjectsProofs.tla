----------------------------- MODULE ObjectsProofs ----------------------------
(***************************************************************************)
(* Proofs about the queue and the mutex, for every number of tasks,        *)
(* every size of the queue and of the heap. The ring of the calls that     *)
(* stay in their critical section, or block, is a first-in first-out       *)
(* buffer; as long as the tasks stay the same, those that wait for a       *)
(* message are where an insert looks for them. One task at most has the    *)
(* mutex, nobody waits for a free one, and its priority stays with its     *)
(* owner, as long as no task runs that is held back. Nothing fails. The    *)
(* types hold with any option.                                             *)
(***************************************************************************)
EXTENDS Objects, TaskProofs, SequenceTheorems

\* The counters stay in their range, and the next free slot is usedSlots
\* behind the oldest message.
RingOK ==
    /\ queueBase \in [0..Slots-1 -> Prio \cup {Wild}]
    /\ queueFront \in 0..Slots-1 /\ queueBack \in 0..Slots-1
    /\ usedSlots \in 0..Slots
    /\ queueFront = Around(queueBack + usedSlots)

\* No thread is, or will be after its yield, in the unprotected part of a call
\* that does not block.
BlockingLabels == TaskLabels \cup {"empty"} \cup InsertLabels
ThreadsOK == /\ pc \in [Prio -> BlockingLabels]
             /\ after \in [Prio -> TaskLabels]

FifoInv ==
    /\ object \in {"queue", "mutex"}
    /\ object = "queue" /\ option # "non" => RingOK /\ ThreadsOK
    /\ object = "mutex" => ~created
-----------------------------------------------------------------------------
(* The ring                                                                *)

LEMMA SlotsFacts == Slots \in Nat /\ Slots > 0
BY SlotsAssumption

\* What is in the ring is a sequence as long as the counter says.
LEMMA ItemsSeq ==
  RingOK => /\ Items \in Seq(Prio \cup {Wild})
            /\ Len(Items) = usedSlots
            /\ \A i \in 1..usedSlots : Items[i] = queueBase[Around(queueBack + i - 1)]
<1> SUFFICES ASSUME RingOK
             PROVE  /\ Items \in Seq(Prio \cup {Wild})
                    /\ Len(Items) = usedSlots
                    /\ \A i \in 1..usedSlots : Items[i] = queueBase[Around(queueBack + i - 1)]
  OBVIOUS
<1> USE SlotsFacts
<1>1. \A i \in 1..usedSlots : Around(queueBack + i - 1) \in 0..Slots-1
  BY DEF RingOK, Around
<1>2. usedSlots \in Nat
  BY DEF RingOK
<1>3. \A i \in 1..usedSlots : queueBase[Around(queueBack + i - 1)] \in Prio \cup {Wild}
  BY <1>1 DEF RingOK
<1>4. Items \in [1..usedSlots -> Prio \cup {Wild}]
  BY <1>3 DEF Items
<1>5. \A i \in 1..usedSlots : Items[i] = queueBase[Around(queueBack + i - 1)]
  BY DEF Items
<1> HIDE DEF Items
<1>6. Items \in Seq(Prio \cup {Wild}) /\ Len(Items) = usedSlots
  BY <1>2, <1>4
<1> QED  BY <1>5, <1>6

\* NextSlot is one further around the ring.
LEMMA NextAround ==
  ASSUME NEW i \in 0..Slots-1
  PROVE  NextSlot(i) = Around(i + 1) /\ NextSlot(i) \in 0..Slots-1
BY SlotsFacts DEF NextSlot, Around

\* A put adds the message behind the others.
LEMMA PutAppends ==
  ASSUME RingOK, NEW message \in Prio, usedSlots < Slots, Put(message)
  PROVE  RingOK' /\ Items' = Append(Items, message)
<1> USE SlotsFacts
<1>1. RingOK'
  <2>1. queueFront' = Around(queueFront + 1) /\ queueFront' \in 0..Slots-1
    BY NextAround DEF RingOK, Put
  <2>2. queueBase' \in [0..Slots-1 -> Prio \cup {Wild}]
    BY DEF RingOK, Put
  <2>3. /\ usedSlots' = usedSlots + 1 /\ usedSlots' \in 0..Slots
        /\ queueBack' = queueBack
    BY DEF RingOK, Put
  <2>4. Around(queueFront + 1) = Around(queueBack + usedSlots + 1)
    BY DEF RingOK, Around
  <2> QED  BY <2>1, <2>2, <2>3, <2>4 DEF RingOK
<1>2. /\ Items' \in Seq(Prio \cup {Wild}) /\ Len(Items') = usedSlots + 1
      /\ \A i \in 1..usedSlots+1 : Items'[i] = queueBase'[Around(queueBack + i - 1)]
  <2>1. usedSlots' = usedSlots + 1 /\ queueBack' = queueBack
    BY DEF Put
  <2>3. \A i \in 1..usedSlots' : Items'[i] = queueBase'[Around(queueBack' + i - 1)]
    BY <1>1, <2>1 DEF Items
  <2>2. RingOK' => (Items \in Seq(Prio \cup {Wild}) /\ Len(Items) = usedSlots)'
    BY ItemsSeq, PTL
  <2>4. Items' \in Seq(Prio \cup {Wild}) /\ Len(Items') = usedSlots'
    BY <1>1, <2>2
  <2> QED  BY <2>1, <2>3, <2>4
<1>3. \A i \in 1..usedSlots : queueBase'[Around(queueBack + i - 1)] = Items[i]
  <2> SUFFICES ASSUME NEW i \in 1..usedSlots
               PROVE  queueBase'[Around(queueBack + i - 1)] = Items[i]
    OBVIOUS
  <2>1. /\ Around(queueBack + i - 1) # queueFront
        /\ Around(queueBack + i - 1) \in 0..Slots-1
    BY DEF RingOK, Around
  <2> QED  BY <2>1, ItemsSeq DEF Put, RingOK
<1>4. queueBase'[Around(queueBack + (usedSlots + 1) - 1)] = message
  BY DEF Put, RingOK
<1> DEFINE longer == Append(Items, message)
<1>5. /\ longer \in Seq(Prio \cup {Wild}) /\ Len(longer) = usedSlots + 1
      /\ \A i \in 1..usedSlots : longer[i] = Items[i]
      /\ longer[usedSlots + 1] = message
  BY ItemsSeq DEF RingOK
<1> HIDE DEF longer
<1>6. \A i \in 1..usedSlots+1 : Items'[i] = longer[i]
  BY <1>2, <1>3, <1>4, <1>5 DEF RingOK
<1>7. Items' = longer
  BY <1>2, <1>5, <1>6, SeqEqual
<1> QED  BY <1>1, <1>7 DEF longer

\* A get takes the oldest message away.
LEMMA GetTakesFirst ==
  ASSUME RingOK, usedSlots # 0, Get
  PROVE  RingOK' /\ Items # <<>> /\ Items' = Tail(Items)
<1> USE SlotsFacts
<1>1. RingOK'
  <2>1. queueBack' = Around(queueBack + 1) /\ queueBack' \in 0..Slots-1
    BY NextAround DEF RingOK, Get
  <2>2. Around(Around(queueBack + 1) + (usedSlots - 1)) = Around(queueBack + usedSlots)
    BY DEF RingOK, Around
  <2> QED  BY <2>1, <2>2 DEF RingOK, Get
<1>2. Items # <<>>
  BY ItemsSeq DEF RingOK
<1>3. /\ Items' \in Seq(Prio \cup {Wild}) /\ Len(Items') = usedSlots - 1
      /\ \A i \in 1..usedSlots-1 : Items'[i] = queueBase[Around(NextSlot(queueBack) + i - 1)]
  <2>1. usedSlots' = usedSlots - 1 /\ queueBack' = NextSlot(queueBack) /\ queueBase' = queueBase
    BY DEF Get
  <2>2. RingOK' => (Items \in Seq(Prio \cup {Wild}) /\ Len(Items) = usedSlots)'
    BY ItemsSeq, PTL
  <2>3. \A i \in 1..usedSlots' : Items'[i] = queueBase'[Around(queueBack' + i - 1)]
    BY <1>1, <2>1 DEF Items
  <2> QED  BY <1>1, <2>1, <2>2, <2>3
<1>4. /\ Tail(Items) \in Seq(Prio \cup {Wild}) /\ Len(Tail(Items)) = usedSlots - 1
      /\ \A i \in 1..usedSlots-1 : Tail(Items)[i] = Items[i + 1]
  BY <1>2, ItemsSeq, HeadTailProperties
<1>5. \A i \in 1..usedSlots-1 : Items'[i] = Tail(Items)[i]
  <2> SUFFICES ASSUME NEW i \in 1..usedSlots-1
               PROVE  Items'[i] = Tail(Items)[i]
    OBVIOUS
  <2>1. Around(NextSlot(queueBack) + i - 1) = Around(queueBack + (i + 1) - 1)
    <3>1. NextSlot(queueBack) = Around(queueBack + 1)
      BY NextAround DEF RingOK
    <3> QED  BY <3>1 DEF RingOK, Around
  <2>2. i + 1 \in 1..usedSlots
    BY DEF RingOK
  <2> QED  BY <1>3, <1>4, <2>1, <2>2, ItemsSeq
<1>6. Items' = Tail(Items)
  BY <1>3, <1>4, <1>5, SeqEqual
<1> QED  BY <1>1, <1>2, <1>6

\* With the counters at zero the ring is empty.
LEMMA ResetEmpties ==
  ASSUME queueBase' \in [0..Slots-1 -> Prio \cup {Wild}],
         queueFront' = 0, queueBack' = 0, usedSlots' = 0
  PROVE  RingOK' /\ Items' = <<>>
BY SlotsFacts DEF RingOK, Around, Items

LEMMA RingKept ==
  ASSUME UNCHANGED ring
  PROVE  (RingOK => RingOK') /\ Items' = Items
BY DEF RingOK, Items, ring
-----------------------------------------------------------------------------
(* The threads, one step per action                                        *)

\* A task that goes to one of these labels keeps the threads in order.
LEMMA GotoKeepsThreads ==
  ASSUME ThreadsOK, NEW t \in Prio, NEW label \in BlockingLabels, Goto(t, label),
         UNCHANGED after
  PROVE  ThreadsOK'
BY DEF ThreadsOK, Goto

LEMMA InterruptsKeepThreads ==
  ASSUME ThreadsOK, Interrupts
  PROVE  ThreadsOK'
<1>1. UNCHANGED threads
  BY DEF Interrupts, Interrupt, TickEnter, TickTask, TickOut, PendSV
<1> QED  BY <1>1 DEF ThreadsOK, threads

LEMMA YieldKeepsThreads ==
  ASSUME ThreadsOK, NEW t \in Prio, Yield(t)
  PROVE  ThreadsOK'
<1>1. CASE YieldFind(t)
  BY <1>1 DEF YieldFind, Goto, ThreadsOK, BlockingLabels, TaskLabels
<1>2. CASE YieldPublish(t)
  BY <1>2 DEF YieldPublish, Goto, ThreadsOK, BlockingLabels, TaskLabels
<1> QED  BY <1>1, <1>2 DEF Yield

LEMMA TasksKeepThreads ==
  ASSUME ThreadsOK, NEW t \in Prio, Proceed(t) \/ Call(t)
  PROVE  ThreadsOK'
<1> USE DEF Goto, ThreadsOK, BlockingLabels, TaskLabels
<1>1. CASE Yield(t)
  BY <1>1, YieldKeepsThreads
<1>2. CASE SuspendTask(t)
  BY <1>2 DEF SuspendTask, Leave
<1>3. CASE ResumeTask(t)
  BY <1>3 DEF ResumeTask, Leave
<1>4. CASE CreateRefused(t)
  BY <1>4 DEF CreateRefused, Enter
<1>5. CASE CreateTask(t)
  BY <1>5 DEF CreateTask
<1>6. CASE DeleteTask(t)
  BY <1>6 DEF DeleteTask
<1>7. ASSUME NEW ticks \in 1..MaxDelay, Delay(t, ticks) PROVE ThreadsOK'
  BY <1>7 DEF Delay, Leave
<1>8. ASSUME NEW p \in UserPrio, SuspendCheck(t, p) PROVE ThreadsOK'
  BY <1>8 DEF SuspendCheck, Enter
<1>9. ASSUME NEW p \in UserPrio, ResumeCheck(t, p) PROVE ThreadsOK'
  BY <1>9 DEF ResumeCheck, Enter
<1>10. ASSUME NEW p \in UserPrio, CreateAlloc(t, p) PROVE ThreadsOK'
  BY <1>10 DEF CreateAlloc, Enter
<1>11. ASSUME NEW p \in UserPrio, DeleteCheck(t, p) PROVE ThreadsOK'
  BY <1>11 DEF DeleteCheck, Enter
<1>12. CASE CreateOutOfMemory(t)
  BY <1>12 DEF CreateOutOfMemory, kernelVars, threads
<1>13. CASE Return(t)
  BY <1>13 DEF Return, Enter
<1> QED
  BY <1>1, <1>2, <1>3, <1>4, <1>5, <1>6, <1>7, <1>8, <1>9, <1>10, <1>11, <1>12, <1>13
  DEF Proceed, Call
-----------------------------------------------------------------------------
(* Every step of an application with a queue is one of the buffer's, or    *)
(* none.                                                                   *)

BufferStep == Buffer!Put \/ Buffer!Get \/ Buffer!Drop \/ Contents' = Contents

\* Most steps leave the queue alone.
LEMMA QueueAlone ==
  ASSUME RingOK, UNCHANGED <<option, created, ring>>
  PROVE  RingOK' /\ BufferStep
BY RingKept DEF BufferStep, Contents

\* The two threads' places outside of any task's own calls.
LEMMA Labels ==
  /\ {"run", "yield", "empty", "full", "unready", "pend", "timer", "count", "point", "group",
      "read", "write"} \subseteq BlockingLabels
  /\ {"again", "index", "slot", "next", "wrap", "used", "reuse", "wake"} \cap BlockingLabels = {}
BY DEF BlockingLabels, TaskLabels, InsertLabels

\* A critical section that changes the ring.
LEMMA CallsStep ==
  ASSUME RingOK, ThreadsOK, option # "non", NEW t \in Prio, QueueCall(t)
  PROVE  RingOK' /\ ThreadsOK' /\ BufferStep
<1>1. CASE QueueCreate(t)
  <2>1. ThreadsOK'
    BY <1>1 DEF QueueCreate, ThreadsOK, threads
  <2>2. queueBase' \in [0..Slots-1 -> Prio \cup {Wild}]
    BY <1>1 DEF QueueCreate
  <2>3. RingOK' /\ Items' = <<>>
    BY <1>1, <2>2, ResetEmpties DEF QueueCreate
  <2>4. Buffer!Drop
    BY <2>3 DEF Buffer!Drop, Contents
  <2> QED  BY <2>1, <2>3, <2>4 DEF BufferStep
<1>2. CASE QueueCreateOutOfMemory(t)
  <2>1. ThreadsOK' /\ UNCHANGED <<option, created, ring>>
    BY <1>2 DEF QueueCreateOutOfMemory, ThreadsOK, kernelVars, threads, queueVars
  <2> QED  BY <2>1, QueueAlone
<1>3. CASE Insert(t)
  <2>1. ThreadsOK'
    BY <1>3, Labels, GotoKeepsThreads DEF Insert, ButWaiters
  <2>2. usedSlots < Slots /\ Put(t) /\ created /\ UNCHANGED <<option, created>>
    BY <1>3 DEF Insert, QueueCalls
  <2>3. RingOK' /\ Items' = Append(Items, t)
    BY <2>2, PutAppends
  <2>4. Len(Items) < Slots
    BY <2>2, ItemsSeq
  <2>5. Buffer!Put
    BY <2>2, <2>3, <2>4 DEF Buffer!Put, Contents
  <2> QED  BY <2>1, <2>3, <2>5 DEF BufferStep
<1>4. CASE Remove(t)
  <2>1. ThreadsOK'
    BY <1>4, Labels, GotoKeepsThreads DEF Remove, ButWaiters
  <2>2. usedSlots # 0 /\ Get /\ created /\ UNCHANGED <<option, created>>
    BY <1>4 DEF Remove, QueueCalls
  <2>3. RingOK' /\ Items # <<>> /\ Items' = Tail(Items)
    BY <2>2, GetTakesFirst
  <2>4. Buffer!Get
    BY <2>2, <2>3 DEF Buffer!Get, Contents
  <2> QED  BY <2>1, <2>3, <2>4 DEF BufferStep
<1>5. CASE QueueFlush(t)
  <2>1. ThreadsOK'
    BY <1>5, Labels, GotoKeepsThreads DEF QueueFlush, ButWaiters
  <2>2. queueBase' \in [0..Slots-1 -> Prio \cup {Wild}]
    BY <1>5 DEF QueueFlush, RingOK
  <2>3. RingOK' /\ Items' = <<>>
    BY <1>5, <2>2, ResetEmpties DEF QueueFlush
  <2>4. Buffer!Drop
    BY <2>3 DEF Buffer!Drop, Contents
  <2> QED  BY <2>1, <2>3, <2>4 DEF BufferStep
<1>6. CASE QueueDelete(t)
  <2>1. ThreadsOK'
    BY <1>6, Labels, GotoKeepsThreads DEF QueueDelete, ButWaiters
  <2>2. UNCHANGED ring /\ ~created'
    BY <1>6 DEF QueueDelete
  <2>3. Buffer!Drop
    BY <2>2 DEF Buffer!Drop, Contents
  <2> QED  BY <2>1, <2>2, <2>3, RingKept DEF BufferStep
<1>7. CASE InsertFull(t)
  BY <1>7 DEF InsertFull
<1>8. ASSUME NEW ticks \in 0..MaxDelay, RemoveEmpty(t, ticks)
      PROVE  RingOK' /\ ThreadsOK' /\ BufferStep
  <2>1. Goto(t, "empty") /\ UNCHANGED after /\ UNCHANGED <<option, created, ring>>
    BY <1>8 DEF RemoveEmpty, Begin, ButThread
  <2> QED  BY <2>1, Labels, GotoKeepsThreads, QueueAlone
<1> QED  BY <1>1, <1>2, <1>3, <1>4, <1>5, <1>6, <1>7, <1>8 DEF QueueCall

\* A call goes on: blocking leaves the ring alone, and no thread is where a
\* call that does not block would use it.
LEMMA ProceedsStep ==
  ASSUME RingOK, ThreadsOK, NEW t \in Prio, QueueProceeds(t)
  PROVE  RingOK' /\ ThreadsOK' /\ BufferStep
<1>1. EmptyBlock(t)
  BY Labels
  DEF QueueProceeds, ThreadsOK, At, Again, RawIndex, RawSlot, RawNext, RawWrap, RawUsed,
      RawReuse, RawWake
<1>2. Goto(t, "yield") /\ UNCHANGED after /\ UNCHANGED <<option, created, ring>>
  BY <1>1 DEF EmptyBlock, Leaves
<1> QED  BY <1>2, Labels, GotoKeepsThreads, QueueAlone

\* So does an insert that finds the queue full.
LEMMA BlockingInsertStep ==
  ASSUME RingOK, ThreadsOK, NEW t \in Prio,
         \/ InsertProceeds(t)
         \/ \E ticks \in 0..MaxDelay : InsertBlocks(t, ticks)
  PROVE  RingOK' /\ ThreadsOK' /\ BufferStep
<1> SUFFICES /\ \E label \in BlockingLabels : Goto(t, label)
             /\ UNCHANGED after /\ UNCHANGED <<option, created, ring>>
  BY GotoKeepsThreads, QueueAlone
<1> USE Labels DEF queueVars, ButThread
<1>1. ASSUME NEW ticks \in 0..MaxDelay, InsertBlocks(t, ticks)
      PROVE  Goto(t, "full") /\ UNCHANGED <<after, option, created, ring>>
  BY <1>1 DEF InsertBlocks, Begin
<1>2. CASE FullReadReady(t)
  BY <1>2 DEF FullReadReady
<1>3. CASE FullUnready(t)
  BY <1>3 DEF FullUnready
<1>4. CASE FullPend(t)
  BY <1>4 DEF FullPend
<1>5. CASE FullReadTimer(t)
  BY <1>5 DEF FullReadTimer
<1>6. CASE FullCount(t)
  BY <1>6 DEF FullCount
<1>7. CASE FullPoint(t)
  BY <1>7 DEF FullPoint
<1>8. CASE FullGroup(t)
  BY <1>8 DEF FullGroup
<1>9. CASE FullRead(t)
  BY <1>9 DEF FullRead
<1>10. CASE FullWrite(t)
  BY <1>10 DEF FullWrite, Leaves
<1> QED
  BY <1>1, <1>2, <1>3, <1>4, <1>5, <1>6, <1>7, <1>8, <1>9, <1>10 DEF InsertProceeds

LEMMA QueueStep ==
  ASSUME RingOK, ThreadsOK, option # "non", InsertNext
  PROVE  RingOK' /\ ThreadsOK' /\ BufferStep
<1>1. ASSUME NEW t \in Prio, \/ InsertProceeds(t)
                             \/ \E ticks \in 0..MaxDelay : InsertBlocks(t, ticks)
      PROVE  RingOK' /\ ThreadsOK' /\ BufferStep
  BY <1>1, BlockingInsertStep
<1>2. ASSUME NEW t \in Prio, QueueCall(t) \/ QueueProceeds(t)
      PROVE  RingOK' /\ ThreadsOK' /\ BufferStep
  BY <1>2, CallsStep, ProceedsStep
<1>3. ASSUME Interrupts \/ \E t \in Prio : Proceed(t) \/ Call(t), UNCHANGED queueVars
      PROVE  RingOK' /\ ThreadsOK' /\ BufferStep
  <2>1. ThreadsOK'
    BY <1>3, InterruptsKeepThreads, TasksKeepThreads
  <2>2. UNCHANGED <<option, created, ring>>
    BY <1>3 DEF queueVars
  <2> QED  BY <2>1, <2>2, QueueAlone
<1> QED  BY <1>1, <1>2, <1>3 DEF InsertNext, QueueNext

\* No step of a queue's application changes its option.
LEMMA OptionStays ==
  ASSUME InsertNext
  PROVE  UNCHANGED option
<1> USE DEF queueVars
<1>1. ASSUME NEW t \in Prio, QueueCall(t) PROVE UNCHANGED option
  BY <1>1
  DEF QueueCall, QueueCreate, QueueCreateOutOfMemory, Insert, Remove, QueueFlush, QueueDelete,
      InsertFull, RemoveEmpty
<1>2. ASSUME NEW t \in Prio, QueueProceeds(t) PROVE UNCHANGED option
  BY <1>2
  DEF QueueProceeds, EmptyBlock, Again, RawIndex, RawSlot, RawNext, RawWrap, RawUsed,
      RawReuse, RawWake
<1>3. ASSUME NEW t \in Prio, InsertProceeds(t) PROVE UNCHANGED option
  BY <1>3
  DEF InsertProceeds, FullReadReady, FullUnready, FullPend, FullReadTimer, FullCount,
      FullPoint, FullGroup, FullRead, FullWrite
<1>4. ASSUME NEW t \in Prio, NEW ticks \in 0..MaxDelay, InsertBlocks(t, ticks)
      PROVE  UNCHANGED option
  BY <1>4 DEF InsertBlocks
<1> QED  BY <1>1, <1>2, <1>3, <1>4 DEF InsertNext, QueueNext
-----------------------------------------------------------------------------
(* The specification                                                       *)

LEMMA InitFifoInv == ObjectsInit => FifoInv /\ Buffer!FifoInit
<1> SUFFICES ASSUME ObjectsInit PROVE FifoInv /\ Buffer!FifoInit
  OBVIOUS
<1>1. QueueInit /\ Init /\ KernelInit(Boot) /\ object \in {"queue", "mutex"}
  BY DEF ObjectsInit, InsertInit, QueueInit, Init
<1>2. ~created
  BY <1>1 DEF QueueInit
<1>3. ThreadsOK
  BY <1>1 DEF KernelInit, ThreadsOK, BlockingLabels, TaskLabels
<1>4. RingOK
  BY <1>1, SlotsFacts DEF QueueInit, RingOK, Around
<1> QED  BY <1>1, <1>2, <1>3, <1>4 DEF FifoInv, Buffer!FifoInit, Contents

LEMMA NextFifoInv ==
  FifoInv /\ [ObjectsNext]_objectsAll
    => FifoInv' /\ [Buffer!Put \/ Buffer!Get \/ Buffer!Drop]_Contents
<1> SUFFICES ASSUME FifoInv, [ObjectsNext]_objectsAll
             PROVE  FifoInv' /\ BufferStep
  BY DEF BufferStep
<1>1. CASE UNCHANGED objectsAll
  <2>1. UNCHANGED <<object, option, created, ring, pc, after>>
    BY <1>1 DEF objectsAll, insertVars, mutexAll, queueVars, vars, kernelVars, threads
  <2> QED
    BY <2>1, RingKept DEF FifoInv, ThreadsOK, BufferStep, Contents
<1>2. CASE object = "mutex" /\ UNCHANGED object /\ UNCHANGED queueVars
  BY <1>2 DEF FifoInv, BufferStep, Contents, queueVars
<1>3. CASE object = "queue" /\ UNCHANGED object /\ InsertNext /\ option # "non"
  BY <1>3, QueueStep, OptionStays DEF FifoInv
<1>4. CASE object = "queue" /\ UNCHANGED object /\ InsertNext /\ option = "non"
  BY <1>4, OptionStays DEF FifoInv, BufferStep, Contents
<1> QED  BY <1>1, <1>2, <1>3, <1>4 DEF ObjectsNext

\* The front of the ring is usedSlots behind its back, and the counters stay
\* in their range, wherever the queue's calls are interrupted: uLipeQueueInsert
\* and uLipeQueueRemove wrap the two ends apart from each other.
THEOREM RingCorrect == ObjectsSpec => [](object = "queue" /\ option # "non" => RingOK)
<1>1. FifoInv => (object = "queue" /\ option # "non" => RingOK)
  BY DEF FifoInv
<1> QED  BY <1>1, InitFifoInv, NextFifoInv, PTL DEF ObjectsSpec

\* The queue hands out its messages in the order they came in, each once,
\* and holds no more than its slots, whatever uLipeQueueInsert and
\* uLipeQueueRemove are interrupted by, over blocking, flushes and deletions.
THEOREM ImplementsFifo == ObjectsSpec => FifoSpec
BY InitFifoInv, NextFifoInv, PTL DEF ObjectsSpec, FifoSpec, Buffer!FifoSpec
-----------------------------------------------------------------------------
(* What the calls of a queue that blocks leave in order                    *)

\* Such a call is in its critical sections, between the two of a remove, or
\* yields.
BlockThreads == ThreadPart({"empty"}, {})

CreatedPart ==
    /\ UserPrio \subseteq InstalledTasks
    /\ tasksCount \in 0..N /\ heap \in 2..HeapBlocks /\ heapDirty \in BOOLEAN
    /\ created \in BOOLEAN /\ (created => heap >= 4)

Requests == [op : {"none", "insert", "remove"}, ticks : 0..MaxDelay]
RequestPart == request \in [Prio -> Requests] /\ index \in [Prio -> 0..WordMax]

\* Until a queue is deleted, a task that waits for a message, or is about to,
\* has a queue, and is listed where an insert looks for it.
IsListed(p) == waitList[InsertWait].prioGrp /\ p \in waitList[InsertWait].prioTbl
ReceiverPart ==
    ~heapDirty => \A p \in Prio :
        /\ pc[p] = "empty" => created
        /\ "PendQueue" \in taskStatus[p] => created /\ IsListed(p)

BlockInv == KernelParts /\ BlockThreads /\ CreatedPart /\ RequestPart /\ ReceiverPart

\* The rest of the state of such an application stays as it was.
QInv == /\ FifoInv
        /\ object = "queue" => MutexTypeOK /\ option \in Options
        /\ object = "queue" /\ option = "block" =>
              BlockInv /\ word \in [Prio -> SUBSET Prio]

LEMMA QueueListFacts ==
  /\ LabelsOK({"empty"}, {})
  /\ SlotWait \in List /\ InsertWait \in List /\ SlotWait # InsertWait
BY QueueListsAssumption DEF LabelsOK, TaskLabels

LEMMA BlockStart ==
  ASSUME InsertInit, UserPrio \subseteq Boot
  PROVE  BlockInv
<1>1. QueueInit /\ Init
  BY DEF InsertInit, QueueInit
<1>2. KernelParts /\ BlockThreads /\ heapDirty = FALSE /\ UserPrio \subseteq InstalledTasks
  BY <1>1, InitParts DEF BlockThreads
<1>3. tasksCount \in 0..N /\ heap \in 2..HeapBlocks
  <2>1. Cardinality(Boot) \in Nat /\ HeapBlocks \in Nat /\ heap = 2 * (Cardinality(Boot) + 1)
    BY <1>1, BootFacts, HeapAssumption DEF Init
  <2>2. heap \in 0..HeapBlocks /\ tasksCount \in 0..N
    BY <1>1, InitInv DEF Inv, TypeOK
  <2> QED  BY <2>1, <2>2
<1>4. /\ created = FALSE /\ request = [p \in Prio |-> NoRequest] /\ index = [p \in Prio |-> 0]
      /\ \A p \in Prio : pc[p] = "run" /\ taskStatus[p] = {}
  BY <1>1 DEF QueueInit, Init, KernelInit
<1>5. request \in [Prio -> Requests]
  <2>1. 0 \in 0..MaxDelay /\ "none" \in {"none", "insert", "remove"}
    BY DelayAssumption
  <2>2. NoRequest \in Requests
    BY <2>1 DEF NoRequest, Requests
  <2> QED  BY <1>4, <2>2
<1>6. CreatedPart
  BY <1>2, <1>3, <1>4 DEF CreatedPart
<1>7. RequestPart
  <2>1. WordMax \in Nat
    BY DEF WordMax
  <2>2. 0 \in 0..WordMax
    BY <2>1
  <2> QED  BY <1>4, <1>5, <2>2 DEF RequestPart
<1>8. ReceiverPart
  BY <1>4 DEF ReceiverPart
<1> QED  BY <1>2, <1>6, <1>7, <1>8 DEF BlockInv

LEMMA CreatedKept ==
  ASSUME CreatedPart, UNCHANGED <<tcbPtrTbl, tasksCount, heap, heapDirty, created>>
  PROVE  CreatedPart'
BY SameTasks DEF CreatedPart

LEMMA RequestKept ==
  ASSUME RequestPart, UNCHANGED <<request, index>>
  PROVE  RequestPart'
BY DEF RequestPart

LEMMA BlockKept ==
  ASSUME BlockInv, UNCHANGED <<vars, created, locals>>
  PROVE  BlockInv'
<1>1. UNCHANGED <<lists, objects, cpu, threads, taskVars, arg, request, index>>
  BY DEF vars, kernelVars, locals
<1>2. KernelParts' /\ BlockThreads'
  BY <1>1, PartsKept, ThreadsKept DEF BlockInv, BlockThreads, objects
<1>3. UNCHANGED <<tcbPtrTbl, tasksCount, heap, heapDirty, pc, taskStatus, waitList>>
  BY <1>1 DEF objects, tcb, threads, taskVars
<1>4. CreatedPart' /\ RequestPart'
  BY <1>1, <1>3, CreatedKept, RequestKept DEF BlockInv
<1>5. ReceiverPart'
  BY <1>1, <1>3 DEF BlockInv, ReceiverPart, IsListed
<1> QED  BY <1>2, <1>4, <1>5 DEF BlockInv

\* The tasks' own calls and the interrupts: a timeout takes its task alone out
\* of the list.
LEMMA TasksBlock ==
  ASSUME Api \subseteq TimingCalls, BlockInv, Next, UNCHANGED queueVars
  PROVE  BlockInv'
<1>0. /\ KernelParts /\ ThreadPart({"empty"}, {}) /\ CreatedPart /\ RequestPart /\ ReceiverPart
      /\ taskStatus \in [Prio -> SUBSET Status]
  BY DEF BlockInv, BlockThreads, KernelParts, ReadyPart
<1>1. /\ KernelParts' /\ ThreadPart({"empty"}, {})' /\ UNCHANGED <<tcbPtrTbl, taskVars>>
      /\ WaitsStep /\ \A p \in Prio : Moves(p)
  BY <1>0, QueueListFacts, TaskStep
<1>2. \A p \in Prio : pc'[p] = "empty" => pc[p] = "empty"
  <2>1. \A p \in Prio : after[p] = "run"
    BY <1>0 DEF ThreadPart
  <2> QED  BY <1>1, <2>1 DEF Moves
<1>3. UNCHANGED <<tasksCount, heap, heapDirty, created, request, index>>
  BY <1>1 DEF taskVars, queueVars, locals
<1>4. CreatedPart' /\ RequestPart'
  BY <1>0, <1>1, <1>3, CreatedKept, RequestKept
<1>5. ASSUME NEW p \in Prio, "PendQueue" \in taskStatus'[p]
      PROVE  "PendQueue" \in taskStatus[p] /\ (IsListed(p) => IsListed(p)')
  <2>1. CASE WaitsStay
    <3>1. taskStatus'[p] \ {"Suspend", "PendDelay"} = taskStatus[p] \ {"Suspend", "PendDelay"}
          /\ UNCHANGED waitList
      BY <2>1 DEF WaitsStay
    <3> QED  BY <1>5, <3>1 DEF IsListed
  <2>2. ASSUME NEW i \in InstalledTasks, Expires(i)
        PROVE  "PendQueue" \in taskStatus[p] /\ (IsListed(p) => IsListed(p)')
    <3>1. taskStatus' = [taskStatus EXCEPT ![i] = {}]
      BY <2>2 DEF Expires
    <3>2. p # i /\ "PendQueue" \in taskStatus[p]
      BY <1>0, <1>5, <3>1
    <3>3. waitList'[InsertWait] = waitList[InsertWait]
            \/ waitList'[InsertWait] = Delist(waitList[InsertWait], {i})
      BY <2>2, QueueListFacts DEF Expires, LeaveWaitLists
    <3>4. waitList'[InsertWait] = waitList[InsertWait] => (IsListed(p) => IsListed(p)')
      BY DEF IsListed
    <3>5. ASSUME waitList'[InsertWait] = Delist(waitList[InsertWait], {i}), IsListed(p)
          PROVE  IsListed(p)'
      <4> DEFINE list == waitList[InsertWait]
      <4>1. list.prioGrp /\ p \in list.prioTbl /\ p \notin {i}
        BY <3>2, <3>5 DEF IsListed
      <4> HIDE DEF list
      <4>2. Delist(list, {i}).prioGrp /\ p \in Delist(list, {i}).prioTbl
        BY <4>1, StaysListed
      <4> QED  BY <3>5, <4>2 DEF IsListed, list
    <3> QED  BY <3>2, <3>3, <3>4, <3>5
  <2> QED  BY <1>1, <2>1, <2>2 DEF WaitsStep
<1>6. ReceiverPart'
  BY <1>0, <1>2, <1>3, <1>5 DEF ReceiverPart
<1> QED  BY <1>1, <1>4, <1>6 DEF BlockInv, BlockThreads

\* Whoever uses the queue is a task between its calls.
LEMMA UserOf ==
  ASSUME option \in Options, NEW t \in Prio, NEW call \in QueueApi, Uses(t, call)
  PROVE  t # IdlePrio /\ Runs(t) /\ pc[t] = "run"
<1>1. Users[option][call] \in SUBSET (Prio \ {IdlePrio})
  BY UsersAssumption
<1> QED  BY <1>1 DEF Uses, At

\* A call goes on to one of its places, or to its yield.
LEMMA BlockThreadStep ==
  ASSUME BlockThreads, NEW t \in Prio, t # IdlePrio, NEW label \in {"yield", "empty"},
         Goto(t, label), UNCHANGED <<tcbPtrTbl, yieldPrio, after, arg>>
  PROVE  BlockThreads' /\ \A p \in Prio : pc'[p] = "empty" => pc[p] = "empty" \/ label = "empty"
<1>1. label \in TimingPlaces \cup {"empty"} /\ label \notin {"suspend", "resume"}
  BY DEF TimingPlaces
<1>2. arg' \in [Prio -> Prio] /\ after' \in [Prio -> {"run"} \cup {}]
      /\ \A p \in Prio \ {t} : arg'[p] = arg[p]
  BY DEF BlockThreads, ThreadPart
<1>3. BlockThreads'
  BY <1>1, <1>2, ThreadStep DEF BlockThreads
<1>4. pc \in [Prio -> TimingPlaces \cup {"empty"}]
  BY DEF BlockThreads, ThreadPart
<1> QED  BY <1>3, <1>4 DEF Goto

\* A call that lets some waiters go: those for a message who stay blocked stay
\* listed.
LEMMA QueueWakes ==
  ASSUME BlockInv, NEW t \in Prio, t # IdlePrio, created, Goto(t, "yield"), ButWaiters,
         NEW from, DOMAIN from \subseteq {SlotWait, InsertWait},
         \A l \in DOMAIN from : from[l] \in SUBSET InstalledTasks,
         NEW causes, "PendQueue" \in causes, Wake(from, causes),
         UNCHANGED <<locals, tasksCount>>,
         \/ UNCHANGED <<created, heap, heapDirty>>
         \/ created' = FALSE /\ heap' = heap - 1 /\ heapDirty' = TRUE
  PROVE  BlockInv'
<1>0. /\ KernelParts /\ TablePart /\ CpuPart
      /\ BlockThreads /\ CreatedPart /\ RequestPart /\ ReceiverPart
  BY DEF BlockInv, KernelParts
<1>1. /\ UNCHANGED <<timerPendingList, activeList, tcbPtrTbl, delayTime, bmp, tick, irqCounter>>
      /\ UNCHANGED <<currentTask, highPrioTask, pendSV, yieldPrio, after, arg>>
  BY DEF ButWaiters
<1>2. DOMAIN from \subseteq List
  BY QueueListFacts
<1>3. /\ ReadyPart' /\ TimerPart' /\ ListPart' /\ UNCHANGED halted
      /\ taskStatus' = [p \in Prio |-> IF p \in All(from) THEN Held(p, causes)
                                       ELSE taskStatus[p]]
      /\ waitList' = [l \in List |-> IF l \in DOMAIN from THEN Delist(waitList[l], from[l])
                                     ELSE waitList[l]]
  BY <1>0, <1>1, <1>2, WakeParts
<1>4. KernelParts'
  BY <1>0, <1>1, <1>3, SameTasks, CpuKept DEF KernelParts
<1>5. BlockThreads' /\ \A p \in Prio : pc'[p] = "empty" => pc[p] = "empty"
  BY <1>0, <1>1, BlockThreadStep
<1>6. CreatedPart'
  <2>1. CASE UNCHANGED <<created, heap, heapDirty>>
    BY <1>0, <1>1, <2>1, CreatedKept
  <2>2. CASE created' = FALSE /\ heap' = heap - 1 /\ heapDirty' = TRUE
    <3>1. heap - 1 \in 2..HeapBlocks
      <4>1. heap \in 2..HeapBlocks /\ heap >= 4 /\ HeapBlocks \in Nat
        BY <1>0, HeapAssumption DEF CreatedPart
      <4> QED  BY <4>1
    <3> QED  BY <1>0, <1>1, <2>2, <3>1, SameTasks DEF CreatedPart
  <2> QED  BY <2>1, <2>2
<1>7. RequestPart'
  BY <1>0, RequestKept DEF locals
<1>8. ReceiverPart'
  <2> SUFFICES ASSUME ~heapDirty', NEW p \in Prio
               PROVE  /\ pc'[p] = "empty" => created'
                      /\ "PendQueue" \in taskStatus'[p] => created' /\ IsListed(p)'
    BY DEF ReceiverPart
  <2>1. UNCHANGED <<created, heapDirty>>
    OBVIOUS
  <2>2. ASSUME "PendQueue" \in taskStatus'[p] PROVE IsListed(p)'
    <3>1. p \notin All(from) /\ "PendQueue" \in taskStatus[p]
      BY <1>3, <2>2 DEF Held
    <3>2. IsListed(p)
      BY <1>0, <2>1, <3>1 DEF ReceiverPart
    <3>3. InsertWait \in DOMAIN from => p \notin from[InsertWait]
      BY <3>1 DEF All
    <3>4. CASE InsertWait \notin DOMAIN from
      <4>1. waitList'[InsertWait] = waitList[InsertWait]
        BY <1>3, <3>4, QueueListFacts
      <4> QED  BY <3>2, <4>1 DEF IsListed
    <3>5. CASE InsertWait \in DOMAIN from
      <4> DEFINE list == waitList[InsertWait]
                 gone == from[InsertWait]
      <4>1. waitList'[InsertWait] = Delist(list, gone)
        BY <1>3, <3>5, QueueListFacts
      <4>2. list.prioGrp /\ p \in list.prioTbl /\ p \notin gone
        BY <3>2, <3>3, <3>5 DEF IsListed
      <4> HIDE DEF list, gone
      <4>3. Delist(list, gone).prioGrp /\ p \in Delist(list, gone).prioTbl
        BY <4>2, StaysListed
      <4> QED  BY <4>1, <4>3 DEF IsListed
    <3> QED  BY <3>4, <3>5
  <2> QED  BY <1>0, <1>5, <2>1, <2>2 DEF ReceiverPart
<1> QED  BY <1>4, <1>5, <1>6, <1>7, <1>8 DEF BlockInv

\* One waiter, or one of each kind, is let go.
LEMMA LoopsFrom ==
  ASSUME KernelParts, NEW from \in {InsertLoop, RemoveLoop, BothLoops}
  PROVE  /\ DOMAIN from \subseteq {SlotWait, InsertWait}
         /\ \A l \in DOMAIN from : from[l] \in SUBSET InstalledTasks
<1>1. \A l \in {SlotWait, InsertWait} : FirstWaiter(l) \in SUBSET InstalledTasks
  BY WaitersAreTasks, QueueListFacts
<1>2. CASE from = InsertLoop
  <2>1. DOMAIN from = {InsertWait} /\ from[InsertWait] = FirstWaiter(InsertWait)
    BY <1>2, OnlyAll DEF InsertLoop
  <2> QED  BY <1>1, <2>1
<1>3. CASE from = RemoveLoop
  <2>1. DOMAIN from = {SlotWait} /\ from[SlotWait] = FirstWaiter(SlotWait)
    BY <1>3, OnlyAll DEF RemoveLoop
  <2> QED  BY <1>1, <2>1
<1>4. CASE from = BothLoops
  BY <1>1, <1>4 DEF BothLoops
<1> QED  BY <1>2, <1>3, <1>4

\* Those QueueDeleteLoop takes out are tasks.
LEMMA DeleteFrom ==
  ASSUME KernelParts
  PROVE  /\ DOMAIN DeleteLoop \subseteq {SlotWait, InsertWait}
         /\ \A l \in DOMAIN DeleteLoop : DeleteLoop[l] \in SUBSET InstalledTasks
<1>1. IdlePrio \in InstalledTasks
  BY PrioFacts DEF KernelParts, TablePart, InstalledTasks, Installed
<1>2. \A l \in {SlotWait, InsertWait} : Listed(l) \in SUBSET InstalledTasks
  BY <1>1, WaitersAreTasks, QueueListFacts DEF Listed
<1>3. /\ DOMAIN DeleteLoop = {SlotWait, InsertWait}
      /\ \A l \in {SlotWait, InsertWait} : DeleteLoop[l] \in SUBSET Listed(l)
  BY DEF DeleteLoop
<1> QED  BY <1>2, <1>3

LEMMA WakingCallsBlock ==
  ASSUME BlockInv, option \in Options, NEW t \in Prio,
         Insert(t) \/ Remove(t) \/ QueueFlush(t) \/ QueueDelete(t)
  PROVE  BlockInv'
<1>0. KernelParts /\ {"insert", "remove", "flush", "delete"} \subseteq QueueApi
  BY DEF BlockInv, QueueApi
<1>1. created /\ t # IdlePrio
  BY <1>0, UserOf DEF Insert, Remove, QueueFlush, QueueDelete, QueueCalls
<1>2. Goto(t, "yield") /\ ButWaiters /\ UNCHANGED <<locals, tasksCount>>
  BY DEF Insert, Remove, QueueFlush, QueueDelete, taskVars
<1>3. CASE Insert(t) \/ Remove(t) \/ QueueFlush(t)
  <2>1. UNCHANGED <<created, heap, heapDirty>>
    BY <1>3 DEF Insert, Remove, QueueFlush, taskVars
  <2>2. \E from \in {InsertLoop, RemoveLoop, BothLoops} : Wake(from, QueueCauses)
    BY <1>3 DEF Insert, Remove, QueueFlush
  <2>3. PICK from \in {InsertLoop, RemoveLoop, BothLoops} : Wake(from, QueueCauses)
    BY <2>2
  <2>4. /\ DOMAIN from \subseteq {SlotWait, InsertWait}
        /\ \A l \in DOMAIN from : from[l] \in SUBSET InstalledTasks
    BY <1>0, LoopsFrom
  <2>5. "PendQueue" \in QueueCauses
    BY DEF QueueCauses
  <2> QED  BY <1>1, <1>2, <2>1, <2>3, <2>4, <2>5, QueueWakes
<1>4. CASE QueueDelete(t)
  <2>1. /\ created' = FALSE /\ heap' = heap - 1 /\ heapDirty' = TRUE
        /\ Wake(DeleteLoop, {"PendQueue"})
    BY <1>4 DEF QueueDelete
  <2>2. "PendQueue" \in {"PendQueue"}
    OBVIOUS
  <2> QED  BY <1>0, <1>1, <1>2, <2>1, <2>2, DeleteFrom, QueueWakes
<1> QED  BY <1>3, <1>4

\* A new queue has nobody waiting, or, in memory that was freed, whoever its
\* words say.
LEMMA CreateBlock ==
  ASSUME BlockInv, NEW t \in Prio, QueueCreate(t) \/ QueueCreateOutOfMemory(t)
  PROVE  BlockInv'
<1>0. /\ KernelParts /\ BlockThreads /\ CreatedPart /\ RequestPart /\ ReceiverPart
      /\ TablePart /\ ReadyPart /\ TimerPart /\ ListPart /\ CpuPart
  BY DEF BlockInv, KernelParts
<1>1. heap \in 2..HeapBlocks /\ HeapBlocks \in Nat
  BY <1>0, HeapAssumption DEF CreatedPart
<1>2. /\ ~created /\ UNCHANGED <<lists, tcbPtrTbl, tcb, cpu, threads, tasksCount, arg, locals>>
      /\ heap' \in 2..HeapBlocks
  BY <1>1 DEF QueueCreate, QueueCreateOutOfMemory, kernelVars, objects, queueVars
<1>3. BlockThreads' /\ RequestPart'
  BY <1>0, <1>2, ThreadsKept, RequestKept DEF BlockThreads, locals
<1>4. CASE QueueCreate(t)
  <2>1. /\ created' = TRUE /\ heap' = heap + 2 /\ UNCHANGED heapDirty
    BY <1>4 DEF QueueCreate
  <2>2. heap' >= 4
    BY <1>1, <2>1
  <2>3. CreatedPart'
    BY <1>0, <1>2, <2>1, <2>2, SameTasks DEF CreatedPart
  <2>4. ListPart'
    <3>1. PICK raw \in {EmptyList, [prioGrp |-> TRUE, prioTbl |-> UserPrio]} :
             waitList' = [waitList EXCEPT ![SlotWait] = raw, ![InsertWait] = raw]
      BY <1>4 DEF QueueCreate
    <3>2. raw \in [prioGrp : BOOLEAN, prioTbl : SUBSET InstalledTasks]
      <4>1. EmptyList \in [prioGrp : BOOLEAN, prioTbl : SUBSET InstalledTasks]
        BY DEF EmptyList
      <4>2. UserPrio \in SUBSET InstalledTasks
        BY <1>0 DEF CreatedPart
      <4>3. [prioGrp |-> TRUE, prioTbl |-> UserPrio]
              \in [prioGrp : BOOLEAN, prioTbl : SUBSET InstalledTasks]
        BY <4>2
      <4> QED  BY <3>1, <4>1, <4>3
    <3>3. waitList' \in [List -> [prioGrp : BOOLEAN, prioTbl : SUBSET InstalledTasks]]
      BY <1>0, <3>1, <3>2 DEF ListPart
    <3> QED  BY <1>0, <1>2, <3>3, SameTasks DEF ListPart, tcb
  <2>5. KernelParts'
    <3>1. UNCHANGED <<taskPrioList, timerPendingList, activeList, taskStatus, delayTime,
                      currentTask, highPrioTask, irqCounter, pendSV, tick, halted>>
      BY <1>2 DEF lists, tcb, cpu
    <3>2. \A p \in Prio : Sleeps(p)' => Sleeps(p)
      BY <3>1 DEF Sleeps
    <3> QED
      BY <1>0, <1>2, <2>4, <3>1, <3>2, SameTasks, ReadyKept, TimerKept, CpuKept
      DEF KernelParts
  <2>6. ReceiverPart'
    BY <1>0, <1>2, <2>1 DEF ReceiverPart, threads, tcb
  <2> QED  BY <1>3, <2>3, <2>5, <2>6 DEF BlockInv
<1>5. CASE QueueCreateOutOfMemory(t)
  <2>1. /\ UNCHANGED <<kernelVars, created>>
        /\ heapDirty' = TRUE \/ UNCHANGED heapDirty
    BY <1>5 DEF QueueCreateOutOfMemory, queueVars
  <2>2. UNCHANGED <<lists, objects, cpu, waitList>>
    BY <2>1 DEF kernelVars, objects
  <2>3. CreatedPart'
    BY <1>0, <1>2, <2>1, SameTasks DEF CreatedPart
  <2>4. ReceiverPart'
    BY <1>0, <1>2, <2>1, <2>2 DEF ReceiverPart, IsListed, threads, tcb
  <2> QED  BY <1>0, <1>3, <2>2, <2>3, <2>4, PartsKept DEF BlockInv
<1> QED  BY <1>4, <1>5

\* A remove finds nothing.
LEMMA RemoveEmptyBlock ==
  ASSUME BlockInv, option \in Options, NEW t \in Prio, NEW ticks \in 0..MaxDelay,
         RemoveEmpty(t, ticks), option # "non"
  PROVE  BlockInv'
<1>0. KernelParts /\ BlockThreads /\ CreatedPart /\ RequestPart /\ ReceiverPart
  BY DEF BlockInv
<1>1. created /\ t # IdlePrio
  <2>1. "remove" \in QueueApi
    BY DEF QueueApi
  <2> QED  BY <2>1, UserOf DEF RemoveEmpty, QueueCalls
<1>2. /\ Goto(t, "empty") /\ UNCHANGED <<created, index>>
      /\ UNCHANGED <<lists, objects, cpu, yieldPrio, after, taskVars, arg>>
      /\ request' = [request EXCEPT ![t] = [op |-> "remove", ticks |-> ticks]]
  BY DEF RemoveEmpty, Begin, ButThread
<1>3. UNCHANGED <<tcbPtrTbl, taskStatus, waitList, tasksCount, heap, heapDirty>>
  BY <1>2 DEF objects, tcb, taskVars
<1>4. KernelParts' /\ BlockThreads' /\ CreatedPart'
  BY <1>0, <1>1, <1>2, <1>3, PartsKept, BlockThreadStep, CreatedKept
<1>5. RequestPart'
  <2>1. [op |-> "remove", ticks |-> ticks] \in Requests
    BY DEF Requests
  <2> DEFINE new == [op |-> "remove", ticks |-> ticks]
  <2>2. new \in Requests /\ request' = [request EXCEPT ![t] = new]
    BY <1>2, <2>1
  <2> HIDE DEF new
  <2> QED  BY <1>0, <1>2, <2>2 DEF RequestPart
<1>6. ReceiverPart'
  BY <1>0, <1>1, <1>2, <1>3 DEF ReceiverPart, IsListed
<1> QED  BY <1>4, <1>5, <1>6 DEF BlockInv

\* And blocks, for some ticks or for ever.
LEMMA EmptyBlockBlock ==
  ASSUME BlockInv, NEW t \in Prio, EmptyBlock(t)
  PROVE  BlockInv'
<1>0. /\ KernelParts /\ BlockThreads /\ CreatedPart /\ RequestPart /\ ReceiverPart
      /\ TablePart /\ ReadyPart /\ TimerPart /\ ListPart /\ CpuPart
  BY DEF BlockInv, KernelParts
<1>1. /\ Runs(t) /\ pc[t] = "empty" /\ Unready(t) /\ Goto(t, "yield")
      /\ request' = [request EXCEPT ![t] = NoRequest]
      /\ bmp' = [bmp EXCEPT ![t]["queue"] = InsertWait]
      /\ waitList' = [waitList EXCEPT ![InsertWait] = Enlist(@, t)]
      /\ UNCHANGED <<activeList, tcbPtrTbl, cpu, yieldPrio, after, taskVars, arg, created, index>>
  BY DEF EmptyBlock, At, Leaves
<1>2. t # IdlePrio /\ t \in InstalledTasks /\ tick = "off"
  BY <1>0, <1>1, Runner DEF BlockThreads
<1>3. ReadyPart' /\ TimerPart'
      /\ \A p \in Prio \ {t} : taskStatus'[p] = taskStatus[p]
  <2>1. UNCHANGED <<tick, irqCounter>>
    BY <1>1 DEF cpu
  <2>2. request[t].ticks \in 0..MaxDelay
    BY <1>0 DEF RequestPart, Requests
  <2>3. CASE request[t].ticks = 0
    <3>1. /\ taskStatus' = [taskStatus EXCEPT ![t] = @ \cup {"PendQueue"}]
          /\ UNCHANGED <<delayTime, timerPendingList>>
      BY <2>3 DEF EmptyBlock
    <3>2. {"PendQueue"} \in SUBSET Status /\ {"PendQueue"} # {} /\ "PendDelay" \notin {"PendQueue"}
      BY DEF Status
    <3>3. \A p \in Prio \ {t} : taskStatus'[p] = taskStatus[p]
      BY <1>0, <3>1 DEF ReadyPart
    <3> QED  BY <1>0, <1>1, <1>2, <2>1, <3>1, <3>2, <3>3, BlockedParts
  <2>4. CASE request[t].ticks # 0
    <3>1. /\ taskStatus' = [taskStatus EXCEPT ![t] = @ \cup {"PendQueue", "PendDelay"}]
          /\ delayTime' = [delayTime EXCEPT ![t] = request[t].ticks]
          /\ timerPendingList' = [timerPendingList EXCEPT ![activeList] = @ \cup {t}]
      BY <2>4 DEF EmptyBlock
    <3>2. request[t].ticks \in 1..MaxDelay
      BY <2>2, <2>4, DelayAssumption
    <3>3. {"PendQueue", "PendDelay"} \in SUBSET Status /\ {"PendQueue", "PendDelay"} # {}
      BY DEF Status
    <3>4. \A p \in Prio \ {t} : taskStatus'[p] = taskStatus[p]
      BY <1>0, <3>1 DEF ReadyPart
    <3> QED  BY <1>0, <1>1, <1>2, <2>1, <3>1, <3>2, <3>3, <3>4, BlockedParts
  <2> QED  BY <2>3, <2>4
<1>4. ListPart'
  <2>1. waitList[InsertWait] \in [prioGrp : BOOLEAN, prioTbl : SUBSET InstalledTasks]
    BY <1>0, QueueListFacts DEF ListPart
  <2>2. Enlist(waitList[InsertWait], t) \in [prioGrp : BOOLEAN, prioTbl : SUBSET InstalledTasks]
    BY <1>2, <2>1 DEF Enlist
  <2>3. waitList' \in [List -> [prioGrp : BOOLEAN, prioTbl : SUBSET InstalledTasks]]
    BY <1>0, <1>1, <2>2 DEF ListPart
  <2>4. bmp' \in [Prio -> [Bmp -> List \cup {NULL}]]
    BY <1>0, <1>1, QueueListFacts DEF ListPart, Bmp
  <2> QED  BY <1>1, <2>3, <2>4, SameTasks DEF ListPart
<1>5. KernelParts'
  BY <1>0, <1>1, <1>3, <1>4, SameTasks, CpuKept DEF KernelParts, cpu
<1>6. BlockThreads' /\ \A p \in Prio : pc'[p] = "empty" => pc[p] = "empty"
  BY <1>0, <1>1, <1>2, BlockThreadStep
<1>7. CreatedPart'
  BY <1>0, <1>1, CreatedKept DEF taskVars
<1>8. RequestPart'
  <2>1. NoRequest \in Requests
    <3>1. 0 \in 0..MaxDelay /\ "none" \in {"none", "insert", "remove"}
      BY DelayAssumption
    <3> QED  BY <3>1 DEF NoRequest, Requests
  <2> QED  BY <1>0, <1>1, <2>1 DEF RequestPart
<1>9. ReceiverPart'
  <2> SUFFICES ASSUME ~heapDirty', NEW p \in Prio
               PROVE  /\ pc'[p] = "empty" => created'
                      /\ "PendQueue" \in taskStatus'[p] => created' /\ IsListed(p)'
    BY DEF ReceiverPart
  <2>1. UNCHANGED <<created, heapDirty>>
    BY <1>1 DEF taskVars
  <2>2. created
    BY <1>0, <1>1, <2>1 DEF ReceiverPart
  <2>3. waitList'[InsertWait] = Enlist(waitList[InsertWait], t)
    BY <1>0, <1>1, QueueListFacts DEF ListPart
  <2>4. CASE p = t
    <3>1. IsListed(p)'
      BY <2>3, <2>4 DEF IsListed, Enlist
    <3> QED  BY <2>1, <2>2, <3>1
  <2>5. CASE p # t
    <3>1. IsListed(p) => IsListed(p)'
      BY <2>3 DEF IsListed, Enlist
    <3>2. taskStatus'[p] = taskStatus[p]
      BY <1>3, <2>5
    <3> QED  BY <1>0, <2>1, <2>2, <3>1, <3>2 DEF ReceiverPart
  <2> QED  BY <2>4, <2>5
<1> QED  BY <1>5, <1>6, <1>7, <1>8, <1>9 DEF BlockInv

\* Every step of an application whose calls block on an empty queue.
LEMMA QueueNextBlock ==
  ASSUME Api \subseteq TimingCalls, BlockInv, option = "block", option \in Options, InsertNext
  PROVE  BlockInv' /\ UNCHANGED word
<1>0. BlockThreads
  BY DEF BlockInv
<1>1. ASSUME NEW t \in Prio
      PROVE  pc[t] \in {"run", "yield", "publish", "suspend", "resume", "empty"}
  BY <1>0 DEF BlockThreads, ThreadPart, TimingPlaces
<1>2. ASSUME NEW t \in Prio, InsertProceeds(t) PROVE FALSE
  BY <1>1, <1>2
  DEF InsertProceeds, FullReadReady, FullUnready, FullPend, FullReadTimer, FullCount,
      FullPoint, FullGroup, FullRead, FullWrite, At
<1>3. ASSUME NEW t \in Prio, NEW ticks \in 0..MaxDelay, InsertBlocks(t, ticks) PROVE FALSE
  BY <1>3 DEF InsertBlocks
<1>4. QueueNext /\ UNCHANGED word
  BY <1>2, <1>3 DEF InsertNext
<1>5. ASSUME NEW t \in Prio, QueueCall(t) PROVE BlockInv'
  <2>1. CASE QueueCreate(t) \/ QueueCreateOutOfMemory(t)
    BY <2>1, CreateBlock
  <2>2. CASE Insert(t) \/ Remove(t) \/ QueueFlush(t) \/ QueueDelete(t)
    BY <2>2, WakingCallsBlock
  <2>3. ASSUME NEW ticks \in 0..MaxDelay, RemoveEmpty(t, ticks) PROVE BlockInv'
    BY <2>3, RemoveEmptyBlock
  <2>4. ~InsertFull(t)
    BY DEF InsertFull
  <2> QED  BY <1>5, <2>1, <2>2, <2>3, <2>4 DEF QueueCall
<1>6. ASSUME NEW t \in Prio, QueueProceeds(t) PROVE BlockInv'
  <2>1. EmptyBlock(t)
    BY <1>1, <1>6
    DEF QueueProceeds, Again, RawIndex, RawSlot, RawNext, RawWrap, RawUsed, RawReuse, RawWake, At
  <2> QED  BY <2>1, EmptyBlockBlock
<1>7. CASE (Interrupts \/ \E t \in Prio : Proceed(t) \/ (Uses(t, "delay") /\ Call(t)))
           /\ UNCHANGED queueVars
  <2>1. Next /\ UNCHANGED queueVars
    BY <1>7 DEF Next
  <2> QED  BY <1>4, <2>1, TasksBlock
<1>8. BlockInv'
  BY <1>4, <1>5, <1>6, <1>7 DEF QueueNext
<1> QED  BY <1>4, <1>8

LEMMA InitQInv ==
  ASSUME ObjectsInit, UserPrio \subseteq Boot
  PROVE  QInv
<1>1. InsertInit /\ MutexInit /\ option \in Options
  BY DEF ObjectsInit, InsertInit, QueueInit
<1>2. FifoInv /\ BlockInv
  BY <1>1, InitFifoInv, BlockStart
<1>3. word \in [Prio -> SUBSET Prio]
  BY <1>1 DEF InsertInit
<1>4. MutexTypeOK
  BY <1>1, PrioFacts DEF MutexInit, MutexTypeOK
<1> QED  BY <1>1, <1>2, <1>3, <1>4 DEF QInv

LEMMA NextQInv ==
  ASSUME Api \subseteq TimingCalls, QInv, [ObjectsNext]_objectsAll
  PROVE  QInv'
<1>1. FifoInv'
  BY NextFifoInv DEF QInv
<1>2. CASE object = "queue" /\ UNCHANGED object /\ InsertNext /\ UNCHANGED mutexVars
  <2>1. MutexTypeOK /\ option \in Options /\ UNCHANGED option
    BY <1>2, OptionStays DEF QInv
  <2>2. MutexTypeOK'
    BY <1>2, <2>1 DEF MutexTypeOK, mutexVars
  <2>3. ASSUME option = "block" PROVE BlockInv' /\ word' \in [Prio -> SUBSET Prio]
    BY <1>2, <2>1, <2>3, QueueNextBlock DEF QInv
  <2> QED  BY <1>1, <1>2, <2>1, <2>2, <2>3 DEF QInv
<1>3. CASE object = "mutex" /\ UNCHANGED object
  BY <1>1, <1>3 DEF QInv
<1>4. CASE UNCHANGED objectsAll
  <2>1. UNCHANGED <<vars, created, locals, option, word, mutexVars, object>>
    BY <1>4 DEF objectsAll, insertVars, queueVars
  <2>2. MutexTypeOK => MutexTypeOK'
    BY <2>1 DEF MutexTypeOK, mutexVars
  <2> QED  BY <1>1, <2>1, <2>2, BlockKept DEF QInv
<1> QED  BY <1>2, <1>3, <1>4 DEF ObjectsNext

\* From a start at which every priority a call may be about has its task: what
\* a queue that is created in freed memory takes for its waiters then exists.
LEMMA QueueInvariance ==
  Api \subseteq TimingCalls /\ UserPrio \subseteq Boot => (ObjectsSpec => []QInv)
<1> SUFFICES ASSUME Api \subseteq TimingCalls, UserPrio \subseteq Boot
             PROVE  ObjectsSpec => []QInv
  OBVIOUS
<1>1. ObjectsInit => QInv
  BY InitQInv
<1>2. QInv /\ [ObjectsNext]_objectsAll => QInv'
  BY NextQInv
<1> QED  BY <1>1, <1>2, PTL DEF ObjectsSpec

\* What the invariant says of an application whose calls block when they find
\* the queue empty.
LEMMA QueueFacts ==
  ASSUME QInv, object = "queue", option = "block"
  PROVE  ReadyIffUnblocked /\ NoFault /\ ReceiverPart
<1>1. BlockInv
  BY DEF QInv
<1>2. NoFault
  BY <1>1, PartsTypes, QueueListFacts DEF BlockInv, BlockThreads
<1> QED  BY <1>1, <1>2 DEF BlockInv, KernelParts, ReadyPart

\* A queue whose calls block: the ready list and the status of the tasks stay
\* in step under insert, remove, flush and delete, in whatever order
\* messages, timeouts and the timer entries they leave behind come.
THEOREM QueueReadyCorrect ==
  Api \subseteq TimingCalls /\ UserPrio \subseteq Boot => (ObjectsSpec => []QueueReadyIffUnblocked)
<1>1. QInv => QueueReadyIffUnblocked
  BY QueueFacts DEF QueueReadyIffUnblocked, Protected
<1> QED  BY <1>1, QueueInvariance, PTL

\* Until a queue is deleted, whoever waits for a message is in the wait list
\* QueueInsertLoop takes its waiter from.
THEOREM ReceiversListed ==
  Api \subseteq TimingCalls /\ UserPrio \subseteq Boot => (ObjectsSpec => []ReceiversAreListed)
<1>1. QInv => ReceiversAreListed
  BY QueueFacts DEF ReceiversAreListed, Protected, ReceiverPart, IsListed
<1> QED  BY <1>1, QueueInvariance, PTL

\* No call on a queue whose calls block leaves behind what an assertion of the
\* kernel rejects, or a task that is gone.
THEOREM QueueFaultFree ==
  Api \subseteq TimingCalls /\ UserPrio \subseteq Boot
    => (ObjectsSpec => [](object = "queue" => ObjectsNoFault))
<1>1. QInv => (object = "queue" => ObjectsNoFault)
  BY QueueFacts DEF ObjectsNoFault, Protected
<1> QED  BY <1>1, QueueInvariance, PTL
-----------------------------------------------------------------------------
(* The types, whatever the application uses and however                    *)

Places == (TaskLabels \ {"create", "delete"}) \cup QueueLabels \cup InsertLabels \cup MutexLabels

\* A queue, or a mutex, has a block of the heap that its deletion gives back.
HeapTypes == /\ tasksCount \in 0..N /\ heap \in 0..HeapBlocks /\ heapDirty \in BOOLEAN
             /\ created \/ mutex => heap >= 1
             /\ ~(created /\ mutex)

TypeInv == /\ KernelTypes /\ ThreadTypes(Places) /\ HeapTypes
           /\ QueueTypeOK /\ MutexTypeOK
           /\ word \in [Prio -> SUBSET Prio]
           /\ object = "queue" => ~mutex
           /\ object = "mutex" => ~created

LEMMA PlacesOK == TypesLabels(Places)
BY DEF TypesLabels, Places, TaskLabels, QueueLabels, InsertLabels, MutexLabels

LEMMA TypeInvTypes == TypeInv => ObjectsTypeOK
<1> SUFFICES ASSUME TypeInv PROVE ObjectsTypeOK
  OBVIOUS
<1> DEFINE AllLabels == TaskLabels \cup QueueLabels \cup InsertLabels \cup MutexLabels
<1>1. KernelTypeOK(AllLabels)
  <2>1. Places \subseteq AllLabels
    BY DEF Places
  <2> HIDE DEF AllLabels
  <2>2. pc \in [Prio -> AllLabels] /\ after \in [Prio -> AllLabels] /\ yieldPrio \in [Prio -> Prio]
    BY <2>1 DEF TypeInv, ThreadTypes
  <2>3. ListTypes /\ TaskTypes /\ WaitTypes /\ CpuTypes
    BY DEF TypeInv, KernelTypes
  <2> QED  BY <2>2, <2>3 DEF ListTypes, TaskTypes, WaitTypes, CpuTypes, KernelTypeOK
<1> QED  BY <1>1 DEF TypeInv, HeapTypes, ObjectsTypeOK

LEMMA TypeInvInit == ObjectsInit => TypeInv
<1> SUFFICES ASSUME ObjectsInit PROVE TypeInv
  OBVIOUS
<1>1. InsertInit /\ QueueInit /\ MutexInit /\ Init /\ KernelInit(Boot)
  BY DEF ObjectsInit, InsertInit, MutexInit, QueueInit, Init
<1>2. Inv
  BY <1>1, InitInv
<1>3. TypeOK /\ KernelTypeOK(TaskLabels) /\ arg \in [Prio -> Prio]
  BY <1>2 DEF Inv, TypeOK
<1>4. KernelTypes
  BY <1>3 DEF KernelTypeOK, KernelTypes, ListTypes, TaskTypes, WaitTypes, CpuTypes
<1>5. ThreadTypes(Places)
  <2>1. "run" \in Places
    BY DEF Places, TaskLabels
  <2>2. pc = [p \in Prio |-> "run"] /\ after = [p \in Prio |-> "run"]
    BY <1>1 DEF KernelInit
  <2>3. yieldPrio \in [Prio -> Prio]
    BY <1>3 DEF KernelTypeOK
  <2> QED  BY <1>3, <2>1, <2>2, <2>3 DEF ThreadTypes
<1>6. created = FALSE /\ mutex = FALSE
  BY <1>1 DEF QueueInit, MutexInit
<1>7. HeapTypes
  BY <1>3, <1>6 DEF TypeOK, HeapTypes
<1>8. QueueTypeOK
  <2>1. /\ option \in Options /\ created \in BOOLEAN
        /\ queueBase \in [0..Slots-1 -> Prio \cup {Wild}]
    BY <1>1 DEF QueueInit
  <2>2. 0 \in 0..WordMax
    <3>1. WordMax \in Nat
      BY DEF WordMax
    <3> QED  BY <3>1
  <2>3. {queueFront, queueBack, usedSlots} \subseteq 0..WordMax /\ index \in [Prio -> 0..WordMax]
    BY <1>1, <2>2 DEF QueueInit
  <2>4. request \in [Prio -> Requests]
    <3>1. 0 \in 0..MaxDelay /\ "none" \in {"none", "insert", "remove"}
      BY DelayAssumption
    <3>2. NoRequest \in Requests
      BY <3>1 DEF NoRequest, Requests
    <3>3. request = [p \in Prio |-> NoRequest]
      BY <1>1 DEF QueueInit
    <3> QED  BY <3>2, <3>3
  <2> QED  BY <2>1, <2>3, <2>4 DEF QueueTypeOK, Requests
<1>9. MutexTypeOK
  BY <1>1, PrioFacts DEF MutexInit, MutexTypeOK
<1>10. word \in [Prio -> SUBSET Prio]
  BY <1>1 DEF InsertInit
<1> QED  BY <1>4, <1>5, <1>6, <1>7, <1>8, <1>9, <1>10 DEF TypeInv

\* Waiters are let go.
LEMMA WakeTypes ==
  ASSUME KernelTypes, ThreadTypes(Places), NEW t \in Prio, Goto(t, "yield"), ButWaiters,
         NEW from, DOMAIN from \subseteq List, \A l \in DOMAIN from : from[l] \in SUBSET Prio,
         NEW causes, Wake(from, causes)
  PROVE  KernelTypes' /\ ThreadTypes(Places)'
<1>0. ListTypes /\ TaskTypes /\ WaitTypes /\ CpuTypes
  BY DEF KernelTypes
<1>1. Unblock(from, causes) /\ taskPrioList' = taskPrioList \cup Freed(from, causes)
  BY DEF Wake
<1>2. taskPrioList' \in SUBSET Prio
  BY <1>0, <1>1, UnblockTypes DEF ListTypes
<1>3. WaitTypes' /\ taskStatus' \in [Prio -> SUBSET Status] /\ halted' \in {halted, "null"}
  BY <1>0, <1>1, UnblockTypes
<1>4. /\ UNCHANGED <<timerPendingList, activeList, tcbPtrTbl, delayTime, bmp>>
      /\ UNCHANGED <<currentTask, highPrioTask, irqCounter, pendSV, tick, yieldPrio, after, arg>>
  BY DEF ButWaiters
<1>5. ThreadTypes(Places)'
  <2>1. "yield" \in Places
    BY DEF Places, TaskLabels
  <2> QED  BY <1>4, <2>1, GotoTypes
<1>6. ListTypes' /\ TaskTypes' /\ CpuTypes'
  BY <1>0, <1>2, <1>3, <1>4 DEF ListTypes, TaskTypes, CpuTypes
<1> QED  BY <1>3, <1>5, <1>6 DEF KernelTypes

\* The ring's counters, in and out of its size.
RingTypes == /\ queueBase \in [0..Slots-1 -> Prio \cup {Wild}]
             /\ queueFront \in 0..WordMax /\ queueBack \in 0..WordMax
             /\ usedSlots \in 0..WordMax

LEMMA QueueTypesParts ==
  QueueTypeOK <=> option \in Options /\ created \in BOOLEAN /\ RingTypes /\ RequestPart
BY DEF QueueTypeOK, RingTypes, RequestPart, Requests

LEMMA QueueTypesNext ==
  ASSUME option' \in Options, created' \in BOOLEAN, RingTypes', RequestPart'
  PROVE  QueueTypeOK'
BY DEF QueueTypeOK, RingTypes, RequestPart, Requests

LEMMA RingTypesKept ==
  ASSUME RingTypes, UNCHANGED ring
  PROVE  RingTypes'
BY DEF RingTypes, ring

LEMMA HeapTypesKept ==
  ASSUME HeapTypes, UNCHANGED <<taskVars, created, mutex>>
  PROVE  HeapTypes'
BY DEF HeapTypes, taskVars

LEMMA WordFacts ==
  /\ WordMax \in Nat /\ 0 \in 0..WordMax /\ Slots \in Nat /\ Slots > 0 /\ Slots \in 0..WordMax
  /\ \A x \in Nat : x % 65536 \in 0..WordMax
<1>1. WordMax \in Nat
  BY DEF WordMax
<1>2. Slots \in Nat /\ Slots > 0 /\ Slots <= WordMax
  BY SlotsAssumption DEF WordMax
<1>3. \A x \in Nat : x % 65536 \in Nat /\ x % 65536 <= WordMax
  BY DEF WordMax
<1> QED  BY <1>1, <1>2, <1>3

\* The requests of the calls.
LEMMA RequestTypes ==
  /\ NoRequest \in Requests
  /\ \A operation \in {"none", "insert", "remove"}, ticks \in 0..MaxDelay :
        [op |-> operation, ticks |-> ticks] \in Requests
<1>1. 0 \in 0..MaxDelay /\ "none" \in {"none", "insert", "remove"}
  BY DelayAssumption
<1> QED  BY <1>1 DEF NoRequest, Requests

LEMMA PlaceFacts ==
  {"run", "yield", "empty", "again", "index", "slot", "next", "wrap", "used", "reuse", "wake",
   "full", "unready", "pend", "timer", "count", "point", "group", "read", "write",
   "own", "raise", "taken"} \subseteq Places
BY DEF Places, TaskLabels, QueueLabels, InsertLabels, MutexLabels

\* What the parts of the types of a queue's application are after a step.
QueueTypes == KernelTypes /\ ThreadTypes(Places) /\ HeapTypes /\ QueueTypeOK

LEMMA LoopTypes ==
  ASSUME KernelTypes, NEW from \in {InsertLoop, RemoveLoop, BothLoops, DeleteLoop}
  PROVE  DOMAIN from \subseteq List /\ \A l \in DOMAIN from : from[l] \in SUBSET Prio
<1>0. WaitTypes
  BY DEF KernelTypes
<1>1. \A l \in {SlotWait, InsertWait} :
         FirstWaiter(l) \in SUBSET Prio /\ waitList[l].prioTbl \in SUBSET Prio
  BY <1>0, WaitListTypes, QueueListFacts
<1>2. CASE from = InsertLoop
  <2>1. DOMAIN from = {InsertWait} /\ from[InsertWait] = FirstWaiter(InsertWait)
    BY <1>2, OnlyAll DEF InsertLoop
  <2> QED  BY <1>1, <2>1, QueueListFacts
<1>3. CASE from = RemoveLoop
  <2>1. DOMAIN from = {SlotWait} /\ from[SlotWait] = FirstWaiter(SlotWait)
    BY <1>3, OnlyAll DEF RemoveLoop
  <2> QED  BY <1>1, <2>1, QueueListFacts
<1>4. CASE from = BothLoops
  BY <1>1, <1>4, QueueListFacts DEF BothLoops
<1>5. CASE from = DeleteLoop
  <2>1. \A l \in {SlotWait, InsertWait} : Listed(l) \in SUBSET Prio
    BY <1>1, PrioFacts DEF Listed
  <2>2. /\ DOMAIN DeleteLoop = {SlotWait, InsertWait}
        /\ \A l \in {SlotWait, InsertWait} : DeleteLoop[l] \in SUBSET Listed(l)
    BY DEF DeleteLoop
  <2> QED  BY <1>5, <2>1, <2>2, QueueListFacts
<1> QED  BY <1>2, <1>3, <1>4, <1>5

\* Insert, remove, flush and delete, which end in a loop that wakes.
LEMMA LoopCallsTypes ==
  ASSUME QueueTypes, UNCHANGED mutexVars, ~mutex, NEW t \in Prio,
         Insert(t) \/ Remove(t) \/ QueueFlush(t) \/ QueueDelete(t)
  PROVE  QueueTypes'
<1>0. /\ KernelTypes /\ ThreadTypes(Places) /\ HeapTypes /\ RingTypes /\ RequestPart
      /\ option \in Options /\ created \in BOOLEAN
  BY QueueTypesParts DEF QueueTypes
<1>1. /\ created /\ Goto(t, "yield") /\ ButWaiters /\ UNCHANGED <<option, locals, tasksCount>>
  BY DEF Insert, Remove, QueueFlush, QueueDelete, QueueCalls, taskVars
<1>2. KernelTypes' /\ ThreadTypes(Places)'
  <2>1. \E from \in {InsertLoop, RemoveLoop, BothLoops, DeleteLoop},
           causes \in {QueueCauses, {"PendQueue"}} : Wake(from, causes)
    BY DEF Insert, Remove, QueueFlush, QueueDelete
  <2>2. PICK from \in {InsertLoop, RemoveLoop, BothLoops, DeleteLoop},
             causes \in {QueueCauses, {"PendQueue"}} : Wake(from, causes)
    BY <2>1
  <2>3. DOMAIN from \subseteq List /\ \A l \in DOMAIN from : from[l] \in SUBSET Prio
    BY <1>0, LoopTypes
  <2> QED  BY <1>0, <1>1, <2>2, <2>3, WakeTypes
<1>3. HeapTypes' /\ created' \in BOOLEAN
  <2>1. CASE Insert(t) \/ Remove(t) \/ QueueFlush(t)
    <3>1. UNCHANGED <<created, taskVars, mutex>>
      BY <2>1 DEF Insert, Remove, QueueFlush, mutexVars
    <3> QED  BY <1>0, <3>1, HeapTypesKept
  <2>2. CASE QueueDelete(t)
    <3>1. created' = FALSE /\ heap' = heap - 1 /\ heapDirty' = TRUE /\ UNCHANGED mutex
      BY <2>2 DEF QueueDelete, mutexVars
    <3>2. heap - 1 \in 0..HeapBlocks
      <4>1. heap \in 0..HeapBlocks /\ heap >= 1 /\ HeapBlocks \in Nat
        BY <1>0, <1>1, HeapAssumption DEF HeapTypes
      <4> QED  BY <4>1
    <3> QED  BY <1>0, <1>1, <3>1, <3>2 DEF HeapTypes
  <2> QED  BY <2>1, <2>2
<1>4. RingTypes'
  <2>1. CASE Insert(t)
    <3>1. Put(t) /\ usedSlots < Slots
      BY <2>1 DEF Insert
    <3>2. NextSlot(queueFront) \in 0..WordMax /\ usedSlots + 1 \in 0..WordMax
      BY <1>0, <3>1, WordFacts DEF RingTypes, NextSlot
    <3>3. queueBase' \in [0..Slots-1 -> Prio \cup {Wild}]
      <4>1. t \in Prio \cup {Wild} /\ queueBase \in [0..Slots-1 -> Prio \cup {Wild}]
        BY <1>0 DEF RingTypes
      <4>2. queueBase' = [queueBase EXCEPT ![queueFront] = t]
        BY <3>1 DEF Put
      <4> QED  BY <4>1, <4>2, WriteTypes
    <3> QED  BY <1>0, <3>1, <3>2, <3>3 DEF RingTypes, Put
  <2>2. CASE Remove(t)
    <3>1. Get /\ usedSlots # 0
      BY <2>2 DEF Remove
    <3>2. NextSlot(queueBack) \in 0..WordMax /\ usedSlots - 1 \in 0..WordMax
      BY <1>0, <3>1, WordFacts DEF RingTypes, NextSlot
    <3> QED  BY <1>0, <3>1, <3>2 DEF RingTypes, Get
  <2>3. CASE QueueFlush(t)
    BY <1>0, <2>3, WordFacts DEF RingTypes, QueueFlush
  <2>4. CASE QueueDelete(t)
    BY <1>0, <2>4, RingTypesKept DEF QueueDelete
  <2> QED  BY <2>1, <2>2, <2>3, <2>4
<1>5. RequestPart' /\ option' \in Options
  <2>1. UNCHANGED <<request, index>>
    BY <1>1 DEF locals
  <2>2. RequestPart'
    BY <1>0, <2>1, RequestKept
  <2> QED  BY <1>0, <1>1, <2>2
<1>6. QueueTypeOK'
  BY <1>3, <1>4, <1>5, QueueTypesNext
<1> QED  BY <1>2, <1>3, <1>6 DEF QueueTypes

\* A call's request and the counter it has read change.
LEMMA RequestGoes ==
  ASSUME RequestPart, NEW t \in Prio,
         UNCHANGED request \/ \E new \in Requests : request' = [request EXCEPT ![t] = new],
         UNCHANGED index \/ \E i \in 0..WordMax : index' = [index EXCEPT ![t] = i]
  PROVE  RequestPart'
<1>1. request' \in [Prio -> Requests]
  BY DEF RequestPart
<1>2. index' \in [Prio -> 0..WordMax]
  <2> DEFINE words == 0..WordMax
  <2>1. /\ index \in [Prio -> words]
        /\ UNCHANGED index \/ \E i \in words : index' = [index EXCEPT ![t] = i]
    BY DEF RequestPart
  <2> HIDE DEF words
  <2>2. index' \in [Prio -> words]
    BY <2>1
  <2> QED  BY <2>2 DEF words
<1> QED  BY <1>1, <1>2 DEF RequestPart

\* A thread goes on, and nothing of the kernel changes.
LEMMA AsideTypes ==
  ASSUME KernelTypes, ThreadTypes(Places), HeapTypes, NEW t \in Prio, NEW label \in Places,
         Goto(t, label), ButThread, UNCHANGED <<created, mutex>>
  PROVE  KernelTypes' /\ ThreadTypes(Places)' /\ HeapTypes'
<1>1. UNCHANGED <<lists, objects, cpu>> /\ UNCHANGED <<yieldPrio, after, arg>> /\ UNCHANGED taskVars
  BY DEF ButThread
<1> QED  BY <1>1, SameTypes, GotoTypes, HeapTypesKept

\* Calls that do not go on at once, and the first steps of their second look.
LEMMA LookTypes ==
  ASSUME QueueTypes, UNCHANGED mutexVars, NEW t \in Prio,
         \/ InsertFull(t) \/ \E ticks \in 0..MaxDelay : RemoveEmpty(t, ticks)
         \/ Again(t) \/ RawIndex(t) \/ RawUsed(t)
  PROVE  QueueTypes'
<1>0. /\ KernelTypes /\ ThreadTypes(Places) /\ HeapTypes /\ RingTypes /\ RequestPart
      /\ option \in Options /\ created \in BOOLEAN
  BY QueueTypesParts DEF QueueTypes
<1>1. 0 \in 0..MaxDelay
  BY DelayAssumption
<1>2. /\ {queueFront, queueBack, usedSlots} \subseteq 0..WordMax
  BY <1>0 DEF RingTypes
<1>3. /\ \E label \in Places : Goto(t, label)
      /\ ButThread /\ UNCHANGED <<option, created, ring>>
      /\ UNCHANGED request \/ \E new \in Requests : request' = [request EXCEPT ![t] = new]
      /\ UNCHANGED index \/ \E i \in 0..WordMax : index' = [index EXCEPT ![t] = i]
  <2>1. CASE InsertFull(t)
    BY <2>1, <1>1, PlaceFacts, RequestTypes DEF InsertFull, Begin
  <2>2. ASSUME NEW ticks \in 0..MaxDelay, RemoveEmpty(t, ticks)
        PROVE  /\ \E label \in Places : Goto(t, label)
               /\ ButThread /\ UNCHANGED <<option, created, ring, index>>
               /\ \E new \in Requests : request' = [request EXCEPT ![t] = new]
    BY <2>2, <1>1, PlaceFacts, RequestTypes DEF RemoveEmpty, Begin
  <2>3. CASE Again(t)
    <3>1. \/ Goto(t, "index") /\ UNCHANGED request
          \/ Begin(t, "none", 0, "run")
      BY <2>3 DEF Again
    <3>2. UNCHANGED <<option, created, ring, index>> /\ ButThread
      BY <2>3 DEF Again
    <3> QED  BY <3>1, <3>2, <1>1, PlaceFacts, RequestTypes DEF Begin
  <2>4. CASE RawIndex(t)
    <3>1. \E i \in {queueFront, queueBack} : index' = [index EXCEPT ![t] = i]
      BY <2>4 DEF RawIndex
    <3>2. /\ \E label \in {"slot", "next"} : Goto(t, label)
          /\ UNCHANGED <<option, created, ring, request>> /\ ButThread
      BY <2>4 DEF RawIndex
    <3> QED  BY <1>2, <3>1, <3>2, PlaceFacts
  <2>5. CASE RawUsed(t)
    <3>1. index' = [index EXCEPT ![t] = usedSlots] /\ Goto(t, "reuse")
          /\ UNCHANGED <<option, created, ring, request>> /\ ButThread
      BY <2>5 DEF RawUsed
    <3> QED  BY <1>2, <3>1, PlaceFacts
  <2> QED  BY <2>1, <2>2, <2>3, <2>4, <2>5
<1>4. KernelTypes' /\ ThreadTypes(Places)' /\ HeapTypes'
  BY <1>0, <1>3, AsideTypes DEF mutexVars
<1>5. RingTypes'
  BY <1>0, <1>3, RingTypesKept
<1>6. RequestPart'
  BY <1>0, <1>3, RequestGoes
<1>7. QueueTypeOK'
  BY <1>0, <1>3, <1>5, <1>6, QueueTypesNext
<1> QED  BY <1>4, <1>7 DEF QueueTypes

\* The ring is used unprotected.
LEMMA RawTypes ==
  ASSUME QueueTypes, UNCHANGED mutexVars, NEW t \in Prio,
         RawSlot(t) \/ RawNext(t) \/ RawWrap(t) \/ RawReuse(t)
  PROVE  QueueTypes'
<1>0. /\ KernelTypes /\ ThreadTypes(Places) /\ HeapTypes /\ RingTypes /\ RequestPart
      /\ option \in Options /\ created \in BOOLEAN
      /\ ListTypes /\ TaskTypes /\ WaitTypes /\ CpuTypes
  BY QueueTypesParts DEF QueueTypes, KernelTypes
<1>1. /\ queueBase \in [0..Slots-1 -> Prio \cup {Wild}]
      /\ queueFront \in Nat /\ queueFront <= WordMax /\ queueBack \in Nat /\ queueBack <= WordMax
      /\ usedSlots \in Nat /\ usedSlots <= WordMax
      /\ index[t] \in Nat /\ index[t] <= WordMax
  BY <1>0, WordFacts DEF RingTypes, RequestPart
<1>2. /\ \E label \in Places : Goto(t, label)
      /\ UNCHANGED <<lists, objects, currentTask, highPrioTask, irqCounter, pendSV, tick>>
      /\ UNCHANGED <<yieldPrio, after, arg>> /\ UNCHANGED <<created, taskVars>>
      /\ halted' \in {halted, "wild"} /\ UNCHANGED <<option, request>>
  BY PlaceFacts DEF RawSlot, RawNext, RawWrap, RawReuse, ButThread, cpu, locals
<1>3. KernelTypes' /\ ThreadTypes(Places)' /\ HeapTypes'
  <2>1. CpuTypes'
    BY <1>0, <1>2 DEF CpuTypes
  <2>2. ListTypes' /\ TaskTypes' /\ WaitTypes'
    BY <1>0, <1>2 DEF ListTypes, TaskTypes, WaitTypes, lists, objects, tcb
  <2>3. HeapTypes'
    BY <1>0, <1>2, HeapTypesKept DEF mutexVars
  <2>4. ThreadTypes(Places)'
    BY <1>0, <1>2, GotoTypes
  <2> QED  BY <2>1, <2>2, <2>3, <2>4 DEF KernelTypes
<1>4. RingTypes'
  <2>1. CASE RawSlot(t)
    <3>1. \/ queueBase' = [queueBase EXCEPT ![index[t]] = t]
          \/ UNCHANGED queueBase
      BY <2>1 DEF RawSlot
    <3>2. UNCHANGED <<queueFront, queueBack, usedSlots>>
      BY <2>1 DEF RawSlot
    <3>3. t \in Prio \cup {Wild}
      OBVIOUS
    <3>4. queueBase' \in [0..Slots-1 -> Prio \cup {Wild}]
      BY <1>1, <3>1, <3>3, WriteTypes
    <3> QED  BY <1>0, <3>2, <3>4 DEF RingTypes
  <2>2. CASE RawNext(t)
    <3>1. (index[t] + 1) % 65536 \in 0..WordMax
      <4>1. index[t] + 1 \in Nat
        BY <1>1
      <4> QED  BY <4>1, WordFacts
    <3>2. /\ queueFront' \in {queueFront, (index[t] + 1) % 65536}
          /\ queueBack' \in {queueBack, (index[t] + 1) % 65536}
          /\ UNCHANGED <<queueBase, usedSlots>>
      BY <2>2 DEF RawNext, Move
    <3> QED  BY <1>0, <3>1, <3>2 DEF RingTypes
  <2>3. CASE RawWrap(t)
    <3>1. /\ queueFront' \in {queueFront, queueBack, 0}
          /\ queueBack' \in {queueFront, queueBack, 0}
          /\ UNCHANGED <<queueBase, usedSlots>>
      BY <2>3 DEF RawWrap, Move
    <3>2. 0 \in 0..WordMax
      BY WordFacts
    <3> QED  BY <1>0, <3>1, <3>2 DEF RingTypes
  <2>4. CASE RawReuse(t)
    <3>1. \E k \in {1, 65535} : usedSlots' = (index[t] + k) % 65536
      BY <2>4 DEF RawReuse
    <3>2. usedSlots' \in 0..WordMax
      <4>1. PICK k \in {1, 65535} : usedSlots' = (index[t] + k) % 65536
        BY <3>1
      <4>2. index[t] + k \in Nat
        BY <1>1
      <4> QED  BY <4>1, <4>2, WordFacts
    <3>3. UNCHANGED <<queueBase, queueFront, queueBack>>
      BY <2>4 DEF RawReuse
    <3> QED  BY <1>0, <3>2, <3>3 DEF RingTypes
  <2> QED  BY <2>1, <2>2, <2>3, <2>4
<1>5. RequestPart'
  <2>1. 0 \in 0..WordMax
    BY WordFacts
  <2>2. UNCHANGED index \/ index' = [index EXCEPT ![t] = 0]
    BY DEF RawSlot, RawNext, RawWrap, RawReuse, locals
  <2> QED  BY <1>0, <1>2, <2>1, <2>2, RequestGoes
<1>6. QueueTypeOK'
  BY <1>0, <1>2, <1>4, <1>5, QueueTypesNext
<1> QED  BY <1>3, <1>6 DEF QueueTypes

\* The loop at the end of the unprotected call.
LEMMA RawWakeTypes ==
  ASSUME QueueTypes, UNCHANGED mutexVars, NEW t \in Prio, RawWake(t)
  PROVE  QueueTypes'
<1>0. /\ KernelTypes /\ ThreadTypes(Places) /\ HeapTypes /\ RingTypes /\ RequestPart
      /\ option \in Options /\ created \in BOOLEAN
  BY QueueTypesParts DEF QueueTypes
<1>1. /\ Goto(t, "yield") /\ request' = [request EXCEPT ![t] = NoRequest] /\ ButWaiters
      /\ UNCHANGED <<option, created, ring, index, taskVars>>
  BY DEF RawWake, Leaves
<1>2. KernelTypes' /\ ThreadTypes(Places)'
  <2>1. \E from \in {InsertLoop, RemoveLoop, BothLoops, DeleteLoop} : Wake(from, QueueCauses)
    BY DEF RawWake
  <2>2. PICK from \in {InsertLoop, RemoveLoop, BothLoops, DeleteLoop} : Wake(from, QueueCauses)
    BY <2>1
  <2>3. DOMAIN from \subseteq List /\ \A l \in DOMAIN from : from[l] \in SUBSET Prio
    BY <1>0, LoopTypes
  <2> QED  BY <1>0, <1>1, <2>2, <2>3, WakeTypes
<1>3. HeapTypes'
  BY <1>0, <1>1, HeapTypesKept DEF mutexVars
<1>4. RingTypes'
  BY <1>0, <1>1, RingTypesKept
<1>5. RequestPart'
  BY <1>0, <1>1, RequestTypes, RequestGoes
<1>6. QueueTypeOK'
  BY <1>0, <1>1, <1>4, <1>5, QueueTypesNext
<1> QED  BY <1>2, <1>3, <1>6 DEF QueueTypes

\* A new queue, or the attempt.
LEMMA QueueCreateTypes ==
  ASSUME QueueTypes, UNCHANGED mutexVars, ~mutex, NEW t \in Prio,
         QueueCreate(t) \/ QueueCreateOutOfMemory(t)
  PROVE  QueueTypes'
<1>0. /\ KernelTypes /\ ThreadTypes(Places) /\ HeapTypes /\ RingTypes /\ RequestPart
      /\ option \in Options /\ created \in BOOLEAN
      /\ ListTypes /\ TaskTypes /\ WaitTypes /\ CpuTypes
  BY QueueTypesParts DEF QueueTypes, KernelTypes
<1>1. heap \in 0..HeapBlocks /\ HeapBlocks \in Nat /\ heap \in Nat
  <2>1. heap \in 0..HeapBlocks /\ HeapBlocks \in Nat
    BY <1>0, HeapAssumption DEF HeapTypes
  <2> QED  BY <2>1
<1>2. CASE QueueCreate(t)
  <2>1. /\ UNCHANGED <<lists, tcbPtrTbl, tcb, cpu, threads, arg, tasksCount, heapDirty>>
        /\ UNCHANGED option /\ UNCHANGED <<request, index>>
        /\ created' = TRUE /\ heap + 2 <= HeapBlocks /\ heap' = heap + 2
    BY <1>2 DEF QueueCreate, locals
  <2>2. WaitTypes'
    <3>1. UserPrio \in SUBSET Prio
      BY SizeAssumption DEF UserPrio, Prio
    <3>2. {EmptyList, [prioGrp |-> TRUE, prioTbl |-> UserPrio]}
             \subseteq [prioGrp : BOOLEAN, prioTbl : SUBSET Prio]
      BY <3>1 DEF EmptyList
    <3>3. \E raw \in [prioGrp : BOOLEAN, prioTbl : SUBSET Prio] :
             waitList' = [waitList EXCEPT ![SlotWait] = raw, ![InsertWait] = raw]
      BY <1>2, <3>2 DEF QueueCreate
    <3> QED  BY <1>0, <3>3 DEF WaitTypes
  <2>3. ListTypes' /\ TaskTypes' /\ CpuTypes'
    BY <1>0, <2>1 DEF ListTypes, TaskTypes, CpuTypes, lists, tcb, cpu
  <2>4. ThreadTypes(Places)'
    BY <1>0, <2>1, SameThreads
  <2>5. HeapTypes'
    <3>1. heap' \in 0..HeapBlocks /\ heap' >= 1
      BY <1>1, <2>1
    <3> QED  BY <1>0, <2>1, <3>1 DEF HeapTypes, mutexVars
  <2>6. RingTypes'
    <3>1. /\ queueBase' = [i \in 0..Slots-1 |-> Wild]
          /\ queueFront' = 0 /\ queueBack' = 0 /\ usedSlots' = 0
      BY <1>2 DEF QueueCreate
    <3>2. 0 \in 0..WordMax
      BY WordFacts
    <3> QED  BY <3>1, <3>2 DEF RingTypes
  <2>7. QueueTypeOK'
    BY <1>0, <2>1, <2>6, RequestKept, QueueTypesNext
  <2> QED  BY <2>2, <2>3, <2>4, <2>5, <2>7 DEF QueueTypes, KernelTypes
<1>3. CASE QueueCreateOutOfMemory(t)
  <2>1. /\ ~created /\ heap = HeapBlocks - 1 /\ UNCHANGED <<kernelVars, tasksCount, arg, queueVars>>
        /\ heap' \in {heap, heap + 1} /\ heapDirty' \in {heapDirty, TRUE}
    BY <1>3 DEF QueueCreateOutOfMemory
  <2>2. heap' \in 0..HeapBlocks
    BY <1>1, <2>1
  <2>3. UNCHANGED <<lists, objects, cpu, threads>>
        /\ UNCHANGED <<option, created, request, index>> /\ UNCHANGED ring
    BY <2>1 DEF kernelVars, queueVars, locals
  <2>4. HeapTypes'
    BY <1>0, <2>1, <2>2, <2>3 DEF HeapTypes, mutexVars
  <2>5. KernelTypes' /\ ThreadTypes(Places)'
    BY <1>0, <2>1, <2>3, SameTypes, SameThreads
  <2>6. QueueTypeOK'
    BY <1>0, <2>3, RequestKept, RingTypesKept, QueueTypesNext
  <2> QED  BY <2>4, <2>5, <2>6 DEF QueueTypes
<1> QED  BY <1>2, <1>3

\* The caller of a remove blocks.
LEMMA EmptyBlockTypes ==
  ASSUME QueueTypes, UNCHANGED mutexVars, NEW t \in Prio, EmptyBlock(t)
  PROVE  QueueTypes'
<1>0. /\ KernelTypes /\ ThreadTypes(Places) /\ HeapTypes /\ RingTypes /\ RequestPart
      /\ option \in Options /\ created \in BOOLEAN
      /\ ListTypes /\ TaskTypes /\ WaitTypes /\ CpuTypes
  BY QueueTypesParts DEF QueueTypes, KernelTypes
<1>1. /\ Unready(t) /\ Goto(t, "yield") /\ request' = [request EXCEPT ![t] = NoRequest]
      /\ bmp' = [bmp EXCEPT ![t]["queue"] = InsertWait]
      /\ waitList' = [waitList EXCEPT ![InsertWait] = Enlist(@, t)]
      /\ UNCHANGED <<activeList, tcbPtrTbl, cpu, yieldPrio, after, taskVars, arg>>
      /\ UNCHANGED <<option, created, index>> /\ UNCHANGED ring
  BY DEF EmptyBlock, Leaves
<1>2. request[t].ticks \in 0..MaxDelay
  BY <1>0 DEF RequestPart, Requests
<1>3. ListTypes' /\ TaskTypes'
  <2>1. taskPrioList' \in SUBSET Prio
    BY <1>0, <1>1 DEF Unready, ListTypes
  <2>2. bmp' \in [Prio -> [Bmp -> List \cup {NULL, Wild}]]
    BY <1>0, <1>1, QueueListFacts DEF TaskTypes, Bmp
  <2>3. {"PendQueue"} \in SUBSET Status /\ {"PendQueue", "PendDelay"} \in SUBSET Status
    BY DEF Status
  <2>4. \E causes \in SUBSET Status : taskStatus' = [taskStatus EXCEPT ![t] = @ \cup causes]
    <3>1. \/ taskStatus' = [taskStatus EXCEPT ![t] = @ \cup {"PendQueue"}]
          \/ taskStatus' = [taskStatus EXCEPT ![t] = @ \cup {"PendQueue", "PendDelay"}]
      BY DEF EmptyBlock
    <3> QED  BY <2>3, <3>1
  <2>5. \/ UNCHANGED <<delayTime, timerPendingList>>
        \/ /\ delayTime' = [delayTime EXCEPT ![t] = request[t].ticks]
           /\ timerPendingList' = [timerPendingList EXCEPT ![activeList] = @ \cup {t}]
    BY DEF EmptyBlock
  <2>6. PICK causes \in SUBSET Status : taskStatus' = [taskStatus EXCEPT ![t] = @ \cup causes]
    BY <2>4
  <2> QED  BY <1>0, <1>1, <1>2, <2>1, <2>2, <2>5, <2>6, BlockedTypes
<1>4. WaitTypes'
  <2>1. Enlist(waitList[InsertWait], t) \in [prioGrp : BOOLEAN, prioTbl : SUBSET Prio]
    BY <1>0, QueueListFacts, WaitListTypes
  <2> QED  BY <1>0, <1>1, <2>1 DEF WaitTypes
<1>5. CpuTypes'
  BY <1>0, <1>1 DEF CpuTypes, cpu
<1>6. ThreadTypes(Places)'
  BY <1>0, <1>1, PlaceFacts, GotoTypes
<1>7. HeapTypes'
  BY <1>0, <1>1, HeapTypesKept DEF mutexVars
<1>8. QueueTypeOK'
  BY <1>0, <1>1, RequestTypes, RequestGoes, RingTypesKept, QueueTypesNext
<1> QED  BY <1>3, <1>4, <1>5, <1>6, <1>7, <1>8 DEF QueueTypes, KernelTypes

\* Every step of the queue's calls.
LEMMA QueueNextTypes ==
  ASSUME Api \subseteq TimingCalls, QueueTypes, UNCHANGED mutexVars, ~mutex, QueueNext
  PROVE  QueueTypes'
<1>1. ASSUME NEW t \in Prio, QueueCall(t) PROVE QueueTypes'
  <2>1. CASE QueueCreate(t) \/ QueueCreateOutOfMemory(t)
    BY <2>1, QueueCreateTypes
  <2>2. CASE Insert(t) \/ Remove(t) \/ QueueFlush(t) \/ QueueDelete(t)
    BY <2>2, LoopCallsTypes
  <2>3. CASE InsertFull(t) \/ \E ticks \in 0..MaxDelay : RemoveEmpty(t, ticks)
    BY <2>3, LookTypes
  <2> QED  BY <1>1, <2>1, <2>2, <2>3 DEF QueueCall
<1>2. ASSUME NEW t \in Prio, QueueProceeds(t) PROVE QueueTypes'
  <2>1. CASE EmptyBlock(t)
    BY <2>1, EmptyBlockTypes
  <2>2. CASE Again(t) \/ RawIndex(t) \/ RawUsed(t)
    BY <2>2, LookTypes
  <2>3. CASE RawSlot(t) \/ RawNext(t) \/ RawWrap(t) \/ RawReuse(t)
    BY <2>3, RawTypes
  <2>4. CASE RawWake(t)
    BY <2>4, RawWakeTypes
  <2> QED  BY <1>2, <2>1, <2>2, <2>3, <2>4 DEF QueueProceeds
<1>3. CASE /\ Interrupts \/ \E t \in Prio : Proceed(t) \/ (Uses(t, "delay") /\ Call(t))
           /\ UNCHANGED queueVars
  <2>1. KernelTypes' /\ ThreadTypes(Places)' /\ UNCHANGED taskVars
    BY <1>3, PlacesOK, TasksTypes DEF QueueTypes
  <2>2. /\ UNCHANGED <<option, created>> /\ UNCHANGED ring /\ UNCHANGED <<request, index>>
        /\ option \in Options /\ created \in BOOLEAN /\ RingTypes /\ RequestPart /\ HeapTypes
    BY <1>3, QueueTypesParts DEF queueVars, locals, QueueTypes
  <2>3. HeapTypes'
    BY <2>1, <2>2, HeapTypesKept DEF mutexVars
  <2>4. QueueTypeOK'
    BY <2>2, RequestKept, RingTypesKept, QueueTypesNext
  <2> QED  BY <2>1, <2>3, <2>4 DEF QueueTypes
<1> QED  BY <1>1, <1>2, <1>3 DEF QueueNext

WordTypes == word \in [Prio -> SUBSET Prio]

\* The insert that blocks: the words it reads, on its own fields and its way.
LEMMA InsertReadTypes ==
  ASSUME QueueTypes, WordTypes, UNCHANGED mutexVars, NEW t \in Prio,
         \/ FullReadReady(t) \/ FullReadTimer(t) \/ FullRead(t)
         \/ \E ticks \in 0..MaxDelay : InsertBlocks(t, ticks)
  PROVE  QueueTypes' /\ WordTypes'
<1>0. /\ KernelTypes /\ ThreadTypes(Places) /\ HeapTypes /\ RingTypes /\ RequestPart
      /\ option \in Options /\ created \in BOOLEAN /\ ListTypes /\ WaitTypes
  BY QueueTypesParts DEF QueueTypes, KernelTypes
<1>1. /\ taskPrioList \in SUBSET Prio /\ Active \in SUBSET Prio
      /\ waitList[SlotWait].prioTbl \in SUBSET Prio
      /\ activeList \in 0..WordMax
  <2>1. activeList \in 0..WordMax
    <3>1. activeList \in {0, 1}
      BY <1>0 DEF ListTypes
    <3>2. WordMax >= 1 /\ WordMax \in Nat
      BY WordFacts
    <3> QED  BY <3>1, <3>2
  <2> QED  BY <1>0, <2>1, QueueListFacts, WaitListTypes DEF ListTypes, Active
<1>2. /\ \E label \in Places : Goto(t, label)
      /\ ButThread /\ UNCHANGED <<option, created>> /\ UNCHANGED ring
      /\ UNCHANGED word \/ \E new \in SUBSET Prio : word' = [word EXCEPT ![t] = new]
      /\ UNCHANGED request \/ \E new \in Requests : request' = [request EXCEPT ![t] = new]
      /\ UNCHANGED index \/ \E i \in 0..WordMax : index' = [index EXCEPT ![t] = i]
  <2>1. CASE FullReadReady(t)
    BY <1>1, <2>1, PlaceFacts DEF FullReadReady, queueVars, locals
  <2>2. CASE FullReadTimer(t)
    BY <1>1, <2>2, PlaceFacts DEF FullReadTimer
  <2>3. CASE FullRead(t)
    BY <1>1, <2>3, PlaceFacts DEF FullRead, queueVars, locals
  <2>4. ASSUME NEW ticks \in 0..MaxDelay, InsertBlocks(t, ticks)
        PROVE  /\ \E label \in Places : Goto(t, label)
               /\ ButThread /\ UNCHANGED <<option, created, index, word>> /\ UNCHANGED ring
               /\ \E new \in Requests : request' = [request EXCEPT ![t] = new]
    BY <2>4, PlaceFacts, RequestTypes DEF InsertBlocks, Begin
  <2> QED  BY <2>1, <2>2, <2>3, <2>4
<1>3. KernelTypes' /\ ThreadTypes(Places)' /\ HeapTypes'
  BY <1>0, <1>2, AsideTypes DEF mutexVars
<1>4. QueueTypeOK'
  BY <1>0, <1>2, RequestGoes, RingTypesKept, QueueTypesNext
<1>5. WordTypes'
  BY <1>2 DEF WordTypes
<1> QED  BY <1>3, <1>4, <1>5 DEF QueueTypes

\* What it writes.
LEMMA InsertWriteTypes ==
  ASSUME QueueTypes, WordTypes, UNCHANGED mutexVars, NEW t \in Prio,
         \/ FullUnready(t) \/ FullPend(t) \/ FullCount(t)
         \/ FullPoint(t) \/ FullGroup(t) \/ FullWrite(t)
  PROVE  QueueTypes' /\ WordTypes'
<1>0. /\ KernelTypes /\ ThreadTypes(Places) /\ HeapTypes /\ RingTypes /\ RequestPart
      /\ option \in Options /\ created \in BOOLEAN
      /\ ListTypes /\ TaskTypes /\ WaitTypes /\ CpuTypes
  BY QueueTypesParts DEF QueueTypes, KernelTypes
<1>1. /\ \E label \in Places : Goto(t, label)
      /\ UNCHANGED <<activeList, tcbPtrTbl, cpu, yieldPrio, after, taskVars, arg>>
      /\ UNCHANGED <<option, created>> /\ UNCHANGED ring
      /\ UNCHANGED request \/ request' = [request EXCEPT ![t] = NoRequest]
      /\ UNCHANGED index \/ index' = [index EXCEPT ![t] = 0]
      /\ UNCHANGED word \/ word' = [word EXCEPT ![t] = {}]
  <2> USE PlaceFacts DEF lists, objects, tcb, queueVars, locals
  <2>1. CASE FullUnready(t)
    BY <2>1 DEF FullUnready
  <2>2. CASE FullPend(t)
    BY <2>2 DEF FullPend
  <2>3. CASE FullCount(t)
    BY <2>3 DEF FullCount
  <2>4. CASE FullPoint(t)
    BY <2>4 DEF FullPoint
  <2>5. CASE FullGroup(t)
    BY <2>5 DEF FullGroup
  <2>6. CASE FullWrite(t)
    BY <2>6 DEF FullWrite, Leaves
  <2> QED  BY <2>1, <2>2, <2>3, <2>4, <2>5, <2>6
<1>2. word[t] \in SUBSET Prio /\ word[t] \cup {t} \in SUBSET Prio /\ WordTypes'
  BY <1>1 DEF WordTypes
<1>3. taskPrioList' \in SUBSET Prio
  <2>1. taskPrioList' \in {taskPrioList, word[t] \ {t}}
    BY DEF FullUnready, FullPend, FullCount, FullPoint, FullGroup, FullWrite, lists
  <2> QED  BY <1>0, <1>2, <2>1 DEF ListTypes
<1>4. timerPendingList' \in [{0, 1} -> SUBSET Prio]
  <2>1. \/ UNCHANGED timerPendingList
        \/ timerPendingList' = [timerPendingList EXCEPT ![index[t]] = word[t] \cup {t}]
    BY DEF FullUnready, FullPend, FullCount, FullPoint, FullGroup, FullWrite, lists
  <2> QED  BY <1>0, <1>2, <2>1, WriteTypes DEF ListTypes
<1>5. WaitTypes'
  <2>1. /\ waitList[SlotWait] \in [prioGrp : BOOLEAN, prioTbl : SUBSET Prio]
        /\ waitList \in [List -> [prioGrp : BOOLEAN, prioTbl : SUBSET Prio]]
    BY <1>0, QueueListFacts DEF WaitTypes
  <2>2. CASE FullGroup(t)
    <3>1. waitList' = [waitList EXCEPT ![SlotWait] = [@ EXCEPT !.prioGrp = TRUE]]
      BY <2>2 DEF FullGroup
    <3>2. [waitList[SlotWait] EXCEPT !.prioGrp = TRUE]
             \in [prioGrp : BOOLEAN, prioTbl : SUBSET Prio]
      BY <2>1
    <3> QED  BY <2>1, <3>1, <3>2, WriteTypes DEF WaitTypes
  <2>3. CASE FullWrite(t)
    <3>1. waitList' = [waitList EXCEPT ![SlotWait] = [@ EXCEPT !.prioTbl = word[t] \cup {t}]]
      BY <2>3 DEF FullWrite
    <3>2. [waitList[SlotWait] EXCEPT !.prioTbl = word[t] \cup {t}]
             \in [prioGrp : BOOLEAN, prioTbl : SUBSET Prio]
      BY <1>2, <2>1
    <3> QED  BY <2>1, <3>1, <3>2, WriteTypes DEF WaitTypes
  <2>4. CASE FullUnready(t) \/ FullPend(t) \/ FullCount(t) \/ FullPoint(t)
    <3>1. UNCHANGED waitList
      BY <2>4 DEF FullUnready, FullPend, FullCount, FullPoint, objects
    <3> QED  BY <1>0, <3>1 DEF WaitTypes
  <2> QED  BY <2>2, <2>3, <2>4
<1>6. taskStatus' \in [Prio -> SUBSET Status] /\ delayTime' \in [Prio -> 0..MaxDelay]
  <2>1. request[t].ticks \in 0..MaxDelay
    BY <1>0 DEF RequestPart, Requests
  <2>2. /\ taskStatus[t] \cup {"PendQueue"} \in SUBSET Status
        /\ taskStatus[t] \cup {"PendQueue", "PendDelay"} \in SUBSET Status
    <3>1. {"PendQueue", "PendDelay"} \subseteq Status
      BY DEF Status
    <3>2. taskStatus[t] \in SUBSET Status
      BY <1>0 DEF TaskTypes
    <3> QED  BY <3>1, <3>2
  <2>3. /\ UNCHANGED taskStatus
           \/ \E new \in SUBSET Status : taskStatus' = [taskStatus EXCEPT ![t] = new]
        /\ UNCHANGED delayTime \/ delayTime' = [delayTime EXCEPT ![t] = request[t].ticks]
    BY <2>2 DEF FullUnready, FullPend, FullCount, FullPoint, FullGroup, FullWrite, objects, tcb
  <2> QED  BY <1>0, <2>1, <2>3 DEF TaskTypes
<1>7. bmp' \in [Prio -> [Bmp -> List \cup {NULL, Wild}]]
  <2>1. UNCHANGED bmp \/ bmp' = [bmp EXCEPT ![t]["queue"] = SlotWait]
    BY DEF FullUnready, FullPend, FullCount, FullPoint, FullGroup, FullWrite, objects, tcb
  <2> QED  BY <1>0, <2>1, QueueListFacts DEF TaskTypes, Bmp
<1>8. KernelTypes'
  BY <1>0, <1>1, <1>3, <1>4, <1>5, <1>6, <1>7 DEF KernelTypes, ListTypes, TaskTypes, CpuTypes, cpu
<1>9. ThreadTypes(Places)' /\ HeapTypes'
  BY <1>0, <1>1, GotoTypes, HeapTypesKept DEF mutexVars
<1>10. QueueTypeOK'
  BY <1>0, <1>1, WordFacts, RequestTypes, RequestGoes, RingTypesKept, QueueTypesNext
<1> QED  BY <1>2, <1>8, <1>9, <1>10 DEF QueueTypes

LEMMA InsertNextTypes ==
  ASSUME Api \subseteq TimingCalls, QueueTypes, WordTypes, UNCHANGED mutexVars, ~mutex, InsertNext
  PROVE  QueueTypes' /\ WordTypes'
<1>1. CASE QueueNext /\ UNCHANGED word
  BY <1>1, QueueNextTypes DEF WordTypes
<1>2. ASSUME NEW t \in Prio, InsertProceeds(t) \/ \E ticks \in 0..MaxDelay : InsertBlocks(t, ticks)
      PROVE  QueueTypes' /\ WordTypes'
  BY <1>2, InsertReadTypes, InsertWriteTypes DEF InsertProceeds
<1> QED  BY <1>1, <1>2 DEF InsertNext

\* What the parts of the types of a mutex's application are after a step.
MutexTypes == KernelTypes /\ ThreadTypes(Places) /\ HeapTypes /\ MutexTypeOK

LEMMA MutexFacts ==
  /\ MutexPrio \in Prio /\ 0 \in Prio /\ TasksPending \in List
  /\ UserPrio \in SUBSET Prio /\ UserPrio \subseteq Prio
BY SizeAssumption, TasksPendingAssumption DEF MutexPrio, Prio, UserPrio

\* Create and delete, at the heap.
LEMMA MutexHeapTypes ==
  ASSUME MutexTypes, ~created, UNCHANGED created, NEW t \in Prio,
         MutexCreate(t) \/ MutexDelete(t)
  PROVE  MutexTypes'
<1>0. /\ KernelTypes /\ ThreadTypes(Places) /\ HeapTypes /\ MutexTypeOK
      /\ ListTypes /\ TaskTypes /\ WaitTypes /\ CpuTypes
  BY DEF MutexTypes, KernelTypes
<1>1. heap \in 0..HeapBlocks /\ HeapBlocks \in Nat /\ heap \in Nat
  <2>1. heap \in 0..HeapBlocks /\ HeapBlocks \in Nat
    BY <1>0, HeapAssumption DEF HeapTypes
  <2> QED  BY <2>1
<1>2. CASE MutexCreate(t)
  <2>1. /\ UNCHANGED <<lists, tcbPtrTbl, tcb, cpu, threads, arg, tasksCount, heapDirty>>
        /\ UNCHANGED <<taskPrio, holders>>
        /\ mutexOwner' = 0 /\ mutexTaken' = FALSE
        /\ mutex' = TRUE /\ heap < HeapBlocks /\ heap' = heap + 1
    BY <1>2 DEF MutexCreate
  <2>2. WaitTypes'
    <3>1. \E raw \in SUBSET Prio :
             waitList' = [waitList EXCEPT ![TasksPending] = [prioGrp |-> FALSE, prioTbl |-> raw]]
      BY <1>2, MutexFacts DEF MutexCreate
    <3>2. \E empty \in [prioGrp : BOOLEAN, prioTbl : SUBSET Prio] :
             waitList' = [waitList EXCEPT ![TasksPending] = empty]
      BY <3>1
    <3> QED  BY <1>0, <3>2, WriteTypes DEF WaitTypes
  <2>3. ListTypes' /\ TaskTypes' /\ CpuTypes'
    BY <1>0, <2>1 DEF ListTypes, TaskTypes, CpuTypes, lists, tcb, cpu
  <2>4. ThreadTypes(Places)'
    BY <1>0, <2>1, SameThreads
  <2>5. HeapTypes'
    <3>1. heap' \in 0..HeapBlocks /\ heap' >= 1
      BY <1>1, <2>1
    <3> QED  BY <1>0, <2>1, <3>1 DEF HeapTypes
  <2>6. MutexTypeOK'
    BY <1>0, <2>1, MutexFacts DEF MutexTypeOK
  <2> QED  BY <2>2, <2>3, <2>4, <2>5, <2>6 DEF MutexTypes, KernelTypes
<1>3. CASE MutexDelete(t)
  <2>1. /\ mutex /\ mutex' = FALSE /\ heap' = heap - 1 /\ heapDirty' = TRUE
        /\ UNCHANGED <<kernelVars, tasksCount, arg, mutexOwner, mutexTaken, taskPrio, holders>>
    BY <1>3 DEF MutexDelete, MutexCalls
  <2>2. heap >= 1
    BY <1>0, <2>1 DEF HeapTypes
  <2>3. heap' \in 0..HeapBlocks
    BY <1>1, <2>1, <2>2
  <2>4. HeapTypes'
    BY <1>0, <2>1, <2>3 DEF HeapTypes
  <2>5. KernelTypes' /\ ThreadTypes(Places)'
    <3>1. UNCHANGED <<lists, objects, cpu, threads>>
      BY <2>1 DEF kernelVars
    <3> QED  BY <1>0, <2>1, <3>1, SameTypes, SameThreads
  <2>6. MutexTypeOK'
    BY <1>0, <2>1 DEF MutexTypeOK
  <2> QED  BY <2>4, <2>5, <2>6 DEF MutexTypes
<1> QED  BY <1>2, <1>3

\* Steps of a take that change nothing of the kernel but where the caller is.
LEMMA TakeAsideTypes ==
  ASSUME MutexTypes, UNCHANGED created, NEW t \in Prio, TakeFree(t) \/ TakeOwn(t) \/ Taken(t)
  PROVE  MutexTypes'
<1>1. /\ \E label \in Places : Goto(t, label)
      /\ UNCHANGED <<lists, objects, cpu, yieldPrio, after, taskVars, arg>>
      /\ UNCHANGED <<mutex, taskPrio>>
      /\ mutexTaken' \in {mutexTaken, TRUE} /\ mutexOwner' \in {mutexOwner, taskPrio[t]}
      /\ holders' \in {holders, holders \cup {t}}
  BY PlaceFacts DEF TakeFree, TakeOwn, Taken
<1>2. KernelTypes' /\ ThreadTypes(Places)' /\ HeapTypes'
  BY <1>1, AsideTypes DEF MutexTypes, ButThread
<1>3. MutexTypeOK'
  BY <1>1 DEF MutexTypes, MutexTypeOK
<1> QED  BY <1>2, <1>3 DEF MutexTypes

\* A take's last place, and where the caller returns to.
LEMMA TakenTypes ==
  ASSUME ThreadTypes(Places), NEW t \in Prio, Goto(t, "yield"),
         after' = [after EXCEPT ![t] = "taken"],
         UNCHANGED <<yieldPrio, arg>>
  PROVE  ThreadTypes(Places)'
BY PlaceFacts DEF ThreadTypes, Goto

LEMMA TakeBlocksTypes ==
  ASSUME MutexTypes, UNCHANGED created, NEW t \in Prio, TakeBlocks(t)
  PROVE  MutexTypes'
<1>0. /\ ListTypes /\ TaskTypes /\ WaitTypes /\ CpuTypes
      /\ ThreadTypes(Places) /\ HeapTypes /\ MutexTypeOK
  BY DEF MutexTypes, KernelTypes
<1>1. /\ waitList' = [waitList EXCEPT ![TasksPending] = Enlist(@, taskPrio[t])]
      /\ taskPrioList' = taskPrioList \ {taskPrio[t]}
      /\ taskStatus' = [taskStatus EXCEPT ![t] = @ \cup {"PendMtx"}]
      /\ bmp' = [bmp EXCEPT ![t]["mtx"] = TasksPending]
      /\ Goto(t, "yield") /\ after' = [after EXCEPT ![t] = "taken"]
      /\ UNCHANGED <<timerPendingList, activeList, tcbPtrTbl, delayTime, cpu, yieldPrio, arg>>
      /\ UNCHANGED mutexVars /\ UNCHANGED taskVars
  BY DEF TakeBlocks, Unready
<1>2. WaitTypes'
  <2>1. Enlist(waitList[TasksPending], taskPrio[t]) \in [prioGrp : BOOLEAN, prioTbl : SUBSET Prio]
    BY <1>0, MutexFacts, WaitListTypes DEF MutexTypeOK
  <2> QED  BY <1>0, <1>1, <2>1 DEF WaitTypes
<1>3. ListTypes'
  BY <1>0, <1>1 DEF ListTypes
<1>4. TaskTypes'
  <2>1. bmp' \in [Prio -> [Bmp -> List \cup {NULL, Wild}]]
    BY <1>0, <1>1, MutexFacts DEF TaskTypes, Bmp
  <2>2. "PendMtx" \in Status
    BY DEF Status
  <2>3. taskStatus' \in [Prio -> SUBSET Status]
    BY <1>0, <1>1, <2>2 DEF TaskTypes
  <2> QED  BY <1>0, <1>1, <2>1, <2>3 DEF TaskTypes
<1>5. CpuTypes'
  BY <1>0, <1>1 DEF CpuTypes, cpu
<1>6. ThreadTypes(Places)'
  BY <1>0, <1>1, TakenTypes
<1>7. HeapTypes' /\ MutexTypeOK'
  BY <1>0, <1>1, HeapTypesKept DEF MutexTypeOK, mutexVars
<1> QED  BY <1>2, <1>3, <1>4, <1>5, <1>6, <1>7 DEF MutexTypes, KernelTypes

LEMMA TakeRaiseTypes ==
  ASSUME MutexTypes, UNCHANGED created, NEW t \in Prio, TakeRaise(t)
  PROVE  MutexTypes'
<1>0. /\ ListTypes /\ TaskTypes /\ WaitTypes /\ CpuTypes
      /\ ThreadTypes(Places) /\ HeapTypes /\ MutexTypeOK
  BY DEF MutexTypes, KernelTypes
<1>1. /\ tcbPtrTbl' = [tcbPtrTbl EXCEPT ![MutexPrio] = t]
      /\ taskStatus' = [taskStatus EXCEPT ![t] = taskStatus[t] \ {"PendMtx"}]
      /\ taskPrio' = [taskPrio EXCEPT ![t] = MutexPrio]
      /\ taskPrioList' \in {taskPrioList, taskPrioList \cup {MutexPrio}}
      /\ Goto(t, "yield") /\ after' = [after EXCEPT ![t] = "taken"]
      /\ UNCHANGED <<timerPendingList, activeList, delayTime, bmp, waitList, cpu, yieldPrio, arg>>
      /\ UNCHANGED <<mutex, mutexOwner, mutexTaken, holders>> /\ UNCHANGED taskVars
  BY DEF TakeRaise, Raise, Ready
<1>2. ListTypes' /\ TaskTypes'
  BY <1>0, <1>1, MutexFacts DEF ListTypes, TaskTypes
<1>3. WaitTypes' /\ CpuTypes'
  BY <1>0, <1>1 DEF WaitTypes, CpuTypes, cpu
<1>4. ThreadTypes(Places)'
  BY <1>0, <1>1, TakenTypes
<1>5. HeapTypes' /\ MutexTypeOK'
  BY <1>0, <1>1, MutexFacts, HeapTypesKept DEF MutexTypeOK
<1> QED  BY <1>2, <1>3, <1>4, <1>5 DEF MutexTypes, KernelTypes

LEMMA GiveTypes ==
  ASSUME MutexTypes, UNCHANGED created, NEW t \in Prio, Give(t)
  PROVE  MutexTypes'
<1>0. /\ ListTypes /\ TaskTypes /\ WaitTypes /\ CpuTypes
      /\ ThreadTypes(Places) /\ HeapTypes /\ MutexTypeOK
  BY DEF MutexTypes, KernelTypes
<1>1. /\ Goto(t, "yield") /\ holders' = holders \ {t}
      /\ UNCHANGED <<timerPendingList, activeList, delayTime, bmp>>
      /\ UNCHANGED <<currentTask, highPrioTask, irqCounter, pendSV, tick>>
      /\ UNCHANGED <<yieldPrio, after, arg>> /\ UNCHANGED mutex /\ UNCHANGED taskVars
  BY DEF Give
<1>2. /\ halted' \in {halted, "null"}
      /\ UNCHANGED waitList \/ waitList' = [waitList EXCEPT ![TasksPending] = Pending]
      /\ \/ UNCHANGED <<tcbPtrTbl, taskStatus, taskPrioList, taskPrio, mutexOwner, mutexTaken>>
         \/ mutexTCB # NULL /\ (GiveFree \/ GiveOn)
  BY DEF Give
<1>3. WaitTypes' /\ NewOwner \in Prio
  <2>1. Pending \in [prioGrp : BOOLEAN, prioTbl : SUBSET Prio]
    BY <1>0, MutexFacts, WaitListTypes DEF Pending
  <2>2. WaitTypes'
    BY <1>0, <1>2, <2>1 DEF WaitTypes
  <2>3. NewOwner \in Prio
    <3>1. Highest(Pending.prioTbl) \in Prio
      BY <2>1, HighestPrio
    <3> QED  BY <3>1, MutexFacts DEF NewOwner, First
  <2> QED  BY <2>2, <2>3
<1>4. /\ taskPrioList' \in SUBSET Prio /\ tcbPtrTbl' \in [Prio -> Prio \cup {NULL}]
      /\ taskStatus' \in [Prio -> SUBSET Status]
      /\ taskPrio' \in [Prio -> Prio] /\ mutexOwner' \in Prio /\ mutexTaken' \in BOOLEAN
  <2>0. /\ taskPrioList \in SUBSET Prio /\ tcbPtrTbl \in [Prio -> Prio \cup {NULL}]
        /\ taskStatus \in [Prio -> SUBSET Status] /\ taskPrio \in [Prio -> Prio]
        /\ mutexOwner \in Prio /\ mutexTaken \in BOOLEAN
    BY <1>0 DEF ListTypes, TaskTypes, MutexTypeOK
  <2>1. CASE UNCHANGED <<tcbPtrTbl, taskStatus, taskPrioList, taskPrio, mutexOwner, mutexTaken>>
    BY <2>0, <2>1
  <2>2. CASE mutexTCB # NULL /\ GiveFree
    <3>1. mutexTCB \in Prio
      BY <2>0, <2>2, MutexFacts DEF mutexTCB
    <3>2. /\ taskStatus' = [taskStatus EXCEPT ![mutexTCB] = taskStatus[mutexTCB] \ {"PendMtx"}]
          /\ taskPrioList' = taskPrioList \ {taskPrio[mutexTCB]}
          /\ taskPrio' = [taskPrio EXCEPT ![tcbPtrTbl[mutexOwner]] = mutexOwner]
          /\ mutexTaken' = FALSE /\ mutexOwner' = MutexPrio /\ UNCHANGED tcbPtrTbl
      BY <2>2 DEF GiveFree, Unready
    <3>3. taskStatus' \in [Prio -> SUBSET Status]
      BY <2>0, <3>1, <3>2
    <3>4. taskPrio' \in [Prio -> Prio]
      BY <2>0, <3>2, WriteTypes
    <3> QED  BY <2>0, <3>2, <3>3, <3>4, MutexFacts
  <2>3. CASE mutexTCB # NULL /\ GiveOn
    <3> DEFINE new == tcbPtrTbl[NewOwner]
               status == [taskStatus EXCEPT ![mutexTCB] = @ \ {"PendMtx"}]
               given == [taskPrio EXCEPT ![tcbPtrTbl[mutexOwner]] = mutexOwner]
    <3>1. mutexTCB \in Prio /\ new \in Prio \cup {NULL}
      BY <1>3, <2>0, <2>3, MutexFacts DEF mutexTCB
    <3>2. /\ tcbPtrTbl' = [tcbPtrTbl EXCEPT ![MutexPrio] = new]
          /\ taskStatus' = [status EXCEPT ![new] = @ \ {"PendMtx"}]
          /\ taskPrioList' \subseteq taskPrioList \cup {MutexPrio}
          /\ mutexOwner' = NewOwner /\ UNCHANGED mutexTaken
      BY <2>3 DEF GiveOn
    <3>3. taskPrio' = [given EXCEPT ![new] = MutexPrio]
      BY <2>3 DEF GiveOn
    <3>4. tcbPtrTbl' \in [Prio -> Prio \cup {NULL}]
      BY <2>0, <3>1, <3>2, WriteTypes
    <3>5. taskStatus' \in [Prio -> SUBSET Status]
      <4>1. status \in [Prio -> SUBSET Status]
        BY <2>0, <3>1
      <4> HIDE DEF status, new
      <4> QED  BY <3>2, <4>1
    <3>6. taskPrio' \in [Prio -> Prio]
      <4>1. given \in [Prio -> Prio]
        BY <2>0, WriteTypes
      <4> HIDE DEF given, new
      <4> QED  BY <3>3, <4>1, MutexFacts, WriteTypes
    <3> QED  BY <1>3, <2>0, <3>2, <3>4, <3>5, <3>6, MutexFacts
  <2> QED  BY <1>2, <2>1, <2>2, <2>3
<1>5. CpuTypes'
  BY <1>0, <1>1, <1>2 DEF CpuTypes
<1>6. ListTypes' /\ TaskTypes'
  BY <1>0, <1>1, <1>4 DEF ListTypes, TaskTypes
<1>7. ThreadTypes(Places)'
  BY <1>0, <1>1, PlaceFacts, GotoTypes
<1>8. HeapTypes'
  BY <1>0, <1>1, HeapTypesKept
<1>9. MutexTypeOK'
  BY <1>0, <1>1, <1>4 DEF MutexTypeOK
<1> QED  BY <1>3, <1>5, <1>6, <1>7, <1>8, <1>9 DEF MutexTypes, KernelTypes

LEMMA MutexNextTypes ==
  ASSUME Api \subseteq TimingCalls, MutexTypes, ~created, UNCHANGED created, MutexNext
  PROVE  MutexTypes'
<1>1. ASSUME NEW t \in Prio, MutexCall(t) \/ MutexProceeds(t) PROVE MutexTypes'
  <2>1. CASE MutexCreate(t) \/ MutexDelete(t)
    BY <2>1, MutexHeapTypes
  <2>2. CASE TakeFree(t) \/ TakeOwn(t) \/ Taken(t)
    BY <2>2, TakeAsideTypes
  <2> QED  BY <1>1, <2>1, <2>2, TakeBlocksTypes, TakeRaiseTypes, GiveTypes
           DEF MutexCall, MutexProceeds
<1>2. CASE /\ Interrupts \/ \E t \in Prio : Proceed(t) \/ (taskPrio[t] = t /\ Call(t))
           /\ UNCHANGED mutexVars
  <2>1. KernelTypes' /\ ThreadTypes(Places)' /\ UNCHANGED taskVars
    BY <1>2, PlacesOK, TasksTypes DEF MutexTypes
  <2>2. UNCHANGED <<mutex, mutexOwner, mutexTaken, taskPrio, holders>>
    BY <1>2 DEF mutexVars
  <2>3. HeapTypes' /\ MutexTypeOK'
    BY <2>1, <2>2, HeapTypesKept DEF MutexTypes, MutexTypeOK
  <2> QED  BY <2>1, <2>3 DEF MutexTypes
<1> QED  BY <1>1, <1>2 DEF MutexNext, MutexStep

\* Every step of either application.
LEMMA TypeInvNext ==
  ASSUME Api \subseteq TimingCalls, TypeInv, [ObjectsNext]_objectsAll
  PROVE  TypeInv'
<1>0. QueueTypes /\ MutexTypes /\ WordTypes
  BY DEF TypeInv, QueueTypes, MutexTypes, WordTypes
<1>1. CASE object = "queue" /\ InsertNext /\ UNCHANGED mutexVars /\ UNCHANGED object
  <2>1. ~mutex /\ ~mutex'
    BY <1>1 DEF TypeInv, mutexVars
  <2>2. QueueTypes' /\ WordTypes'
    BY <1>0, <1>1, <2>1, InsertNextTypes
  <2>3. MutexTypeOK'
    BY <1>1 DEF TypeInv, MutexTypeOK, mutexVars
  <2> QED  BY <1>1, <2>1, <2>2, <2>3 DEF TypeInv, QueueTypes, WordTypes
<1>2. CASE object = "mutex" /\ MutexNext /\ UNCHANGED <<queueVars, word>> /\ UNCHANGED object
  <2>1. ~created /\ UNCHANGED <<created, option, request, index>> /\ UNCHANGED ring
    BY <1>2 DEF TypeInv, queueVars, locals
  <2>2. MutexTypes'
    BY <1>0, <1>2, <2>1, MutexNextTypes
  <2>3. QueueTypeOK'
    BY <1>0, <2>1, QueueTypesParts, RequestKept, RingTypesKept, QueueTypesNext DEF QueueTypes
  <2> QED  BY <1>2, <2>1, <2>2, <2>3 DEF TypeInv, MutexTypes
<1>3. CASE UNCHANGED objectsAll
  <2>1. UNCHANGED <<lists, objects, cpu, threads, arg, taskVars>>
    BY <1>3 DEF objectsAll, insertVars, vars, kernelVars
  <2>2. UNCHANGED <<created, option, request, index, word, object>> /\ UNCHANGED ring
        /\ UNCHANGED <<mutex, mutexOwner, mutexTaken, taskPrio, holders>>
    BY <1>3 DEF objectsAll, insertVars, queueVars, locals, mutexVars
  <2>3. KernelTypes' /\ ThreadTypes(Places)' /\ HeapTypes'
    BY <1>0, <2>1, <2>2, SameTypes, SameThreads, HeapTypesKept DEF QueueTypes
  <2>4. QueueTypeOK'
    BY <1>0, <2>2, QueueTypesParts, RequestKept, RingTypesKept, QueueTypesNext DEF QueueTypes
  <2>5. MutexTypeOK'
    BY <1>0, <2>2 DEF MutexTypes, MutexTypeOK
  <2> QED  BY <2>2, <2>3, <2>4, <2>5 DEF TypeInv
<1> QED  BY <1>1, <1>2, <1>3 DEF ObjectsNext

\* The types of an application with a queue or a mutex: whatever its calls do
\* where they cannot go on, the insert that writes the lists unprotected and
\* the remove that goes on without a message included, an index into a list,
\* the table of tasks or the heap's count stays in its range; so it does over
\* handovers of a mutex whose wait list names nobody.
THEOREM ObjectsTypeCorrect ==
  Api \subseteq TimingCalls => (ObjectsSpec => []ObjectsTypeOK)
<1> SUFFICES ASSUME Api \subseteq TimingCalls PROVE ObjectsSpec => []ObjectsTypeOK
  OBVIOUS
<1>1. ObjectsInit => TypeInv
  BY TypeInvInit
<1>2. TypeInv /\ [ObjectsNext]_objectsAll => TypeInv'
  BY TypeInvNext
<1>3. TypeInv => ObjectsTypeOK
  BY TypeInvTypes
<1> QED  BY <1>1, <1>2, <1>3, PTL DEF ObjectsSpec
-----------------------------------------------------------------------------
(***************************************************************************)
(* The mutex, as long as no task strays. At most one task has a claim to   *)
(* it; whoever waits is in the wait list, and stays there after the mutex  *)
(* was handed over to it, until its own give.                              *)
(***************************************************************************)
\* The highest priority has no task of its own.
Tasks == Prio \ {MutexPrio}

Waits(p) == "PendMtx" \in taskStatus[p]
Raised(p) == taskPrio[p] = MutexPrio
Pends == waitList[TasksPending]

\* In the yield of a take, or behind it.
InTake(p) == \/ pc[p] = "taken"
             \/ pc[p] \in {"yield", "publish"} /\ after[p] = "taken"

\* It found the mutex free, was handed it, or has it.
Claims(p) == \/ p \in holders
             \/ pc[p] \in {"own", "raise"}
             \/ InTake(p) /\ ~Waits(p)

\* The threads on the processor are those of tasks.
RunnersPart == /\ \A p \in Tasks : tcbPtrTbl[p] \in {p, NULL}
               /\ mutexTCB \in Tasks \cup {NULL}
               /\ currentTask \in Tasks /\ highPrioTask \in Tasks

\* Who counts ticks sleeps, and waits for nothing else.
SleepPart == /\ Active \in SUBSET UserPrio /\ Backup \in SUBSET UserPrio
             /\ Active \cap Backup = {}
             /\ tick # "loop" => Backup = {}
             /\ halted = "no" /\ tick = "loop" => Active # {}
             /\ \A p \in Prio : Counting(p) => Sleeps(p) /\ ~Waits(p)

TakePart == \A t \in Prio : /\ after[t] \in {"run", "taken"}
                            /\ after[t] = "taken" => pc[t] \in {"yield", "publish"}

\* One claim, to a mutex that is taken; once it has stored the owner the
\* mutex is its own, and it is raised once that was done.
ClaimPart ==
    /\ holders \in SUBSET Tasks
    /\ \A p, q \in Tasks : Claims(p) /\ Claims(q) => p = q
    /\ \A p \in Tasks : Claims(p) =>
          /\ mutexTaken
          /\ pc[p] # "own" => mutexOwner = p
          /\ pc[p] \notin {"own", "raise"} => Raised(p) /\ mutexTCB = p
    /\ \A p, q \in Tasks : pc[p] \in {"own", "raise"} => ~Raised(q)

\* Who waits is in the wait list, under its own priority, or under that of the
\* mutex: a task that was handed the mutex without having asked for it, and
\* then waits for itself. Nobody has a claim any more then.
WaitPart ==
    /\ ~Waits(MutexPrio)
    /\ \A p \in Tasks : Waits(p) =>
          /\ mutexTaken /\ Pends.prioGrp
          /\ p \in Pends.prioTbl \/ MutexPrio \in Pends.prioTbl
    /\ Pends.prioGrp => Pends.prioTbl # {}
    /\ Pends.prioTbl \in SUBSET (UserPrio \cup {MutexPrio})
    /\ MutexPrio \in Pends.prioTbl => mutexTaken /\ \A p \in Tasks : ~Claims(p)

RaisedPart ==
    /\ mutexTaken => mutex
    /\ \A p \in Tasks : /\ taskPrio[p] \in {p, MutexPrio}
                        /\ Raised(p) => mutexTaken /\ p = mutexOwner /\ p = mutexTCB

MutexParts == /\ RunnersPart /\ SleepPart /\ TakePart
              /\ ClaimPart /\ WaitPart /\ RaisedPart

LEMMA TasksFacts ==
  /\ Tasks \in SUBSET Prio /\ UserPrio \in SUBSET Tasks /\ MutexPrio \notin Tasks
  /\ MutexPrio \notin UserPrio /\ NULL \notin Tasks /\ IdlePrio \notin UserPrio
  /\ \A p \in Prio : p # MutexPrio => p \in Tasks
  /\ \A p \in Tasks : p # IdlePrio => p \in UserPrio
BY SizeAssumption, PointerAssumption DEF Tasks, MutexPrio, UserPrio, Prio, IdlePrio

\* The thread that takes a step outside of its yields is one that nothing holds
\* back.
LEMMA MutexRunner ==
  ASSUME RunnersPart, SleepPart, ~Strays, NEW t \in Prio, Runs(t),
         pc[t] \notin {"yield", "publish"}
  PROVE  t \in Tasks /\ taskStatus[t] = {} /\ ~Waits(t) /\ ~Sleeps(t) /\ ~Counting(t)
<1>1. t \in Tasks /\ taskStatus[t] = {}
  BY DEF RunnersPart, Runs, Strays
<1>2. ~Waits(t) /\ ~Sleeps(t)
  BY <1>1 DEF Waits, Sleeps
<1> QED  BY <1>1, <1>2 DEF SleepPart

-----------------------------------------------------------------------------
(* The tasks' calls and the interrupts leave the mutex alone               *)

\* How they move a thread.
MutexMoves(p) ==
    Moves(p) \/ (pc[p] = "publish" /\ pc'[p] = "trapped" /\ after'[p] = "run")

\* A waiter leaves no list.
PendsStay == \/ Pends' = Pends
             \/ \E p \in Tasks : ~Waits(p) /\ Pends' = Delist(Pends, {p})

LEMMA ClaimsStay ==
  ASSUME TakePart, UNCHANGED mutexVars, UNCHANGED tcbPtrTbl,
         NEW p \in Prio, MutexMoves(p), Waits(p)' <=> Waits(p)
  PROVE  /\ Claims(p)' => Claims(p)
         /\ \A label \in {"own", "raise"} : pc'[p] = label <=> pc[p] = label
         /\ after'[p] \in {"run", "taken"}
         /\ after'[p] = "taken" => pc'[p] \in {"yield", "publish"}
<1>1. after[p] \in {"run", "taken"} /\ (after[p] = "taken" => pc[p] \in {"yield", "publish"})
  BY DEF TakePart
<1>2. /\ \A label \in {"own", "raise"} : pc'[p] = label <=> pc[p] = label
      /\ after'[p] \in {"run", "taken"}
      /\ after'[p] = "taken" => pc'[p] \in {"yield", "publish"}
  BY <1>1 DEF MutexMoves, Moves
<1>3. InTake(p)' => InTake(p)
  BY <1>1 DEF MutexMoves, Moves, InTake
<1> QED  BY <1>2, <1>3 DEF Claims, mutexVars

LEMMA OthersKeepMutex ==
  ASSUME MutexTypes, MutexParts, UNCHANGED mutexVars, UNCHANGED tcbPtrTbl,
         \A p \in Prio : MutexMoves(p) /\ (Waits(p)' <=> Waits(p)),
         PendsStay
  PROVE  TakePart' /\ ClaimPart' /\ WaitPart' /\ RaisedPart'
<1>0. RunnersPart /\ TakePart /\ ClaimPart /\ WaitPart /\ RaisedPart
  BY DEF MutexParts
<1>1. \A p \in Prio :
         /\ Claims(p)' => Claims(p)
         /\ \A label \in {"own", "raise"} : pc'[p] = label <=> pc[p] = label
         /\ after'[p] \in {"run", "taken"}
         /\ after'[p] = "taken" => pc'[p] \in {"yield", "publish"}
  BY <1>0, ClaimsStay
<1>2. /\ UNCHANGED <<mutex, mutexOwner, mutexTaken, taskPrio, holders>>
      /\ UNCHANGED mutexTCB /\ \A p : Raised(p)' <=> Raised(p)
  BY DEF mutexVars, mutexTCB, Raised
<1>3. TakePart'
  BY <1>1 DEF TakePart
<1>4. ClaimPart'
  BY <1>0, <1>1, <1>2, TasksFacts DEF ClaimPart
<1>5. RaisedPart'
  BY <1>0, <1>2 DEF RaisedPart
<1>6. /\ Pends'.prioTbl \in SUBSET Pends.prioTbl
      /\ Pends'.prioGrp => Pends'.prioTbl # {}
      /\ MutexPrio \in Pends'.prioTbl <=> MutexPrio \in Pends.prioTbl
      /\ \A q \in Tasks : Waits(q) => /\ Pends'.prioGrp
                                      /\ q \in Pends.prioTbl => q \in Pends'.prioTbl
  <2>1. CASE Pends' = Pends
    BY <1>0, <2>1 DEF WaitPart
  <2>2. ASSUME NEW p \in Tasks, ~Waits(p), Pends' = Delist(Pends, {p})
        PROVE  /\ Pends'.prioTbl \in SUBSET Pends.prioTbl
               /\ Pends'.prioGrp => Pends'.prioTbl # {}
               /\ MutexPrio \in Pends'.prioTbl <=> MutexPrio \in Pends.prioTbl
               /\ \A q \in Tasks : Waits(q) =>
                     Pends'.prioGrp /\ (q \in Pends.prioTbl => q \in Pends'.prioTbl)
    <3>1. /\ Pends'.prioTbl = Pends.prioTbl \ {p}
          /\ Pends'.prioGrp <=> Pends.prioGrp /\ Pends.prioTbl \ {p} # {}
      BY <2>2 DEF Delist
    <3>2. p # MutexPrio
      BY TasksFacts
    <3>3. ASSUME NEW q \in Tasks, Waits(q)
          PROVE  Pends'.prioGrp /\ (q \in Pends.prioTbl => q \in Pends'.prioTbl)
      <4>1. q # p /\ Pends.prioGrp /\ (q \in Pends.prioTbl \/ MutexPrio \in Pends.prioTbl)
        BY <1>0, <2>2, <3>3 DEF WaitPart
      <4> QED  BY <3>1, <3>2, <4>1
    <3> QED  BY <3>1, <3>2, <3>3
  <2> QED  BY <2>1, <2>2 DEF PendsStay
<1>7. WaitPart'
  <2>1. ~Waits(MutexPrio)'
    BY <1>0, MutexFacts DEF WaitPart
  <2>2. \A p \in Tasks : (Waits(p)' <=> Waits(p)) /\ (Claims(p)' => Claims(p))
    BY <1>1, TasksFacts
  <2> QED  BY <1>0, <1>2, <1>6, <2>1, <2>2 DEF WaitPart
<1> QED  BY <1>3, <1>4, <1>5, <1>7

\* Those who count go on as they were.
LEMMA SleepKept ==
  ASSUME SleepPart, halted = "no", UNCHANGED <<timerPendingList, activeList, tick>>,
         \A p \in Prio : Counting(p) => (Sleeps(p)' <=> Sleeps(p)) /\ (Waits(p)' => Waits(p))
  PROVE  SleepPart'
<1>1. /\ Active' = Active /\ Backup' = Backup
      /\ \A p \in Prio : Counting(p)' <=> Counting(p)
  BY DEF Active, Backup, Counting
<1> QED  BY <1>1 DEF SleepPart

LEMMA RunnersKept ==
  ASSUME RunnersPart, UNCHANGED <<tcbPtrTbl, currentTask, highPrioTask>>
  PROVE  RunnersPart'
BY DEF RunnersPart, mutexTCB

LEMMA MutexCounting ==
  ASSUME ListTypes, NEW p
  PROVE  Counting(p) <=> p \in Active \cup Backup
BY DEF ListTypes, Counting, Active, Backup

\* After a turn of the tick's loop that leaves these lists.
LEMMA TurnSleep ==
  ASSUME ListTypes, tick = "loop",
         NEW active \in SUBSET UserPrio, NEW backup \in SUBSET UserPrio,
         Turn(active, backup), active \cap backup = {},
         \A p \in active \cup backup : Sleeps(p)' /\ ~Waits(p)'
  PROVE  SleepPart'
<1>1. Highest(active) # 0 <=> active # {}
  <2>1. active \in SUBSET Prio /\ IdlePrio \notin active
    BY TasksFacts
  <2>2. active # {} => Highest(active) \in active
    BY <2>1, HighestPrio
  <2> QED  BY <2>1, <2>2 DEF Highest, IdlePrio
<1>2. /\ timerPendingList' = [timerPendingList EXCEPT ![activeList] = active,
                                                    ![1 - activeList] = backup]
      /\ timerPendingList \in [{0, 1} -> SUBSET Prio] /\ activeList \in {0, 1}
  BY DEF Turn, ListTypes
<1>3. /\ timerPendingList'[activeList] = active /\ timerPendingList'[1 - activeList] = backup
      /\ \A p : Counting(p)' <=> p \in active \cup backup
  <2>1. /\ timerPendingList'[activeList] = active /\ timerPendingList'[1 - activeList] = backup
    BY <1>2
  <2>2. timerPendingList'[0] \cup timerPendingList'[1] = active \cup backup
    BY <1>2, <2>1
  <2> QED  BY <2>1, <2>2 DEF Counting
<1>4. \/ active # {} /\ tick' = "loop" /\ Active' = active /\ Backup' = backup
      \/ active = {} /\ tick' = "out" /\ Active' = backup /\ Backup' = {}
  <2>1. CASE active # {}
    BY <1>1, <1>3, <2>1 DEF Turn, Active, Backup
  <2>2. CASE active = {}
    <3>1. activeList' = 1 - activeList /\ tick' = "out" /\ 1 - activeList' = activeList
      BY <1>1, <1>2, <2>2 DEF Turn
    <3> QED  BY <1>3, <2>2, <3>1 DEF Active, Backup
  <2> QED  BY <2>1, <2>2
<1> QED  BY <1>3, <1>4 DEF SleepPart

\* What every step of the tasks' calls and of the interrupts does.
LeavesMutex ==
    /\ UNCHANGED tcbPtrTbl
    /\ \A p \in Prio : MutexMoves(p) /\ (Waits(p)' <=> Waits(p))
    /\ PendsStay
    /\ RunnersPart' /\ SleepPart'

\* The entry the loop looks at.
LEMMA MutexEntry ==
  ASSUME MutexTypes, MutexParts, TickTask
  PROVE  \E i \in Active :
           /\ tick = "loop" /\ halted = "no" /\ i \in UserPrio /\ i \in Tasks /\ i \in Prio
           /\ Sleeps(i) /\ ~Waits(i) /\ i \notin Backup
           /\ \/ tcbPtrTbl[i] = i /\ (TickExpire(i) \/ TickForget(i) \/ TickKeep(i))
              \/ TickFault(i)
<1> DEFINE i == Highest(Active)
<1>1. /\ tick = "loop" /\ halted = "no"
      /\ TickExpire(i) \/ TickForget(i) \/ TickKeep(i) \/ TickFault(i)
  BY DEF TickTask
<1>2. SleepPart /\ RunnersPart /\ ListTypes
  BY DEF MutexParts, MutexTypes, KernelTypes
<1>3. Active # {} /\ Active \in SUBSET UserPrio /\ Active \in SUBSET Prio
  BY <1>1, <1>2, TasksFacts DEF SleepPart
<1>4. i \in Active
  BY <1>3, HighestPrio
<1> HIDE DEF i
<1>5. i \in UserPrio /\ i \in Tasks /\ i \in Prio
  BY <1>3, <1>4, TasksFacts
<1>6. Sleeps(i) /\ ~Waits(i) /\ i \notin Backup
  BY <1>2, <1>4, <1>5, MutexCounting DEF SleepPart
<1>7. tcbPtrTbl[i] \in {i, NULL}
  BY <1>2, <1>5 DEF RunnersPart
<1>8. TickExpire(i) \/ TickForget(i) \/ TickKeep(i) => tcbPtrTbl[i] = i
  BY <1>7 DEF TickExpire, TickForget, TickKeep
<1> QED  BY <1>1, <1>4, <1>5, <1>6, <1>8

LEMMA SameMoves ==
  ASSUME UNCHANGED threads
  PROVE  \A p \in Prio : MutexMoves(p)
BY DEF threads, MutexMoves, Moves

LEMMA TickTaskMutex ==
  ASSUME MutexTypes, MutexParts, TickTask
  PROVE  LeavesMutex
<1>1. PICK i \in Active :
           /\ tick = "loop" /\ halted = "no" /\ i \in UserPrio /\ i \in Tasks /\ i \in Prio
           /\ Sleeps(i) /\ ~Waits(i) /\ i \notin Backup
           /\ \/ tcbPtrTbl[i] = i /\ (TickExpire(i) \/ TickForget(i) \/ TickKeep(i))
              \/ TickFault(i)
  BY MutexEntry
<1>2. /\ ListTypes /\ taskStatus \in [Prio -> SUBSET Status]
      /\ waitList \in [List -> [prioGrp : BOOLEAN, prioTbl : SUBSET Prio]]
      /\ RunnersPart /\ SleepPart
  BY DEF MutexTypes, KernelTypes, TaskTypes, WaitTypes, MutexParts
<1>3. /\ UNCHANGED <<tcbPtrTbl, currentTask, highPrioTask>> /\ UNCHANGED threads
      /\ RunnersPart' /\ \A p \in Prio : MutexMoves(p)
  BY <1>2, RunnersKept, SameMoves DEF TickTask
<1>4. /\ Active \in SUBSET UserPrio /\ Backup \in SUBSET UserPrio /\ Active \cap Backup = {}
      /\ \A p \in Active \cup Backup : Sleeps(p) /\ ~Waits(p)
  BY <1>2, TasksFacts, MutexCounting DEF SleepPart
<1>5. CASE tcbPtrTbl[i] = i /\ TickExpire(i)
  <2>1. /\ taskStatus' = [taskStatus EXCEPT ![i] = {}]
        /\ Turn(Active \ {i}, Backup)
        /\ \E stray \in List \cup {NULL} : LeaveWaitLists(i, stray)
    BY <1>5 DEF TickExpire
  <2>2. /\ \A p \in Prio : p # i => taskStatus'[p] = taskStatus[p]
        /\ taskStatus'[i] = {}
    BY <1>1, <1>2, <2>1
  <2>3. \A p \in Prio : Waits(p)' <=> Waits(p)
    BY <1>1, <2>2 DEF Waits
  <2>4. Pends' = Pends \/ Pends' = Delist(Pends, {i})
    BY <2>1, MutexFacts DEF LeaveWaitLists, Pends
  <2>5. \A p \in (Active \ {i}) \cup Backup : Sleeps(p)' /\ ~Waits(p)'
    BY <1>1, <1>4, <2>2, TasksFacts DEF Sleeps, Waits
  <2>6. SleepPart'
    BY <1>1, <1>2, <1>4, <2>1, <2>5, TurnSleep
  <2> QED  BY <1>1, <1>3, <2>3, <2>4, <2>6 DEF LeavesMutex, PendsStay
<1>6. CASE tcbPtrTbl[i] = i /\ (TickForget(i) \/ TickKeep(i))
  <2>1. /\ UNCHANGED <<taskStatus, waitList>>
        /\ Turn(Active \ {i}, Backup) \/ Turn(Active \ {i}, Backup \cup {i})
    BY <1>6 DEF TickForget, TickKeep
  <2>2. PICK backup \in {Backup, Backup \cup {i}} : Turn(Active \ {i}, backup)
    BY <2>1
  <2>3. /\ \A p \in Prio : (Waits(p)' <=> Waits(p)) /\ (Sleeps(p)' <=> Sleeps(p))
        /\ Pends' = Pends
    BY <2>1 DEF Waits, Sleeps, Pends
  <2>4. \A p \in (Active \ {i}) \cup backup : Sleeps(p)' /\ ~Waits(p)'
    BY <1>1, <1>4, <2>1, <2>2 DEF Sleeps, Waits
  <2>5. /\ Active \ {i} \in SUBSET UserPrio /\ backup \in SUBSET UserPrio
        /\ (Active \ {i}) \cap backup = {}
    BY <1>1, <1>4, <2>2
  <2>6. SleepPart'
    BY <1>1, <1>2, <2>2, <2>4, <2>5, TurnSleep
  <2> QED  BY <1>3, <2>3, <2>6 DEF LeavesMutex, PendsStay
<1>7. CASE TickFault(i)
  <2>1. /\ halted' # "no" /\ UNCHANGED <<activeList, taskStatus, waitList, tick>>
        /\ timerPendingList' = [timerPendingList EXCEPT ![activeList] = @ \ {i}]
    BY <1>7 DEF TickFault, tcb
  <2>2. /\ \A p \in Prio : (Waits(p)' <=> Waits(p)) /\ (Sleeps(p)' <=> Sleeps(p))
        /\ Pends' = Pends
    BY <2>1 DEF Waits, Sleeps, Pends
  <2>3. /\ Active' = Active \ {i} /\ Backup' = Backup
        /\ \A p : Counting(p)' => Counting(p)
    BY <1>2, <2>1 DEF ListTypes, Active, Backup, Counting
  <2>4. SleepPart'
    BY <1>2, <2>1, <2>2, <2>3 DEF SleepPart
  <2> QED  BY <1>3, <2>2, <2>4 DEF LeavesMutex, PendsStay
<1> QED  BY <1>1, <1>5, <1>6, <1>7

\* Steps that leave the tasks' status and the wait lists alone.
LEMMA AsideMutex ==
  ASSUME UNCHANGED <<tcbPtrTbl, taskStatus, waitList>>, \A p \in Prio : MutexMoves(p),
         RunnersPart', SleepPart'
  PROVE  LeavesMutex
BY DEF LeavesMutex, PendsStay, Waits, Pends

\* What the table of tasks holds is a task.
LEMMA PublishRuns ==
  ASSUME RunnersPart, UNCHANGED <<tcbPtrTbl, currentTask>>, NEW prio \in Prio,
         tcbPtrTbl[prio] # NULL, highPrioTask' = tcbPtrTbl[prio]
  PROVE  RunnersPart'
<1>1. tcbPtrTbl[prio] \in Tasks
  BY TasksFacts DEF RunnersPart, mutexTCB
<1> QED  BY <1>1 DEF RunnersPart, mutexTCB

LEMMA InterruptMutex ==
  ASSUME MutexTypes, MutexParts, Interrupt
  PROVE  LeavesMutex
<1>0. ListTypes /\ CpuTypes /\ RunnersPart /\ SleepPart
  BY DEF MutexTypes, KernelTypes, MutexParts
<1>1. CASE TickTask
  BY <1>1, TickTaskMutex
<1>2. CASE TickEnter
  <2>1. /\ UNCHANGED <<tcbPtrTbl, taskStatus, waitList, timerPendingList, activeList>>
        /\ UNCHANGED <<currentTask, highPrioTask>> /\ UNCHANGED threads
        /\ tick = "off" /\ (tick' = "loop" => Highest(Active) # 0)
    BY <1>2 DEF TickEnter, lists, objects, tcb
  <2>2. /\ Active' = Active /\ Backup' = Backup
        /\ \A p : (Counting(p)' <=> Counting(p)) /\ (Sleeps(p)' <=> Sleeps(p))
                  /\ (Waits(p)' <=> Waits(p))
    BY <2>1 DEF Active, Backup, Counting, Sleeps, Waits
  <2>3. tick' = "loop" => Active # {}
    BY <2>1 DEF Highest
  <2>4. SleepPart'
    BY <1>0, <2>1, <2>2, <2>3 DEF SleepPart
  <2> QED  BY <1>0, <2>1, <2>4, RunnersKept, SameMoves, AsideMutex
<1>3. CASE TickOut
  <2>1. /\ UNCHANGED <<tcbPtrTbl, taskStatus, waitList, timerPendingList, activeList>>
        /\ UNCHANGED currentTask /\ UNCHANGED threads
        /\ tick = "out" /\ tick' = "off" /\ halted = "no"
    BY <1>3 DEF TickOut, lists, objects, tcb
  <2>2. /\ Active' = Active /\ Backup' = Backup
        /\ \A p : (Counting(p)' <=> Counting(p)) /\ (Sleeps(p)' <=> Sleeps(p))
                  /\ (Waits(p)' <=> Waits(p))
    BY <2>1 DEF Active, Backup, Counting, Sleeps, Waits
  <2>3. SleepPart'
    BY <1>0, <2>1, <2>2 DEF SleepPart
  <2>4. RunnersPart'
    <3>1. Highest(taskPrioList) \in Prio
      BY <1>0, HighestPrio DEF ListTypes
    <3>2. UNCHANGED highPrioTask
          \/ (tcbPtrTbl[Highest(taskPrioList)] # NULL
              /\ highPrioTask' = tcbPtrTbl[Highest(taskPrioList)])
      BY <1>3 DEF TickOut, Publish
    <3> QED  BY <1>0, <2>1, <3>1, <3>2, RunnersKept, PublishRuns
  <2> QED  BY <2>1, <2>3, <2>4, SameMoves, AsideMutex
<1>4. CASE PendSV
  <2>1. /\ UNCHANGED <<tcbPtrTbl, taskStatus, waitList, timerPendingList, activeList>>
        /\ UNCHANGED <<highPrioTask, tick>> /\ UNCHANGED threads
        /\ currentTask' = highPrioTask /\ halted = "no"
    BY <1>4 DEF PendSV, lists, objects, tcb
  <2>2. RunnersPart'
    BY <1>0, <2>1 DEF RunnersPart, mutexTCB
  <2>3. SleepPart'
    BY <1>0, <2>1, SleepKept DEF Sleeps, Waits
  <2> QED  BY <2>1, <2>2, <2>3, SameMoves, AsideMutex
<1> QED  BY <1>1, <1>2, <1>3, <1>4 DEF Interrupt

LEMMA YieldMutex ==
  ASSUME MutexTypes, MutexParts, NEW t \in Prio, Yield(t)
  PROVE  LeavesMutex
<1>0. /\ CpuTypes /\ RunnersPart /\ SleepPart
      /\ pc \in [Prio -> Places] /\ after \in [Prio -> Places] /\ yieldPrio \in [Prio -> Prio]
  BY DEF MutexTypes, KernelTypes, MutexParts, ThreadTypes
<1>1. /\ UNCHANGED <<tcbPtrTbl, taskStatus, waitList, timerPendingList, activeList>>
      /\ UNCHANGED <<currentTask, tick>> /\ Runs(t) /\ halted = "no" /\ tick = "off"
  BY DEF Yield, YieldFind, YieldPublish, At, Runs, lists, objects, tcb, cpu
<1>2. SleepPart'
  BY <1>0, <1>1, SleepKept DEF Sleeps, Waits
<1>3. CASE YieldFind(t)
  <2>1. /\ pc[t] = "yield" /\ irqCounter = 0 /\ UNCHANGED <<after, highPrioTask>>
    BY <1>0, <1>1, <1>3 DEF YieldFind, At, CpuTypes, cpu
  <2>2. pc' = [pc EXCEPT ![t] = "publish"]
    BY <1>3, <2>1 DEF YieldFind, Goto
  <2>3. \A p \in Prio : MutexMoves(p)
    BY <1>0, <2>1, <2>2 DEF MutexMoves, Moves
  <2> QED  BY <1>0, <1>1, <1>2, <2>1, <2>3, RunnersKept, AsideMutex
<1>4. CASE YieldPublish(t)
  <2>1. /\ pc[t] = "publish" /\ after' = [after EXCEPT ![t] = "run"]
        /\ \/ Goto(t, "trapped") /\ UNCHANGED highPrioTask
           \/ /\ tcbPtrTbl[yieldPrio[t]] # NULL /\ Goto(t, after[t])
              /\ highPrioTask' = tcbPtrTbl[yieldPrio[t]]
    BY <1>4 DEF YieldPublish, At, Publish
  <2>2. RunnersPart'
    BY <1>0, <1>1, <2>1, RunnersKept, PublishRuns
  <2>3. PICK label \in {"trapped", after[t]} : pc' = [pc EXCEPT ![t] = label]
    BY <2>1 DEF Goto
  <2>4. \A p \in Prio : MutexMoves(p)
    BY <1>0, <2>1, <2>3 DEF MutexMoves, Moves
  <2> QED  BY <1>1, <1>2, <2>2, <2>4, AsideMutex
<1> QED  BY <1>3, <1>4 DEF Yield

\* A thread leaves a call, or enters the critical section of one.
LEMMA CallMoves ==
  ASSUME ThreadTypes(Places), NEW t \in Prio, pc[t] \in {"run", "suspend", "resume"},
         NEW label \in {"suspend", "resume", "yield"}, Goto(t, label), UNCHANGED after
  PROVE  \A p \in Prio : MutexMoves(p)
BY DEF ThreadTypes, Goto, MutexMoves, Moves

LEMMA SuspendResumeMutex ==
  ASSUME MutexTypes, MutexParts, NEW t \in Prio, SuspendTask(t) \/ ResumeTask(t)
  PROVE  LeavesMutex
<1>0. /\ RunnersPart /\ SleepPart /\ ThreadTypes(Places)
      /\ taskStatus \in [Prio -> SUBSET Status] /\ arg[t] \in Prio
  BY DEF MutexTypes, KernelTypes, TaskTypes, MutexParts, ThreadTypes
<1>1. /\ pc[t] \in {"suspend", "resume"} /\ Goto(t, "yield") /\ UNCHANGED after
      /\ halted = "no" /\ UNCHANGED <<tcbPtrTbl, currentTask, highPrioTask, waitList>>
      /\ UNCHANGED <<timerPendingList, activeList, tick>>
  BY DEF SuspendTask, ResumeTask, At, Runs, Leave
<1>2. \/ UNCHANGED taskStatus
      \/ taskStatus' = [taskStatus EXCEPT ![arg[t]] = @ \cup {"Suspend"}]
      \/ taskStatus' = [taskStatus EXCEPT ![arg[t]] = @ \ {"Suspend"}]
  BY DEF SuspendTask, ResumeTask
<1>3. \A p \in Prio : (Waits(p)' <=> Waits(p)) /\ (Sleeps(p)' <=> Sleeps(p))
  BY <1>0, <1>2 DEF Waits, Sleeps
<1>4. \A p \in Prio : MutexMoves(p)
  BY <1>0, <1>1, CallMoves
<1>5. RunnersPart' /\ SleepPart'
  BY <1>0, <1>1, <1>3, RunnersKept, SleepKept
<1>6. Pends' = Pends
  BY <1>1 DEF Pends
<1> QED  BY <1>1, <1>3, <1>4, <1>5, <1>6 DEF LeavesMutex, PendsStay

LEMMA DelayMutex ==
  ASSUME MutexTypes, MutexParts, ~Strays, NEW t \in Prio, NEW ticks, Delay(t, ticks)
  PROVE  LeavesMutex
<1>0. /\ RunnersPart /\ SleepPart /\ ThreadTypes(Places) /\ ListTypes
      /\ taskStatus \in [Prio -> SUBSET Status]
  BY DEF MutexTypes, KernelTypes, TaskTypes, MutexParts
<1>1. /\ pc[t] = "run" /\ Runs(t) /\ t # IdlePrio /\ Goto(t, "yield") /\ UNCHANGED after
      /\ UNCHANGED <<tcbPtrTbl, currentTask, highPrioTask, waitList, activeList, tick, halted>>
      /\ taskStatus' = [taskStatus EXCEPT ![t] = @ \cup {"PendDelay"}]
      /\ timerPendingList' = [timerPendingList EXCEPT ![activeList] = @ \cup {t}]
  BY DEF Delay, Calls, At, Leave, cpu
<1>2. t \in UserPrio /\ ~Waits(t) /\ tick = "off" /\ halted = "no"
  BY <1>0, <1>1, MutexRunner, TasksFacts DEF Runs
<1>3. \A p \in Prio : (Waits(p)' <=> Waits(p)) /\ (Sleeps(p)' <=> Sleeps(p) \/ p = t)
  BY <1>0, <1>1 DEF Waits, Sleeps
<1>4. \A p \in Prio : MutexMoves(p)
  BY <1>0, <1>1, CallMoves
<1>5. /\ Active' = Active \cup {t} /\ Backup' = Backup
      /\ \A p : Counting(p)' <=> Counting(p) \/ p = t
  BY <1>0, <1>1 DEF ListTypes, Active, Backup, Counting
<1>6. SleepPart'
  BY <1>0, <1>1, <1>2, <1>3, <1>5 DEF SleepPart
<1>7. Pends' = Pends
  BY <1>1 DEF Pends
<1> QED  BY <1>0, <1>1, <1>3, <1>4, <1>6, <1>7, RunnersKept DEF LeavesMutex, PendsStay

LEMMA CheckMutex ==
  ASSUME MutexTypes, MutexParts, NEW t \in Prio, NEW p, SuspendCheck(t, p) \/ ResumeCheck(t, p)
  PROVE  LeavesMutex
<1>0. RunnersPart /\ SleepPart /\ ThreadTypes(Places)
  BY DEF MutexTypes, MutexParts
<1>1. PICK label \in {"suspend", "resume"} : Goto(t, label)
  BY DEF SuspendCheck, ResumeCheck, Enter
<1>2. /\ pc[t] = "run" /\ halted = "no" /\ UNCHANGED after
      /\ UNCHANGED <<tcbPtrTbl, taskStatus, waitList, timerPendingList, activeList>>
      /\ UNCHANGED <<currentTask, highPrioTask, tick>>
  BY DEF SuspendCheck, ResumeCheck, Calls, At, Runs, lists, objects, tcb, cpu
<1>3. \A q \in Prio : MutexMoves(q)
  BY <1>0, <1>1, <1>2, CallMoves
<1>4. RunnersPart' /\ SleepPart'
  BY <1>0, <1>2, RunnersKept, SleepKept DEF Sleeps, Waits
<1> QED  BY <1>2, <1>3, <1>4, AsideMutex

LEMMA TasksLeaveMutex ==
  ASSUME Api \subseteq TimingCalls, MutexTypes, MutexParts, ~Strays, UNCHANGED mutexVars,
         Interrupts \/ \E t \in Prio : Proceed(t) \/ Call(t)
  PROVE  MutexParts'
<1>1. LeavesMutex
  <2>1. CASE Interrupts
    BY <2>1, InterruptMutex DEF Interrupts
  <2>2. ASSUME NEW t \in Prio, Proceed(t) PROVE LeavesMutex
    <3>1. pc[t] \notin {"create", "delete"}
      BY PlacesOK DEF MutexTypes, ThreadTypes, TypesLabels
    <3>2. Yield(t) \/ SuspendTask(t) \/ ResumeTask(t)
      BY <2>2, <3>1 DEF Proceed, CreateRefused, CreateTask, DeleteTask, At
    <3> QED  BY <3>2, YieldMutex, SuspendResumeMutex
  <2>3. ASSUME NEW t \in Prio, Call(t) PROVE LeavesMutex
    <3>1. \/ \E ticks : Delay(t, ticks)
          \/ \E p : SuspendCheck(t, p) \/ ResumeCheck(t, p)
      BY <2>3
      DEF Call, Calls, TimingCalls, CreateAlloc, DeleteCheck, CreateOutOfMemory, Return
    <3> QED  BY <3>1, DelayMutex, CheckMutex
  <2> QED  BY <2>1, <2>2, <2>3
<1> QED  BY <1>1, OthersKeepMutex DEF LeavesMutex, MutexParts
-----------------------------------------------------------------------------
(* The mutex's own calls                                                   *)

\* What a step of one thread does to the others.
Elsewhere(t) == \A p \in Prio : p # t =>
    /\ pc'[p] = pc[p] /\ after'[p] = after[p]
    /\ Waits(p)' <=> Waits(p)
    /\ p \in holders' <=> p \in holders

LEMMA ElsewhereClaims ==
  ASSUME NEW t, Elsewhere(t)
  PROVE  \A p \in Tasks : p # t => (Claims(p)' <=> Claims(p)) /\ pc'[p] = pc[p]
BY TasksFacts DEF Elsewhere, Claims, InTake

\* Where it moves to, and where it goes on after a yield.
LEMMA TakePartGoes ==
  ASSUME ThreadTypes(Places), TakePart, NEW t \in Prio, NEW label, Goto(t, label),
         \/ UNCHANGED after /\ (after[t] = "run" \/ label = "yield")
         \/ label = "yield" /\ after' = [after EXCEPT ![t] = "taken"]
  PROVE  TakePart' /\ pc'[t] = label /\ \A p \in Prio : p # t => /\ pc'[p] = pc[p]
                                                                 /\ after'[p] = after[p]
BY DEF ThreadTypes, Goto, TakePart

\* Tasks that count ticks are not the one that makes the call.
LEMMA CallSleeps ==
  ASSUME SleepPart, halted = "no", UNCHANGED <<timerPendingList, activeList, tick>>,
         NEW t \in Prio, ~Counting(t),
         \A p \in Prio : p # t => (Sleeps(p)' <=> Sleeps(p)) /\ (Waits(p)' => Waits(p))
  PROVE  SleepPart'
<1>1. \A p \in Prio : Counting(p) => (Sleeps(p)' <=> Sleeps(p)) /\ (Waits(p)' => Waits(p))
  OBVIOUS
<1> QED  BY <1>1, SleepKept

\* The caller of a mutex.
LEMMA MutexCaller ==
  ASSUME MutexTypes, MutexParts, ~Strays, NEW t \in Prio, NEW label, At(t, label),
         label \notin {"yield", "publish"}
  PROVE  /\ t \in Tasks /\ taskStatus[t] = {} /\ ~Waits(t) /\ ~Counting(t)
         /\ halted = "no" /\ pc[t] = label /\ after[t] = "run"
         /\ RunnersPart /\ SleepPart /\ TakePart /\ ClaimPart /\ WaitPart /\ RaisedPart
         /\ ThreadTypes(Places) /\ taskStatus \in [Prio -> SUBSET Status]
<1>1. /\ RunnersPart /\ SleepPart /\ TakePart /\ ClaimPart /\ WaitPart /\ RaisedPart
      /\ ThreadTypes(Places) /\ taskStatus \in [Prio -> SUBSET Status]
  BY DEF MutexParts, MutexTypes, KernelTypes, TaskTypes
<1>2. Runs(t) /\ pc[t] = label /\ halted = "no"
  BY DEF At, Runs
<1>3. t \in Tasks /\ taskStatus[t] = {} /\ ~Waits(t) /\ ~Counting(t)
  BY <1>1, <1>2, MutexRunner
<1>4. after[t] = "run"
  BY <1>1, <1>2 DEF TakePart
<1> QED  BY <1>1, <1>2, <1>3, <1>4

\* Nobody has anything to do with a free mutex.
LEMMA FreeMutex ==
  ASSUME ClaimPart, WaitPart, RaisedPart, ~mutexTaken
  PROVE  /\ \A p \in Tasks : ~Claims(p) /\ ~Waits(p) /\ ~Raised(p) /\ taskPrio[p] = p
         /\ \A p \in Prio : ~Waits(p)
         /\ MutexPrio \notin Pends.prioTbl
<1>1. \A p \in Tasks : ~Claims(p) /\ ~Waits(p) /\ ~Raised(p)
  BY DEF ClaimPart, WaitPart, RaisedPart
<1>2. ~Waits(MutexPrio) /\ MutexPrio \notin Pends.prioTbl
  BY DEF WaitPart
<1>3. \A p \in Tasks : taskPrio[p] = p
  BY <1>1 DEF RaisedPart, Raised
<1> QED  BY <1>1, <1>2, <1>3, TasksFacts

LEMMA MutexCreateDelete ==
  ASSUME MutexTypes, MutexParts, ~Strays, NEW t \in Prio, MutexCreate(t) \/ MutexDelete(t)
  PROVE  MutexParts'
<1>1. /\ At(t, "run") /\ ~mutexTaken /\ mutexTaken' = FALSE
      /\ UNCHANGED <<taskPrio, holders, taskStatus, tcbPtrTbl>> /\ UNCHANGED <<pc, after>>
      /\ UNCHANGED <<timerPendingList, activeList, tick, halted, currentTask, highPrioTask>>
  BY DEF MutexParts, RaisedPart, MutexCreate, MutexDelete, MutexCalls, kernelVars, lists,
         objects, cpu, threads, tcb
<1>2. /\ RunnersPart /\ SleepPart /\ TakePart /\ ClaimPart /\ WaitPart /\ RaisedPart
      /\ ~Counting(t) /\ halted = "no"
  BY <1>1, MutexCaller
<1>3. RunnersPart'
  BY <1>1, <1>2, RunnersKept
<1>4. SleepPart'
  BY <1>1, <1>2, SleepKept DEF Sleeps, Waits
<1>5. TakePart'
  BY <1>1, <1>2 DEF TakePart
<1>6. \A p : /\ Claims(p)' <=> Claims(p)
             /\ Waits(p)' <=> Waits(p)
             /\ Raised(p)' <=> Raised(p)
  BY <1>1 DEF Claims, InTake, Waits, Raised
<1>7. ClaimPart'
  BY <1>1, <1>2, <1>6, FreeMutex DEF ClaimPart
<1>8. RaisedPart'
  BY <1>1, <1>2, <1>6, FreeMutex DEF RaisedPart
<1>9. /\ Pends'.prioTbl \in SUBSET UserPrio
      /\ Pends'.prioGrp => Pends'.prioTbl # {}
  <2>1. CASE MutexCreate(t)
    <3>1. \E raw \in SUBSET UserPrio :
             waitList' = [waitList EXCEPT ![TasksPending] = [prioGrp |-> FALSE, prioTbl |-> raw]]
      BY <2>1 DEF MutexCreate
    <3>2. \E raw \in SUBSET UserPrio : Pends' = [prioGrp |-> FALSE, prioTbl |-> raw]
      BY <3>1, MutexFacts DEF MutexTypes, KernelTypes, WaitTypes, Pends
    <3> QED  BY <3>2
  <2>2. CASE MutexDelete(t)
    <3>1. Pends' = Pends
      BY <2>2 DEF MutexDelete, kernelVars, objects, Pends
    <3> QED  BY <1>1, <1>2, <3>1, FreeMutex DEF WaitPart
  <2> QED  BY <2>1, <2>2
<1>10. WaitPart'
  <2>1. \A p \in Prio : ~Waits(p)
    BY <1>1, <1>2, FreeMutex
  <2>2. ~Waits(MutexPrio)' /\ \A p \in Tasks : ~Waits(p)'
    BY <1>6, <2>1, TasksFacts, MutexFacts
  <2> QED  BY <1>9, <2>2, TasksFacts DEF WaitPart
<1> QED  BY <1>3, <1>4, <1>5, <1>7, <1>8, <1>10 DEF MutexParts

LEMMA TakeFreeMutex ==
  ASSUME MutexTypes, MutexParts, ~Strays, NEW t \in Prio, TakeFree(t)
  PROVE  MutexParts'
<1>1. /\ At(t, "run") /\ mutex /\ ~mutexTaken /\ mutexTaken' = TRUE /\ Goto(t, "own")
      /\ UNCHANGED <<taskPrio, holders, taskStatus, tcbPtrTbl, waitList>>
      /\ UNCHANGED after /\ UNCHANGED mutex
      /\ UNCHANGED <<timerPendingList, activeList, tick, halted, currentTask, highPrioTask>>
  BY DEF TakeFree, MutexCalls, lists, objects, cpu, tcb
<1>2. /\ RunnersPart /\ SleepPart /\ TakePart /\ ClaimPart /\ WaitPart /\ RaisedPart
      /\ ThreadTypes(Places) /\ t \in Tasks /\ after[t] = "run" /\ halted = "no"
  BY <1>1, MutexCaller
<1>3. RunnersPart'
  BY <1>1, <1>2, RunnersKept
<1>4. SleepPart'
  BY <1>1, <1>2, SleepKept DEF Sleeps, Waits
<1>5. /\ TakePart' /\ pc'[t] = "own"
      /\ \A p \in Prio : p # t => pc'[p] = pc[p] /\ after'[p] = after[p]
  BY <1>1, <1>2, TakePartGoes
<1>6. /\ \A p : (Waits(p)' <=> Waits(p)) /\ (Raised(p)' <=> Raised(p))
      /\ Pends' = Pends
  BY <1>1 DEF Waits, Raised, Pends
<1>7. \A p \in Tasks : p # t => ~Claims(p)' /\ pc'[p] \notin {"own", "raise"}
  <2>1. Elsewhere(t)
    BY <1>1, <1>5, <1>6 DEF Elsewhere
  <2>2. \A p \in Tasks : p # t => ~Claims(p)'
    BY <1>1, <1>2, <2>1, ElsewhereClaims, FreeMutex
  <2> QED  BY <2>2 DEF Claims
<1>8. ClaimPart'
  BY <1>1, <1>2, <1>5, <1>6, <1>7, FreeMutex DEF ClaimPart
<1>9. WaitPart'
  BY <1>1, <1>2, <1>6, FreeMutex, TasksFacts, MutexFacts DEF WaitPart
<1>10. RaisedPart'
  BY <1>1, <1>2, <1>6, FreeMutex DEF RaisedPart
<1> QED  BY <1>3, <1>4, <1>5, <1>8, <1>9, <1>10 DEF MutexParts

\* The owner is stored: so far nobody is raised.
LEMMA TakeOwnMutex ==
  ASSUME MutexTypes, MutexParts, ~Strays, NEW t \in Prio, TakeOwn(t)
  PROVE  MutexParts'
<1>1. /\ At(t, "own") /\ mutexOwner' = taskPrio[t] /\ Goto(t, "raise")
      /\ UNCHANGED <<taskPrio, holders, taskStatus, tcbPtrTbl, waitList>>
      /\ UNCHANGED after /\ UNCHANGED <<mutex, mutexTaken>>
      /\ UNCHANGED <<timerPendingList, activeList, tick, halted, currentTask, highPrioTask>>
  BY DEF TakeOwn, lists, objects, cpu, tcb
<1>2. /\ RunnersPart /\ SleepPart /\ TakePart /\ ClaimPart /\ WaitPart /\ RaisedPart
      /\ ThreadTypes(Places) /\ t \in Tasks /\ after[t] = "run" /\ halted = "no"
      /\ pc[t] = "own"
  BY <1>1, MutexCaller
<1>3. /\ Claims(t) /\ mutexTaken /\ \A p \in Tasks : ~Raised(p)
      /\ \A p \in Tasks : Claims(p) => p = t
  <2>1. Claims(t)
    BY <1>2 DEF Claims
  <2> QED  BY <1>2, <2>1 DEF ClaimPart
<1>4. mutexOwner' = t
  BY <1>1, <1>2, <1>3 DEF RaisedPart, Raised
<1>5. RunnersPart' /\ SleepPart'
  BY <1>1, <1>2, RunnersKept, SleepKept DEF Sleeps, Waits
<1>6. /\ TakePart' /\ pc'[t] = "raise"
      /\ \A p \in Prio : p # t => pc'[p] = pc[p] /\ after'[p] = after[p]
  BY <1>1, <1>2, TakePartGoes
<1>7. /\ \A p : (Waits(p)' <=> Waits(p)) /\ (Raised(p)' <=> Raised(p))
      /\ Pends' = Pends
  BY <1>1 DEF Waits, Raised, Pends
<1>8. /\ \A p \in Tasks : p # t => ~Claims(p)'
      /\ \A p \in Tasks : Claims(p)' => Claims(p)
  <2>1. Elsewhere(t)
    BY <1>1, <1>6, <1>7 DEF Elsewhere
  <2> QED  BY <1>3, <2>1, ElsewhereClaims
<1>9. ClaimPart'
  BY <1>1, <1>2, <1>3, <1>4, <1>6, <1>7, <1>8 DEF ClaimPart
<1>10. WaitPart'
  BY <1>1, <1>2, <1>7, <1>8, MutexFacts DEF WaitPart
<1>11. RaisedPart'
  BY <1>1, <1>2, <1>3, <1>7 DEF RaisedPart
<1> QED  BY <1>5, <1>6, <1>9, <1>10, <1>11 DEF MutexParts

LEMMA TakeRaiseMutex ==
  ASSUME MutexTypes, MutexParts, ~Strays, NEW t \in Prio, TakeRaise(t)
  PROVE  MutexParts'
<1>1. /\ At(t, "raise") /\ Goto(t, "yield") /\ after' = [after EXCEPT ![t] = "taken"]
      /\ tcbPtrTbl' = [tcbPtrTbl EXCEPT ![MutexPrio] = t]
      /\ taskStatus' = [taskStatus EXCEPT ![t] = taskStatus[t] \ {"PendMtx"}]
      /\ taskPrio' = [taskPrio EXCEPT ![t] = MutexPrio]
      /\ UNCHANGED <<holders, waitList, mutex, mutexTaken, mutexOwner>>
      /\ UNCHANGED <<timerPendingList, activeList, tick, halted, currentTask, highPrioTask>>
  BY DEF TakeRaise, Raise, cpu
<1>2. /\ RunnersPart /\ SleepPart /\ TakePart /\ ClaimPart /\ WaitPart /\ RaisedPart
      /\ ThreadTypes(Places) /\ t \in Tasks /\ halted = "no" /\ pc[t] = "raise"
      /\ taskStatus[t] = {} /\ ~Waits(t) /\ taskStatus \in [Prio -> SUBSET Status]
  BY <1>1, MutexCaller
<1>3. /\ Claims(t) /\ mutexTaken /\ \A p \in Tasks : ~Raised(p)
      /\ mutexOwner = t /\ \A p \in Tasks : Claims(p) => p = t
  <2>1. Claims(t)
    BY <1>2 DEF Claims
  <2> QED  BY <1>2, <2>1 DEF ClaimPart
<1>4. taskStatus' = taskStatus
  BY <1>1, <1>2
<1>5. /\ \A p : Waits(p)' <=> Waits(p)
      /\ Pends' = Pends
  BY <1>1, <1>4 DEF Waits, Pends
<1>6. SleepPart'
  BY <1>1, <1>2, <1>4, SleepKept DEF Sleeps, Waits
<1>7. /\ mutexTCB' = t
      /\ \A p \in Tasks : /\ tcbPtrTbl'[p] = tcbPtrTbl[p]
                          /\ Raised(p)' <=> p = t
                          /\ taskPrio'[p] \in {p, MutexPrio}
  <2>1. /\ tcbPtrTbl \in [Prio -> Prio \cup {NULL}] /\ taskPrio \in [Prio -> Prio]
    BY DEF MutexTypes, KernelTypes, TaskTypes, MutexTypeOK
  <2>2. mutexTCB' = t
    BY <1>1, <2>1, MutexFacts DEF mutexTCB
  <2>3. \A p \in Tasks : tcbPtrTbl'[p] = tcbPtrTbl[p]
    BY <1>1, <2>1, TasksFacts
  <2>4. \A p \in Tasks : taskPrio'[p] = IF p = t THEN MutexPrio ELSE taskPrio[p]
    BY <1>1, <2>1, TasksFacts
  <2>5. \A p \in Tasks : taskPrio[p] = p /\ p # MutexPrio
    BY <1>2, <1>3, TasksFacts DEF RaisedPart, Raised
  <2> QED  BY <2>2, <2>3, <2>4, <2>5 DEF Raised
<1>8. RunnersPart'
  BY <1>1, <1>2, <1>7 DEF RunnersPart
<1>9. /\ TakePart' /\ pc'[t] = "yield"
      /\ \A p \in Prio : p # t => pc'[p] = pc[p] /\ after'[p] = after[p]
  BY <1>1, <1>2, TakePartGoes
<1>10. \A p \in Tasks : p # t => ~Claims(p)' /\ pc'[p] \notin {"own", "raise"}
  <2>1. Elsewhere(t)
    BY <1>1, <1>5, <1>9 DEF Elsewhere
  <2>2. \A p \in Tasks : p # t => ~Claims(p)'
    BY <1>3, <2>1, ElsewhereClaims
  <2> QED  BY <2>2 DEF Claims
<1>11. ClaimPart'
  BY <1>1, <1>2, <1>3, <1>7, <1>9, <1>10 DEF ClaimPart
<1>12. WaitPart'
  <2>1. MutexPrio \notin Pends.prioTbl
    BY <1>2, <1>3 DEF WaitPart
  <2> QED  BY <1>1, <1>2, <1>5, <2>1, MutexFacts DEF WaitPart
<1>13. RaisedPart'
  BY <1>1, <1>2, <1>3, <1>7 DEF RaisedPart
<1> QED  BY <1>6, <1>8, <1>9, <1>11, <1>12, <1>13 DEF MutexParts

LEMMA TakenMutex ==
  ASSUME MutexTypes, MutexParts, ~Strays, NEW t \in Prio, Taken(t)
  PROVE  MutexParts'
<1>1. /\ At(t, "taken") /\ Goto(t, "run") /\ holders' = holders \cup {t}
      /\ UNCHANGED <<taskPrio, taskStatus, tcbPtrTbl, waitList>>
      /\ UNCHANGED after /\ UNCHANGED <<mutex, mutexTaken, mutexOwner>>
      /\ UNCHANGED <<timerPendingList, activeList, tick, halted, currentTask, highPrioTask>>
  BY DEF Taken, lists, objects, cpu, tcb
<1>2. /\ RunnersPart /\ SleepPart /\ TakePart /\ ClaimPart /\ WaitPart /\ RaisedPart
      /\ ThreadTypes(Places) /\ t \in Tasks /\ after[t] = "run" /\ halted = "no"
      /\ pc[t] = "taken" /\ ~Waits(t)
  BY <1>1, MutexCaller
<1>3. Claims(t)
  BY <1>2 DEF Claims, InTake
<1>4. RunnersPart' /\ SleepPart'
  BY <1>1, <1>2, RunnersKept, SleepKept DEF Sleeps, Waits
<1>5. /\ TakePart' /\ pc'[t] = "run"
      /\ \A p \in Prio : p # t => pc'[p] = pc[p] /\ after'[p] = after[p]
  BY <1>1, <1>2, TakePartGoes
<1>6. /\ \A p : (Waits(p)' <=> Waits(p)) /\ (Raised(p)' <=> Raised(p))
      /\ Pends' = Pends /\ mutexTCB' = mutexTCB
  BY <1>1 DEF Waits, Raised, Pends, mutexTCB
<1>7. \A p \in Tasks : (Claims(p)' <=> Claims(p)) /\ (p # t => pc'[p] = pc[p])
  <2>1. Elsewhere(t)
    BY <1>1, <1>5, <1>6 DEF Elsewhere
  <2>2. Claims(t)'
    BY <1>1 DEF Claims
  <2> QED  BY <1>3, <2>1, <2>2, ElsewhereClaims
<1>8. ClaimPart'
  BY <1>1, <1>2, <1>3, <1>5, <1>6, <1>7 DEF ClaimPart
<1>9. WaitPart'
  BY <1>1, <1>2, <1>6, <1>7, MutexFacts DEF WaitPart
<1>10. RaisedPart'
  BY <1>1, <1>2, <1>6 DEF RaisedPart
<1> QED  BY <1>4, <1>5, <1>8, <1>9, <1>10 DEF MutexParts

LEMMA TakeBlocksMutex ==
  ASSUME MutexTypes, MutexParts, ~Strays, NEW t \in Prio, TakeBlocks(t)
  PROVE  MutexParts'
<1>1. /\ At(t, "run") /\ t # IdlePrio /\ t \notin holders /\ mutexTaken
      /\ Goto(t, "yield") /\ after' = [after EXCEPT ![t] = "taken"]
      /\ waitList' = [waitList EXCEPT ![TasksPending] = Enlist(@, taskPrio[t])]
      /\ taskStatus' = [taskStatus EXCEPT ![t] = @ \cup {"PendMtx"}]
      /\ UNCHANGED tcbPtrTbl
      /\ UNCHANGED <<mutex, mutexOwner, mutexTaken, taskPrio, holders>>
      /\ UNCHANGED <<timerPendingList, activeList, tick, halted, currentTask, highPrioTask>>
  BY DEF TakeBlocks, MutexCalls, mutexVars, cpu
<1>2. /\ RunnersPart /\ SleepPart /\ TakePart /\ ClaimPart /\ WaitPart /\ RaisedPart
      /\ ThreadTypes(Places) /\ t \in Tasks /\ halted = "no" /\ pc[t] = "run"
      /\ ~Waits(t) /\ ~Counting(t) /\ taskStatus \in [Prio -> SUBSET Status]
  BY <1>1, MutexCaller
<1>3. RunnersPart'
  BY <1>1, <1>2, RunnersKept
<1>4. /\ Waits(t)'
      /\ \A p \in Prio : p # t => (Waits(p)' <=> Waits(p)) /\ (Sleeps(p)' <=> Sleeps(p))
  BY <1>1, <1>2 DEF Waits, Sleeps
<1>5. SleepPart'
  BY <1>1, <1>2, <1>4, CallSleeps
<1>6. /\ TakePart' /\ pc'[t] = "yield"
      /\ \A p \in Prio : p # t => pc'[p] = pc[p] /\ after'[p] = after[p]
  BY <1>1, <1>2, TakePartGoes
<1>7. \A p \in Tasks : /\ Claims(p)' <=> Claims(p) /\ p # t
                       /\ p # t => pc'[p] = pc[p]
  <2>1. Elsewhere(t)
    BY <1>1, <1>4, <1>6 DEF Elsewhere
  <2>2. ~Claims(t)'
    BY <1>1, <1>4, <1>6 DEF Claims
  <2> QED  BY <2>1, <2>2, ElsewhereClaims
<1>8. mutexTCB' = mutexTCB /\ \A p : Raised(p)' <=> Raised(p)
  BY <1>1 DEF mutexTCB, Raised
<1>9. ClaimPart'
  BY <1>1, <1>2, <1>6, <1>7, <1>8 DEF ClaimPart
<1>10. RaisedPart'
  BY <1>1, <1>2, <1>8 DEF RaisedPart
<1>11. /\ Pends'.prioGrp /\ Pends'.prioTbl = Pends.prioTbl \cup {taskPrio[t]}
       /\ taskPrio[t] \in {t, MutexPrio} /\ t \in UserPrio
  <2>1. Pends' = Enlist(Pends, taskPrio[t])
    BY <1>1, MutexFacts DEF MutexTypes, KernelTypes, WaitTypes, Pends
  <2>2. taskPrio[t] \in {t, MutexPrio}
    BY <1>2 DEF RaisedPart
  <2> QED  BY <1>1, <1>2, <2>1, <2>2, TasksFacts DEF Enlist
<1>12. Raised(t) => \A p \in Tasks : ~Claims(p)'
  <2>1. SUFFICES ASSUME Raised(t), NEW p \in Tasks, Claims(p), p # t PROVE FALSE
    BY <1>7
  <2>2. pc[p] \notin {"own", "raise"}
    BY <1>2, <2>1 DEF ClaimPart
  <2> QED  BY <1>2, <2>1, <2>2 DEF ClaimPart, RaisedPart
<1>13. WaitPart'
  <2>1. ~Waits(MutexPrio)'
    BY <1>2, <1>4, TasksFacts, MutexFacts DEF WaitPart
  <2>2. \A p \in Tasks : Waits(p)' => p \in Pends'.prioTbl \/ MutexPrio \in Pends'.prioTbl
    BY <1>2, <1>4, <1>11, TasksFacts DEF WaitPart
  <2>3. MutexPrio \in Pends'.prioTbl => \A p \in Tasks : ~Claims(p)'
    <3>1. MutexPrio \in Pends'.prioTbl => MutexPrio \in Pends.prioTbl \/ Raised(t)
      BY <1>11 DEF Raised
    <3> QED  BY <1>2, <1>7, <1>12, <3>1 DEF WaitPart
  <2>4. Pends'.prioTbl \in SUBSET (UserPrio \cup {MutexPrio})
    BY <1>2, <1>11 DEF WaitPart
  <2> QED  BY <1>1, <1>11, <2>1, <2>2, <2>3, <2>4 DEF WaitPart
<1> QED  BY <1>3, <1>5, <1>6, <1>9, <1>10, <1>13 DEF MutexParts

\* Who gives the mutex is its owner, and runs under its priority.
LEMMA Giver ==
  ASSUME MutexTypes, MutexParts, ~Strays, NEW t \in Prio, Give(t)
  PROVE  /\ t \in Tasks /\ taskStatus[t] = {} /\ ~Waits(t)
         /\ mutexOwner = t /\ mutexTCB = t /\ Raised(t) /\ mutexTaken
         /\ pc[t] = "run" /\ after[t] = "run"
         /\ \A p \in Tasks : p # t => /\ ~Claims(p) /\ ~Raised(p) /\ taskPrio[p] = p
         /\ Pends.prioTbl \in SUBSET UserPrio
         /\ tcbPtrTbl[t] \in {t, NULL}
<1>1. At(t, "run") /\ t \in holders
  BY DEF Give, MutexCalls
<1>2. /\ RunnersPart /\ ClaimPart /\ WaitPart /\ RaisedPart /\ t \in Tasks
      /\ taskStatus[t] = {} /\ ~Waits(t) /\ pc[t] = "run" /\ after[t] = "run"
  BY <1>1, MutexCaller
<1>3. Claims(t)
  BY <1>1 DEF Claims
<1>4. mutexTaken /\ mutexOwner = t /\ Raised(t) /\ mutexTCB = t
  BY <1>2, <1>3 DEF ClaimPart
<1>5. \A p \in Tasks : p # t => /\ ~Claims(p) /\ ~Raised(p) /\ taskPrio[p] = p
  BY <1>2, <1>3, <1>4 DEF ClaimPart, RaisedPart, Raised
<1>6. Pends.prioTbl \in SUBSET UserPrio
  BY <1>2, <1>3 DEF WaitPart
<1>7. tcbPtrTbl[t] \in {t, NULL}
  BY <1>2 DEF RunnersPart
<1> QED  BY <1>2, <1>4, <1>5, <1>6, <1>7

\* Who waits stays in the list the giver leaves.
LEMMA GiverLeaves ==
  ASSUME WaitPart, NEW t \in Tasks, ~Waits(t), Pends.prioTbl \in SUBSET UserPrio,
         mutexOwner = t
  PROVE  /\ Pending.prioTbl \in SUBSET UserPrio /\ t \notin Pending.prioTbl
         /\ Pending.prioGrp => Pending.prioTbl # {}
         /\ \A p \in Tasks : Waits(p) => Pending.prioGrp /\ p \in Pending.prioTbl
<1>1. Pending = Delist(Pends, {t})
  BY DEF Pending, Pends
<1>2. \A p \in Tasks : Waits(p) => Pends.prioGrp /\ p \in Pends.prioTbl /\ p # t
  BY TasksFacts DEF WaitPart
<1>3. \A p \in Tasks : Waits(p) => Pending.prioGrp /\ p \in Pending.prioTbl
  BY <1>1, <1>2, StaysListed
<1>4. Pending.prioTbl = Pends.prioTbl \ {t} /\ (Pending.prioGrp => Pends.prioTbl \ {t} # {})
  BY <1>1 DEF Delist
<1> QED  BY <1>3, <1>4

LEMMA GiveMutex ==
  ASSUME MutexTypes, MutexParts, ~Strays, NEW t \in Prio, Give(t)
  PROVE  MutexParts'
<1>1. /\ At(t, "run") /\ Goto(t, "yield") /\ holders' = holders \ {t} /\ UNCHANGED after
      /\ UNCHANGED <<timerPendingList, activeList, currentTask, highPrioTask, tick>>
      /\ UNCHANGED mutex
  BY DEF Give, MutexCalls
<1>2. /\ RunnersPart /\ SleepPart /\ TakePart /\ ClaimPart /\ WaitPart /\ RaisedPart
      /\ ThreadTypes(Places) /\ halted = "no" /\ ~Counting(t)
      /\ taskStatus \in [Prio -> SUBSET Status] /\ tcbPtrTbl \in [Prio -> Prio \cup {NULL}]
      /\ taskPrio \in [Prio -> Prio]
      /\ waitList \in [List -> [prioGrp : BOOLEAN, prioTbl : SUBSET Prio]]
  BY <1>1, MutexCaller DEF MutexTypes, KernelTypes, TaskTypes, MutexTypeOK, WaitTypes
<1>3. /\ t \in Tasks /\ taskStatus[t] = {} /\ ~Waits(t)
      /\ mutexOwner = t /\ mutexTCB = t /\ Raised(t) /\ mutexTaken
      /\ pc[t] = "run" /\ after[t] = "run"
      /\ \A p \in Tasks : p # t => /\ ~Claims(p) /\ ~Raised(p) /\ taskPrio[p] = p
      /\ Pends.prioTbl \in SUBSET UserPrio
      /\ tcbPtrTbl[t] \in {t, NULL}
  BY Giver
<1>4. /\ TakePart' /\ pc'[t] = "yield" /\ after'[t] = "run"
      /\ \A p \in Prio : p # t => pc'[p] = pc[p] /\ after'[p] = after[p]
  BY <1>1, <1>2, <1>3, TakePartGoes
<1>5. /\ ~Claims(t)' /\ holders' \in SUBSET Tasks
      /\ \A p \in Tasks : pc'[p] \notin {"own", "raise"} /\ p \notin holders'
  <2>1. ~Claims(t)'
    BY <1>1, <1>4 DEF Claims, InTake
  <2>2. \A p \in Tasks : p # t => pc[p] \notin {"own", "raise"} /\ p \notin holders
    BY <1>3 DEF Claims
  <2>3. holders \in SUBSET Tasks
    BY <1>2 DEF ClaimPart
  <2> QED  BY <1>1, <1>4, <2>1, <2>2, <2>3, TasksFacts
<1>6. CASE halted' = "null" /\ UNCHANGED <<tcbPtrTbl, taskStatus, waitList, taskPrio, mutexOwner,
                                           mutexTaken>>
  <2>1. RunnersPart'
    BY <1>1, <1>2, <1>6, RunnersKept
  <2>2. SleepPart'
    <3>1. Active' = Active /\ Backup' = Backup /\ \A p : Counting(p)' <=> Counting(p)
      BY <1>1 DEF Active, Backup, Counting
    <3>2. \A p : (Sleeps(p)' <=> Sleeps(p)) /\ (Waits(p)' <=> Waits(p))
      BY <1>6 DEF Sleeps, Waits
    <3> QED  BY <1>1, <1>2, <1>6, <3>1, <3>2 DEF SleepPart
  <2>3. /\ Pends' = Pends /\ mutexTCB' = mutexTCB
        /\ \A p : (Waits(p)' <=> Waits(p)) /\ (Raised(p)' <=> Raised(p))
    BY <1>6 DEF Pends, mutexTCB, Waits, Raised
  <2>4. \A p \in Tasks : ~Claims(p)'
    <3>1. Elsewhere(t)
      BY <1>1, <1>4, <2>3 DEF Elsewhere
    <3> QED  BY <1>3, <1>5, <3>1, ElsewhereClaims
  <2>5. ClaimPart'
    BY <1>5, <2>4 DEF ClaimPart
  <2>6. WaitPart'
    BY <1>2, <1>6, <2>3, <2>4, MutexFacts DEF WaitPart
  <2>7. RaisedPart'
    BY <1>1, <1>2, <1>6, <2>3 DEF RaisedPart
  <2> QED  BY <1>4, <2>1, <2>2, <2>5, <2>6, <2>7 DEF MutexParts
<1>7. /\ Pending.prioTbl \in SUBSET UserPrio /\ t \notin Pending.prioTbl
      /\ Pending.prioGrp => Pending.prioTbl # {}
      /\ \A p \in Tasks : Waits(p) => Pending.prioGrp /\ p \in Pending.prioTbl
  BY <1>2, <1>3, GiverLeaves
<1>8. ASSUME tcbPtrTbl[t] = t, UNCHANGED halted,
             waitList' = [waitList EXCEPT ![TasksPending] = Pending], GiveFree
      PROVE  MutexParts'
  <2>1. /\ ~Pending.prioGrp /\ UNCHANGED tcbPtrTbl
        /\ taskStatus' = [taskStatus EXCEPT ![t] = taskStatus[t] \ {"PendMtx"}]
        /\ taskPrio' = [taskPrio EXCEPT ![t] = t] /\ mutexTaken' = FALSE
    BY <1>3, <1>8 DEF GiveFree
  <2>2. taskStatus' = taskStatus
    BY <1>2, <1>3, <2>1
  <2>3. /\ RunnersPart' /\ SleepPart'
    BY <1>1, <1>2, <1>8, <2>1, <2>2, RunnersKept, SleepKept DEF Sleeps, Waits
  <2>4. \A p \in Prio : ~Waits(p)'
    <3>1. \A p \in Tasks : ~Waits(p)
      BY <1>7, <2>1
    <3>2. \A p \in Prio : ~Waits(p)
      BY <1>2, <3>1, TasksFacts DEF WaitPart
    <3> QED  BY <2>2, <3>2 DEF Waits
  <2>5. \A p \in Tasks : ~Claims(p)'
    <3>1. Elsewhere(t)
      BY <1>1, <1>4, <2>2 DEF Elsewhere, Waits
    <3> QED  BY <1>3, <1>5, <3>1, ElsewhereClaims
  <2>6. \A p \in Tasks : taskPrio'[p] = p /\ ~Raised(p)'
    <3>1. \A p \in Tasks : taskPrio'[p] = p
      BY <1>2, <1>3, <2>1, TasksFacts
    <3> QED  BY <3>1, TasksFacts DEF Raised
  <2>7. ClaimPart'
    BY <1>5, <2>5 DEF ClaimPart
  <2>8. Pends' = Pending
    BY <1>2, <1>8, MutexFacts DEF Pends
  <2>9. WaitPart'
    BY <1>7, <2>1, <2>4, <2>8, TasksFacts, MutexFacts DEF WaitPart
  <2>10. RaisedPart'
    BY <2>1, <2>6 DEF RaisedPart
  <2> QED  BY <1>4, <2>3, <2>7, <2>9, <2>10 DEF MutexParts
<1>9. ASSUME tcbPtrTbl[t] = t, UNCHANGED halted, tcbPtrTbl[NewOwner] # NULL,
             waitList' = [waitList EXCEPT ![TasksPending] = Pending], GiveOn
      PROVE  MutexParts'
  <2>1. PICK p \in Pending.prioTbl : p = NewOwner
    <3>1. Pending.prioGrp /\ Pending.prioTbl # {} /\ Pending.prioTbl \in SUBSET Prio
      BY <1>7, <1>9, MutexFacts DEF GiveOn
    <3> QED  BY <3>1, HighestPrio DEF NewOwner, First
  <2>2. p \in UserPrio /\ p \in Tasks /\ p \in Prio /\ p # t /\ tcbPtrTbl[p] = p
    BY <1>2, <1>7, <1>9, <2>1, TasksFacts DEF RunnersPart
  <2>3. /\ Pending.prioGrp
        /\ tcbPtrTbl' = [tcbPtrTbl EXCEPT ![MutexPrio] = p]
        /\ taskPrio' = [taskPrio EXCEPT ![t] = t, ![p] = MutexPrio]
        /\ mutexOwner' = p /\ mutexTaken'
    BY <1>3, <1>9, <2>1, <2>2 DEF GiveOn
  <2>4. taskStatus' = [taskStatus EXCEPT ![p] = taskStatus[p] \ {"PendMtx"}]
    <3>1. taskStatus' = [[taskStatus EXCEPT ![t] = @ \ {"PendMtx"}]
                         EXCEPT ![p] = @ \ {"PendMtx"}]
      BY <1>3, <1>9, <2>1, <2>2 DEF GiveOn
    <3>2. [taskStatus EXCEPT ![t] = @ \ {"PendMtx"}] = taskStatus
      BY <1>2, <1>3
    <3> QED  BY <3>1, <3>2
  <2>5. /\ ~Waits(p)'
        /\ \A q \in Prio : /\ q # p => (Waits(q)' <=> Waits(q))
                           /\ Sleeps(q)' <=> Sleeps(q)
    BY <1>2, <2>2, <2>4 DEF Waits, Sleeps
  <2>6. SleepPart'
    <3>1. UNCHANGED <<timerPendingList, activeList, tick>>
      BY <1>1
    <3>2. \A q \in Prio : Waits(q)' => Waits(q)
      BY <2>2, <2>5
    <3> QED  BY <1>2, <2>5, <3>1, <3>2, SleepKept
  <2>7. /\ mutexTCB' = p
        /\ \A q \in Tasks : tcbPtrTbl'[q] = tcbPtrTbl[q]
    BY <1>2, <2>3, TasksFacts, MutexFacts DEF mutexTCB
  <2>8. \A q \in Tasks : taskPrio'[q] = IF q = p THEN MutexPrio ELSE q
    BY <1>2, <1>3, <2>2, <2>3, TasksFacts
  <2>9. \A q \in Tasks : Raised(q)' <=> q = p
    BY <2>8, TasksFacts DEF Raised
  <2>10. RunnersPart'
    BY <1>1, <1>2, <2>2, <2>7 DEF RunnersPart
  <2>11. \A q \in Tasks : Claims(q)' => q = p
    <3>1. SUFFICES ASSUME NEW q \in Tasks, Claims(q)', q # p PROVE FALSE
      OBVIOUS
    <3>2. q # t /\ q \in Prio
      BY <1>5, <3>1, TasksFacts
    <3>3. pc'[q] = pc[q] /\ after'[q] = after[q] /\ (Waits(q)' <=> Waits(q))
      BY <1>4, <2>5, <3>1, <3>2
    <3>4. q \notin holders' /\ pc'[q] \notin {"own", "raise"}
      BY <1>5
    <3>5. Claims(q)
      BY <3>1, <3>3, <3>4 DEF Claims, InTake
    <3> QED  BY <1>3, <3>2, <3>5
  <2>12. ClaimPart'
    BY <1>5, <2>3, <2>7, <2>9, <2>11 DEF ClaimPart
  <2>13. Pends' = Pending
    BY <1>2, <1>9, MutexFacts DEF Pends
  <2>14. WaitPart'
    <3>1. ~Waits(MutexPrio)'
      BY <1>2, <2>2, <2>5, TasksFacts, MutexFacts DEF WaitPart
    <3>2. \A q \in Tasks : Waits(q)' => q \in Pending.prioTbl
      BY <1>7, <2>5, TasksFacts
    <3> QED  BY <1>7, <2>3, <2>13, <3>1, <3>2, TasksFacts DEF WaitPart
  <2>15. RaisedPart'
    <3>1. mutex'
      BY <1>1, <1>2, <1>3 DEF RaisedPart
    <3>2. \A q \in Tasks : taskPrio'[q] \in {q, MutexPrio}
      BY <2>8
    <3> QED  BY <2>3, <2>7, <2>9, <3>1, <3>2 DEF RaisedPart
  <2> QED  BY <1>4, <2>6, <2>10, <2>12, <2>14, <2>15 DEF MutexParts
<1>10. \/ halted' = "null" /\ UNCHANGED <<tcbPtrTbl, taskStatus, waitList, taskPrio, mutexOwner,
                                          mutexTaken>>
       \/ /\ UNCHANGED halted /\ waitList' = [waitList EXCEPT ![TasksPending] = Pending]
          /\ tcbPtrTbl[t] # NULL
          /\ GiveFree \/ (GiveOn /\ tcbPtrTbl[NewOwner] # NULL)
  <2>1. GiveOn => Pending.prioGrp
    BY DEF GiveOn
  <2> QED  BY <1>3, <2>1 DEF Give
<1> QED  BY <1>3, <1>6, <1>8, <1>9, <1>10

\* A step of a program whose object is a mutex, as long as nobody strays.
LEMMA MutexStepParts ==
  ASSUME Api \subseteq TimingCalls, MutexTypes, MutexParts, ~Strays, MutexStep
  PROVE  MutexParts'
<1>1. CASE /\ Interrupts \/ \E t \in Prio : Proceed(t) \/ (taskPrio[t] = t /\ Call(t))
           /\ UNCHANGED mutexVars
  BY <1>1, TasksLeaveMutex
<1>2. ASSUME NEW t \in Prio, MutexCall(t) \/ MutexProceeds(t)
      PROVE  MutexParts'
  <2>1. CASE MutexCreate(t) \/ MutexDelete(t)
    BY <2>1, MutexCreateDelete
  <2>2. CASE TakeBlocks(t) \/ TakeFree(t)
    BY <2>2, TakeBlocksMutex, TakeFreeMutex
  <2>3. CASE TakeOwn(t) \/ TakeRaise(t) \/ Taken(t)
    BY <2>3, TakeOwnMutex, TakeRaiseMutex, TakenMutex
  <2>4. CASE Give(t)
    BY <2>4, GiveMutex
  <2> QED  BY <1>2, <2>1, <2>2, <2>3, <2>4 DEF MutexCall, MutexProceeds
<1> QED  BY <1>1, <1>2 DEF MutexStep

-----------------------------------------------------------------------------
(* The invariant                                                           *)

\* An application with a queue has nobody wait for a mutex.
NoMutex == /\ holders = {} /\ \A p \in Prio : taskPrio[p] = p
           /\ \A p \in Prio : ~Waits(p)

MutexInv ==
    /\ TypeInv /\ object \in {"queue", "mutex"}
    /\ object = "queue" => NoMutex
    /\ object = "mutex" /\ ~strayed => ~Strays /\ MutexParts

\* Ways in which a step changes what holds a task back, without the mutex.
LEMMA NobodyComes ==
  ASSUME taskStatus \in [Prio -> SUBSET Status], NEW p \in Prio, ~Waits(p),
         NEW t \in Prio, NEW causes, "PendMtx" \notin causes,
         \/ UNCHANGED taskStatus
         \/ taskStatus' = [taskStatus EXCEPT ![t] = @ \cup causes]
         \/ taskStatus' = [taskStatus EXCEPT ![t] = @ \ causes]
         \/ taskStatus' = [taskStatus EXCEPT ![t] = {}]
  PROVE  ~Waits(p)'
BY DEF Waits

LEMMA NobodyWakes ==
  ASSUME NEW p \in Prio, ~Waits(p), NEW from, NEW causes, Wake(from, causes)
  PROVE  ~Waits(p)'
<1>1. \/ UNCHANGED taskStatus
      \/ taskStatus' = [q \in Prio |-> IF q \in All(from) THEN Held(q, causes) ELSE taskStatus[q]]
  BY DEF Wake, Unblock
<1>2. taskStatus'[p] = taskStatus[p] \/ taskStatus'[p] = Held(p, causes)
  BY <1>1
<1> QED  BY <1>2 DEF Waits, Held

\* The tasks' calls.
LEMMA TasksNobody ==
  ASSUME Api \subseteq TimingCalls, KernelTypes, ThreadTypes(Places), NEW p \in Prio, ~Waits(p),
         Interrupts \/ \E t \in Prio : Proceed(t) \/ Call(t)
  PROVE  ~Waits(p)'
<1>0. /\ taskStatus \in [Prio -> SUBSET Status] /\ tcbPtrTbl \in [Prio -> Prio \cup {NULL}]
      /\ ListTypes /\ arg \in [Prio -> Prio]
  BY DEF KernelTypes, TaskTypes, ThreadTypes
<1>1. \/ UNCHANGED taskStatus
      \/ \E t \in Prio : \/ taskStatus' = [taskStatus EXCEPT ![t] = {}]
                         \/ \E cause \in {"Suspend", "PendDelay"} :
                               \/ taskStatus' = [taskStatus EXCEPT ![t] = @ \cup {cause}]
                               \/ taskStatus' = [taskStatus EXCEPT ![t] = @ \ {cause}]
  <2>1. CASE Interrupt
    <3>1. CASE TickTask
      <4> DEFINE i == Highest(Active)
      <4>1. i \in Prio
        BY <1>0, HighestPrio DEF ListTypes, Active
      <4> HIDE DEF i
      <4>2. TickExpire(i) \/ TickForget(i) \/ TickKeep(i) \/ TickFault(i)
        BY <3>1 DEF TickTask, i
      <4>3. CASE TickExpire(i)
        <5>1. tcbPtrTbl[i] \in Prio /\ taskStatus' = [taskStatus EXCEPT ![tcbPtrTbl[i]] = {}]
          BY <1>0, <4>1, <4>3 DEF TickExpire
        <5> QED  BY <5>1
      <4>4. CASE TickForget(i) \/ TickKeep(i) \/ TickFault(i)
        BY <4>4 DEF TickForget, TickKeep, TickFault, tcb
      <4> QED  BY <4>2, <4>3, <4>4
    <3>2. CASE TickEnter \/ TickOut \/ PendSV
      BY <3>2 DEF TickEnter, TickOut, PendSV, objects, tcb
    <3> QED  BY <2>1, <3>1, <3>2 DEF Interrupt
  <2>2. ASSUME NEW t \in Prio, Proceed(t)
        PROVE  \/ UNCHANGED taskStatus
               \/ \E q \in Prio : \/ taskStatus' = [taskStatus EXCEPT ![q] = @ \cup {"Suspend"}]
                                  \/ taskStatus' = [taskStatus EXCEPT ![q] = @ \ {"Suspend"}]
    <3>1. pc[t] \notin {"create", "delete"}
      BY PlacesOK DEF ThreadTypes, TypesLabels
    <3>2. Yield(t) \/ SuspendTask(t) \/ ResumeTask(t)
      BY <2>2, <3>1 DEF Proceed, CreateRefused, CreateTask, DeleteTask, At
    <3>3. CASE Yield(t)
      BY <3>3 DEF Yield, YieldFind, YieldPublish, objects, tcb
    <3>4. CASE SuspendTask(t) \/ ResumeTask(t)
      BY <1>0, <3>4 DEF SuspendTask, ResumeTask
    <3> QED  BY <3>2, <3>3, <3>4
  <2>3. ASSUME NEW t \in Prio, Call(t)
        PROVE  \/ UNCHANGED taskStatus
               \/ taskStatus' = [taskStatus EXCEPT ![t] = @ \cup {"PendDelay"}]
    <3>1. \/ \E ticks : Delay(t, ticks)
          \/ \E q : SuspendCheck(t, q) \/ ResumeCheck(t, q)
      BY <2>3
      DEF Call, Calls, TimingCalls, CreateAlloc, DeleteCheck, CreateOutOfMemory, Return
    <3> QED  BY <3>1 DEF Delay, SuspendCheck, ResumeCheck, objects, tcb
  <2> QED  BY <2>1, <2>2, <2>3 DEF Interrupts
<1>2. "PendMtx" \notin {"Suspend"} /\ "PendMtx" \notin {"PendDelay"}
  OBVIOUS
<1>3. CASE UNCHANGED taskStatus
  BY <1>3 DEF Waits
<1>4. ASSUME NEW t \in Prio, taskStatus' = [taskStatus EXCEPT ![t] = {}] PROVE ~Waits(p)'
  BY <1>0, <1>4 DEF Waits
<1>5. ASSUME NEW t \in Prio, NEW cause \in {"Suspend", "PendDelay"},
             \/ taskStatus' = [taskStatus EXCEPT ![t] = @ \cup {cause}]
             \/ taskStatus' = [taskStatus EXCEPT ![t] = @ \ {cause}]
      PROVE  ~Waits(p)'
  <2>1. "PendMtx" \notin {cause}
    OBVIOUS
  <2> QED  BY <1>0, <1>5, <2>1, NobodyComes
<1> QED  BY <1>1, <1>3, <1>4, <1>5

\* The queue's.
LEMMA QueueNobody ==
  ASSUME Api \subseteq TimingCalls, KernelTypes, ThreadTypes(Places), NEW p \in Prio, ~Waits(p),
         InsertNext
  PROVE  ~Waits(p)'
<1>0. taskStatus \in [Prio -> SUBSET Status]
  BY DEF KernelTypes, TaskTypes
<1>1. CASE Interrupts \/ \E t \in Prio : Proceed(t) \/ Call(t)
  BY <1>1, TasksNobody
<1>2. ASSUME NEW from, NEW causes, Wake(from, causes) PROVE ~Waits(p)'
  BY <1>2, NobodyWakes
<1>3. ASSUME NEW t \in Prio, NEW causes \in {{"PendQueue"}, {"PendQueue", "PendDelay"}},
             taskStatus' = [taskStatus EXCEPT ![t] = @ \cup causes]
      PROVE  ~Waits(p)'
  <2>1. "PendMtx" \notin causes
    OBVIOUS
  <2> QED  BY <1>0, <1>3, <2>1, NobodyComes
<1>4. CASE UNCHANGED taskStatus
  BY <1>4 DEF Waits
<1>5. ASSUME NEW t \in Prio, QueueCall(t)
      PROVE  UNCHANGED taskStatus \/ \E from, causes : Wake(from, causes)
  <2>1. CASE QueueCreate(t) \/ QueueCreateOutOfMemory(t)
    BY <2>1 DEF QueueCreate, QueueCreateOutOfMemory, kernelVars, objects, tcb
  <2>2. CASE Insert(t) \/ Remove(t) \/ QueueFlush(t) \/ QueueDelete(t)
    BY <2>2 DEF Insert, Remove, QueueFlush, QueueDelete
  <2>3. CASE InsertFull(t) \/ \E ticks \in 0..MaxDelay : RemoveEmpty(t, ticks)
    BY <2>3 DEF InsertFull, RemoveEmpty, ButThread, objects, tcb
  <2> QED  BY <1>5, <2>1, <2>2, <2>3 DEF QueueCall
<1>6. ASSUME NEW t \in Prio, QueueProceeds(t)
      PROVE  \/ UNCHANGED taskStatus \/ \E from, causes : Wake(from, causes)
             \/ \E causes \in {{"PendQueue"}, {"PendQueue", "PendDelay"}} :
                   taskStatus' = [taskStatus EXCEPT ![t] = @ \cup causes]
  <2>1. CASE EmptyBlock(t)
    BY <2>1 DEF EmptyBlock
  <2>2. CASE RawWake(t)
    BY <2>2 DEF RawWake
  <2>3. CASE Again(t) \/ RawIndex(t) \/ RawNext(t) \/ RawWrap(t) \/ RawUsed(t)
    BY <2>3 DEF Again, RawIndex, RawNext, RawWrap, RawUsed, ButThread, objects, tcb
  <2>4. CASE RawSlot(t) \/ RawReuse(t)
    BY <2>4 DEF RawSlot, RawReuse, objects, tcb
  <2> QED  BY <1>6, <2>1, <2>2, <2>3, <2>4 DEF QueueProceeds
<1>7. ASSUME NEW t \in Prio,
             InsertProceeds(t) \/ \E ticks \in 0..MaxDelay : InsertBlocks(t, ticks)
      PROVE  \/ UNCHANGED taskStatus
             \/ \E causes \in {{"PendQueue"}, {"PendQueue", "PendDelay"}} :
                   taskStatus' = [taskStatus EXCEPT ![t] = @ \cup causes]
  <2>1. CASE FullPend(t)
    BY <2>1 DEF FullPend
  <2>2. CASE FullReadReady(t) \/ FullReadTimer(t) \/ FullRead(t)
             \/ \E ticks \in 0..MaxDelay : InsertBlocks(t, ticks)
    BY <2>2 DEF FullReadReady, FullReadTimer, FullRead, InsertBlocks, ButThread, objects, tcb
  <2>3. CASE FullUnready(t) \/ FullCount(t) \/ FullPoint(t) \/ FullGroup(t) \/ FullWrite(t)
    BY <2>3 DEF FullUnready, FullCount, FullPoint, FullGroup, FullWrite, objects, tcb
  <2> QED  BY <1>7, <2>1, <2>2, <2>3 DEF InsertProceeds
<1>8. \/ Interrupts \/ \E t \in Prio : Proceed(t) \/ Call(t)
      \/ \E t \in Prio : \/ QueueCall(t) \/ QueueProceeds(t) \/ InsertProceeds(t)
                         \/ \E ticks \in 0..MaxDelay : InsertBlocks(t, ticks)
  <2>1. CASE QueueNext
    BY <2>1 DEF QueueNext
  <2>2. CASE \E t \in Prio : \/ InsertProceeds(t)
                            \/ \E ticks \in 0..MaxDelay : InsertBlocks(t, ticks)
    BY <2>2
  <2> QED  BY <2>1, <2>2 DEF InsertNext
<1> QED  BY <1>1, <1>2, <1>3, <1>4, <1>5, <1>6, <1>7, <1>8

\* At the start nobody is held back, and nobody waits.
LEMMA InitMutexInv ==
  ASSUME Boot \subseteq UserPrio, ObjectsInit
  PROVE  MutexInv
<1>1. KernelInit(Boot) /\ MutexInit /\ object \in {"queue", "mutex"}
  BY DEF ObjectsInit, MutexInit, Init
<1>2. TypeInv
  BY TypeInvInit
<1>3. /\ \A p \in Prio : taskStatus[p] = {} /\ pc[p] = "run" /\ after[p] = "run"
      /\ \A p \in Prio : taskPrio[p] = p
      /\ holders = {} /\ mutexTaken = FALSE
      /\ halted = "no" /\ tick = "off"
      /\ timerPendingList[0] = {} /\ timerPendingList[1] = {} /\ activeList = 0
  BY <1>1 DEF KernelInit, MutexInit
<1>4. \A p \in Prio : ~Waits(p) /\ ~Claims(p)
  BY <1>3 DEF Waits, Claims, InTake
<1>5. NoMutex
  BY <1>3, <1>4 DEF NoMutex
<1>6. ~Strays
  BY <1>3 DEF Strays
<1>7. \A p \in Tasks : ~Raised(p) /\ taskPrio[p] = p
  BY <1>3, TasksFacts DEF Raised
<1>8. RunnersPart
  <2>1. /\ Boot \cup {IdlePrio} \subseteq Tasks /\ Boot \cup {IdlePrio} # {}
        /\ Boot \cup {IdlePrio} \in SUBSET Prio
    <3>1. IdlePrio \in Prio /\ IdlePrio # MutexPrio
      BY SizeAssumption DEF IdlePrio, Prio, MutexPrio
    <3> QED  BY <3>1, TasksFacts
  <2>2. Highest(Boot \cup {IdlePrio}) \in Boot \cup {IdlePrio}
    BY <2>1, HighestPrio
  <2>3. currentTask \in Tasks /\ highPrioTask \in Tasks
    BY <1>1, <2>1, <2>2 DEF KernelInit
  <2>4. \A p \in Prio : tcbPtrTbl[p] = IF p \in Boot \cup {IdlePrio} THEN p ELSE NULL
    BY <1>1 DEF KernelInit
  <2>5. mutexTCB = NULL
    BY <2>1, <2>4, TasksFacts, MutexFacts DEF mutexTCB
  <2>6. \A p \in Tasks : tcbPtrTbl[p] \in {p, NULL}
    BY <2>4, TasksFacts
  <2> QED  BY <2>3, <2>5, <2>6 DEF RunnersPart
<1>9. SleepPart
  <2>1. Active = {} /\ Backup = {} /\ \A p : ~Counting(p)
    BY <1>3 DEF Active, Backup, Counting
  <2> QED  BY <1>3, <2>1 DEF SleepPart
<1>10. TakePart
  BY <1>3 DEF TakePart
<1>11. ClaimPart
  BY <1>3, <1>4, <1>7, TasksFacts DEF ClaimPart
<1>12. WaitPart
  <2>1. waitList[TasksPending] = EmptyList
    BY <1>1, MutexFacts DEF KernelInit
  <2>2. Pends.prioGrp = FALSE /\ Pends.prioTbl = {}
    BY <2>1 DEF Pends, EmptyList
  <2> QED  BY <1>4, <2>2, TasksFacts, MutexFacts DEF WaitPart
<1>13. RaisedPart
  BY <1>3, <1>7 DEF RaisedPart
<1> QED  BY <1>1, <1>2, <1>5, <1>6, <1>8, <1>9, <1>10, <1>11, <1>12, <1>13
         DEF MutexInv, MutexParts

LEMMA NextMutexInv ==
  ASSUME Api \subseteq TimingCalls, MutexInv, [ObjectsNext]_objectsAll
  PROVE  MutexInv'
<1>1. TypeInv' /\ TypeInv
  BY TypeInvNext DEF MutexInv
<1>2. CASE object = "queue" /\ InsertNext /\ UNCHANGED mutexVars /\ UNCHANGED object
  <2>1. \A p \in Prio : ~Waits(p)'
    BY <1>1, <1>2, QueueNobody DEF MutexInv, NoMutex, TypeInv
  <2>2. NoMutex'
    BY <1>2, <2>1 DEF MutexInv, NoMutex, mutexVars
  <2> QED  BY <1>1, <1>2, <2>2 DEF MutexInv
<1>3. CASE object = "mutex" /\ MutexNext /\ UNCHANGED object
  <2>1. SUFFICES ASSUME ~strayed' PROVE ~Strays' /\ MutexParts'
    BY <1>1, <1>3 DEF MutexInv
  <2>2. ~strayed /\ ~Strays' /\ MutexStep
    BY <1>3, <2>1 DEF MutexNext
  <2>3. MutexTypes /\ MutexParts /\ ~Strays
    BY <1>1, <1>3, <2>2 DEF MutexInv, TypeInv, MutexTypes
  <2> QED  BY <2>2, <2>3, MutexStepParts
<1>4. CASE UNCHANGED objectsAll
  <2>1. /\ UNCHANGED <<taskPrioList, timerPendingList, activeList, tcbPtrTbl, taskStatus>>
        /\ UNCHANGED <<waitList, currentTask, highPrioTask, pendSV, tick, halted, pc, after>>
        /\ UNCHANGED <<mutex, mutexOwner, mutexTaken, taskPrio, holders, strayed, object>>
    BY <1>4 DEF objectsAll, insertVars, vars, kernelVars, lists, objects, tcb, cpu, threads,
                mutexVars
  <2>2. \A p : (Waits(p)' <=> Waits(p)) /\ (Raised(p)' <=> Raised(p)) /\ (Runs(p)' <=> Runs(p))
    BY <2>1 DEF Waits, Raised, Runs
  <2>3. (NoMutex' <=> NoMutex) /\ (Strays' <=> Strays)
    BY <2>1, <2>2 DEF NoMutex, Strays
  <2>4. MutexParts => MutexParts'
    <3>1. SUFFICES ASSUME MutexParts PROVE MutexParts'
      OBVIOUS
    <3>2. UNCHANGED mutexVars /\ \A p \in Prio : MutexMoves(p)
      BY <1>4, SameMoves DEF objectsAll, insertVars, vars, kernelVars
    <3>3. RunnersPart' /\ SleepPart'
      BY <2>1, <3>1 DEF MutexParts, RunnersPart, mutexTCB, SleepPart, Active, Backup, Counting,
                        Sleeps, Waits
    <3> QED  BY <1>1, <2>1, <2>2, <3>1, <3>2, <3>3, OthersKeepMutex
             DEF TypeInv, MutexTypes, MutexParts, PendsStay, Pends
  <2> QED  BY <1>1, <2>1, <2>3, <2>4 DEF MutexInv
<1> QED  BY <1>2, <1>3, <1>4 DEF ObjectsNext

LEMMA MutexInvariance ==
  ASSUME Api \subseteq TimingCalls, Boot \subseteq UserPrio
  PROVE  ObjectsSpec => []MutexInv
<1>1. ObjectsInit => MutexInv
  BY InitMutexInv
<1>2. MutexInv /\ [ObjectsNext]_objectsAll => MutexInv'
  BY NextMutexInv
<1> QED  BY <1>1, <1>2, PTL DEF ObjectsSpec

\* Of the tasks whose take of the mutex has returned there is one at most, for
\* every number of tasks, over handovers, delays and suspensions, as long as
\* the kernel runs no task that is held back; no task is created under the
\* priority of the mutex.
THEOREM MutexExcludes ==
  Api \subseteq TimingCalls /\ Boot \subseteq UserPrio => (ObjectsSpec => []MutualExclusion)
<1> SUFFICES ASSUME Api \subseteq TimingCalls, Boot \subseteq UserPrio
             PROVE  ObjectsSpec => []MutualExclusion
  OBVIOUS
<1>1. MutexInv => MutualExclusion
  <2>1. SUFFICES ASSUME MutexInv, ~strayed PROVE Cardinality(holders) <= 1
    BY DEF MutualExclusion
  <2>2. \A p, q \in holders : p = q
    <3>1. CASE object = "queue"
      BY <2>1, <3>1 DEF MutexInv, NoMutex
    <3>2. CASE object = "mutex"
      <4>1. ClaimPart
        BY <2>1, <3>2 DEF MutexInv, MutexParts
      <4> QED  BY <4>1 DEF ClaimPart, Claims
    <3> QED  BY <2>1, <3>1, <3>2 DEF MutexInv
  <2>3. CASE holders = {}
    BY <2>3, FS_EmptySet
  <2>4. ASSUME NEW p \in holders PROVE Cardinality(holders) <= 1
    <3>1. holders = {p}
      BY <2>2
    <3>2. Cardinality({p}) = 1
      BY FS_Singleton
    <3> QED  BY <3>1, <3>2
  <2> QED  BY <2>3, <2>4
<1> QED  BY <1>1, MutexInvariance, PTL

\* Whatever overlaps, a give that finds nobody in the wait list has left nobody
\* behind: no task waits for a mutex that is free.
THEOREM NobodyWaits ==
  Api \subseteq TimingCalls /\ Boot \subseteq UserPrio => (ObjectsSpec => []NobodyWaitsForFree)
<1> SUFFICES ASSUME Api \subseteq TimingCalls, Boot \subseteq UserPrio
             PROVE  ObjectsSpec => []NobodyWaitsForFree
  OBVIOUS
<1>1. MutexInv => NobodyWaitsForFree
  <2>1. SUFFICES ASSUME MutexInv, ~strayed, ~mutexTaken, NEW p \in Prio PROVE ~Waits(p)
    BY DEF NobodyWaitsForFree, Waits
  <2>2. CASE object = "queue"
    BY <2>1, <2>2 DEF MutexInv, NoMutex
  <2>3. CASE object = "mutex"
    <3>1. ClaimPart /\ WaitPart /\ RaisedPart
      BY <2>1, <2>3 DEF MutexInv, MutexParts
    <3> QED  BY <2>1, <3>1, FreeMutex
  <2> QED  BY <2>1, <2>2, <2>3 DEF MutexInv
<1> QED  BY <1>1, MutexInvariance, PTL

\* A task runs under the priority of the mutex only as its owner, while the
\* table of TCBs shows it there.
THEOREM RaisedCorrect ==
  Api \subseteq TimingCalls /\ Boot \subseteq UserPrio => (ObjectsSpec => []RaisedIsOwner)
<1> SUFFICES ASSUME Api \subseteq TimingCalls, Boot \subseteq UserPrio
             PROVE  ObjectsSpec => []RaisedIsOwner
  OBVIOUS
<1>1. MutexInv => RaisedIsOwner
  <2>1. SUFFICES ASSUME MutexInv, ~strayed, NEW p \in Tasks, taskPrio[p] = MutexPrio
                 PROVE  mutexTaken /\ p = mutexOwner /\ p = mutexTCB
    BY DEF RaisedIsOwner, Tasks
  <2>2. CASE object = "queue"
    BY <2>1, <2>2, TasksFacts DEF MutexInv, NoMutex
  <2>3. CASE object = "mutex"
    <3>1. RaisedPart
      BY <2>1, <2>3 DEF MutexInv, MutexParts
    <3> QED  BY <2>1, <3>1 DEF RaisedPart, Raised
  <2> QED  BY <2>1, <2>2, <2>3 DEF MutexInv
<1> QED  BY <1>1, MutexInvariance, PTL
-----------------------------------------------------------------------------
(* Nothing fails                                                           *)

\* The tasks are installed; what makes the priority of the mutex ready, or has
\* a yield look it up, has put a TCB there; who counts has ticks left, and the
\* TCBs point to no list nobody initialised.
SafePart ==
    /\ \A p \in Tasks : tcbPtrTbl[p] = p
    /\ halted = "no" /\ \A p \in Prio : pc[p] # "trapped"
    /\ MutexPrio \in taskPrioList => mutexTCB # NULL
    /\ \A p \in Prio : pc[p] = "publish" /\ yieldPrio[p] = MutexPrio => mutexTCB # NULL
    /\ \A p \in Prio : Counting(p) => delayTime[p] > 0
    /\ \A p \in Prio : \A b \in Bmp : bmp[p][b] # Wild
    /\ \A p \in Prio : pc[p] \in {"suspend", "resume"} => arg[p] \in UserPrio

\* What a step does to the threads, and to the rest.
SafeThreads == \A p \in Prio :
    /\ pc'[p] # "trapped"
    /\ pc'[p] = "publish" /\ yieldPrio'[p] = MutexPrio => mutexTCB # NULL
    /\ pc'[p] \in {"suspend", "resume"} => arg'[p] \in UserPrio
SafeData ==
    /\ \A p \in Prio : Counting(p)' => delayTime'[p] > 0
    /\ \A p \in Prio : \A b \in Bmp : bmp'[p][b] # Wild

LEMMA SafeStep ==
  ASSUME SafePart, SafeThreads, SafeData, UNCHANGED halted,
         \A p \in Tasks : tcbPtrTbl'[p] = tcbPtrTbl[p],
         mutexTCB # NULL => mutexTCB' # NULL,
         MutexPrio \in taskPrioList' => MutexPrio \in taskPrioList \/ mutexTCB' # NULL
  PROVE  SafePart'
BY DEF SafePart, SafeThreads, SafeData

\* A thread goes on outside of its yields.
LEMMA SafeGoes ==
  ASSUME SafePart, ThreadTypes(Places), NEW t \in Prio,
         NEW label, label \notin {"publish", "suspend", "resume", "trapped"}, Goto(t, label),
         UNCHANGED yieldPrio, \A p \in Prio : p # t => arg'[p] = arg[p]
  PROVE  SafeThreads
BY DEF SafePart, SafeThreads, ThreadTypes, Goto

LEMMA SafeStays ==
  ASSUME SafePart, UNCHANGED threads, UNCHANGED arg
  PROVE  SafeThreads
BY DEF SafePart, SafeThreads, threads

LEMMA SafeDataStays ==
  ASSUME SafePart, UNCHANGED <<timerPendingList, delayTime, bmp>>
  PROVE  SafeData
<1>1. \A p : Counting(p)' <=> Counting(p)
  BY DEF Counting
<1> QED  BY <1>1 DEF SafePart, SafeData

\* The table of tasks has something at the highest ready priority.
LEMMA HighestSafe ==
  ASSUME SafePart, ListTypes
  PROVE  /\ Highest(taskPrioList) \in Prio
         /\ Highest(taskPrioList) = MutexPrio => mutexTCB # NULL
         /\ tcbPtrTbl[Highest(taskPrioList)] # NULL
<1>1. /\ Highest(taskPrioList) \in Prio
      /\ Highest(taskPrioList) \in taskPrioList \/ Highest(taskPrioList) = 0
  <2>1. taskPrioList \in SUBSET Prio
    BY DEF ListTypes
  <2>2. CASE taskPrioList = {}
    BY <2>2, MutexFacts DEF Highest
  <2>3. CASE taskPrioList # {}
    BY <2>1, <2>3, HighestPrio
  <2> QED  BY <2>2, <2>3
<1>2. 0 # MutexPrio
  BY SizeAssumption DEF MutexPrio
<1>3. Highest(taskPrioList) = MutexPrio => mutexTCB # NULL
  BY <1>1, <1>2 DEF SafePart
<1>4. tcbPtrTbl[Highest(taskPrioList)] # NULL
  <2>1. CASE Highest(taskPrioList) = MutexPrio
    BY <1>3, <2>1 DEF mutexTCB
  <2>2. CASE Highest(taskPrioList) # MutexPrio
    BY <1>1, <2>2, TasksFacts DEF SafePart
  <2> QED  BY <2>1, <2>2
<1> QED  BY <1>1, <1>3, <1>4

LEMMA TickTaskSafe ==
  ASSUME MutexTypes, MutexParts, SafePart, TickTask, UNCHANGED arg
  PROVE  SafePart'
<1>1. PICK i \in Active :
           /\ tick = "loop" /\ halted = "no" /\ i \in UserPrio /\ i \in Tasks /\ i \in Prio
           /\ Sleeps(i) /\ ~Waits(i) /\ i \notin Backup
           /\ \/ tcbPtrTbl[i] = i /\ (TickExpire(i) \/ TickForget(i) \/ TickKeep(i))
              \/ TickFault(i)
  BY MutexEntry
<1>2. /\ ListTypes /\ delayTime \in [Prio -> 0..MaxDelay] /\ delayTime \in [Prio -> Nat]
      /\ bmp \in [Prio -> [Bmp -> List \cup {NULL, Wild}]]
  <2>1. ListTypes /\ TaskTypes /\ 0..MaxDelay \subseteq Nat
    BY DelayAssumption DEF MutexTypes, KernelTypes
  <2> QED  BY <2>1 DEF TaskTypes
<1>3. /\ tcbPtrTbl[i] = i /\ delayTime[i] > 0 /\ \A b \in Bmp : bmp[i][b] # Wild
      /\ \A p \in Active \cup Backup : p \in Prio => delayTime[p] > 0
  <2>1. \A p : p \in Active \cup Backup => Counting(p)
    BY <1>2, MutexCounting
  <2> QED  BY <1>1, <2>1 DEF SafePart
<1>4. TickExpire(i) \/ TickForget(i) \/ TickKeep(i)
  <2>1. i # NULL
    BY <1>1, TasksFacts
  <2>2. ~TickFault(i)
    <3>1. delayTime[i] # 0
      BY <1>1, <1>2, <1>3
    <3> QED  BY <1>3, <2>1, <3>1 DEF TickFault
  <2> QED  BY <1>1, <2>2
<1>5. /\ UNCHANGED <<tcbPtrTbl, halted>> /\ UNCHANGED threads
      /\ taskPrioList' \in {taskPrioList, taskPrioList \cup {i}}
  BY <1>3, <1>4 DEF TickTask, TickExpire, TickForget, TickKeep, Ready
<1>6. SafeThreads
  BY <1>5, SafeStays
<1>7. \A p \in Prio : \A b \in Bmp : bmp'[p][b] # Wild
  <2>1. bmp' \in {bmp, [bmp EXCEPT ![i] = NoList]}
    BY <1>3, <1>4 DEF TickExpire, TickForget, TickKeep
  <2>2. \A b \in Bmp : NoList[b] # Wild
    BY PointerAssumption DEF NoList
  <2>3. CASE bmp' = bmp
    BY <2>3 DEF SafePart
  <2>4. CASE bmp' = [bmp EXCEPT ![i] = NoList]
    BY <1>1, <1>2, <2>2, <2>4 DEF SafePart
  <2> QED  BY <2>1, <2>3, <2>4
<1>8. \A p \in Prio : Counting(p)' => delayTime'[p] > 0
  <2>1. \/ delayTime' = [delayTime EXCEPT ![i] = 0] /\ Turn(Active \ {i}, Backup)
        \/ /\ delayTime[i] > 1 /\ delayTime' = [delayTime EXCEPT ![i] = delayTime[i] - 1]
           /\ Turn(Active \ {i}, Backup) \/ Turn(Active \ {i}, Backup \cup {i})
    BY <1>3, <1>4 DEF TickExpire, TickForget, TickKeep
  <2>2. \A p \in Prio : p # i => delayTime'[p] = delayTime[p]
    BY <1>2, <2>1
  <2>3. PICK backup \in {Backup, Backup \cup {i}} :
             /\ Turn(Active \ {i}, backup)
             /\ i \in backup => delayTime'[i] > 0
    <3>1. CASE Turn(Active \ {i}, Backup)
      BY <1>1, <3>1
    <3>2. CASE delayTime[i] > 1 /\ delayTime' = [delayTime EXCEPT ![i] = delayTime[i] - 1]
               /\ Turn(Active \ {i}, Backup \cup {i})
      <4>1. delayTime'[i] = delayTime[i] - 1 /\ delayTime[i] \in Nat
        BY <1>1, <1>2, <3>2
      <4>2. delayTime'[i] > 0
        BY <3>2, <4>1
      <4> QED  BY <3>2, <4>2
    <3> QED  BY <2>1, <3>1, <3>2
  <2>4. \A p : Counting(p)' <=> p \in (Active \ {i}) \cup backup
    <3>1. /\ timerPendingList' = [timerPendingList EXCEPT ![activeList] = Active \ {i},
                                                          ![1 - activeList] = backup]
          /\ timerPendingList \in [{0, 1} -> SUBSET Prio] /\ activeList \in {0, 1}
      BY <1>2, <2>3 DEF Turn, ListTypes
    <3>2. timerPendingList'[0] \cup timerPendingList'[1] = (Active \ {i}) \cup backup
      BY <3>1
    <3> QED  BY <3>2 DEF Counting
  <2>5. ASSUME NEW p \in Prio, Counting(p)' PROVE delayTime'[p] > 0
    <3>1. p = i \/ p \in Active \cup Backup
      BY <2>3, <2>4, <2>5
    <3>2. CASE p = i
      BY <2>3, <2>4, <2>5, <3>2
    <3>3. CASE p # i /\ p \in Active \cup Backup
      BY <1>3, <2>2, <3>3
    <3> QED  BY <3>1, <3>2, <3>3
  <2> QED  BY <2>5
<1>9. MutexPrio \in taskPrioList' => MutexPrio \in taskPrioList
  BY <1>1, <1>5, TasksFacts
<1>10. UNCHANGED mutexTCB
  BY <1>5 DEF mutexTCB
<1> QED  BY <1>5, <1>6, <1>7, <1>8, <1>9, <1>10, SafeStep DEF SafeData

\* Steps that leave the tables, the timers and the ready list alone.
LEMMA SafeAside ==
  ASSUME SafePart, SafeThreads, UNCHANGED <<lists, objects, halted>>
  PROVE  SafePart'
<1>1. UNCHANGED <<taskPrioList, timerPendingList, tcbPtrTbl, delayTime, bmp>> /\ UNCHANGED mutexTCB
  BY DEF lists, objects, tcb, mutexTCB
<1> QED  BY <1>1, SafeDataStays, SafeStep

LEMMA InterruptSafe ==
  ASSUME MutexTypes, MutexParts, SafePart, Interrupts
  PROVE  SafePart'
<1>0. ListTypes /\ UNCHANGED arg
  BY DEF MutexTypes, KernelTypes, Interrupts
<1>1. CASE TickTask
  BY <1>0, <1>1, TickTaskSafe
<1>2. CASE TickEnter \/ PendSV
  BY <1>0, <1>2, SafeStays, SafeAside DEF TickEnter, PendSV
<1>3. CASE TickOut
  <2>1. /\ UNCHANGED <<lists, objects, halted>> /\ UNCHANGED threads
    BY <1>0, <1>3, HighestSafe DEF TickOut
  <2> QED  BY <1>0, <2>1, SafeStays, SafeAside
<1> QED  BY <1>1, <1>2, <1>3 DEF Interrupts, Interrupt

LEMMA YieldSafe ==
  ASSUME MutexTypes, MutexParts, SafePart, NEW t \in Prio, Yield(t), UNCHANGED arg
  PROVE  SafePart'
<1>0. /\ ListTypes /\ CpuTypes
      /\ pc \in [Prio -> Places] /\ yieldPrio \in [Prio -> Prio] /\ after[t] \in {"run", "taken"}
  BY DEF MutexTypes, KernelTypes, MutexParts, ThreadTypes, TakePart
<1>1. UNCHANGED <<lists, objects, halted>>
  BY DEF Yield, YieldFind, YieldPublish, cpu
<1>2. CASE YieldFind(t)
  <2>1. irqCounter = 0
    BY <1>0, <1>2 DEF YieldFind, At, Runs, CpuTypes
  <2>2. /\ yieldPrio' = [yieldPrio EXCEPT ![t] = Highest(taskPrioList)]
        /\ pc' = [pc EXCEPT ![t] = "publish"]
    BY <1>2, <2>1 DEF YieldFind, Goto
  <2>3. SafeThreads
    <3>1. \A p \in Prio : p # t => pc'[p] = pc[p] /\ yieldPrio'[p] = yieldPrio[p]
      BY <1>0, <2>2
    <3>2. pc'[t] = "publish" /\ yieldPrio'[t] = Highest(taskPrioList)
      BY <1>0, <2>2
    <3>3. Highest(taskPrioList) = MutexPrio => mutexTCB # NULL
      BY <1>0, HighestSafe
    <3> QED  BY <3>1, <3>2, <3>3 DEF SafeThreads, SafePart
  <2> QED  BY <1>1, <2>3, SafeAside
<1>3. CASE YieldPublish(t)
  <2>1. tcbPtrTbl[yieldPrio[t]] # NULL
    <3>1. CASE yieldPrio[t] = MutexPrio
      BY <1>3, <3>1 DEF YieldPublish, At, SafePart, mutexTCB
    <3>2. CASE yieldPrio[t] # MutexPrio
      BY <1>0, <3>2, TasksFacts DEF SafePart
    <3> QED  BY <3>1, <3>2
  <2>2. pc' = [pc EXCEPT ![t] = after[t]] /\ yieldPrio' = [yieldPrio EXCEPT ![t] = 0]
    BY <1>3, <2>1 DEF YieldPublish, Goto
  <2>3. SafeThreads
    <3>1. \A p \in Prio : p # t => pc'[p] = pc[p] /\ yieldPrio'[p] = yieldPrio[p]
      BY <1>0, <2>2
    <3>2. pc'[t] \in {"run", "taken"}
      BY <1>0, <2>2
    <3> QED  BY <3>1, <3>2 DEF SafeThreads, SafePart
  <2> QED  BY <1>1, <2>3, SafeAside
<1> QED  BY <1>2, <1>3 DEF Yield

LEMMA CallsSafe ==
  ASSUME Api \subseteq TimingCalls, MutexTypes, MutexParts, SafePart, NEW t \in Prio,
         SuspendTask(t) \/ ResumeTask(t) \/ Call(t)
  PROVE  SafePart'
<1>0. /\ ListTypes /\ ThreadTypes(Places) /\ delayTime \in [Prio -> 0..MaxDelay]
      /\ arg \in [Prio -> Prio] /\ pc \in [Prio -> Places]
  BY DEF MutexTypes, KernelTypes, TaskTypes, ThreadTypes
<1>1. CASE SuspendTask(t) \/ ResumeTask(t)
  <2>1. arg[t] \in UserPrio /\ tcbPtrTbl[arg[t]] # NULL /\ arg[t] # MutexPrio
    BY <1>1, TasksFacts DEF SafePart, SuspendTask, ResumeTask, At
  <2>2. /\ UNCHANGED <<timerPendingList, tcbPtrTbl, delayTime, bmp, halted, yieldPrio>>
        /\ Goto(t, "yield") /\ arg' = [arg EXCEPT ![t] = 0]
        /\ taskPrioList' \in {taskPrioList, taskPrioList \ {arg[t]}, taskPrioList \cup {arg[t]}}
    BY <1>1, <2>1 DEF SuspendTask, ResumeTask, Leave, Ready, Unready
  <2>3. SafeThreads /\ SafeData
    BY <1>0, <2>2, SafeGoes, SafeDataStays
  <2>4. MutexPrio \in taskPrioList' => MutexPrio \in taskPrioList
    BY <2>1, <2>2
  <2>5. UNCHANGED mutexTCB
    BY <2>2 DEF mutexTCB
  <2> QED  BY <2>2, <2>3, <2>4, <2>5, SafeStep
<1>2. ASSUME NEW ticks \in 1..MaxDelay, Delay(t, ticks) PROVE SafePart'
  <2>1. /\ UNCHANGED <<activeList, tcbPtrTbl, bmp, halted, yieldPrio>>
        /\ Goto(t, "yield") /\ arg' = [arg EXCEPT ![t] = 0]
        /\ taskPrioList' = taskPrioList \ {t}
        /\ delayTime' = [delayTime EXCEPT ![t] = ticks]
        /\ timerPendingList' = [timerPendingList EXCEPT ![activeList] = @ \cup {t}]
    BY <1>2 DEF Delay, Leave, Unready, cpu
  <2>2. SafeThreads
    BY <1>0, <2>1, SafeGoes
  <2>3. \A p : Counting(p)' => Counting(p) \/ p = t
    BY <1>0, <2>1 DEF ListTypes, Counting
  <2>4. ASSUME NEW p \in Prio, Counting(p)' PROVE delayTime'[p] > 0
    <3>1. CASE p = t
      <4>1. delayTime'[p] = ticks /\ ticks > 0
        BY <1>0, <2>1, <3>1
      <4> QED  BY <4>1
    <3>2. CASE p # t
      <4>1. delayTime'[p] = delayTime[p] /\ Counting(p)
        BY <1>0, <2>1, <2>3, <2>4, <3>2
      <4> QED  BY <4>1 DEF SafePart
    <3> QED  BY <3>1, <3>2
  <2>5. SafeData
    BY <2>1, <2>4 DEF SafeData, SafePart
  <2>6. UNCHANGED mutexTCB
    BY <2>1 DEF mutexTCB
  <2> QED  BY <2>1, <2>2, <2>5, <2>6, SafeStep
<1>3. ASSUME NEW p \in UserPrio, SuspendCheck(t, p) \/ ResumeCheck(t, p) PROVE SafePart'
  <2>1. PICK label \in {"suspend", "resume"} :
             pc' = [pc EXCEPT ![t] = label] /\ arg' = [arg EXCEPT ![t] = p]
    BY <1>3 DEF SuspendCheck, ResumeCheck, Enter, Goto
  <2>2. UNCHANGED <<lists, objects, halted, yieldPrio>>
    BY <1>3 DEF SuspendCheck, ResumeCheck, cpu
  <2>3. SafeThreads
    <3>1. \A q \in Prio : q # t => pc'[q] = pc[q] /\ arg'[q] = arg[q]
      BY <1>0, <2>1
    <3>2. pc'[t] = label /\ arg'[t] = p
      BY <1>0, <2>1
    <3> QED  BY <2>2, <3>1, <3>2 DEF SafeThreads, SafePart
  <2> QED  BY <2>2, <2>3, SafeAside
<1>4. ASSUME Call(t)
      PROVE  \/ \E ticks \in 1..MaxDelay : Delay(t, ticks)
             \/ \E p \in UserPrio : SuspendCheck(t, p) \/ ResumeCheck(t, p)
  BY <1>4 DEF Call, Calls, TimingCalls, CreateAlloc, DeleteCheck, CreateOutOfMemory, Return
<1> QED  BY <1>1, <1>2, <1>3, <1>4

\* The mutex's calls, but for its give.
LEMMA TakesSafe ==
  ASSUME MutexTypes, MutexParts, ~Strays, SafePart, NEW t \in Prio,
         \/ MutexCreate(t) \/ MutexDelete(t) \/ TakeBlocks(t) \/ TakeFree(t)
         \/ TakeOwn(t) \/ TakeRaise(t) \/ Taken(t)
  PROVE  SafePart'
<1>0. /\ ThreadTypes(Places) /\ tcbPtrTbl \in [Prio -> Prio \cup {NULL}]
      /\ bmp \in [Prio -> [Bmp -> List \cup {NULL, Wild}]]
  BY DEF MutexTypes, KernelTypes, TaskTypes
<1>1. CASE MutexCreate(t) \/ MutexDelete(t)
  <2>1. /\ UNCHANGED <<taskPrioList, timerPendingList, tcbPtrTbl, delayTime, bmp, halted>>
        /\ UNCHANGED threads /\ UNCHANGED arg
    BY <1>1 DEF MutexCreate, MutexDelete, kernelVars, lists, objects, tcb, cpu
  <2>2. UNCHANGED mutexTCB
    BY <2>1 DEF mutexTCB
  <2> QED  BY <2>1, <2>2, SafeStays, SafeDataStays, SafeStep
<1>2. CASE TakeFree(t) \/ TakeOwn(t) \/ Taken(t)
  <2>1. /\ UNCHANGED <<lists, objects, halted>> /\ UNCHANGED <<yieldPrio, arg>>
        /\ \E label \in {"own", "raise", "run"} : Goto(t, label)
    BY <1>2 DEF TakeFree, TakeOwn, Taken, cpu
  <2>2. SafeThreads
    BY <1>0, <2>1, SafeGoes
  <2> QED  BY <2>1, <2>2, SafeAside
<1>3. CASE TakeBlocks(t)
  <2>1. /\ UNCHANGED <<timerPendingList, tcbPtrTbl, delayTime, halted>>
        /\ UNCHANGED <<yieldPrio, arg>> /\ Goto(t, "yield")
        /\ taskPrioList' = taskPrioList \ {taskPrio[t]}
        /\ bmp' = [bmp EXCEPT ![t]["mtx"] = TasksPending]
    BY <1>3 DEF TakeBlocks, Unready, cpu
  <2>2. SafeThreads
    BY <1>0, <2>1, SafeGoes
  <2>3. \A p \in Prio : \A b \in Bmp : bmp'[p][b] # Wild
    <3>1. TasksPending # Wild
      BY MutexFacts, PointerAssumption
    <3>2. \A p \in Prio : \A b \in Bmp : bmp'[p][b] \in {bmp[p][b], TasksPending}
      BY <1>0, <2>1
    <3> QED  BY <3>1, <3>2 DEF SafePart
  <2>4. SafeData
    BY <2>1, <2>3 DEF SafeData, SafePart, Counting
  <2>5. UNCHANGED mutexTCB
    BY <2>1 DEF mutexTCB
  <2> QED  BY <2>1, <2>2, <2>4, <2>5, SafeStep
<1>4. CASE TakeRaise(t)
  <2>1. /\ UNCHANGED <<timerPendingList, delayTime, bmp, halted>>
        /\ UNCHANGED <<yieldPrio, arg>> /\ Goto(t, "yield") /\ At(t, "raise")
        /\ tcbPtrTbl' = [tcbPtrTbl EXCEPT ![MutexPrio] = t]
    BY <1>4 DEF TakeRaise, Raise, cpu
  <2>2. SafeThreads /\ SafeData
    BY <1>0, <2>1, SafeGoes, SafeDataStays
  <2>3. t # NULL
    BY <2>1, MutexCaller, TasksFacts
  <2>4. mutexTCB' # NULL /\ \A p \in Tasks : tcbPtrTbl'[p] = tcbPtrTbl[p]
    BY <1>0, <2>1, <2>3, TasksFacts, MutexFacts DEF mutexTCB
  <2> QED  BY <2>1, <2>2, <2>4, SafeStep
<1> QED  BY <1>1, <1>2, <1>3, <1>4

\* Who gives the mutex, and who gets it, have their TCBs.
LEMMA GiveSafe ==
  ASSUME MutexTypes, MutexParts, ~Strays, SafePart, NEW t \in Prio, Give(t)
  PROVE  SafePart'
<1>1. /\ t \in Tasks /\ ~Waits(t) /\ mutexOwner = t /\ mutexTCB = t
      /\ Pends.prioTbl \in SUBSET UserPrio
  BY Giver
<1>2. /\ WaitPart /\ ThreadTypes(Places) /\ tcbPtrTbl \in [Prio -> Prio \cup {NULL}]
  BY DEF MutexParts, MutexTypes, KernelTypes, TaskTypes
<1>3. t # NULL /\ tcbPtrTbl[t] = t
  BY <1>1, TasksFacts DEF SafePart
<1>4. Pending.prioGrp => NewOwner \in Tasks /\ tcbPtrTbl[NewOwner] = NewOwner /\ NewOwner # NULL
  <2>1. SUFFICES ASSUME Pending.prioGrp PROVE NewOwner \in Tasks
    BY TasksFacts DEF SafePart
  <2>2. Pending.prioTbl \in SUBSET UserPrio /\ Pending.prioTbl # {}
    BY <1>1, <1>2, <2>1, GiverLeaves
  <2>3. Highest(Pending.prioTbl) \in Pending.prioTbl
    BY <2>2, MutexFacts, HighestPrio
  <2> QED  BY <2>1, <2>2, <2>3, TasksFacts DEF NewOwner, First
<1>5. /\ UNCHANGED halted /\ (GiveFree \/ GiveOn)
      /\ UNCHANGED <<timerPendingList, delayTime, bmp>> /\ UNCHANGED <<yieldPrio, arg>>
      /\ Goto(t, "yield")
  BY <1>1, <1>3, <1>4 DEF Give
<1>6. SafeThreads /\ SafeData
  BY <1>2, <1>5, SafeGoes, SafeDataStays
<1>7. CASE GiveFree
  <2>1. UNCHANGED tcbPtrTbl /\ taskPrioList' = taskPrioList \ {taskPrio[mutexTCB]}
    BY <1>7 DEF GiveFree, Unready
  <2>2. UNCHANGED mutexTCB
    BY <2>1 DEF mutexTCB
  <2> QED  BY <1>5, <1>6, <2>1, <2>2, SafeStep
<1>8. CASE GiveOn
  <2>1. tcbPtrTbl' = [tcbPtrTbl EXCEPT ![MutexPrio] = NewOwner] /\ NewOwner # NULL
    BY <1>4, <1>8 DEF GiveOn
  <2>2. mutexTCB' # NULL /\ \A p \in Tasks : tcbPtrTbl'[p] = tcbPtrTbl[p]
    BY <1>2, <2>1, TasksFacts, MutexFacts DEF mutexTCB
  <2> QED  BY <1>5, <1>6, <2>2, SafeStep
<1> QED  BY <1>5, <1>7, <1>8

LEMMA MutexStepSafe ==
  ASSUME Api \subseteq TimingCalls, MutexTypes, MutexParts, ~Strays, SafePart, MutexStep
  PROVE  SafePart'
<1>1. CASE Interrupts
  BY <1>1, InterruptSafe
<1>2. ASSUME NEW t \in Prio, Proceed(t) \/ Call(t) PROVE SafePart'
  <2>1. pc[t] \notin {"create", "delete"}
    BY PlacesOK DEF MutexTypes, ThreadTypes, TypesLabels
  <2>2. \/ Yield(t) /\ UNCHANGED arg
        \/ SuspendTask(t) \/ ResumeTask(t) \/ Call(t)
    BY <1>2, <2>1 DEF Proceed, CreateRefused, CreateTask, DeleteTask, At
  <2> QED  BY <2>2, YieldSafe, CallsSafe
<1>3. ASSUME NEW t \in Prio, MutexCall(t) \/ MutexProceeds(t) PROVE SafePart'
  BY <1>3, TakesSafe, GiveSafe DEF MutexCall, MutexProceeds
<1> QED  BY <1>1, <1>2, <1>3 DEF MutexStep

SafeInv == MutexInv /\ (object = "mutex" /\ ~strayed => SafePart)

LEMMA InitSafeInv ==
  ASSUME Boot = UserPrio, ObjectsInit
  PROVE  SafeInv
<1>1. KernelInit(Boot) /\ MutexInv /\ arg = [p \in Prio |-> 0]
  BY InitMutexInv DEF ObjectsInit, MutexInit, Init
<1>2. IdlePrio \in Prio /\ MutexPrio \notin Boot \cup {IdlePrio}
  BY TasksFacts, SizeAssumption DEF IdlePrio, MutexPrio, Prio
<1>3. \A p \in Tasks : p \in Boot \cup {IdlePrio}
  BY TasksFacts
<1>4. \A p \in Tasks : tcbPtrTbl[p] = p
  BY <1>1, <1>3, TasksFacts DEF KernelInit
<1>5. /\ halted = "no" /\ \A p \in Prio : pc[p] = "run"
      /\ MutexPrio \notin taskPrioList
      /\ timerPendingList[0] = {} /\ timerPendingList[1] = {}
      /\ \A p \in Prio : bmp[p] = NoList
  BY <1>1, <1>2 DEF KernelInit
<1>6. \A p : ~Counting(p)
  BY <1>5 DEF Counting
<1>7. \A p \in Prio : \A b \in Bmp : bmp[p][b] # Wild
  BY <1>5, PointerAssumption DEF NoList
<1> QED  BY <1>1, <1>4, <1>5, <1>6, <1>7 DEF SafeInv, SafePart

LEMMA NextSafeInv ==
  ASSUME Api \subseteq TimingCalls, SafeInv, [ObjectsNext]_objectsAll
  PROVE  SafeInv'
<1>1. MutexInv /\ MutexInv'
  BY NextMutexInv DEF SafeInv
<1>2. CASE object = "queue" /\ UNCHANGED object
  BY <1>1, <1>2 DEF SafeInv
<1>3. CASE object = "mutex" /\ MutexNext /\ UNCHANGED object
  <2>1. SUFFICES ASSUME ~strayed' PROVE SafePart'
    BY <1>1 DEF SafeInv
  <2>2. ~strayed /\ MutexStep
    BY <1>3, <2>1 DEF MutexNext
  <2>3. MutexTypes /\ MutexParts /\ ~Strays /\ SafePart
    BY <1>1, <1>3, <2>2 DEF SafeInv, MutexInv, TypeInv, MutexTypes
  <2> QED  BY <2>2, <2>3, MutexStepSafe
<1>4. CASE UNCHANGED objectsAll
  <2>1. /\ UNCHANGED <<lists, objects, halted>> /\ UNCHANGED threads
        /\ UNCHANGED arg /\ UNCHANGED <<strayed, object>>
    BY <1>4 DEF objectsAll, insertVars, vars, kernelVars, cpu
  <2>2. SafePart => SafePart'
    BY <2>1, SafeStays, SafeAside
  <2> QED  BY <1>1, <2>1, <2>2 DEF SafeInv
<1> QED  BY <1>2, <1>3, <1>4 DEF ObjectsNext

\* With a mutex, and every task created before the start: no assertion of the
\* kernel fails and nothing follows a pointer to a TCB that is not there, not
\* even over handovers to a waiter and the yields between them, as long as no
\* task that is held back runs.
THEOREM ObjectsFaultFree ==
  Api \subseteq TimingCalls /\ Boot = UserPrio => (ObjectsSpec => []ObjectsNoFault)
<1> SUFFICES ASSUME Api \subseteq TimingCalls, Boot = UserPrio
             PROVE  ObjectsSpec => []ObjectsNoFault
  OBVIOUS
<1>1. ObjectsInit => SafeInv
  BY InitSafeInv
<1>2. SafeInv /\ [ObjectsNext]_objectsAll => SafeInv'
  BY NextSafeInv
<1>3. SafeInv /\ (object = "queue" => ObjectsNoFault) => ObjectsNoFault
  BY DEF SafeInv, MutexInv, SafePart, ObjectsNoFault, NoFault, Protected
<1>4. ObjectsSpec => [](object = "queue" => ObjectsNoFault)
  BY QueueFaultFree
<1> QED  BY <1>1, <1>2, <1>3, <1>4, PTL DEF ObjectsSpec
=============================================================================
