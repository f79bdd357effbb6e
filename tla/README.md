# A verification of the uLipeRtosV4 kernel

uLipeRtosV4 is a preemptive real-time kernel for ARM Cortex-M processors. This
directory holds TLA+ modules translated from its source, the TLC configurations
that check them on small instances, and theorems that TLAPS checks for every
value of the constants.

The configuration modelled is the one of `include/microkernel/OsConfig.h`: one
Cortex-M0, 8 tasks, `OS_DEBUG` on, the portable search (`OS_FAST_SCHED` 0).
Device drivers are off there; `Driver` models the kernel with them on, every
other module with SysTick as the only interrupt.

## 1. The system

| component | state | operations | interacts with |
|---|---|---|---|
| priority lists (`OsKernel.h`, `OsKernel.c`) | `prioGrp`, `prioTbl` | `uLipePrioSet`, `uLipePrioClr`, `uLipeKernelFindHighPrio` | every list below is one |
| scheduler (`OsKernel.c`, `arch/arm_cm0`) | `taskPrioList`, `currentTask`, `highPrioTask`, `irqCounter` | yield, tick, IrqIn/IrqOut, init, start, SVC, PendSV | reads the ready list; every call ends in a yield |
| timers (`OsKernel.c`) | `timerPendingList` (two lists and which is active), `delayTime` | the tick works one list off and moves what goes on waiting to the other | armed by delay and by every call with a timeout |
| tasks (`OsTask.c`) | `tcbPtrTbl`, `tasksCount`, the TCBs | create, delete, suspend, resume, delay, return of the task's function | ready list, timers, heap |
| semaphores (`OsSem.c`) | `semCount`, `semLimit`, `tasksWaiting` | create, take, give, delete | ready list, timers, the TCB's `semBmp` |
| mutexes (`OsMutex.c`) | owner, taken, `tasksPending`, the global `mutexTCB` | create, take, give, delete | raise the owner to the highest priority |
| event flags (`OsFlags.c`) | register, two wait lists | create, pend, post, delete | ready list, timers, `flagsBmp` |
| queues (`OsQueue.c`) | ring, two wait lists | create, insert, remove, flush, delete | ready list, timers, heap |
| heap (`OsMem.c`) | TLSF pool | alloc, free | create and delete of everything |
| devices (`OsDeviceDriver.c`) | table, reference counts, a semaphore each | open, start and finish of a transfer | semaphores |
| KL25Z drivers | busy and success flags | UART and I2C transfers with timeouts, their interrupts | devices |
| GPIO, pin multiplexer, console printf, M3/M4/M7 port | registers, text | - | - |

**What is hard.** Threads and the tick share all lists; only some of the accesses
lie in critical sections. `uLipeKernelTaskYield` itself does not: it searches the
ready list with the interrupts enabled and stores the answer later. Several calls
test before their critical section what they rely on inside. Timeouts leave
entries behind in lists when something else ends the wait. Deletion leaves
entries in every list but the ready list. The memory of new objects is partly
uninitialised. `PROJECT.json` lists these hazards line by line.

**What makes each part correct.** Priority lists: they behave like sets, and the
search answers the highest member. Scheduler: the ready list holds exactly the
tasks nothing blocks, and the highest of them gets the processor. Timers: every
sleeper counts every tick once and wakes. Tasks: a deleted task does not run, no
block is freed twice, no assertion fails. Semaphores: the count stays in its
bounds, a blocked task is where a give looks for it, a timeout ends the wait.
Mutexes: one owner, handed over to a waiter, priorities restored. Flags: a waiter
is woken exactly when its condition holds. Queues: first in, first out, nobody
blocked on a queue with room (or data). Heap: blocks in use do not overlap.
Devices: one transfer at a time, and a transfer ends by its own interrupt or its
own timeout.

## 2. The modules

    Highest ── PrioQueue                        what a list promises
       │  ╲
       │   PrioList ── PrioScan                 the bitmap; its preempted search
       │
     Kernel ── Task ─┬─ Sem ── Device ─┬─ Uart ─┬─ Driver   devices and drivers
                │    │                 └─ I2c ──┘
         AlarmClock  ├─ Queue ── BlockingInsert ─┬─ Objects
                     │    └ Fifo                 │
                     ├─ Mutex ───────────────────┘
                     └─ Flags
     Mem ── Allocator                           the heap, byte by byte

A line is an EXTENDS, or an INSTANCE for `PrioQueue`, `AlarmClock`, `Fifo` and
`Allocator`, the abstract specifications. What the five branches of Task and Sem
share, the wait lists and the loops that wake the tasks in them (`Enlist`,
`Delist`, `First`, `FirstWaiter`, `Freed`, `Wake`), is in Kernel.

**PrioList** models `OsPrioList_t` to the bit; a word is the set of its bits that
are set. `PrioSet`, `PrioClr` and `Find` are the three functions. The search
follows the code through the empty list, where it indexes the table with 31:
`stray` stands for the word it then reads, and the wrap at the end makes 0 of the
answer. `PrioQueue` is the set with a highest member it implements.
**PrioScan** is the search as a yield runs it, with the interrupts enabled:
`ScanGroup` and `ScanTable` are its two reads, `Preempt` what comes between.

**Kernel** takes a list as the set PrioList shows it to be. A task is named by
the priority it was created with; the fields of its TCB are the functions
`taskStatus`, `delayTime` and `bmp` (the four pointers to wait lists).
Each step of a thread is a stretch of code nothing interrupts in a way that
matters:

| action | code |
|---|---|
| `YieldFind`, `YieldPublish` | the search, and the rest, of `uLipeKernelTaskYield` |
| `TickEnter`, `TickTask`, `TickOut` | IrqIn and first search, one turn of the loop, IrqOut, of `uLipeKernelRtosTick` |
| `TickExpire`, `TickForget`, `TickKeep`, `TickFault` | the branches of one turn |
| `PendSV` | `PendSV_Handler` |

SysTick and PendSV have the same effective priority on the M0, which implements
two bits of it, so neither preempts the other, and PendSV has the lower exception
number and goes first: `TickEnter` and the threads' steps require that no PendSV
is pending. A failed `uLipeAssert`, an access through NULL or a write out of
bounds stops a thread ("trapped") or the model (`halted`); nothing is claimed
about what would follow.

**Task** adds the calls: the check before the critical section
(`SuspendCheck`, `ResumeCheck`, `DeleteCheck`, `CreateAlloc`), the critical
section (`SuspendTask`, ...), and then the yield of Kernel. `Delay` has no check.
`Return` is `uLipeTaskEntry` after the task's function. `CreateOutOfMemory` and
`CreateRefused` are the error returns, each with the blocks it forgets or frees.
The heap is a count of blocks here; once one was freed, the fields that create
leaves uninitialised hold any of a few values (`RawTCB`), one stale pointer at a
time, and a new object's wait lists, where the code does not clear them, are
empty or hold every user priority.

**Sem** adds the semaphores. The first critical section of take is `Take`; the
entry into the wait list, which no critical section protects, is four steps
(`TakeStore`, `TakeGroup`, `TakeRead`, `TakeWrite`: the pointer in the TCB, the
group, and the read and the write of the table's word); `TakeBlock` is the second
critical section and `Retake` the third, after the yield. Wait lists keep their
two levels, because these steps let the two disagree. `TakeFrom` is the same call
for the drivers, which say where they go on with a key and without.

**Mutex** has the priority each task runs under as a field of its own,
`taskPrio`; a task is still named by the priority it was created with, and
`mutexTCB`, as in the code, is the entry of `tcbPtrTbl` for `OS_MUTEX_PRIO`.
`TakeFree`, `TakeOwn`, `TakeRaise` are the first critical section of a take that
finds the mutex free, the store of the owner, which no critical section protects,
and the second one; `Taken` is the return, after the yield, and `holders` the
tasks that have seen it. `GiveFree` and `GiveOn` are the two ends of a give.
`strayed` is history: the late dispatch of `Task_stale` has brought back a task
that is held back, and it has gone on beyond its yield.

**Queue** has one critical section per call for what finds a message or a slot.
A remove that is to block leaves it (`RemoveEmpty`) and enters another
(`EmptyBlock`), whatever came in between. A call with `OS_Q_NON_BLOCK` looks a
second time (`Again`) and, if it now finds what it wants, goes on to change the
ring with no protection at all: `RawIndex` to `RawWake` are the reads and writes
of that path. **BlockingInsert** is the insert with `OS_Q_BLOCK_FULL`, which
leaves its critical section and enters no other: nine steps, each a read or a
write of a word shared with the tick. `Fifo` is what the queue promises.
**Objects** is an application with one queue or one mutex.

**Flags** has one action per call, since each call is one critical section. The
loop of a post is a function of the register and the waiters (`Register`): who is
met from the highest down, what each finds, what it leaves for the next.

**Device** adds the device table: `Open` and `OpenCreate` (the count is looked at
first and raised after the semaphore was created), `StartSync` and `FinishSync`,
and the interrupt, `Completes`, which is of a higher priority than the tick and
comes at any moment outside a critical section, in the middle of the tick's
handler too: `FinishSync` then may lose the ready bit it sets, because the tick
reads, changes and writes back the same word. **Uart** and **I2c** are the
drivers: a call checks the flags, later locks the device (`busy`) and hands the
transfer to the hardware, waits, and unlocks. **Driver** puts the two together
and states the properties.

**Mem** is the allocator to the byte: a block is the address of its header,
`tlsf` the record of both bitmaps, the matrix of lists and the headers. `MemAlloc`
and `MemFree` compose the macros (`Mapping`, `Suitable`, `Extract`, `Insert`,
`Split`, `Join`...) in the code's order. `Allocator` promises that what is handed
out is aligned, large enough, inside the area, and disjoint from the rest.

The proofs are in modules of their own: **HighestProofs** and **PrioListProofs**
for the lists, **TaskProofs** for the kernel and its tasks, on top of it
**SemProofs**, **ObjectsProofs**, **FlagsProofs** and **DriverProofs**, and
**MemProofs** for the heap.

`MC*` modules give the constants their values. A definition whose comment starts
with "Faulty" is a version of the one below it with a bug one could make there;
it is not part of the model and shows that the properties can fail.

## 3. What TLC checks

| run | instance | shows |
|---|---|---|
| `PrioList_small` | 70 priorities, three words, 8 priorities used at the ends of the words | set, clear and search implement a set with its maximum (`AbsSpec`, `FindIsHighest`); the levels agree; the answer always indexes `tcbPtrTbl` |
| `PrioScan` | 31 priorities, 5 used | a preempted search answers what was the highest at some moment |
| `Task_timing` | 2 user tasks, delays up to 3, delay/suspend/resume | no task is lost between the timer lists, which implement `AlarmClock`; the highest ready task runs; every delay ends |
| `Task_lifecycle` | 2 user tasks at start, delays up to 2, all calls, 8 blocks of heap | the ready list, deletion and heap invariants with creation and deletion |
| `Task_stale` | as `Task_timing` | **fails**: a task that sleeps runs |
| `Task_delete` | as `Task_lifecycle` | **fails**: the tick finds an entry whose task is gone or counts nothing |
| `Sem` | 2 tasks, one semaphore created and deleted by them, timeouts up to 2, limit 1 | count, ready list, stale timer entries, no assertion fails, a take with a timeout ends |
| `Sem_lost` | as `Sem`, timeouts up to 1, the semaphore there from the start | **fails**: a blocked task is in no wait list |
| `Objects` | 2 tasks with delays, and one queue of 2 slots used with one of the three options, or one mutex | the queue implements `Fifo`; receivers are listed; lists and status agree; until a task strays, one holder, nobody waits for a free mutex, its priority stays with its owner |
| `Flags` | 1 task that posts, 2 that pend, two flags | a waiter is in the list the next post works off; a post satisfies all it can; what is consumed releases no second task |
| `Driver` | 2 tasks, one UART or one I2C device, all its calls | references are counted over the race of two first openings; a locked device has a caller who unlocks it; a read from the bus succeeds with its own data only |
| `Mem` | a heap of 1 KB, requests of 1, 140, 280 and 17000 bytes, 3 blocks held | headers, neighbours, lists and bitmaps agree; a block is found exactly when there is one; the heap implements `Allocator` |

**The bounds.** Two user tasks and the idle task already give one task that
preempts and one that is preempted, and a priority is free for a creation in
`N = 4` only when a task has been deleted, which makes the stale-entry cases
frequent. The races need two threads and the tick. Delays of 2 and 3 ticks make
an entry change lists once and twice; with 1 an entry expires at its first tick.
Eight blocks are the six of the tasks at start and room for one creation, so that
both allocations can fail; nine, in `Objects`, leave room for a queue, its
deletion, which forgets a block, a second queue on recycled memory, and a
creation that fails. Two slots let the
ring wrap, be partly full, and be full. In `Objects` the tasks of a queue wait
and delay for one tick, so that a late entry of a wait that is over is met by the
next wait. Those of a mutex delay for one or two, and two are needed: with one
tick no task is ever dispatched late while it still sleeps. `MCBounds` follows a
mutex up to the first step of such a task and not beyond. Flags needs two
waiters for one to consume what the other waits for, a third task to post, and
two flags for a group. In `Driver` eight
blocks are the tasks' six and two semaphores: the second of two racing openings
replaces the first one's semaphore or, when the application has made one of its
own, finds no memory and stores NULL; the two semaphores are interchangeable,
which the run's symmetry uses (it checks no liveness). In `Mem` the four sizes fall
below and above `SMALL_BLOCK`, into two second levels, and beyond the largest
block, to which they are cut; three blocks held leave up to four free ones, with
free neighbours on either side or both. The used priorities of the list runs lie
on both sides of every word boundary. `MaxDelay`, `MaxGive`, `MaxLive`,
`HeapBlocks` and the limits above are all the bounds there are; counters of the
code keep their width (`% 65536` in Queue, the 16 bits of the mask in Flags) or
are bounded by the code itself.

`Task_lifecycle`, `Task_delete` and `Objects` switch the deadlock check off:
after a fault the model has no step.

**Who calls what.** The mutex's tasks are disciplined: one takes what it does not
have, gives what it has, and makes no other call while it is raised. Which
task makes which call is a constant of Queue (`Users`) and of Flags (`Posters`,
`Pends`): with `OS_Q_BLOCK_EMPTY` both tasks make every call of the queue; with
`OS_Q_BLOCK_FULL` the higher one creates and inserts, the lower one removes and
flushes; with `OS_Q_NON_BLOCK` the lower one removes and deletes and both insert.
In `Flags` one posts and deletes and the others pend, one of them with timeouts
and one for ever. Tasks that use flags are neither created
nor deleted. One device, one queue, one mutex, one group: each has its own lists,
and what they share, the kernel's lists and the TCB, is there with one of them.
The exception is `mutexTCB`, one for all mutexes: two of them are not modelled.

**What the failing runs show.** Each quotes a line of the repository in
`PROJECT.json` ("findings").

* `Task_stale`. Task 2 delays; its yield finds priority 1 and is interrupted by a
  tick, which finds the same and switches to task 1. Task 1 delays too. When
  task 2's ticks are over it continues the old yield, stores the priority it
  found in another time, and PendSV dispatches task 1, which then runs although
  its ticks are not over. The reverse, a lower task running until the next tick
  while a higher one is ready, is why `HighestRuns` is a leads-to and not an
  invariant.
* `Task_delete`. `uLipeTaskDelete` does not take the task out of the timer list.
* `Sem_lost`. The entry into the wait list is not atomic. The tick can
  clear the group between the store of the group and the write of the word; a
  give can come before the block. Without a timeout such a task sleeps for ever.

**Findings without a run.** Seven more are listed there. Each names a formula of a
module here that does not hold; adding it to a configuration gives the behaviour.

* 1024 priorities (the README's figure) are one too many for the wrap that makes
  0 of the answer for an empty list: `SearchCorrect` below has N < 1024 as its
  condition, and `PrioList_small.cfg` with N = 1024 violates `FindIsHighest`.
* A mutex that is handed over costs its new owner the ready bit of its own
  priority: `uLipeMutexTake` cleared it, nothing sets it again, and once the task
  gives the mutex back it is in no ready list. `OwnersComeBack`, added to
  `Objects.cfg`, shows it. So `ReadyIffUnblocked` is not claimed of an application
  with a mutex (`QueueReadyIffUnblocked`), and nothing is said about a waiter that
  gets to run in the end.
* The race of `Task_stale` costs a mutex its exclusion. A task that sleeps is
  dispatched late, takes the mutex and is raised; its status keeps the priority of
  the mutex out of the ready list, so its yields find another task, and the two
  late yields return a waiter from its take. `OneHolder`, added to `Objects.cfg`
  with `~strayed` taken out of `MCBounds`, shows both tasks in the mutex. So
  `MutualExclusion`, `NobodyWaitsForFree`, `RaisedIsOwner`, and `ObjectsNoFault`
  where it is about a mutex, have `~strayed` as their condition.
* A blocking insert interrupted by the tick can leave a timer entry that the
  tick's assertion rejects (`InsertNoFault`), or lose a task from the ready list
  (`InsertKeepsReady`). `ObjectsNoFault` and `QueueReadyIffUnblocked` leave that
  option out (`Protected`); `FifoSpec` does not.
* A remove that is not to block, and finds a message at its second look, takes it
  with the interrupts enabled; a flush in between, and the count of used slots
  wraps to 65535 (`ReturnKeepsRing`, `Objects.cfg`). `FifoSpec` leaves that option
  out.
* A pend for a group of flags looks at what the task asked for in earlier calls.
  `SatisfiedDoNotWait`, added to `Flags.cfg`, has the shortest behaviour;
  `AnyWaitersFindNone` is the half of it that holds.
* A key that a late interrupt leaves in a device's semaphore ends the next
  transfer at once, and the hardware goes on working on the buffer of a call that
  has returned. `TransferHasCaller`, added to `Driver.cfg`, shows it;
  `ReadsAreComplete` is what the I2C driver keeps, as it clears its flag first.

**Fairness.** `FairSpec` and `SemFairSpec` assume nothing of the threads, whose
every step an interrupt may delay, and nothing of the application: no task has to
call anything, a loop that calls nothing is a legal behaviour. They assume weak
fairness of the tick's loop, its end, and PendSV: the processor executes the
handler it is in, and takes an exception that is pending. For `TickEnter` the
fairness is strong: a pending PendSV goes first and disables it again and again,
but the request of SysTick stays latched in the processor, so it is taken as soon
as none is pending, before any thread executes.

## 4. What is proved

`PrioListProofs` (with `HighestProofs`): for any number of tasks up to 1024 and
any memory behind the table,

* `TypeCorrect`, `GroupsMirrorTable`: the invariant
  "a group bit is set exactly if its word is not empty" is inductive; set and
  clear keep it because clear looks at the word it leaves;
* `SearchCorrect` (N < 1024): with it, the search is the maximum of the members.
  For the empty list the search forms 32*31 + y. If the table has a word 31, it is
  empty, y is 31 and the value 1023; if it has none, the value is at least 992 and
  there are fewer than 992 priorities; either way the wrap makes 0 of it. The
  condition is sharp;
* `ImplementsPrioQueue` (N < 1024): the refinement, step by step;
* `PreemptedSearchCorrect` (N < 32): the preempted search.

`TaskProofs`: for 2 to 31 tasks, any set of calls, any heap, any delays,

* `Invariance` of `Inv`: type correctness; the table names each TCB by its own
  priority (`TableOK`); a thread in a call has the argument it entered with
  (`CallsOK`); `ReadyIffUnblocked`; every priority about to be dispatched is
  installed, except for the caller of its own deletion (`DispatchOK`), which is
  what the deletion property needs beside the ready list; `HeapCoversTasks`;
* its consequences `TypeCorrect`, `ReadyCorrect`, `DeletedCorrect`, `HeapCorrect`.

The second part of `TaskProofs`: without creation, deletion and return (`TimingCalls`), on top
of that invariant,

* `TimerCorrect`: sleeping and being in exactly one of the two timer lists are the
  same. The invariant adds that outside the tick's loop the backup list is
  empty, and what the loop still has to do while it runs;
* `FaultFree`: hence no assertion fails and no bad pointer is followed;
* `ImplementsClock`: every step is a step of `AlarmClock` or a stutter. The tick's
  loop decrements the sleepers one by one; the mapping `Left` counts an entry
  still in the active list as decremented from the moment the loop begins, so
  that `TickEnter` is the abstract tick and the turns are stutters.

With creation and deletion the last three are false, as `Task_delete` shows, so
the hypothesis on `Api` is needed. The theorems about objects and devices below
share it unless they say otherwise: no task is created, deleted or returns while
the kernel runs. Their objects are created and deleted at any time.

The last part of TaskProofs is what they share. `KernelParts` is the kernel's
invariant in parts that each hold few variables (`TablePart`, `ReadyPart`,
`TimerPart`, `ListPart`, `CpuPart`), and `ThreadPart` says where threads may be,
with the labels an object adds and those its yields return to as parameters. A
call that blocks or wakes tasks may leave a timer entry behind: `TimerPart` says
that every sleeper counts and that every entry, a late one too, belongs to a task
with ticks left, which is what the tick's assertion needs. The tasks' own calls
and the interrupts keep these parts whatever else is in the lists, and move
threads and waiters only as `TaskStep` says; each object adds what its own calls
need. The last section keeps only the types (`KernelTypes`, `ThreadTypes`), for
what can lose tasks or stop.

`SemProofs`: for any number of semaphores, keys, limits and timeouts,

* `SemTypeCorrect`, `SemReadyCorrect`, `SleepersCorrect`, `SemFaultFree`. Beside
  the kernel's parts the invariant `SInv` has that the words a take has read from
  a wait list name tasks, and that a thread in a take, or on its way back into one
  after its yield, has a semaphore (`TakePart`). What a wait list has lost does
  not matter to any of them, which is why they hold although `WaitersAreListed`
  does not. `CountPart` has that the heap stays clean under the hypothesis, so
  that a new semaphore's list is empty.

`ObjectsProofs`: for any size of the queue and of the heap and any number of tasks,

* `RingCorrect`, for any set of task calls: the counters are in their range and
  the front is `usedSlots` behind the back, around the ring. The invariant needs
  that no thread is in the unprotected part of a call that does not block
  (`ThreadsOK`);
* `ImplementsFifo`, likewise: the refinement. An insert appends to the sequence of
  messages, a remove takes its head, a flush, a deletion and a creation drop them
  all, and every other step of any thread or interrupt leaves them. It says
  nothing of `OS_Q_NON_BLOCK`, for which it is false (`ReturnKeepsRing`);
* `QueueReadyCorrect`, `ReceiversListed`, `QueueFaultFree`: ready list, listed
  receivers and no fault, with the option that blocks an empty remove. The
  invariant `BlockInv` adds to the kernel's parts that, until a deletion leaves its
  waiters behind, who waits for a message is listed with a queue that is there, and
  so is who is about to (`ReceiverPart`).
  These three assume that every user priority is a task's from the start
  (`UserPrio \subseteq Boot`): a queue created in recycled memory takes any user
  priority for a waiter, and `QueueInsertLoop` then follows the pointer of a task
  that is not there;
* `ObjectsTypeCorrect`: with any option, or with a mutex, the types. These hold
  in the unprotected insert and after a fault too;
* `MutexExcludes`, `NobodyWaits`, `RaisedCorrect`: the three properties of a mutex,
  `~strayed` being part of each. No task may be created under the priority of the
  mutex (`Boot \subseteq UserPrio`), which `OS_MUTEX_PRIO` is reserved for. The
  handover makes these properties hard: the new owner has not returned from its
  take, its name stays in the wait list until its own give takes it out, and the
  give wakes it by whatever the table of TCBs says. The invariant `MutexInv` says,
  beside the types,

  * `ClaimPart`: a task claims the mutex from the moment its take has set the mark,
    or a give has made it owner, until its give; there is one claim at most, and
    only to a mutex that is taken. Between the mark and the store of the owner,
    which no critical section protects, the owner stored is still the one before;
  * `WaitPart`: who waits is in the wait list of a mutex that is taken. The list may
    name others too: the owner it was handed over to, and, in a mutex made from
    recycled memory, tasks that never asked for it. Such a task may be handed the
    mutex, take it as well, and wait for itself, in the list under the priority of
    the mutex; then nobody has a claim;
  * `RaisedPart`: who is raised is the owner, and is the task the table shows under
    the priority of the mutex;
  * `SleepPart`, `RunnersPart`, `TakePart`: who counts ticks does not wait, what is
    about to be dispatched is a task, and a take returns only through its yield.

  That a waiter does not return from its take is where `~strayed` is used: a
  thread executes only while its status is empty;
* `ObjectsFaultFree`: with a mutex too, no assertion fails and no bad pointer is
  followed, as long as no task strays. Every user priority is to be a task's, since
  a recycled wait list may name any. `SafePart` adds that the priority of the mutex
  is ready, or about to be dispatched, only once a task was raised, so that
  `mutexTCB` is no NULL pointer.

`FlagsProofs`: for any number of tasks and flags, with no hypothesis on `Api`, as
tasks that use flags are never created or deleted in the model,

* `WaitersFound`: a waiter is in the list that the next post works off, though that
  list and the other change places with every post and the tick takes a task out of
  whatever lists its TCB points to. The invariant `FInv` is this, what
  `AnyWaitersFindNone` says, and that only waiters consume (`PendingPart`), beside
  the kernel's parts;
* `AnyWaitersCorrect`, `FlagsTypeCorrect`, `FlagsKernelCorrect` (ready list,
  sleepers and faults);
* `PostSatisfies`, `ConsumedOnceHolds`: action properties. `Register`, what each
  waiter finds, is a recursion upwards over the priorities. It is shown to have a
  solution first, and what is proved of it is proved by the greatest priority for
  which it would fail, since induction is not available.

`DriverProofs`: for any number of tasks and semaphores, either driver,

* `LockHeld`: a locked device has a caller that will unlock it. The invariant `DInv`
  follows each thread through the call it is in (`Caller`): where it may be, that a
  take knows whether it came from a driver or the application, and that who is
  about to open the device has not opened it yet. Two tasks may lock the device at
  once, since the flag is tested and set apart; each then unlocks it, and the
  property is that the flag never stays behind alone;
* `DriverTypeCorrect`, with `refCount` the number of tasks that have opened the
  device, over the race of two first openings. `ReadyIffUnblocked` is not part of
  the invariant, for it is false here: the device's interrupt can fall into the
  tick's update of the ready list and lose a ready task. What holds is that the ready
  list names tasks (`ReadyTasks`), which the dispatch needs;
* `ReadsComplete`, with no hypothesis: a read of the I2C driver that reports
  success has its data. The invariant `BusPart` is small, and says what the driver
  has and the UART's lacks: the bus has one transfer at most, and none that reads
  once the receiver's flag is set.

`MemProofs`: for every heap from 64 bytes to just below 64 KB, a multiple of the
alignment, any set of requests, and any number of blocks held. These sizes are the
first two cases of the code's `MAX_FLI`, which are the ones `Mem` models; the
configured heap has 4096 bytes.

* `HeapSound`: the inductive invariant `MInv`. It looks at the heap in three ways.
  `Tile` is about sizes only: the blocks follow each other from the first to the
  last, and every size is a multiple of the alignment. `Neigh` is what a block
  knows of the one before it: a block is marked "the one before is free" exactly if
  it is, `prev_hdr` then leads to it, and no two free blocks are neighbours. A
  `prev_hdr` may be out of use, but never leads to a header that is dead. `Lists` is
  about links: those of the free blocks are each other's inverse, every head of a
  list is a free block of its class, and the bitmaps name the lists with a head.
  `Held` ties the blocks the callers have to headers that are not free;
* `FreeListsMatch` is not inductive. It says which blocks the links lead to, and two
  free blocks that point to each other beside the list satisfy everything local that
  can be said of links. `Ranked` excludes them: the blocks of the lists can be
  numbered so that every block has a smaller number than the one after it. An
  insertion at the head moves all numbers up by one, a removal leaves them;
* a free goes through heaps in which the invariant is broken: the block is marked,
  its neighbours do not know, and either of them may be free too. `Freeing`, with
  `NeighBut` in place of `Neigh`, is what holds between the mark, the join with the
  next block, the join with the one before and the insertion. The joins take the
  neighbour out of its list by its size before they change it, and that order is
  what the steps need: `Extract` finds the list by the class of the size. Likewise
  `Taken` is the heap between the extraction and the split of an allocation;
* `MemTypeCorrect`, `Tiles`, `NeighboursCorrect`, `ListsCorrect` follow;
* `RoomFound`: the search misses no block and finds none too small. This needs
  that classes are ordered as sizes are where a class begins, and that the rounding
  of a request (`Wanted`) ends at such a place (`ClassFits`). The provers have no
  theory of `2 ^ i`, so the powers are a table with one lemma for each first level
  (`Levels`), which is where the bound on the heap's size is used;
* `ImplementsAllocator`: every step is one of `Allocator` or a stutter. What is
  handed out is inside the heap and apart from what is held because both are blocks
  of one tiling. A free gives back exactly one block, as no address is held twice.

**Only model-checked.** The liveness properties (`HighestRuns`, `DelayEnds`,
`TimedTakeEnds`) are out of the prover's reach: they need fairness, and ENABLED.
Every safety property of a passing run is stated by a theorem.

## 5. What is not modelled

* The contents of the stack frames; PendSV is a change of `currentTask`. What a
  task that deletes itself writes into its freed TCB is not modelled, nor what
  freeing an address inside a stack does to the heap: Mem frees only what is
  held, and the other modules count blocks.
* The free of the caller's handle: `uLipeSemDelete`, `uLipeFlagsDelete` and
  `uLipeQueueDelete` free the address of the handle variable; the modules take
  the heap to survive that, and a queue made after a deletion to get the block of
  the one before it.
* A device's interrupt inside `PendSV_Handler`; several ports that share their
  data (the second I2C port's handler works on the first one's); the slave side
  of the I2C driver, whose transfers the code never starts.
* The tick within a blocking insert reads and writes the timer lists as words;
  that such a list has a group as well is left out there, the wait list's group
  is not.
* Two mutexes, or a raised task that makes other calls; and what becomes of a
  mutex once a task has strayed, of which only the types are claimed.
* `irqCounter` beyond the nesting of a device in the tick; its bound of 65535 is
  not reached.
* The ready list's search in one step: with fewer than 32 tasks this is
  what `PrioScan` and `PreemptedSearchCorrect` justify.
* GPIO and pin multiplexer: accesses to registers, with no state of their own and
  no call of the kernel. Console printf: formatting. The empty driver files and
  the interfaces nobody implements. The M3/M4/M7 port: not the configured one,
  and of the same shape.

## 6. What is left

The model covers the kernel's objects, its drivers and the heap, and what is
proved covers every safety property of the runs. Three extensions would be worth
their work:

1. the mutex without the condition `~strayed`, for a yield that stores what it
   finds in the critical section it searches in;
2. two mutexes, whose owners share `mutexTCB`;
3. the heap from 64 KB on, where `MAX_FLI` is 24: eight more rows of the table of
   powers, and the same proofs.
