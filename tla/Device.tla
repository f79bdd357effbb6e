------------------------------- MODULE Device -------------------------------
(***************************************************************************)
(* A device of the device table (microkernel/OsDeviceDriver.c): its        *)
(* opening, which creates its semaphore, the waiting for the interrupt     *)
(* that ends a transfer, and that interrupt. Uart and I2c extend it with   *)
(* the drivers; one device is enough, they share nothing.                  *)
(*                                                                         *)
(* The devices' interrupts have a higher priority than SysTick and PendSV: *)
(* one may come at any moment outside a critical section, the tick's       *)
(* handler included.                                                       *)
(***************************************************************************)
EXTENDS Sem

CONSTANTS Kinds,           \* the drivers a device may have
          DevApi           \* the driver calls the tasks make

ASSUME KindsAssumption == Kinds \subseteq {"uart", "i2c"}
ASSUME DevApiAssumption ==
    DevApi \subseteq {"open", "config", "enable", "disable", "poll", "send", "receive"}

VARIABLES
    kind,                  \* the driver behind deviceApi
    deviceSync,            \* the semaphore of the device
    refCount,              \* how often it was opened
    opened,                \* the tasks that have opened it
    enabled, busy, master, \* the driver's flags
    sucess,                \* the directions whose success flag is set
    irq,                   \* the device's interrupt is enabled
    transfer,              \* whose transfer the hardware has, per direction
    job                    \* what a driver call in progress is about

custom == <<enabled, busy, master, sucess>>
hardware == <<irq, transfer>>
handle == <<kind, deviceSync, refCount, opened>>
deviceVars == <<handle, custom, hardware, job>>
everything == <<allVars, deviceVars>>

Direction == {"tx", "rx"}
NoJob == [op |-> "none", ticks |-> 0]
Idle == [dir \in Direction |-> NULL]

\* Where a thread is within a driver's call.
DeviceLabels == {"open", "lock", "locked", "sync", "done", "timedout"}

DeviceInit ==
    /\ SemInit
    /\ kind \in Kinds
    /\ deviceSync = NULL /\ refCount = 0 /\ opened = {}
    /\ enabled = FALSE /\ busy = FALSE /\ master \in BOOLEAN /\ sucess = {}
    /\ irq = FALSE /\ transfer = Idle
    /\ job = [p \in Prio |-> NoJob]

DevCalls(t, call) == call \in DevApi /\ t # IdlePrio /\ At(t, "run")

\* Of the kernel, only where the thread is changes.
KernelUnchanged ==
    UNCHANGED <<lists, objects, cpu, yieldPrio, after, taskVars, arg, semVars>>

\* A driver's call has made its checks, and goes on to what they allow.
Begin(t, operation, ticks) ==
    /\ Goto(t, "lock")
    /\ job' = [job EXCEPT ![t] = [op |-> operation, ticks |-> ticks]]
    /\ UNCHANGED <<handle, custom, hardware>> /\ KernelUnchanged

\* A call in progress is about to do what it checked for.
Locks(t, driver) == /\ At(t, "lock")
                    /\ kind = driver
                    /\ job[t].op \in Direction

\* The device is locked for what takes no transfer; others may come between.
Lock(t) ==
    /\ At(t, "lock")
    /\ job[t].op \in {"config", "poll", "enable", "disable"}
    /\ busy' = TRUE
    /\ Goto(t, "locked")
    /\ UNCHANGED <<handle, enabled, master, sucess, hardware, job>> /\ KernelUnchanged

Locked(t, driver, operations) == /\ At(t, "locked")
                                 /\ kind = driver
                                 /\ job[t].op \in operations

\* The driver's call returns.
Returns(t) == /\ Goto(t, "run")
              /\ job' = [job EXCEPT ![t] = NoJob]
              /\ KernelUnchanged
-----------------------------------------------------------------------------
(* uLipeDeviceOpen                                                         *)

\* The first caller goes on to create the semaphore.
Open(t) ==
    /\ DevCalls(t, "open")
    /\ t \notin opened
    /\ IF refCount = 0
       THEN Goto(t, "open") /\ UNCHANGED <<refCount, opened>>
       ELSE /\ deviceSync # NULL
            /\ refCount' = refCount + 1
            /\ opened' = opened \cup {t}
            /\ UNCHANGED pc
    /\ UNCHANGED <<kind, deviceSync, custom, hardware, job>> /\ KernelUnchanged

\* Faulty: the one who creates the semaphore is not counted.
OpenCreateUncounted(t) ==
    /\ At(t, "open")
    /\ Goto(t, "run")
    /\ IF heap < HeapBlocks
       THEN /\ \E s \in Sems : NewSem(s) /\ deviceSync' = s
            /\ opened' = opened \cup {t}
            /\ UNCHANGED refCount
       ELSE /\ deviceSync' = NULL
            /\ UNCHANGED <<refCount, opened, lists, objects, cpu, yieldPrio, after, taskVars,
                           arg, semVars>>
    /\ UNCHANGED <<kind, custom, hardware, job>>

\* So does whoever saw the count before it was raised: a second semaphore
\* replaces the first, or NULL does if there is no memory left.
OpenCreate(t) ==
    /\ At(t, "open")
    /\ Goto(t, "run")
    /\ IF heap < HeapBlocks
       THEN /\ \E s \in Sems : NewSem(s) /\ deviceSync' = s
            /\ refCount' = refCount + 1
            /\ opened' = opened \cup {t}
       ELSE /\ deviceSync' = NULL
            /\ UNCHANGED <<refCount, opened, lists, objects, cpu, yieldPrio, after, taskVars,
                           arg, semVars>>
    /\ UNCHANGED <<kind, custom, hardware, job>>
-----------------------------------------------------------------------------
(* uLipeDeviceStartSync, uLipeDeviceFinishSync, the interrupt              *)

Transfer == [key |-> "done", none |-> "timedout"]

\* The caller waits until the semaphore has a key, or for its timeout.
StartSync(t) ==
    /\ At(t, "sync")
    /\ IF deviceSync = NULL
       THEN Goto(t, "timedout") /\ KernelUnchanged
       ELSE TakeFrom(t, deviceSync, job[t].ticks, Transfer)
    /\ UNCHANGED deviceVars

\* The tick is about to make a task ready: it reads and writes back the word
\* of the ready list, outside any critical section.
TickReadies == /\ tick = "loop"
               /\ tcbPtrTbl[Highest(Active)] # NULL
               /\ delayTime[tcbPtrTbl[Highest(Active)]] = 1

\* Gives a key and wakes the first waiter. Between the tick's read and write
\* of the ready list the waiter's bit is overwritten.
FinishSync ==
    LET waiters == Only(deviceSync, FirstWaiter(deviceSync))
        ready == Freed(waiters, SemCauses)
    IN  /\ semCount' = [semCount EXCEPT ![deviceSync] = Keys(deviceSync, 1)]
        /\ Unblock(waiters, SemCauses)
        /\ \E lost \in IF TickReadies THEN {{}, ready} ELSE {{}} :
               taskPrioList' = taskPrioList \cup (ready \ lost)

\* uLipeKernelIrqOut of the handler: a yield, unless the tick was interrupted.
IrqOut == IF tick # "off"
          THEN UNCHANGED <<highPrioTask, pendSV>>
          ELSE /\ highPrioTask' = tcbPtrTbl[Highest(taskPrioList')]
               /\ pendSV' = (pendSV \/ highPrioTask' # currentTask)

\* The handler and its callback: the transfer is over, or met an error; after
\* an overrun the UART goes on receiving. The callback asserts that there is a
\* semaphore.
Completes(dir, ok) ==
    /\ halted = "no" /\ irq /\ transfer[dir] # NULL
    /\ transfer' = IF ~ok /\ kind = "uart" /\ dir = "rx" THEN transfer
                   ELSE [transfer EXCEPT ![dir] = NULL]
    /\ sucess' = IF ok THEN Direction ELSE {}
    /\ IF deviceSync # NULL
       THEN FinishSync /\ IrqOut
       ELSE /\ halted' = "assert"
            /\ UNCHANGED <<taskPrioList, taskStatus, waitList, highPrioTask, pendSV, semCount>>
    /\ UNCHANGED <<timerPendingList, activeList, tcbPtrTbl, delayTime, bmp, currentTask,
                   irqCounter, tick, threads, taskVars, arg, sems, semOf, timeout, word, back,
                   handle, enabled, busy, master, irq, job>>
=============================================================================
