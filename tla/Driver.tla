------------------------------- MODULE Driver -------------------------------
(***************************************************************************)
(* Tasks that share a device through its driver: the scheduler, the tick,  *)
(* the device's semaphore, the driver and the device's interrupt together. *)
(***************************************************************************)
EXTENDS Uart, I2c

DriverInit == DeviceInit

DriverNext ==
    \/ SemNext /\ UNCHANGED deviceVars
    \/ \E t \in Prio : \/ Open(t) \/ OpenCreate(t) \/ Lock(t) \/ StartSync(t)
                       \/ UartNext(t) \/ I2cNext(t)
    \/ \E dir \in Direction, ok \in BOOLEAN : Completes(dir, ok)

DriverSpec == DriverInit /\ [][DriverNext]_everything
-----------------------------------------------------------------------------
(* Properties                                                              *)

DriverTypeOK ==
    /\ KernelTypeOK(TaskLabels \cup TakeLabels \cup DeviceLabels)
    /\ sems \in SUBSET Sems /\ semCount \in [Sems -> 0..SemLimit]
    /\ kind \in Kinds
    /\ deviceSync \in Sems \cup {NULL}
    /\ opened \in SUBSET Prio /\ refCount = Cardinality(opened)
    /\ sucess \in SUBSET Direction
    /\ transfer \in [Direction -> Prio \cup {NULL}]
    /\ {enabled, busy, master, irq} \subseteq BOOLEAN

\* A locked device has a caller that will unlock it: every way out of a
\* transfer, by its interrupt, its timeout, an error of the hardware or a
\* refusal, takes the lock back, whoever else has locked it meanwhile.
LockHasHolder ==
    busy => \E t \in Prio : job[t] # NoJob /\ pc[t] # "lock"

\* A read from the bus that reports success has its data: no key that an
\* earlier transfer left in the semaphore makes it return before its own end.
ReadsAreComplete ==
    [][\A t \in Prio : (pc[t] = "done" /\ pc'[t] = "run" /\ kind = "i2c"
                        /\ job[t].op = "rx" /\ "rx" \in sucess)
                           => transfer["rx"] # t]_everything

\* "transmisstion timed out stop all uart activity" (kl25z_uart.c): the
\* hardware works for a caller that waits for it, and on no buffer of one that
\* has returned.
TransferHasCaller ==
    \A dir \in Direction : transfer[dir] # NULL => job[transfer[dir]].op = dir
=============================================================================
