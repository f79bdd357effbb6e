-------------------------------- MODULE Uart --------------------------------
(***************************************************************************)
(* The UART driver (drivers/kinetis_kl25z/kl25z_uart.c). UART0 is driven   *)
(* through the vendor's LPSCI functions, UART1 and UART2 through its UART  *)
(* functions; the two branches of every call are the same otherwise.       *)
(***************************************************************************)
EXTENDS Device

\* What every call but Config checks first.
UartFree(t, call) == kind = "uart" /\ t \in opened /\ DevCalls(t, call) /\ ~busy

\* KL25Z_UartConfig asks neither whether the device is busy nor whether it is
\* enabled: the interrupt goes off, the flags stay.
UartConfig(t) ==
    /\ kind = "uart" /\ t \in opened /\ DevCalls(t, "config")
    /\ irq' = FALSE
    /\ UNCHANGED <<pc, handle, custom, transfer, job>> /\ KernelUnchanged
-----------------------------------------------------------------------------
(* Transfers                                                               *)

UartSendByte(t, ticks) ==
    UartFree(t, "send") /\ enabled /\ Begin(t, "tx", ticks)

UartSendStream(t, size, ticks) ==
    UartFree(t, "send") /\ enabled /\ size > 0 /\ Begin(t, "tx", ticks)

UartReadByte(t, ticks) ==
    UartFree(t, "receive") /\ enabled /\ Begin(t, "rx", ticks)

UartReadStream(t, size, ticks) ==
    UartFree(t, "receive") /\ enabled /\ size > 0 /\ Begin(t, "rx", ticks)

\* The device is locked and the transfer handed to the hardware; that the
\* hardware refuses it, having one already, goes unnoticed.
UartStart(t) ==
    /\ Locks(t, "uart")
    /\ busy' = TRUE
    /\ transfer' = [transfer EXCEPT ![job[t].op] = IF @ = NULL THEN t ELSE @]
    /\ Goto(t, "sync")
    /\ UNCHANGED <<handle, enabled, master, sucess, irq, job>> /\ KernelUnchanged

\* Faulty: the device stays locked.
UartTimedOutKeepsLock(t) ==
    /\ At(t, "timedout") /\ kind = "uart"
    /\ transfer' = [transfer EXCEPT ![job[t].op] = NULL]
    /\ Returns(t)
    /\ UNCHANGED <<handle, busy, enabled, master, sucess, irq>>

\* No key in time: the hardware is stopped.
UartTimedOut(t) ==
    /\ At(t, "timedout") /\ kind = "uart"
    /\ transfer' = [transfer EXCEPT ![job[t].op] = NULL]
    /\ busy' = FALSE
    /\ Returns(t)
    /\ UNCHANGED <<handle, enabled, master, sucess, irq>>

\* A key: the flag of the direction tells success; on an error the hardware
\* is stopped.
UartDone(t) ==
    /\ At(t, "done") /\ kind = "uart"
    /\ transfer' = IF job[t].op \in sucess THEN transfer
                   ELSE [transfer EXCEPT ![job[t].op] = NULL]
    /\ busy' = FALSE
    /\ Returns(t)
    /\ UNCHANGED <<handle, enabled, master, sucess, irq>>
-----------------------------------------------------------------------------
(* Polling, enable, disable                                                *)

UartPollOut(t) == UartFree(t, "poll") /\ enabled /\ Begin(t, "poll", 0)

UartPollIn(t, buffer) ==
    UartFree(t, "poll") /\ enabled /\ buffer # NULL /\ Begin(t, "poll", 0)

\* The byte is moved without an interrupt, and the device unlocked.
UartPolled(t) ==
    /\ Locked(t, "uart", {"poll"})
    /\ busy' = FALSE
    /\ Returns(t)
    /\ UNCHANGED <<handle, enabled, master, sucess, hardware>>

UartEnable(t) == UartFree(t, "enable") /\ ~enabled /\ Begin(t, "enable", 0)
UartDisable(t) == UartFree(t, "disable") /\ enabled /\ Begin(t, "disable", 0)

\* Switched with its interrupt, and unlocked.
UartSwitched(t) ==
    /\ Locked(t, "uart", {"enable", "disable"})
    /\ enabled' = (job[t].op = "enable")
    /\ irq' = (job[t].op = "enable")
    /\ busy' = FALSE
    /\ Returns(t)
    /\ UNCHANGED <<handle, master, sucess, transfer>>
-----------------------------------------------------------------------------
UartNext(t) ==
    \/ UartConfig(t)
    \/ \E ticks \in 0..MaxDelay :
           \/ UartSendByte(t, ticks) \/ UartReadByte(t, ticks)
           \/ \E size \in {0, 1} : UartSendStream(t, size, ticks) \/ UartReadStream(t, size, ticks)
    \/ UartStart(t) \/ UartTimedOut(t) \/ UartDone(t)
    \/ UartPollOut(t) \/ (\E buffer \in {NULL, t} : UartPollIn(t, buffer)) \/ UartPolled(t)
    \/ UartEnable(t) \/ UartDisable(t) \/ UartSwitched(t)
=============================================================================
