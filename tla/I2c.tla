-------------------------------- MODULE I2c --------------------------------
(***************************************************************************)
(* The I2C driver (drivers/kinetis_kl25z/kl25z_i2c.c). The hardware has one *)
(* transfer at a time; the slave's side is not implemented in the code.    *)
(***************************************************************************)
EXTENDS Device

I2cFree(t, call) == kind = "i2c" /\ t \in opened /\ DevCalls(t, call) /\ ~busy

\* The mode is a choice of the caller; the device is disabled.
I2cConfig(t) == I2cFree(t, "config") /\ Begin(t, "config", 0)

I2cConfigured(t) ==
    /\ Locked(t, "i2c", {"config"})
    /\ master' \in BOOLEAN
    /\ enabled' = FALSE /\ irq' = FALSE
    /\ transfer' = Idle
    /\ busy' = FALSE
    /\ Returns(t)
    /\ UNCHANGED <<handle, sucess>>
-----------------------------------------------------------------------------
(* Transfers                                                               *)

I2cSendByte(t, ticks) ==
    I2cFree(t, "send") /\ enabled /\ Begin(t, "tx", ticks)

I2cSendStream(t, size, addrSize, ticks) ==
    I2cFree(t, "send") /\ enabled /\ size > 0 /\ addrSize > 0 /\ Begin(t, "tx", ticks)

I2cReadByte(t, addrSize, ticks) ==
    I2cFree(t, "receive") /\ enabled /\ addrSize > 0 /\ Begin(t, "rx", ticks)

I2cReadStream(t, size, addrSize, ticks) ==
    I2cFree(t, "receive") /\ enabled /\ size > 0 /\ addrSize > 0 /\ Begin(t, "rx", ticks)

\* Faulty: the flag of an earlier transfer is kept.
I2cStartKeepsFlag(t) ==
    /\ Locks(t, "i2c")
    /\ master /\ transfer = Idle
    /\ busy' = TRUE
    /\ transfer' = [transfer EXCEPT ![job[t].op] = t]
    /\ Goto(t, "sync")
    /\ UNCHANGED <<handle, enabled, master, sucess, irq, job>> /\ KernelUnchanged

\* The device is locked, the flag of the direction cleared and the transfer
\* handed to the hardware.
I2cStart(t) ==
    /\ Locks(t, "i2c")
    /\ master /\ transfer = Idle
    /\ busy' = TRUE
    /\ sucess' = sucess \ {job[t].op}
    /\ transfer' = [transfer EXCEPT ![job[t].op] = t]
    /\ Goto(t, "sync")
    /\ UNCHANGED <<handle, enabled, master, irq, job>> /\ KernelUnchanged

\* The hardware does not start, or the device is a slave: unlocked again.
I2cNotStarted(t) ==
    /\ Locks(t, "i2c")
    /\ sucess' = IF master THEN sucess \ {job[t].op} ELSE sucess
    /\ busy' = FALSE
    /\ Returns(t)
    /\ UNCHANGED <<handle, enabled, master, hardware>>

I2cTimedOut(t) ==
    /\ At(t, "timedout") /\ kind = "i2c"
    /\ transfer' = Idle
    /\ busy' = FALSE
    /\ Returns(t)
    /\ UNCHANGED <<handle, enabled, master, sucess, irq>>

\* Writes, too, look at the receiver's flag.
I2cDone(t) ==
    /\ At(t, "done") /\ kind = "i2c"
    /\ transfer' = IF "rx" \in sucess THEN transfer ELSE Idle
    /\ busy' = FALSE
    /\ Returns(t)
    /\ UNCHANGED <<handle, enabled, master, sucess, irq>>
-----------------------------------------------------------------------------
(* Enable, disable                                                         *)

I2cEnable(t) == I2cFree(t, "enable") /\ ~enabled /\ Begin(t, "enable", 0)
I2cDisable(t) == I2cFree(t, "disable") /\ enabled /\ Begin(t, "disable", 0)

I2cSwitched(t) ==
    /\ Locked(t, "i2c", {"enable", "disable"})
    /\ enabled' = (job[t].op = "enable")
    /\ irq' = (job[t].op = "enable")
    /\ busy' = FALSE
    /\ Returns(t)
    /\ UNCHANGED <<handle, master, sucess, transfer>>
-----------------------------------------------------------------------------
I2cNext(t) ==
    \/ I2cConfig(t) \/ I2cConfigured(t)
    \/ \E ticks \in 0..MaxDelay :
           \/ I2cSendByte(t, ticks)
           \/ \E size, addrSize \in {0, 1} :
                  \/ I2cSendStream(t, size, addrSize, ticks)
                  \/ I2cReadByte(t, addrSize, ticks)
                  \/ I2cReadStream(t, size, addrSize, ticks)
    \/ I2cStart(t) \/ I2cNotStarted(t) \/ I2cTimedOut(t) \/ I2cDone(t)
    \/ I2cEnable(t) \/ I2cDisable(t) \/ I2cSwitched(t)
=============================================================================
