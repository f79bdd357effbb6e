----------------------------- MODULE MCObjects -----------------------------
(* Two user tasks that share one queue or one mutex.                        *)
EXTENDS Objects

CONSTANTS slots, messages, owners

MCPair == {1, 2}
MCLow == {1}
MCHigh == {2}

\* Where nothing blocks, or inserts do, the tasks' parts are divided.
MCUsers ==
    [block |-> [create |-> MCPair, insert |-> MCPair, remove |-> MCPair,
                flush |-> MCPair, delete |-> MCPair, delay |-> MCHigh],
     non   |-> [create |-> MCPair, insert |-> MCPair, remove |-> MCLow,
                flush |-> MCHigh, delete |-> MCLow, delay |-> MCHigh],
     full  |-> [create |-> MCHigh, insert |-> MCHigh, remove |-> MCLow,
                flush |-> MCLow, delete |-> {}, delay |-> {}]]
MCLists == {slots, messages, owners}

\* The tasks that share a queue wait for one tick at most; what becomes of a
\* mutex is not followed past a task that strays.
MCBounds ==
    IF object = "queue" THEN \A t \in Prio : delayTime[t] <= 1 /\ request[t].ticks <= 1
                        ELSE ~strayed
=============================================================================
