----------------------------- MODULE AlarmClock -----------------------------
(***************************************************************************)
(* What uLipeTaskDelay promises: every sleeper counts every tick, once,    *)
(* from the number it asked for, and is awake when it has counted all.     *)
(***************************************************************************)
EXTENDS Integers

CONSTANTS Sleeper,         \* who may sleep
          MaxDelay         \* the longest sleep

VARIABLE left              \* ticks each sleeper has left, 0 when awake

ClockInit == left = [s \in Sleeper |-> 0]

\* A sleeper lies down, or, woken by mistake, sleeps on for another time.
Arm(s, ticks) == left' = [left EXCEPT ![s] = ticks]

\* A tick counts for everyone at once.
Tick == left' = [s \in Sleeper |-> IF left[s] = 0 THEN 0 ELSE left[s] - 1]

ClockNext == Tick \/ \E s \in Sleeper, ticks \in 1..MaxDelay : Arm(s, ticks)

ClockSpec == ClockInit /\ [][ClockNext]_left
=============================================================================
