-------------------------------- MODULE Fifo --------------------------------
(***************************************************************************)
(* What a message queue promises: messages leave it in the order they came *)
(* in, each once, and no more than Slots are in it.                        *)
(***************************************************************************)
EXTENDS Sequences, Naturals

CONSTANTS Slots, Message

VARIABLE items             \* the messages, the oldest first

FifoInit == items = <<>>

Put == /\ Len(items) < Slots
       /\ \E message \in Message : items' = Append(items, message)

Get == items # <<>> /\ items' = Tail(items)

\* A flush, a deletion.
Drop == items' = <<>>

FifoSpec == FifoInit /\ [][Put \/ Get \/ Drop]_items
=============================================================================
