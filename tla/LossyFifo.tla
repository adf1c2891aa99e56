----------------------------- MODULE LossyFifo -----------------------------
(***************************************************************************)
(* What the message queue between rollouter and trainer promises, with no  *)
(* buffer, lock or condition variable in sight.  Samples are numbered in   *)
(* the order they are produced; `sent' is the last number produced,        *)
(* `gone' the last number that left the channel (delivered or lost) and    *)
(* `last' the last number delivered.  The channel is FIFO and never        *)
(* duplicates; it loses only from the old end, and it loses without being  *)
(* told to only when Capacity samples are already in transit.              *)
(***************************************************************************)
EXTENDS Integers

CONSTANT Capacity

VARIABLES sent, gone, last

fifoVars == <<sent, gone, last>>

FifoInit == sent = 0 /\ gone = 0 /\ last = 0

InTransit == sent - gone

\* A sample enters; at capacity it pushes the oldest one out.
Send ==
    /\ sent' = sent + 1
    /\ gone' = IF InTransit >= Capacity THEN gone + 1 ELSE gone
    /\ UNCHANGED last

\* The oldest sample in transit is delivered.
Deliver ==
    /\ gone < sent
    /\ gone' = gone + 1
    /\ last' = gone + 1
    /\ UNCHANGED sent

\* Everything in transit is discarded on request.
Flush == gone' = sent /\ UNCHANGED <<sent, last>>

FifoNext == Send \/ Deliver \/ Flush

FifoSpec == FifoInit /\ [][FifoNext]_fifoVars
=============================================================================
