----------------------------- MODULE BoundedFifo ----------------------------
(***************************************************************************)
(* What a transport may expect of a queue of packets: they come out in the *)
(* order they went in, each once, and a packet offered to a full queue is  *)
(* refused and disturbs nothing.                                           *)
(***************************************************************************)
EXTENDS Naturals, Sequences
CONSTANTS
  Item,      \* what is queued
  Room       \* how much of it

VARIABLES
  waiting,   \* the items held, oldest first
  answer     \* what the last call returned: success, and the item popped

fifoVars == <<waiting, answer>>

Accept(i) == /\ Len(waiting) < Room
             /\ waiting' = Append(waiting, i)
             /\ answer' = [ok |-> TRUE, got |-> {}]

Refuse == /\ Len(waiting) = Room
          /\ answer' = [ok |-> FALSE, got |-> {}]
          /\ UNCHANGED waiting

Deliver == /\ waiting # << >>
           /\ answer' = [ok |-> TRUE, got |-> {Head(waiting)}]
           /\ waiting' = Tail(waiting)

NothingThere == /\ waiting = << >>
                /\ answer' = [ok |-> FALSE, got |-> {}]
                /\ UNCHANGED waiting

FifoInit == waiting = << >> /\ answer = [ok |-> TRUE, got |-> {}]

FifoNext == (\E i \in Item : Accept(i)) \/ Refuse \/ Deliver \/ NothingThere

FifoSpec == FifoInit /\ [][FifoNext]_fifoVars
=============================================================================
