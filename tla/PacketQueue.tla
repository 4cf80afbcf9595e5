----------------------------- MODULE PacketQueue ----------------------------
(***************************************************************************)
(* NNPacketQueue (NNBuffer.h), the ring of packets behind the loopback,    *)
(* BLE and MQTT transports: pushed to by send() or by the radio's callback,*)
(* popped by receive().  One task makes both calls: the scan and the MQTT  *)
(* client run their callbacks while poll() waits for them.                 *)
(***************************************************************************)
EXTENDS Naturals, Sequences
CONSTANTS
  Packet,     \* the packets pushed
  Capacity    \* NN_QUEUE_CAPACITY, positive

VARIABLES
  items,      \* the slots
  head,       \* the slot to pop from
  tail,       \* the slot to push to
  count,      \* how many are held
  answer      \* what the last call returned: success, and the packet popped

vars == <<items, head, tail, count, answer>>

Slot == 0..(Capacity - 1)

(* The slots are not initialised: they hold any packet.                    *)
Init == /\ items \in [Slot -> Packet]
        /\ head = 0 /\ tail = 0 /\ count = 0
        /\ answer = [ok |-> TRUE, got |-> {}]

Failed == answer' = [ok |-> FALSE, got |-> {}]

IsFull == count >= Capacity

PushStored(p) ==
  /\ ~IsFull
  /\ items' = [items EXCEPT ![tail] = p]
  /\ tail' = (tail + 1) % Capacity
  /\ count' = count + 1
  /\ answer' = [ok |-> TRUE, got |-> {}]
  /\ UNCHANGED head

PushDropped == IsFull /\ Failed /\ UNCHANGED <<items, head, tail, count>>

Push(p) == PushStored(p) \/ PushDropped

PopTaken ==
  /\ count # 0
  /\ answer' = [ok |-> TRUE, got |-> {items[head]}]
  /\ head' = (head + 1) % Capacity
  /\ count' = count - 1
  /\ UNCHANGED <<items, tail>>

PopEmpty == count = 0 /\ Failed /\ UNCHANGED <<items, head, tail, count>>

Pop == PopTaken \/ PopEmpty

Next == (\E p \in Packet : Push(p)) \/ Pop

Spec == Init /\ [][Next]_vars

-----------------------------------------------------------------------------
(* The two positions and the count agree, which no push or pop checks.     *)
RingOK ==
  /\ items \in [Slot -> Packet]
  /\ head \in Slot /\ tail \in Slot /\ count \in 0..Capacity
  /\ tail = (head + count) % Capacity

Contents == [i \in 1..count |-> items[(head + i - 1) % Capacity]]

Fifo == INSTANCE BoundedFifo WITH
          Item <- Packet, Room <- Capacity,
          waiting <- Contents, answer <- answer

(* Around the ring any number of times, packets come out in the order they *)
(* went in, each once; a push into a full ring is refused and loses        *)
(* nothing that is held (NNBuffer.h:13, "drops new packets").              *)
IsFifo == Fifo!FifoSpec
=============================================================================
