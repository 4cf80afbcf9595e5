------------------------------ MODULE NNBuffer ------------------------------
(***************************************************************************)
(* The per-sender input buffer (NNInputBuffer, src/src/NNBuffer.h) that    *)
(* gates a node until every predecessor's value of a pass has arrived.     *)
(*                                                                         *)
(* A 16-bit mask of node ids is the set of the ids whose bit is set.  The  *)
(* payload of a DATA packet is abstracted to its provenance: the set of    *)
(* the inference runs whose inputs the value was computed from.  A weighted*)
(* sum over a slot with count 0 adds nothing, so an empty slot holds the   *)
(* empty provenance.                                                       *)
(***************************************************************************)
CONSTANTS
  NodeId,   \* the node ids in use, a subset of the 16 a 4-bit field can name
  Run       \* the inference runs the laptop performs

Value == SUBSET Run
NoValue == {}

InputBuffer == [received : SUBSET NodeId, values : [NodeId -> Value]]

EmptyBuffer == [received |-> {}, values |-> [n \in NodeId |-> NoValue]]

(* A later value from the same sender overwrites the earlier one.  The     *)
(* rejected cases (id >= 16, count > 16) cannot arrive: the id is a 4-bit  *)
(* field and deserializePacket has already refused a larger count.         *)
StoreInput(b, n, v) == [received |-> b.received \cup {n},
                        values   |-> [b.values EXCEPT ![n] = v]]

IsComplete(b, mask) == mask \subseteq b.received

(* What the weighted sum over the senders of a mask is computed from.      *)
Gathered(b, mask) == UNION {b.values[n] : n \in mask}
=============================================================================
