------------------------------ MODULE NNPacket ------------------------------
(***************************************************************************)
(* The packets of the runtime phase (src/src/NNPacket.h), as far as their  *)
(* receivers tell them apart.  All devices of a deployment share one       *)
(* cluster id (generate_manifest.py writes 0), so an address is a layer    *)
(* and a node id.  The checksum, the sequence number (never read by a      *)
(* device) and the encoding are left out: a packet arrives as sent or not  *)
(* at all.                                                                 *)
(***************************************************************************)
EXTENDS NNBuffer, Integers

Layer == 0..15
Address == [layer : Layer, node : NodeId]
NoAddress == [layer |-> 0, node |-> 99]

DiagGroup == 254       \* NN_DIAG_LAYER_GROUP, joined by the laptop only
NoSiblingGroup == 255  \* NN_NO_SIBLING_GROUP
Group == 0..255

Copies == 3            \* NN_DATA_RETRANSMITS

(* flag : the header flags NN_FLAG_FAILOVER_SUBSTITUTE / _TEARDOWN.        *)
(* about: payload[0] of a CONTROL packet, an encoded address.              *)
(* value: payload[0] of a DATA packet.                                     *)
(* copy : not on the wire; tells the transmissions of one packet that are  *)
(*        in flight together apart (Copies stands for a resend reply).     *)
Packet == [type  : {"DATA", "CONTROL", "TEARDOWN"},
           src   : Address,
           group : Group,
           flag  : {"none", "substitute", "teardown"},
           about : Address \cup {NoAddress},
           value : Value,
           copy  : 0..Copies]

NoPacket == [type |-> "none"]

DataPacket(src, flag, value) ==
  [type |-> "DATA", src |-> src, group |-> 0, flag |-> flag,
   about |-> NoAddress, value |-> value, copy |-> 0]

ControlPacket(src, group, flag, about) ==
  [type |-> "CONTROL", src |-> src, group |-> group, flag |-> flag,
   about |-> about, value |-> NoValue, copy |-> 0]

TeardownPacket(src) ==
  [type |-> "TEARDOWN", src |-> src, group |-> 0, flag |-> "none",
   about |-> NoAddress, value |-> NoValue, copy |-> 0]

Request(p) == p.type = "CONTROL" /\ p.flag = "none"
Report(p)  == p.type = "CONTROL" /\ p.flag # "none"
=============================================================================
