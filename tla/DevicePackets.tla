---------------------------- MODULE DevicePackets ----------------------------
(***************************************************************************)
(* What setup_tool.py sends one device (build_device_packets) and what it  *)
(* takes for the device's consent (the end of provision_device).           *)
(***************************************************************************)
EXTENDS NNSetupAgent, Sequences

(* The messages for a role (build_device_packets), numbered from 0.        *)

One(op) == <<[op |-> op, chunk |-> 0]>>
(* Faulty variant: chunks are numbered from one. *)
ChunksFromOne(op, n) == [i \in 1..n |-> [op |-> op, chunk |-> i]]

Chunks(op, n) == [i \in 1..n |-> [op |-> op, chunk |-> i - 1]]

Script(r) ==
  One("ASSIGN_ADDRESS") \o One("TOPOLOGY_INFO")
  \o (IF r.backup THEN One("BACKUP_ROLE_INFO") ELSE << >>)
  \o Chunks("WEIGHTS_CHUNK", r.chunks)
  \o (IF r.backup THEN Chunks("BACKUP_WEIGHTS_CHUNK", r.bchunks) ELSE << >>)
  \o (IF r.seed THEN One("INPUT_VALUE") ELSE << >>)
  \o One("COMMIT_REQUEST")

(* The reply of a commit must report success and the manifest's checksums. *)
Verified(p, r) ==
  /\ p.success
  /\ p.sum = [i \in FirstChunks(r.chunks) |-> r]
  /\ r.backup => p.bsum = [i \in FirstChunks(r.bchunks) |-> r]
=============================================================================
