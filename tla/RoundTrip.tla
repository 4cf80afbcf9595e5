----------------------------- MODULE RoundTrip -----------------------------
(***************************************************************************)
(* The desktop check of the whole chain (core/roundtrip.py): the setup     *)
(* messages of a manifest are fed to a fresh setup agent, what it assembled*)
(* is compared with the manifest, and a neuron with that configuration runs*)
(* one pass whose output is compared with the simulation.                  *)
(*                                                                         *)
(* The payload of a DATA packet is the singleton of a symbolic number (see *)
(* SimulateAll), so Run is the set of the numbers that occur.              *)
(***************************************************************************)
EXTENDS Mapper, DevicePackets, DeviceRuntime

(* build_device_packets(device, seq_start=0) and START under the next      *)
(* number.                                                                 *)
SetupMessages(r, hw) ==
  LET script == Script(r) \o One("START")
  IN [k \in DOMAIN script |->
        [op |-> script[k].op, hw |-> hw, seq |-> (k - 1) % 256, role |-> r,
         chunk |-> script[k].chunk, copy |-> <<0, 0>>]]

-----------------------------------------------------------------------------
(* What an agent has assembled (getNodeConfig, getWindowConfig).           *)

NoDuty == [hasRole |-> FALSE, target |-> AddressOf(0, 0), tpred |-> {},
           tpredLayer |-> 0, roster |-> {}, grace |-> 0]

AssembledDuty(a) ==
  IF a.hasBackup THEN Restrict(a.backup.device.cfg, DOMAIN NoDuty) ELSE NoDuty

AssembledConfig(a) ==
  AssembledDuty(a) @@ [a.topology.device.cfg EXCEPT !.addr = a.addr]

(* The values of chunk c: the last one may be short.                      *)
Slice(values, c) ==
  SubSeq(values, c * ChunkFloats + 1,
         IF (c + 1) * ChunkFloats < Len(values) THEN (c + 1) * ChunkFloats
         ELSE Len(values))

(* Where a chunk of n values goes in the array.  Faulty variant: the chunks*)
(* are taken to be equally long.                                           *)
PackedOffset(c, n) == c * n
Offset(c, n) == c * ChunkFloats

(* The array the chunks fill; a place no chunk reaches keeps its zero.     *)
Filled(count, slices) ==
  [k \in 1..count |->
     LET At(c)   == k - Offset(c, Len(slices[c]))
         writers == {c \in DOMAIN slices : At(c) \in DOMAIN slices[c]}
     IN IF writers = {} THEN 0
        ELSE LET c == CHOOSE c \in writers : \A e \in writers : e <= c
             IN slices[c][At(c)]]

AssembledWeights(a) ==
  Filled(Len(a.topology.device.weights),
         [c \in FirstChunks(a.topology.chunks) |->
            Slice(a.weights[c].device.weights, c)])

AssembledBackupWeights(a) ==
  Filled(Len(a.backup.device.bweights),
         [c \in FirstChunks(a.backup.bchunks) |->
            Slice(a.bweights[c].device.bweights, c)])

-----------------------------------------------------------------------------
(* One pass of the neuron.                                                 *)

(* The numbers of a complete buffer, in the order execute() takes them in. *)
BufferedNumbers(buffer, mask) ==
  LET senders == Ascending(mask)
  IN [k \in DOMAIN senders |-> CHOOSE t \in buffer.values[senders[k]] : TRUE]

Hear(c, packets) ==
  FoldLeft(LAMBDA q, p : SchedulerReceive(c, q, p), SchedulerReset, packets)

Times(n) == [i \in 1..n |-> i]

(* tick() until the output is ready, at most 20 times.                     *)
Ticked(c, s) ==
  FoldLeft(LAMBDA q, i : IF OutputReady(q) THEN q ELSE SchedulerTick(c, q),
           s, Times(20))

Computed(a, s) ==
  Output(a.topology.device.activation, a.topology.device.bias,
         BufferedNumbers(s.node.buffer, a.topology.device.cfg.pred),
         AssembledWeights(a))

-----------------------------------------------------------------------------
(* One test vector: the inputs of the predecessors and the markers of the  *)
(* preceding siblings, and the assertions.                                 *)

Marker(l, n, number) == DataPacket(AddressOf(l, n), "none", {number})

VectorPackets(c, outputs) ==
  LET senders  == Ascending(c.pred)
      siblings == Ascending(c.preceding)
  IN [k \in DOMAIN senders |->
        Marker(c.predLayer, senders[k], outputs[c.predLayer][senders[k]])]
     \o [k \in DOMAIN siblings |-> Marker(c.addr.layer, siblings[k], "marker")]

VectorPasses(d, outputs) ==
  LET role == ParsedRole(d)
      a == FoldLeft(OnSetupPacket, Blank, SetupMessages(role, d.hw))
      c == AssembledConfig(a)
      s == Ticked(c, Hear(c, VectorPackets(d.cfg, outputs)))
  IN /\ a.state = "RUNNING"
     /\ c = d.cfg /\ AssembledWeights(a) = d.weights
     /\ OutputReady(s)
     /\ Computed(a, s) = outputs[d.cfg.addr.layer][d.cfg.addr.node]

(* run_round_trip_check: the model is deployed without backups.            *)
RoundTripCheck(model, pool) ==
  LET devices == Devices(NetworkJson(model, << >>, DefaultGrace), pool)
  IN \A k \in DOMAIN devices : VectorPasses(devices[k], SimulateAll(model))
=============================================================================
