--------------------------- MODULE DeviceManifest ---------------------------
(***************************************************************************)
(* The manifest of a deployment: build_devices of generate_manifest.py     *)
(* with its checks, in the order of the hardware pool, and parse_devices of*)
(* device_manifest.py, which turns it into what the setup tool sends.      *)
(*                                                                         *)
(* To the fields of Manifest a network adds inputValues, and a layer its   *)
(* activationType, weights (a row per node) and bias.                      *)
(***************************************************************************)
EXTENDS Manifest, SequencesExt

CONSTANTS
  Missing,      \* a JSON key that is absent
  FieldMax,     \* 2^NN_ADDRESS_FIELD_BITS: an address field is taken modulo it
  ChunkFloats   \* NN_WEIGHTS_CHUNK_MAX_FLOATS

ASSUME ManifestAssumption ==
  {FieldMax, ChunkFloats} \subseteq Nat \ {0} /\ Missing \notin Nat

ActivationTypes == {"RELU", "SIGMOID", "TANH", "LINEAR"}

-----------------------------------------------------------------------------
(* build_devices                                                           *)

Row(l, width) == [k \in 1..width |-> AddressOf(l, k - 1)]

(* The nodes in the order in which they take boards from the pool.         *)
PoolOrder(network) ==
  (IF network.physicalInputs THEN Row(0, network.inputSize) ELSE << >>)
  \o FlattenSeq([l \in LayerIds(network) |-> Row(l, network.layers[l].nodes)])

LayerFits(network, l) ==
  LET layer == network.layers[l]
  IN /\ Len(layer.weights) = layer.nodes
     /\ \A k \in DOMAIN layer.weights :
          Len(layer.weights[k]) = PredecessorCount(network, l)
     /\ layer.bias # Missing => Len(layer.bias) = layer.nodes
     /\ \A n \in DOMAIN layer.backups :
          /\ {n, layer.backups[n]} \subseteq NodesOf(layer.nodes)
          /\ n # layer.backups[n]

(* No GenerateError.                                                       *)
Buildable(network, pool) ==
  /\ network.physicalInputs => Len(network.inputValues) = network.inputSize
  /\ Len(PoolOrder(network)) <= Len(pool)
  /\ \A l \in LayerIds(network) : LayerFits(network, l)

(* Faulty variant: the biases of the network are not looked up.            *)
BiasNone(layer) == [k \in 1..layer.nodes |-> 0]

BiasOf(layer) ==
  IF layer.bias = Missing THEN [k \in 1..layer.nodes |-> 0] ELSE layer.bias

(* Faulty variant: the backup gets its own weights instead of its target's.*)
BackupSourceSelf(config) == config.addr.node + 1

(* The index of the weights a backup stands in with.                       *)
BackupSource(config) == config.target.node + 1

(* cfg holds the fields the scheduler and the standby read.                *)
Device(network, a, hw) ==
  IF a.layer = 0
  THEN [hw |-> hw, cfg |-> InputConfig(a, network.inputValues[a.node + 1]),
        slot |-> a.node, activation |-> "LINEAR", weights |-> << >>, bias |-> 0,
        bactivation |-> "LINEAR", bweights |-> << >>, bbias |-> 0]
  ELSE LET layer  == network.layers[a.layer]
           config == ComputeConfig(network, a, {})
           source == BackupSource(config)
       IN [hw |-> hw, cfg |-> config, slot |-> a.node,
           activation |-> layer.activationType,
           weights |-> layer.weights[a.node + 1],
           bias |-> BiasOf(layer)[a.node + 1],
           bactivation |-> layer.activationType,
           bweights |-> IF config.hasRole THEN layer.weights[source] ELSE << >>,
           bbias |-> IF config.hasRole THEN BiasOf(layer)[source] ELSE 0]

Devices(network, pool) ==
  [k \in DOMAIN PoolOrder(network) |->
     Device(network, PoolOrder(network)[k], pool[k])]

-----------------------------------------------------------------------------
(* parse_devices; that the required fields are there is the shape of Device*)

(* No ManifestError. *)
Parses(d) ==
  /\ {d.activation, d.bactivation} \subseteq ActivationTypes
  /\ d.cfg.hasRole => d.cfg.target.layer = d.cfg.addr.layer

(* decode_address(encode_address(a)): every field keeps its low bits.      *)
OnWire(a) == [layer |-> a.layer % FieldMax, node |-> a.node % FieldMax]

ChunkCount(n) == (n + ChunkFloats - 1) \div ChunkFloats

(* The role the setup tool gives the device, as NNSetupAgent has it.       *)
ParsedRole(d) ==
  [id |-> "device", addr |-> OnWire(d.cfg.addr),
   chunks |-> ChunkCount(Len(d.weights)), backup |-> d.cfg.hasRole,
   bchunks |-> ChunkCount(Len(d.bweights)), seed |-> d.cfg.seeded,
   device |-> d]
=============================================================================
