------------------------------ MODULE Manifest ------------------------------
(***************************************************************************)
(* What generate_manifest.build_devices derives from a network description:*)
(* the addresses of the physical devices and the configuration of each.    *)
(*                                                                         *)
(* A network is [inputSize, physicalInputs, layers]; physicalInputs says   *)
(* whether "inputValues" is given; layers[l] is [nodes, backups, grace],   *)
(* backups a function from backers to targets.  Weights, biases and        *)
(* activations are left out: a value is its provenance.                    *)
(***************************************************************************)
EXTENDS Integers, Sequences

NodesOf(width) == 0..(width - 1)

AddressOf(l, n) == [layer |-> l, node |-> n]

LayerIds(network) == 1..Len(network.layers)

InputDevices(network) ==
  IF network.physicalInputs
  THEN {AddressOf(0, n) : n \in NodesOf(network.inputSize)} ELSE {}

ComputeDevices(network) ==
  UNION {{AddressOf(l, n) : n \in NodesOf(network.layers[l].nodes)} :
            l \in LayerIds(network)}

BuildDevices(network) == InputDevices(network) \cup ComputeDevices(network)

PredecessorCount(network, l) ==
  IF l = 1 THEN network.inputSize ELSE network.layers[l - 1].nodes

(* An input device: no predecessors, no backup role; seed is its           *)
(* INPUT_VALUE.                                                            *)
InputConfig(a, seed) ==
  [addr |-> a, pred |-> {}, predLayer |-> 0, succ |-> 1,
   preceding |-> NodesOf(a.node), seeded |-> TRUE, seed |-> seed,
   hasRole |-> FALSE, target |-> AddressOf(0, 0), tpred |-> {},
   tpredLayer |-> 0, roster |-> {}, grace |-> 0]

ComputeConfig(network, a, noSeed) ==
  LET layer == network.layers[a.layer]
      pred  == NodesOf(PredecessorCount(network, a.layer))
      role  == a.node \in DOMAIN layer.backups
  IN [addr |-> a, pred |-> pred, predLayer |-> a.layer - 1,
      succ |-> a.layer + 1, preceding |-> NodesOf(a.node),
      seeded |-> FALSE, seed |-> noSeed, hasRole |-> role,
      target |-> IF role THEN AddressOf(a.layer, layer.backups[a.node])
                 ELSE AddressOf(0, 0),
      tpred |-> IF role THEN pred ELSE {},
      tpredLayer |-> IF role THEN a.layer - 1 ELSE 0,
      roster |-> IF role THEN NodesOf(layer.nodes) ELSE {},
      grace |-> IF role THEN layer.grace ELSE 0]

DeviceConfig(network, a, seed, noSeed) ==
  IF a.layer = 0 THEN InputConfig(a, seed) ELSE ComputeConfig(network, a, noSeed)
=============================================================================
