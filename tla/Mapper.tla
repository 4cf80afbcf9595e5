------------------------------- MODULE Mapper -------------------------------
(***************************************************************************)
(* The mapper (src/tools/nn_mapper/core): a model file is loaded and       *)
(* checked (model_io), expanded into nodes (topology), checked against the *)
(* limits of the library (constraints), written as a network description or*)
(* as a manifest of its own (codegen), and simulated (simulate).           *)
(*                                                                         *)
(* A model is the sequence of its layers, the inputs first, so layer id l  *)
(* is at index l + 1; a layer is [size, activation, weights, bias].        *)
(***************************************************************************)
EXTENDS DeviceManifest

CONSTANTS
  MaxPredecessors,   \* NN_MAX_PREDECESSORS
  NoBackup           \* "none" in a backup drop-down

ASSUME MapperAssumption == MaxPredecessors \in Nat

Activations == {"relu", "sigmoid", "tanh", "linear"}

ActivationName == [relu |-> "RELU", sigmoid |-> "SIGMOID", tanh |-> "TANH",
                   linear |-> "LINEAR"]

-----------------------------------------------------------------------------
(* model_io.load_model: no ValueError, and what it returns.                *)

Activation(layer) ==
  IF layer.activation = Missing THEN "linear" ELSE layer.activation

LayerLoads(raw, i) ==
  /\ raw[i].size # Missing /\ Activation(raw[i]) \in Activations
  /\ IF i = 1 THEN raw[i].weights = Missing /\ raw[i].bias = Missing
     ELSE /\ raw[i].weights # Missing /\ raw[i].bias # Missing
          /\ Len(raw[i].weights) = raw[i].size
          /\ \A k \in DOMAIN raw[i].weights :
               Len(raw[i].weights[k]) = raw[i - 1].size
          /\ Len(raw[i].bias) = raw[i].size

Loadable(raw) == Len(raw) >= 2 /\ \A i \in DOMAIN raw : LayerLoads(raw, i)

Load(raw) == [i \in DOMAIN raw |-> [raw[i] EXCEPT !.activation = Activation(raw[i])]]

-----------------------------------------------------------------------------
(* topology.build_topology, device_count                                   *)

Sizes(model) == [i \in DOMAIN model |-> model[i].size]
ModelLayers(model) == 0..(Len(model) - 1)
LastLayer(model) == Len(model) - 1

TopologyNode(model, l, n) ==
  LET layer == model[l + 1]
  IN [addr |-> AddressOf(l, n),
      pred |-> IF l = 0 THEN {} ELSE NodesOf(model[l].size),
      predLayer |-> IF l = 0 THEN 0 ELSE l - 1,
      preceding |-> NodesOf(n),
      succ |-> IF l < LastLayer(model) THEN l + 1 ELSE Missing,
      slot |-> n,
      activation |-> IF l = 0 THEN "linear" ELSE layer.activation,
      weights |-> IF l = 0 THEN << >> ELSE layer.weights[n + 1],
      bias |-> IF l = 0 THEN 0 ELSE layer.bias[n + 1],
      input |-> l = 0]

Topology(model) ==
  [l \in ModelLayers(model) |->
     [k \in 1..model[l + 1].size |-> TopologyNode(model, l, k - 1)]]

(* codegen.all_nodes, physical_nodes *)
AllNodes(model) == FlattenSeq([i \in DOMAIN model |-> Topology(model)[i - 1]])
PhysicalNodes(model) ==
  LET nodes == AllNodes(model)
      physical[k \in 0..Len(nodes)] ==
        IF k = 0 THEN << >>
        ELSE IF nodes[k].input THEN physical[k - 1]
        ELSE Append(physical[k - 1], nodes[k])
  IN physical[Len(nodes)]

DeviceTotal(model) == Len(PhysicalNodes(model))

(* Faulty variant: the bound is taken for a largest id.                    *)
MappableInclusive(model) ==
  /\ Len(model) <= FieldMax + 1
  /\ \A i \in DOMAIN model : model[i].size <= FieldMax + 1
  /\ \A k \in DOMAIN PhysicalNodes(model) :
       Len(PhysicalNodes(model)[k].weights) <= MaxPredecessors

(* constraints.validate_topology; the app does not pass available_devices. *)
Mappable(model) ==
  /\ Len(model) <= FieldMax
  /\ \A i \in DOMAIN model : model[i].size <= FieldMax
  /\ \A k \in DOMAIN PhysicalNodes(model) :
       Len(PhysicalNodes(model)[k].weights) <= MaxPredecessors

-----------------------------------------------------------------------------
(* codegen: backups.  A layer's backups are a function from its backers to *)
(* their targets, the backups of a model a function from some of its layers*)

(* Faulty variant: a node is offered itself.                               *)
EligibleWithSelf(size, n) == IF size < 2 THEN {} ELSE NodesOf(size)

(* eligible_backup_targets *)
EligibleTargets(size, n) == IF size < 2 THEN {} ELSE NodesOf(size) \ {n}

(* model_to_network_json and _validate_layer_backups raise no ValueError.  *)
BackupsValid(model, backups) ==
  /\ DOMAIN backups \subseteq 1..LastLayer(model)
  /\ \A l \in DOMAIN backups :
       LET size == model[l + 1].size
       IN size >= 2 /\ \A n \in DOMAIN backups[l] :
                         /\ n \in NodesOf(size)
                         /\ backups[l][n] \in EligibleTargets(size, n)

DefaultGrace == 50

NetworkJson(model, backups, grace) ==
  [inputSize |-> model[1].size, physicalInputs |-> FALSE,
   layers |-> [l \in 1..LastLayer(model) |->
     LET layer == model[l + 1]
     IN [nodes |-> layer.size, activationType |-> ActivationName[layer.activation],
         weights |-> layer.weights, bias |-> layer.bias,
         backups |-> IF l \in DOMAIN backups THEN backups[l] ELSE << >>,
         grace |-> IF l \in DOMAIN backups THEN grace ELSE DefaultGrace]]]

(* Faulty variant: a third node is taken to be no signal either.           *)
NoRoundEndOfThree(size, layerBackups) == DOMAIN layerBackups # {} /\ size <= 3

(* backup_detection_caveats: no_round_end_signal, and the backers of whom  *)
(* it says target_not_last.                                                *)
NoRoundEndSignal(size, layerBackups) == DOMAIN layerBackups # {} /\ size = 2

TargetNotLast(size, layerBackups) ==
  {n \in DOMAIN layerBackups : layerBackups[n] < size - 1}

-----------------------------------------------------------------------------
(* codegen.assign_hardware_ids, to_devices_json: the mapper's own manifest.*)

TerminalSentinel == 255   \* NN_TERMINAL_LAYER_SENTINEL

DeviceEntry(node, hw) ==
  [hw |-> hw, addr |-> node.addr, pred |-> node.pred,
   preceding |-> node.preceding,
   succ |-> IF node.succ = Missing THEN TerminalSentinel ELSE node.succ,
   slot |-> node.slot, activation |-> ActivationName[node.activation],
   weights |-> node.weights, predLayer |-> node.predLayer, bias |-> node.bias]

(* Faulty variant: ids are handed out from the last layer backwards.       *)
DevicesJsonBackwards(model, pool) ==
  [k \in DOMAIN pool |->
     DeviceEntry(PhysicalNodes(model)[k], pool[Len(pool) + 1 - k])]

DevicesJson(model, pool) ==
  [k \in DOMAIN pool |-> DeviceEntry(PhysicalNodes(model)[k], pool[k])]

-----------------------------------------------------------------------------
(* simulate.simulate_all.  Numbers are left symbolic: an output is the     *)
(* activation of a bias and weighted terms, an input a number of its own.  *)

InputTerm(n) == [activation |-> "input", bias |-> n, terms |-> << >>]

WeightedTerms(values, weights) ==
  [k \in 1..Min({Len(values), Len(weights)}) |-> <<values[k], weights[k]>>]

Output(activation, bias, values, weights) ==
  [activation |-> activation, bias |-> bias,
   terms |-> WeightedTerms(values, weights)]

(* The sender ids of a mask in ascending order.                            *)
Ascending(mask) == SetToSortSeq(mask, <)

SimulateAll(model) ==
  LET out[l \in ModelLayers(model)] ==
        [n \in NodesOf(model[l + 1].size) |->
           LET node    == TopologyNode(model, l, n)
               senders == Ascending(node.pred)
           IN IF l = 0 THEN InputTerm(n)
              ELSE Output(ActivationName[node.activation], node.bias,
                          [k \in DOMAIN senders |-> out[l - 1][senders[k]]],
                          node.weights)]
  IN out
=============================================================================
