---------------------------- MODULE MCInference ----------------------------
(***************************************************************************)
(* Small deployments of Inference, each provisioned as build_devices would.*)
(* The cfg of a run picks a network and the faults.                        *)
(***************************************************************************)
EXTENDS InferenceProperties, Manifest

CONSTANTS
  Network,
  MortalNodes,  \* the node ids of the first layer's devices that may die
  LossyNodes    \* the node ids of the first layer's devices packets get lost to

(* One input, one layer of two nodes that back each other up.              *)
Mutual == [inputSize |-> 1, physicalInputs |-> FALSE,
           layers |-> <<[nodes |-> 2, backups |-> [n \in {0, 1} |-> 1 - n],
                         grace |-> 1]>>]

(* Three siblings: the last one is backed by the first, the first by the   *)
(* last.                                                                   *)
Trio == [inputSize |-> 1, physicalInputs |-> FALSE,
         layers |-> <<[nodes |-> 3, backups |-> [n \in {0, 2} |-> 2 - n],
                       grace |-> 1]>>]

(* A mutual pair that feeds one node of a second layer.                    *)
Deep == [inputSize |-> 1, physicalInputs |-> FALSE,
         layers |-> <<Mutual.layers[1],
                      [nodes |-> 1, backups |-> << >>, grace |-> 1]>>]

MCNodeId == 0..2
MCRun == 1..Runs
MCDevice == BuildDevices(Network)
MCCfg == [a \in Device |-> DeviceConfig(Network, a, {1}, {})]
MCInputs == NodesOf(Network.inputSize)
MCExpected == {a \in Device : a.layer = Len(Network.layers)}
MCMortal == {a \in Device : a.layer = 1 /\ a.node \in MortalNodes}
MCLossy == {a \in Device : a.layer = 1 /\ a.node \in LossyNodes}
MCLossyAll == Receiver
MCLapGroups == {l + 1 : l \in LayerIds(Network)} \cup {DiagGroup}
=============================================================================
