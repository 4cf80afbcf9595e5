---------------------------- MODULE NNScheduler ----------------------------
(***************************************************************************)
(* A device's neuron (NNNode, src/src/NNNode.h) and the state machine that *)
(* drives it through one inference pass and grants its turn to transmit    *)
(* (NNScheduler, src/src/NNScheduler.h).  The scheduler holds the node     *)
(* (its nodeRef), so a scheduler record contains the node's state.         *)
(*                                                                         *)
(* c is the device's configuration (NNNodeConfig and NNWindowConfig):      *)
(*   addr                its own address                                   *)
(*   pred, predLayer     predecessorMask, predecessorLayerId               *)
(*   succ                successorLayerId                                  *)
(*   preceding           precedingSiblingsMask                             *)
(***************************************************************************)
EXTENDS NNPacket

NodeState == {"WAITING_FOR_INPUT", "READY_TO_EXECUTE", "EXECUTING",
              "WAITING_FOR_TURN", "READY_TO_TRANSMIT", "TRANSMITTED"}

Node == [buffer : InputBuffer, hasExecuted : BOOLEAN, outputValue : Value]

Scheduler == [state : NodeState, observed : SUBSET NodeId, node : Node]

NodeReset == [buffer |-> EmptyBuffer, hasExecuted |-> FALSE,
              outputValue |-> NoValue]

SchedulerReset == [state |-> "WAITING_FOR_INPUT", observed |-> {},
                   node |-> NodeReset]

(* NNNode::onPacketReceived: only the predecessor layer feeds the buffer.  *)
NodeReceive(c, n, p) ==
  IF p.src.layer # c.predLayer THEN n
  ELSE [n EXCEPT !.buffer = StoreInput(@, p.src.node, p.value)]

(* Faulty variant: the gate on the inputs is forgotten.                    *)
ReadyUngated(c, n) == ~n.hasExecuted

ReadyToExecute(c, n) == ~n.hasExecuted /\ IsComplete(n.buffer, c.pred)

Execute(c, n) == [n EXCEPT !.hasExecuted = TRUE,
                           !.outputValue = Gathered(n.buffer, c.pred)]

SeedOutput(n, v) == [n EXCEPT !.hasExecuted = TRUE, !.outputValue = v]

(* NNScheduler::onPacketObserved: any packet from the own layer counts as  *)
(* the transmission of the sibling its source address names.               *)
SiblingObserved(c, s, src) ==
  IF src.layer # c.addr.layer THEN s
  ELSE [s EXCEPT !.observed = @ \cup {src.node}]

(* Faulty variant: any preceding sibling will do.                          *)
TurnGrantedByAny(c, s) == c.preceding = {} \/ c.preceding \cap s.observed # {}

TurnGranted(c, s) == c.preceding \subseteq s.observed

(* NNScheduler::tick: at most one transition per call.                     *)
SchedulerTick(c, s) ==
  CASE s.state = "WAITING_FOR_INPUT" /\ ReadyToExecute(c, s.node) ->
         [s EXCEPT !.state = "READY_TO_EXECUTE"]
    [] s.state = "READY_TO_EXECUTE" -> [s EXCEPT !.state = "EXECUTING"]
    [] s.state = "EXECUTING" ->
         [s EXCEPT !.state = "WAITING_FOR_TURN", !.node = Execute(c, @)]
    [] s.state = "WAITING_FOR_TURN" /\ TurnGranted(c, s) ->
         [s EXCEPT !.state = "READY_TO_TRANSMIT"]
    [] OTHER -> s

NotifySeeded(s) ==
  IF s.state = "WAITING_FOR_INPUT" THEN [s EXCEPT !.state = "WAITING_FOR_TURN"]
  ELSE s

(* NNNode::buildOutputPacket, and hasOutputReady taking it exactly once.   *)
OutputReady(s) == s.state = "READY_TO_TRANSMIT"
OutputPacket(c, s) == DataPacket(c.addr, "none", s.node.outputValue)
OutputTaken(s) == [s EXCEPT !.state = "TRANSMITTED"]
=============================================================================
