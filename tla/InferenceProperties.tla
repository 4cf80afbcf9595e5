------------------------ MODULE InferenceProperties ------------------------
(***************************************************************************)
(* What a deployment promises the person who presses Run.  Which property  *)
(* holds under which faults is the matter of the runs (README.md).         *)
(***************************************************************************)
EXTENDS Inference

(* Every variable keeps the shape of the code's globals, and no packet is *)
(* left in a device's hand between two iterations of its loop.             *)
TypeOK ==
  /\ dev \in [Device -> DeviceState]
  /\ \A d \in Device : dev[d].sent = {}
  /\ alive \subseteq Device
  /\ net \in [Receiver -> SUBSET Packet]
  /\ lap \in Client
  /\ faults \in [loss : 0..MaxLoss, stray : 0..MaxStray, crash : 0..MaxCrash]
  /\ spoken \subseteq [by : Device, as : Address]

Sibling(d, n) == [layer |-> d.layer, node |-> n]

Spoke(d) == [by |-> d, as |-> d] \in spoken
HeardOf(a) == a \in {s.as : s \in spoken}

RunEnds == lap.phase = "draining" /\ lap'.phase = "idle"

-----------------------------------------------------------------------------
(* No run is lost: whenever the client gives up its socket, every device   *)
(* of the terminal layer, or its substitute, has answered                  *)
(* (README.md: "so the rest of the network never notices").                *)
RunsComplete == [][RunEnds => Complete]_vars

(* An answer is computed from the inputs of the run it answers and from    *)
(* nothing an earlier run left in a buffer (NNNode.h:91).                  *)
FreshAnswers == \A a \in lap.answers : a.value = {lap.run}

(* A node leaves WAITING_FOR_INPUT only with the value of every            *)
(* predecessor, a substitute's counting as the target's, and keeps them    *)
(* until its pass closes (NNNode.h:52).                                    *)
InputsComplete ==
  \A d \in Device : dev[d].sched.state # "WAITING_FOR_INPUT"
                      => IsComplete(dev[d].sched.node.buffer, Cfg[d].pred)

(* No target is ever given up: build_devices gives a standby its own       *)
(* predecessors as the target's, and it watches only in passes it has all  *)
(* inputs for, so that it has the target's too.  No TEARDOWN and no report *)
(* of one is on its way to anybody, and no run is aborted for one          *)
(* (ino:401-408).                                                          *)
NeverTornDown ==
  /\ \A r \in Receiver : \A p \in net[r] :
       p.type # "TEARDOWN" /\ p.flag # "teardown"
  /\ ~lap.aborted

(* Nobody speaks for a sibling that is alive, whether or not it has spoken *)
(* itself (NNFailover.h:102-111).                                          *)
OnlyTheDeadReplaced ==
  \A s \in spoken : s.by # s.as => s.as \notin alive

(* The laptop never names a live node as failed.                           *)
ReportsTrue == \A r \in lap.reports : r.failed \notin alive

(* When a run ends, every substitution made in it has been reported, with  *)
(* the failed node and the one that stood in for it (runtime.py:162).      *)
SubstitutionsReported ==
  [][RunEnds => \A s \in spoken : s.by # s.as =>
       \E r \in lap.reports : r.failed = s.as /\ r.backup = s.by]_vars

(* Siblings of a layer transmit in the order of their node ids: while its  *)
(* preceding siblings live, a device speaks in its own name only when every*)
(* one of them has been heard of in this run (NNScheduler.h:17).           *)
TurnOrder ==
  [][\A d \in alive :
       /\ Spoke(d)' /\ ~Spoke(d)
       /\ \A n \in Cfg[d].preceding : Sibling(d, n) \in alive
       => \A n \in Cfg[d].preceding : HeardOf(Sibling(d, n))]_vars

(* A standby asks for a retransmission only when everyone else in the      *)
(* layer has gone in this run (NNFailover.h:94).                           *)
AskAfterRound ==
  [][\A d \in Device :
       ~dev[d].standby.resendRequested /\ dev'[d].standby.resendRequested =>
         \A n \in Others(Cfg[d]) : HeardOf(Sibling(d, n))]_vars

-----------------------------------------------------------------------------
(* The run as the laptop and the layer play it keeps the promise of        *)
(* LayerRun: whatever the packets, the clocks and the deaths do in between,*)
(* nobody is spoken for who lives or has spoken, nothing is filed that was *)
(* not said, and neither end of the run comes early (NNFailover.h,         *)
(* runtime.py).                                                            *)
Promise == INSTANCE LayerRun WITH
  Member <- Device, Final <- Expected, live <- alive, phase <- lap.phase,
  voices <- spoken, answered <- {a.key : a \in lap.answers},
  logged <- {[by |-> r.backup, as |-> r.failed] : r \in lap.reports}

RunAsPromised == Promise!RunSpec

-----------------------------------------------------------------------------
(* Every run comes to an end with all its answers.                         *)
RunsAnswered == lap.phase = "waiting" ~> (lap.phase = "idle" /\ Complete)

(* A device that has begun a pass comes back for the next one unless it    *)
(* dies, whatever happened to its siblings.                                *)
PassesClose ==
  \A d \in Device : dev[d].sched.state # "WAITING_FOR_INPUT" ~>
                      (d \notin alive \/ dev[d].sched.state = "WAITING_FOR_INPUT")
=============================================================================
