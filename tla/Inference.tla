----------------------------- MODULE Inference -----------------------------
(***************************************************************************)
(* The runtime phase: the devices of a deployment, the laptop that injects *)
(* the inputs of a run and collects the outputs                            *)
(* (run_inference_on_devices, src/tools/nn_mapper/core/runtime.py) and the *)
(* UDP multicast between them.  The network may lose, duplicate, delay and *)
(* reorder packets; devices may die (a rebooted board has a volatile       *)
(* configuration store and does not rejoin before it is provisioned again).*)
(***************************************************************************)
EXTENDS DeviceRuntime

CONSTANTS
  Device,      \* the provisioned devices
  Laptop,      \* the laptop, not a device
  Cfg,         \* their configurations
  Inputs,      \* the virtual input nodes (layer 0) whose values are injected
  Expected,    \* the addresses of the terminal layer
  LapGroups,   \* the groups the laptop joins
  Runs,        \* Run = 1..Runs: the runs the user presses for
  LapTicks,    \* timeout_s
  DrainTicks,  \* REPORT_DRAIN_S
  Timely,      \* TRUE: a tick is long compared with delivery and loop time
  Mortal,      \* the devices that may die
  Lossy,       \* the receivers a packet may be lost on the way to
  Loopback,    \* TRUE: a board hears its own multicast
  MaxLoss, MaxStray, MaxCrash   \* bounds on the faults of a behaviour

ASSUME RunAssumption == Runs \in Nat /\ Run = 1..Runs
ASSUME ConfigurationAssumption == Cfg \in [Device -> Configuration]
ASSUME LaptopAssumption == /\ Laptop \notin Device
                           /\ Inputs \subseteq NodeId
                           /\ LapTicks \in Nat
                           /\ DrainTicks \in Nat /\ DrainTicks >= GapTicks
ASSUME FaultAssumption == {MaxLoss, MaxStray, MaxCrash} \subseteq Nat

VARIABLES
  dev,      \* the device states
  alive,    \* the devices that have not died
  net,      \* the packets in flight to each receiver
  lap,      \* the laptop's client
  faults,   \* the faults so far; a stray packet is a repeated or a late one
  spoken    \* history: who sent DATA in whose name since the run began

vars == <<dev, alive, net, lap, faults, spoken>>

Receiver == Device \cup {Laptop}
Source(i) == [layer |-> 0, node |-> i]

Client == [run : 0..Runs, phase : {"idle", "waiting", "draining"},
           answers : SUBSET [key : Address, value : Value],
           reports : SUBSET [flag : {"substitute", "teardown"},
                             failed : Address \cup {NoAddress}, backup : Address],
           aborted : BOOLEAN, waited : Nat]

Init ==
  /\ dev = [d \in Device |-> StartRuntime(Cfg[d])]
  /\ alive = Device
  /\ net = [r \in Receiver |-> {}]
  /\ lap = [run |-> 0, phase |-> "idle", answers |-> {}, reports |-> {},
            aborted |-> FALSE, waited |-> 0]
  /\ faults = [loss |-> 0, stray |-> 0, crash |-> 0]
  /\ spoken = {}

Hears(sender, r, p) ==
  IF r = Laptop THEN p.group \in LapGroups
  ELSE /\ r \in alive
       /\ p.group \in Groups(Cfg[r])
       /\ r # sender \/ Loopback

Multicast(sender, pkts) ==
  net' = [r \in Receiver |-> net[r] \cup {p \in pkts : Hears(sender, r, p)}]

Speech(d, pkts) ==
  {[by |-> d, as |-> p.src] : p \in {q \in pkts : q.type = "DATA"}}

(* receive() hands a packet to the loop; a duplicated one arrives again.   *)
Deliver(r, p) ==
  \/ net' = [net EXCEPT ![r] = @ \ {p}] /\ UNCHANGED faults
  \/ /\ faults.stray < MaxStray
     /\ faults' = [faults EXCEPT !.stray = @ + 1]
     /\ UNCHANGED net

Receive(d) ==
  /\ d \in alive
  /\ \E p \in net[d] :
       /\ Deliver(d, p)
       /\ dev' = [dev EXCEPT ![d] = ReceivePacket(Cfg[d], @, p)]
  /\ UNCHANGED <<alive, lap, spoken>>

(* The rest of an iteration, once the receive loop has run dry.            *)
LoopStep(d) ==
  /\ d \in alive
  /\ LET s == RuntimeStep(Cfg[d], dev[d])
     IN /\ dev' = [dev EXCEPT ![d] = [s EXCEPT !.sent = {}]]
        /\ Multicast(d, s.sent)
        /\ spoken' = spoken \cup Speech(d, s.sent)
  /\ UNCHANGED <<alive, lap, faults>>

-----------------------------------------------------------------------------
(* The laptop.                                                             *)

Busy(d) == RuntimeStep(Cfg[d], dev[d]) # dev[d]

Quiet == /\ \A r \in alive \cup {Laptop} : net[r] = {}
         /\ \A d \in alive : ~Busy(d)

Complete == Expected \subseteq {a.key : a \in lap.answers}

StartRun ==
  /\ lap.phase = "idle" /\ lap.run < Runs
  /\ Timely => Quiet
  /\ lap' = [run |-> lap.run + 1, phase |-> "waiting", answers |-> {},
             reports |-> {}, aborted |-> FALSE, waited |-> 0]
  /\ Multicast(Laptop,
       {[DataPacket(Source(i), "none", {lap.run + 1}) EXCEPT !.group = 1] :
          i \in Inputs})
  /\ spoken' = {}
  /\ UNCHANGED <<dev, alive, faults>>

(* absorb: reports are filed once, a repeated answer overwrites.           *)
Absorb(p) ==
  CASE Report(p) ->
         [lap EXCEPT !.reports = @ \cup {[flag |-> p.flag, failed |-> p.about,
                                          backup |-> p.src]},
                     !.aborted = @ \/ p.flag = "teardown"]
    [] p.type = "DATA" /\ p.src \in {Cfg[d].addr : d \in Device} ->
         [lap EXCEPT !.answers = {a \in @ : a.key # p.src} \cup
                                 {[key |-> p.src, value |-> p.value]}]
    [] OTHER -> lap

LaptopReceive ==
  /\ \E p \in net[Laptop] :
       /\ Deliver(Laptop, p)
       /\ lap' = IF lap.phase = "idle" THEN lap ELSE Absorb(p)
  /\ UNCHANGED <<dev, alive, spoken>>

(* The wait loop ends with every answer, an abort or the deadline.         *)
StopWaiting ==
  /\ lap.phase = "waiting"
  /\ Complete \/ lap.aborted \/ lap.waited >= LapTicks
  /\ lap' = [lap EXCEPT !.phase = "draining", !.waited = 0]
  /\ UNCHANGED <<dev, alive, net, faults, spoken>>

(* The drain for late reports is over: the run fails unless it is Complete,*)
(* and the socket is closed.                                               *)
FinishRun ==
  /\ lap.phase = "draining" /\ lap.waited >= DrainTicks
  /\ Timely => net[Laptop] = {}
  /\ lap' = [lap EXCEPT !.phase = "idle", !.waited = 0]
  /\ UNCHANGED <<dev, alive, net, faults, spoken>>

-----------------------------------------------------------------------------
(* Time and faults.                                                        *)

LapClockRuns == \/ lap.phase = "waiting" /\ lap.waited < LapTicks
                \/ lap.phase = "draining" /\ lap.waited < DrainTicks

TimeRuns ==
  \/ LapClockRuns
  \/ \E d \in alive : Elapse(Cfg[d], dev[d]) # dev[d]

(* A tick passes although one packet is still under way.                   *)
Straggling ==
  /\ Timely /\ faults.stray < MaxStray
  /\ \E r \in Receiver : \E p \in net[r] :
       \A q \in alive \cup {Laptop} : net[q] = IF q = r THEN {p} ELSE {}
  /\ \A d \in alive : ~Busy(d)

Tick ==
  /\ TimeRuns
  /\ \/ (Timely => Quiet) /\ UNCHANGED faults
     \/ Straggling /\ faults' = [faults EXCEPT !.stray = @ + 1]
  /\ dev' = [d \in Device |-> IF d \in alive THEN Elapse(Cfg[d], dev[d])
                              ELSE dev[d]]
  /\ lap' = IF LapClockRuns THEN [lap EXCEPT !.waited = @ + 1] ELSE lap
  /\ UNCHANGED <<alive, net, spoken>>

Lose(r) ==
  /\ r \in Lossy /\ faults.loss < MaxLoss
  /\ \E p \in net[r] : net' = [net EXCEPT ![r] = @ \ {p}]
  /\ faults' = [faults EXCEPT !.loss = @ + 1]
  /\ UNCHANGED <<dev, alive, lap, spoken>>

Crash(d) ==
  /\ d \in alive \cap Mortal /\ faults.crash < MaxCrash
  /\ alive' = alive \ {d}
  /\ net' = [net EXCEPT ![d] = {}]
  /\ faults' = [faults EXCEPT !.crash = @ + 1]
  /\ UNCHANGED <<dev, lap, spoken>>

Next ==
  \/ \E d \in Device : Receive(d) \/ LoopStep(d) \/ Crash(d)
  \/ \E r \in Receiver : Lose(r)
  \/ StartRun \/ LaptopReceive \/ StopWaiting \/ FinishRun
  \/ Tick

Spec == Init /\ [][Next]_vars

(* Every loop keeps running, the network hands over what it does not lose, *)
(* time passes, and the laptop's client acts on what it has.               *)
(* LoopFairness and TimeFairness are WF_vars(LoopStep(d)) and              *)
(* WF_vars(Tick) with their ENABLED written out: a device that is not Busy *)
(* has only stuttering loop iterations, and no tick is owed while a packet *)
(* is late.                                                                *)
LoopFairness(d) ==
  []<>(d \notin alive \/ ~Busy(d)) \/ []<><<LoopStep(d)>>_vars

TimeFairness ==
  []<>((Timely /\ ~Quiet) \/ ~TimeRuns) \/ []<><<Tick>>_vars

Fairness ==
  /\ \A d \in Device : LoopFairness(d) /\ WF_vars(Receive(d))
  /\ WF_vars(LaptopReceive) /\ WF_vars(StopWaiting) /\ WF_vars(FinishRun)
  /\ TimeFairness

FairSpec == Spec /\ Fairness
=============================================================================
