-------------------------- MODULE InferenceProofs --------------------------
(***************************************************************************)
(* Safety of a deployment.  IInv and what follows from it holds in every   *)
(* network, for every number of runs and every pattern of losses,          *)
(* duplications, delays and deaths.  AskInv speaks of a first run, under   *)
(* the same faults.  LayerInv speaks of a first run of one layer to whose  *)
(* devices nothing is lost, under every order of events and every death.   *)
(* DeadlineInv and PromiseInv speak of such a run when at most one device  *)
(* dies, one that has a backup: the laptop gets what LayerRun promises.    *)
(***************************************************************************)
EXTENDS InferenceProperties, Manifest, DeviceRuntimeProofs, WellFoundedInduction

IInv == TypeOK /\ \A d \in Device : DeviceInv(Cfg[d], dev[d])

-----------------------------------------------------------------------------
LEMMA ConfigurationOf == \A d \in Device : Cfg[d] \in Configuration
BY ConfigurationAssumption

(* What is multicast reaches inboxes as packets.                           *)
LEMMA MulticastType ==
  ASSUME net \in [Receiver -> SUBSET Packet], NEW pkts \in SUBSET Packet,
         NEW sender, Multicast(sender, pkts)
  PROVE  net' \in [Receiver -> SUBSET Packet]
BY DEF Multicast

LEMMA DeliverType ==
  ASSUME net \in [Receiver -> SUBSET Packet], NEW r \in Receiver,
         faults \in [loss : 0..MaxLoss, stray : 0..MaxStray, crash : 0..MaxCrash],
         NEW p, Deliver(r, p)
  PROVE  /\ net' \in [Receiver -> SUBSET Packet]
         /\ faults' \in [loss : 0..MaxLoss, stray : 0..MaxStray, crash : 0..MaxCrash]
BY FaultAssumption DEF Deliver

LEMMA SpeechType ==
  ASSUME NEW d \in Device, NEW pkts \in SUBSET Packet
  PROVE  Speech(d, pkts) \subseteq [by : Device, as : Address]
BY DEF Speech, Packet

(* The packets the laptop injects.                                         *)
LEMMA InjectedType ==
  ASSUME NEW i \in Inputs, NEW r \in Run
  PROVE  [DataPacket(Source(i), "none", {r}) EXCEPT !.group = 1] \in Packet
<1>1. Source(i) \in Address
  BY LaptopAssumption DEF Source, Address, Layer
<1>2. {r} \in Value
  BY DEF Value
<1> QED BY <1>1, <1>2 DEF DataPacket, Packet, Group, Copies

LEMMA AbsorbType ==
  ASSUME lap \in Client, NEW p \in Packet
  PROVE  Absorb(p) \in Client
<1>1. p.src \in Address /\ p.value \in Value /\ p.about \in Address \cup {NoAddress}
  BY DEF Packet
<1>2. CASE Report(p)
  <2>1. p.flag \in {"substitute", "teardown"}
    BY <1>2 DEF Report, Packet
  <2> DEFINE report == [flag |-> p.flag, failed |-> p.about, backup |-> p.src]
             gone == lap.aborted \/ p.flag = "teardown"
  <2>2. report \in [flag : {"substitute", "teardown"},
                    failed : Address \cup {NoAddress}, backup : Address]
    BY <1>1, <2>1
  <2>3. Absorb(p) = [lap EXCEPT !.reports = @ \cup {report}, !.aborted = gone]
    BY <1>2 DEF Absorb, Report
  <2>4. gone \in BOOLEAN
    BY Zenon
  <2> DEFINE reports == lap.reports \cup {report}
  <2>5. reports \in SUBSET [flag : {"substitute", "teardown"},
                            failed : Address \cup {NoAddress}, backup : Address]
    BY <2>2 DEF Client
  <2> HIDE DEF reports, gone
  <2>6. [lap EXCEPT !.reports = reports, !.aborted = gone] \in Client
    BY <2>4, <2>5 DEF Client
  <2> QED BY <2>3, <2>6 DEF reports
<1>3. CASE ~Report(p) /\ p.type = "DATA" /\ p.src \in {Cfg[d].addr : d \in Device}
  <2>1. [key |-> p.src, value |-> p.value] \in [key : Address, value : Value]
    BY <1>1
  <2> QED BY <1>3, <2>1 DEF Absorb, Client
<1>4. CASE ~Report(p) /\ ~(p.type = "DATA" /\ p.src \in {Cfg[d].addr : d \in Device})
  BY <1>4 DEF Absorb
<1> QED BY <1>2, <1>3, <1>4

-----------------------------------------------------------------------------
LEMMA InitInv == Init => IInv
<1> SUFFICES ASSUME Init PROVE IInv
  OBVIOUS
<1>1. \A d \in Device : DeviceInv(Cfg[d], dev[d])
  BY ConfigurationOf, StartRuntimeInv DEF Init
<1>2. \A d \in Device : dev[d].sent = {}
  BY ConfigurationOf DEF Init, StartRuntime, PassReset
<1>3. dev \in [Device -> DeviceState]
  BY <1>1 DEF Init, DeviceInv
<1>4. lap \in Client
  BY RunAssumption DEF Init, Client
<1>5. faults \in [loss : 0..MaxLoss, stray : 0..MaxStray, crash : 0..MaxCrash]
  BY FaultAssumption DEF Init
<1>6. alive \subseteq Device /\ net \in [Receiver -> SUBSET Packet]
      /\ spoken \subseteq [by : Device, as : Address]
  BY DEF Init
<1> QED BY <1>1, <1>2, <1>3, <1>4, <1>5, <1>6 DEF IInv, TypeOK

LEMMA ReceiveInv ==
  ASSUME IInv, NEW d \in Device, Receive(d)
  PROVE  IInv'
<1> USE DEF IInv, TypeOK
<1>1. PICK p \in net[d] : /\ Deliver(d, p)
                          /\ dev' = [dev EXCEPT ![d] = ReceivePacket(Cfg[d], @, p)]
  BY DEF Receive
<1>2. p \in Packet /\ d \in Receiver
  BY DEF Receiver
<1>3. DeviceInv(Cfg[d], ReceivePacket(Cfg[d], dev[d], p))
  BY <1>2, ConfigurationOf, ReceivePacketInv
<1>4. ReceivePacket(Cfg[d], dev[d], p).sent = {}
  BY <1>2 DEF ReceivePacket, ReceiveData, ReceiveControl, DeviceState, Packet
<1>5. dev' \in [Device -> DeviceState]
  BY <1>1, <1>3 DEF DeviceInv
<1>6. net' \in [Receiver -> SUBSET Packet]
      /\ faults' \in [loss : 0..MaxLoss, stray : 0..MaxStray, crash : 0..MaxCrash]
  BY <1>1, <1>2, DeliverType
<1>7. UNCHANGED <<alive, lap, spoken>>
  BY DEF Receive
<1> QED BY <1>1, <1>3, <1>4, <1>5, <1>6, <1>7

LEMMA LoopStepInv ==
  ASSUME IInv, NEW d \in Device, LoopStep(d)
  PROVE  IInv'
<1> USE DEF IInv, TypeOK
<1> DEFINE s == RuntimeStep(Cfg[d], dev[d])
           t == [s EXCEPT !.sent = {}]
<1>1. DeviceInv(Cfg[d], s) /\ s \in DeviceState /\ s.sent \subseteq Packet
  BY ConfigurationOf, RuntimeStepInv DEF DeviceInv, DeviceState
<1>2. /\ dev' = [dev EXCEPT ![d] = t] /\ Multicast(d, s.sent)
      /\ spoken' = spoken \cup Speech(d, s.sent)
      /\ UNCHANGED <<alive, lap, faults>>
  BY DEF LoopStep
<1> HIDE DEF s
<1>3. /\ t \in DeviceState /\ t.sent = {} /\ t.sched = s.sched
      /\ t.standby = s.standby /\ t.retx = s.retx
  BY <1>1 DEF DeviceState
<1> HIDE DEF t
<1>4. DeviceInv(Cfg[d], t)
  BY <1>1, <1>3, ConfigurationOf, Framed DEF DeviceInv, SlotsLoaded
<1>5. net' \in [Receiver -> SUBSET Packet]
  BY <1>1, <1>2, MulticastType
<1>6. spoken' \subseteq [by : Device, as : Address]
  BY <1>1, <1>2, SpeechType
<1>7. /\ dev' \in [Device -> DeviceState]
      /\ \A e \in Device : DeviceInv(Cfg[e], dev'[e]) /\ dev'[e].sent = {}
  BY <1>2, <1>3, <1>4
<1>8. /\ alive' \subseteq Device /\ lap' \in Client
      /\ faults' \in [loss : 0..MaxLoss, stray : 0..MaxStray, crash : 0..MaxCrash]
  BY <1>2
<1> QED BY <1>5, <1>6, <1>7, <1>8

LEMMA TickInv ==
  ASSUME IInv, Tick
  PROVE  IInv'
<1> USE DEF IInv, TypeOK
<1>1. \A d \in Device : /\ DeviceInv(Cfg[d], Elapse(Cfg[d], dev[d]))
                        /\ Elapse(Cfg[d], dev[d]).sent = {}
  <2> TAKE d \in Device
  <2>1. DeviceInv(Cfg[d], dev[d]) /\ dev[d] \in DeviceState /\ dev[d].sent = {}
    OBVIOUS
  <2>2. DeviceInv(Cfg[d], Elapse(Cfg[d], dev[d]))
    BY <2>1, ConfigurationOf, ElapseInv
  <2>3. Elapse(Cfg[d], dev[d]).sent = {}
    BY <2>1 DEF Elapse, DeviceState
  <2> QED BY <2>2, <2>3
<1>2. /\ dev' = [d \in Device |-> IF d \in alive THEN Elapse(Cfg[d], dev[d])
                                  ELSE dev[d]]
      /\ lap' = IF LapClockRuns THEN [lap EXCEPT !.waited = @ + 1] ELSE lap
      /\ UNCHANGED <<alive, net, spoken>>
  BY DEF Tick
<1>3. \A d \in Device : DeviceInv(Cfg[d], dev'[d]) /\ dev'[d].sent = {}
  BY <1>1, <1>2
<1>4. dev' \in [Device -> DeviceState]
  BY <1>2, <1>3 DEF DeviceInv
<1>5. lap' \in Client
  BY <1>2 DEF Client
<1>6. faults' \in [loss : 0..MaxLoss, stray : 0..MaxStray, crash : 0..MaxCrash]
  BY FaultAssumption DEF Tick, Straggling
<1> QED BY <1>2, <1>3, <1>4, <1>5, <1>6

LEMMA StartRunInv ==
  ASSUME IInv, StartRun
  PROVE  IInv'
<1> USE DEF IInv, TypeOK
<1> DEFINE pkts == {[DataPacket(Source(i), "none", {lap.run + 1})
                       EXCEPT !.group = 1] : i \in Inputs}
<1>1. lap.run \in 0..Runs /\ lap.run < Runs
  BY DEF StartRun, Client
<1>2. lap.run + 1 \in Run /\ lap.run + 1 \in 0..Runs
  BY <1>1, RunAssumption
<1>3. pkts \subseteq Packet
  BY <1>2, InjectedType
<1>4. Multicast(Laptop, pkts) /\ spoken' = {} /\ UNCHANGED <<dev, alive, faults>>
  BY DEF StartRun
<1> HIDE DEF pkts
<1>5. net' \in [Receiver -> SUBSET Packet]
  BY <1>3, <1>4, MulticastType
<1>6. lap' \in Client
  BY <1>2 DEF StartRun, Client
<1> QED BY <1>4, <1>5, <1>6

LEMMA LaptopInv ==
  ASSUME IInv, LaptopReceive \/ StopWaiting \/ FinishRun
  PROVE  IInv'
<1> USE DEF IInv, TypeOK
<1>1. CASE LaptopReceive
  <2>1. PICK p \in net[Laptop] :
          /\ Deliver(Laptop, p)
          /\ lap' = IF lap.phase = "idle" THEN lap ELSE Absorb(p)
    BY <1>1 DEF LaptopReceive
  <2>2. Laptop \in Receiver /\ p \in Packet
    BY DEF Receiver
  <2>3. lap' \in Client
    BY <2>1, <2>2, AbsorbType
  <2>4. net' \in [Receiver -> SUBSET Packet]
        /\ faults' \in [loss : 0..MaxLoss, stray : 0..MaxStray, crash : 0..MaxCrash]
    BY <2>1, <2>2, DeliverType
  <2> QED BY <1>1, <2>3, <2>4 DEF LaptopReceive
<1>2. CASE StopWaiting
  <2>1. lap' \in Client
    BY <1>2 DEF StopWaiting, Client
  <2> QED BY <1>2, <2>1 DEF StopWaiting
<1>3. CASE FinishRun
  <2>1. lap' \in Client
    BY <1>3 DEF FinishRun, Client
  <2> QED BY <1>3, <2>1 DEF FinishRun
<1> QED BY <1>1, <1>2, <1>3

LEMMA FaultInv ==
  ASSUME IInv, (\E r \in Receiver : Lose(r)) \/ (\E d \in Device : Crash(d))
  PROVE  IInv'
<1> USE DEF IInv, TypeOK
<1>1. ASSUME NEW r \in Receiver, Lose(r) PROVE IInv'
  <2>1. net' \in [Receiver -> SUBSET Packet]
        /\ faults' \in [loss : 0..MaxLoss, stray : 0..MaxStray, crash : 0..MaxCrash]
    BY <1>1, FaultAssumption DEF Lose
  <2> QED BY <1>1, <2>1 DEF Lose
<1>2. ASSUME NEW d \in Device, Crash(d) PROVE IInv'
  <2>1. net' \in [Receiver -> SUBSET Packet]
        /\ faults' \in [loss : 0..MaxLoss, stray : 0..MaxStray, crash : 0..MaxCrash]
    BY <1>2, FaultAssumption DEF Crash, Receiver
  <2> QED BY <1>2, <2>1 DEF Crash
<1> QED BY <1>1, <1>2

LEMMA StepInv == IInv /\ [Next]_vars => IInv'
<1> SUFFICES ASSUME IInv, [Next]_vars PROVE IInv'
  OBVIOUS
<1>1. CASE UNCHANGED vars
  BY <1>1 DEF vars, IInv, TypeOK
<1> QED BY <1>1, ReceiveInv, LoopStepInv, TickInv, StartRunInv, LaptopInv,
           FaultInv DEF Next

LEMMA Invariance == Spec => []IInv
BY InitInv, StepInv, PTL DEF Spec

-----------------------------------------------------------------------------
(* Devices, inboxes and the client always hold what they should hold.      *)
THEOREM TypeCorrect == Spec => []TypeOK
<1>1. IInv => TypeOK
  BY DEF IInv
<1> QED BY <1>1, Invariance, PTL

(* No neuron fires on a part of its inputs, in any network and under any   *)
(* loss, duplication, reordering or death (NNNode::readyToExecute).        *)
THEOREM NodesWaitForInputs == Spec => []InputsComplete
<1>1. IInv => InputsComplete
  BY DEF IInv, InputsComplete, DeviceInv, PastInputs
<1> QED BY <1>1, Invariance, PTL

(* Every device knows its own address and waits for packets: none of them  *)
(* is an input board, and no layer is layer 0, the virtual input nodes'.   *)
FedByLaptop ==
  \A d \in Device : Cfg[d].addr = d /\ d.layer # 0 /\ Cfg[d].pred # {}

(* Between two iterations a device has handed over what it had to send.    *)
Settled == \A d \in Device : HandedOver(dev[d]) /\ Unresolved(dev[d].standby)

(* A device no packet has reached.                                         *)
Resting(s) ==
  /\ s.sched.state = "WAITING_FOR_INPUT" /\ ~s.sched.node.hasExecuted
  /\ s.sched.node.buffer.received = {} /\ s.sched.observed = {}
  /\ ~s.ownOutputSent /\ ~s.responder.pending /\ s.locked = {} /\ ~s.stallArmed
  /\ s.standby.layerObserved = {} /\ ~s.standby.resendRequested
  /\ ~s.standby.targetObserved
  /\ ~s.standby.hasSubstituted /\ ~s.standby.hasTornDown
  /\ \A k \in Slot : ~(s.retx[k].left > 0)

AtRest ==
  lap.run = 0 =>
    /\ spoken = {} /\ lap.reports = {} /\ \A r \in Receiver : net[r] = {}
    /\ \A d \in Device : Resting(dev[d])

(* What has been observed, or will be, has been said in this run.          *)
Truthful ==
  /\ \A r \in Receiver : \A p \in net[r] :
       p.type = "DATA" => p.src.layer = 0 \/ HeardOf(p.src)
  /\ \A d \in Device : \A n \in dev[d].standby.layerObserved : HeardOf(Sibling(d, n))

AskInv == Settled /\ AtRest /\ Truthful

-----------------------------------------------------------------------------
(* What LoopStep(d) does, in the terms of the device lemmas.               *)
LoopEffect(d, u, v) ==
  /\ u = RuntimeStep(Cfg[d], dev[d]) /\ StepTaken(Cfg[d], dev[d], u)
  /\ v = [u EXCEPT !.sent = {}] /\ v \in DeviceState
  /\ SameOthers(u, v) /\ v.retx = u.retx
  /\ dev' = [dev EXCEPT ![d] = v]
  /\ net' = [r \in Receiver |-> net[r] \cup {p \in u.sent : Hears(d, r, p)}]
  /\ spoken' = spoken \cup Speech(d, u.sent)
  /\ u.sent \subseteq Packet
  /\ d \in alive
  /\ UNCHANGED <<alive, lap, faults>>

LEMMA LoopStepEffect ==
  ASSUME IInv, Settled, NEW d \in Device, LoopStep(d)
  PROVE  \E u, v : LoopEffect(d, u, v)
<1>1. PICK u : u = RuntimeStep(Cfg[d], dev[d])
  OBVIOUS
<1>2. DeviceInv(Cfg[d], dev[d]) /\ Cfg[d] \in Configuration
      /\ HandedOver(dev[d]) /\ Unresolved(dev[d].standby)
  BY ConfigurationOf DEF IInv, Settled
<1>3. StepTaken(Cfg[d], dev[d], u)
  BY <1>1, <1>2, StepDone
<1>4. u \in DeviceState
  BY <1>1, <1>2, RuntimeStepInv DEF DeviceInv
<1>5. PICK v : v = [u EXCEPT !.sent = {}]
  OBVIOUS
<1>6. v \in DeviceState /\ SameOthers(u, v) /\ v.retx = u.retx
  BY <1>4, <1>5 DEF DeviceState, SameOthers
<1>7. u.sent \subseteq Packet
  BY <1>4 DEF DeviceState
<1> QED BY <1>1, <1>3, <1>5, <1>6, <1>7 DEF LoopStep, Multicast, LoopEffect

(* And Receive(d).                                                         *)
PacketEffect(d, p, u) ==
  /\ p \in net[d] /\ p \in Packet /\ d \in alive
  /\ u = ReceivePacket(Cfg[d], dev[d], p)
  /\ PacketTaken(Cfg[d], dev[d], p, u) /\ dev' = [dev EXCEPT ![d] = u]
  /\ Deliver(d, p)
  /\ UNCHANGED <<alive, lap, spoken>>

LEMMA ReceiveEffect ==
  ASSUME IInv, NEW d \in Device, Receive(d)
  PROVE  \E p, u : PacketEffect(d, p, u)
<1>1. PICK p \in net[d] : /\ Deliver(d, p)
                          /\ dev' = [dev EXCEPT ![d] = ReceivePacket(Cfg[d], @, p)]
  BY DEF Receive
<1>2. p \in Packet
  BY DEF IInv, TypeOK, Receiver
<1>3. DeviceInv(Cfg[d], dev[d]) /\ Cfg[d] \in Configuration
  BY ConfigurationOf DEF IInv
<1>4. PICK u : u = ReceivePacket(Cfg[d], dev[d], p)
  OBVIOUS
<1>5. PacketTaken(Cfg[d], dev[d], p, u)
  BY <1>2, <1>3, <1>4, PacketDone
<1>6. dev' = [dev EXCEPT ![d] = u]
  BY <1>1, <1>4
<1> QED BY <1>1, <1>2, <1>4, <1>5, <1>6 DEF Receive, PacketEffect

LEMMA TickEffect ==
  ASSUME IInv, Tick
  PROVE  /\ \A d \in Device : IF d \in alive THEN TimePassed(Cfg[d], dev[d], dev'[d])
                              ELSE dev'[d] = dev[d]
         /\ lap'.run = lap.run /\ lap'.reports = lap.reports
         /\ lap'.answers = lap.answers
         /\ UNCHANGED <<alive, net, spoken>>
<1>1. ASSUME NEW d \in alive PROVE TimePassed(Cfg[d], dev[d], dev'[d])
  <2>1. d \in Device
    BY DEF IInv, TypeOK
  <2>2. DeviceInv(Cfg[d], dev[d]) /\ Cfg[d] \in Configuration
    BY <2>1, ConfigurationOf DEF IInv
  <2>3. dev'[d] = Elapse(Cfg[d], dev[d])
    BY <2>1, <1>1 DEF Tick
  <2> QED BY <2>2, <2>3, TimeDone
<1>2. lap'.run = lap.run /\ lap'.reports = lap.reports /\ lap'.answers = lap.answers
  BY DEF Tick, IInv, TypeOK, Client
<1> QED BY <1>1, <1>2 DEF Tick

-----------------------------------------------------------------------------
LEMMA AskInit == FedByLaptop /\ Init => AskInv
<1> SUFFICES ASSUME FedByLaptop, Init PROVE AskInv
  OBVIOUS
<1>1. ASSUME NEW d \in Device PROVE HandedOver(dev[d]) /\ Unresolved(dev[d].standby)
                                    /\ Resting(dev[d])
  <2>1. dev[d] = PassReset
    BY DEF Init, StartRuntime, PassManaged, FedByLaptop
  <2>2. PassReset.sent = {} /\ PassReset.sched = SchedulerReset
        /\ PassReset.standby = StandbyReset /\ ~PassReset.ownOutputSent
        /\ PassReset.responder = NoReply /\ PassReset.locked = {}
        /\ ~PassReset.stallArmed /\ PassReset.retx = [k \in Slot |-> EmptySlot]
    BY DEF PassReset
  <2>3. \A k \in Slot : ~(PassReset.retx[k].left > 0)
    BY <2>2 DEF EmptySlot
  <2>4. /\ HandedOver(PassReset) /\ Unresolved(PassReset.standby)
    BY <2>2 DEF HandedOver, Unresolved, StandbyReset, SchedulerReset
  <2>5. Resting(PassReset)
    BY <2>2, <2>3 DEF Resting, StandbyReset, SchedulerReset, NodeReset, EmptyBuffer, NoReply
  <2> QED BY <2>1, <2>4, <2>5
<1>2. \A d \in Device : dev[d].standby.layerObserved = {}
  BY <1>1 DEF Resting
<1> QED BY <1>1, <1>2 DEF Init, AskInv, Settled, AtRest, Truthful

LEMMA SettledStep ==
  ASSUME IInv, Settled, [Next]_vars
  PROVE  Settled'
<1>1. ASSUME NEW d \in Device, LoopStep(d) PROVE Settled'
  <2>1. PICK u, v : LoopEffect(d, u, v)
    BY <1>1, LoopStepEffect
  <2>2. HandedOver(v) /\ Unresolved(v.standby)
    BY <2>1 DEF LoopEffect, StepTaken, SameOthers
  <2> QED BY <2>1, <2>2 DEF LoopEffect, Settled, IInv, TypeOK
<1>2. ASSUME NEW d \in Device, Receive(d) PROVE Settled'
  <2>1. PICK p, u : PacketEffect(d, p, u)
    BY <1>2, ReceiveEffect
  <2>2. HandedOver(u) /\ Unresolved(u.standby)
    BY <2>1 DEF PacketEffect, Settled, PacketTaken, Unjudging, HandedOver, Unresolved
  <2> QED BY <2>1, <2>2 DEF PacketEffect, Settled, IInv, TypeOK
<1>3. CASE Tick
  <2>1. ASSUME NEW d \in Device PROVE HandedOver(dev'[d]) /\ Unresolved(dev'[d].standby)
    BY <1>3, TickEffect DEF Settled, TimePassed, HandedOver, Unresolved
  <2> QED BY <2>1 DEF Settled
<1>4. CASE UNCHANGED dev
  BY <1>4 DEF Settled
<1> QED BY <1>1, <1>2, <1>3, <1>4 DEF Next, vars, Crash, Lose, StartRun,
           LaptopReceive, StopWaiting, FinishRun

(* A device at rest sends nothing and stays at rest.                       *)
LEMMA RestingStep ==
  ASSUME NEW c \in Configuration, c.pred # {}, NEW s, Resting(s), NEW u,
         StepTaken(c, s, u)
  PROVE  u.sent = {} /\ Resting(u)
<1>1. SchedulerTick(c, s.sched) = s.sched
  BY DEF SchedulerTick, Resting, ReadyToExecute, IsComplete
<1>2. ~TakesTurn(c, s) /\ ~Watches(c, s) /\ ~Released(c, s)
  BY <1>1 DEF TakesTurn, Watches, Released, Resting
<1>3. ~Asks(c, s) /\ ~Judges(c, s)
  BY <1>2 DEF Asks, Judges, Unjudged
<1>4. \A k \in Slot : \A p : ~Again(s.retx[k], p)
  BY DEF Again, Resting
<1>5. u.sent = {}
  BY <1>2, <1>3, <1>4 DEF StepTaken, MaySend, Resting
<1>6. \A k \in Slot : ~(u.retx[k].left > 0)
  BY <1>5 DEF StepTaken, Resting
<1>7. CASE PassContinues(c, s, u)
  <2>1. u.sched.observed = {}
    BY <1>2, <1>5, <1>7 DEF PassContinues, Resting
  <2> QED BY <1>1, <1>2, <1>3, <1>5, <1>6, <1>7, <2>1 DEF PassContinues, Resting
<1>8. CASE PassCloses(c, s, u)
  <2>1. /\ u.sched = SchedulerReset /\ u.standby = StandbyReset /\ ~u.ownOutputSent
        /\ u.responder = NoReply /\ u.locked = {} /\ ~u.stallArmed
    BY <1>8 DEF PassCloses, PassReset
  <2> QED BY <1>5, <1>6, <2>1 DEF Resting, StandbyReset, SchedulerReset, NodeReset,
          EmptyBuffer, NoReply
<1> QED BY <1>5, <1>7, <1>8 DEF StepTaken

LEMMA RestingHandsOver ==
  ASSUME NEW u, Resting(u), NEW v, SameOthers(u, v), v.retx = u.retx
  PROVE  Resting(v)
BY DEF Resting, SameOthers

LEMMA AtRestStep ==
  ASSUME FedByLaptop, IInv, Settled, AtRest, [Next]_vars
  PROVE  AtRest'
<1> SUFFICES ASSUME lap'.run = 0
             PROVE  /\ spoken' = {} /\ lap'.reports = {}
                    /\ \A r \in Receiver : net'[r] = {}
                    /\ \A d \in Device : Resting(dev'[d])
  BY DEF AtRest
<1>1. lap \in Client /\ lap.run \in Nat
  BY RunAssumption DEF IInv, TypeOK, Client
<1>2. lap.run = 0 /\ lap'.reports = lap.reports
  <2>1. CASE StartRun
    BY <1>1, <2>1 DEF StartRun
  <2>2. CASE LaptopReceive
    <3>1. \A p : Absorb(p).run = lap.run
      BY <1>1 DEF Absorb, Client
    <3>2. lap'.run = lap.run
      BY <2>2, <3>1 DEF LaptopReceive
    <3>3. net[Laptop] = {}
      BY <3>2 DEF AtRest, Receiver
    <3> QED BY <2>2, <3>3 DEF LaptopReceive
  <2>3. CASE StopWaiting \/ FinishRun
    BY <1>1, <2>3 DEF StopWaiting, FinishRun, Client
  <2>4. CASE Tick
    BY <2>4, TickEffect
  <2> QED BY <2>1, <2>2, <2>3, <2>4 DEF Next, vars, Receive, LoopStep, Crash, Lose
<1>3. /\ spoken = {} /\ lap.reports = {} /\ \A r \in Receiver : net[r] = {}
      /\ \A d \in Device : Resting(dev[d])
  BY <1>2 DEF AtRest
<1>4. ASSUME NEW d \in Device, LoopStep(d)
      PROVE  /\ spoken' = {} /\ \A r \in Receiver : net'[r] = {}
             /\ \A e \in Device : Resting(dev'[e])
  <2>1. PICK u, v : LoopEffect(d, u, v)
    BY <1>4, LoopStepEffect
  <2>2. u.sent = {} /\ Resting(u)
    BY <1>3, <2>1, ConfigurationOf, RestingStep DEF LoopEffect, FedByLaptop
  <2>3. Resting(v)
    BY <2>1, <2>2, RestingHandsOver DEF LoopEffect
  <2>4. Speech(d, u.sent) = {}
    BY <2>2 DEF Speech
  <2> QED BY <1>3, <2>1, <2>2, <2>3, <2>4 DEF LoopEffect, IInv, TypeOK
<1>5. CASE Tick
  <2>1. ASSUME NEW d \in Device PROVE Resting(dev'[d])
    BY <1>3, <1>5, TickEffect DEF TimePassed, Resting
  <2> QED BY <1>2, <1>3, <1>5, <2>1, TickEffect
<1>6. ASSUME NEW d \in Device, Receive(d) PROVE FALSE
  BY <1>3, <1>6 DEF Receive, Receiver
<1>7. ASSUME NEW d \in Device, Crash(d)
      PROVE  \A r \in Receiver : net'[r] = {}
  BY <1>3, <1>7 DEF Crash, IInv, TypeOK
<1>8. ASSUME NEW r \in Receiver, Lose(r) PROVE FALSE
  BY <1>3, <1>8 DEF Lose
<1>9. CASE LaptopReceive
  BY <1>3, <1>9 DEF LaptopReceive, Receiver
<1>10. ~StartRun
  BY <1>1 DEF StartRun, IInv, TypeOK, Client
<1> QED BY <1>2, <1>3, <1>4, <1>5, <1>6, <1>7, <1>8, <1>9, <1>10
        DEF Next, vars, Crash, StopWaiting, FinishRun

-----------------------------------------------------------------------------
(* What a packet in flight or a standby's round mask says was said.        *)
LEMMA Said ==
  ASSUME NEW d, NEW ps, NEW p \in ps, p.type = "DATA"
  PROVE  [by |-> d, as |-> p.src] \in Speech(d, ps)
BY DEF Speech

LEMMA TruthfulStep ==
  ASSUME FedByLaptop, Runs <= 1, IInv, Settled, AtRest, Truthful, [Next]_vars
  PROVE  Truthful'
<1> DEFINE InFlight(r) == \A p \in net[r] : p.type = "DATA" => p.src.layer = 0 \/ HeardOf(p.src)
           Told1(d) == \A n \in dev[d].standby.layerObserved : HeardOf(Sibling(d, n))
<1>0. (\A r \in Receiver : InFlight(r)) /\ (\A d \in Device : Told1(d))
  BY DEF Truthful
<1>1. ASSUME NEW d \in Device, LoopStep(d) PROVE Truthful'
  <2>1. PICK u, v : LoopEffect(d, u, v)
    BY <1>1, LoopStepEffect
  <2>2. \A a : HeardOf(a) => HeardOf(a)'
    BY <2>1 DEF LoopEffect, HeardOf
  <2>3. ASSUME NEW r \in Receiver, NEW p \in net'[r], p.type = "DATA"
        PROVE  p.src.layer = 0 \/ HeardOf(p.src)'
    <3>1. CASE p \in net[r]
      BY <1>0, <2>2, <2>3, <3>1
    <3>2. CASE p \in u.sent
      <4>1. [by |-> d, as |-> p.src] \in spoken'
        BY <2>1, <2>3, <3>2, Said DEF LoopEffect
      <4>2. [by |-> d, as |-> p.src].as = p.src
        OBVIOUS
      <4> QED BY <4>1, <4>2 DEF HeardOf
    <3> QED BY <2>1, <3>1, <3>2 DEF LoopEffect
  <2>4. v.standby.layerObserved \subseteq dev[d].standby.layerObserved
    <3>1. CASE PassContinues(Cfg[d], dev[d], u)
      BY <2>1, <3>1 DEF PassContinues, LoopEffect, SameOthers
    <3>2. CASE PassCloses(Cfg[d], dev[d], u)
      <4>1. u.standby = StandbyReset
        BY <3>2 DEF PassCloses, PassReset
      <4> QED BY <2>1, <4>1 DEF LoopEffect, SameOthers, StandbyReset
    <3> QED BY <2>1, <3>1, <3>2 DEF LoopEffect, StepTaken
  <2>5. ASSUME NEW e \in Device, NEW n \in dev'[e].standby.layerObserved
        PROVE  HeardOf(Sibling(e, n))'
    <3>1. n \in dev[e].standby.layerObserved
      BY <2>1, <2>4, <2>5 DEF LoopEffect, IInv, TypeOK
    <3>2. HeardOf(Sibling(e, n))
      BY <1>0, <3>1
    <3> QED BY <2>2, <3>2 DEF Sibling
  <2> QED BY <2>3, <2>5 DEF Truthful
<1>2. ASSUME NEW d \in Device, Receive(d) PROVE Truthful'
  <2>0. PICK p, u : PacketEffect(d, p, u)
    BY <1>2, ReceiveEffect
  <2>1. /\ PacketTaken(Cfg[d], dev[d], p, u) /\ dev' = [dev EXCEPT ![d] = u]
        /\ Deliver(d, p) /\ UNCHANGED <<alive, lap, spoken>> /\ p \in Packet
        /\ p \in net[d]
    BY <2>0 DEF PacketEffect
  <2>2. \A r \in Receiver : net'[r] \subseteq net[r]
    BY <2>1 DEF Deliver, IInv, TypeOK
  <2>3. ASSUME NEW n \in u.standby.layerObserved PROVE HeardOf(Sibling(d, n))
    <3>1. CASE n \in dev[d].standby.layerObserved
      BY <1>0, <3>1
    <3>2. CASE p.type = "DATA" /\ p.src.layer = d.layer /\ n = p.src.node
      <4>1. p.src = Sibling(d, n)
        BY <2>1, <3>2 DEF Sibling, Packet, Address
      <4>2. HeardOf(p.src)
        BY <1>0, <2>1, <3>2 DEF FedByLaptop, Receiver
      <4> QED BY <4>1, <4>2
    <3> QED BY <2>1, <2>3, <3>1, <3>2 DEF PacketTaken, FedByLaptop
  <2>4. \A a : HeardOf(a)' = HeardOf(a)
    BY <2>1 DEF HeardOf
  <2>5. ASSUME NEW e \in Device, NEW n \in dev'[e].standby.layerObserved
        PROVE  HeardOf(Sibling(e, n))'
    <3>1. HeardOf(Sibling(e, n))
      BY <1>0, <2>1, <2>3, <2>5 DEF IInv, TypeOK
    <3> QED BY <2>4, <3>1 DEF Sibling
  <2>6. ASSUME NEW r \in Receiver, NEW q \in net'[r], q.type = "DATA"
        PROVE  q.src.layer = 0 \/ HeardOf(q.src)'
    BY <1>0, <2>2, <2>4, <2>6
  <2> QED BY <2>5, <2>6 DEF Truthful
<1>3. CASE StartRun
  <2>1. lap.run = 0
    BY <1>3, RunAssumption DEF StartRun, IInv, TypeOK, Client
  <2>2. \A d \in Device : dev[d].standby.layerObserved = {}
    BY <2>1 DEF AtRest, Resting
  <2>3. ASSUME NEW r \in Receiver, NEW p \in net'[r] PROVE p.src.layer = 0
    <3>1. net[r] = {}
      BY <2>1 DEF AtRest
    <3>2. PICK i \in Inputs : p = [DataPacket(Source(i), "none", {lap.run + 1})
                                    EXCEPT !.group = 1]
      BY <1>3, <2>3, <3>1 DEF StartRun, Multicast
    <3> QED BY <3>2 DEF DataPacket, Source
  <2> QED BY <1>3, <2>2, <2>3 DEF Truthful, StartRun
<1>4. ASSUME UNCHANGED spoken,
             \A d \in Device : dev'[d].standby.layerObserved = dev[d].standby.layerObserved,
             \A r \in Receiver : net'[r] \subseteq net[r]
      PROVE  Truthful'
  BY <1>0, <1>4 DEF Truthful, HeardOf, Sibling
<1>5. CASE Tick
  <2>1. \A d \in Device : dev'[d].standby.layerObserved = dev[d].standby.layerObserved
    BY <1>5, TickEffect DEF TimePassed
  <2> QED BY <1>4, <1>5, <2>1 DEF Tick
<1>6. CASE UNCHANGED <<dev, spoken>> /\ \A r \in Receiver : net'[r] \subseteq net[r]
  BY <1>4, <1>6
<1>7. ASSUME NEW r \in Receiver, Lose(r) PROVE Truthful'
  BY <1>6, <1>7 DEF Lose, IInv, TypeOK
<1>8. ASSUME NEW d \in Device, Crash(d) PROVE Truthful'
  BY <1>6, <1>8 DEF Crash, IInv, TypeOK
<1>9. CASE LaptopReceive
  <2>1. \A r \in Receiver : net'[r] \subseteq net[r]
    BY <1>9 DEF LaptopReceive, Deliver, IInv, TypeOK, Receiver
  <2> QED BY <1>6, <1>9, <2>1 DEF LaptopReceive
<1>10. CASE StopWaiting \/ FinishRun \/ UNCHANGED vars
  BY <1>6, <1>10 DEF StopWaiting, FinishRun, vars
<1> QED BY <1>1, <1>2, <1>3, <1>5, <1>7, <1>8, <1>9, <1>10 DEF Next

-----------------------------------------------------------------------------
(* Only a loop iteration asks, and only with a whole round observed.       *)
LEMMA AskStep ==
  ASSUME IInv, Settled, Truthful, FedByLaptop, NEW d \in Device, [Next]_vars,
         ~dev[d].standby.resendRequested, dev'[d].standby.resendRequested
  PROVE  Others(Cfg[d]) \subseteq dev[d].standby.layerObserved
<1>1. ASSUME NEW e \in Device, LoopStep(e)
      PROVE  Others(Cfg[d]) \subseteq dev[d].standby.layerObserved
  <2>1. PICK u, v : LoopEffect(e, u, v)
    BY <1>1, LoopStepEffect
  <2>2. e = d
    BY <2>1 DEF LoopEffect, IInv, TypeOK
  <2>3. u.standby.resendRequested
    BY <2>1, <2>2 DEF LoopEffect, SameOthers, IInv, TypeOK
  <2>4. PassContinues(Cfg[d], dev[d], u)
    <3>1. ASSUME PassCloses(Cfg[d], dev[d], u) PROVE FALSE
      <4>1. u.standby = StandbyReset
        BY <3>1 DEF PassCloses, PassReset
      <4> QED BY <2>3, <4>1 DEF StandbyReset
    <3> QED BY <2>1, <2>2, <3>1 DEF LoopEffect, StepTaken
  <2> QED BY <2>3, <2>4 DEF PassContinues, Asks
<1>2. ASSUME NEW e \in Device, Receive(e) PROVE FALSE
  <2>1. PICK p, u : PacketEffect(e, p, u)
    BY <1>2, ReceiveEffect
  <2> QED BY <2>1 DEF PacketEffect, PacketTaken, Unjudging, IInv, TypeOK
<1>3. ~Tick
  BY TickEffect DEF TimePassed
<1> QED BY <1>1, <1>2, <1>3 DEF Next, vars, Crash, Lose, StartRun,
           LaptopReceive, StopWaiting, FinishRun

(* A standby asks for a retransmission only after everyone else in its     *)
(* layer has been heard of in this run, in any network that the laptop     *)
(* feeds and under any loss, duplication, reordering or death: the round   *)
(* NNBackupStandby::tick counts is the round that was spoken.              *)
THEOREM AsksLast == FedByLaptop /\ Runs <= 1 => (Spec => AskAfterRound)
<1> SUFFICES ASSUME FedByLaptop, Runs <= 1 PROVE Spec => AskAfterRound
  OBVIOUS
<1> DEFINE Asked == \A d \in Device :
             ~dev[d].standby.resendRequested /\ dev'[d].standby.resendRequested =>
               \A n \in Others(Cfg[d]) : HeardOf(Sibling(d, n))
<1>1. Init => AskInv
  BY AskInit
<1>2. IInv /\ AskInv /\ [Next]_vars => AskInv'
  BY SettledStep, AtRestStep, TruthfulStep DEF AskInv
<1>3. IInv /\ AskInv /\ [Next]_vars => [Asked]_vars
  BY AskStep DEF AskInv, Truthful
<1>4. AskAfterRound <=> [][Asked]_vars
  BY DEF AskAfterRound
<1> HIDE DEF Asked
<1> QED BY <1>1, <1>2, <1>3, <1>4, Invariance, PTL DEF Spec

-----------------------------------------------------------------------------
(* No target is given up where every standby has its target's inputs.      *)
Provided == \A d \in Device : Relieved(Cfg[d])

(* Nothing a device may yet repeat gives anybody up either.                *)
Hopeful ==
  /\ NeverTornDown
  /\ \A d \in Device : \A k \in Slot :
       dev[d].retx[k].left > 0 => Heartening(dev[d].retx[k].pkt)

LEMMA HopeInit == Init => Settled /\ Hopeful
<1> SUFFICES ASSUME Init PROVE Settled /\ Hopeful
  OBVIOUS
<1>1. ASSUME NEW d \in Device
      PROVE  /\ HandedOver(dev[d]) /\ Unresolved(dev[d].standby)
             /\ \A k \in Slot : ~(dev[d].retx[k].left > 0)
  <2>1. PICK q : q = NotifySeeded([SchedulerReset EXCEPT
                                     !.node = SeedOutput(NodeReset, Cfg[d].seed)])
    OBVIOUS
  <2>2. q.state # "READY_TO_TRANSMIT" /\ SchedulerReset.state # "READY_TO_TRANSMIT"
    BY <2>1 DEF NotifySeeded, SchedulerReset
  <2>3. dev[d] = PassReset \/ dev[d] = [PassReset EXCEPT !.sched = q]
    BY <2>1 DEF Init, StartRuntime
  <2>4. /\ dev[d].sent = {} /\ dev[d].standby = StandbyReset
        /\ dev[d].retx = [k \in Slot |-> EmptySlot]
        /\ dev[d].sched = q \/ dev[d].sched = SchedulerReset
    BY <2>3 DEF PassReset
  <2>5. \A k \in Slot : ~(dev[d].retx[k].left > 0)
    BY <2>4 DEF EmptySlot
  <2> QED BY <2>2, <2>4, <2>5 DEF HandedOver, Unresolved, StandbyReset
<1>2. NeverTornDown
  BY DEF Init, NeverTornDown
<1> QED BY <1>1, <1>2 DEF Settled, Hopeful

LEMMA HopeSent ==
  ASSUME Provided, IInv, Settled, Hopeful, NEW d \in Device, NEW u, NEW v,
         LoopEffect(d, u, v), NEW p \in u.sent
  PROVE  Heartening(p)
<1>1. /\ DeviceInv(Cfg[d], dev[d]) /\ Cfg[d] \in Configuration
      /\ HandedOver(dev[d]) /\ Unresolved(dev[d].standby)
  BY ConfigurationOf DEF IInv, Settled
<1>2. StepWatched(Cfg[d], dev[d], u)
  BY <1>1, WatchDone DEF LoopEffect, Provided
<1>3. ASSUME NEW k \in Slot, Again(dev[d].retx[k], p) PROVE Heartening(p)
  <2>1. PICK q : q = dev[d].retx[k].pkt
    OBVIOUS
  <2>2. dev[d].retx[k].left > 0 /\ p = [q EXCEPT !.copy = Copies - dev[d].retx[k].left]
    BY <1>3, <2>1 DEF Again
  <2>3. q \in Packet /\ Heartening(q)
    BY <1>1, <2>1, <2>2 DEF DeviceInv, SlotsLoaded, Hopeful
  <2>4. p.flag = q.flag /\ p.type = q.type
    BY <2>2, <2>3 DEF Packet
  <2> QED BY <2>3, <2>4 DEF Heartening
<1> QED BY <1>2, <1>3 DEF StepWatched

LEMMA HopeLoop ==
  ASSUME Provided, IInv, Settled, Hopeful, NEW d \in Device, LoopStep(d)
  PROVE  Hopeful'
<1>1. PICK u, v : LoopEffect(d, u, v)
  BY LoopStepEffect
<1>2. /\ dev' = [dev EXCEPT ![d] = v] /\ v.retx = u.retx /\ lap' = lap
      /\ net' = [r \in Receiver |-> net[r] \cup {p \in u.sent : Hears(d, r, p)}]
      /\ StepTaken(Cfg[d], dev[d], u) /\ dev \in [Device -> DeviceState]
  BY <1>1 DEF LoopEffect, IInv, TypeOK
<1>3. \A p \in u.sent : Heartening(p)
  BY <1>1, HopeSent
<1>4. ASSUME NEW k \in Slot, u.retx[k].left > 0 PROVE Heartening(u.retx[k].pkt)
  BY <1>2, <1>3, <1>4 DEF StepTaken, Hopeful
<1>5. NeverTornDown'
  BY <1>2, <1>3 DEF Hopeful, NeverTornDown, Heartening
<1>6. ASSUME NEW e \in Device, NEW k \in Slot, dev'[e].retx[k].left > 0
      PROVE  Heartening(dev'[e].retx[k].pkt)
  <2>1. CASE e = d
    BY <1>2, <1>4, <1>6, <2>1
  <2>2. CASE e # d
    BY <1>2, <1>6, <2>2 DEF Hopeful
  <2> QED BY <2>1, <2>2
<1> QED BY <1>5, <1>6 DEF Hopeful

(* What no device sends, nobody receives; the rest adds inputs at most.    *)
LEMMA HopeElsewhere ==
  ASSUME IInv, Hopeful, [Next]_vars, \A d \in Device : ~LoopStep(d)
  PROVE  Hopeful'
<1>1. ASSUME NEW d \in Device, NEW k \in Slot
      PROVE  /\ dev'[d].retx[k].left = dev[d].retx[k].left
             /\ dev'[d].retx[k].pkt = dev[d].retx[k].pkt
  <2>1. ASSUME NEW e \in Device, Receive(e)
        PROVE  /\ dev'[d].retx[k].left = dev[d].retx[k].left
               /\ dev'[d].retx[k].pkt = dev[d].retx[k].pkt
    <3>1. PICK p, u : PacketEffect(e, p, u)
      BY <2>1, ReceiveEffect
    <3>2. dev' = [dev EXCEPT ![e] = u] /\ u.retx = dev[e].retx
      BY <3>1 DEF PacketEffect, PacketTaken
    <3> QED BY <3>2 DEF IInv, TypeOK
  <2>2. CASE Tick
    BY <2>2, TickEffect DEF TimePassed
  <2> QED BY <2>1, <2>2 DEF Next, vars, Crash, Lose, StartRun, LaptopReceive,
             StopWaiting, FinishRun
<1>2. ASSUME NEW r \in Receiver, NEW p \in net'[r], p \notin net[r]
      PROVE  Heartening(p)
  <2>1. CASE StartRun
    <3>1. PICK i \in Inputs : p = [DataPacket(Source(i), "none", {lap.run + 1})
                                     EXCEPT !.group = 1]
      BY <1>2, <2>1 DEF StartRun, Multicast
    <3> QED BY <3>1 DEF DataPacket, Heartening
  <2>2. CASE ~StartRun
    BY <1>2, <2>2 DEF Next, vars, Receive, Deliver, LaptopReceive, Tick, Crash, Lose,
       StopWaiting, FinishRun, IInv, TypeOK, Receiver
  <2> QED BY <2>1, <2>2
<1>3. ~lap'.aborted
  <2>1. ASSUME NEW p \in net[Laptop], lap' = Absorb(p) PROVE ~lap'.aborted
    <3>1. p.flag # "teardown" /\ ~lap.aborted
      BY DEF Hopeful, NeverTornDown, Receiver
    <3> QED BY <2>1, <3>1 DEF Absorb, IInv, TypeOK, Client
  <2>2. lap \in Client /\ ~lap.aborted
    BY DEF IInv, TypeOK, Hopeful, NeverTornDown
  <2>3. CASE LaptopReceive
    BY <2>1, <2>2, <2>3 DEF LaptopReceive
  <2>4. CASE Tick
    BY <2>2, <2>4 DEF Tick, Client
  <2>6. CASE StartRun
    <3>1. lap' = [run |-> lap.run + 1, phase |-> "waiting", answers |-> {},
                  reports |-> {}, aborted |-> FALSE, waited |-> 0]
      BY <2>6 DEF StartRun
    <3> QED BY <3>1
  <2>7. CASE StopWaiting
    BY <2>2, <2>7 DEF StopWaiting, Client
  <2>8. CASE FinishRun
    BY <2>2, <2>8 DEF FinishRun, Client
  <2>5. CASE lap' = lap
    BY <2>2, <2>5
  <2> QED BY <2>3, <2>4, <2>5, <2>6, <2>7, <2>8 DEF Next, vars, Receive, Crash, Lose
<1> QED BY <1>1, <1>2, <1>3 DEF Hopeful, NeverTornDown, Heartening

(* Nobody is given up, by no packet sent and no report filed, in a network *)
(* of any shape, whatever is lost, repeated, late or dead, where standbys  *)
(* are provisioned as build_devices does it: the standby that can judge its*)
(* target can also compute for it (NNFailover.h:108-150, ino:401-408).     *)
THEOREM TeardownUnreachable == Provided => (Spec => []NeverTornDown)
<1> SUFFICES ASSUME Provided PROVE Spec => []NeverTornDown
  OBVIOUS
<1>1. IInv /\ Settled /\ Hopeful /\ [Next]_vars => (Settled /\ Hopeful)'
  BY SettledStep, HopeLoop, HopeElsewhere
<1>2. Hopeful => NeverTornDown
  BY DEF Hopeful
<1> QED BY <1>1, <1>2, HopeInit, Invariance, PTL DEF Spec

-----------------------------------------------------------------------------
(* A network of one layer, as generate_manifest and build_devices provision*)
(* it.                                                                     *)
OneLayer ==
  /\ Inputs # {} /\ NodeId \subseteq Nat
  /\ \A d \in Device :
       /\ Cfg[d].addr = d /\ d.layer = 1
       /\ Cfg[d].pred = Inputs /\ Cfg[d].predLayer = 0
       /\ Cfg[d].preceding = {e.node : e \in {f \in Device : f.node < d.node}}
       /\ Cfg[d].succ # NoSiblingGroup
       /\ \A e \in Device : Cfg[e].succ = Cfg[d].succ
       /\ Cfg[d].hasRole =>
            /\ Cfg[d].target \in Device \ {d} /\ Cfg[d].grace > 0
            /\ Cfg[d].roster = {e.node : e \in Device}

(* A network of one layer that build_devices accepts, with an input, the   *)
(* inputs injected by the laptop and a grace period: a backup names another*)
(* node of its layer (generate_manifest.py, build_devices).                *)
Built(network, seed, noSeed) ==
  /\ Len(network.layers) = 1 /\ ~network.physicalInputs
  /\ network.inputSize \in Nat \ {0} /\ network.layers[1].nodes \in Nat
  /\ network.layers[1].grace \in Nat \ {0}
  /\ \A n \in DOMAIN network.layers[1].backups :
       network.layers[1].backups[n] \in NodesOf(network.layers[1].nodes) \ {n}
  /\ NodeId \subseteq Nat /\ Inputs = NodesOf(network.inputSize)
  /\ Device = BuildDevices(network)
  /\ Cfg = [a \in Device |-> DeviceConfig(network, a, seed, noSeed)]

LEMMA BuiltDevices ==
  ASSUME NEW network, NEW seed, NEW noSeed, Built(network, seed, noSeed)
  PROVE  /\ Device = {AddressOf(1, n) : n \in NodesOf(network.layers[1].nodes)}
         /\ \A d \in Device :
              /\ d.layer = 1 /\ d.node \in NodesOf(network.layers[1].nodes)
              /\ d = AddressOf(1, d.node)
              /\ Cfg[d] = ComputeConfig(network, d, noSeed)
<1>1. Device = {AddressOf(1, n) : n \in NodesOf(network.layers[1].nodes)}
  BY DEF Built, BuildDevices, InputDevices, ComputeDevices, LayerIds
<1>2. ASSUME NEW d \in Device
      PROVE  /\ d.layer = 1 /\ d.node \in NodesOf(network.layers[1].nodes)
             /\ d = AddressOf(1, d.node)
             /\ Cfg[d] = ComputeConfig(network, d, noSeed)
  <2>1. /\ d.layer = 1 /\ d.node \in NodesOf(network.layers[1].nodes)
        /\ d = AddressOf(1, d.node)
    BY <1>1, <1>2 DEF AddressOf
  <2> QED BY <2>1 DEF Built, DeviceConfig
<1> QED BY <1>1, <1>2

(* Every such network is provisioned as the theorems about one layer ask.  *)
THEOREM BuiltOneLayer ==
  ASSUME NEW network, NEW seed, NEW noSeed, Built(network, seed, noSeed)
  PROVE  OneLayer
<1> DEFINE width == network.layers[1].nodes
<1>1. Device = {AddressOf(1, n) : n \in NodesOf(width)}
  BY BuiltDevices
<1>2. Inputs # {}
  <2>1. 0 \in NodesOf(network.inputSize)
    BY DEF Built, NodesOf
  <2> QED BY <2>1 DEF Built
<1>3. ASSUME NEW d \in Device
      PROVE  /\ d.layer = 1 /\ d.node \in NodesOf(width) /\ d = AddressOf(1, d.node)
             /\ Cfg[d] = ComputeConfig(network, d, noSeed)
  BY BuiltDevices
<1> USE DEF Built
<1>4. {e.node : e \in Device} = NodesOf(width)
  <2>1. \A e \in Device : e.node \in NodesOf(width)
    BY <1>3
  <2>2. \A n \in NodesOf(width) : AddressOf(1, n) \in Device /\ AddressOf(1, n).node = n
    BY <1>1 DEF AddressOf
  <2> HIDE DEF width
  <2> QED BY <2>1, <2>2
<1>5. ASSUME NEW d \in Device
      PROVE  NodesOf(d.node) = {e.node : e \in {f \in Device : f.node < d.node}}
  <2>1. d.node \in NodesOf(width) /\ width \in Nat
    BY <1>3
  <2>2. ASSUME NEW n \in NodesOf(d.node)
        PROVE  n \in {e.node : e \in {f \in Device : f.node < d.node}}
    <3>1. n \in NodesOf(width) /\ n < d.node
      BY <2>1, <2>2 DEF NodesOf
    <3>2. AddressOf(1, n) \in Device /\ AddressOf(1, n).node = n
      BY <1>1, <3>1 DEF AddressOf
    <3> QED BY <3>1, <3>2
  <2>3. ASSUME NEW e \in Device, e.node < d.node PROVE e.node \in NodesOf(d.node)
    BY <1>3, <2>1, <2>3 DEF NodesOf
  <2> QED BY <2>2, <2>3
<1>6. ASSUME NEW d \in Device
      PROVE  /\ Cfg[d].addr = d /\ Cfg[d].pred = Inputs /\ Cfg[d].predLayer = 0
             /\ Cfg[d].preceding = NodesOf(d.node) /\ Cfg[d].succ = 2
             /\ Cfg[d].hasRole = (d.node \in DOMAIN network.layers[1].backups)
  BY <1>3 DEF ComputeConfig, PredecessorCount
<1>7. ASSUME NEW d \in Device, Cfg[d].hasRole
      PROVE  /\ Cfg[d].target \in Device \ {d} /\ Cfg[d].grace > 0
             /\ Cfg[d].roster = {e.node : e \in Device}
  <2>1. d.node \in DOMAIN network.layers[1].backups
    BY <1>6, <1>7
  <2> DEFINE t == network.layers[1].backups[d.node]
  <2>2. t \in NodesOf(width) /\ t # d.node
    BY <2>1
  <2>3. /\ Cfg[d].target = AddressOf(1, t) /\ Cfg[d].grace = network.layers[1].grace
        /\ Cfg[d].roster = NodesOf(width)
    BY <1>3, <2>1 DEF ComputeConfig
  <2>4. AddressOf(1, t) \in Device /\ AddressOf(1, t) # d
    BY <1>1, <2>2 DEF AddressOf
  <2> QED BY <1>4, <2>3, <2>4
<1>8. NoSiblingGroup # 2
  BY DEF NoSiblingGroup
<1>9. ASSUME NEW d \in Device, NEW e \in Device PROVE Cfg[e].succ = Cfg[d].succ
  BY <1>6
<1>10. ASSUME NEW d \in Device
       PROVE  Cfg[d].preceding = {e.node : e \in {f \in Device : f.node < d.node}}
  BY <1>5, <1>6
<1>11. ASSUME NEW d \in Device
       PROVE  /\ Cfg[d].addr = d /\ d.layer = 1
              /\ Cfg[d].pred = Inputs /\ Cfg[d].predLayer = 0
              /\ Cfg[d].succ # NoSiblingGroup
  BY <1>3, <1>6, <1>8
<1> QED BY ONLY <1>2, <1>7, <1>9, <1>10, <1>11, Built(network, seed, noSeed) DEF OneLayer, Built

(* Nothing sent to a device is lost or repeated, a tick is longer than a   *)
(* round of the loops, and a pass times out later than a turn.             *)
Calm == /\ Timely /\ Runs <= 1 /\ MaxStray = 0 /\ Lossy \cap Device = {}
        /\ StallTicks < IdleTicks

(* No tick passes while something is on its way.                           *)
LEMMA TickQuiet ==
  ASSUME Calm, IInv, Tick
  PROVE  Quiet /\ UNCHANGED faults
<1>1. ~(faults.stray < MaxStray)
  BY DEF IInv, TypeOK, Calm
<1> QED BY <1>1 DEF Tick, Straggling, Calm

Injected(i) == [DataPacket(Source(i), "none", {1}) EXCEPT !.group = 1]
Received(d) == dev[d].sched.node.buffer.received
Listens(d) == Cfg[d].preceding # {} \/ Cfg[d].hasRole
Arriving(d, a) == \E p \in net[d] : p.type = "DATA" /\ p.src = a

(* What a device repeats or replies it has said before.                    *)
Spoken(d) ==
  /\ dev[d].ownOutputSent \/ dev[d].responder.pending => Spoke(d)
  /\ \A k \in Slot : dev[d].retx[k].left > 0 =>
       /\ dev[d].retx[k].pkt.src \in Device
       /\ dev[d].retx[k].pkt.type = "DATA" =>
            /\ dev[d].retx[k].pkt.group = Cfg[d].succ
            /\ [by |-> d, as |-> dev[d].retx[k].pkt.src] \in spoken

(* A standby has judged only the dead, and nobody is told otherwise.       *)
Judged(d) ==
  /\ dev[d].standby.hasSubstituted \/ dev[d].standby.hasTornDown =>
       Cfg[d].target \notin alive
  /\ \A k \in Slot : dev[d].retx[k].left > 0 /\ Report(dev[d].retx[k].pkt) =>
       dev[d].retx[k].pkt.about \notin alive
  /\ dev[d].standby.resendRequested =>
       /\ IsStandby(Cfg[d]) /\ dev[d].sched.state # "WAITING_FOR_INPUT"
       /\ \A n \in Others(Cfg[d]) : HeardOf(Sibling(d, n))

ToldTrue ==
  /\ \A r \in Receiver : \A p \in net[r] : Report(p) => p.about \notin alive
  /\ \A r \in lap.reports : r.failed \notin alive

(* A request that has waited for a live target has been answered.          *)
Answered(d) ==
  dev[d].standby.resendRequested /\ dev[d].standby.waited > 0
  /\ Cfg[d].target \in alive => dev[d].standby.targetObserved

(* A device that is yet to speak.                                          *)
Unspoken(d) ==
  /\ \A i \in Inputs : i \in Received(d) <=> Injected(i) \notin net[d]
  /\ dev[d].sched.state \in {"WAITING_FOR_INPUT", "READY_TO_EXECUTE", "EXECUTING",
                             "WAITING_FOR_TURN"}
  /\ dev[d].sched.state = "WAITING_FOR_INPUT" => ~dev[d].sched.node.hasExecuted
  /\ Listens(d) => \A e \in Device : HeardOf(e) =>
                     e.node \in dev[d].sched.observed \/ Arriving(d, e)

(* Its pass does not time out while it waits for its turn.                 *)
Patient(d) ==
  /\ dev[d].idle < IdleTicks
  /\ \/ Received(d) = {} \/ dev[d].idle = 0
     \/ /\ dev[d].sched.state = "WAITING_FOR_TURN" /\ dev[d].idle <= StallTicks
        /\ dev[d].stallArmed => dev[d].idle <= dev[d].stalled
        /\ dev[d].stallArmed \/ TurnGranted(Cfg[d], dev[d].sched)

(* While the siblings before it live it is not released from their turns.  *)
KeepsTurn(d) ==
  (\A n \in Cfg[d].preceding : Sibling(d, n) \in alive) =>
    /\ \A n \in dev[d].sched.observed \cap Cfg[d].preceding : HeardOf(Sibling(d, n))
    /\ dev[d].stallArmed => dev[d].stalled = 0

(* A device that has spoken does not start over.                           *)
Finished(d) ==
  /\ \A p \in net[d] : p.src.layer # 0
  /\ \/ dev[d].sched.state = "TRANSMITTED"
     \/ dev[d].sched.state = "WAITING_FOR_INPUT" /\ Received(d) = {}

(* A standby knows that its target has spoken, or will.                    *)
Watching(d) ==
  IsStandby(Cfg[d]) /\ Spoke(Cfg[d].target) =>
    \/ dev[d].standby.targetObserved
    \/ Arriving(d, Cfg[d].target)
    \/ Spoke(d) /\ dev[d].sched.state = "WAITING_FOR_INPUT"

Playing(d) ==
  /\ \A p \in net[d] : p.src.layer = 0 => \E i \in Inputs : p = Injected(i)
  /\ dev[d].locked = {}
  /\ ~Spoke(d) => Unspoken(d) /\ Patient(d) /\ KeepsTurn(d)
  /\ Spoke(d) => Finished(d)
  /\ Watching(d)

Sound == /\ ToldTrue
         /\ \A d \in Device : Spoken(d) /\ Judged(d)
         /\ \A d \in alive : Answered(d)

(* The state of a layer in which one run is played: what is in flight, how *)
(* far every device has come, and that the clocks cannot overtake a device *)
(* before a sibling has died.                                              *)
LayerInv ==
  /\ AskInv /\ Sound
  /\ lap.run = 1 => \A d \in alive : Playing(d)

-----------------------------------------------------------------------------
(* What a loop iteration of d says.                                        *)
SaysTrue(d, u) ==
  /\ \A p \in u.sent : p.src \in Device
  /\ \A p \in u.sent : p.type = "DATA" =>
       /\ p.group = Cfg[d].succ
       /\ p.src = d => TakesTurn(Cfg[d], dev[d]) \/ Spoke(d)
  /\ \A p \in u.sent : Report(p) => p.about \notin alive
  /\ Judges(Cfg[d], dev[d]) => Cfg[d].target \notin alive
  /\ \A k \in Slot : \A p : Again(dev[d].retx[k], p) /\ p.type = "DATA" => HeardOf(p.src)

LEMMA SpeechTrue ==
  ASSUME OneLayer, IInv, NEW d \in alive, d \in Device, Spoken(d), Judged(d), Answered(d),
         NEW u, StepTaken(Cfg[d], dev[d], u)
  PROVE  SaysTrue(d, u)
<1> DEFINE c == Cfg[d]
           s == dev[d]
<1>1. c.addr = d /\ c.succ \in Group /\ c \in Configuration
  BY ConfigurationOf, ConfiguredGroups DEF OneLayer
<1>2. IsStandby(c) => c.target \in Device /\ c.target # d /\ c.grace > 0
  BY DEF IsStandby, OneLayer
<1>3. s \in DeviceState /\ s.retx \in [Slot -> RetxSlot] /\ s.standby.waited \in Nat
      /\ SlotsLoaded(s)
  BY DEF IInv, DeviceInv, DeviceState, Standby
<1>4. Judges(c, s) => IsStandby(c) /\ c.target \notin alive
  <2> SUFFICES ASSUME Judges(c, s) PROVE IsStandby(c) /\ c.target \notin alive
    OBVIOUS
  <2>1. /\ IsStandby(c) /\ s.standby.resendRequested /\ ~s.standby.targetObserved
        /\ s.standby.waited >= c.grace
    BY DEF Judges, Unjudged, Watches
  <2>2. c.grace \in Nat
    BY <1>1 DEF Configuration
  <2>3. s.standby.waited > 0
    BY <1>2, <1>3, <2>1, <2>2
  <2> QED BY <2>1, <2>3 DEF Answered
<1>5. Asks(c, s) => IsStandby(c)
  BY DEF Asks, Unjudged, Watches
<1>6. ASSUME NEW k \in Slot, NEW p, Again(s.retx[k], p)
      PROVE  /\ p.src \in Device
             /\ p.type = "DATA" =>
                  p.group = c.succ /\ [by |-> d, as |-> p.src] \in spoken
             /\ Report(p) => p.about \notin alive
  <2>1. PICK q : q = s.retx[k].pkt
    OBVIOUS
  <2>2. s.retx[k].left > 0 /\ p = [q EXCEPT !.copy = Copies - s.retx[k].left]
    BY <1>6, <2>1 DEF Again
  <2>3. q \in Packet
    BY <1>3, <2>1, <2>2 DEF SlotsLoaded
  <2>4. /\ p.src = q.src /\ p.type = q.type /\ p.group = q.group
        /\ p.flag = q.flag /\ p.about = q.about
    BY <2>2, <2>3 DEF Packet
  <2>5. /\ q.src \in Device
        /\ q.type = "DATA" => q.group = c.succ /\ [by |-> d, as |-> q.src] \in spoken
    BY <2>1, <2>2 DEF Spoken
  <2>6. Report(q) => q.about \notin alive
    BY <2>1, <2>2 DEF Judged
  <2> QED BY <2>4, <2>5, <2>6 DEF Report
<1>7. ASSUME NEW a, [by |-> d, as |-> a] \in spoken
      PROVE  HeardOf(a) /\ (a = d => Spoke(d))
  BY <1>7 DEF HeardOf, Spoke
<1>8. s.responder.pending => Spoke(d)
  BY DEF Spoken
<1>9. ASSUME NEW p \in u.sent
      PROVE  /\ p.src \in Device
             /\ p.type = "DATA" =>
                  /\ p.group = c.succ
                  /\ p.src = d => TakesTurn(c, s) \/ Spoke(d)
             /\ Report(p) => p.about \notin alive
  <2>1. MaySend(c, s, p)
    BY DEF StepTaken
  <2>2. CASE \E k \in Slot : Again(s.retx[k], p)
    BY <1>6, <1>7, <2>2
  <2>3. CASE ~\E k \in Slot : Again(s.retx[k], p)
    BY <1>1, <1>2, <1>4, <1>5, <1>8, <2>1, <2>3 DEF MaySend, Report
  <2> QED BY <2>2, <2>3
<1>10. \A k \in Slot : \A p : Again(s.retx[k], p) /\ p.type = "DATA" => HeardOf(p.src)
  BY <1>6, <1>7
<1> QED BY <1>4, <1>9, <1>10 DEF SaysTrue

(* What has been said after it.                                            *)
SpokenAfter(d, u) ==
  /\ \A e \in Device \ {d} : Spoke(e)' <=> Spoke(e)
  /\ Spoke(d)' <=> Spoke(d) \/ TakesTurn(Cfg[d], dev[d])
  /\ \A a : HeardOf(a) => HeardOf(a)'
  /\ \A a : HeardOf(a)' => \/ HeardOf(a)
                           \/ \E p \in u.sent : p.type = "DATA" /\ p.src = a
  /\ \A p \in u.sent : p.type = "DATA" =>
       [by |-> d, as |-> p.src] \in spoken' /\ HeardOf(p.src)'
  /\ TakesTurn(Cfg[d], dev[d]) =>
       \E p \in u.sent : p.type = "DATA" /\ p.src = d

LEMMA SpeechKept ==
  ASSUME OneLayer, IInv, NEW d \in Device, NEW u, NEW v, LoopEffect(d, u, v),
         SaysTrue(d, u)
  PROVE  SpokenAfter(d, u)
<1> DEFINE c == Cfg[d]
           s == dev[d]
<1>1. spoken' = spoken \cup Speech(d, u.sent) /\ StepTaken(c, s, u)
  BY DEF LoopEffect
<1>2. ASSUME NEW p \in u.sent, p.type = "DATA"
      PROVE  [by |-> d, as |-> p.src] \in spoken' /\ HeardOf(p.src)'
  <2>1. PICK w : w = [by |-> d, as |-> p.src]
    OBVIOUS
  <2>2. w \in Speech(d, u.sent) /\ w.as = p.src
    BY <1>2, <2>1, Said
  <2> QED BY <1>1, <2>1, <2>2 DEF HeardOf
<1>3. ASSUME NEW w \in spoken', w \notin spoken
      PROVE  w.by = d /\ \E p \in u.sent : p.type = "DATA" /\ w.as = p.src
  BY <1>1, <1>3 DEF Speech
<1>4. TakesTurn(c, s) => \E p \in u.sent : p.type = "DATA" /\ p.src = d
  <2> SUFFICES ASSUME TakesTurn(c, s)
               PROVE  \E p \in u.sent : p.type = "DATA" /\ p.src = d
    OBVIOUS
  <2>1. PICK p : p = [OutputPacket(c, SchedulerTick(c, s.sched)) EXCEPT !.group = c.succ]
    OBVIOUS
  <2>2. p \in u.sent
    BY <1>1, <2>1 DEF StepTaken
  <2>3. p.type = "DATA" /\ p.src = c.addr
    BY <2>1 DEF OutputPacket, DataPacket
  <2> QED BY <2>2, <2>3 DEF OneLayer
<1>5. \A e \in Device \ {d} : Spoke(e)' <=> Spoke(e)
  <2> SUFFICES ASSUME NEW e \in Device, e # d, Spoke(e)' PROVE Spoke(e)
    BY <1>1 DEF Spoke
  <2>1. PICK w : w = [by |-> e, as |-> e]
    OBVIOUS
  <2>2. w.by = e /\ w \in spoken'
    BY <2>1 DEF Spoke
  <2> QED BY <1>3, <2>1, <2>2 DEF Spoke
<1>6. Spoke(d)' <=> Spoke(d) \/ TakesTurn(c, s)
  <2>1. ASSUME Spoke(d)', ~Spoke(d) PROVE TakesTurn(c, s)
    <3>1. PICK w : w = [by |-> d, as |-> d]
      OBVIOUS
    <3>2. w.as = d /\ w \in spoken' /\ w \notin spoken
      BY <2>1, <3>1 DEF Spoke
    <3>3. PICK p \in u.sent : p.type = "DATA" /\ p.src = d
      BY <1>3, <3>2
    <3> QED BY <2>1, <3>3 DEF SaysTrue
  <2>2. TakesTurn(c, s) => Spoke(d)'
    BY <1>2, <1>4 DEF Spoke
  <2>3. Spoke(d) => Spoke(d)'
    BY <1>1 DEF Spoke
  <2> QED BY <2>1, <2>2, <2>3
<1>7. ASSUME NEW a, HeardOf(a) PROVE HeardOf(a)'
  BY <1>1, <1>7 DEF HeardOf
<1>8. ASSUME NEW a, HeardOf(a)', ~HeardOf(a)
      PROVE  \E p \in u.sent : p.type = "DATA" /\ p.src = a
  <2>1. PICK w \in spoken' : w.as = a
    BY <1>8 DEF HeardOf
  <2>2. w \notin spoken
    BY <1>8, <2>1 DEF HeardOf
  <2> QED BY <1>3, <2>1, <2>2
<1> QED BY <1>2, <1>4, <1>5, <1>6, <1>7, <1>8 DEF SpokenAfter

(* What a loop iteration of d keeps true of its own standby and            *)
(* retransmissions.                                                        *)
LEMMA SpokenKept ==
  ASSUME OneLayer, IInv, NEW d \in Device, Spoken(d), NEW u, NEW v,
         LoopEffect(d, u, v), SaysTrue(d, u), SpokenAfter(d, u)
  PROVE  Spoken(d)'
<1> DEFINE c == Cfg[d]
           s == dev[d]
<1>1. /\ dev'[d] = v /\ SameOthers(u, v) /\ v.retx = u.retx /\ StepTaken(c, s, u)
      /\ spoken \subseteq spoken'
  BY DEF LoopEffect, IInv, TypeOK
<1>2. Spoke(d) => Spoke(d)'
  BY DEF SpokenAfter
<1>3. u.ownOutputSent \/ u.responder.pending => Spoke(d)'
  <2>1. CASE PassContinues(c, s, u)
    BY <2>1 DEF PassContinues, Spoken, SpokenAfter
  <2>2. CASE PassCloses(c, s, u)
    BY <2>2 DEF PassCloses, PassReset, NoReply
  <2> QED BY <1>1, <2>1, <2>2 DEF StepTaken
<1>4. ASSUME NEW k \in Slot, u.retx[k].left > 0
      PROVE  /\ u.retx[k].pkt.src \in Device
             /\ u.retx[k].pkt.type = "DATA" =>
                  /\ u.retx[k].pkt.group = c.succ
                  /\ [by |-> d, as |-> u.retx[k].pkt.src] \in spoken'
  <2>1. CASE u.retx[k].pkt \in u.sent
    BY <2>1 DEF SaysTrue, SpokenAfter
  <2>2. CASE s.retx[k].left > 0 /\ u.retx[k].pkt = s.retx[k].pkt
    BY <1>1, <2>2 DEF Spoken
  <2> QED BY <1>1, <1>4, <2>1, <2>2 DEF StepTaken
<1>5. v.ownOutputSent = u.ownOutputSent /\ v.responder = u.responder
  BY <1>1 DEF SameOthers
<1> QED BY <1>1, <1>3, <1>4, <1>5 DEF Spoken

LEMMA TickLeavesWaiting ==
  ASSUME NEW c, NEW q, q.state # "WAITING_FOR_INPUT", q \in Scheduler
  PROVE  SchedulerTick(c, q).state # "WAITING_FOR_INPUT"
BY DEF SchedulerTick, Scheduler, NodeState, Execute

LEMMA JudgedKept ==
  ASSUME OneLayer, IInv, Truthful, NEW d \in Device, Judged(d), NEW u, NEW v,
         LoopEffect(d, u, v), SaysTrue(d, u), SpokenAfter(d, u)
  PROVE  Judged(d)'
<1> DEFINE c == Cfg[d]
           s == dev[d]
           t == c.target
<1>1. /\ dev'[d] = v /\ SameOthers(u, v) /\ v.retx = u.retx /\ StepTaken(c, s, u)
      /\ alive' = alive
  BY DEF LoopEffect, IInv, TypeOK
<1>2. v.standby = u.standby /\ v.sched = u.sched
  BY <1>1 DEF SameOthers
<1>3. ASSUME NEW k \in Slot, u.retx[k].left > 0, Report(u.retx[k].pkt)
      PROVE  u.retx[k].pkt.about \notin alive
  <2>1. CASE u.retx[k].pkt \in u.sent
    BY <1>3, <2>1 DEF SaysTrue
  <2>2. CASE s.retx[k].left > 0 /\ u.retx[k].pkt = s.retx[k].pkt
    BY <1>3, <2>2 DEF Judged
  <2> QED BY <1>1, <1>3, <2>1, <2>2 DEF StepTaken
<1>4. CASE PassCloses(c, s, u)
  <2>1. u.standby = StandbyReset
    BY <1>4 DEF PassCloses, PassReset
  <2>2. ~u.standby.hasSubstituted /\ ~u.standby.hasTornDown /\ ~u.standby.resendRequested
    BY <2>1 DEF StandbyReset
  <2> QED BY <1>1, <1>2, <1>3, <2>2 DEF Judged
<1>5. CASE PassContinues(c, s, u)
  <2>1. u.standby.hasSubstituted \/ u.standby.hasTornDown => t \notin alive
    BY <1>5 DEF PassContinues, Judged, SaysTrue
  <2>2. ASSUME u.standby.resendRequested
        PROVE  /\ IsStandby(c) /\ u.sched.state # "WAITING_FOR_INPUT"
               /\ \A n \in Others(c) : HeardOf(Sibling(d, n))
    <3>1. s.sched \in Scheduler
      BY DEF IInv, TypeOK, DeviceState
    <3>2. CASE s.standby.resendRequested
      <4>1. /\ IsStandby(c) /\ s.sched.state # "WAITING_FOR_INPUT"
            /\ \A n \in Others(c) : HeardOf(Sibling(d, n))
        BY <3>2 DEF Judged
      <4>2. SchedulerTick(c, s.sched).state # "WAITING_FOR_INPUT"
        BY <3>1, <4>1, TickLeavesWaiting
      <4> QED BY <1>5, <4>1, <4>2 DEF PassContinues
    <3>3. CASE Asks(c, s)
      <4>1. /\ IsStandby(c) /\ SchedulerTick(c, s.sched).state # "WAITING_FOR_INPUT"
            /\ Others(c) \subseteq s.standby.layerObserved
        BY <3>3 DEF Asks, Unjudged, Watches
      <4>2. \A n \in Others(c) : HeardOf(Sibling(d, n))
        BY <4>1 DEF Truthful
      <4> QED BY <1>5, <4>1, <4>2 DEF PassContinues
    <3> QED BY <1>5, <2>2, <3>2, <3>3 DEF PassContinues
  <2>3. \A a : HeardOf(a) => HeardOf(a)'
    BY DEF SpokenAfter
  <2>4. u.standby.resendRequested => \A n \in Others(c) : HeardOf(Sibling(d, n))'
    BY <2>2, <2>3
  <2>5. \A n : Sibling(d, n)' = Sibling(d, n)
    BY DEF Sibling
  <2> QED BY <1>1, <1>2, <1>3, <2>1, <2>2, <2>4 DEF Judged
<1> QED BY <1>1, <1>4, <1>5 DEF StepTaken

LEMMA AnsweredKept ==
  ASSUME OneLayer, IInv, NEW d \in Device, Answered(d), NEW u, NEW v,
         LoopEffect(d, u, v)
  PROVE  Answered(d)'
<1> DEFINE c == Cfg[d]
           s == dev[d]
<1>1. /\ dev'[d] = v /\ SameOthers(u, v) /\ StepTaken(c, s, u) /\ alive' = alive
  BY DEF LoopEffect, IInv, TypeOK
<1>2. v.standby = u.standby
  BY <1>1 DEF SameOthers
<1>3. CASE PassCloses(c, s, u)
  <2>1. u.standby = StandbyReset
    BY <1>3 DEF PassCloses, PassReset
  <2> QED BY <1>1, <1>2, <2>1 DEF Answered, StandbyReset
<1>4. CASE PassContinues(c, s, u)
  <2>1. /\ u.standby.targetObserved = s.standby.targetObserved
        /\ u.standby.resendRequested /\ u.standby.waited > 0 =>
             s.standby.resendRequested /\ s.standby.waited > 0
    BY <1>4 DEF PassContinues
  <2> QED BY <1>1, <1>2, <2>1 DEF Answered
<1> QED BY <1>1, <1>3, <1>4 DEF StepTaken

(* A device that is yet to speak does not close its pass.                  *)
LEMMA PassGoesOn ==
  ASSUME IInv, NEW d \in Device, Spoken(d), ~Spoke(d), Patient(d), NEW u,
         StepTaken(Cfg[d], dev[d], u), ~TakesTurn(Cfg[d], dev[d])
  PROVE  PassContinues(Cfg[d], dev[d], u)
<1>1. dev[d].idle \in Nat
  BY DEF IInv, TypeOK, DeviceState
<1>2. IdleTicks \in Nat /\ dev[d].idle < IdleTicks
  BY TicksAssumption DEF Patient
<1> QED BY <1>1, <1>2 DEF StepTaken, PassCloses, Spoken

-----------------------------------------------------------------------------
(* A loop iteration of d as its own inbox and the others' see it.          *)
LEMMA InboxAfter ==
  ASSUME OneLayer, IInv, NEW d \in Device, NEW u, NEW v, LoopEffect(d, u, v),
         SaysTrue(d, u), SpokenAfter(d, u), NEW e \in alive, e \in Device
  PROVE  /\ net[e] \subseteq net'[e]
         /\ \A p \in net'[e] : p \in net[e] \/ (p \in u.sent /\ p.src.layer = 1)
         /\ Listens(e) /\ e # d => \A p \in u.sent : p.type = "DATA" => p \in net'[e]
<1>1. net' = [r \in Receiver |-> net[r] \cup {p \in u.sent : Hears(d, r, p)}]
  BY DEF LoopEffect
<1>2. e \in Receiver /\ e # Laptop
  BY LaptopAssumption DEF Receiver
<1>3. net'[e] = net[e] \cup {p \in u.sent : Hears(d, e, p)}
  BY <1>1, <1>2
<1>4. \A p \in u.sent : p.src.layer = 1
  BY DEF SaysTrue, OneLayer
<1>5. ASSUME Listens(e), e # d, NEW p \in u.sent, p.type = "DATA"
      PROVE  Hears(d, e, p)
  <2>1. p.group = Cfg[d].succ /\ Cfg[d].succ = Cfg[e].succ /\ Cfg[e].succ # NoSiblingGroup
    BY <1>5 DEF SaysTrue, OneLayer
  <2>2. p.group \in Groups(Cfg[e])
    BY <1>5, <2>1 DEF Groups, Listens
  <2> QED BY <1>2, <1>5, <2>2 DEF Hears
<1> QED BY <1>3, <1>4, <1>5

LEMMA OthersPlay ==
  ASSUME OneLayer, IInv, NEW d \in Device, NEW u, NEW v, LoopEffect(d, u, v),
         SaysTrue(d, u), SpokenAfter(d, u), NEW e \in alive, e \in Device, e # d,
         Playing(e)
  PROVE  Playing(e)'
<1>1. /\ dev'[e] = dev[e] /\ alive' = alive
      /\ \A a : HeardOf(a) => HeardOf(a)'
      /\ Spoke(e)' <=> Spoke(e)
  BY DEF LoopEffect, SpokenAfter, IInv, TypeOK
<1>2. /\ net[e] \subseteq net'[e]
      /\ \A p \in net'[e] : p \in net[e] \/ (p \in u.sent /\ p.src.layer = 1)
      /\ Listens(e) => \A p \in u.sent : p.type = "DATA" => p \in net'[e]
  BY InboxAfter
<1>3. \A p \in net'[e] : p.src.layer = 0 => p \in net[e]
  BY <1>2
<1>4. ASSUME Listens(e), NEW a, HeardOf(a)' PROVE HeardOf(a) \/ Arriving(e, a)'
  BY <1>2, <1>4 DEF SpokenAfter, Arriving
<1>5. \A a : Arriving(e, a) => Arriving(e, a)'
  BY <1>2 DEF Arriving
<1>6. \A i : Injected(i).src.layer = 0 /\ Injected(i)' = Injected(i)
  BY DEF Injected, DataPacket, Source
<1>7. ASSUME Unspoken(e) PROVE Unspoken(e)'
  <2>1. \A i \in Inputs : Injected(i) \in net'[e] <=> Injected(i) \in net[e]
    BY <1>2, <1>3, <1>6
  <2>2. Received(e)' = Received(e)
    BY <1>1 DEF Received
  <2>3. Listens(e) => \A f \in Device : HeardOf(f)' =>
                        f.node \in dev[e].sched.observed \/ Arriving(e, f)'
    BY <1>4, <1>5, <1>7 DEF Unspoken
  <2>4. Listens(e)' = Listens(e)
    BY DEF Listens
  <2> QED BY <1>1, <1>6, <1>7, <2>1, <2>2, <2>3, <2>4 DEF Unspoken
<1>8. Patient(e) => Patient(e)'
  BY <1>1 DEF Patient, Received
<1>9. KeepsTurn(e) => KeepsTurn(e)'
  BY <1>1 DEF KeepsTurn, Sibling
<1>10. Finished(e) => Finished(e)'
  BY <1>1, <1>3 DEF Finished, Received
<1>11. Watching(e) => Watching(e)'
  <2> SUFFICES ASSUME Watching(e), IsStandby(Cfg[e]), Spoke(Cfg[e].target)'
               PROVE  \/ dev[e].standby.targetObserved
                      \/ Arriving(e, Cfg[e].target)'
                      \/ Spoke(e) /\ dev[e].sched.state = "WAITING_FOR_INPUT"
    BY <1>1 DEF Watching
  <2>1. Cfg[e].target \in Device /\ Listens(e)
    BY DEF OneLayer, IsStandby, Listens
  <2>2. CASE Spoke(Cfg[e].target)
    BY <1>5, <2>2 DEF Watching
  <2>3. CASE ~Spoke(Cfg[e].target)
    <3>1. Cfg[e].target = d /\ TakesTurn(Cfg[d], dev[d])
      BY <2>1, <2>3 DEF SpokenAfter
    <3>2. Arriving(e, d)'
      BY <1>2, <2>1, <3>1 DEF SpokenAfter, Arriving
    <3> QED BY <3>1, <3>2
  <2> QED BY <2>2, <2>3
<1>12. \A p \in net'[e] : p.src.layer = 0 => \E i \in Inputs : p = Injected(i)'
  BY <1>3, <1>6 DEF Playing
<1>13. dev'[e].locked = {}
  BY <1>1 DEF Playing
<1> QED BY <1>1, <1>7, <1>8, <1>9, <1>10, <1>11, <1>12, <1>13 DEF Playing

(* A device that is yet to speak, after an iteration in which it does not. *)
LEMMA StillUnspoken ==
  ASSUME OneLayer, Calm, IInv, NEW d \in Device, d \in alive, NEW u, NEW v,
         LoopEffect(d, u, v), SaysTrue(d, u), SpokenAfter(d, u),
         Spoken(d), Playing(d), ~Spoke(d), ~TakesTurn(Cfg[d], dev[d])
  PROVE  /\ PassContinues(Cfg[d], dev[d], u)
         /\ Unspoken(d)' /\ Patient(d)' /\ KeepsTurn(d)'
<1> DEFINE c == Cfg[d]
           s == dev[d]
           q == SchedulerTick(c, s.sched)
<1>1. /\ dev'[d] = v /\ SameOthers(u, v) /\ StepTaken(c, s, u) /\ alive' = alive
      /\ s \in DeviceState /\ s.sched \in Scheduler
  BY DEF LoopEffect, IInv, TypeOK, DeviceState
<1>2. /\ v.sched = u.sched /\ v.stallArmed = u.stallArmed /\ v.stalled = u.stalled
      /\ v.idle = u.idle
  BY <1>1 DEF SameOthers
<1>3. Unspoken(d) /\ Patient(d) /\ KeepsTurn(d)
  BY DEF Playing
<1>4. PassContinues(c, s, u)
  BY <1>1, <1>3, PassGoesOn
<1>5. /\ u.idle = s.idle /\ u.sched.node.buffer = s.sched.node.buffer
      /\ u.sched.node = q.node /\ u.sched.state = q.state
      /\ s.sched.observed \subseteq u.sched.observed
      /\ Released(c, s) => c.preceding \subseteq u.sched.observed
      /\ u.stallArmed <=> q.state = "WAITING_FOR_TURN" /\ ~Released(c, s)
      /\ u.stalled = IF u.stallArmed /\ s.stallArmed THEN s.stalled ELSE 0
  BY <1>4 DEF PassContinues
<1>6. /\ net[d] \subseteq net'[d]
      /\ \A p \in net'[d] : p \in net[d] \/ (p \in u.sent /\ p.src.layer = 1)
  BY InboxAfter
<1>7. \A i : Injected(i).src.layer = 0 /\ Injected(i)' = Injected(i)
  BY DEF Injected, DataPacket, Source
<1>8. \A i : Injected(i) \in net'[d] <=> Injected(i) \in net[d]
  BY <1>6, <1>7
<1>9. Received(d)' = Received(d)
  BY <1>1, <1>2, <1>5 DEF Received
<1>10. /\ q.state \in {"WAITING_FOR_INPUT", "READY_TO_EXECUTE", "EXECUTING",
                       "WAITING_FOR_TURN"}
       /\ q.state = "WAITING_FOR_INPUT" => ~q.node.hasExecuted
       /\ s.sched.state = "WAITING_FOR_TURN" => q = s.sched
  BY <1>1, <1>3 DEF Unspoken, SchedulerTick, Scheduler, TakesTurn
<1>11. ASSUME Listens(d), NEW e \in Device, HeardOf(e)'
       PROVE  e.node \in u.sched.observed \/ Arriving(d, e)'
  <2>1. CASE HeardOf(e)
    <3>1. e.node \in s.sched.observed \/ Arriving(d, e)
      BY <1>3, <1>11, <2>1 DEF Unspoken
    <3> QED BY <1>5, <1>6, <3>1 DEF Arriving
  <2>2. CASE ~HeardOf(e)
    <3>1. PICK p \in u.sent : p.type = "DATA" /\ p.src = e
      BY <1>11, <2>2 DEF SpokenAfter
    <3>2. e # d
      BY <3>1 DEF SaysTrue
    <3>3. ~\E k \in Slot : Again(s.retx[k], p)
      BY <2>2, <3>1 DEF SaysTrue
    <3>4. e = c.target
      BY <1>1, <3>1, <3>2, <3>3 DEF StepTaken, MaySend, OneLayer
    <3>5. e.layer = c.addr.layer /\ c.addr = d
      BY DEF OneLayer
    <3>6. e.node \in u.sched.observed
      BY <1>4, <3>1, <3>2, <3>3, <3>4, <3>5 DEF PassContinues
    <3> QED BY <3>6
  <2> QED BY <2>1, <2>2
<1>12. Unspoken(d)'
  BY <1>1, <1>2, <1>3, <1>5, <1>7, <1>8, <1>9, <1>10, <1>11 DEF Unspoken, Listens
<1>13. Patient(d)'
  <2>1. CASE Received(d) = {} \/ s.idle = 0
    BY <1>1, <1>2, <1>3, <1>5, <1>9, <2>1 DEF Patient
  <2>2. CASE Received(d) # {} /\ s.idle # 0
    <3>1. /\ s.sched.state = "WAITING_FOR_TURN" /\ s.idle <= StallTicks
          /\ s.stallArmed => s.idle <= s.stalled
          /\ s.stallArmed \/ TurnGranted(c, s.sched)
      BY <1>3, <2>2 DEF Patient
    <3>2. s.stallArmed /\ q.state = "WAITING_FOR_TURN"
      BY <1>10, <3>1 DEF TakesTurn
    <3>3. Released(c, s) => TurnGranted(c, u.sched)
      BY <1>5 DEF TurnGranted
    <3>4. v.stallArmed => v.stalled = s.stalled
      BY <1>2, <1>5, <3>2
    <3>5. v.stallArmed \/ TurnGranted(c, v.sched)
      BY <1>2, <1>5, <3>2, <3>3
    <3>6. v.idle = s.idle /\ v.sched.state = "WAITING_FOR_TURN"
      BY <1>2, <1>5, <3>2
    <3> QED BY <1>1, <1>3, <3>1, <3>2, <3>4, <3>5, <3>6 DEF Patient
  <2> QED BY <2>1, <2>2
<1>14. KeepsTurn(d)'
  <2> SUFFICES ASSUME \A n \in c.preceding : Sibling(d, n) \in alive
               PROVE  /\ \A n \in u.sched.observed \cap c.preceding : HeardOf(Sibling(d, n))'
                      /\ u.stallArmed => u.stalled = 0
    BY <1>1, <1>2 DEF KeepsTurn, Sibling
  <2>1. /\ \A n \in s.sched.observed \cap c.preceding : HeardOf(Sibling(d, n))
        /\ s.stallArmed => s.stalled = 0
    BY <1>3 DEF KeepsTurn
  <2>2. ~Released(c, s)
    BY <2>1, TicksAssumption DEF Released
  <2>3. ASSUME NEW n \in u.sched.observed \cap c.preceding
        PROVE  HeardOf(Sibling(d, n))'
    <3>1. CASE n \in s.sched.observed
      BY <2>1, <3>1 DEF SpokenAfter
    <3>2. CASE n \notin s.sched.observed
      <4>1. PICK p \in u.sent : p.type = "DATA" /\ p.src = c.target /\ n = c.target.node
        BY <1>4, <2>2, <2>3, <3>2 DEF PassContinues
      <4>2. p.src \in Device /\ p.src.layer = 1 /\ d.layer = 1 /\ p.src.node = n
        BY <4>1 DEF SaysTrue, OneLayer
      <4>3. p.src \in Address
        BY <4>1 DEF LoopEffect, Packet
      <4>4. p.src = Sibling(d, n)
        BY <4>2, <4>3 DEF Sibling, Address
      <4>5. HeardOf(p.src)'
        BY <4>1 DEF SpokenAfter
      <4> QED BY <4>4, <4>5
    <3> QED BY <3>1, <3>2
  <2> QED BY <1>5, <2>1, <2>3
<1> QED BY <1>4, <1>12, <1>13, <1>14

(* One that has spoken, or does so now.                                    *)
LEMMA NowFinished ==
  ASSUME OneLayer, Calm, IInv, NEW d \in Device, d \in alive, NEW u, NEW v,
         LoopEffect(d, u, v), SaysTrue(d, u), SpokenAfter(d, u), Playing(d),
         Spoke(d) \/ TakesTurn(Cfg[d], dev[d])
  PROVE  /\ Finished(d)'
         /\ Spoke(d) /\ dev[d].sched.state = "WAITING_FOR_INPUT" =>
              dev'[d].sched.state = "WAITING_FOR_INPUT"
<1> DEFINE c == Cfg[d]
           s == dev[d]
           q == SchedulerTick(c, s.sched)
<1>1. /\ dev'[d] = v /\ SameOthers(u, v) /\ StepTaken(c, s, u) /\ alive' = alive
      /\ s.sched \in Scheduler /\ PastInputs(c, s)
  BY DEF LoopEffect, IInv, TypeOK, DeviceState, DeviceInv
<1>2. v.sched = u.sched
  BY <1>1 DEF SameOthers
<1>3. Spoke(d) => Finished(d) /\ ~TakesTurn(c, s)
  BY DEF Playing, Finished, TakesTurn
<1>4. \A p \in net[d] : p.src.layer # 0
  <2>1. CASE Spoke(d)
    BY <1>3, <2>1 DEF Finished
  <2>2. CASE ~Spoke(d)
    <3>1. Inputs \subseteq Received(d)
      BY <1>1, <2>2 DEF PastInputs, TakesTurn, IsComplete, OneLayer, Received
    <3>2. \A i \in Inputs : Injected(i) \notin net[d]
      BY <2>2, <3>1 DEF Playing, Unspoken
    <3> QED BY <3>2 DEF Playing
  <2> QED BY <2>1, <2>2
<1>5. \A p \in net'[d] : p.src.layer # 0
  BY <1>4, InboxAfter
<1>6. CASE PassCloses(c, s, u)
  <2>1. u.sched = SchedulerReset
    BY <1>6 DEF PassCloses, PassReset
  <2>2. u.sched.state = "WAITING_FOR_INPUT" /\ u.sched.node.buffer.received = {}
    BY <2>1 DEF SchedulerReset, NodeReset, EmptyBuffer
  <2> QED BY <1>1, <1>2, <1>5, <2>2 DEF Finished, Received
<1>7. CASE PassContinues(c, s, u)
  <2>1. CASE TakesTurn(c, s)
    <3>1. u.sched.state = "TRANSMITTED"
      BY <1>7, <2>1 DEF PassContinues
    <3>2. s.sched.state # "WAITING_FOR_INPUT"
      BY <2>1 DEF TakesTurn
    <3> QED BY <1>1, <1>2, <1>5, <3>1, <3>2 DEF Finished
  <2>2. CASE ~TakesTurn(c, s)
    <3>1. /\ u.sched.state = q.state
          /\ u.sched.node.buffer = s.sched.node.buffer
      BY <1>7, <2>2 DEF PassContinues
    <3>2. Finished(d)
      BY <1>3, <2>2
    <3>3. s.sched.state = "TRANSMITTED" => q.state = "TRANSMITTED"
      BY <1>1 DEF SchedulerTick, Scheduler
    <3>4. ASSUME s.sched.state = "WAITING_FOR_INPUT"
          PROVE  q.state = "WAITING_FOR_INPUT" /\ Received(d) = {}
      <4>1. Received(d) = {}
        BY <3>2, <3>4 DEF Finished
      <4>2. ~ReadyToExecute(c, s.sched.node)
        BY <4>1 DEF ReadyToExecute, IsComplete, Received, OneLayer
      <4> QED BY <3>4, <4>1, <4>2 DEF SchedulerTick
    <3>5. Received(d)' = Received(d)
      BY <1>1, <1>2, <3>1 DEF Received
    <3> QED BY <1>1, <1>2, <1>5, <3>1, <3>2, <3>3, <3>4, <3>5 DEF Finished
  <2> QED BY <2>1, <2>2
<1> QED BY <1>1, <1>6, <1>7 DEF StepTaken

LEMMA SelfPlays ==
  ASSUME OneLayer, Calm, IInv, NEW d \in Device, d \in alive, NEW u, NEW v,
         LoopEffect(d, u, v), SaysTrue(d, u), SpokenAfter(d, u), Spoken(d), Playing(d)
  PROVE  Playing(d)'
<1> DEFINE c == Cfg[d]
           s == dev[d]
<1>1. /\ dev'[d] = v /\ SameOthers(u, v) /\ StepTaken(c, s, u) /\ alive' = alive
  BY DEF LoopEffect, IInv, TypeOK
<1>2. /\ net[d] \subseteq net'[d]
      /\ \A p \in net'[d] : p \in net[d] \/ (p \in u.sent /\ p.src.layer = 1)
  BY InboxAfter
<1>3. \A i : Injected(i)' = Injected(i)
  BY DEF Injected
<1>4. \A p \in net'[d] : p.src.layer = 0 => \E i \in Inputs : p = Injected(i)'
  BY <1>2, <1>3 DEF Playing
<1>5. v.locked = {}
  <2>1. u.locked = {}
    <3>1. CASE PassContinues(c, s, u)
      BY <3>1 DEF PassContinues, Playing
    <3>2. CASE PassCloses(c, s, u)
      BY <3>2 DEF PassCloses, PassReset
    <3> QED BY <1>1, <3>1, <3>2 DEF StepTaken
  <2> QED BY <1>1, <2>1 DEF SameOthers
<1>6. Spoke(d)' <=> Spoke(d) \/ TakesTurn(c, s)
  BY DEF SpokenAfter
<1>7. ~Spoke(d)' => /\ PassContinues(c, s, u)
                    /\ Unspoken(d)' /\ Patient(d)' /\ KeepsTurn(d)'
  BY <1>6, StillUnspoken
<1>8. Spoke(d)' => /\ Finished(d)'
                   /\ Spoke(d) /\ s.sched.state = "WAITING_FOR_INPUT" =>
                        dev'[d].sched.state = "WAITING_FOR_INPUT"
  BY <1>6, NowFinished
<1>9. Watching(d)'
  <2> SUFFICES ASSUME IsStandby(c), Spoke(c.target)'
               PROVE  \/ v.standby.targetObserved
                      \/ Arriving(d, c.target)'
                      \/ Spoke(d)' /\ v.sched.state = "WAITING_FOR_INPUT"
    BY <1>1 DEF Watching
  <2>1. c.target \in Device \ {d}
    BY DEF OneLayer, IsStandby
  <2>2. Spoke(c.target)
    BY <2>1 DEF SpokenAfter
  <2>3. \/ s.standby.targetObserved
        \/ Arriving(d, c.target)
        \/ Spoke(d) /\ s.sched.state = "WAITING_FOR_INPUT"
    BY <2>2 DEF Playing, Watching
  <2>4. CASE PassCloses(c, s, u) /\ ~PassContinues(c, s, u)
    <3>1. u.sched = SchedulerReset
      BY <2>4 DEF PassCloses, PassReset
    <3>2. v.sched.state = "WAITING_FOR_INPUT"
      BY <1>1, <3>1 DEF SameOthers, SchedulerReset
    <3> QED BY <1>7, <2>4, <3>2
  <2>5. CASE PassContinues(c, s, u)
    <3>1. Arriving(d, c.target) => Arriving(d, c.target)'
      BY <1>2 DEF Arriving
    <3>2. v.standby.targetObserved = s.standby.targetObserved
      BY <1>1, <2>5 DEF PassContinues, SameOthers
    <3> QED BY <1>1, <1>6, <1>8, <2>3, <3>1, <3>2
  <2> QED BY <1>1, <2>4, <2>5 DEF StepTaken
<1> QED BY <1>1, <1>4, <1>5, <1>7, <1>8, <1>9 DEF Playing

(* A packet handed to d.                                                   *)
LEMMA HandedPlays ==
  ASSUME OneLayer, Calm, IInv, Truthful, NEW d \in Device, NEW p, NEW u,
         PacketEffect(d, p, u), net' = [net EXCEPT ![d] = @ \ {p}], Playing(d)
  PROVE  Playing(d)'
<1> DEFINE c == Cfg[d]
           s == dev[d]
<1>1. /\ dev'[d] = u /\ net'[d] = net[d] \ {p} /\ PacketTaken(c, s, p, u)
      /\ p \in net[d] /\ p \in Packet /\ p.src \in Address
      /\ UNCHANGED <<alive, spoken>>
  BY DEF PacketEffect, IInv, TypeOK, Receiver, Packet
<1>2. c.addr = d /\ d.layer = 1 /\ c.predLayer = 0 /\ d \in Receiver
  BY DEF OneLayer, Receiver
<1>3. \A i : Injected(i).src = Source(i) /\ Injected(i).flag = "none"
             /\ Injected(i).type = "DATA" /\ Injected(i)' = Injected(i)
  BY DEF Injected, DataPacket
<1>4. \A i : Source(i).layer = 0 /\ Source(i).node = i
  BY DEF Source
<1>5. s.locked = {} /\ ~Suppressed(c, s, p)
  BY DEF Playing, Suppressed, ShouldAccept
<1>6. p.src.layer = 0 => \E i \in Inputs : p = Injected(i)
  BY <1>1 DEF Playing
<1>7. u.locked = {}
  BY <1>1, <1>2, <1>3, <1>5, <1>6 DEF PacketTaken, FromPredecessors, LockedAfter
<1>8. /\ u.sched.state = s.sched.state
      /\ u.sched.node.hasExecuted = s.sched.node.hasExecuted
      /\ u.stallArmed = s.stallArmed /\ u.stalled = s.stalled /\ u.idle = 0
      /\ u.sched.observed = s.sched.observed \cup
           (IF p.type = "DATA" /\ p.src.layer = 1 THEN {p.src.node} ELSE {})
      /\ u.sched.node.buffer.received = s.sched.node.buffer.received \cup
           (IF p.type = "DATA" /\ p.src.layer = 0 THEN {p.src.node} ELSE {})
      /\ u.standby.targetObserved <=>
           \/ s.standby.targetObserved
           \/ p.type = "DATA" /\ IsStandby(c) /\ p.src = c.target
  BY <1>1, <1>2, <1>5 DEF PacketTaken, FromPredecessors
<1>9. \A a : Arriving(d, a) => Arriving(d, a)' \/ (p.type = "DATA" /\ p.src = a)
  BY <1>1 DEF Arriving
<1>10. \A q \in net'[d] : q \in net[d]
  BY <1>1
<1>11. \A q \in net'[d] : q.src.layer = 0 => \E i \in Inputs : q = Injected(i)'
  BY <1>3, <1>10 DEF Playing
<1>12. ASSUME Unspoken(d) PROVE Unspoken(d)'
  <2>1. ASSUME NEW i \in Inputs
        PROVE  i \in u.sched.node.buffer.received <=> Injected(i) \notin net'[d]
    <3>1. i \in s.sched.node.buffer.received <=> Injected(i) \notin net[d]
      BY <1>12 DEF Unspoken, Received
    <3>2. CASE p = Injected(i)
      BY <1>1, <1>3, <1>4, <1>8, <3>1, <3>2
    <3>3. CASE p # Injected(i)
      <4>1. i \in u.sched.node.buffer.received <=> i \in s.sched.node.buffer.received
        BY <1>3, <1>4, <1>6, <1>8, <3>3
      <4> QED BY <1>1, <3>1, <3>3, <4>1
    <3> QED BY <3>2, <3>3
  <2>2. ASSUME Listens(d), NEW e \in Device, HeardOf(e)
        PROVE  e.node \in u.sched.observed \/ Arriving(d, e)'
    <3>1. e.node \in s.sched.observed \/ Arriving(d, e)
      BY <1>12, <2>2 DEF Unspoken
    <3>2. e.layer = 1
      BY DEF OneLayer
    <3> QED BY <1>8, <1>9, <3>1, <3>2
  <2>3. \A e \in Device : HeardOf(e)' <=> HeardOf(e)
    BY <1>1 DEF HeardOf
  <2>4. Listens(d)' = Listens(d)
    BY DEF Listens
  <2> QED BY <1>1, <1>3, <1>8, <1>12, <2>1, <2>2, <2>3, <2>4 DEF Unspoken, Received
<1>13. Patient(d)'
  BY <1>1, <1>8, TicksAssumption DEF Patient
<1>14. ASSUME KeepsTurn(d) PROVE KeepsTurn(d)'
  <2>1. p.type = "DATA" /\ p.src.layer = 1 =>
          HeardOf(p.src) /\ p.src = Sibling(d, p.src.node)
    BY <1>1, <1>2 DEF Truthful, Sibling, Address
  <2> QED BY <1>1, <1>8, <1>14, <2>1 DEF KeepsTurn, Sibling, HeardOf
<1>15. ASSUME Finished(d) PROVE Finished(d)'
  <2>1. p.src.layer # 0
    BY <1>1, <1>15 DEF Finished
  <2> QED BY <1>1, <1>8, <1>10, <1>15, <2>1 DEF Finished, Received
<1>16. Watching(d)'
  BY <1>1, <1>8, <1>9 DEF Playing, Watching, Spoke
<1>17. Spoke(d)' <=> Spoke(d)
  BY <1>1 DEF Spoke
<1> QED BY <1>1, <1>7, <1>11, <1>12, <1>13, <1>14, <1>15, <1>16, <1>17 DEF Playing

(* What a device stands still for.                                         *)
Awaits(d, e) == e \in Device /\ e.node < d.node /\ ~HeardOf(e)

LEMMA StandsStill ==
  ASSUME OneLayer, Calm, IInv, Settled, Quiet, NEW d \in Device, d \in alive,
         Spoken(d), Playing(d), ~Spoke(d)
  PROVE  /\ dev[d].sched.state = "WAITING_FOR_TURN" /\ dev[d].stallArmed
         /\ dev[d].stalled < StallTicks /\ Received(d) # {}
         /\ \E e : Awaits(d, e)
<1> DEFINE c == Cfg[d]
           s == dev[d]
<1>1. /\ s \in DeviceState /\ s.sched \in Scheduler /\ s.sent = {}
      /\ DeviceInv(c, s) /\ c \in Configuration /\ HandedOver(s) /\ Unresolved(s.standby)
  BY ConfigurationOf DEF IInv, TypeOK, DeviceState, Settled
<1>2. RuntimeStep(c, s) = s /\ net[d] = {}
  BY DEF Quiet, Busy
<1>3. StepTaken(c, s, s)
  BY <1>1, <1>2, StepDone
<1>4. ~TakesTurn(c, s)
  BY <1>1, <1>3 DEF StepTaken
<1>5. Unspoken(d) /\ Patient(d)
  BY DEF Playing
<1>6. PassContinues(c, s, s)
  BY <1>3, <1>4, <1>5, PassGoesOn
<1>7. Inputs \subseteq Received(d)
  BY <1>2, <1>5 DEF Unspoken
<1>8. SchedulerTick(c, s.sched).state = s.sched.state
  BY <1>4, <1>6 DEF PassContinues
<1>9. s.sched.state = "WAITING_FOR_TURN"
  <2>1. s.sched.state = "WAITING_FOR_INPUT" => ReadyToExecute(c, s.sched.node)
    BY <1>5, <1>7 DEF Unspoken, ReadyToExecute, IsComplete, OneLayer, Received
  <2> QED BY <1>1, <1>5, <1>8, <2>1 DEF Unspoken, SchedulerTick, Scheduler
<1>10. ~(c.preceding \subseteq s.sched.observed)
  BY <1>4, <1>9 DEF TakesTurn, TurnGranted
<1>11. ~Released(c, s)
  BY <1>6, <1>10 DEF PassContinues
<1>12. s.stallArmed
  BY <1>6, <1>8, <1>9, <1>11 DEF PassContinues
<1>13. s.stalled < StallTicks
  <2>1. s.stalled \in Nat /\ StallTicks \in Nat
    BY <1>1, TicksAssumption DEF DeviceState
  <2> QED BY <1>8, <1>9, <1>11, <1>12, <2>1 DEF Released
<1>14. PICK e \in Device : e.node < d.node /\ e.node \notin s.sched.observed
  BY <1>10 DEF OneLayer
<1>15. Listens(d)
  BY <1>10 DEF Listens
<1>16. ~HeardOf(e)
  BY <1>2, <1>5, <1>14, <1>15 DEF Unspoken, Arriving
<1>17. Received(d) # {}
  BY <1>7 DEF OneLayer
<1> QED BY <1>9, <1>12, <1>13, <1>14, <1>16, <1>17 DEF Awaits

(* While d waits for its turn, one of its preceding siblings has died.     *)
Blocked(e) ==
  /\ e \in alive /\ ~Spoke(e)
  /\ \A n \in Cfg[e].preceding : Sibling(e, n) \in alive

LEMMA LeastNode ==
  ASSUME NEW S \in SUBSET Nat, S # {}
  PROVE  \E n \in S : \A m \in S : ~(m < n)
<1>1. PICK n \in S : \A m \in S : ~(<<m, n>> \in OpToRel(<, Nat))
  BY NatLessThanWellFounded, WFMin
<1>2. \A m \in S : m < n => <<m, n>> \in OpToRel(<, Nat)
  BY DEF OpToRel
<1> QED BY <1>1, <1>2

LEMMA NobodyBlocked ==
  ASSUME OneLayer, Calm, IInv, Settled, Quiet,
         \A d \in alive : Spoken(d) /\ Playing(d),
         NEW d \in Device, Blocked(d)
  PROVE  FALSE
<1> DEFINE S == {e.node : e \in {f \in Device : Blocked(f)}}
<1>1. S \in SUBSET Nat /\ S # {}
  <2>1. \A e \in Device : e.node \in NodeId /\ NodeId \subseteq Nat
    BY ConfigurationOf DEF OneLayer, Configuration, Address
  <2> QED BY <2>1
<1>2. PICK n \in S : \A m \in S : ~(m < n)
  BY <1>1, LeastNode
<1>3. PICK e \in Device : Blocked(e) /\ e.node = n
  BY <1>2
<1>4. Spoken(e) /\ Playing(e) /\ ~Spoke(e) /\ e \in alive
  BY <1>3 DEF Blocked
<1>5. PICK f : Awaits(e, f)
  BY <1>3, <1>4, StandsStill
<1>6. /\ f \in Device /\ f.node < e.node /\ ~Spoke(f)
      /\ e.layer = 1 /\ f.layer = 1 /\ f \in Address
  BY <1>3, <1>5, ConfigurationOf DEF Awaits, HeardOf, Spoke, OneLayer, Configuration
<1>7. f = Sibling(e, f.node)
  BY <1>6 DEF Sibling, Address
<1>8. f \in alive
  BY <1>3, <1>6, <1>7 DEF Blocked, OneLayer
<1>9. ASSUME NEW k \in Cfg[f].preceding PROVE Sibling(f, k) \in alive
  <2>1. PICK g \in Device : g.node = k /\ g.node < f.node
    BY <1>6, <1>9 DEF OneLayer
  <2>2. g.node < e.node
    <3>1. g.node \in Nat /\ f.node \in Nat /\ e.node \in Nat
      BY <1>3, <1>6, <2>1, ConfigurationOf DEF OneLayer, Configuration, Address
    <3> QED BY <1>6, <2>1, <3>1
  <2>3. k \in Cfg[e].preceding
    BY <1>3, <2>1, <2>2 DEF OneLayer
  <2> QED BY <1>3, <1>6, <2>3 DEF Blocked, Sibling
<1>10. Blocked(f)
  BY <1>6, <1>8, <1>9 DEF Blocked
<1> QED BY <1>2, <1>3, <1>6, <1>10

(* A tick finds nobody yet to speak whose siblings before it all live, and *)
(* every request to a live target answered.                                *)
LEMMA TickAnswers ==
  ASSUME OneLayer, Calm, IInv, Settled, Quiet, lap.run = 1,
         \A d \in alive : Spoken(d) /\ Playing(d), NEW d \in Device, d \in alive,
         Judged(d), dev[d].standby.resendRequested, Cfg[d].target \in alive
  PROVE  dev[d].standby.targetObserved
<1> DEFINE c == Cfg[d]
           t == c.target
<1>1. /\ IsStandby(c) /\ dev[d].sched.state # "WAITING_FOR_INPUT"
      /\ \A n \in Others(c) : HeardOf(Sibling(d, n))
  BY DEF Judged
<1>2. t \in Device /\ t # d /\ c.roster = {e.node : e \in Device} /\ c.addr = d
  BY <1>1 DEF OneLayer, IsStandby
<1>3. ASSUME NEW e \in Device PROVE e.layer = 1 /\ e \in Address /\ e.node \in Nat
  <2>1. Cfg[e].addr = e /\ Cfg[e].addr \in Address
    BY ConfigurationOf DEF OneLayer, Configuration
  <2>2. e.node \in NodeId
    BY <2>1 DEF Address
  <2> QED BY <2>1, <2>2 DEF OneLayer
<1>4. ASSUME NEW e \in Device, ~HeardOf(e) PROVE e = t \/ e = d
  <2>1. e = Sibling(d, e.node)
    BY <1>3 DEF Sibling, Address
  <2>2. e.node \in {t.node, d.node}
    BY <1>1, <1>2, <1>4, <2>1 DEF Others
  <2> QED BY <1>2, <1>3, <2>2 DEF Address
<1>5. \A e : Spoke(e) => HeardOf(e)
  BY DEF Spoke, HeardOf
<1>6. Spoke(t)
  <2> SUFFICES ASSUME ~Spoke(t) PROVE FALSE
    OBVIOUS
  <2>1. PICK e : Awaits(t, e)
    BY <1>2, StandsStill
  <2>2. e = d /\ d.node < t.node /\ ~HeardOf(d)
    BY <1>2, <1>3, <1>4, <2>1 DEF Awaits
  <2>3. PICK f : Awaits(d, f)
    BY <1>5, <2>2, StandsStill
  <2>4. f = t /\ t.node < d.node
    BY <1>3, <1>4, <2>3 DEF Awaits
  <2> QED BY <1>2, <1>3, <2>2, <2>4
<1>7. ~Arriving(d, t)
  BY DEF Quiet, Arriving
<1> QED BY <1>1, <1>6, <1>7 DEF Playing, Watching

LEMMA TickPlays ==
  ASSUME OneLayer, Calm, IInv, Settled, Tick, lap.run = 1,
         \A d \in alive : Spoken(d) /\ Playing(d), NEW d \in Device, d \in alive
  PROVE  Playing(d)'
<1> DEFINE c == Cfg[d]
           s == dev[d]
           u == dev'[d]
<1>1. Quiet /\ UNCHANGED <<alive, net, spoken>> /\ TimePassed(c, s, u)
  BY TickEffect, TickQuiet
<1>2. s \in DeviceState /\ s.idle \in Nat /\ s.stalled \in Nat
      /\ StallTicks \in Nat \ {0} /\ IdleTicks \in Nat /\ StallTicks < IdleTicks
  BY TicksAssumption DEF IInv, TypeOK, DeviceState, Calm
<1>3. /\ u.sched = s.sched /\ u.locked = s.locked /\ u.stallArmed = s.stallArmed
      /\ u.stalled = IF s.stallArmed /\ s.stalled < StallTicks THEN s.stalled + 1
                     ELSE s.stalled
      /\ u.idle = s.idle \/ u.idle = s.idle + 1
      /\ u.standby.targetObserved = s.standby.targetObserved
  BY <1>1 DEF TimePassed
<1>4. /\ Spoke(d)' <=> Spoke(d)
      /\ \A a : HeardOf(a)' <=> HeardOf(a)
      /\ Received(d)' = Received(d) /\ net'[d] = net[d] /\ alive' = alive
      /\ \A a : Arriving(d, a)' <=> Arriving(d, a)
      /\ \A i : Injected(i)' = Injected(i)
  BY <1>1, <1>3 DEF Spoke, HeardOf, Received, Arriving, Injected
<1>5. ASSUME ~Spoke(d) PROVE Unspoken(d)' /\ Patient(d)' /\ KeepsTurn(d)'
  <2>1. /\ s.sched.state = "WAITING_FOR_TURN" /\ s.stallArmed
        /\ s.stalled < StallTicks /\ Received(d) # {}
    BY <1>1, <1>5, StandsStill
  <2>2. Unspoken(d) /\ Patient(d)
    BY <1>5 DEF Playing
  <2>3. s.idle = 0 \/ s.idle <= s.stalled
    BY <2>1, <2>2 DEF Patient
  <2>4. u.idle <= u.stalled /\ u.idle <= StallTicks /\ u.idle < IdleTicks
    BY <1>2, <1>3, <2>1, <2>3
  <2>5. Patient(d)'
    BY <1>3, <2>1, <2>4 DEF Patient
  <2>6. Unspoken(d)'
    BY <1>3, <1>4, <2>2 DEF Unspoken, Listens
  <2>7. ~\A n \in c.preceding : Sibling(d, n) \in alive
    BY <1>1, <1>5, NobodyBlocked DEF Blocked
  <2>8. KeepsTurn(d)'
    BY <1>4, <2>7 DEF KeepsTurn, Sibling
  <2> QED BY <2>5, <2>6, <2>8
<1>6. Finished(d) => Finished(d)'
  BY <1>3, <1>4 DEF Finished
<1>7. Watching(d)'
  <2>1. Spoke(c.target)' <=> Spoke(c.target)
    BY <1>1 DEF Spoke
  <2> QED BY <1>3, <1>4, <2>1 DEF Playing, Watching
<1> QED BY <1>3, <1>4, <1>5, <1>6, <1>7 DEF Playing

(* The inputs of the first run reach devices at rest.                      *)
LEMMA FirstPlays ==
  ASSUME OneLayer, Calm, IInv, Settled, AtRest, StartRun, lap.run = 0,
         NEW d \in Device, d \in alive
  PROVE  Playing(d)'
<1> DEFINE c == Cfg[d]
           s == dev[d]
<1>1. /\ UNCHANGED <<dev, alive>> /\ spoken' = {} /\ Quiet
  BY DEF StartRun, Calm
<1>2. Resting(s) /\ net[d] = {} /\ d # Laptop /\ d \in Receiver
  BY LaptopAssumption DEF AtRest, Receiver
<1>3. net'[d] = {Injected(i) : i \in Inputs}
  <2>1. \A i \in Inputs : [DataPacket(Source(i), "none", {lap.run + 1}) EXCEPT !.group = 1]
                            = Injected(i)
    BY DEF Injected
  <2>2. \A i \in Inputs : Injected(i).group = 1
    BY DEF Injected, DataPacket
  <2>3. \A i \in Inputs : Hears(Laptop, d, Injected(i))
    BY <1>2, <2>2 DEF Hears, Groups, OneLayer
  <2> QED BY <1>2, <2>1, <2>3 DEF StartRun, Multicast
<1>4. \A a : ~HeardOf(a)' /\ ~Spoke(a)'
  BY <1>1 DEF HeardOf, Spoke
<1>5. s.idle < IdleTicks
  <2>1. /\ DeviceInv(c, s) /\ c \in Configuration /\ HandedOver(s)
        /\ Unresolved(s.standby) /\ s.idle \in Nat /\ IdleTicks \in Nat \ {0}
    BY ConfigurationOf, TicksAssumption DEF IInv, TypeOK, DeviceState, Settled
  <2>2. RuntimeStep(c, s) = s
    BY <1>1 DEF Quiet, Busy
  <2>3. StepTaken(c, s, s)
    BY <2>1, <2>2, StepDone
  <2>4. CASE ~(PassManaged(c) /\ s.idle >= IdleTicks)
    BY <2>1, <2>4 DEF PassManaged, OneLayer
  <2>5. CASE PassCloses(c, s, s)
    <3>1. s.idle = 0
      BY <2>5 DEF PassCloses, PassReset
    <3> QED BY <2>1, <3>1
  <2> QED BY <2>3, <2>4, <2>5 DEF StepTaken
<1>6. \A i : Injected(i)' = Injected(i)
  BY DEF Injected
<1>7. Unspoken(d)'
  BY <1>1, <1>2, <1>3, <1>4, <1>6 DEF Unspoken, Resting, Received
<1>8. Patient(d)'
  BY <1>1, <1>2, <1>5 DEF Patient, Resting, Received
<1>9. KeepsTurn(d)'
  BY <1>1, <1>2 DEF KeepsTurn, Resting
<1>10. Watching(d)'
  BY <1>4 DEF Watching
<1>11. dev'[d].locked = {}
  BY <1>1, <1>2 DEF Resting
<1> QED BY <1>3, <1>4, <1>6, <1>7, <1>8, <1>9, <1>10, <1>11 DEF Playing

-----------------------------------------------------------------------------
(* LayerInv is inductive.                                                  *)

LEMMA OneLayerFed == OneLayer => FedByLaptop
BY DEF OneLayer, FedByLaptop

LEMMA RestIsSound ==
  ASSUME AtRest', lap'.run = 0, alive' \subseteq Device PROVE Sound'
<1>1. /\ lap'.reports = {} /\ \A r \in Receiver : net'[r] = {}
      /\ \A d \in Device : Resting(dev'[d])
  BY DEF AtRest
<1>2. ToldTrue'
  BY <1>1 DEF ToldTrue
<1>3. ASSUME NEW d \in Device PROVE Spoken(d)' /\ Judged(d)' /\ Answered(d)'
  BY <1>1 DEF Spoken, Judged, Answered, Resting
<1> QED BY <1>2, <1>3 DEF Sound

LEMMA LoopSound ==
  ASSUME OneLayer, Calm, IInv, Settled, Truthful, Sound, NEW d \in Device,
         LoopStep(d), lap.run = 1, \A e \in alive : Playing(e)
  PROVE  Sound' /\ \A e \in alive' : Playing(e)'
<1>1. PICK u, v : LoopEffect(d, u, v)
  BY LoopStepEffect
<1>2. /\ StepTaken(Cfg[d], dev[d], u) /\ d \in alive /\ UNCHANGED <<alive, lap>>
      /\ dev' = [dev EXCEPT ![d] = v] /\ alive \subseteq Device
      /\ net' = [r \in Receiver |-> net[r] \cup {p \in u.sent : Hears(d, r, p)}]
      /\ spoken \subseteq spoken'
  BY <1>1 DEF LoopEffect, IInv, TypeOK
<1>3. Spoken(d) /\ Judged(d) /\ Answered(d) /\ Playing(d)
  BY <1>2 DEF Sound
<1>4. SaysTrue(d, u)
  BY <1>2, <1>3, SpeechTrue
<1>5. SpokenAfter(d, u)
  BY <1>1, <1>4, SpeechKept
<1>6. Spoken(d)' /\ Judged(d)' /\ Answered(d)'
  <2>1. Spoken(d)'
    BY <1>1, <1>3, <1>4, <1>5, SpokenKept
  <2>2. Judged(d)'
    BY <1>1, <1>3, <1>4, <1>5, JudgedKept
  <2>3. Answered(d)'
    BY <1>1, <1>3, AnsweredKept
  <2> QED BY <2>1, <2>2, <2>3
<1>7. ASSUME NEW e \in Device, e # d
      PROVE  Spoken(e)' /\ Judged(e)' /\ (Answered(e) => Answered(e)')
  <2>1. dev'[e] = dev[e]
    BY <1>2, <1>7 DEF IInv, TypeOK
  <2>2. Spoke(e) => Spoke(e)'
    BY <1>2 DEF Spoke
  <2>3. Spoken(e)'
    BY <1>2, <1>7, <2>1, <2>2 DEF Sound, Spoken
  <2>4. Judged(e)'
    <3>1. Judged(e) /\ \A a : HeardOf(a) => HeardOf(a)'
      BY <1>5 DEF Sound, SpokenAfter
    <3>2. \A n : Sibling(e, n)' = Sibling(e, n)
      BY DEF Sibling
    <3> QED BY <1>2, <2>1, <3>1, <3>2 DEF Judged
  <2>5. Answered(e) => Answered(e)'
    BY <1>2, <2>1 DEF Answered
  <2> QED BY <2>3, <2>4, <2>5
<1>8. ToldTrue'
  BY <1>2, <1>4 DEF Sound, ToldTrue, SaysTrue
<1>9. ASSUME NEW e \in alive PROVE Playing(e)'
  <2>1. e \in Device /\ Playing(e)
    BY <1>2
  <2>2. CASE e = d
    BY <1>1, <1>3, <1>4, <1>5, <2>1, <2>2, SelfPlays
  <2>3. CASE e # d
    BY <1>1, <1>4, <1>5, <2>1, <2>3, OthersPlay
  <2> QED BY <2>2, <2>3
<1>10. Sound'
  <2>1. \A e \in Device : Spoken(e)' /\ Judged(e)'
    BY <1>6, <1>7
  <2>2. \A e \in alive' : Answered(e)'
    BY <1>2, <1>6, <1>7 DEF Sound
  <2> QED BY <1>8, <2>1, <2>2 DEF Sound
<1> QED BY <1>2, <1>9, <1>10

LEMMA ReceiveSound ==
  ASSUME OneLayer, Calm, IInv, Settled, Truthful, Sound, NEW d \in Device,
         Receive(d), lap.run = 1, \A e \in alive : Playing(e)
  PROVE  Sound' /\ \A e \in alive' : Playing(e)'
<1>1. PICK p, u : PacketEffect(d, p, u)
  BY ReceiveEffect
<1>2. /\ PacketTaken(Cfg[d], dev[d], p, u) /\ d \in alive /\ UNCHANGED <<alive, lap, spoken>>
      /\ dev' = [dev EXCEPT ![d] = u] /\ alive \subseteq Device /\ Deliver(d, p)
  BY <1>1 DEF PacketEffect, IInv, TypeOK
<1>3. net' = [net EXCEPT ![d] = @ \ {p}]
  <2>1. ~(faults.stray < MaxStray)
    BY DEF IInv, TypeOK, Calm
  <2> QED BY <1>2, <2>1 DEF Deliver
<1>4. \A e \in Device : e # d => dev'[e] = dev[e] /\ net'[e] = net[e]
  BY <1>2, <1>3 DEF IInv, TypeOK, Receiver
<1>5. dev'[d] = u /\ \A r \in Receiver : net'[r] \subseteq net[r]
  BY <1>2, <1>3 DEF IInv, TypeOK, Receiver
<1>6. Unjudging(dev[d].standby, u.standby) /\ u.retx = dev[d].retx
      /\ u.ownOutputSent = dev[d].ownOutputSent /\ u.sched.state = dev[d].sched.state
      /\ (u.responder.pending => dev[d].responder.pending \/ dev[d].ownOutputSent)
      /\ (dev[d].standby.targetObserved => u.standby.targetObserved)
  BY <1>2 DEF PacketTaken
<1>7. \A a : Spoke(a)' <=> Spoke(a)
  BY <1>2 DEF Spoke
<1>8. \A a : HeardOf(a)' <=> HeardOf(a)
  BY <1>2 DEF HeardOf
<1>9. ASSUME NEW e \in Device PROVE Spoken(e)' /\ Judged(e)'
  <2>1. Spoken(e) /\ Judged(e)
    BY DEF Sound
  <2>2. Spoken(e)'
    BY <1>2, <1>4, <1>5, <1>6, <1>7, <2>1 DEF Spoken
  <2>3. Judged(e)'
    BY <1>2, <1>4, <1>5, <1>6, <1>8, <2>1 DEF Judged, Unjudging, Sibling
  <2> QED BY <2>2, <2>3
<1>10. ASSUME NEW e \in alive PROVE Answered(e)'
  BY <1>2, <1>4, <1>5, <1>6 DEF Sound, Answered, Unjudging
<1>11. ToldTrue'
  BY <1>2, <1>5 DEF Sound, ToldTrue
<1>12. ASSUME NEW e \in alive PROVE Playing(e)'
  <2>1. e \in Device /\ Playing(e)
    BY <1>2
  <2>2. CASE e = d
    BY <1>1, <1>3, <2>1, <2>2, HandedPlays
  <2>3. CASE e # d
    <3>1. dev'[e] = dev[e] /\ net'[e] = net[e] /\ alive' = alive
      BY <1>2, <1>4, <2>1, <2>3
    <3> QED BY <1>7, <1>8, <2>1, <3>1 DEF Playing, Unspoken, Patient, KeepsTurn,
              Finished, Watching, Received, Arriving, Sibling, Injected, Listens
  <2> QED BY <2>2, <2>3
<1> QED BY <1>2, <1>9, <1>10, <1>11, <1>12 DEF Sound

LEMMA TickSound ==
  ASSUME OneLayer, Calm, IInv, Settled, Sound, Tick,
         lap.run = 1, \A e \in alive : Playing(e)
  PROVE  Sound' /\ \A e \in alive' : Playing(e)'
<1>1. /\ Quiet /\ UNCHANGED <<alive, net, spoken>> /\ lap'.reports = lap.reports
      /\ alive \subseteq Device
      /\ \A d \in Device : IF d \in alive THEN TimePassed(Cfg[d], dev[d], dev'[d])
                           ELSE dev'[d] = dev[d]
  BY TickEffect, TickQuiet DEF IInv, TypeOK
<1>2. \A e \in alive : Spoken(e) /\ Playing(e)
  BY <1>1 DEF Sound
<1>3. ASSUME NEW e \in Device PROVE Spoken(e)' /\ Judged(e)'
  <2>1. Spoken(e) /\ Judged(e) /\ (dev'[e] = dev[e] \/ TimePassed(Cfg[e], dev[e], dev'[e]))
    BY <1>1 DEF Sound
  <2>2. (Spoke(e)' <=> Spoke(e)) /\ \A a : HeardOf(a)' <=> HeardOf(a)
    BY <1>1 DEF Spoke, HeardOf
  <2>3. Spoken(e)'
    BY <1>1, <2>1, <2>2 DEF Spoken, TimePassed
  <2>4. Judged(e)'
    BY <1>1, <2>1, <2>2 DEF Judged, TimePassed, Sibling
  <2> QED BY <2>3, <2>4
<1>4. ASSUME NEW e \in alive PROVE Answered(e)'
  <2>1. e \in Device /\ Judged(e) /\ TimePassed(Cfg[e], dev[e], dev'[e])
    BY <1>1 DEF Sound
  <2>2. dev[e].standby.resendRequested /\ Cfg[e].target \in alive =>
          dev[e].standby.targetObserved
    BY <1>1, <1>2, <2>1, TickAnswers
  <2> QED BY <1>1, <2>1, <2>2 DEF Answered, TimePassed
<1>5. ToldTrue'
  BY <1>1 DEF Sound, ToldTrue
<1>6. \A e \in alive' : Playing(e)'
  BY <1>1, <1>2, TickPlays
<1> QED BY <1>1, <1>3, <1>4, <1>5, <1>6 DEF Sound

(* Deaths, losses and the laptop.                                          *)
Bystanding ==
  /\ UNCHANGED <<dev, spoken>> /\ alive' \subseteq alive
  /\ \A d \in alive' : net'[d] = net[d]
  /\ \A r \in Receiver : net'[r] \subseteq net[r]
  /\ lap'.run = lap.run
  /\ \A r \in lap'.reports :
       r \in lap.reports \/ \E p \in net[Laptop] : Report(p) /\ r.failed = p.about

LEMMA BystandingSound ==
  ASSUME IInv, Sound, Bystanding, lap.run = 1, \A e \in alive : Playing(e)
  PROVE  Sound' /\ \A e \in alive' : Playing(e)'
<1>1. /\ UNCHANGED <<dev, spoken>> /\ alive' \subseteq alive /\ alive \subseteq Device
      /\ \A r \in Receiver : net'[r] \subseteq net[r]
  BY DEF Bystanding, IInv, TypeOK
<1>2. (\A a : Spoke(a)' <=> Spoke(a)) /\ (\A a : HeardOf(a)' <=> HeardOf(a))
  BY <1>1 DEF Spoke, HeardOf
<1>3. ASSUME NEW e \in Device PROVE Spoken(e)' /\ Judged(e)'
  BY <1>1, <1>2 DEF Sound, Spoken, Judged, Sibling
<1>4. ASSUME NEW e \in alive' PROVE Answered(e)'
  BY <1>1 DEF Sound, Answered
<1>5. ToldTrue'
  BY <1>1 DEF Bystanding, Sound, ToldTrue, Receiver
<1>6. ASSUME NEW e \in alive' PROVE Playing(e)'
  <2>1. dev'[e] = dev[e] /\ net'[e] = net[e] /\ Playing(e)
    BY <1>1 DEF Bystanding
  <2>2. KeepsTurn(e) => KeepsTurn(e)'
    BY <1>1, <1>2, <2>1 DEF KeepsTurn, Sibling
  <2> QED BY <1>2, <2>1, <2>2 DEF Playing, Unspoken, Patient, Finished, Watching,
            Received, Arriving, Injected, Listens
<1> QED BY <1>3, <1>4, <1>5, <1>6 DEF Sound

LEMMA OthersBystand ==
  ASSUME Calm, IInv, [Next]_vars
  PROVE  Bystanding \/ StartRun \/ Tick \/ \E d \in Device : Receive(d) \/ LoopStep(d)
<1>1. ASSUME NEW d \in Device, Crash(d) PROVE Bystanding
  BY <1>1 DEF Crash, Bystanding, IInv, TypeOK, Receiver
<1>2. ASSUME NEW r \in Receiver, Lose(r) PROVE Bystanding
  <2>1. r \notin Device
    BY <1>2 DEF Lose, Calm
  <2> QED BY <1>2, <2>1 DEF Lose, Bystanding, IInv, TypeOK, Receiver
<1>3. CASE LaptopReceive
  <2>1. PICK p \in net[Laptop] : Deliver(Laptop, p)
                                 /\ lap' = IF lap.phase = "idle" THEN lap ELSE Absorb(p)
    BY <1>3 DEF LaptopReceive
  <2>2. lap \in Client
    BY DEF IInv, TypeOK
  <2>3. /\ Absorb(p).run = lap.run
        /\ \A r \in Absorb(p).reports :
             r \in lap.reports \/ (Report(p) /\ r.failed = p.about)
    BY <2>2 DEF Absorb, Client
  <2>4. /\ \A d \in alive : net'[d] = net[d]
        /\ \A r \in Receiver : net'[r] \subseteq net[r]
    BY <2>1, LaptopAssumption DEF Deliver, IInv, TypeOK, Receiver
  <2> QED BY <1>3, <2>1, <2>3, <2>4 DEF LaptopReceive, Bystanding
<1>4. CASE StopWaiting \/ FinishRun
  BY <1>4 DEF StopWaiting, FinishRun, Bystanding, IInv, TypeOK, Client
<1>5. CASE UNCHANGED vars
  BY <1>5 DEF vars, Bystanding
<1> QED BY <1>1, <1>2, <1>3, <1>4, <1>5 DEF Next

LEMMA StartSound ==
  ASSUME OneLayer, Calm, IInv, Settled, AtRest, StartRun
  PROVE  /\ Sound' /\ lap'.run = 1
         /\ \A e \in alive' : Playing(e)'
<1>1. lap.run = 0 /\ lap'.run = 1
  BY RunAssumption DEF StartRun, Calm, IInv, TypeOK, Client
<1>2. /\ UNCHANGED <<dev, alive>> /\ lap'.reports = {} /\ alive \subseteq Device
  BY DEF StartRun, IInv, TypeOK
<1>3. \A d \in Device : Resting(dev[d])
  BY <1>1 DEF AtRest
<1>4. ASSUME NEW r \in Receiver, NEW p \in net'[r] PROVE ~Report(p)
  <2>1. net[r] = {}
    BY <1>1 DEF AtRest
  <2>2. PICK i \in Inputs : p = [DataPacket(Source(i), "none", {lap.run + 1})
                                   EXCEPT !.group = 1]
    BY <1>4, <2>1 DEF StartRun, Multicast
  <2> QED BY <2>2 DEF DataPacket, Report
<1>5. ToldTrue'
  BY <1>2, <1>4 DEF ToldTrue
<1>6. ASSUME NEW d \in Device PROVE Spoken(d)' /\ Judged(d)' /\ Answered(d)'
  BY <1>2, <1>3 DEF Spoken, Judged, Answered, Resting
<1>7. \A e \in alive' : Playing(e)'
  BY <1>1, <1>2, FirstPlays
<1> QED BY <1>1, <1>2, <1>5, <1>6, <1>7 DEF Sound

LEMMA LayerInit == OneLayer /\ Init => LayerInv
<1> SUFFICES ASSUME OneLayer, Init PROVE LayerInv
  OBVIOUS
<1>1. AskInv /\ lap.run = 0
  BY AskInit, OneLayerFed DEF Init
<1>2. /\ lap.reports = {} /\ \A r \in Receiver : net[r] = {}
      /\ \A d \in Device : Resting(dev[d])
  BY <1>1 DEF AskInv, AtRest
<1>3. ToldTrue
  BY <1>2 DEF ToldTrue
<1>4. ASSUME NEW d \in Device PROVE Spoken(d) /\ Judged(d) /\ Answered(d)
  BY <1>2 DEF Spoken, Judged, Answered, Resting
<1>5. alive \subseteq Device
  BY DEF Init
<1> QED BY <1>1, <1>3, <1>4, <1>5 DEF LayerInv, Sound

LEMMA LayerStep ==
  ASSUME OneLayer, Calm, IInv, IInv', LayerInv, [Next]_vars
  PROVE  LayerInv'
<1>1. /\ FedByLaptop /\ Runs <= 1 /\ Settled /\ AtRest /\ Truthful /\ Sound
      /\ lap.run = 1 => \A d \in alive : Playing(d)
  BY OneLayerFed DEF LayerInv, AskInv, Calm
<1>2. AskInv'
  BY <1>1, SettledStep, AtRestStep, TruthfulStep DEF AskInv
<1>3. lap.run \in 0..1 /\ lap'.run \in 0..1 /\ alive' \subseteq Device
  BY <1>1, RunAssumption DEF IInv, TypeOK, Client
<1>4. CASE lap'.run = 0
  BY <1>2, <1>3, <1>4, RestIsSound DEF AskInv, LayerInv
<1>5. CASE lap'.run = 1
  <2>1. Sound' /\ \A e \in alive' : Playing(e)'
    <3>1. CASE StartRun
      BY <1>1, <3>1, StartSound
    <3>2. CASE lap.run = 1
      <4>1. \A e \in alive : Playing(e)
        BY <1>1, <3>2
      <4>2. CASE Bystanding
        BY <1>1, <3>2, <4>1, <4>2, BystandingSound
      <4>3. CASE Tick
        BY <1>1, <3>2, <4>1, <4>3, TickSound
      <4>4. ASSUME NEW d \in Device, Receive(d)
            PROVE  Sound' /\ \A e \in alive' : Playing(e)'
        BY <1>1, <3>2, <4>1, <4>4, ReceiveSound
      <4>5. ASSUME NEW d \in Device, LoopStep(d)
            PROVE  Sound' /\ \A e \in alive' : Playing(e)'
        BY <1>1, <3>2, <4>1, <4>5, LoopSound
      <4>6. ~StartRun
        BY <1>1, <3>2, RunAssumption DEF StartRun
      <4> QED BY <4>2, <4>3, <4>4, <4>5, <4>6, OthersBystand
    <3>3. CASE ~StartRun /\ lap.run = 0
      <4>1. lap'.run = lap.run
        <5>1. CASE Bystanding
          BY <5>1 DEF Bystanding
        <5>2. CASE Tick
          BY <5>2, TickEffect
        <5>3. ASSUME NEW d \in Device, Receive(d) \/ LoopStep(d)
              PROVE  lap'.run = lap.run
          BY <5>3 DEF Receive, LoopStep
        <5> QED BY <3>3, <5>1, <5>2, <5>3, OthersBystand
      <4> QED BY <1>5, <3>3, <4>1
    <3> QED BY <1>3, <3>1, <3>2, <3>3
  <2> QED BY <1>2, <2>1 DEF LayerInv
<1> QED BY <1>3, <1>4, <1>5

(* In a network of one layer, of any size and with any backup roles, the   *)
(* run is played as the firmware means it to be, whatever devices die and  *)
(* whenever: no pass times out before its turn, no turn is released while  *)
(* the siblings before it live, and every request to a live target is      *)
(* answered within a tick.                                                 *)
THEOREM PlayedInStep == OneLayer /\ Calm => (Spec => []LayerInv)
<1> SUFFICES ASSUME OneLayer, Calm PROVE Spec => []LayerInv
  OBVIOUS
<1>1. Init => LayerInv
  BY LayerInit
<1>2. IInv /\ IInv' /\ LayerInv /\ [Next]_vars => LayerInv'
  BY LayerStep
<1> QED BY <1>1, <1>2, Invariance, PTL DEF Spec

(* Nobody but the target is given a voice that it had not.                 *)
LEMMA VoiceGiven ==
  ASSUME OneLayer, IInv, NEW d \in Device, Spoken(d), NEW u, NEW v, LoopEffect(d, u, v),
         NEW w \in spoken', w \notin spoken
  PROVE  /\ w.by = d
         /\ \/ w.as = d /\ TakesTurn(Cfg[d], dev[d])
            \/ w.as = Cfg[d].target /\ Judges(Cfg[d], dev[d])
<1>1. /\ spoken' = spoken \cup Speech(d, u.sent) /\ StepTaken(Cfg[d], dev[d], u)
      /\ u.sent \subseteq Packet
  BY DEF LoopEffect
<1>2. PICK p \in u.sent : p.type = "DATA" /\ w = [by |-> d, as |-> p.src]
  BY <1>1 DEF Speech
<1>3. w.by = d /\ w.as = p.src /\ Cfg[d].addr = d
  BY <1>2 DEF OneLayer
<1>4. ASSUME NEW k \in Slot, Again(dev[d].retx[k], p) PROVE FALSE
  <2>1. PICK q : q = dev[d].retx[k].pkt
    OBVIOUS
  <2>2. dev[d].retx[k].left > 0 /\ p = [q EXCEPT !.copy = Copies - dev[d].retx[k].left]
    BY <1>4, <2>1 DEF Again
  <2>3. q \in Packet
    BY <2>1, <2>2 DEF IInv, DeviceInv, SlotsLoaded
  <2>4. p.src = q.src /\ p.type = q.type
    BY <2>2, <2>3 DEF Packet
  <2>5. [by |-> d, as |-> q.src] \in spoken
    BY <1>2, <2>1, <2>2, <2>4 DEF Spoken
  <2> QED BY <1>2, <2>4, <2>5
<1>5. MaySend(Cfg[d], dev[d], p)
  BY <1>1 DEF StepTaken
<1>6. dev[d].responder.pending => Spoke(d)
  BY DEF Spoken
<1>7. p.src = d => ~Spoke(d)
  BY <1>2 DEF Spoke
<1> QED BY <1>2, <1>3, <1>4, <1>5, <1>6, <1>7 DEF MaySend

LEMMA VoicesStay ==
  ASSUME OneLayer, IInv, LayerInv, OnlyTheDeadReplaced, [Next]_vars
  PROVE  OnlyTheDeadReplaced'
<1>1. ASSUME NEW d \in Device, LoopStep(d) PROVE OnlyTheDeadReplaced'
  <2>1. Settled /\ Spoken(d) /\ Judged(d) /\ \A e \in alive : Answered(e)
    BY DEF LayerInv, AskInv, Sound
  <2>2. PICK u, v : LoopEffect(d, u, v)
    BY <1>1, <2>1, LoopStepEffect
  <2>3. SaysTrue(d, u) /\ alive' = alive
    BY <2>1, <2>2, SpeechTrue DEF LoopEffect
  <2>4. ASSUME NEW w \in spoken', w.by # w.as PROVE w.as \notin alive
    <3>1. CASE w \in spoken
      BY <2>4, <3>1 DEF OnlyTheDeadReplaced
    <3>2. CASE w \notin spoken
      <4>1. w.as = Cfg[d].target /\ Judges(Cfg[d], dev[d])
        BY <2>1, <2>2, <2>4, <3>2, VoiceGiven
      <4> QED BY <2>3, <4>1 DEF SaysTrue
    <3> QED BY <3>1, <3>2
  <2> QED BY <2>3, <2>4 DEF OnlyTheDeadReplaced
<1>2. CASE spoken' \subseteq spoken /\ alive' \subseteq alive
  BY <1>2 DEF OnlyTheDeadReplaced
<1> QED BY <1>1, <1>2 DEF Next, vars, Receive, Crash, Lose, StartRun, LaptopReceive,
           StopWaiting, FinishRun, Tick

(* Nobody speaks for a sibling that is alive, before it has spoken itself  *)
(* or after: in a network of one layer, of any size and with any roles,    *)
(* whatever devices die and whenever, a standby's grace runs out only for  *)
(* a target that is dead (NNBackupStandby::tick).                          *)
THEOREM LiveNotReplaced == OneLayer /\ Calm => (Spec => []OnlyTheDeadReplaced)
<1> SUFFICES ASSUME OneLayer, Calm PROVE Spec => []OnlyTheDeadReplaced
  OBVIOUS
<1>1. Init => OnlyTheDeadReplaced
  BY DEF Init, OnlyTheDeadReplaced
<1>2. IInv /\ LayerInv /\ OnlyTheDeadReplaced /\ [Next]_vars => OnlyTheDeadReplaced'
  BY VoicesStay
<1> QED BY <1>1, <1>2, PlayedInStep, Invariance, PTL DEF Spec

(* Nor is it named as failed to the laptop, by any copy of any report      *)
(* (buildFailoverReport, runtime.py).                                      *)
THEOREM LiveNotReported == OneLayer /\ Calm => (Spec => []ReportsTrue)
<1> SUFFICES ASSUME OneLayer, Calm PROVE Spec => []ReportsTrue
  OBVIOUS
<1>1. LayerInv => ReportsTrue
  BY DEF LayerInv, Sound, ToldTrue, ReportsTrue
<1> QED BY <1>1, PlayedInStep, PTL

(* Who speaks takes its turn.                                              *)
LEMMA SpeaksInTurn ==
  ASSUME OneLayer, Calm, IInv, LayerInv, [Next]_vars, NEW d \in alive,
         Spoke(d)', ~Spoke(d), \A n \in Cfg[d].preceding : Sibling(d, n) \in alive
  PROVE  \A n \in Cfg[d].preceding : HeardOf(Sibling(d, n))
<1> DEFINE c == Cfg[d]
           s == dev[d]
<1>1. /\ d \in Device /\ Spoken(d) /\ Judged(d) /\ Answered(d) /\ Settled /\ AtRest
      /\ lap.run = 1 => Playing(d)
  BY DEF LayerInv, Sound, AskInv, IInv, TypeOK
<1>2. PICK e \in Device : LoopStep(e)
  <2>1. ~(spoken' \subseteq spoken)
    BY DEF Spoke
  <2> QED BY <2>1 DEF Next, vars, Receive, Crash, Lose, StartRun, LaptopReceive,
          StopWaiting, FinishRun, Tick
<1>3. PICK u, v : LoopEffect(e, u, v)
  BY <1>1, <1>2, LoopStepEffect
<1>4. StepTaken(Cfg[e], dev[e], u) /\ e \in alive /\ Spoken(e) /\ Judged(e) /\ Answered(e)
  BY <1>3 DEF LoopEffect, LayerInv, Sound
<1>5. SpokenAfter(e, u)
  <2>1. SaysTrue(e, u)
    BY <1>4, SpeechTrue
  <2> QED BY <1>3, <2>1, SpeechKept
<1>6. e = d /\ TakesTurn(c, s)
  BY <1>1, <1>5 DEF SpokenAfter
<1>7. lap.run = 1
  <2>1. lap.run \in 0..1
    BY RunAssumption DEF IInv, TypeOK, Client, Calm
  <2>2. lap.run # 0
    BY <1>1, <1>6 DEF AtRest, Resting, TakesTurn
  <2> QED BY <2>1, <2>2
<1>8. c.preceding \subseteq s.sched.observed /\ KeepsTurn(d)
  BY <1>1, <1>6, <1>7 DEF Playing, TakesTurn, TurnGranted
<1> QED BY <1>8 DEF KeepsTurn

(* Siblings speak in the order of their node ids: while those before it    *)
(* live, no device is granted its turn, nor released from it by the stall  *)
(* timeout, before each of them has been heard of (NNScheduler::tick,      *)
(* maybeReleaseStalledTurn).                                               *)
THEOREM TurnsInOrder == OneLayer /\ Calm => (Spec => TurnOrder)
<1> SUFFICES ASSUME OneLayer, Calm PROVE Spec => TurnOrder
  OBVIOUS
<1> DEFINE InTurn == \A d \in alive :
             /\ Spoke(d)' /\ ~Spoke(d)
             /\ \A n \in Cfg[d].preceding : Sibling(d, n) \in alive
             => \A n \in Cfg[d].preceding : HeardOf(Sibling(d, n))
<1>1. IInv /\ LayerInv /\ [Next]_vars => [InTurn]_vars
  BY SpeaksInTurn
<1>2. TurnOrder <=> [][InTurn]_vars
  BY DEF TurnOrder
<1> HIDE DEF InTurn
<1> QED BY <1>1, <1>2, PlayedInStep, Invariance, PTL DEF Spec

-----------------------------------------------------------------------------
(* A layer that survives its faults: nothing is lost, one device at most   *)
(* dies and one that may is backed by a sibling, whose standby was         *)
(* provisioned as build_devices does it; the laptop hears the layer and its*)
(* reports; and no timeout is over before a turn and a grace period are.   *)
Covered ==
  /\ Lossy = {} /\ MaxCrash <= 1
  /\ \A d \in Mortal \cap Device : \E b \in Device :
       IsStandby(Cfg[b]) /\ Cfg[b].target = d
  /\ \A b \in Device : IsStandby(Cfg[b]) =>
       /\ MirrorsOwnInputs(Cfg[b])
       /\ StallTicks + Cfg[b].grace < IdleTicks
       /\ StallTicks + Cfg[b].grace < LapTicks
  /\ DiagGroup \in LapGroups /\ \A d \in Device : Cfg[d].succ \in LapGroups
  /\ Expected \subseteq Device /\ StallTicks < LapTicks

(* A network that build_devices accepts survives so if every node that may *)
(* die has a backup, the laptop joins the groups it always joins and waits *)
(* for the layer, and the timeouts are apart.                              *)
THEOREM BuiltCovered ==
  ASSUME NEW network, NEW seed, NEW noSeed, Built(network, seed, noSeed),
         Lossy = {}, MaxCrash <= 1,
         \A d \in Mortal \cap Device : \E n \in DOMAIN network.layers[1].backups :
           AddressOf(1, n) \in Device /\ network.layers[1].backups[n] = d.node,
         Expected = Device, LapGroups = {2, DiagGroup}, StallTicks < LapTicks,
         StallTicks + network.layers[1].grace < IdleTicks,
         StallTicks + network.layers[1].grace < LapTicks
  PROVE  Covered
<1> DEFINE backups == network.layers[1].backups
<1>1. ASSUME NEW d \in Device
      PROVE  /\ d = AddressOf(1, d.node) /\ d.layer = 1
             /\ Cfg[d] = ComputeConfig(network, d, noSeed)
  BY BuiltDevices
<1>2. ASSUME NEW d \in Device
      PROVE  Cfg[d].succ = 2 /\ Cfg[d].hasRole = (d.node \in DOMAIN backups)
  BY <1>1 DEF ComputeConfig, PredecessorCount, Built
<1>3. ASSUME NEW d \in Device, d.node \in DOMAIN backups
      PROVE  /\ Cfg[d].target = AddressOf(1, backups[d.node])
             /\ Cfg[d].tpred = Cfg[d].pred /\ Cfg[d].tpredLayer = Cfg[d].predLayer
             /\ Cfg[d].grace = network.layers[1].grace
  BY <1>1, <1>3 DEF ComputeConfig, PredecessorCount, Built
<1>4. OneLayer
  BY BuiltOneLayer
<1>5. ASSUME NEW d \in Mortal \cap Device
      PROVE  \E b \in Device : IsStandby(Cfg[b]) /\ Cfg[b].target = d
  <2>1. PICK n \in DOMAIN backups : AddressOf(1, n) \in Device /\ backups[n] = d.node
    OBVIOUS
  <2>2. PICK b \in Device : b.node = n
    BY <2>1 DEF AddressOf
  <2>3. Cfg[b].hasRole /\ Cfg[b].target = AddressOf(1, d.node) /\ d = AddressOf(1, d.node)
    BY <1>1, <1>2, <1>3, <2>1, <2>2
  <2>4. /\ Cfg[b].addr = b /\ b.layer = 1 /\ d.layer = 1
        /\ Cfg[b].roster = {e.node : e \in Device}
    BY <1>4, <2>3 DEF OneLayer
  <2> QED BY <2>3, <2>4 DEF IsStandby
<1>6. ASSUME NEW b \in Device, IsStandby(Cfg[b])
      PROVE  /\ MirrorsOwnInputs(Cfg[b])
             /\ StallTicks + Cfg[b].grace < IdleTicks
             /\ StallTicks + Cfg[b].grace < LapTicks
  <2>1. b.node \in DOMAIN backups
    BY <1>2, <1>6 DEF IsStandby
  <2>2. MirrorsOwnInputs(Cfg[b])
    <3>1. Cfg[b].target.layer = 1 /\ Cfg[b].predLayer = 0
      BY <1>4, <1>6 DEF OneLayer, IsStandby
    <3> QED BY <1>3, <2>1, <3>1 DEF MirrorsOwnInputs
  <2>3. Cfg[b].grace = network.layers[1].grace
    BY <1>3, <2>1
  <2> QED BY <2>2, <2>3
<1> QED BY <1>2, <1>5, <1>6 DEF Covered

Obtained(a) == \E x \in lap.answers : x.key = a
Filed(s) == \E r \in lap.reports : r.failed = s.as /\ r.backup = s.by
Announced(s) == \E p \in net[Laptop] : Report(p) /\ p.about = s.as /\ p.src = s.by

(* The laptop has what was said in this run, or will have it.              *)
Delivered == \A a \in Device : HeardOf(a) => Obtained(a) \/ Arriving(Laptop, a)
Reported == \A s \in spoken : s.by # s.as => Filed(s) \/ Announced(s)

(* Nobody tells the laptop to give the run up.                             *)
Encouraging ==
  /\ ~lap.aborted
  /\ \A p \in net[Laptop] : Report(p) => p.flag = "substitute"
  /\ \A d \in Device : \A k \in Slot :
       dev[d].retx[k].left > 0 /\ Report(dev[d].retx[k].pkt) =>
         dev[d].retx[k].pkt.flag = "substitute"

OneDeath ==
  /\ faults.crash = 0 => alive = Device
  /\ \A d \in Device \ alive : d \in Mortal
  /\ \A d, e \in Device \ alive : d = e

(* A standby has stood down only for what was said.                        *)
Knowing(d) ==
  /\ dev[d].standby.waited <= Cfg[d].grace
  /\ IsStandby(Cfg[d]) /\ (dev[d].targetSeen \/ dev[d].standby.targetObserved
                            \/ dev[d].standby.resolved) => HeardOf(Cfg[d].target)

(* A device that is yet to speak has stalled for as long as the laptop has *)
(* waited.                                                                 *)
OnTime(d) ==
  /\ lap.waited <= StallTicks
  /\ dev[d].stallArmed => dev[d].stalled = lap.waited
  /\ lap.waited > 0 => /\ dev[d].sched.state = "WAITING_FOR_TURN"
                       /\ dev[d].stallArmed \/ TurnGranted(Cfg[d], dev[d].sched)
  /\ Received(d) # {} => dev[d].idle <= lap.waited

(* The standby of a target that is yet to be heard of follows the round,   *)
(* and its grace runs from the last stall.                                 *)
Following(b) ==
  /\ \A e \in Device \ {b} : HeardOf(e) =>
       e.node \in dev[b].standby.layerObserved \/ Arriving(b, e)
  /\ Spoke(b) => dev[b].sched.state = "TRANSMITTED" /\ dev[b].idle <= lap.waited
  /\ Cfg[b].target \notin alive /\ lap.waited > StallTicks =>
       /\ dev[b].standby.resendRequested
       /\ lap.waited <= StallTicks + dev[b].standby.waited

Prompt ==
  /\ \A d \in alive : ~Spoke(d) => OnTime(d)
  /\ \A b \in alive : IsStandby(Cfg[b]) /\ ~HeardOf(Cfg[b].target) => Following(b)
  /\ lap.waited >= LapTicks => Complete

(* The state of a layer whose run the laptop waits for.                    *)
DeadlineInv ==
  /\ lap.run = 0 => lap.phase = "idle"
  /\ Encouraging /\ OneDeath /\ \A d \in Device : Knowing(d)
  /\ lap.phase # "idle" => Delivered /\ Reported
  /\ lap.phase = "waiting" => Prompt
  /\ lap.phase = "draining" => Complete

-----------------------------------------------------------------------------
(* DeadlineInv is inductive.  A loop iteration, with what it says and what *)
(* its standby decides.                                                    *)
Iterated(d, u, v) ==
  /\ LoopEffect(d, u, v) /\ SaysTrue(d, u) /\ SpokenAfter(d, u)
  /\ StepWatched(Cfg[d], dev[d], u)
  /\ v.targetSeen = u.targetSeen

LEMMA LoopIterated ==
  ASSUME OneLayer, Covered, IInv, LayerInv, NEW d \in Device, LoopStep(d)
  PROVE  \E u, v : Iterated(d, u, v)
<1>1. /\ Settled /\ Spoken(d) /\ Judged(d) /\ (d \in alive => Answered(d))
  BY DEF LayerInv, AskInv, Sound
<1>2. PICK u, v : LoopEffect(d, u, v)
  BY <1>1, LoopStepEffect
<1>3. SaysTrue(d, u)
  BY <1>1, <1>2, SpeechTrue DEF LoopEffect
<1>4. SpokenAfter(d, u)
  BY <1>2, <1>3, SpeechKept
<1>5. /\ DeviceInv(Cfg[d], dev[d]) /\ Cfg[d] \in Configuration
      /\ HandedOver(dev[d]) /\ Unresolved(dev[d].standby)
  BY <1>1, ConfigurationOf DEF IInv, Settled
<1>6. u = RuntimeStep(Cfg[d], dev[d]) /\ v = [u EXCEPT !.sent = {}]
  BY <1>2 DEF LoopEffect
<1>7. Relieved(Cfg[d])
  BY DEF Covered, Relieved
<1>8. StepWatched(Cfg[d], dev[d], u)
  BY <1>5, <1>6, <1>7, WatchDone
<1>9. u \in DeviceState
  BY <1>5, <1>6, RuntimeStepInv DEF DeviceInv
<1>10. v.targetSeen = u.targetSeen
  BY <1>6, <1>9 DEF DeviceState
<1> QED BY <1>2, <1>3, <1>4, <1>8, <1>10 DEF Iterated

(* A verdict is heard by all, and its report by the laptop.                *)
LEMMA VerdictHeard ==
  ASSUME OneLayer, IInv, NEW d \in Device, NEW u, NEW v, Iterated(d, u, v),
         Judges(Cfg[d], dev[d])
  PROVE  /\ HeardOf(Cfg[d].target)'
         /\ \E p \in u.sent : /\ Report(p) /\ p.group = DiagGroup
                             /\ p.src = d /\ p.about = Cfg[d].target
<1>1. Substituted(Cfg[d], u.sent)
  BY DEF Iterated, StepWatched
<1>2. PICK p \in u.sent : p.type = "DATA" /\ p.src = Cfg[d].target
  BY <1>1 DEF Substituted
<1>3. HeardOf(Cfg[d].target)'
  BY <1>2 DEF Iterated, SpokenAfter
<1> QED BY <1>1, <1>3 DEF Substituted, OneLayer

LEMMA KnowingStays ==
  ASSUME OneLayer, IInv, NEW d \in Device, NEW u, NEW v, Iterated(d, u, v), Knowing(d)
  PROVE  Knowing(d)'
<1> DEFINE c == Cfg[d]
           s == dev[d]
<1>1. /\ dev'[d] = v /\ v.standby = u.standby /\ v.targetSeen = u.targetSeen
      /\ c.grace \in Nat
  BY ConfigurationOf DEF Iterated, LoopEffect, SameOthers, IInv, TypeOK, Configuration
<1>2. HeardOf(c.target) \/ Judges(c, s) => HeardOf(c.target)'
  BY VerdictHeard DEF Iterated, SpokenAfter
<1>3. StepWatched(c, s, u)
  BY DEF Iterated
<1>4. CASE /\ PassContinues(c, s, u)
           /\ u.targetSeen => s.targetSeen \/ Judges(c, s)
           /\ u.standby.resolved <=> s.standby.resolved \/ Judges(c, s)
  <2>1. /\ u.standby.targetObserved = s.standby.targetObserved
        /\ u.standby.waited = 0 \/ u.standby.waited = s.standby.waited
    BY <1>4 DEF PassContinues
  <2>2. u.standby.waited <= c.grace
    BY <1>1, <2>1 DEF Knowing
  <2>3. IsStandby(c) /\ (u.targetSeen \/ u.standby.targetObserved \/ u.standby.resolved)
          => HeardOf(c.target)'
    BY <1>2, <1>4, <2>1 DEF Knowing
  <2> QED BY <1>1, <2>2, <2>3 DEF Knowing
<1>5. CASE u.standby = StandbyReset /\ ~u.targetSeen
  BY <1>1, <1>5 DEF Knowing, StandbyReset
<1> QED BY <1>3, <1>4, <1>5 DEF StepWatched

LEMMA LoopTold ==
  ASSUME OneLayer, Covered, IInv, LayerInv, NEW d \in Device, NEW u, NEW v,
         Iterated(d, u, v)
  PROVE  /\ Encouraging => Encouraging'
         /\ Delivered => Delivered'
         /\ Reported => Reported'
<1> DEFINE c == Cfg[d]
           s == dev[d]
<1>1. /\ StepTaken(c, s, u) /\ StepWatched(c, s, u) /\ UNCHANGED <<alive, lap, faults>>
      /\ dev' = [dev EXCEPT ![d] = v] /\ v.retx = u.retx /\ d \in alive
      /\ net' = [r \in Receiver |-> net[r] \cup {p \in u.sent : Hears(d, r, p)}]
      /\ Laptop \in Receiver /\ Spoken(d) /\ SpokenAfter(d, u) /\ SaysTrue(d, u)
      /\ spoken \subseteq spoken'
  BY DEF Iterated, LoopEffect, LayerInv, Sound, Receiver
<1>2. net'[Laptop] = net[Laptop] \cup {p \in u.sent : p.group \in LapGroups}
  BY <1>1 DEF Hears
<1>3. ASSUME Encouraging PROVE Encouraging'
  <2>1. ASSUME NEW k \in Slot, s.retx[k].left > 0, Report(s.retx[k].pkt)
        PROVE  s.retx[k].pkt.flag = "substitute"
    BY <1>3, <2>1 DEF Encouraging
  <2>2. ASSUME NEW p \in u.sent, Report(p) PROVE p.flag = "substitute"
    <3>1. ASSUME NEW k \in Slot, Again(s.retx[k], p) PROVE p.flag = "substitute"
      <4>1. PICK q : q = s.retx[k].pkt
        OBVIOUS
      <4>2. s.retx[k].left > 0 /\ p = [q EXCEPT !.copy = Copies - s.retx[k].left]
        BY <3>1, <4>1 DEF Again
      <4>3. q \in Packet
        BY <4>1, <4>2 DEF IInv, DeviceInv, SlotsLoaded
      <4>4. p.flag = q.flag /\ p.type = q.type
        BY <4>2, <4>3 DEF Packet
      <4> QED BY <2>1, <2>2, <4>1, <4>2, <4>4 DEF Report
    <3>2. Heartening(p) \/ \E k \in Slot : Again(s.retx[k], p)
      BY <1>1 DEF StepWatched
    <3>3. p.flag \in {"none", "substitute", "teardown"}
      BY <1>1 DEF Iterated, LoopEffect, Packet
    <3> QED BY <2>2, <3>1, <3>2, <3>3 DEF Heartening, Report
  <2>3. \A p \in net'[Laptop] : Report(p) => p.flag = "substitute"
    BY <1>2, <1>3, <2>2 DEF Encouraging
  <2>4. ASSUME NEW k \in Slot, u.retx[k].left > 0, Report(u.retx[k].pkt)
        PROVE  u.retx[k].pkt.flag = "substitute"
    BY <1>1, <2>1, <2>2, <2>4 DEF StepTaken
  <2>5. \A e \in Device : \A k \in Slot :
          dev'[e].retx[k].left > 0 /\ Report(dev'[e].retx[k].pkt) =>
            dev'[e].retx[k].pkt.flag = "substitute"
    BY <1>1, <1>3, <2>4 DEF Encouraging, IInv, TypeOK
  <2> QED BY <1>1, <1>3, <2>3, <2>5 DEF Encouraging
<1>4. ASSUME Delivered PROVE Delivered'
  <2> SUFFICES ASSUME NEW a \in Device, HeardOf(a)'
               PROVE  Obtained(a)' \/ Arriving(Laptop, a)'
    BY DEF Delivered
  <2>1. CASE HeardOf(a)
    BY <1>1, <1>2, <1>4, <2>1 DEF Delivered, Obtained, Arriving
  <2>2. CASE ~HeardOf(a)
    <3>1. PICK p \in u.sent : p.type = "DATA" /\ p.src = a
      BY <1>1, <2>2 DEF SpokenAfter
    <3>2. p.group \in LapGroups
      BY <1>1, <3>1 DEF SaysTrue, Covered
    <3> QED BY <1>2, <3>1, <3>2 DEF Arriving
  <2> QED BY <2>1, <2>2
<1>5. ASSUME Reported PROVE Reported'
  <2> SUFFICES ASSUME NEW w \in spoken', w.by # w.as
               PROVE  Filed(w)' \/ Announced(w)'
    BY DEF Reported
  <2>1. CASE w \in spoken
    BY <1>1, <1>2, <1>5, <2>1 DEF Reported, Filed, Announced
  <2>2. CASE w \notin spoken
    <3>1. w.by = d /\ w.as = c.target /\ Judges(c, s)
      BY <1>1, <2>2, VoiceGiven DEF Iterated
    <3>2. PICK p \in u.sent : /\ Report(p) /\ p.group = DiagGroup
                              /\ p.src = d /\ p.about = c.target
      BY <3>1, VerdictHeard
    <3>3. p \in net'[Laptop]
      BY <1>2, <3>2 DEF Covered
    <3> QED BY <3>1, <3>2, <3>3 DEF Announced
  <2> QED BY <2>1, <2>2
<1> QED BY <1>3, <1>4, <1>5

(* The laptop's wait in terms of a silent device.                          *)
LEMMA NotLater ==
  ASSUME OneLayer, Calm, Covered, IInv, Prompt, NEW b \in Device, b \in alive,
         IsStandby(Cfg[b]), ~HeardOf(Cfg[b].target), Knowing(b)
  PROVE  /\ lap.waited <= StallTicks + Cfg[b].grace
         /\ lap.waited < IdleTicks /\ lap.waited < LapTicks
<1> DEFINE c == Cfg[b]
<1>1. /\ lap.waited \in Nat /\ StallTicks \in Nat /\ IdleTicks \in Nat /\ LapTicks \in Nat
      /\ c.grace \in Nat /\ dev[b].standby.waited \in Nat
  BY ConfigurationOf, TicksAssumption, LaptopAssumption
     DEF IInv, TypeOK, Client, Configuration, DeviceState, Standby
<1>2. c.target \in Device /\ ~Spoke(c.target)
  BY DEF IsStandby, OneLayer, HeardOf, Spoke
<1>3. lap.waited <= StallTicks + c.grace
  <2>1. CASE c.target \in alive
    <3>1. lap.waited <= StallTicks
      BY <1>2, <2>1 DEF Prompt, OnTime
    <3> QED BY <1>1, <3>1
  <2>2. CASE c.target \notin alive
    <3>1. /\ dev[b].standby.waited <= c.grace
          /\ lap.waited > StallTicks => lap.waited <= StallTicks + dev[b].standby.waited
      BY <2>2 DEF Prompt, Following, Knowing
    <3> QED BY <1>1, <3>1
  <2> QED BY <2>1, <2>2
<1>4. StallTicks + c.grace < IdleTicks /\ StallTicks + c.grace < LapTicks
  BY DEF Covered
<1> QED BY <1>1, <1>3, <1>4

(* A device that is yet to speak, after an iteration in which it does not. *)
LEMMA LoopOnTime ==
  ASSUME OneLayer, Calm, IInv, NEW d \in Device, d \in alive, NEW u, NEW v,
         Iterated(d, u, v), Spoken(d), Playing(d), ~Spoke(d)', OnTime(d)
  PROVE  OnTime(d)'
<1> DEFINE c == Cfg[d]
           s == dev[d]
<1>1. /\ LoopEffect(d, u, v) /\ SaysTrue(d, u) /\ SpokenAfter(d, u)
  BY DEF Iterated
<1>2. ~Spoke(d) /\ ~TakesTurn(c, s)
  BY <1>1 DEF SpokenAfter
<1>3. PassContinues(c, s, u)
  BY <1>1, <1>2, StillUnspoken
<1>4. /\ dev'[d] = v /\ v.sched = u.sched /\ v.stallArmed = u.stallArmed
      /\ v.stalled = u.stalled /\ v.idle = u.idle /\ lap' = lap
      /\ s.sched \in Scheduler /\ lap.waited \in Nat
  BY <1>1 DEF LoopEffect, SameOthers, IInv, TypeOK, DeviceState, Client
<1>5. /\ u.idle = s.idle /\ u.sched.node.buffer = s.sched.node.buffer
      /\ u.sched.state = SchedulerTick(c, s.sched).state
      /\ Released(c, s) => c.preceding \subseteq u.sched.observed
      /\ u.stallArmed <=> /\ SchedulerTick(c, s.sched).state = "WAITING_FOR_TURN"
                          /\ ~Released(c, s)
      /\ u.stalled = IF u.stallArmed /\ s.stallArmed THEN s.stalled ELSE 0
  BY <1>2, <1>3 DEF PassContinues
<1>6. Received(d)' = Received(d)
  BY <1>4, <1>5 DEF Received
<1>7. ASSUME lap.waited > 0
      PROVE  /\ s.stallArmed /\ u.sched.state = "WAITING_FOR_TURN"
             /\ u.stallArmed \/ TurnGranted(c, u.sched)
  <2>1. s.sched.state = "WAITING_FOR_TURN" /\ (s.stallArmed \/ TurnGranted(c, s.sched))
    BY <1>7 DEF OnTime
  <2>2. s.stallArmed /\ SchedulerTick(c, s.sched) = s.sched
    BY <1>2, <1>4, <2>1 DEF TakesTurn, SchedulerTick
  <2> QED BY <1>5, <2>1, <2>2 DEF TurnGranted
<1>8. u.stallArmed => u.stalled = lap.waited
  BY <1>4, <1>5, <1>7 DEF OnTime
<1> QED BY <1>4, <1>5, <1>6, <1>7, <1>8 DEF OnTime

(* The standby of a target that is still not heard of, after an iteration. *)
LEMMA LoopFollows ==
  ASSUME OneLayer, Calm, Covered, IInv, Prompt, NEW d \in Device, d \in alive,
         NEW u, NEW v, Iterated(d, u, v), Spoken(d), Playing(d), Knowing(d),
         IsStandby(Cfg[d]), ~HeardOf(Cfg[d].target)'
  PROVE  Following(d)'
<1> DEFINE c == Cfg[d]
           s == dev[d]
<1>1. /\ LoopEffect(d, u, v) /\ SaysTrue(d, u) /\ SpokenAfter(d, u)
      /\ StepWatched(c, s, u) /\ StepTaken(c, s, u)
  BY DEF Iterated, LoopEffect
<1>2. ~HeardOf(c.target) /\ ~Judges(c, s)
  BY <1>1, VerdictHeard DEF SpokenAfter
<1>3. Following(d)
  BY <1>2 DEF Prompt
<1>4. /\ dev'[d] = v /\ v.sched = u.sched /\ v.idle = u.idle /\ v.standby = u.standby
      /\ UNCHANGED <<lap, alive>> /\ s.sched \in Scheduler /\ PastInputs(c, s)
      /\ lap.waited \in Nat /\ s.idle \in Nat /\ IdleTicks \in Nat
  BY <1>1, TicksAssumption
     DEF LoopEffect, SameOthers, IInv, TypeOK, DeviceState, Client, DeviceInv
<1>5. ASSUME Spoke(d) \/ TakesTurn(c, s) PROVE s.idle <= lap.waited
  <2>1. CASE Spoke(d)
    BY <1>3, <2>1 DEF Following
  <2>2. CASE ~Spoke(d)
    <3>1. Received(d) # {}
      BY <1>4, <1>5, <2>2 DEF PastInputs, TakesTurn, IsComplete, OneLayer, Received
    <3> QED BY <2>2, <3>1 DEF Prompt, OnTime
  <2> QED BY <2>1, <2>2
<1>6. PassContinues(c, s, u)
  <2>1. CASE Spoke(d) \/ TakesTurn(c, s)
    <3>1. ~(s.idle >= IdleTicks)
      BY <1>2, <1>4, <1>5, <2>1, NotLater
    <3>2. ~s.targetSeen /\ ~s.standby.resolved
      BY <1>2 DEF Knowing
    <3> QED BY <1>1, <1>2, <3>1, <3>2 DEF StepWatched
  <2>2. CASE ~Spoke(d) /\ ~TakesTurn(c, s)
    BY <1>1, <2>2, PassGoesOn DEF Playing
  <2> QED BY <2>1, <2>2
<1>7. ASSUME NEW e \in Device \ {d}, HeardOf(e)'
      PROVE  e.node \in u.standby.layerObserved \/ Arriving(d, e)'
  <2>1. HeardOf(e)
    <3>1. ASSUME ~HeardOf(e) PROVE FALSE
      <4>1. PICK w \in spoken' : w.as = e
        BY <1>7 DEF HeardOf
      <4>2. w \notin spoken
        BY <3>1, <4>1 DEF HeardOf
      <4>3. w.by = d /\ (w.as = d \/ w.as = c.target)
        BY <1>2, <4>1, <4>2, VoiceGiven DEF Iterated
      <4> QED BY <1>2, <1>7, <4>1, <4>3
    <3> QED BY <3>1
  <2>2. e.node \in s.standby.layerObserved \/ Arriving(d, e)
    BY <1>3, <1>7, <2>1 DEF Following
  <2>3. net[d] \subseteq net'[d]
    BY <1>1, InboxAfter
  <2> QED BY <1>6, <2>2, <2>3 DEF PassContinues, Arriving
<1>8. ASSUME Spoke(d)' PROVE u.sched.state = "TRANSMITTED" /\ u.idle <= lap.waited
  <2>1. Spoke(d) \/ TakesTurn(c, s)
    BY <1>1, <1>8 DEF SpokenAfter
  <2>2. CASE TakesTurn(c, s)
    BY <1>5, <1>6, <2>2 DEF PassContinues
  <2>3. CASE ~TakesTurn(c, s)
    <3>1. s.sched.state = "TRANSMITTED"
      BY <1>3, <2>1, <2>3 DEF Following
    <3>2. SchedulerTick(c, s.sched).state = "TRANSMITTED"
      BY <1>4, <3>1 DEF SchedulerTick, Scheduler
    <3> QED BY <1>5, <1>6, <2>1, <2>3, <3>2 DEF PassContinues
  <2> QED BY <2>2, <2>3
<1>9. ASSUME c.target \notin alive, lap.waited > StallTicks
      PROVE  /\ u.standby.resendRequested
             /\ lap.waited <= StallTicks + u.standby.waited
  <2>1. s.standby.resendRequested /\ lap.waited <= StallTicks + s.standby.waited
    BY <1>3, <1>9 DEF Following
  <2> QED BY <1>6, <2>1 DEF PassContinues, Asks
<1> QED BY <1>4, <1>7, <1>8, <1>9 DEF Following

LEMMA OthersFollow ==
  ASSUME OneLayer, IInv, NEW d \in Device, NEW u, NEW v, Iterated(d, u, v),
         NEW b \in Device, b \in alive, b # d, IsStandby(Cfg[b]), Following(b)
  PROVE  Following(b)'
<1>1. /\ LoopEffect(d, u, v) /\ SaysTrue(d, u) /\ SpokenAfter(d, u)
  BY DEF Iterated
<1>2. /\ dev'[b] = dev[b] /\ UNCHANGED <<lap, alive>> /\ (Spoke(b)' <=> Spoke(b))
  BY <1>1 DEF LoopEffect, SpokenAfter, IInv, TypeOK
<1>3. /\ net[b] \subseteq net'[b]
      /\ \A p \in u.sent : p.type = "DATA" => p \in net'[b]
  BY <1>1, InboxAfter DEF Listens, IsStandby
<1>4. ASSUME NEW e \in Device \ {b}, HeardOf(e)'
      PROVE  e.node \in dev[b].standby.layerObserved \/ Arriving(b, e)'
  <2>1. CASE HeardOf(e)
    BY <1>3, <1>4, <2>1 DEF Following, Arriving
  <2>2. CASE ~HeardOf(e)
    BY <1>1, <1>3, <1>4, <2>2 DEF SpokenAfter, Arriving
  <2> QED BY <2>1, <2>2
<1> QED BY <1>2, <1>4 DEF Following

LEMMA LoopDeadline ==
  ASSUME OneLayer, Calm, Covered, IInv, LayerInv, DeadlineInv, NEW d \in Device,
         LoopStep(d)
  PROVE  DeadlineInv'
<1>1. PICK u, v : Iterated(d, u, v)
  BY LoopIterated
<1>2. /\ UNCHANGED <<lap, alive, faults>> /\ dev' = [dev EXCEPT ![d] = v] /\ d \in alive
      /\ SpokenAfter(d, u) /\ alive \subseteq Device /\ lap \in Client
  BY <1>1 DEF Iterated, LoopEffect, IInv, TypeOK
<1>3. Encouraging' /\ (lap.phase # "idle" => Delivered' /\ Reported')
  BY <1>1, LoopTold DEF DeadlineInv
<1>4. OneDeath'
  BY <1>2 DEF DeadlineInv, OneDeath
<1>5. ASSUME NEW e \in Device PROVE Knowing(e)'
  <2>1. Knowing(e)
    BY DEF DeadlineInv
  <2>2. CASE e = d
    BY <1>1, <2>1, <2>2, KnowingStays
  <2>3. CASE e # d
    <3>1. dev'[e] = dev[e]
      BY <1>2, <2>3 DEF IInv, TypeOK
    <3> QED BY <1>2, <2>1, <3>1 DEF Knowing, SpokenAfter
  <2> QED BY <2>2, <2>3
<1>6. Complete' <=> Complete
  BY <1>2 DEF Complete
<1>7. ASSUME lap.phase = "waiting" PROVE Prompt'
  <2>1. /\ Prompt /\ lap.run = 1
    <3>1. lap.run \in 0..1
      BY RunAssumption DEF IInv, TypeOK, Client, Calm
    <3> QED BY <1>7, <3>1 DEF DeadlineInv
  <2>2. \A e \in alive : Spoken(e) /\ Playing(e) /\ Knowing(e) /\ e \in Device
    BY <1>2, <2>1 DEF LayerInv, Sound, DeadlineInv
  <2>3. ASSUME NEW e \in alive, ~Spoke(e)' PROVE OnTime(e)'
    <3>1. ~Spoke(e)
      BY <1>2, <2>2, <2>3 DEF SpokenAfter
    <3>2. OnTime(e)
      BY <2>1, <3>1 DEF Prompt
    <3>3. CASE e = d
      BY <1>1, <1>2, <2>2, <2>3, <3>2, <3>3, LoopOnTime
    <3>4. CASE e # d
      <4>1. dev'[e] = dev[e]
        BY <1>2, <2>2, <3>4 DEF IInv, TypeOK
      <4> QED BY <1>2, <3>2, <4>1 DEF OnTime, Received
    <3> QED BY <3>3, <3>4
  <2>4. ASSUME NEW b \in alive, IsStandby(Cfg[b]), ~HeardOf(Cfg[b].target)'
        PROVE  Following(b)'
    <3>1. Following(b)
      BY <1>2, <2>1, <2>4 DEF Prompt, SpokenAfter
    <3>2. CASE b = d
      BY <1>1, <1>2, <2>1, <2>2, <2>4, <3>2, LoopFollows
    <3>3. CASE b # d
      BY <1>1, <2>2, <2>4, <3>1, <3>3, OthersFollow
    <3> QED BY <3>2, <3>3
  <2> QED BY <1>2, <1>6, <2>1, <2>3, <2>4 DEF Prompt
<1> QED BY <1>2, <1>3, <1>4, <1>5, <1>6, <1>7 DEF DeadlineInv

(* Nothing is lost or repeated: what is received is taken from the inbox.  *)
LEMMA TakenOnce ==
  ASSUME Calm, IInv, NEW r \in Receiver, NEW p, Deliver(r, p)
  PROVE  net' = [net EXCEPT ![r] = @ \ {p}] /\ UNCHANGED faults
<1>1. ~(faults.stray < MaxStray)
  BY DEF IInv, TypeOK, Calm
<1> QED BY <1>1 DEF Deliver

LEMMA ReceiveDeadline ==
  ASSUME OneLayer, Calm, Covered, IInv, LayerInv, DeadlineInv, NEW d \in Device,
         Receive(d)
  PROVE  DeadlineInv'
<1> DEFINE c == Cfg[d]
           s == dev[d]
<1>1. PICK p, u : PacketEffect(d, p, u)
  BY ReceiveEffect
<1>2. /\ UNCHANGED <<alive, lap, spoken>> /\ dev' = [dev EXCEPT ![d] = u] /\ d \in alive
      /\ p \in net[d] /\ p \in Packet /\ p.src \in Address
      /\ PacketTaken(c, s, p, u) /\ alive \subseteq Device /\ d \in Receiver
      /\ u = ReceivePacket(c, s, p) /\ Deliver(d, p)
  BY <1>1 DEF PacketEffect, IInv, TypeOK, Receiver, Packet
<1>3. net' = [net EXCEPT ![d] = @ \ {p}] /\ UNCHANGED faults
  BY <1>2, TakenOnce
<1>4. PacketWatched(c, s, p, u)
  BY <1>2, ConfigurationOf, PacketSeen DEF IInv
<1>5. /\ dev'[d] = u /\ net'[d] = net[d] \ {p} /\ net'[Laptop] = net[Laptop]
      /\ \A e \in Device \ {d} : dev'[e] = dev[e] /\ net'[e] = net[e]
  BY <1>2, <1>3, LaptopAssumption DEF IInv, TypeOK, Receiver
<1>6. /\ (\A a : HeardOf(a)' <=> HeardOf(a)) /\ (\A a : Spoke(a)' <=> Spoke(a))
      /\ (Complete' <=> Complete)
  BY <1>2 DEF HeardOf, Spoke, Complete
<1>7. Encouraging'
  BY <1>2, <1>5 DEF DeadlineInv, Encouraging, PacketTaken
<1>8. OneDeath'
  BY <1>2, <1>3 DEF DeadlineInv, OneDeath
<1>9. (Delivered => Delivered') /\ (Reported => Reported')
  BY <1>2, <1>5, <1>6 DEF Delivered, Reported, Obtained, Arriving, Filed, Announced
<1>10. p.type = "DATA" /\ p.src.layer = 1 => HeardOf(p.src)
  BY <1>2 DEF LayerInv, AskInv, Truthful
<1>11. ASSUME NEW e \in Device PROVE Knowing(e)'
  <2>1. Knowing(e)
    BY DEF DeadlineInv
  <2>2. CASE e = d
    <3>1. /\ u.standby.waited = s.standby.waited
          /\ u.standby.resolved = s.standby.resolved
          /\ u.standby.targetObserved => \/ s.standby.targetObserved
                                         \/ p.type = "DATA" /\ p.src = c.target
          /\ u.targetSeen => s.targetSeen \/ (p.type = "DATA" /\ p.src = c.target)
      BY <1>2, <1>4 DEF PacketTaken, PacketWatched, Unjudging
    <3>2. IsStandby(c) => c.target.layer = 1
      BY DEF IsStandby, OneLayer
    <3> QED BY <1>5, <1>6, <1>10, <2>1, <2>2, <3>1, <3>2 DEF Knowing
  <2>3. CASE e # d
    BY <1>5, <1>6, <2>1, <2>3 DEF Knowing
  <2> QED BY <2>2, <2>3
<1>12. ASSUME lap.phase = "waiting" PROVE Prompt'
  <2>1. Prompt /\ lap.run = 1
    <3>1. lap.run \in 0..1
      BY RunAssumption DEF IInv, TypeOK, Client, Calm
    <3> QED BY <1>12, <3>1 DEF DeadlineInv
  <2>2. /\ u.idle = 0 /\ u.stallArmed = s.stallArmed /\ u.stalled = s.stalled
        /\ u.sched.state = s.sched.state /\ s.sched.observed \subseteq u.sched.observed
        /\ Unjudging(s.standby, u.standby) /\ lap.waited \in Nat
    BY <1>2 DEF PacketTaken, IInv, TypeOK, Client
  <2>3. ASSUME NEW e \in alive, ~Spoke(e)' PROVE OnTime(e)'
    <3>1. OnTime(e) /\ e \in Device
      BY <1>2, <1>6, <2>1, <2>3 DEF Prompt
    <3>2. CASE e = d
      BY <1>2, <1>5, <2>2, <3>1, <3>2 DEF OnTime, TurnGranted
    <3>3. CASE e # d
      BY <1>2, <1>5, <3>1, <3>3 DEF OnTime, Received
    <3> QED BY <3>2, <3>3
  <2>4. ASSUME NEW b \in alive, IsStandby(Cfg[b]), ~HeardOf(Cfg[b].target)'
        PROVE  Following(b)'
    <3>1. Following(b) /\ b \in Device
      BY <1>2, <1>6, <2>1, <2>4 DEF Prompt
    <3>2. CASE b = d
      <4>1. ASSUME NEW e \in Device \ {d}, HeardOf(e)'
            PROVE  e.node \in u.standby.layerObserved \/ Arriving(d, e)'
        <5>1. e.node \in s.standby.layerObserved \/ Arriving(d, e)
          BY <1>6, <3>1, <3>2, <4>1 DEF Following
        <5>2. CASE p.type = "DATA" /\ p.src = e
          <6>1. /\ e.layer = 1 /\ c.addr.layer = 1 /\ e # c.target
            BY <1>6, <2>4, <3>2, <4>1 DEF OneLayer
          <6>2. ~Suppressed(c, s, p)
            BY <1>2, <2>1 DEF LayerInv, Playing, Suppressed, ShouldAccept
          <6> QED BY <1>4, <2>4, <3>2, <5>2, <6>1, <6>2 DEF PacketWatched
        <5>3. CASE ~(p.type = "DATA" /\ p.src = e)
          BY <1>4, <1>5, <5>1, <5>3 DEF PacketWatched, Arriving
        <5> QED BY <5>2, <5>3
      <4>2. Spoke(d)' => u.sched.state = "TRANSMITTED" /\ u.idle <= lap.waited
        BY <1>6, <2>2, <3>1, <3>2 DEF Following
      <4>3. c.target \notin alive /\ lap.waited > StallTicks =>
              /\ u.standby.resendRequested
              /\ lap.waited <= StallTicks + u.standby.waited
        BY <2>2, <3>1, <3>2 DEF Following, Unjudging
      <4> QED BY <1>2, <1>5, <3>2, <4>1, <4>2, <4>3 DEF Following
    <3>3. CASE b # d
      BY <1>2, <1>5, <1>6, <3>1, <3>3 DEF Following, Arriving
    <3> QED BY <3>2, <3>3
  <2> QED BY <1>2, <1>6, <2>1, <2>3, <2>4 DEF Prompt
<1> QED BY <1>2, <1>6, <1>7, <1>8, <1>9, <1>11, <1>12 DEF DeadlineInv

(* The laptop's own steps.                                                 *)
Filing(p) == [flag |-> p.flag, failed |-> p.about, backup |-> p.src]
Answering(p) == ~Report(p) /\ p.type = "DATA" /\ p.src \in {Cfg[d].addr : d \in Device}

Absorbed(p, l) ==
  /\ l.run = lap.run /\ l.phase = lap.phase /\ l.waited = lap.waited
  /\ l.aborted <=> lap.aborted \/ (Report(p) /\ p.flag = "teardown")
  /\ l.reports = IF Report(p) THEN lap.reports \cup {Filing(p)} ELSE lap.reports
  /\ l.answers = IF Answering(p)
                 THEN {a \in lap.answers : a.key # p.src} \cup
                        {[key |-> p.src, value |-> p.value]}
                 ELSE lap.answers

LEMMA AbsorbDone == ASSUME lap \in Client, NEW p PROVE Absorbed(p, Absorb(p))
<1>1. CASE Report(p)
  <2> DEFINE gone == lap.aborted \/ p.flag = "teardown"
             reports == lap.reports \cup {Filing(p)}
  <2>1. Absorb(p) = [lap EXCEPT !.reports = reports, !.aborted = gone]
    BY <1>1 DEF Absorb, Report, Filing
  <2>2. gone <=> lap.aborted \/ p.flag = "teardown"
    OBVIOUS
  <2>3. reports = lap.reports \cup {Filing(p)}
    OBVIOUS
  <2> HIDE DEF gone, reports
  <2>4. /\ Absorb(p).run = lap.run /\ Absorb(p).phase = lap.phase
        /\ Absorb(p).waited = lap.waited /\ Absorb(p).answers = lap.answers
        /\ Absorb(p).reports = reports
    BY <2>1 DEF Client
  <2>5. Absorb(p).aborted = gone
    BY <2>1 DEF Client
  <2>6. Absorb(p).aborted <=> lap.aborted \/ p.flag = "teardown"
    BY ONLY <2>2, <2>5, Zenon
  <2> QED BY <1>1, <2>3, <2>4, <2>6 DEF Absorbed, Answering
<1>2. CASE Answering(p)
  <2>1. PICK n : n = {a \in lap.answers : a.key # p.src} \cup
                       {[key |-> p.src, value |-> p.value]}
    OBVIOUS
  <2>2. Absorb(p) = [lap EXCEPT !.answers = n]
    BY <1>2, <2>1 DEF Absorb, Answering
  <2>3. /\ Absorb(p).run = lap.run /\ Absorb(p).phase = lap.phase
        /\ Absorb(p).waited = lap.waited /\ Absorb(p).answers = n
        /\ Absorb(p).reports = lap.reports /\ Absorb(p).aborted = lap.aborted
    BY <2>2 DEF Client
  <2>4. ~Report(p)
    BY <1>2 DEF Answering
  <2> QED BY <1>2, <2>1, <2>3, <2>4 DEF Absorbed
<1>3. CASE ~Report(p) /\ ~Answering(p)
  <2>1. Absorb(p) = lap
    BY <1>3 DEF Absorb, Answering
  <2> QED BY <1>3, <2>1 DEF Absorbed
<1> QED BY <1>1, <1>2, <1>3

LEMMA CollectDeadline ==
  ASSUME OneLayer, Calm, Covered, IInv, DeadlineInv, LaptopReceive
  PROVE  DeadlineInv'
<1>1. PICK p \in net[Laptop] : /\ Deliver(Laptop, p)
                               /\ lap' = IF lap.phase = "idle" THEN lap ELSE Absorb(p)
  BY DEF LaptopReceive
<1>2. Laptop \in Receiver /\ lap \in Client /\ UNCHANGED <<dev, alive, spoken>>
  BY DEF LaptopReceive, Receiver, IInv, TypeOK
<1>3. net' = [net EXCEPT ![Laptop] = @ \ {p}] /\ UNCHANGED faults
  BY <1>1, <1>2, TakenOnce
<1>4. /\ net'[Laptop] = net[Laptop] \ {p}
      /\ \A e \in Device : net'[e] = net[e]
  BY <1>3, LaptopAssumption DEF IInv, TypeOK, Receiver
<1>5. lap' = lap \/ (lap.phase # "idle" /\ Absorbed(p, lap'))
  BY <1>1, <1>2, AbsorbDone
<1>6. lap.phase # "idle" => Absorbed(p, lap')
  BY <1>1, <1>2, AbsorbDone
<1>7. lap'.run = lap.run /\ lap'.phase = lap.phase /\ lap'.waited = lap.waited
  BY <1>5 DEF Absorbed
<1>8. ~lap'.aborted
  <2>1. (Report(p) => p.flag # "teardown") /\ ~lap.aborted
    BY DEF DeadlineInv, Encouraging
  <2>2. CASE lap' = lap
    <3>1. lap'.aborted = lap.aborted
      BY <2>2
    <3> QED BY <2>1, <3>1
  <2>3. CASE Absorbed(p, lap')
    <3>1. lap'.aborted <=> lap.aborted \/ (Report(p) /\ p.flag = "teardown")
      BY <2>3 DEF Absorbed
    <3> QED BY ONLY <2>1, <3>1
  <2> QED BY <1>5, <2>2, <2>3
<1>9. ASSUME NEW a PROVE Obtained(a) => Obtained(a)'
  <2> SUFFICES ASSUME NEW x \in lap.answers, x.key = a PROVE Obtained(a)'
    BY DEF Obtained
  <2>1. CASE lap' = lap \/ (Absorbed(p, lap') /\ ~Answering(p)) \/
             (Absorbed(p, lap') /\ x.key # p.src)
    <3>1. x \in lap'.answers
      BY <2>1 DEF Absorbed
    <3> QED BY <3>1 DEF Obtained
  <2>2. CASE Absorbed(p, lap') /\ Answering(p) /\ x.key = p.src
    <3>1. [key |-> p.src, value |-> p.value] \in lap'.answers
      BY <2>2 DEF Absorbed
    <3> QED BY <2>2, <3>1 DEF Obtained
  <2> QED BY <1>5, <2>1, <2>2
<1>10. ASSUME NEW a \in Device, p.type = "DATA", p.src = a, lap.phase # "idle"
      PROVE  Obtained(a)'
  <2>1. Answering(p)
    BY <1>10 DEF OneLayer, Report, Answering
  <2>2. [key |-> p.src, value |-> p.value] \in lap'.answers
    BY <1>6, <1>10, <2>1 DEF Absorbed
  <2> QED BY <1>10, <2>2 DEF Obtained
<1>11. ASSUME NEW w PROVE Filed(w) => Filed(w)'
  BY <1>5 DEF Absorbed, Filed
<1>12. ASSUME NEW w, Report(p), p.about = w.as, p.src = w.by, lap.phase # "idle"
       PROVE  Filed(w)'
  <2>1. Filing(p) \in lap'.reports
    BY <1>6, <1>12 DEF Absorbed
  <2> QED BY <1>12, <2>1 DEF Filed, Filing
<1>13. Encouraging'
  BY <1>2, <1>4, <1>8 DEF DeadlineInv, Encouraging
<1>14. OneDeath'
  BY <1>2, <1>3 DEF DeadlineInv, OneDeath
<1>15. /\ (\A a : HeardOf(a)' <=> HeardOf(a)) /\ (\A a : Spoke(a)' <=> Spoke(a))
  BY <1>2 DEF HeardOf, Spoke
<1>16. \A d \in Device : Knowing(d)'
  BY <1>2, <1>15 DEF DeadlineInv, Knowing
<1>17. ASSUME lap.phase # "idle" PROVE Delivered' /\ Reported'
  <2>1. Delivered /\ Reported
    BY <1>17 DEF DeadlineInv
  <2>2. Delivered'
    BY <1>4, <1>9, <1>10, <1>15, <1>17, <2>1 DEF Delivered, Arriving
  <2>3. Reported'
    BY <1>2, <1>4, <1>11, <1>12, <1>17, <2>1 DEF Reported, Announced
  <2> QED BY <2>2, <2>3
<1>18. Complete => Complete'
  <2> SUFFICES ASSUME Complete, NEW a \in Expected PROVE a \in {x.key : x \in lap'.answers}
    BY DEF Complete
  <2>1. Obtained(a)
    BY DEF Complete, Obtained
  <2> QED BY <1>9, <2>1 DEF Obtained
<1>19. Prompt => Prompt'
  <2>1. \A e \in Device : OnTime(e) => OnTime(e)'
    BY <1>2, <1>7 DEF OnTime, Received
  <2>2. \A e \in Device : Following(e) => Following(e)'
    BY <1>2, <1>4, <1>7, <1>15 DEF Following, Arriving
  <2>3. alive \subseteq Device
    BY DEF IInv, TypeOK
  <2> QED BY <1>2, <1>7, <1>15, <1>18, <2>1, <2>2, <2>3 DEF Prompt
<1> QED BY <1>7, <1>13, <1>14, <1>16, <1>17, <1>18, <1>19 DEF DeadlineInv

LEMMA WaitOver ==
  ASSUME OneLayer, Covered, IInv, DeadlineInv, StopWaiting \/ FinishRun
  PROVE  DeadlineInv'
<1>1. /\ UNCHANGED <<dev, alive, net, faults, spoken>> /\ lap \in Client
      /\ lap'.run = lap.run /\ lap'.answers = lap.answers
      /\ lap'.reports = lap.reports /\ lap'.aborted = lap.aborted
      /\ lap'.phase = IF StopWaiting THEN "draining" ELSE "idle"
      /\ lap.phase # "idle"
  BY DEF StopWaiting, FinishRun, IInv, TypeOK, Client
<1>2. StopWaiting => Complete
  BY DEF StopWaiting, DeadlineInv, Encouraging, Prompt
<1>3. Encouraging' /\ OneDeath' /\ \A d \in Device : Knowing(d)'
  BY <1>1 DEF DeadlineInv, Encouraging, OneDeath, Knowing, HeardOf
<1>4. Delivered' /\ Reported' /\ (Complete' <=> Complete)
  <2>1. Delivered /\ Reported
    BY <1>1 DEF DeadlineInv
  <2> QED BY <1>1, <2>1 DEF Delivered, Reported, Complete, Obtained, Arriving, Filed,
             Announced, HeardOf
<1>5. lap.run # 0
  BY <1>1 DEF DeadlineInv
<1> QED BY <1>1, <1>2, <1>3, <1>4, <1>5 DEF DeadlineInv

(* The run begins with nobody heard of and every clock at rest.            *)
LEMMA BeginDeadline ==
  ASSUME OneLayer, Calm, Covered, IInv, LayerInv, DeadlineInv, StartRun
  PROVE  DeadlineInv'
<1>1. /\ lap.run = 0 /\ lap'.run = 1 /\ lap'.phase = "waiting" /\ lap'.waited = 0
      /\ ~lap'.aborted /\ UNCHANGED <<dev, alive, faults>> /\ alive \subseteq Device
      /\ spoken' = {} /\ spoken = {}
  BY RunAssumption DEF StartRun, Calm, IInv, TypeOK, Client, LayerInv, AskInv, AtRest
<1>2. /\ \A d \in Device : Resting(dev[d])
      /\ \A r \in Receiver : net[r] = {}
  BY <1>1 DEF LayerInv, AskInv, AtRest
<1>3. ASSUME NEW p \in net'[Laptop] PROVE ~Report(p)
  <2>1. Laptop \in Receiver /\ net[Laptop] = {}
    BY <1>2 DEF Receiver
  <2>2. PICK i \in Inputs : p = [DataPacket(Source(i), "none", {lap.run + 1})
                                   EXCEPT !.group = 1]
    BY <1>3, <2>1 DEF StartRun, Multicast
  <2> QED BY <2>2 DEF DataPacket, Report
<1>4. Encouraging'
  BY <1>1, <1>2, <1>3 DEF Encouraging, Resting
<1>5. OneDeath'
  BY <1>1 DEF DeadlineInv, OneDeath
<1>6. ASSUME NEW a PROVE ~HeardOf(a) /\ ~HeardOf(a)' /\ ~Spoke(a)'
  BY <1>1 DEF HeardOf, Spoke
<1>7. \A d \in Device : Knowing(d)'
  BY <1>1, <1>6 DEF DeadlineInv, Knowing
<1>8. Delivered' /\ Reported'
  BY <1>1, <1>6 DEF Delivered, Reported
<1>9. StallTicks \in Nat /\ LapTicks \in Nat /\ StallTicks < LapTicks
  BY TicksAssumption, LaptopAssumption DEF Covered
<1>10. ASSUME NEW d \in Device PROVE OnTime(d)' /\ Following(d)'
  <2>1. OnTime(d)'
    BY <1>1, <1>2, <1>9 DEF OnTime, Received, Resting
  <2>2. Following(d)'
    BY <1>1, <1>6, <1>9 DEF Following
  <2> QED BY <2>1, <2>2
<1>11. Prompt'
  BY <1>1, <1>9, <1>10 DEF Prompt
<1> QED BY <1>1, <1>4, <1>5, <1>7, <1>8, <1>11 DEF DeadlineInv

(* Whoever dies before it was heard of has not been waited for longer than *)
(* a turn.                                                                 *)
LEMMA CrashDeadline ==
  ASSUME OneLayer, Calm, Covered, IInv, DeadlineInv, NEW t \in Device, Crash(t)
  PROVE  DeadlineInv'
<1>1. /\ UNCHANGED <<dev, lap, spoken>> /\ t \in alive /\ t \in Mortal
      /\ alive' = alive \ {t} /\ alive \subseteq Device /\ faults.crash < MaxCrash
      /\ faults.crash \in 0..MaxCrash /\ faults'.crash = faults.crash + 1
      /\ lap.waited \in Nat /\ StallTicks \in Nat
  BY TicksAssumption DEF Crash, IInv, TypeOK, Client
<1>2. /\ net'[Laptop] = net[Laptop]
      /\ \A e \in Device \ {t} : net'[e] = net[e]
  BY LaptopAssumption DEF Crash, IInv, TypeOK, Receiver
<1>3. /\ \A a : Spoke(a)' <=> Spoke(a)
      /\ \A a : HeardOf(a)' <=> HeardOf(a)
      /\ Complete' <=> Complete
  BY <1>1 DEF Spoke, HeardOf, Complete
<1>4. Encouraging'
  BY <1>1, <1>2 DEF DeadlineInv, Encouraging
<1>5. alive = Device
  <2>1. faults.crash = 0
    BY <1>1, FaultAssumption DEF Covered
  <2> QED BY <2>1 DEF DeadlineInv, OneDeath
<1>6. OneDeath'
  BY <1>1, <1>5 DEF OneDeath
<1>7. \A d \in Device : Knowing(d)'
  BY <1>1, <1>3 DEF DeadlineInv, Knowing
<1>8. (Delivered => Delivered') /\ (Reported => Reported')
  BY <1>1, <1>2, <1>3 DEF Delivered, Reported, Obtained, Arriving, Filed, Announced
<1>9. ASSUME Prompt PROVE Prompt'
  <2>1. \A d \in alive' : ~Spoke(d)' => OnTime(d)'
    BY <1>1, <1>3, <1>9 DEF Prompt, OnTime, Received
  <2>2. ASSUME NEW b \in alive', IsStandby(Cfg[b]), ~HeardOf(Cfg[b].target)'
        PROVE  Following(b)'
    <3>1. Following(b) /\ ~HeardOf(Cfg[b].target) /\ b \in Device \ {t}
      BY <1>1, <1>3, <1>9, <2>2 DEF Prompt
    <3>2. Cfg[b].target \notin alive' /\ lap.waited > StallTicks =>
            Cfg[b].target \notin alive
      <4> SUFFICES ASSUME Cfg[b].target = t PROVE ~(lap.waited > StallTicks)
        BY <1>1
      <4>1. ~Spoke(t)
        BY <3>1 DEF HeardOf, Spoke
      <4>2. OnTime(t)
        BY <1>1, <1>9, <4>1 DEF Prompt
      <4> QED BY <1>1, <4>2 DEF OnTime
    <3>3. net'[b] = net[b] /\ dev'[b] = dev[b]
      BY <1>1, <1>2, <3>1
    <3> QED BY <1>1, <1>3, <3>1, <3>2, <3>3 DEF Following, Arriving
  <2> QED BY <1>1, <1>3, <1>9, <2>1, <2>2 DEF Prompt
<1> QED BY <1>1, <1>3, <1>4, <1>6, <1>7, <1>8, <1>9 DEF DeadlineInv

(* A tick of the clock finds every loop run dry.                           *)
LEMMA RunDry ==
  ASSUME OneLayer, Covered, IInv, Settled, Quiet, NEW d \in Device, d \in alive
  PROVE  /\ StepTaken(Cfg[d], dev[d], dev[d]) /\ StepWatched(Cfg[d], dev[d], dev[d])
         /\ net[d] = {}
<1>1. /\ DeviceInv(Cfg[d], dev[d]) /\ Cfg[d] \in Configuration
      /\ HandedOver(dev[d]) /\ Unresolved(dev[d].standby)
  BY ConfigurationOf DEF IInv, Settled
<1>2. RuntimeStep(Cfg[d], dev[d]) = dev[d] /\ net[d] = {}
  BY DEF Quiet, Busy
<1>3. StepTaken(Cfg[d], dev[d], dev[d])
  BY <1>1, <1>2, StepDone
<1>4. Relieved(Cfg[d])
  BY DEF Covered, Relieved
<1>5. StepWatched(Cfg[d], dev[d], dev[d])
  BY <1>1, <1>2, <1>4, WatchDone
<1> QED BY <1>2, <1>3, <1>5

(* Whoever is yet to speak then still counts its stall.                    *)
LEMMA Stalling ==
  ASSUME OneLayer, Calm, IInv, Settled, Quiet, NEW d \in Device, d \in alive,
         Spoken(d), Playing(d), ~Spoke(d), OnTime(d)
  PROVE  /\ dev[d].sched.state = "WAITING_FOR_TURN" /\ dev[d].stallArmed
         /\ dev[d].stalled = lap.waited /\ lap.waited < StallTicks
         /\ dev[d].idle <= lap.waited
<1>1. /\ dev[d].sched.state = "WAITING_FOR_TURN" /\ dev[d].stallArmed
      /\ dev[d].stalled < StallTicks /\ Received(d) # {}
  BY StandsStill
<1> QED BY <1>1 DEF OnTime

(* Once everyone alive has spoken, the standby of a target that died       *)
(* unheard has asked, and its grace is not over.                           *)
LEMMA RoundAsked ==
  ASSUME OneLayer, Calm, Covered, IInv, Settled, Quiet, OneDeath,
         \A e \in alive : Spoke(e), NEW b \in Device, b \in alive, Following(b),
         Knowing(b), IsStandby(Cfg[b]), Cfg[b].target \notin alive,
         ~HeardOf(Cfg[b].target)
  PROVE  /\ dev[b].standby.resendRequested /\ ~dev[b].standby.resolved
         /\ dev[b].standby.waited < Cfg[b].grace
<1> DEFINE c == Cfg[b]
           s == dev[b]
<1>1. /\ StepTaken(c, s, s) /\ StepWatched(c, s, s) /\ net[b] = {}
      /\ Unresolved(s.standby) /\ s.standby.waited \in Nat /\ c.grace \in Nat
  BY RunDry, ConfigurationOf
     DEF IInv, TypeOK, DeviceState, Standby, Configuration, Settled
<1>2. s.sched.state = "TRANSMITTED"
  BY DEF Following
<1>3. PassContinues(c, s, s)
  <2>1. ~PassCloses(c, s, s)
    <3> SUFFICES ASSUME PassCloses(c, s, s) PROVE FALSE
      OBVIOUS
    <3>1. s.sched = SchedulerReset
      BY DEF PassCloses, PassReset
    <3> QED BY <1>2, <3>1 DEF SchedulerReset
  <2> QED BY <1>1, <2>1 DEF StepTaken
<1>4. Watches(c, s)
  <2>1. SchedulerTick(c, s.sched).state = "TRANSMITTED"
    BY <1>2, <1>3 DEF PassContinues, TakesTurn
  <2> QED BY <2>1 DEF Watches
<1>5. ~s.standby.targetObserved /\ ~s.standby.resolved
  BY DEF Knowing
<1>6. Unjudged(c, s)
  BY <1>4, <1>5 DEF Unjudged
<1>7. ~Judges(c, s)
  BY <1>1, <1>3, <1>5 DEF PassContinues, Unresolved
<1>8. ~Asks(c, s)
  BY <1>3 DEF PassContinues, Asks
<1>9. Others(c) \subseteq s.standby.layerObserved
  <2> SUFFICES ASSUME NEW n \in Others(c) PROVE n \in s.standby.layerObserved
    OBVIOUS
  <2>1. /\ c.target \in Device /\ c.roster = {e.node : e \in Device} /\ c.addr = b
    BY DEF OneLayer, IsStandby
  <2>2. PICK e \in Device : e.node = n /\ e # c.target /\ e # b
    BY <2>1 DEF Others
  <2>3. e \in alive
    BY <2>1, <2>2 DEF OneDeath
  <2>4. HeardOf(e)
    <3>1. Spoke(e)
      BY <2>3
    <3> QED BY <3>1 DEF Spoke, HeardOf
  <2> QED BY <1>1, <2>2, <2>4 DEF Following, Arriving
<1>10. s.standby.resendRequested
  BY <1>6, <1>8, <1>9 DEF Asks
<1>11. s.standby.waited < c.grace
  BY <1>1, <1>6, <1>7, <1>10 DEF Judges
<1> QED BY <1>5, <1>10, <1>11

(* What a tick changes in a device, with its standby's watch.              *)
LEMMA WatchTick ==
  ASSUME IInv, Tick, NEW d \in Device
  PROVE  IF d \in alive THEN /\ TimePassed(Cfg[d], dev[d], dev'[d])
                             /\ TimeWatched(Cfg[d], dev[d], dev'[d])
         ELSE dev'[d] = dev[d]
<1>1. DeviceInv(Cfg[d], dev[d]) /\ Cfg[d] \in Configuration
  BY ConfigurationOf DEF IInv
<1>2. d \in alive => dev'[d] = Elapse(Cfg[d], dev[d])
  BY DEF Tick
<1>3. d \in alive => TimeWatched(Cfg[d], dev[d], dev'[d])
  BY <1>1, <1>2, TimeSeen
<1> QED BY <1>3, TickEffect

(* A tick while the laptop waits.                                          *)
LEMMA PromptTick ==
  ASSUME OneLayer, Calm, Covered, IInv, LayerInv, OneDeath,
         \A d \in Device : Knowing(d) /\ Knowing(d)',
         lap.phase = "waiting", lap.run = 1, Delivered, Prompt, Tick
  PROVE  Prompt'
<1>1. /\ Quiet /\ UNCHANGED <<alive, net, spoken>> /\ lap'.answers = lap.answers
      /\ lap'.waited = IF lap.waited < LapTicks THEN lap.waited + 1 ELSE lap.waited
      /\ alive \subseteq Device
  BY TickEffect, TickQuiet DEF Tick, LapClockRuns, IInv, TypeOK, Client
<1>2. /\ lap.waited \in Nat /\ lap'.waited \in Nat /\ StallTicks \in Nat
      /\ LapTicks \in Nat /\ StallTicks < LapTicks
      /\ \A d \in Device : /\ dev[d].idle \in Nat /\ dev[d].stalled \in Nat
                           /\ Cfg[d].grace \in Nat /\ dev[d].standby.waited \in Nat
  BY <1>1, ConfigurationOf, TicksAssumption, LaptopAssumption
     DEF IInv, TypeOK, Client, Configuration, DeviceState, Standby, Covered
<1>3. /\ \A a : Spoke(a)' <=> Spoke(a)
      /\ \A a : HeardOf(a)' <=> HeardOf(a)
      /\ \A a : Spoke(a) => HeardOf(a)
  BY <1>1 DEF Spoke, HeardOf
<1>4. Settled /\ \A d \in alive : Spoken(d) /\ Playing(d)
  BY <1>1 DEF LayerInv, AskInv, Sound
<1>5. \A d \in alive : /\ TimePassed(Cfg[d], dev[d], dev'[d])
                       /\ TimeWatched(Cfg[d], dev[d], dev'[d])
  BY <1>1, WatchTick
<1>6. ASSUME NEW d \in alive, ~Spoke(d)
      PROVE  /\ dev[d].sched.state = "WAITING_FOR_TURN" /\ dev[d].stallArmed
             /\ dev[d].stalled = lap.waited /\ lap.waited < StallTicks
             /\ dev[d].idle <= lap.waited
  BY <1>1, <1>4, <1>6, Stalling DEF Prompt
<1>7. ASSUME NEW d \in alive, ~Spoke(d)' PROVE OnTime(d)'
  <2>1. /\ dev[d].sched.state = "WAITING_FOR_TURN" /\ dev[d].stallArmed
        /\ dev[d].stalled = lap.waited /\ lap.waited < StallTicks
        /\ dev[d].idle <= lap.waited /\ d \in Device
    BY <1>1, <1>3, <1>6, <1>7
  <2>2. /\ dev'[d].sched = dev[d].sched /\ dev'[d].stallArmed
        /\ dev'[d].stalled = dev[d].stalled + 1
        /\ dev'[d].idle <= dev[d].idle + 1
    BY <1>2, <1>5, <2>1 DEF TimePassed
  <2>3. lap'.waited = lap.waited + 1
    BY <1>1, <1>2, <2>1
  <2>4. lap'.waited <= StallTicks /\ dev'[d].idle <= lap'.waited
    <3>1. dev'[d].idle \in Nat
      BY <1>2, <1>5, <2>1 DEF TimePassed
    <3> QED BY <1>2, <2>1, <2>2, <2>3, <3>1
  <2> QED BY <2>1, <2>2, <2>3, <2>4 DEF OnTime
<1>8. ASSUME NEW b \in alive, IsStandby(Cfg[b]), ~HeardOf(Cfg[b].target)'
      PROVE  Following(b)'
  <2>1. Following(b) /\ ~HeardOf(Cfg[b].target) /\ b \in Device
    BY <1>1, <1>3, <1>8 DEF Prompt
  <2>2. lap.waited < LapTicks
    BY <1>8, <2>1, NotLater
  <2>3. lap'.waited = lap.waited + 1
    BY <1>1, <2>2
  <2>4. /\ dev'[b].sched = dev[b].sched
        /\ dev'[b].idle = dev[b].idle \/ dev'[b].idle = dev[b].idle + 1
        /\ dev'[b].standby.layerObserved = dev[b].standby.layerObserved
        /\ dev'[b].standby.resendRequested = dev[b].standby.resendRequested
    BY <1>5, <1>8 DEF TimePassed
  <2>5. ASSUME Spoke(b)'
        PROVE  dev'[b].sched.state = "TRANSMITTED" /\ dev'[b].idle <= lap'.waited
    <3>1. dev[b].sched.state = "TRANSMITTED" /\ dev[b].idle <= lap.waited
      BY <1>3, <2>1, <2>5 DEF Following
    <3> QED BY <1>2, <2>1, <2>3, <2>4, <3>1
  <2>6. ASSUME Cfg[b].target \notin alive, lap'.waited > StallTicks
        PROVE  /\ dev'[b].standby.resendRequested
               /\ lap'.waited <= StallTicks + dev'[b].standby.waited
    <3>1. lap.waited >= StallTicks
      BY <1>2, <2>3, <2>6
    <3>2. \A e \in alive : Spoke(e)
      BY <1>2, <1>6, <3>1
    <3>3. /\ dev[b].standby.resendRequested /\ ~dev[b].standby.resolved
          /\ dev[b].standby.waited < Cfg[b].grace
      BY <1>1, <1>4, <1>8, <2>1, <2>6, <3>2, RoundAsked
    <3>4. dev'[b].standby.waited = dev[b].standby.waited + 1
      BY <1>5, <1>8, <3>3 DEF TimeWatched
    <3>5. lap.waited <= StallTicks + dev[b].standby.waited
      BY <1>2, <2>1, <2>6, <3>1 DEF Following
    <3> QED BY <1>2, <2>1, <2>3, <2>4, <3>3, <3>4, <3>5
  <2> QED BY <1>1, <1>3, <2>1, <2>4, <2>5, <2>6 DEF Following, Arriving
<1>9. ASSUME lap'.waited >= LapTicks PROVE Complete'
  <2>1. CASE lap.waited >= LapTicks
    BY <1>1, <2>1 DEF Prompt, Complete
  <2>2. CASE lap.waited < LapTicks
    <3> SUFFICES ASSUME NEW a \in Expected PROVE a \in {x.key : x \in lap.answers}
      BY <1>1 DEF Complete
    <3>1. a \in Device /\ lap'.waited = lap.waited + 1
      BY <1>1, <2>2 DEF Covered
    <3>2. HeardOf(a)
      <4> SUFFICES ASSUME ~HeardOf(a) PROVE FALSE
        OBVIOUS
      <4>1. a \notin alive
        BY <1>2, <1>3, <1>6, <1>9, <3>1
      <4>2. PICK b \in Device : IsStandby(Cfg[b]) /\ Cfg[b].target = a
        BY <3>1, <4>1 DEF OneDeath, Covered
      <4>3. b \in alive
        BY <3>1, <4>1, <4>2 DEF OneDeath, OneLayer, IsStandby
      <4>4. Following(b)' /\ Knowing(b)'
        BY <1>3, <1>8, <4>2, <4>3
      <4>5. /\ lap'.waited <= StallTicks + dev'[b].standby.waited
            /\ dev'[b].standby.waited <= Cfg[b].grace
        BY <1>1, <1>2, <1>9, <4>1, <4>2, <4>4 DEF Following, Knowing
      <4>6. StallTicks + Cfg[b].grace < LapTicks
        BY <4>2 DEF Covered
      <4>7. dev'[b].standby.waited \in Nat
        BY <1>2, <1>5, <4>3 DEF TimeWatched
      <4> QED BY <1>2, <1>9, <4>5, <4>6, <4>7
    <3>3. ~Arriving(Laptop, a)
      BY <1>1 DEF Quiet, Arriving
    <3> QED BY <3>1, <3>2, <3>3 DEF Delivered, Obtained
  <2> QED BY <1>2, <2>1, <2>2
<1> QED BY <1>1, <1>7, <1>8, <1>9 DEF Prompt

LEMMA TickDeadline ==
  ASSUME OneLayer, Calm, Covered, IInv, LayerInv, DeadlineInv, Tick
  PROVE  DeadlineInv'
<1>1. /\ UNCHANGED <<alive, net, faults, spoken>> /\ lap'.run = lap.run
      /\ lap'.answers = lap.answers /\ lap'.reports = lap.reports
      /\ lap'.phase = lap.phase /\ lap'.aborted = lap.aborted
      /\ lap.run \in 0..1 /\ alive \subseteq Device
  BY RunAssumption, TickEffect, TickQuiet DEF Tick, IInv, TypeOK, Client, Calm
<1>2. /\ \A a : Spoke(a)' <=> Spoke(a)
      /\ \A a : HeardOf(a)' <=> HeardOf(a)
      /\ Complete' <=> Complete
  BY <1>1 DEF Spoke, HeardOf, Complete
<1>3. ASSUME NEW d \in Device PROVE Knowing(d)'
  <2>1. Knowing(d)
    BY DEF DeadlineInv
  <2>2. CASE d \in alive
    <3>1. /\ dev[d].standby.waited \in Nat /\ Cfg[d].grace \in Nat
          /\ TimePassed(Cfg[d], dev[d], dev'[d])
          /\ TimeWatched(Cfg[d], dev[d], dev'[d])
      BY <2>2, ConfigurationOf, WatchTick
         DEF IInv, TypeOK, DeviceState, Standby, Configuration
    <3>2. dev'[d].standby.waited <= Cfg[d].grace
      BY <2>1, <3>1 DEF TimeWatched, Knowing
    <3> QED BY <1>2, <2>1, <3>1, <3>2 DEF TimePassed, TimeWatched, Knowing
  <2>3. CASE d \notin alive
    <3>1. dev'[d] = dev[d]
      BY <2>3, WatchTick
    <3> QED BY <1>2, <2>1, <3>1 DEF Knowing
  <2> QED BY <2>2, <2>3
<1>4. Encouraging'
  <2>1. ASSUME NEW d \in Device, NEW k \in Slot
        PROVE  /\ dev'[d].retx[k].left = dev[d].retx[k].left
               /\ dev'[d].retx[k].pkt = dev[d].retx[k].pkt
    BY <2>1, WatchTick DEF TimePassed
  <2>2. Encouraging
    BY DEF DeadlineInv
  <2> QED BY <1>1, <2>1, <2>2 DEF Encouraging
<1>5. OneDeath'
  BY <1>1 DEF DeadlineInv, OneDeath
<1>6. (Delivered => Delivered') /\ (Reported => Reported')
  BY <1>1, <1>2 DEF Delivered, Reported, Obtained, Arriving, Filed, Announced
<1>7. lap.phase = "waiting" => Prompt'
  BY <1>1, <1>3, PromptTick DEF DeadlineInv
<1> QED BY <1>1, <1>2, <1>3, <1>4, <1>5, <1>6, <1>7 DEF DeadlineInv

LEMMA DeadlineInit == OneLayer /\ Init => DeadlineInv
<1> SUFFICES ASSUME OneLayer, Init PROVE DeadlineInv
  OBVIOUS
<1>1. /\ lap.run = 0 /\ lap.phase = "idle" /\ ~lap.aborted /\ alive = Device
      /\ Laptop \in Receiver /\ net[Laptop] = {}
  BY DEF Init, Receiver
<1>2. ASSUME NEW d \in Device PROVE dev[d] = PassReset
  BY OneLayerFed DEF Init, StartRuntime, PassManaged, FedByLaptop
<1>3. /\ PassReset.standby = StandbyReset /\ ~PassReset.targetSeen
      /\ PassReset.retx = [k \in Slot |-> EmptySlot]
  BY DEF PassReset
<1>4. ASSUME NEW d \in Device PROVE Knowing(d)
  <2>1. Cfg[d].grace \in Nat
    BY ConfigurationOf DEF Configuration
  <2>2. dev[d].standby = StandbyReset /\ ~dev[d].targetSeen
    BY <1>2, <1>3
  <2> QED BY <2>1, <2>2 DEF Knowing, StandbyReset
<1>5. ASSUME NEW d \in Device, NEW k \in Slot PROVE ~(dev[d].retx[k].left > 0)
  BY <1>2, <1>3 DEF EmptySlot
<1>6. Encouraging /\ OneDeath
  BY <1>1, <1>5 DEF Encouraging, OneDeath
<1> QED BY <1>1, <1>4, <1>6 DEF DeadlineInv

LEMMA DeadlineStep ==
  ASSUME OneLayer, Calm, Covered, IInv, LayerInv, DeadlineInv, [Next]_vars
  PROVE  DeadlineInv'
<1>1. ASSUME NEW d \in Device, LoopStep(d) PROVE DeadlineInv'
  BY <1>1, LoopDeadline
<1>2. ASSUME NEW d \in Device, Receive(d) PROVE DeadlineInv'
  BY <1>2, ReceiveDeadline
<1>3. ASSUME NEW d \in Device, Crash(d) PROVE DeadlineInv'
  BY <1>3, CrashDeadline
<1>4. ASSUME NEW r \in Receiver, Lose(r) PROVE DeadlineInv'
  BY <1>4 DEF Lose, Covered
<1>5. CASE StartRun
  BY <1>5, BeginDeadline
<1>6. CASE LaptopReceive
  BY <1>6, CollectDeadline
<1>7. CASE StopWaiting \/ FinishRun
  BY <1>7, WaitOver
<1>8. CASE Tick
  BY <1>8, TickDeadline
<1>9. CASE UNCHANGED vars
  BY <1>9 DEF vars, DeadlineInv, Encouraging, OneDeath, Knowing, Delivered, Reported,
     Prompt, OnTime, Following, Complete, Obtained, Arriving, Filed, Announced,
     HeardOf, Spoke, Received
<1> QED BY <1>1, <1>2, <1>3, <1>4, <1>5, <1>6, <1>7, <1>8, <1>9 DEF Next

(* In a network of one layer, of any size and with any roles and timeouts  *)
(* that Covered allows, whoever dies and whenever: while the laptop waits, *)
(* whoever is yet to speak is on time, and a standby whose target is yet to*)
(* be heard of follows the round, so that its grace, begun at the latest   *)
(* with the last stall, ends before the laptop's deadline                  *)
(* (maybeReleaseStalledTurn, NNBackupStandby::tick).                       *)
THEOREM DeadlineKept == OneLayer /\ Calm /\ Covered => (Spec => []DeadlineInv)
<1> SUFFICES ASSUME OneLayer, Calm, Covered PROVE Spec => []DeadlineInv
  OBVIOUS
<1>1. Init => DeadlineInv
  BY DeadlineInit
<1>2. IInv /\ LayerInv /\ DeadlineInv /\ [Next]_vars => DeadlineInv'
  BY DeadlineStep
<1> QED BY <1>1, <1>2, PlayedInStep, Invariance, PTL DEF Spec

(* No run is lost to a death: when the laptop ends its run, every node of  *)
(* the terminal layer, or its substitute, has answered                     *)
(* (run_inference_on_devices, computeSubstituteOutput).                    *)
THEOREM NoRunLost == OneLayer /\ Calm /\ Covered => (Spec => RunsComplete)
<1> SUFFICES ASSUME OneLayer, Calm, Covered PROVE Spec => RunsComplete
  OBVIOUS
<1> DEFINE EndsComplete == RunEnds => Complete
<1>1. DeadlineInv => [EndsComplete]_vars
  BY DEF DeadlineInv, RunEnds
<1>2. RunsComplete <=> [][EndsComplete]_vars
  BY DEF RunsComplete
<1> HIDE DEF EndsComplete
<1> QED BY <1>1, <1>2, DeadlineKept, PTL

(* And it knows who stood in for whom: every substitution made in the run  *)
(* has reached it as a report before it closes its socket                  *)
(* (buildFailoverReport, runtime.py:162).                                  *)
THEOREM NoSilentSubstitute ==
  OneLayer /\ Calm /\ Covered => (Spec => SubstitutionsReported)
<1> SUFFICES ASSUME OneLayer, Calm, Covered PROVE Spec => SubstitutionsReported
  OBVIOUS
<1> DEFINE EndsReported == RunEnds => \A s \in spoken : s.by # s.as =>
             \E r \in lap.reports : r.failed = s.as /\ r.backup = s.by
<1>1. ASSUME IInv, DeadlineInv, [Next]_vars, RunEnds PROVE EndsReported
  <2>1. FinishRun
    <3>1. lap'.phase # lap.phase /\ lap.phase = "draining" /\ lap'.phase = "idle"
          /\ lap \in Client
      BY <1>1 DEF RunEnds, IInv, TypeOK
    <3>2. ASSUME NEW p PROVE lap' # Absorb(p)
      BY <3>1, AbsorbDone DEF Absorbed
    <3>3. ~Tick /\ ~StartRun /\ ~StopWaiting
      BY <3>1 DEF Tick, StartRun, StopWaiting, Client
    <3> QED BY <1>1, <3>1, <3>2, <3>3
            DEF Next, vars, Receive, LoopStep, Crash, Lose, LaptopReceive
  <2>2. net[Laptop] = {}
    BY <2>1 DEF FinishRun, Calm
  <2>3. Reported
    BY <1>1 DEF DeadlineInv, RunEnds
  <2> QED BY <2>2, <2>3 DEF Reported, Filed, Announced
<1>2. IInv /\ DeadlineInv /\ [Next]_vars => [EndsReported]_vars
  BY <1>1
<1>3. SubstitutionsReported <=> [][EndsReported]_vars
  BY DEF SubstitutionsReported
<1> HIDE DEF EndsReported
<1> QED BY <1>2, <1>3, DeadlineKept, Invariance, PTL DEF Spec

-----------------------------------------------------------------------------
(* The layer and the laptop keep the promise of LayerRun.  A report tells  *)
(* of a substitute that was sent, and a backup that has waited a tick for  *)
(* its target knows whether it has spoken.                                 *)
Vouched(p) == p.src # p.about /\ [by |-> p.src, as |-> p.about] \in spoken

Mute(b) ==
  /\ dev[b].standby.resendRequested /\ dev[b].standby.waited > 0
  /\ ~dev[b].standby.targetObserved
  => ~Spoke(Cfg[b].target)

PromiseInv ==
  /\ \A p \in net[Laptop] : Report(p) => Vouched(p)
  /\ \A d \in Device : \A k \in Slot :
       dev[d].retx[k].left > 0 /\ Report(dev[d].retx[k].pkt) =>
         Vouched(dev[d].retx[k].pkt)
  /\ \A b \in alive : Mute(b)

LEMMA PromiseInit == OneLayer /\ Init => PromiseInv
<1> SUFFICES ASSUME OneLayer, Init PROVE PromiseInv
  OBVIOUS
<1>1. LayerInv /\ lap.run = 0
  BY LayerInit DEF Init
<1>2. /\ \A r \in Receiver : net[r] = {}
      /\ \A d \in Device : Resting(dev[d])
  BY <1>1 DEF LayerInv, AskInv, AtRest
<1>3. alive \subseteq Device
  BY DEF Init
<1> QED BY <1>2, <1>3 DEF PromiseInv, Mute, Resting, Receiver

LEMMA LoopPromise ==
  ASSUME OneLayer, Covered, IInv, LayerInv, PromiseInv, NEW d \in Device, LoopStep(d)
  PROVE  PromiseInv'
<1> DEFINE c == Cfg[d]
           s == dev[d]
<1>1. PICK u, v : Iterated(d, u, v)
  BY LoopIterated
<1>2. /\ StepTaken(c, s, u) /\ StepWatched(c, s, u) /\ UNCHANGED <<alive, lap, faults>>
      /\ dev' = [dev EXCEPT ![d] = v] /\ v.retx = u.retx /\ v.standby = u.standby
      /\ d \in alive /\ c.addr = d
      /\ net' = [r \in Receiver |-> net[r] \cup {p \in u.sent : Hears(d, r, p)}]
      /\ Laptop \in Receiver /\ Spoken(d) /\ SpokenAfter(d, u) /\ SaysTrue(d, u)
      /\ spoken \subseteq spoken' /\ alive \subseteq Device
  BY <1>1 DEF Iterated, LoopEffect, SameOthers, LayerInv, Sound, Receiver, OneLayer,
     IInv, TypeOK
<1>3. \A p : Vouched(p) => Vouched(p)'
  BY <1>2 DEF Vouched
<1>4. ASSUME NEW p \in u.sent, Report(p) PROVE Vouched(p)'
  <2>1. CASE \E k \in Slot : Again(s.retx[k], p)
    <3>1. PICK k \in Slot : Again(s.retx[k], p)
      BY <2>1
    <3>2. PICK q : q = s.retx[k].pkt
      OBVIOUS
    <3>3. s.retx[k].left > 0 /\ p = [q EXCEPT !.copy = Copies - s.retx[k].left]
      BY <3>1, <3>2 DEF Again
    <3>4. q \in Packet
      BY <3>2, <3>3 DEF IInv, DeviceInv, SlotsLoaded
    <3>5. p.flag = q.flag /\ p.type = q.type /\ p.src = q.src /\ p.about = q.about
      BY <3>3, <3>4 DEF Packet
    <3>6. Vouched(q)
      BY <1>4, <3>2, <3>3, <3>5 DEF PromiseInv, Report
    <3> QED BY <1>3, <3>5, <3>6 DEF Vouched
  <2>2. CASE ~\E k \in Slot : Again(s.retx[k], p)
    <3>1. p.src = d /\ p.about = c.target /\ Judges(c, s)
      BY <1>2, <1>4, <2>2 DEF StepTaken, MaySend, Report
    <3>2. PICK x \in u.sent : x.type = "DATA" /\ x.src = c.target
      BY <1>2, <3>1 DEF StepWatched, Substituted
    <3>3. [by |-> d, as |-> c.target] \in spoken'
      BY <1>2, <3>2 DEF SpokenAfter
    <3>4. c.target # d
      BY <3>1 DEF Judges, Unjudged, Watches, IsStandby, OneLayer
    <3> QED BY <3>1, <3>3, <3>4 DEF Vouched
  <2> QED BY <2>1, <2>2
<1>5. \A p \in net'[Laptop] : Report(p) => Vouched(p)'
  BY <1>2, <1>3, <1>4 DEF PromiseInv
<1>6. ASSUME NEW e \in Device, NEW k \in Slot
      PROVE  (dev[e].retx[k].left > 0 /\ Report(dev[e].retx[k].pkt) =>
                Vouched(dev[e].retx[k].pkt))'
  <2>1. CASE e = d
    <3>1. dev'[e] = v
      BY <1>2, <2>1 DEF IInv, TypeOK
    <3>2. PICK q : q = u.retx[k].pkt
      OBVIOUS
    <3>3. dev'[e].retx[k].pkt = q /\ dev'[e].retx[k].left = u.retx[k].left
      BY <1>2, <3>1, <3>2
    <3>4. ASSUME u.retx[k].left > 0, Report(q) PROVE Vouched(q)'
      <4>1. q \in u.sent \/ (s.retx[k].left > 0 /\ q = s.retx[k].pkt)
        BY <1>2, <3>2, <3>4 DEF StepTaken
      <4> QED BY <1>3, <1>4, <3>4, <4>1 DEF PromiseInv
    <3> QED BY <3>3, <3>4 DEF Vouched
  <2>2. CASE e # d
    <3>1. dev'[e] = dev[e]
      BY <1>2, <2>2 DEF IInv, TypeOK
    <3>2. dev[e].retx[k].left > 0 /\ Report(dev[e].retx[k].pkt) =>
            Vouched(dev[e].retx[k].pkt)
      BY DEF PromiseInv
    <3> QED BY <1>2, <3>1, <3>2 DEF Vouched
  <2> QED BY <2>1, <2>2
<1>7. ASSUME NEW b \in alive PROVE Mute(b)'
  <2>1. Mute(b) /\ Answered(b) /\ b \in Device
    BY <1>2 DEF PromiseInv, LayerInv, Sound
  <2>2. CASE b = d
    <3>1. dev'[b].standby = u.standby
      BY <1>2, <2>2 DEF IInv, TypeOK
    <3>2. CASE PassCloses(c, s, u)
      <4>1. u.standby = StandbyReset
        BY <3>2 DEF PassCloses, PassReset
      <4> QED BY <3>1, <4>1 DEF Mute, StandbyReset
    <3>3. CASE PassContinues(c, s, u)
      <4>1. /\ u.standby.targetObserved = s.standby.targetObserved
            /\ u.standby.resendRequested /\ u.standby.waited > 0 =>
                 s.standby.resendRequested /\ s.standby.waited > 0
        BY <3>3 DEF PassContinues
      <4>2. s.standby.resendRequested => c.target \in Device \ {d}
        BY <2>1, <2>2 DEF LayerInv, Sound, Judged, IsStandby, OneLayer
      <4>3. s.standby.resendRequested => (Spoke(c.target)' <=> Spoke(c.target))
        BY <1>2, <4>2 DEF SpokenAfter
      <4> QED BY <2>1, <2>2, <3>1, <4>1, <4>3 DEF Mute
    <3> QED BY <1>2, <3>2, <3>3 DEF StepTaken
  <2>3. CASE b # d
    <3>1. dev'[b] = dev[b]
      BY <1>2, <2>1, <2>3 DEF IInv, TypeOK
    <3>2. dev[b].standby.resendRequested => Cfg[b].target \in Device
      BY <2>1 DEF LayerInv, Sound, Judged, IsStandby, OneLayer
    <3>3. CASE Cfg[b].target = d
      BY <1>2, <2>1, <3>1, <3>3 DEF Answered, Mute
    <3>4. CASE Cfg[b].target # d
      BY <1>2, <2>1, <3>1, <3>2, <3>4 DEF Mute, SpokenAfter
    <3> QED BY <3>3, <3>4
  <2> QED BY <2>2, <2>3
<1> QED BY <1>2, <1>5, <1>6, <1>7 DEF PromiseInv

LEMMA TickPromise ==
  ASSUME OneLayer, Calm, IInv, LayerInv, PromiseInv, Tick
  PROVE  PromiseInv'
<1>1. /\ \A d \in Device : IF d \in alive THEN TimePassed(Cfg[d], dev[d], dev'[d])
                           ELSE dev'[d] = dev[d]
      /\ UNCHANGED <<alive, net, spoken>> /\ alive \subseteq Device
  BY TickEffect DEF IInv, TypeOK
<1>2. ASSUME NEW d \in Device, NEW k \in Slot
      PROVE  dev'[d].retx[k].left = dev[d].retx[k].left
             /\ dev'[d].retx[k].pkt = dev[d].retx[k].pkt
  BY <1>1 DEF TimePassed
<1>3. ASSUME NEW b \in alive PROVE Mute(b)'
  <2> SUFFICES ASSUME dev'[b].standby.resendRequested, ~dev'[b].standby.targetObserved
               PROVE  ~Spoke(Cfg[b].target)
    BY <1>1 DEF Mute, Spoke
  <2>1. /\ b \in Device /\ dev[b].standby.resendRequested
        /\ ~dev[b].standby.targetObserved
    BY <1>1 DEF TimePassed
  <2>2. lap.run = 1
    <3>1. lap.run \in 0..1
      BY RunAssumption DEF IInv, TypeOK, Client, Calm
    <3> QED BY <2>1, <3>1 DEF LayerInv, AskInv, AtRest, Resting
  <2>3. IsStandby(Cfg[b]) /\ dev[b].sched.state # "WAITING_FOR_INPUT"
    BY <2>1 DEF LayerInv, Sound, Judged
  <2>4. net[b] = {}
    BY TickQuiet DEF Quiet
  <2> QED BY <2>1, <2>2, <2>3, <2>4 DEF LayerInv, Playing, Watching, Arriving
<1> QED BY <1>1, <1>2, <1>3 DEF PromiseInv, Vouched

LEMMA PromiseStep ==
  ASSUME OneLayer, Calm, Covered, IInv, LayerInv, PromiseInv, [Next]_vars
  PROVE  PromiseInv'
<1>1. ASSUME NEW d \in Device, LoopStep(d) PROVE PromiseInv'
  BY <1>1, LoopPromise
<1>2. ASSUME NEW d \in Device, Receive(d) PROVE PromiseInv'
  <2>1. PICK p, u : PacketEffect(d, p, u)
    BY <1>2, ReceiveEffect
  <2>2. /\ UNCHANGED <<alive, lap, spoken>> /\ dev' = [dev EXCEPT ![d] = u]
        /\ PacketTaken(Cfg[d], dev[d], p, u) /\ Deliver(d, p) /\ alive \subseteq Device
    BY <2>1 DEF PacketEffect, IInv, TypeOK
  <2>3. net'[Laptop] \subseteq net[Laptop]
    BY <2>2 DEF Deliver, IInv, TypeOK, Receiver
  <2>4. ASSUME NEW e \in Device PROVE dev'[e].retx = dev[e].retx
    BY <2>2 DEF PacketTaken, IInv, TypeOK
  <2>5. ASSUME NEW b \in alive PROVE Mute(b)'
    <3>1. /\ dev'[b].standby.resendRequested = dev[b].standby.resendRequested
          /\ dev'[b].standby.waited = dev[b].standby.waited
          /\ dev[b].standby.targetObserved => dev'[b].standby.targetObserved
      BY <2>2 DEF PacketTaken, Unjudging, IInv, TypeOK
    <3> QED BY <2>2, <3>1 DEF PromiseInv, Mute, Spoke
  <2> QED BY <2>2, <2>3, <2>4, <2>5 DEF PromiseInv, Vouched
<1>3. CASE StartRun
  <2>1. lap.run = 0 /\ UNCHANGED <<dev, alive>> /\ alive \subseteq Device
    BY <1>3, RunAssumption DEF StartRun, Calm, IInv, TypeOK, Client
  <2>2. /\ \A r \in Receiver : net[r] = {}
        /\ \A d \in Device : Resting(dev[d])
    BY <2>1 DEF LayerInv, AskInv, AtRest
  <2>3. ASSUME NEW p \in net'[Laptop] PROVE ~Report(p)
    <3>1. Laptop \in Receiver /\ net[Laptop] = {}
      BY <2>2 DEF Receiver
    <3>2. PICK i \in Inputs : p = [DataPacket(Source(i), "none", {lap.run + 1})
                                     EXCEPT !.group = 1]
      BY <1>3, <2>3, <3>1 DEF StartRun, Multicast
    <3> QED BY <3>2 DEF DataPacket, Report
  <2> QED BY <2>1, <2>2, <2>3 DEF PromiseInv, Mute, Resting
<1>4. CASE Tick
  BY <1>4, TickPromise
<1>5. CASE Bystanding
  <2>1. Laptop \in Receiver
    BY DEF Receiver
  <2> QED BY <1>5, <2>1 DEF Bystanding, PromiseInv, Vouched, Mute, Spoke
<1> QED BY <1>1, <1>2, <1>3, <1>4, <1>5, OthersBystand

LEMMA PromiseInvariant == OneLayer /\ Calm /\ Covered => (Spec => []PromiseInv)
<1> SUFFICES ASSUME OneLayer, Calm, Covered PROVE Spec => []PromiseInv
  OBVIOUS
<1>1. Init => PromiseInv
  BY PromiseInit
<1>2. IInv /\ LayerInv /\ PromiseInv /\ [Next]_vars => PromiseInv'
  BY PromiseStep
<1> QED BY <1>1, <1>2, PlayedInStep, Invariance, PTL DEF Spec

(* Every step of the code's is one of the promise's, or none.  Only a loop *)
(* iteration is heard: a device speaks for itself or, when its grace is    *)
(* over, for a target that is dead and has been silent.                    *)
LEMMA SpeechPromised ==
  ASSUME OneLayer, Covered, IInv, LayerInv, PromiseInv, NEW d \in Device, LoopStep(d)
  PROVE  Promise!Speak(d)
<1> DEFINE c == Cfg[d]
           s == dev[d]
<1>1. PICK u, v : Iterated(d, u, v)
  BY LoopIterated
<1>2. /\ UNCHANGED <<alive, lap>> /\ d \in alive /\ spoken \subseteq spoken'
      /\ Spoken(d) /\ Answered(d) /\ Mute(d) /\ SaysTrue(d, u)
      /\ spoken' \subseteq [by : Device, as : Address]
  BY <1>1, LoopStepInv DEF Iterated, LoopEffect, LayerInv, Sound, PromiseInv, IInv, TypeOK
<1>3. Judges(c, s) => c.target \in Promise!Silent
  <2> SUFFICES ASSUME Judges(c, s) PROVE c.target \in Promise!Silent
    OBVIOUS
  <2>1. /\ IsStandby(c) /\ s.standby.resendRequested /\ ~s.standby.targetObserved
        /\ s.standby.waited >= c.grace
    BY DEF Judges, Unjudged, Watches
  <2>2. c.target \in Device /\ c.grace > 0 /\ c.grace \in Nat
    BY <2>1, ConfigurationOf DEF IsStandby, OneLayer, Configuration
  <2>3. s.standby.waited > 0
    BY <2>1, <2>2 DEF IInv, TypeOK, DeviceState, Standby
  <2>4. c.target \notin alive /\ ~Spoke(c.target)
    BY <1>2, <2>1, <2>3 DEF Mute, SaysTrue
  <2> QED BY <2>2, <2>4 DEF Promise!Silent, Promise!Own, Spoke
<1>4. PICK new : new = {w \in spoken' : w \notin spoken}
  OBVIOUS
<1>5. ASSUME NEW w \in new
      PROVE  w = [by |-> d, as |-> w.as] /\ w.as \in {d} \cup Promise!Silent
  <2>1. w.by = d /\ (w.as = d \/ (w.as = c.target /\ Judges(c, s)))
    BY <1>1, <1>2, <1>4, VoiceGiven DEF Iterated
  <2>2. w \in [by : Device, as : Address]
    BY <1>2, <1>4
  <2> QED BY <1>3, <2>1, <2>2
<1>6. PICK heard : heard = {w.as : w \in new}
  OBVIOUS
<1>7. heard \in SUBSET ({d} \cup Promise!Silent)
  BY <1>5, <1>6
<1>8. new = {[by |-> d, as |-> a] : a \in heard}
  <2>1. ASSUME NEW w \in new PROVE w \in {[by |-> d, as |-> a] : a \in heard}
    BY <1>5, <1>6
  <2>2. ASSUME NEW a \in heard PROVE [by |-> d, as |-> a] \in new
    <3>1. PICK w \in new : a = w.as
      BY <1>6
    <3> QED BY <1>5, <3>1
  <2> QED BY <2>1, <2>2
<1>9. spoken' = spoken \cup {[by |-> d, as |-> a] : a \in heard}
  BY <1>2, <1>4, <1>8
<1> QED BY <1>2, <1>7, <1>9 DEF Promise!Speak

(* What the laptop files was said: the answer of a slot, or a substitute.  *)
LEMMA FilingPromised ==
  ASSUME OneLayer, Calm, Covered, IInv, LayerInv, PromiseInv, LaptopReceive
  PROVE  [Promise!RunNext]_(Promise!runVars)
<1>1. PICK p \in net[Laptop] : /\ Deliver(Laptop, p)
                               /\ lap' = IF lap.phase = "idle" THEN lap ELSE Absorb(p)
  BY DEF LaptopReceive
<1>2. Laptop \in Receiver /\ lap \in Client /\ UNCHANGED <<dev, alive, spoken>>
  BY DEF LaptopReceive, Receiver, IInv, TypeOK
<1>3. p \in Packet
  BY <1>2 DEF IInv, TypeOK
<1> DEFINE answered == {a.key : a \in lap.answers}
           logged == {[by |-> r.backup, as |-> r.failed] : r \in lap.reports}
<1>4. CASE lap' = lap
  BY <1>2, <1>4 DEF Promise!runVars
<1>5. CASE lap.phase # "idle" /\ Absorbed(p, lap') /\ Answering(p)
  <2>1. HeardOf(p.src)
    BY <1>2, <1>5 DEF Answering, LayerInv, AskInv, Truthful, OneLayer
  <2>2. PICK w \in spoken : w.as = p.src
    BY <2>1 DEF HeardOf
  <2>3. /\ lap'.reports = lap.reports /\ lap'.phase = lap.phase
        /\ lap'.answers = {a \in lap.answers : a.key # p.src} \cup
                            {[key |-> p.src, value |-> p.value]}
    BY <1>5 DEF Absorbed, Answering
  <2>4. answered' = answered \cup {p.src}
    <3>1. ASSUME NEW k \in answered PROVE k \in answered' \/ k = p.src
      BY <2>3
    <3>2. ASSUME NEW k \in answered' PROVE k \in answered \/ k = p.src
      BY <2>3
    <3>3. p.src \in answered'
      <4>1. [key |-> p.src, value |-> p.value] \in lap'.answers
        BY <2>3
      <4>2. [key |-> p.src, value |-> p.value].key = p.src
        OBVIOUS
      <4> QED BY <4>1, <4>2
    <3> QED BY <3>1, <3>2, <3>3
  <2>5. Promise!File(w)
    BY <1>2, <1>5, <2>2, <2>3, <2>4 DEF Promise!File
  <2> QED BY <2>2, <2>5 DEF Promise!RunNext
<1>6. CASE lap.phase # "idle" /\ Absorbed(p, lap') /\ Report(p)
  <2>1. PICK w : w = [by |-> p.src, as |-> p.about]
    OBVIOUS
  <2>2. Vouched(p) /\ w.by # w.as /\ w \in spoken
    BY <1>6, <2>1 DEF PromiseInv, Vouched
  <2>3. /\ lap'.answers = lap.answers /\ lap'.phase = lap.phase
        /\ lap'.reports = lap.reports \cup {Filing(p)}
    BY <1>6 DEF Absorbed, Answering
  <2>4. Filing(p).backup = p.src /\ Filing(p).failed = p.about
    BY DEF Filing
  <2>5. logged' = logged \cup {w}
    <3>1. ASSUME NEW x \in logged PROVE x \in logged'
      BY <2>3
    <3>2. ASSUME NEW x \in logged' PROVE x \in logged \/ x = w
      BY <2>1, <2>3, <2>4
    <3>3. w \in logged'
      <4>1. Filing(p) \in lap'.reports
        BY <2>3
      <4> QED BY <2>1, <2>4, <4>1
    <3> QED BY <3>1, <3>2, <3>3
  <2>6. Promise!File(w)
    BY <1>2, <1>6, <2>2, <2>3, <2>5 DEF Promise!File, Promise!Substitutions
  <2> QED BY <2>2, <2>6 DEF Promise!RunNext
<1>7. CASE lap.phase # "idle" /\ Absorbed(p, lap') /\ ~Answering(p) /\ ~Report(p)
  BY <1>2, <1>7 DEF Absorbed, Promise!runVars
<1>8. lap' = lap \/ (lap.phase # "idle" /\ Absorbed(p, lap'))
  BY <1>1, <1>2, AbsorbDone
<1> QED BY <1>4, <1>5, <1>6, <1>7, <1>8

LEMMA RunPromised ==
  ASSUME OneLayer, Calm, Covered, IInv, LayerInv, DeadlineInv, PromiseInv, [Next]_vars
  PROVE  [Promise!RunNext]_(Promise!runVars)
<1>1. ASSUME NEW d \in Device, LoopStep(d)
      PROVE  [Promise!RunNext]_(Promise!runVars)
  BY <1>1, SpeechPromised DEF Promise!RunNext
<1>2. ASSUME NEW d \in Device, Crash(d)
      PROVE  [Promise!RunNext]_(Promise!runVars)
  <2>1. Promise!Die(d)
    BY <1>2 DEF Crash, Promise!Die
  <2> QED BY <2>1 DEF Promise!RunNext
<1>3. CASE StartRun
  <2>1. Promise!Begin
    BY <1>3 DEF StartRun, Promise!Begin
  <2> QED BY <2>1 DEF Promise!RunNext
<1>4. CASE LaptopReceive
  BY <1>4, FilingPromised
<1>5. CASE StopWaiting
  <2>1. lap'.phase = "draining" /\ lap'.answers = lap.answers /\ lap'.reports = lap.reports
    BY <1>5 DEF StopWaiting, IInv, TypeOK, Client
  <2>2. Complete
    BY <1>5 DEF StopWaiting, DeadlineInv, Encouraging, Prompt
  <2>3. Promise!StopWaiting
    BY <1>5, <2>1, <2>2 DEF StopWaiting, Promise!StopWaiting, Complete
  <2> QED BY <2>3 DEF Promise!RunNext
<1>6. CASE FinishRun
  <2>1. lap'.phase = "idle" /\ lap'.answers = lap.answers /\ lap'.reports = lap.reports
    BY <1>6 DEF FinishRun, IInv, TypeOK, Client
  <2>2. Complete /\ Reported /\ net[Laptop] = {}
    BY <1>6 DEF FinishRun, DeadlineInv, Calm
  <2>3. ASSUME NEW w \in Promise!Substitutions
        PROVE  w \in {[by |-> r.backup, as |-> r.failed] : r \in lap.reports}
    <3>1. w \in spoken /\ w.by # w.as /\ w \in [by : Device, as : Address]
      BY <2>3 DEF Promise!Substitutions, IInv, TypeOK
    <3>2. PICK r \in lap.reports : r.failed = w.as /\ r.backup = w.by
      BY <2>2, <3>1 DEF Reported, Filed, Announced
    <3> QED BY <3>1, <3>2
  <2>4. Promise!Close
    BY <1>6, <2>1, <2>2, <2>3 DEF FinishRun, Promise!Close, Complete
  <2> QED BY <2>4 DEF Promise!RunNext
<1>7. CASE Tick
  <2>1. lap'.phase = lap.phase
    BY <1>7 DEF Tick, IInv, TypeOK, Client
  <2>2. lap'.answers = lap.answers /\ lap'.reports = lap.reports /\ UNCHANGED <<alive, spoken>>
    BY <1>7, TickEffect
  <2> QED BY <2>1, <2>2 DEF Promise!runVars
<1>8. CASE (\E d \in Device : Receive(d)) \/ (\E r \in Receiver : Lose(r)) \/ UNCHANGED vars
  BY <1>8 DEF Receive, Lose, vars, Promise!runVars
<1> QED BY <1>1, <1>2, <1>3, <1>4, <1>5, <1>6, <1>7, <1>8 DEF Next

(* A run of one layer is what LayerRun promises the laptop: whatever       *)
(* packets, clocks and deaths come between, nobody is spoken for who lives *)
(* or has spoken, nothing is filed that was not said, the wait ends with   *)
(* every answer and the socket closes with every substitution filed        *)
(* (NNFailover.h, run_inference_on_devices).                               *)
THEOREM LayerKeepsPromise == OneLayer /\ Calm /\ Covered => (Spec => RunAsPromised)
<1> SUFFICES ASSUME OneLayer, Calm, Covered PROVE Spec => RunAsPromised
  OBVIOUS
<1>1. Init => Promise!RunInit
  BY DEF Init, Promise!RunInit
<1>2. IInv /\ LayerInv /\ DeadlineInv /\ PromiseInv /\ [Next]_vars
      => [Promise!RunNext]_(Promise!runVars)
  BY RunPromised
<1> QED BY <1>1, <1>2, PromiseInvariant, DeadlineKept, PlayedInStep, Invariance, PTL
        DEF Spec, RunAsPromised, Promise!RunSpec
=============================================================================
