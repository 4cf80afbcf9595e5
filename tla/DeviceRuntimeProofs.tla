------------------------ MODULE DeviceRuntimeProofs ------------------------
(***************************************************************************)
(* What every operation of a device keeps true of it, whatever packets it  *)
(* is handed and however its clock runs.                                   *)
(***************************************************************************)
EXTENDS DeviceRuntime, NNFailoverProofs

(* A retransmission that is due has a packet to repeat.                    *)
SlotsLoaded(s) == \A k \in Slot : s.retx[k].left > 0 => s.retx[k].pkt \in Packet

(* The standby has every input of the target the node itself has.          *)
StandbyFollows(c, s) ==
  IsStandby(c) /\ MirrorsOwnInputs(c) =>
    s.sched.node.buffer.received \cap c.tpred \subseteq s.standby.buffer.received

PastInputs(c, s) ==
  s.sched.state # "WAITING_FOR_INPUT" => IsComplete(s.sched.node.buffer, c.pred)

NotTornDown(c, s) == MirrorsOwnInputs(c) => ~s.standby.hasTornDown

DeviceInv(c, s) ==
  /\ s \in DeviceState
  /\ SlotsLoaded(s) /\ StandbyFollows(c, s)
  /\ PastInputs(c, s) /\ NotTornDown(c, s)

-----------------------------------------------------------------------------
(* Type lemmas for the scheduler.                                          *)
LEMMA NodeReceiveType ==
  ASSUME NEW c \in Configuration, NEW n \in Node, NEW p \in Packet
  PROVE  /\ NodeReceive(c, n, p) \in Node
         /\ n.buffer.received \subseteq NodeReceive(c, n, p).buffer.received
<1>1. p.src.node \in NodeId /\ p.value \in Value
  BY DEF Packet, Address
<1>2. n.buffer \in InputBuffer
  BY DEF Node
<1>3. StoreInput(n.buffer, p.src.node, p.value) \in InputBuffer
  BY <1>1, <1>2, StoreInputType
<1>4. n.buffer.received \subseteq StoreInput(n.buffer, p.src.node, p.value).received
  BY DEF StoreInput
<1> QED BY <1>1, <1>2, <1>3, <1>4 DEF NodeReceive, Node

LEMMA SchedulerTickType ==
  ASSUME NEW c \in Configuration, NEW s \in Scheduler
  PROVE  /\ SchedulerTick(c, s) \in Scheduler
         /\ SchedulerTick(c, s).node.buffer = s.node.buffer
         /\ SchedulerTick(c, s).state # "WAITING_FOR_INPUT" =>
              \/ s.state # "WAITING_FOR_INPUT"
              \/ IsComplete(s.node.buffer, c.pred)
<1>1. Execute(c, s.node) \in Node /\ Execute(c, s.node).buffer = s.node.buffer
  <2>1. Gathered(s.node.buffer, c.pred) \in Value
    BY GatheredIsValue DEF Configuration, Scheduler, Node
  <2> QED BY <2>1 DEF Execute, Scheduler, Node
<1> QED BY <1>1 DEF SchedulerTick, Scheduler, NodeState, ReadyToExecute

LEMMA SiblingObservedType ==
  ASSUME NEW c \in Configuration, NEW s \in Scheduler, NEW a \in Address
  PROVE  /\ SiblingObserved(c, s, a) \in Scheduler
         /\ SiblingObserved(c, s, a).node = s.node
         /\ SiblingObserved(c, s, a).state = s.state
BY DEF SiblingObserved, Scheduler, Address

-----------------------------------------------------------------------------
(* The initial and the closed pass.                                        *)
LEMMA PassResetInv ==
  ASSUME NEW c \in Configuration
  PROVE  DeviceInv(c, PassReset)
<1>1. SchedulerReset \in Scheduler
  BY DEF SchedulerReset, Scheduler, NodeState, NodeReset, Node, EmptyBuffer,
     InputBuffer, Value, NoValue
<1>2. [k \in Slot |-> EmptySlot] \in [Slot -> RetxSlot]
  BY DEF EmptySlot, RetxSlot, Copies
<1>3. PassReset \in DeviceState
  BY <1>1, <1>2, ResetType DEF PassReset, DeviceState, NoReply, Responder, Value, NoValue
<1>4. /\ PassReset.sched.state = "WAITING_FOR_INPUT"
      /\ PassReset.sched.node.buffer.received = {}
      /\ PassReset.standby.hasTornDown = FALSE
      /\ \A k \in Slot : PassReset.retx[k].left = 0
  BY DEF PassReset, SchedulerReset, NodeReset, EmptyBuffer, StandbyReset, EmptySlot
<1> QED BY <1>3, <1>4 DEF DeviceInv, SlotsLoaded, StandbyFollows, PastInputs,
           NotTornDown

LEMMA StartRuntimeInv ==
  ASSUME NEW c \in Configuration
  PROVE  DeviceInv(c, StartRuntime(c))
<1>1. CASE PassManaged(c) \/ ~c.seeded
  BY <1>1, PassResetInv DEF StartRuntime
<1>2. CASE ~PassManaged(c) /\ c.seeded
  <2> DEFINE n == SeedOutput(NodeReset, c.seed)
             q == NotifySeeded([SchedulerReset EXCEPT !.node = n])
  <2>1. StartRuntime(c) = [PassReset EXCEPT !.sched = q]
    BY <1>2 DEF StartRuntime, PassReset, SchedulerReset
  <2>2. NodeReset \in Node /\ NodeReset.buffer = EmptyBuffer
    BY DEF NodeReset, Node, EmptyBuffer, InputBuffer, Value, NoValue
  <2>3. n \in Node /\ n.buffer = EmptyBuffer
    BY <2>2 DEF SeedOutput, Node, Configuration
  <2>4. q \in Scheduler /\ q.node.buffer = EmptyBuffer
    BY <2>3 DEF NotifySeeded, SchedulerReset, Scheduler, NodeState
  <2>5. c.pred = {}
    BY <1>2 DEF PassManaged
  <2>6. StartRuntime(c) \in DeviceState
    BY <2>1, <2>4, PassResetInv DEF DeviceInv, DeviceState
  <2>7. /\ StartRuntime(c).standby = PassReset.standby
        /\ StartRuntime(c).retx = PassReset.retx
        /\ StartRuntime(c).sched = q
    BY <2>1 DEF PassReset
  <2>8. EmptyBuffer.received = {}
    BY DEF EmptyBuffer
  <2> QED BY <2>4, <2>5, <2>6, <2>7, <2>8, PassResetInv
          DEF DeviceInv, SlotsLoaded, StandbyFollows, PastInputs, NotTornDown,
              IsComplete
<1> QED BY <1>1, <1>2 DEF PassManaged

-----------------------------------------------------------------------------
(* The fields the invariant looks at, and the condition under which a      *)
(* stage that changes only other fields keeps it.                          *)
LEMMA Framed ==
  ASSUME NEW c \in Configuration, NEW s, NEW t \in DeviceState,
         DeviceInv(c, s),
         t.sched.state = s.sched.state, t.sched.node.buffer = s.sched.node.buffer,
         t.standby.buffer = s.standby.buffer,
         t.standby.hasTornDown = s.standby.hasTornDown,
         SlotsLoaded(t)
  PROVE  DeviceInv(c, t)
BY DEF DeviceInv, StandbyFollows, PastInputs, NotTornDown

(* A received packet.                                                      *)
LEMMA ReceiveDataInv ==
  ASSUME NEW c \in Configuration, NEW s, DeviceInv(c, s), NEW p \in Packet
  PROVE  DeviceInv(c, ReceiveData(c, s, p))
<1> DEFINE t == ReceiveData(c, s, p)
           n == NodeReceive(c, s.sched.node, p)
           b == IF IsStandby(c) THEN StandbyObserve(c, s.standby, p) ELSE s.standby
<1>1. s \in DeviceState /\ s.sched \in Scheduler /\ s.sched.node \in Node
      /\ s.standby \in Standby
  BY DEF DeviceInv, DeviceState, Scheduler
<1>2. n \in Node /\ s.sched.node.buffer.received \subseteq n.buffer.received
  BY <1>1, NodeReceiveType
<1>3. p.src \in Address
  BY DEF Packet
<1>4. /\ SchedulerReceive(c, s.sched, p) \in Scheduler
      /\ SchedulerReceive(c, s.sched, p).node = n
      /\ SchedulerReceive(c, s.sched, p).state = s.sched.state
  <2>1. [s.sched EXCEPT !.node = n] \in Scheduler
    BY <1>1, <1>2 DEF Scheduler
  <2> QED BY <1>1, <1>3, <2>1, SiblingObservedType DEF SchedulerReceive, Scheduler
<1>5. b \in Standby /\ s.standby.buffer.received \subseteq b.buffer.received
      /\ b.hasTornDown = s.standby.hasTornDown
  BY <1>1, ObserveType, ObserveGrows
<1>6. /\ t \in DeviceState /\ t.retx = s.retx /\ t.standby = b
      /\ t.sched = SchedulerReceive(c, s.sched, p)
  BY <1>1, <1>4, <1>5 DEF ReceiveData, DeviceState
<1>7. StandbyFollows(c, t)
  <2> SUFFICES ASSUME IsStandby(c), MirrorsOwnInputs(c)
               PROVE  n.buffer.received \cap c.tpred \subseteq b.buffer.received
    BY <1>4, <1>6 DEF StandbyFollows
  <2>1. s.sched.node.buffer.received \cap c.tpred \subseteq s.standby.buffer.received
    BY DEF DeviceInv, StandbyFollows
  <2>2. CASE p.src.layer # c.predLayer
    BY <1>5, <2>1, <2>2 DEF NodeReceive
  <2>3. CASE p.src.layer = c.predLayer
    <3>1. n.buffer.received = s.sched.node.buffer.received \cup {p.src.node}
      BY <1>1, <2>3 DEF NodeReceive, StoreInput, Node
    <3>2. p.src # c.target /\ p.src.layer = c.tpredLayer
      BY <2>3 DEF MirrorsOwnInputs
    <3>3. p.src.node \in c.tpred => p.src.node \in b.buffer.received
      BY <1>1, <3>2 DEF StandbyObserve, StoreInput, Standby
    <3> QED BY <1>5, <2>1, <3>1, <3>3
  <2> QED BY <2>2, <2>3
<1> QED BY <1>2, <1>4, <1>5, <1>6, <1>7
        DEF DeviceInv, SlotsLoaded, PastInputs, NotTornDown, IsComplete

LEMMA ReceivePacketInv ==
  ASSUME NEW c \in Configuration, NEW s, DeviceInv(c, s), NEW p \in Packet
  PROVE  DeviceInv(c, ReceivePacket(c, s, p))
<1> DEFINE t == [s EXCEPT !.idle = 0,
                          !.locked = IF FromPredecessors(c, p)
                                     THEN LockedAfter(@, p) ELSE @]
<1>1. s \in DeviceState
  BY DEF DeviceInv
<1>2. LockedAfter(s.locked, p) \subseteq NodeId
  BY <1>1 DEF LockedAfter, DeviceState, Packet, Address
<1>3. t \in DeviceState
  BY <1>1, <1>2 DEF DeviceState
<1>4. DeviceInv(c, t)
  <2>1. t.sched = s.sched /\ t.standby = s.standby /\ t.retx = s.retx
    BY <1>1 DEF DeviceState
  <2>2. SlotsLoaded(t)
    BY <2>1 DEF DeviceInv, SlotsLoaded
  <2> QED BY <1>3, <2>1, <2>2, Framed
<1>5. DeviceInv(c, ReceiveData(c, t, p))
  BY <1>4, ReceiveDataInv
<1>6. DeviceInv(c, ReceiveControl(c, t, p))
  <2> DEFINE u == ReceiveControl(c, t, p)
  <2>1. ResponderObserve(c, t.responder, p, t.ownOutputSent, t.myOutputValue)
          \in Responder
    BY <1>3 DEF ResponderObserve, Responder, DeviceState
  <2>2. u \in DeviceState /\ u.sched = t.sched /\ u.standby = t.standby
        /\ u.retx = t.retx
    BY <1>3, <2>1 DEF ReceiveControl, DeviceState
  <2>3. SlotsLoaded(u)
    BY <1>4, <2>2 DEF DeviceInv, SlotsLoaded
  <2> QED BY <1>4, <2>2, <2>3, Framed
<1>7. p.type \in {"DATA", "CONTROL", "TEARDOWN"}
  BY DEF Packet
<1> QED BY <1>4, <1>5, <1>6, <1>7 DEF ReceivePacket

-----------------------------------------------------------------------------
(* The stages of a loop iteration.                                         *)
LEMMA SchedulerStageInv ==
  ASSUME NEW c \in Configuration, NEW s, DeviceInv(c, s)
  PROVE  DeviceInv(c, SchedulerStage(c, s))
<1> DEFINE t == SchedulerStage(c, s)
<1>1. s \in DeviceState /\ s.sched \in Scheduler
  BY DEF DeviceInv, DeviceState
<1>2. /\ t \in DeviceState /\ t.sched = SchedulerTick(c, s.sched)
      /\ t.standby = s.standby /\ t.retx = s.retx
  BY <1>1, SchedulerTickType DEF SchedulerStage, DeviceState
<1> QED BY <1>1, <1>2, SchedulerTickType
        DEF DeviceInv, SlotsLoaded, StandbyFollows, PastInputs, NotTornDown

(* A standby whose inputs follow the node's ticks only when they are       *)
(* complete, so it substitutes and never tears down.                       *)
LEMMA StandbyStageInv ==
  ASSUME NEW c \in Configuration, NEW s, DeviceInv(c, s)
  PROVE  DeviceInv(c, StandbyStage(c, s))
<1> DEFINE t == StandbyStage(c, s)
           b == StandbyTick(c, s.standby)
<1>1. s \in DeviceState /\ s.standby \in Standby
  BY DEF DeviceInv, DeviceState
<1>2. CASE ~(IsStandby(c) /\ s.sched.state # "WAITING_FOR_INPUT")
  BY <1>2 DEF StandbyStage
<1>3. CASE IsStandby(c) /\ s.sched.state # "WAITING_FOR_INPUT"
  <2>1. /\ b \in Standby /\ t \in DeviceState /\ t.standby = b
        /\ t.sched = s.sched /\ t.retx = s.retx
    BY <1>1, <1>3, TickType DEF StandbyStage, DeviceState
  <2>2. b.buffer = s.standby.buffer
    BY <1>1 DEF StandbyTick, Verdict, RequestResend, Substitute, TearDown, Standby
  <2>3. MirrorsOwnInputs(c) => IsComplete(s.standby.buffer, c.tpred)
    BY <1>3 DEF DeviceInv, StandbyFollows, PastInputs, IsComplete, MirrorsOwnInputs
  <2>4. MirrorsOwnInputs(c) => b.hasTornDown = s.standby.hasTornDown
    BY <1>1, <2>3 DEF StandbyTick, Verdict, RequestResend, Substitute, Standby
  <2> QED BY <2>1, <2>2, <2>4
          DEF DeviceInv, SlotsLoaded, StandbyFollows, PastInputs, NotTornDown
<1> QED BY <1>2, <1>3

LEMMA StallStageInv ==
  ASSUME NEW c \in Configuration, NEW s, DeviceInv(c, s)
  PROVE  DeviceInv(c, StallStage(c, s))
<1> DEFINE t == StallStage(c, s)
<1>1. s \in DeviceState /\ s.sched \in Scheduler /\ c.preceding \subseteq NodeId
  BY DEF DeviceInv, DeviceState, Configuration
<1>2. /\ t \in DeviceState /\ t.standby = s.standby /\ t.retx = s.retx
      /\ t.sched.state = s.sched.state /\ t.sched.node = s.sched.node
  BY <1>1 DEF StallStage, DeviceState, Scheduler
<1> QED BY <1>2, Framed DEF DeviceInv, SlotsLoaded

(* Sending changes neither the scheduler nor the standby.                  *)
LEMMA SendOnceInv ==
  ASSUME NEW c \in Configuration, NEW s, DeviceInv(c, s),
         NEW p \in Packet, NEW g \in Group
  PROVE  DeviceInv(c, SendOnce(s, p, g))
<1> DEFINE t == SendOnce(s, p, g)
<1>1. s \in DeviceState
  BY DEF DeviceInv
<1>2. [p EXCEPT !.group = g] \in Packet
  BY DEF Packet
<1>3. /\ t \in DeviceState /\ t.sched = s.sched /\ t.standby = s.standby
      /\ t.retx = s.retx
  BY <1>1, <1>2 DEF SendOnce, DeviceState
<1> QED BY <1>3, Framed DEF DeviceInv, SlotsLoaded

LEMMA SendAndRetransmitInv ==
  ASSUME NEW c \in Configuration, NEW s, DeviceInv(c, s),
         NEW p \in Packet, NEW g \in Group, NEW k \in Slot
  PROVE  DeviceInv(c, SendAndRetransmit(s, p, g, k))
<1> DEFINE u == SendOnce(s, p, g)
           t == SendAndRetransmit(s, p, g, k)
           q == [left |-> Copies - 1, wait |-> 0, pkt |-> [p EXCEPT !.group = g]]
<1>1. DeviceInv(c, u) /\ u \in DeviceState
  BY SendOnceInv DEF DeviceInv
<1>2. [p EXCEPT !.group = g] \in Packet
  BY DEF Packet
<1>3. q \in RetxSlot
  BY <1>2 DEF RetxSlot, Copies
<1>4. /\ t \in DeviceState /\ t.sched = u.sched /\ t.standby = u.standby
      /\ t.retx = [u.retx EXCEPT ![k] = q]
  BY <1>1, <1>3 DEF SendAndRetransmit, DeviceState
<1>5. SlotsLoaded(t)
  <2>1. u.retx \in [Slot -> RetxSlot]
    BY <1>1 DEF DeviceState
  <2> QED BY <1>1, <1>2, <1>4, <2>1 DEF DeviceInv, SlotsLoaded
<1> QED BY <1>1, <1>4, <1>5, Framed

-----------------------------------------------------------------------------
LEMMA ConfiguredGroups ==
  ASSUME NEW c \in Configuration
  PROVE  c.succ \in Group /\ c.addr.layer \in Group /\ DiagGroup \in Group
BY DEF Configuration, Address, Layer, Group, DiagGroup

LEMMA OwnOutputStageInv ==
  ASSUME NEW c \in Configuration, NEW s, DeviceInv(c, s)
  PROVE  DeviceInv(c, OwnOutputStage(c, s))
<1> DEFINE t == [s EXCEPT !.sched = OutputTaken(@), !.ownOutputSent = TRUE,
                          !.myOutputValue = s.sched.node.outputValue]
           p == OutputPacket(c, s.sched)
<1>1. s \in DeviceState /\ s.sched \in Scheduler /\ s.sched.node.outputValue \in Value
  BY DEF DeviceInv, DeviceState, Scheduler, Node
<1>2. CASE ~OutputReady(s.sched)
  BY <1>2 DEF OwnOutputStage
<1>3. CASE OutputReady(s.sched)
  <2>1. p \in Packet
    BY <1>1 DEF OutputPacket, DataPacket, Packet, Configuration, Group, Copies
  <2>2. /\ OutputTaken(s.sched) \in Scheduler
        /\ OutputTaken(s.sched).node = s.sched.node
    BY <1>1 DEF OutputTaken, Scheduler, NodeState
  <2>3. /\ t \in DeviceState /\ t.sched = OutputTaken(s.sched)
        /\ t.standby = s.standby /\ t.retx = s.retx
    BY <1>1, <2>2 DEF DeviceState
  <2>4. s.sched.state # "WAITING_FOR_INPUT"
    BY <1>3 DEF OutputReady
  <2>5. DeviceInv(c, t)
    BY <2>2, <2>3, <2>4
       DEF DeviceInv, SlotsLoaded, StandbyFollows, PastInputs, NotTornDown
  <2>6. DeviceInv(c, SendAndRetransmit(t, p, c.succ, "own"))
    BY <2>1, <2>5, ConfiguredGroups, SendAndRetransmitInv DEF Slot
  <2> QED BY <1>3, <2>6 DEF OwnOutputStage
<1> QED BY <1>2, <1>3

LEMMA ReportStageInv ==
  ASSUME NEW c \in Configuration, NEW s, DeviceInv(c, s)
  PROVE  DeviceInv(c, ReportStage(c, s))
<1> DEFINE t == [s EXCEPT !.standby = DiagnosticTaken(@)]
<1>1. s \in DeviceState /\ s.standby \in Standby
  BY DEF DeviceInv, DeviceState
<1>2. CASE s.standby.diagnostic = NoPacket
  BY <1>2 DEF ReportStage
<1>3. CASE s.standby.diagnostic # NoPacket
  <2>1. s.standby.diagnostic \in Packet
    BY <1>1, <1>3 DEF Standby
  <2>2. /\ DiagnosticTaken(s.standby) \in Standby
        /\ DiagnosticTaken(s.standby).buffer = s.standby.buffer
        /\ DiagnosticTaken(s.standby).hasTornDown = s.standby.hasTornDown
    BY <1>1 DEF DiagnosticTaken, Standby
  <2>3. /\ t \in DeviceState /\ t.sched = s.sched /\ t.retx = s.retx
        /\ t.standby = DiagnosticTaken(s.standby)
    BY <1>1, <2>2 DEF DeviceState
  <2>4. DeviceInv(c, t)
    <3> HIDE DEF t
    <3> QED BY <2>2, <2>3, Framed DEF DeviceInv, SlotsLoaded
  <2>5. DeviceInv(c, SendAndRetransmit(t, s.standby.diagnostic, DiagGroup, "report"))
    BY <2>1, <2>4, ConfiguredGroups, SendAndRetransmitInv DEF Slot
  <2> QED BY <1>3, <2>5 DEF ReportStage
<1> QED BY <1>2, <1>3

LEMMA StandbyOutputStageInv ==
  ASSUME NEW c \in Configuration, NEW s, DeviceInv(c, s)
  PROVE  DeviceInv(c, StandbyOutputStage(c, s))
<1> DEFINE p == s.standby.outgoing
           t == [s EXCEPT !.standby = OutgoingTaken(@)]
           u == [t EXCEPT !.sched = SiblingObserved(c, @, p.src),
                          !.targetSeen = TRUE]
           v == [t EXCEPT !.targetSeen = TRUE]
<1>1. s \in DeviceState /\ s.standby \in Standby /\ s.sched \in Scheduler
  BY DEF DeviceInv, DeviceState
<1>2. CASE p = NoPacket
  BY <1>2 DEF StandbyOutputStage
<1>3. CASE p # NoPacket
  <2>1. p \in Packet /\ p.src \in Address
    BY <1>1, <1>3 DEF Standby, Packet
  <2>2. /\ OutgoingTaken(s.standby) \in Standby
        /\ OutgoingTaken(s.standby).buffer = s.standby.buffer
        /\ OutgoingTaken(s.standby).hasTornDown = s.standby.hasTornDown
    BY <1>1 DEF OutgoingTaken, Standby
  <2>3. /\ t \in DeviceState /\ t.sched = s.sched /\ t.retx = s.retx
        /\ t.standby = OutgoingTaken(s.standby)
    BY <1>1, <2>2 DEF DeviceState
  <2>4. DeviceInv(c, t)
    <3> HIDE DEF t
    <3> QED BY <2>2, <2>3, Framed DEF DeviceInv, SlotsLoaded
  <2> HIDE DEF t
  <2>5. DeviceInv(c, u)
    <3>1. /\ u \in DeviceState /\ u.retx = t.retx /\ u.standby = t.standby
          /\ u.sched = SiblingObserved(c, t.sched, p.src)
      BY <1>1, <2>1, <2>3, SiblingObservedType DEF DeviceState
    <3>2. u.sched.state = t.sched.state /\ u.sched.node = t.sched.node
      BY <1>1, <2>1, <2>3, <3>1, SiblingObservedType
    <3>3. SlotsLoaded(u)
      BY <2>4, <3>1 DEF DeviceInv, SlotsLoaded
    <3> HIDE DEF u
    <3> QED BY <2>4, <3>1, <3>2, <3>3, Framed
  <2>6. DeviceInv(c, v)
    <3>1. /\ v \in DeviceState /\ v.retx = t.retx /\ v.standby = t.standby
          /\ v.sched = t.sched
      BY <2>3 DEF DeviceState
    <3> QED BY <2>4, <3>1, Framed DEF DeviceInv, SlotsLoaded
  <2> HIDE DEF u, v
  <2>7. /\ DeviceInv(c, SendAndRetransmit(u, p, c.succ, "substitute"))
        /\ DeviceInv(c, SendOnce(v, p, c.succ))
        /\ DeviceInv(c, SendOnce(t, p, c.addr.layer))
    BY <2>1, <2>4, <2>5, <2>6, ConfiguredGroups, SendAndRetransmitInv,
       SendOnceInv DEF Slot
  <2> QED BY <1>3, <2>7 DEF StandbyOutputStage, t, u, v
<1> QED BY <1>2, <1>3

LEMMA ReplyStageInv ==
  ASSUME NEW c \in Configuration, NEW s, DeviceInv(c, s)
  PROVE  DeviceInv(c, ReplyStage(c, s))
<1> DEFINE t == [s EXCEPT !.responder = NoReply]
           p == [DataPacket(c.addr, "none", s.responder.value) EXCEPT !.copy = Copies]
<1>1. s \in DeviceState /\ s.responder \in Responder
  BY DEF DeviceInv, DeviceState
<1>2. CASE ~s.responder.pending
  BY <1>2 DEF ReplyStage
<1>3. CASE s.responder.pending
  <2>1. p \in Packet
    BY <1>1 DEF DataPacket, Packet, Configuration, Responder, Group, Copies
  <2>2. NoReply \in Responder
    BY DEF NoReply, Responder, Value, NoValue
  <2>3. /\ t \in DeviceState /\ t.sched = s.sched /\ t.standby = s.standby
        /\ t.retx = s.retx
    BY <1>1, <2>2 DEF DeviceState
  <2>4. DeviceInv(c, t)
    BY <2>3, Framed DEF DeviceInv, SlotsLoaded
  <2> HIDE DEF t, p
  <2>5. DeviceInv(c, SendOnce(t, p, c.succ))
    BY <2>1, <2>4, ConfiguredGroups, SendOnceInv
  <2> QED BY <1>3, <2>5 DEF ReplyStage, t, p
<1> QED BY <1>2, <1>3

LEMMA SlotLemma ==
  ASSUME NEW q \in RetxSlot, q.left > 0 => q.pkt \in Packet
  PROVE  /\ SlotServiced(q) \in RetxSlot
         /\ SlotServiced(q).left > 0 => SlotServiced(q).pkt \in Packet
         /\ SlotElapse(q) \in RetxSlot
         /\ SlotElapse(q).left = q.left /\ SlotElapse(q).pkt = q.pkt
         /\ Due(q) => [q.pkt EXCEPT !.copy = Copies - q.left] \in Packet
<1>1. EmptySlot \in RetxSlot /\ EmptySlot.left = 0
  BY DEF EmptySlot, RetxSlot, Copies
<1>2. q.left \in 0..3 /\ q.wait \in Nat
  BY DEF RetxSlot, Copies
<1>3. Due(q) => [q.pkt EXCEPT !.copy = Copies - q.left] \in Packet
  BY <1>2 DEF Due, Packet, Copies
<1>4. SlotServiced(q) \in RetxSlot
      /\ (SlotServiced(q).left > 0 => SlotServiced(q).pkt \in Packet)
  <2>1. CASE ~Due(q)
    BY <2>1 DEF SlotServiced
  <2>2. CASE Due(q) /\ q.left = 1
    BY <1>1, <2>2 DEF SlotServiced
  <2>3. CASE Due(q) /\ q.left # 1
    <3>1. q.left - 1 \in 0..3
      BY <1>2, <2>3 DEF Due
    <3>2. SlotServiced(q) = [q EXCEPT !.left = @ - 1, !.wait = 0]
      BY <2>3 DEF SlotServiced
    <3>3. q.pkt \in Packet
      BY <2>3 DEF Due
    <3> DEFINE l == q.left - 1
    <3>4. [q EXCEPT !.left = l, !.wait = 0] \in RetxSlot
          /\ [q EXCEPT !.left = l, !.wait = 0].pkt = q.pkt
      <4>1. l \in 0..3
        BY <3>1
      <4> HIDE DEF l
      <4> QED BY <4>1 DEF RetxSlot, Copies
    <3> QED BY <3>2, <3>3, <3>4
  <2> QED BY <2>1, <2>2, <2>3
<1>5. SlotElapse(q) \in RetxSlot
      /\ SlotElapse(q).left = q.left /\ SlotElapse(q).pkt = q.pkt
  BY <1>2 DEF SlotElapse, RetxSlot, Copies
<1> QED BY <1>3, <1>4, <1>5

LEMMA RetransmitStageInv ==
  ASSUME NEW c \in Configuration, NEW s, DeviceInv(c, s)
  PROVE  DeviceInv(c, RetransmitStage(s))
<1> DEFINE t == RetransmitStage(s)
           again == {[s.retx[k].pkt EXCEPT !.copy = Copies - s.retx[k].left] :
                       k \in {j \in Slot : Due(s.retx[j])}}
           rx == [k \in Slot |-> SlotServiced(s.retx[k])]
<1>1. s \in DeviceState /\ SlotsLoaded(s) /\ s.retx \in [Slot -> RetxSlot]
  BY DEF DeviceInv, DeviceState
<1>2. \A k \in Slot : s.retx[k] \in RetxSlot
                      /\ (s.retx[k].left > 0 => s.retx[k].pkt \in Packet)
  BY <1>1 DEF SlotsLoaded
<1>3. again \subseteq Packet
  BY <1>2, SlotLemma
<1>4. rx \in [Slot -> RetxSlot]
      /\ \A k \in Slot : rx[k].left > 0 => rx[k].pkt \in Packet
  BY <1>2, SlotLemma
<1>5. t = [s EXCEPT !.sent = @ \cup again, !.retx = rx]
  BY DEF RetransmitStage
<1> HIDE DEF again, rx, t
<1>6. /\ t \in DeviceState /\ t.sched = s.sched /\ t.standby = s.standby
      /\ t.retx = rx
  BY <1>1, <1>3, <1>4, <1>5 DEF DeviceState
<1>7. SlotsLoaded(t)
  BY <1>4, <1>6 DEF SlotsLoaded
<1>8. DeviceInv(c, t)
  BY <1>6, <1>7, Framed
<1> QED BY <1>8 DEF t

LEMMA CloseStageInv ==
  ASSUME NEW c \in Configuration, NEW s, DeviceInv(c, s)
  PROVE  DeviceInv(c, CloseStage(c, s))
<1> DEFINE t == [PassReset EXCEPT !.sent = s.sent]
<1>1. s \in DeviceState /\ DeviceInv(c, PassReset) /\ PassReset \in DeviceState
  BY PassResetInv DEF DeviceInv
<1>2. /\ t \in DeviceState /\ t.sched = PassReset.sched
      /\ t.standby = PassReset.standby /\ t.retx = PassReset.retx
  BY <1>1 DEF DeviceState
<1>3. DeviceInv(c, t)
  <2> HIDE DEF t
  <2> QED BY <1>1, <1>2, Framed DEF DeviceInv, SlotsLoaded
<1> QED BY <1>3 DEF CloseStage, Closing

LEMMA RuntimeStepInv ==
  ASSUME NEW c \in Configuration, NEW s, DeviceInv(c, s)
  PROVE  DeviceInv(c, RuntimeStep(c, s))
<1>1. DeviceInv(c, StandbyStage(c, SchedulerStage(c, s)))
  BY SchedulerStageInv, StandbyStageInv
<1> DEFINE ticked   == StallStage(c, StandbyStage(c, SchedulerStage(c, s)))
           reported == ReportStage(c, OwnOutputStage(c, ticked))
           replied  == ReplyStage(c, StandbyOutputStage(c, reported))
<1>2. DeviceInv(c, ticked)
  BY <1>1, StallStageInv
<1>3. DeviceInv(c, reported)
  BY <1>2, OwnOutputStageInv, ReportStageInv
<1>4. DeviceInv(c, replied)
  BY <1>3, StandbyOutputStageInv, ReplyStageInv
<1>5. DeviceInv(c, CloseStage(c, RetransmitStage(replied)))
  BY <1>4, RetransmitStageInv, CloseStageInv
<1> QED BY <1>5 DEF RuntimeStep

LEMMA ElapseInv ==
  ASSUME NEW c \in Configuration, NEW s, DeviceInv(c, s)
  PROVE  DeviceInv(c, Elapse(c, s))
<1> DEFINE t == Elapse(c, s)
           rx == [k \in Slot |-> SlotElapse(s.retx[k])]
           b == StandbyElapse(c, s.standby)
<1>1. s \in DeviceState /\ SlotsLoaded(s) /\ s.retx \in [Slot -> RetxSlot]
      /\ s.standby \in Standby
  BY DEF DeviceInv, DeviceState
<1>2. rx \in [Slot -> RetxSlot]
      /\ \A k \in Slot : rx[k].left > 0 => rx[k].pkt \in Packet
  BY <1>1, SlotLemma DEF SlotsLoaded
<1>3. /\ b \in Standby /\ b.buffer = s.standby.buffer
      /\ b.hasTornDown = s.standby.hasTornDown
  BY <1>1 DEF StandbyElapse, Standby
<1>4. /\ t \in DeviceState /\ t.sched = s.sched /\ t.standby = b /\ t.retx = rx
  <2> DEFINE x == IF s.stallArmed /\ s.stalled < StallTicks
                  THEN s.stalled + 1 ELSE s.stalled
             y == IF PassManaged(c) /\ s.idle < IdleTicks
                  THEN s.idle + 1 ELSE s.idle
  <2>1. x \in Nat /\ y \in Nat
    BY <1>1 DEF DeviceState
  <2>2. t = [s EXCEPT !.standby = b, !.stalled = x, !.idle = y, !.retx = rx]
    BY DEF Elapse
  <2> HIDE DEF rx, b, x, y, t
  <2> QED BY <1>1, <1>2, <1>3, <2>1, <2>2 DEF DeviceState
<1> HIDE DEF t, rx, b
<1>5. SlotsLoaded(t)
  BY <1>2, <1>4 DEF SlotsLoaded
<1>6. DeviceInv(c, t)
  BY <1>3, <1>4, <1>5, Framed
<1> QED BY <1>6 DEF t

-----------------------------------------------------------------------------
(* What one iteration of the loop hands to the transport, and what it      *)
(* leaves alone.                                                           *)

(* A packet to go out now, and perhaps again later.                        *)
OwnIssue(c, s) ==
  IF OutputReady(s.sched) THEN {[OutputPacket(c, s.sched) EXCEPT !.group = c.succ]}
  ELSE {}
ReportIssue(s) ==
  IF s.standby.diagnostic = NoPacket THEN {}
  ELSE {[s.standby.diagnostic EXCEPT !.group = DiagGroup]}
StandbyGroup(c, b) == IF b.hasSubstituted \/ b.hasTornDown THEN c.succ ELSE c.addr.layer
StandbyIssue(c, s) ==
  IF s.standby.outgoing = NoPacket THEN {}
  ELSE {[s.standby.outgoing EXCEPT !.group = StandbyGroup(c, s.standby)]}
ReplyIssue(c, s) ==
  IF s.responder.pending
  THEN {[DataPacket(c.addr, "none", s.responder.value)
           EXCEPT !.copy = Copies, !.group = c.succ]}
  ELSE {}

Issues(c, s) == OwnIssue(c, s) \cup ReportIssue(s) \cup StandbyIssue(c, s) \cup ReplyIssue(c, s)

Repeats(s) == {[s.retx[k].pkt EXCEPT !.copy = Copies - s.retx[k].left] :
                 k \in {j \in Slot : Due(s.retx[j])}}

(* t has sent nothing but ps since s, and repeats nothing else.            *)
SendsOnly(s, t, ps) ==
  /\ t.retx \in [Slot -> RetxSlot]
  /\ t.sent \subseteq s.sent \cup ps
  /\ \A k \in Slot : t.retx[k].left > 0 =>
       t.retx[k] = s.retx[k] \/ (t.retx[k].pkt \in ps /\ t.retx[k].wait = 0)

(* What the standby has learnt and decided.                                *)
SameJudgement(b, d) ==
  /\ d.targetObserved = b.targetObserved /\ d.layerObserved = b.layerObserved
  /\ d.buffer = b.buffer /\ d.resendRequested = b.resendRequested
  /\ d.waited = b.waited
  /\ d.hasSubstituted = b.hasSubstituted /\ d.hasTornDown = b.hasTornDown
  /\ d.resolved = b.resolved

(* What sending leaves alone.                                              *)
Steady(s, t) ==
  /\ t.locked = s.locked /\ t.idle = s.idle
  /\ t.stallArmed = s.stallArmed /\ t.stalled = s.stalled
  /\ t.sched.node = s.sched.node /\ s.sched.observed \subseteq t.sched.observed
  /\ s.sent \subseteq t.sent
  /\ SameJudgement(s.standby, t.standby)

SameOutput(s, t) ==
  /\ t.sched.state = s.sched.state
  /\ t.ownOutputSent = s.ownOutputSent /\ t.myOutputValue = s.myOutputValue

SameOthers(s, t) ==
  /\ t.sched = s.sched /\ t.standby = s.standby /\ t.responder = s.responder
  /\ t.locked = s.locked /\ t.ownOutputSent = s.ownOutputSent
  /\ t.myOutputValue = s.myOutputValue /\ t.stallArmed = s.stallArmed
  /\ t.stalled = s.stalled /\ t.idle = s.idle

(* The effect of handing the packets ps to the transport.                  *)
HandsOver(s, w, ps) ==
  SameOthers(s, w) /\ w.sent = s.sent \cup ps /\ SendsOnly(s, w, ps)

LEMMA SendOnceSends ==
  ASSUME NEW s \in DeviceState, NEW p \in Packet, NEW g,
         NEW w, w = SendOnce(s, p, g), NEW ps, ps = {[p EXCEPT !.group = g]}
  PROVE  HandsOver(s, w, ps)
<1>1. PICK t : t = SendOnce(s, p, g)
  OBVIOUS
<1>2. PICK q : q = [p EXCEPT !.group = g]
  OBVIOUS
<1>3. PICK S : S = s.sent \cup {q}
  OBVIOUS
<1>4. t = [s EXCEPT !.sent = S]
  BY <1>1, <1>2, <1>3 DEF SendOnce
<1>5. SameOthers(s, t) /\ t.sent = S /\ t.retx = s.retx
  BY <1>4 DEF DeviceState, SameOthers
<1>6. t.retx \in [Slot -> RetxSlot]
  BY <1>5 DEF DeviceState
<1> QED BY <1>1, <1>2, <1>3, <1>5, <1>6 DEF SendsOnly, HandsOver

LEMMA SendAndRetransmitSends ==
  ASSUME NEW s \in DeviceState, NEW p \in Packet, NEW g \in Group, NEW k \in Slot,
         NEW w, w = SendAndRetransmit(s, p, g, k),
         NEW ps, ps = {[p EXCEPT !.group = g]}
  PROVE  HandsOver(s, w, ps)
<1>1. PICK t : t = SendAndRetransmit(s, p, g, k)
  OBVIOUS
<1>2. PICK q : q = [p EXCEPT !.group = g] /\ q \in Packet
  <2>1. [p EXCEPT !.group = g] \in Packet
    BY DEF Packet
  <2> QED BY <2>1
<1>3. PICK u : u = SendOnce(s, p, g)
  OBVIOUS
<1>4. PICK R : R = [left |-> Copies - 1, wait |-> 0, pkt |-> q]
  OBVIOUS
<1>5. R \in RetxSlot
  BY <1>2, <1>4 DEF RetxSlot, Copies
<1>6. t = [u EXCEPT !.retx[k] = R]
  BY <1>1, <1>2, <1>3, <1>4 DEF SendAndRetransmit
<1>7. SameOthers(s, u) /\ u.sent = s.sent \cup {q} /\ u.retx = s.retx
  <2>1. PICK S : S = s.sent \cup {q}
    OBVIOUS
  <2>2. u = [s EXCEPT !.sent = S]
    BY <1>2, <1>3, <2>1 DEF SendOnce
  <2> QED BY <2>1, <2>2 DEF DeviceState, SameOthers
<1>8. SameOthers(s, t) /\ t.sent = u.sent /\ t.retx = [u.retx EXCEPT ![k] = R]
  <2>1. PICK S : S = s.sent \cup {q}
    OBVIOUS
  <2>2. u = [s EXCEPT !.sent = S]
    BY <1>2, <1>3, <2>1 DEF SendOnce
  <2> QED BY <1>6, <2>2 DEF DeviceState, SameOthers
<1>9. s.retx \in [Slot -> RetxSlot]
  BY DEF DeviceState
<1>10. SendsOnly(s, t, {q})
  BY <1>4, <1>5, <1>7, <1>8, <1>9 DEF SendsOnly
<1> QED BY <1>1, <1>2, <1>7, <1>8, <1>10 DEF HandsOver

(* The stages that send, one by one.                                       *)
LEMMA OwnOutputSends ==
  ASSUME NEW c \in Configuration, NEW s, DeviceInv(c, s)
  PROVE  LET t == OwnOutputStage(c, s)
         IN /\ Steady(s, t) /\ SendsOnly(s, t, OwnIssue(c, s))
            /\ OwnIssue(c, s) \subseteq t.sent
            /\ t.sched.observed = s.sched.observed
            /\ t.standby = s.standby /\ t.responder = s.responder
            /\ ~OutputReady(s.sched) => SameOutput(s, t)
            /\ OutputReady(s.sched) =>
                 /\ t.sched.state = "TRANSMITTED" /\ t.ownOutputSent
                 /\ t.myOutputValue = s.sched.node.outputValue
<1>1. s \in DeviceState /\ s.sched \in Scheduler
  BY DEF DeviceInv, DeviceState
<1>2. CASE ~OutputReady(s.sched)
  <2>1. OwnOutputStage(c, s) = s /\ OwnIssue(c, s) = {}
    BY <1>2 DEF OwnOutputStage, OwnIssue
  <2>2. s.retx \in [Slot -> RetxSlot]
    BY <1>1 DEF DeviceState
  <2> QED BY <1>2, <2>1, <2>2 DEF Steady, SendsOnly, SameOutput, SameJudgement
<1>3. CASE OutputReady(s.sched)
  <2>1. PICK p : p = OutputPacket(c, s.sched)
    OBVIOUS
  <2>2. p \in Packet
    BY <1>1, <2>1 DEF OutputPacket, DataPacket, Packet, Configuration, Group, Copies,
                     Scheduler, Node
  <2>3. PICK x : /\ x = OutputTaken(s.sched) /\ x \in Scheduler /\ x.node = s.sched.node
                 /\ x.state = "TRANSMITTED" /\ x.observed = s.sched.observed
    <3>1. /\ OutputTaken(s.sched) \in Scheduler
          /\ OutputTaken(s.sched).node = s.sched.node
          /\ OutputTaken(s.sched).state = "TRANSMITTED"
          /\ OutputTaken(s.sched).observed = s.sched.observed
      BY <1>1 DEF OutputTaken, Scheduler, NodeState
    <3> QED BY <3>1
  <2>4. PICK t : t = [s EXCEPT !.sched = OutputTaken(@), !.ownOutputSent = TRUE,
                               !.myOutputValue = s.sched.node.outputValue]
    OBVIOUS
  <2>5. s.sched.node.outputValue \in Value
    BY <1>1 DEF Scheduler, Node
  <2>6. t = [s EXCEPT !.sched = x, !.ownOutputSent = TRUE,
                      !.myOutputValue = s.sched.node.outputValue]
    BY <2>3, <2>4
  <2>7. /\ t \in DeviceState /\ t.sched = x /\ t.ownOutputSent = TRUE
        /\ t.myOutputValue = s.sched.node.outputValue
        /\ t.standby = s.standby /\ t.responder = s.responder /\ t.locked = s.locked
        /\ t.stallArmed = s.stallArmed /\ t.stalled = s.stalled /\ t.idle = s.idle
        /\ t.sent = s.sent /\ t.retx = s.retx
    BY <1>1, <2>3, <2>5, <2>6 DEF DeviceState
  <2>8. PICK u : u = SendAndRetransmit(t, p, c.succ, "own")
    OBVIOUS
  <2>9. u = OwnOutputStage(c, s) /\ OwnIssue(c, s) = {[p EXCEPT !.group = c.succ]}
    BY <1>3, <2>1, <2>4, <2>8 DEF OwnOutputStage, OwnIssue
  <2>10. /\ SameOthers(t, u) /\ u.sent = t.sent \cup OwnIssue(c, s)
         /\ SendsOnly(t, u, OwnIssue(c, s))
    <3>1. "own" \in Slot /\ c.succ \in Group
      BY ConfiguredGroups DEF Slot
    <3>2. HandsOver(t, u, OwnIssue(c, s))
      BY <2>2, <2>7, <2>8, <2>9, <3>1, SendAndRetransmitSends
    <3> QED BY <3>2 DEF HandsOver
  <2>11. SendsOnly(s, u, OwnIssue(c, s))
    BY <2>7, <2>10 DEF SendsOnly
  <2>12. Steady(s, u)
    BY <2>3, <2>7, <2>10 DEF SameOthers, Steady, SameJudgement
  <2> QED BY <1>3, <2>3, <2>7, <2>9, <2>10, <2>11, <2>12 DEF SameOthers
<1> QED BY <1>2, <1>3

LEMMA ReportSends ==
  ASSUME NEW c \in Configuration, NEW s, DeviceInv(c, s)
  PROVE  LET t == ReportStage(c, s)
         IN /\ Steady(s, t) /\ SendsOnly(s, t, ReportIssue(s)) /\ SameOutput(s, t)
            /\ ReportIssue(s) \subseteq t.sent
            /\ t.sched = s.sched /\ t.responder = s.responder
            /\ t.standby.outgoing = s.standby.outgoing
            /\ t.standby.diagnostic = NoPacket
<1>1. s \in DeviceState /\ s.standby \in Standby
  BY DEF DeviceInv, DeviceState
<1>2. CASE s.standby.diagnostic = NoPacket
  <2>1. ReportStage(c, s) = s /\ ReportIssue(s) = {}
    BY <1>2 DEF ReportStage, ReportIssue
  <2>2. s.retx \in [Slot -> RetxSlot]
    BY <1>1 DEF DeviceState
  <2> QED BY <1>2, <2>1, <2>2 DEF Steady, SendsOnly, SameOutput, SameJudgement
<1>3. CASE s.standby.diagnostic # NoPacket
  <2>1. PICK p : p = s.standby.diagnostic /\ p \in Packet
    BY <1>1, <1>3 DEF Standby
  <2>2. PICK b : b = DiagnosticTaken(s.standby)
    OBVIOUS
  <2>3. /\ b \in Standby /\ SameJudgement(s.standby, b)
        /\ b.outgoing = s.standby.outgoing /\ b.diagnostic = NoPacket
    BY <1>1, <2>2 DEF DiagnosticTaken, Standby, SameJudgement
  <2>4. PICK t : t = [s EXCEPT !.standby = b]
    OBVIOUS
  <2>5. /\ t \in DeviceState /\ t.standby = b /\ t.sched = s.sched
        /\ t.responder = s.responder /\ t.locked = s.locked
        /\ t.ownOutputSent = s.ownOutputSent /\ t.myOutputValue = s.myOutputValue
        /\ t.stallArmed = s.stallArmed /\ t.stalled = s.stalled /\ t.idle = s.idle
        /\ t.sent = s.sent /\ t.retx = s.retx
    BY <1>1, <2>3, <2>4 DEF DeviceState
  <2>6. PICK u : u = SendAndRetransmit(t, p, DiagGroup, "report")
    OBVIOUS
  <2>7. u = ReportStage(c, s) /\ ReportIssue(s) = {[p EXCEPT !.group = DiagGroup]}
    BY <1>3, <2>1, <2>2, <2>4, <2>6 DEF ReportStage, ReportIssue
  <2>8. /\ SameOthers(t, u) /\ u.sent = t.sent \cup ReportIssue(s)
        /\ SendsOnly(t, u, ReportIssue(s))
    <3>1. "report" \in Slot /\ DiagGroup \in Group
      BY ConfiguredGroups DEF Slot
    <3>2. p \in Packet /\ t \in DeviceState
      BY <2>1, <2>5
    <3>3. PICK ps : ps = {[p EXCEPT !.group = DiagGroup]}
      OBVIOUS
    <3>4. HandsOver(t, u, ps)
      BY <2>6, <3>1, <3>2, <3>3, SendAndRetransmitSends
    <3> QED BY <2>7, <3>3, <3>4 DEF HandsOver
  <2>9. SendsOnly(s, u, ReportIssue(s))
    BY <2>5, <2>8 DEF SendsOnly
  <2>10. Steady(s, u) /\ SameOutput(s, u)
    BY <2>3, <2>5, <2>8 DEF SameOthers, Steady, SameJudgement, SameOutput
  <2> QED BY <2>3, <2>5, <2>7, <2>8, <2>9, <2>10 DEF SameOthers
<1> QED BY <1>2, <1>3

LEMMA StandbyOutputSends ==
  ASSUME NEW c \in Configuration, NEW s, DeviceInv(c, s)
  PROVE  LET t == StandbyOutputStage(c, s)
         IN /\ Steady(s, t) /\ SendsOnly(s, t, StandbyIssue(c, s)) /\ SameOutput(s, t)
            /\ StandbyIssue(c, s) \subseteq t.sent
            /\ t.responder = s.responder
            /\ \A n \in t.sched.observed :
                 \/ n \in s.sched.observed
                 \/ /\ s.standby.outgoing # NoPacket /\ s.standby.hasSubstituted
                    /\ [s.standby.outgoing EXCEPT !.group = c.succ] \in t.sent
                    /\ n = s.standby.outgoing.src.node
            /\ s.standby.outgoing # NoPacket /\ s.standby.hasSubstituted
               /\ s.standby.outgoing.src.layer = c.addr.layer
                 => s.standby.outgoing.src.node \in t.sched.observed
            /\ t.standby.outgoing = NoPacket
            /\ t.standby.diagnostic = s.standby.diagnostic
<1>1. s \in DeviceState /\ s.standby \in Standby /\ s.sched \in Scheduler
  BY DEF DeviceInv, DeviceState
<1>2. CASE s.standby.outgoing = NoPacket
  <2>1. StandbyOutputStage(c, s) = s /\ StandbyIssue(c, s) = {}
    BY <1>2 DEF StandbyOutputStage, StandbyIssue
  <2>2. s.retx \in [Slot -> RetxSlot]
    BY <1>1 DEF DeviceState
  <2> QED BY <1>2, <2>1, <2>2 DEF Steady, SendsOnly, SameOutput, SameJudgement
<1>3. CASE s.standby.outgoing # NoPacket
  <2>1. PICK p : p = s.standby.outgoing /\ p \in Packet
    BY <1>1, <1>3 DEF Standby
  <2>2. p.src \in Address
    BY <2>1 DEF Packet
  <2>3. PICK b : b = OutgoingTaken(s.standby)
    OBVIOUS
  <2>4. /\ b \in Standby /\ SameJudgement(s.standby, b)
        /\ b.outgoing = NoPacket /\ b.diagnostic = s.standby.diagnostic
    BY <1>1, <2>3 DEF OutgoingTaken, Standby, SameJudgement
  <2>5. PICK t : t = [s EXCEPT !.standby = b]
    OBVIOUS
  <2>6. /\ t \in DeviceState /\ t.standby = b /\ t.sched = s.sched
        /\ t.responder = s.responder /\ t.locked = s.locked
        /\ t.ownOutputSent = s.ownOutputSent /\ t.myOutputValue = s.myOutputValue
        /\ t.stallArmed = s.stallArmed /\ t.stalled = s.stalled /\ t.idle = s.idle
        /\ t.sent = s.sent /\ t.retx = s.retx
    BY <1>1, <2>4, <2>5 DEF DeviceState
  <2>7. PICK x : x = SiblingObserved(c, s.sched, p.src)
    OBVIOUS
  <2>8. /\ x \in Scheduler /\ x.node = s.sched.node /\ x.state = s.sched.state
        /\ s.sched.observed \subseteq x.observed
        /\ \A n \in x.observed : n \in s.sched.observed \/ n = p.src.node
        /\ p.src.layer = c.addr.layer => p.src.node \in x.observed
    BY <1>1, <2>2, <2>7, SiblingObservedType DEF SiblingObserved, Scheduler
  <2>9. PICK u : u = [t EXCEPT !.sched = x, !.targetSeen = TRUE]
    OBVIOUS
  <2>10. /\ u \in DeviceState /\ u.standby = b /\ u.sched = x
         /\ u.responder = s.responder /\ u.locked = s.locked
         /\ u.ownOutputSent = s.ownOutputSent /\ u.myOutputValue = s.myOutputValue
         /\ u.stallArmed = s.stallArmed /\ u.stalled = s.stalled /\ u.idle = s.idle
         /\ u.sent = s.sent /\ u.retx = s.retx
    BY <2>6, <2>8, <2>9 DEF DeviceState
  <2>11. PICK v : v = [t EXCEPT !.targetSeen = TRUE]
    OBVIOUS
  <2>12. /\ v \in DeviceState /\ v.standby = b /\ v.sched = s.sched
         /\ v.responder = s.responder /\ v.locked = s.locked
         /\ v.ownOutputSent = s.ownOutputSent /\ v.myOutputValue = s.myOutputValue
         /\ v.stallArmed = s.stallArmed /\ v.stalled = s.stalled /\ v.idle = s.idle
         /\ v.sent = s.sent /\ v.retx = s.retx
    BY <2>6, <2>11 DEF DeviceState
  <2>13. "substitute" \in Slot /\ c.succ \in Group /\ c.addr.layer \in Group
    BY ConfiguredGroups DEF Slot
  <2>14. CASE s.standby.hasSubstituted
    <3>1. PICK w : w = SendAndRetransmit(u, p, c.succ, "substitute")
      OBVIOUS
    <3>2. StandbyOutputStage(c, s) = w
      BY <1>3, <2>1, <2>3, <2>5, <2>6, <2>7, <2>9, <2>14, <3>1 DEF StandbyOutputStage
    <3>3. StandbyIssue(c, s) = {[p EXCEPT !.group = c.succ]}
      BY <1>3, <2>1, <2>14 DEF StandbyIssue, StandbyGroup
    <3>4. /\ SameOthers(u, w) /\ w.sent = u.sent \cup StandbyIssue(c, s)
          /\ SendsOnly(u, w, StandbyIssue(c, s))
      <4>1. p \in Packet /\ u \in DeviceState
        BY <2>1, <2>10
      <4>2. PICK ps : ps = {[p EXCEPT !.group = c.succ]}
        OBVIOUS
      <4>3. HandsOver(u, w, ps)
        BY <2>13, <3>1, <4>1, <4>2, SendAndRetransmitSends
      <4> QED BY <3>3, <4>2, <4>3 DEF HandsOver
    <3>5. SendsOnly(s, w, StandbyIssue(c, s))
      BY <2>10, <3>4 DEF SendsOnly
    <3>6. Steady(s, w) /\ SameOutput(s, w)
      BY <2>4, <2>8, <2>10, <3>4 DEF SameOthers, Steady, SameJudgement, SameOutput
    <3> QED BY <1>3, <2>1, <2>4, <2>8, <2>10, <2>14, <3>2, <3>3, <3>4, <3>5, <3>6
            DEF SameOthers
  <2>15. CASE ~s.standby.hasSubstituted /\ s.standby.hasTornDown
    <3>1. PICK w : w = SendOnce(v, p, c.succ)
      OBVIOUS
    <3>2. StandbyOutputStage(c, s) = w
      BY <1>3, <2>1, <2>3, <2>5, <2>11, <2>15, <3>1 DEF StandbyOutputStage
    <3>3. StandbyIssue(c, s) = {[p EXCEPT !.group = c.succ]}
      BY <1>3, <2>1, <2>15 DEF StandbyIssue, StandbyGroup
    <3>4. /\ SameOthers(v, w) /\ w.sent = v.sent \cup StandbyIssue(c, s)
          /\ SendsOnly(v, w, StandbyIssue(c, s))
      <4>1. p \in Packet /\ v \in DeviceState
        BY <2>1, <2>12
      <4>2. PICK ps : ps = {[p EXCEPT !.group = c.succ]}
        OBVIOUS
      <4>3. HandsOver(v, w, ps)
        BY <2>13, <3>1, <4>1, <4>2, SendOnceSends
      <4> QED BY <3>3, <4>2, <4>3 DEF HandsOver
    <3>5. SendsOnly(s, w, StandbyIssue(c, s))
      BY <2>12, <3>4 DEF SendsOnly
    <3>6. Steady(s, w) /\ SameOutput(s, w)
      BY <2>4, <2>12, <3>4 DEF SameOthers, Steady, SameJudgement, SameOutput
    <3> QED BY <1>3, <2>4, <2>12, <2>15, <3>2, <3>4, <3>5, <3>6 DEF SameOthers
  <2>16. CASE ~s.standby.hasSubstituted /\ ~s.standby.hasTornDown
    <3>0. PICK g \in Group : g = c.addr.layer
      BY <2>13
    <3>1. PICK w : w = SendOnce(t, p, g)
      OBVIOUS
    <3>2. StandbyOutputStage(c, s) = w
      BY <1>3, <2>1, <2>3, <2>5, <2>16, <3>0, <3>1 DEF StandbyOutputStage
    <3>3. StandbyIssue(c, s) = {[p EXCEPT !.group = g]}
      BY <3>0, <1>3, <2>1, <2>16 DEF StandbyIssue, StandbyGroup
    <3>4. /\ SameOthers(t, w) /\ w.sent = t.sent \cup StandbyIssue(c, s)
          /\ SendsOnly(t, w, StandbyIssue(c, s))
      <4>1. p \in Packet /\ t \in DeviceState
        BY <2>1, <2>6
      <4>2. PICK ps : ps = {[p EXCEPT !.group = g]}
        OBVIOUS
      <4>3. HandsOver(t, w, ps)
        BY <3>1, <4>1, <4>2, SendOnceSends
      <4> QED BY <3>3, <4>2, <4>3 DEF HandsOver
    <3>5. SendsOnly(s, w, StandbyIssue(c, s))
      BY <2>6, <3>4 DEF SendsOnly
    <3>6. Steady(s, w) /\ SameOutput(s, w)
      BY <2>4, <2>6, <3>4 DEF SameOthers, Steady, SameJudgement, SameOutput
    <3> QED BY <1>3, <2>4, <2>6, <2>16, <3>2, <3>4, <3>5, <3>6 DEF SameOthers
  <2> QED BY <2>14, <2>15, <2>16
<1> QED BY <1>2, <1>3

LEMMA ReplySends ==
  ASSUME NEW c \in Configuration, NEW s, DeviceInv(c, s)
  PROVE  LET t == ReplyStage(c, s)
         IN /\ Steady(s, t) /\ SendsOnly(s, t, ReplyIssue(c, s)) /\ SameOutput(s, t)
            /\ ReplyIssue(c, s) \subseteq t.sent
            /\ t.sched = s.sched /\ t.standby = s.standby
            /\ ~t.responder.pending
<1>1. s \in DeviceState /\ s.responder \in Responder
  BY DEF DeviceInv, DeviceState
<1>2. CASE ~s.responder.pending
  <2>1. ReplyStage(c, s) = s /\ ReplyIssue(c, s) = {}
    BY <1>2 DEF ReplyStage, ReplyIssue
  <2>2. s.retx \in [Slot -> RetxSlot]
    BY <1>1 DEF DeviceState
  <2> QED BY <1>2, <2>1, <2>2 DEF Steady, SendsOnly, SameOutput, SameJudgement
<1>3. CASE s.responder.pending
  <2>1. PICK p : p = [DataPacket(c.addr, "none", s.responder.value) EXCEPT !.copy = Copies]
    OBVIOUS
  <2>2. p \in Packet
    BY <1>1, <2>1 DEF DataPacket, Packet, Configuration, Responder, Group, Copies
  <2>3. NoReply \in Responder /\ ~NoReply.pending
    BY DEF NoReply, Responder, Value, NoValue
  <2>4. PICK t : t = [s EXCEPT !.responder = NoReply]
    OBVIOUS
  <2>5. /\ t \in DeviceState /\ t.standby = s.standby /\ t.sched = s.sched
        /\ t.responder = NoReply /\ t.locked = s.locked
        /\ t.ownOutputSent = s.ownOutputSent /\ t.myOutputValue = s.myOutputValue
        /\ t.stallArmed = s.stallArmed /\ t.stalled = s.stalled /\ t.idle = s.idle
        /\ t.sent = s.sent /\ t.retx = s.retx
    BY <1>1, <2>3, <2>4 DEF DeviceState
  <2>6. PICK u : u = SendOnce(t, p, c.succ)
    OBVIOUS
  <2>7. u = ReplyStage(c, s)
    BY <1>3, <2>1, <2>4, <2>6 DEF ReplyStage
  <2>8. ReplyIssue(c, s) = {[p EXCEPT !.group = c.succ]}
    BY <1>3, <2>1 DEF ReplyIssue, DataPacket
  <2>9. /\ SameOthers(t, u) /\ u.sent = t.sent \cup ReplyIssue(c, s)
        /\ SendsOnly(t, u, ReplyIssue(c, s))
    <3>1. HandsOver(t, u, ReplyIssue(c, s))
      BY <2>2, <2>5, <2>6, <2>8, SendOnceSends
    <3> QED BY <3>1 DEF HandsOver
  <2>10. SendsOnly(s, u, ReplyIssue(c, s))
    BY <2>5, <2>9 DEF SendsOnly
  <2>11. Steady(s, u) /\ SameOutput(s, u)
    BY <2>5, <2>9 DEF SameOthers, Steady, SameJudgement, SameOutput
  <2> QED BY <2>3, <2>5, <2>7, <2>9, <2>10, <2>11 DEF SameOthers
<1> QED BY <1>2, <1>3

-----------------------------------------------------------------------------
(* One iteration as a whole.                                               *)

(* Between two iterations nothing is left to be handed over.               *)
HandedOver(s) ==
  /\ s.sent = {} /\ s.standby.outgoing = NoPacket /\ s.standby.diagnostic = NoPacket
  /\ s.sched.state # "READY_TO_TRANSMIT"

(* What this iteration decides: it is the device's turn; the standby runs; *)
(* it asks; its grace is over.                                             *)
TakesTurn(c, s) == s.sched.state = "WAITING_FOR_TURN" /\ TurnGranted(c, s.sched)
Watches(c, s) == IsStandby(c) /\ SchedulerTick(c, s.sched).state # "WAITING_FOR_INPUT"
Unjudged(c, s) == Watches(c, s) /\ ~s.standby.targetObserved /\ ~s.standby.resolved
Asks(c, s) == /\ Unjudged(c, s) /\ ~s.standby.resendRequested
              /\ Others(c) \subseteq s.standby.layerObserved
Judges(c, s) == /\ Unjudged(c, s) /\ s.standby.resendRequested
                /\ s.standby.waited >= c.grace
Released(c, s) == /\ SchedulerTick(c, s.sched).state = "WAITING_FOR_TURN"
                  /\ s.stallArmed /\ s.stalled >= StallTicks

Ticked(c, s) == StallStage(c, StandbyStage(c, SchedulerStage(c, s)))
Replied(c, m) ==
  ReplyStage(c, StandbyOutputStage(c, ReportStage(c, OwnOutputStage(c, m))))

(* The packet a judgement or a request is told with.                       *)
Told(c, b) ==
  /\ b.outgoing # NoPacket =>
       /\ b.outgoing \in Packet /\ b.outgoing.src \in {c.addr, c.target}
       /\ b.outgoing.type = "DATA" <=> b.hasSubstituted
       /\ b.outgoing.src = IF b.outgoing.type = "DATA" THEN c.target ELSE c.addr
       /\ b.outgoing.type = "CONTROL" => b.outgoing.flag = "none"
  /\ b.diagnostic # NoPacket =>
       /\ b.diagnostic \in Packet /\ b.diagnostic.type = "CONTROL"
       /\ b.diagnostic.src = c.addr /\ b.diagnostic.about = c.target

(* The standby of a device after the stage that ticks it.                  *)
TickedStandby(c, s, b) ==
  /\ b.targetObserved = s.standby.targetObserved
  /\ b.layerObserved = s.standby.layerObserved
  /\ b.resendRequested <=> s.standby.resendRequested \/ Asks(c, s)
  /\ b.waited = IF Asks(c, s) THEN 0 ELSE s.standby.waited
  /\ b.hasSubstituted \/ b.hasTornDown <=>
       s.standby.hasSubstituted \/ s.standby.hasTornDown \/ Judges(c, s)
  /\ b.outgoing # NoPacket =>
       IF b.outgoing.type = "CONTROL" THEN Asks(c, s) ELSE Judges(c, s)
  /\ b.diagnostic # NoPacket => Judges(c, s)
  /\ Told(c, b)

(* A verdict is not reached twice, and a request comes before it.          *)
Unresolved(b) == b.hasSubstituted \/ b.hasTornDown => b.resolved

LEMMA StandbyTicked ==
  ASSUME NEW c \in Configuration, NEW s \in DeviceState, HandedOver(s), Unresolved(s.standby),
         NEW b, b = IF Watches(c, s) THEN StandbyTick(c, s.standby) ELSE s.standby
  PROVE  TickedStandby(c, s, b) /\ Unresolved(b)
<1> DEFINE a == s.standby
<1>1. a \in Standby /\ a.outgoing = NoPacket /\ a.diagnostic = NoPacket
  BY DEF DeviceState, HandedOver
<1>2. CASE ~Watches(c, s) \/ a.targetObserved \/ a.resolved
  <2>1. b = a /\ ~Asks(c, s) /\ ~Judges(c, s)
    BY <1>2 DEF StandbyTick, Asks, Judges, Unjudged
  <2> QED BY <1>1, <2>1 DEF TickedStandby, Told
<1>3. CASE Watches(c, s) /\ ~a.targetObserved /\ ~a.resolved
  <2>0. b = StandbyTick(c, a) /\ Unjudged(c, s)
    BY <1>3 DEF Unjudged
  <2>4. ~a.hasSubstituted /\ ~a.hasTornDown
    BY <1>3 DEF Unresolved
  <2>1. CASE ~a.resendRequested /\ Others(c) \subseteq a.layerObserved
    <3>1. b = RequestResend(c, a) /\ Asks(c, s) /\ ~Judges(c, s)
      BY <1>3, <2>0, <2>1 DEF StandbyTick, Asks, Judges
    <3>9. PICK p : p = ControlPacket(c.addr, 0, "none", c.target)
      OBVIOUS
    <3>8. p \in Packet
      BY <3>9, RequestIsPacket
    <3>2. p.src = c.addr /\ p.type = "CONTROL" /\ p.flag = "none"
      BY <3>9 DEF ControlPacket
    <3>3. b = [a EXCEPT !.resendRequested = TRUE, !.waited = 0, !.outgoing = p]
      BY <3>1, <3>9 DEF RequestResend
    <3>4. /\ b.targetObserved = a.targetObserved /\ b.layerObserved = a.layerObserved
          /\ b.resendRequested = TRUE /\ b.waited = 0 /\ b.outgoing = p
          /\ b.diagnostic = a.diagnostic /\ b.hasSubstituted = a.hasSubstituted
          /\ b.hasTornDown = a.hasTornDown
      BY <1>1, <3>3 DEF Standby
    <3>5. Told(c, b)
      BY <1>1, <3>2, <3>8, <3>4, <2>4 DEF Told
    <3>6. Unresolved(b)
      BY <3>4, <2>4 DEF Unresolved
    <3>7. b.outgoing.type = "CONTROL"
      BY <3>2, <3>4
    <3> QED BY <1>1, <3>1, <3>4, <3>5, <3>6, <3>7, <2>4 DEF TickedStandby
  <2>2. CASE a.resendRequested /\ a.waited >= c.grace
    <3>1. b = Verdict(c, a) /\ ~Asks(c, s) /\ Judges(c, s)
      BY <1>3, <2>0, <2>2 DEF StandbyTick, Asks, Judges, GraceOver
    <3>2. CASE IsComplete(a.buffer, c.tpred)
      <4>1. Gathered(a.buffer, c.tpred) \in Value
        BY <1>1, GatheredIsValue DEF Configuration, Standby
      <4>2. DataPacket(c.target, "substitute", Gathered(a.buffer, c.tpred)) \in Packet
        BY <4>1, SubstituteIsPacket
      <4>3. PICK p : p = DataPacket(c.target, "substitute", Gathered(a.buffer, c.tpred))
                     /\ p \in Packet
        BY <4>2
      <4>4. p.type = "DATA" /\ p.src = c.target
        BY <4>3 DEF DataPacket
      <4>5. PICK q : q = FailoverReport(c, "substitute") /\ q \in Packet
        BY ReportIsPacket
      <4>6. q.type = "CONTROL" /\ q.src = c.addr /\ q.about = c.target
        BY <4>5 DEF FailoverReport, ControlPacket
      <4>7. b = [a EXCEPT !.resolved = TRUE, !.hasSubstituted = TRUE,
                          !.outgoing = p, !.diagnostic = q]
        BY <3>1, <3>2, <4>3, <4>5 DEF Verdict, Substitute
      <4>8. /\ b.targetObserved = a.targetObserved /\ b.layerObserved = a.layerObserved
            /\ b.resendRequested = a.resendRequested /\ b.waited = a.waited
            /\ b.outgoing = p /\ b.diagnostic = q /\ b.hasSubstituted = TRUE
            /\ b.hasTornDown = a.hasTornDown /\ b.resolved = TRUE
        BY <1>1, <4>7 DEF Standby
      <4>9. Told(c, b)
        BY <4>3, <4>4, <4>5, <4>6, <4>8 DEF Told
      <4> QED BY <3>1, <4>4, <4>8, <4>9 DEF TickedStandby, Unresolved
    <3>3. CASE ~IsComplete(a.buffer, c.tpred)
      <4>3. PICK p : p = TeardownPacket(c.addr) /\ p \in Packet
        BY TeardownIsPacket
      <4>4. p.type = "TEARDOWN" /\ p.src = c.addr
        BY <4>3 DEF TeardownPacket
      <4>5. PICK q : q = FailoverReport(c, "teardown") /\ q \in Packet
        BY ReportIsPacket
      <4>6. q.type = "CONTROL" /\ q.src = c.addr /\ q.about = c.target
        BY <4>5 DEF FailoverReport, ControlPacket
      <4>7. b = [a EXCEPT !.resolved = TRUE, !.hasTornDown = TRUE,
                          !.outgoing = p, !.diagnostic = q]
        BY <3>1, <3>3, <4>3, <4>5 DEF Verdict, TearDown
      <4>8. /\ b.targetObserved = a.targetObserved /\ b.layerObserved = a.layerObserved
            /\ b.resendRequested = a.resendRequested /\ b.waited = a.waited
            /\ b.outgoing = p /\ b.diagnostic = q /\ b.hasTornDown = TRUE
            /\ b.hasSubstituted = a.hasSubstituted /\ b.resolved = TRUE
        BY <1>1, <4>7 DEF Standby
      <4>9. Told(c, b)
        BY <4>3, <4>4, <4>5, <4>6, <4>8, <2>4 DEF Told
      <4>10. b.outgoing.type # "CONTROL"
        BY <4>4, <4>8
      <4> QED BY <3>1, <4>8, <4>9, <4>10 DEF TickedStandby, Unresolved
    <3> QED BY <3>2, <3>3
  <2>3. CASE ~(~a.resendRequested /\ Others(c) \subseteq a.layerObserved)
             /\ ~(a.resendRequested /\ a.waited >= c.grace)
    <3>1. b = a /\ ~Asks(c, s) /\ ~Judges(c, s)
      BY <1>3, <2>0, <2>3 DEF StandbyTick, Asks, Judges, GraceOver
    <3> QED BY <1>1, <3>1 DEF TickedStandby, Told
  <2> QED BY <2>1, <2>2, <2>3
<1> QED BY <1>2, <1>3

(* The stages before anything is sent.                                     *)
TickedDevice(c, s, m) ==
  /\ m.retx = s.retx /\ m.responder = s.responder /\ m.sent = s.sent
  /\ m.locked = s.locked /\ m.idle = s.idle
  /\ m.ownOutputSent = s.ownOutputSent /\ m.myOutputValue = s.myOutputValue
  /\ m.sched.node.buffer = s.sched.node.buffer
  /\ m.sched.state = SchedulerTick(c, s.sched).state
  /\ m.sched.node = SchedulerTick(c, s.sched).node
  /\ m.sched.observed = IF Released(c, s) THEN s.sched.observed \cup c.preceding
                        ELSE s.sched.observed
  /\ m.stallArmed <=> /\ m.sched.state = "WAITING_FOR_TURN" /\ ~Released(c, s)
  /\ m.stalled = IF m.stallArmed /\ s.stallArmed THEN s.stalled ELSE 0
  /\ TickedStandby(c, s, m.standby)

LEMMA DeviceTicked ==
  ASSUME NEW c \in Configuration, NEW s, DeviceInv(c, s), HandedOver(s),
         Unresolved(s.standby)
  PROVE  TickedDevice(c, s, Ticked(c, s)) /\ Unresolved(Ticked(c, s).standby)
<1>1. s \in DeviceState /\ s.sched \in Scheduler /\ s.standby \in Standby
      /\ c.preceding \subseteq NodeId
  BY DEF DeviceInv, DeviceState, Configuration
<1>2. PICK q : q = SchedulerTick(c, s.sched)
  OBVIOUS
<1>3. q \in Scheduler /\ q.node.buffer = s.sched.node.buffer
  BY <1>1, <1>2, SchedulerTickType
<1>4. q.observed = s.sched.observed
  BY <1>1, <1>2 DEF SchedulerTick, Scheduler
<1>5. PICK x : x = SchedulerStage(c, s)
  OBVIOUS
<1>6. x = [s EXCEPT !.sched = q]
  BY <1>2, <1>5 DEF SchedulerStage
<1>7. /\ x \in DeviceState /\ x.sched = q /\ x.standby = s.standby
      /\ x.retx = s.retx /\ x.responder = s.responder /\ x.sent = s.sent
      /\ x.locked = s.locked /\ x.idle = s.idle
      /\ x.ownOutputSent = s.ownOutputSent /\ x.myOutputValue = s.myOutputValue
      /\ x.stallArmed = s.stallArmed /\ x.stalled = s.stalled
  BY <1>1, <1>3, <1>6 DEF DeviceState
<1>8. PICK b : b = IF Watches(c, s) THEN StandbyTick(c, s.standby) ELSE s.standby
  OBVIOUS
<1>9. TickedStandby(c, s, b) /\ Unresolved(b)
  BY <1>1, <1>8, StandbyTicked
<1>10. b \in Standby
  BY <1>1, <1>8, TickType
<1>11. PICK y : y = StandbyStage(c, x)
  OBVIOUS
<1>12. y = [x EXCEPT !.standby = b]
  <2>1. CASE Watches(c, s)
    BY <1>2, <1>7, <1>8, <1>11, <2>1 DEF StandbyStage, Watches
  <2>2. CASE ~Watches(c, s)
    <3>1. y = x /\ b = x.standby
      BY <1>2, <1>7, <1>8, <1>11, <2>2 DEF StandbyStage, Watches
    <3> QED BY <1>7, <3>1 DEF DeviceState
  <2> QED BY <2>1, <2>2
<1>13. /\ y \in DeviceState /\ y.sched = q /\ y.standby = b
       /\ y.retx = s.retx /\ y.responder = s.responder /\ y.sent = s.sent
       /\ y.locked = s.locked /\ y.idle = s.idle
       /\ y.ownOutputSent = s.ownOutputSent /\ y.myOutputValue = s.myOutputValue
       /\ y.stallArmed = s.stallArmed /\ y.stalled = s.stalled
  BY <1>7, <1>10, <1>12 DEF DeviceState
<1>14. PICK m : m = StallStage(c, y)
  OBVIOUS
<1>15. m = Ticked(c, s)
  BY <1>5, <1>11, <1>14 DEF Ticked
<1>16. /\ m.standby = b /\ m.retx = s.retx /\ m.responder = s.responder
       /\ m.sent = s.sent /\ m.locked = s.locked /\ m.idle = s.idle
       /\ m.ownOutputSent = s.ownOutputSent /\ m.myOutputValue = s.myOutputValue
       /\ m.sched.state = q.state /\ m.sched.node = q.node
       /\ m.sched.observed = IF Released(c, s) THEN s.sched.observed \cup c.preceding
                             ELSE s.sched.observed
       /\ m.stallArmed = (m.sched.state = "WAITING_FOR_TURN" /\ ~Released(c, s))
       /\ m.stalled = IF m.stallArmed /\ s.stallArmed THEN s.stalled ELSE 0
  <2>1. CASE q.state # "WAITING_FOR_TURN"
    <3>1. m = [y EXCEPT !.stallArmed = FALSE, !.stalled = 0]
      BY <1>13, <1>14, <2>1 DEF StallStage
    <3>2. ~Released(c, s)
      BY <1>2, <2>1 DEF Released
    <3> QED BY <1>3, <1>4, <1>13, <2>1, <3>1, <3>2 DEF DeviceState
  <2>2. CASE q.state = "WAITING_FOR_TURN" /\ ~s.stallArmed
    <3>1. m = [y EXCEPT !.stallArmed = TRUE, !.stalled = 0]
      BY <1>13, <1>14, <2>2 DEF StallStage
    <3>2. ~Released(c, s)
      BY <1>2, <2>2 DEF Released
    <3> QED BY <1>3, <1>4, <1>13, <2>2, <3>1, <3>2 DEF DeviceState
  <2>3. CASE Released(c, s)
    <3>1. m = [y EXCEPT !.sched.observed = @ \cup c.preceding,
                        !.stallArmed = FALSE, !.stalled = 0]
      BY <1>2, <1>13, <1>14, <2>3 DEF StallStage, Released
    <3>2. y.sched.observed \cup c.preceding = s.sched.observed \cup c.preceding
      BY <1>4, <1>13
    <3>3. PICK O : O = s.sched.observed \cup c.preceding
      OBVIOUS
    <3>4. PICK r : r = [q EXCEPT !.observed = O]
      OBVIOUS
    <3>5. m = [y EXCEPT !.sched = r, !.stallArmed = FALSE, !.stalled = 0]
      BY <1>13, <3>1, <3>2, <3>3, <3>4
    <3>6. r.state = q.state /\ r.node = q.node /\ r.observed = O
      BY <1>3, <3>4 DEF Scheduler
    <3> QED BY <1>13, <2>3, <3>3, <3>5, <3>6 DEF DeviceState
  <2>4. CASE q.state = "WAITING_FOR_TURN" /\ s.stallArmed /\ ~(s.stalled >= StallTicks)
    <3>1. m = y
      BY <1>13, <1>14, <2>4 DEF StallStage
    <3>2. ~Released(c, s)
      BY <2>4 DEF Released
    <3> QED BY <1>3, <1>4, <1>13, <2>4, <3>1, <3>2
  <2> QED BY <1>2, <2>1, <2>2, <2>3, <2>4 DEF Released
<1>17. TickedDevice(c, s, m)
  BY <1>2, <1>3, <1>9, <1>16 DEF TickedDevice
<1> QED BY <1>9, <1>15, <1>16, <1>17

(* A device that has handed over all it had to send.                       *)
RepliedDevice(c, m, z) ==
  /\ z.retx \in [Slot -> RetxSlot]
  /\ z.sent \subseteq m.sent \cup Issues(c, m)
  /\ \A k \in Slot : z.retx[k].left > 0 =>
       z.retx[k] = m.retx[k] \/ (z.retx[k].pkt \in z.sent /\ z.retx[k].wait = 0)
  /\ Issues(c, m) \subseteq z.sent
  /\ Steady(m, z)
  /\ z.standby.outgoing = NoPacket /\ z.standby.diagnostic = NoPacket
  /\ ~z.responder.pending
  /\ ~OutputReady(m.sched) => SameOutput(m, z)
  /\ OutputReady(m.sched) => /\ z.sched.state = "TRANSMITTED" /\ z.ownOutputSent
                             /\ z.myOutputValue = m.sched.node.outputValue
  /\ \A n \in z.sched.observed :
       \/ n \in m.sched.observed
       \/ /\ m.standby.outgoing # NoPacket /\ m.standby.hasSubstituted
          /\ [m.standby.outgoing EXCEPT !.group = c.succ] \in z.sent
          /\ n = m.standby.outgoing.src.node
  /\ m.standby.outgoing # NoPacket /\ m.standby.hasSubstituted
     /\ m.standby.outgoing.src.layer = c.addr.layer
       => m.standby.outgoing.src.node \in z.sched.observed

(* A slot that is filled while sending holds a packet that is sent.        *)
LEMMA SteadyChain ==
  ASSUME NEW r, NEW s, NEW t, Steady(r, s), Steady(s, t)
  PROVE  Steady(r, t)
BY DEF Steady, SameJudgement

LEMMA SendsChain ==
  ASSUME NEW r, NEW s, NEW t, NEW ps, NEW qs, SendsOnly(r, s, ps), SendsOnly(s, t, qs)
  PROVE  SendsOnly(r, t, ps \cup qs)
BY DEF SendsOnly

LEMMA AllSent ==
  ASSUME NEW c \in Configuration, NEW m, DeviceInv(c, m)
  PROVE  RepliedDevice(c, m, Replied(c, m)) /\ DeviceInv(c, Replied(c, m))
<1>1. PICK a : a = OwnOutputStage(c, m)
  OBVIOUS
<1>2. PICK b : b = ReportStage(c, a)
  OBVIOUS
<1>3. PICK d : d = StandbyOutputStage(c, b)
  OBVIOUS
<1>4. PICK z : z = ReplyStage(c, d)
  OBVIOUS
<1>5. DeviceInv(c, a) /\ DeviceInv(c, b) /\ DeviceInv(c, d) /\ DeviceInv(c, z)
  <2>1. DeviceInv(c, a)
    BY <1>1, OwnOutputStageInv
  <2>2. DeviceInv(c, b)
    BY <1>2, <2>1, ReportStageInv
  <2>3. DeviceInv(c, d)
    BY <1>3, <2>2, StandbyOutputStageInv
  <2> QED BY <1>4, <2>1, <2>2, <2>3, ReplyStageInv
<1>6. z = Replied(c, m)
  BY <1>1, <1>2, <1>3, <1>4 DEF Replied
<1>7. /\ Steady(m, a) /\ SendsOnly(m, a, OwnIssue(c, m))
      /\ OwnIssue(c, m) \subseteq a.sent
      /\ a.sched.observed = m.sched.observed
      /\ a.standby = m.standby /\ a.responder = m.responder
      /\ ~OutputReady(m.sched) => SameOutput(m, a)
      /\ OutputReady(m.sched) =>
           /\ a.sched.state = "TRANSMITTED" /\ a.ownOutputSent
           /\ a.myOutputValue = m.sched.node.outputValue
  BY <1>1, OwnOutputSends
<1>8. /\ Steady(a, b) /\ SendsOnly(a, b, ReportIssue(a)) /\ SameOutput(a, b)
      /\ ReportIssue(a) \subseteq b.sent
      /\ b.sched = a.sched /\ b.responder = a.responder
      /\ b.standby.outgoing = a.standby.outgoing
      /\ b.standby.diagnostic = NoPacket
  BY <1>2, <1>5, ReportSends
<1>9. /\ Steady(b, d) /\ SendsOnly(b, d, StandbyIssue(c, b)) /\ SameOutput(b, d)
      /\ StandbyIssue(c, b) \subseteq d.sent
      /\ d.responder = b.responder
      /\ \A n \in d.sched.observed :
           \/ n \in b.sched.observed
           \/ /\ b.standby.outgoing # NoPacket /\ b.standby.hasSubstituted
              /\ [b.standby.outgoing EXCEPT !.group = c.succ] \in d.sent
              /\ n = b.standby.outgoing.src.node
      /\ b.standby.outgoing # NoPacket /\ b.standby.hasSubstituted
         /\ b.standby.outgoing.src.layer = c.addr.layer
           => b.standby.outgoing.src.node \in d.sched.observed
      /\ d.standby.outgoing = NoPacket
      /\ d.standby.diagnostic = b.standby.diagnostic
  BY <1>3, <1>5, StandbyOutputSends
<1>10. /\ Steady(d, z) /\ SendsOnly(d, z, ReplyIssue(c, d)) /\ SameOutput(d, z)
       /\ ReplyIssue(c, d) \subseteq z.sent
       /\ z.sched = d.sched /\ z.standby = d.standby
       /\ ~z.responder.pending
  BY <1>4, <1>5, ReplySends
<1>11. ReportIssue(a) = ReportIssue(m)
  BY <1>7 DEF ReportIssue
<1>12. StandbyIssue(c, b) = StandbyIssue(c, m)
  BY <1>7, <1>8 DEF StandbyIssue, StandbyGroup, Steady, SameJudgement
<1>13. ReplyIssue(c, d) = ReplyIssue(c, m)
  BY <1>7, <1>8, <1>9 DEF ReplyIssue
<1>14. Steady(m, z)
  BY <1>7, <1>8, <1>9, <1>10, SteadyChain
<1>15. SendsOnly(m, z, Issues(c, m))
  <2>1. SendsOnly(m, b, OwnIssue(c, m) \cup ReportIssue(m))
    BY <1>7, <1>8, <1>11, SendsChain
  <2>2. SendsOnly(m, d, OwnIssue(c, m) \cup ReportIssue(m) \cup StandbyIssue(c, m))
    BY <2>1, <1>9, <1>12, SendsChain
  <2> QED BY <2>2, <1>10, <1>13, SendsChain DEF Issues
<1>16. Issues(c, m) \subseteq z.sent
  <2>1. OwnIssue(c, m) \subseteq z.sent
    BY <1>7, <1>8, <1>9, <1>10 DEF Steady
  <2>2. ReportIssue(m) \subseteq z.sent
    BY <1>8, <1>9, <1>10, <1>11 DEF Steady
  <2>3. StandbyIssue(c, m) \subseteq z.sent
    BY <1>9, <1>10, <1>12 DEF Steady
  <2> QED BY <2>1, <2>2, <2>3, <1>10, <1>13 DEF Issues
<1>17. /\ ~OutputReady(m.sched) => SameOutput(m, z)
       /\ OutputReady(m.sched) => /\ z.sched.state = "TRANSMITTED" /\ z.ownOutputSent
                                  /\ z.myOutputValue = m.sched.node.outputValue
  BY <1>7, <1>8, <1>9, <1>10 DEF SameOutput
<1>18. /\ m.standby.outgoing = b.standby.outgoing
       /\ m.standby.hasSubstituted = b.standby.hasSubstituted
       /\ z.sched.observed = d.sched.observed /\ b.sched.observed = m.sched.observed
       /\ d.sent \subseteq z.sent
  BY <1>7, <1>8, <1>10 DEF Steady, SameJudgement
<1>19. /\ \A n \in z.sched.observed :
            \/ n \in m.sched.observed
            \/ /\ m.standby.outgoing # NoPacket /\ m.standby.hasSubstituted
               /\ [m.standby.outgoing EXCEPT !.group = c.succ] \in z.sent
               /\ n = m.standby.outgoing.src.node
       /\ m.standby.outgoing # NoPacket /\ m.standby.hasSubstituted
          /\ m.standby.outgoing.src.layer = c.addr.layer
            => m.standby.outgoing.src.node \in z.sched.observed
  BY <1>9, <1>18
<1>20. z.standby.outgoing = NoPacket /\ z.standby.diagnostic = NoPacket
  BY <1>8, <1>9, <1>10
<1>21. /\ z.retx \in [Slot -> RetxSlot] /\ z.sent \subseteq m.sent \cup Issues(c, m)
       /\ \A k \in Slot : z.retx[k].left > 0 =>
            z.retx[k] = m.retx[k] \/ (z.retx[k].pkt \in z.sent /\ z.retx[k].wait = 0)
  BY <1>15, <1>16 DEF SendsOnly
<1>22. RepliedDevice(c, m, z)
  BY <1>10, <1>14, <1>16, <1>17, <1>19, <1>20, <1>21 DEF RepliedDevice
<1> QED BY <1>5, <1>6, <1>22

(* A packet that is the repetition of one in slot q.                       *)
Again(q, p) == q.left > 0 /\ p = [q.pkt EXCEPT !.copy = Copies - q.left]

(* What an iteration may send, and why.                                    *)
MaySend(c, s, p) ==
  \/ /\ p.type = "DATA" /\ p.src = c.addr /\ p.group = c.succ
     /\ TakesTurn(c, s) \/ s.responder.pending
  \/ p.type = "DATA" /\ p.src = c.target /\ p.group = c.succ /\ Judges(c, s)
  \/ p.type = "CONTROL" /\ p.src = c.addr /\ p.about = c.target /\ Judges(c, s)
  \/ p.type = "CONTROL" /\ p.src = c.addr /\ p.flag = "none" /\ Asks(c, s)
  \/ p.type = "TEARDOWN" /\ p.src = c.addr /\ Judges(c, s)
  \/ \E k \in Slot : Again(s.retx[k], p)

(* What an iteration leaves behind in a device whose pass goes on.         *)
PassContinues(c, s, u) ==
  /\ u.locked = s.locked /\ u.idle = s.idle /\ ~u.responder.pending
  /\ u.ownOutputSent <=> s.ownOutputSent \/ TakesTurn(c, s)
  /\ u.sched.node.buffer = s.sched.node.buffer
  /\ u.sched.node = SchedulerTick(c, s.sched).node
  /\ u.sched.state = IF TakesTurn(c, s) THEN "TRANSMITTED"
                     ELSE SchedulerTick(c, s.sched).state
  /\ s.sched.observed \subseteq u.sched.observed
  /\ Released(c, s) => c.preceding \subseteq u.sched.observed
  /\ \A n \in u.sched.observed :
       \/ n \in s.sched.observed
       \/ n \in c.preceding /\ Released(c, s)
       \/ \E p \in u.sent : p.type = "DATA" /\ p.src = c.target /\ n = c.target.node
  /\ \A p \in u.sent :
       p.type = "DATA" /\ p.src = c.target /\ c.target # c.addr
       /\ c.target.layer = c.addr.layer =>
         c.target.node \in u.sched.observed \/ \E k \in Slot : Again(s.retx[k], p)
  /\ u.stallArmed <=> /\ SchedulerTick(c, s.sched).state = "WAITING_FOR_TURN"
                      /\ ~Released(c, s)
  /\ u.stalled = IF u.stallArmed /\ s.stallArmed THEN s.stalled ELSE 0
  /\ u.standby.targetObserved = s.standby.targetObserved
  /\ u.standby.layerObserved = s.standby.layerObserved
  /\ u.standby.resendRequested <=> s.standby.resendRequested \/ Asks(c, s)
  /\ u.standby.waited = IF Asks(c, s) THEN 0 ELSE s.standby.waited
  /\ u.standby.hasSubstituted \/ u.standby.hasTornDown <=>
       s.standby.hasSubstituted \/ s.standby.hasTornDown \/ Judges(c, s)

PassCloses(c, s, u) ==
  /\ u = [PassReset EXCEPT !.sent = u.sent]
  /\ s.ownOutputSent \/ TakesTurn(c, s) \/ s.idle >= IdleTicks

StepTaken(c, s, u) ==
  /\ \A p \in u.sent : MaySend(c, s, p)
  /\ TakesTurn(c, s) => [OutputPacket(c, SchedulerTick(c, s.sched))
                           EXCEPT !.group = c.succ] \in u.sent
  /\ \A k \in Slot : u.retx[k].left > 0 =>
       u.retx[k].pkt \in u.sent
       \/ (s.retx[k].left > 0 /\ u.retx[k].pkt = s.retx[k].pkt)
  /\ HandedOver([u EXCEPT !.sent = {}]) /\ Unresolved(u.standby)
  /\ \/ PassContinues(c, s, u) /\ ~(PassManaged(c) /\ s.idle >= IdleTicks)
     \/ PassCloses(c, s, u)

(* What is issued in this iteration.                                       *)
LEMMA IssuesAllowed ==
  ASSUME NEW c \in Configuration, NEW s, NEW m, TickedDevice(c, s, m), DeviceInv(c, m),
         OutputReady(m.sched) => TakesTurn(c, s), NEW p \in Issues(c, m)
  PROVE  /\ MaySend(c, s, p)
         /\ p.type = "DATA" /\ p.src = c.target /\ c.target # c.addr =>
              m.standby.outgoing # NoPacket /\ m.standby.hasSubstituted
              /\ m.standby.outgoing.src = c.target
<1>1. m \in DeviceState /\ m.standby \in Standby /\ m.responder = s.responder
      /\ TickedStandby(c, s, m.standby)
  BY DEF TickedDevice, DeviceInv, DeviceState
<1>2. CASE p \in OwnIssue(c, m)
  <2>1. p.type = "DATA" /\ p.src = c.addr /\ p.group = c.succ /\ OutputReady(m.sched)
    BY <1>2 DEF OwnIssue, OutputPacket, DataPacket
  <2> QED BY <2>1 DEF MaySend
<1>3. CASE p \in ReportIssue(m)
  <2>1. PICK q : q = m.standby.diagnostic
    OBVIOUS
  <2>2. q # NoPacket /\ p = [q EXCEPT !.group = DiagGroup]
    BY <1>3, <2>1 DEF ReportIssue
  <2>3. /\ q \in Packet /\ q.type = "CONTROL" /\ q.src = c.addr /\ q.about = c.target
        /\ Judges(c, s)
    BY <1>1, <2>1, <2>2 DEF TickedStandby, Told
  <2>4. p.type = "CONTROL" /\ p.src = c.addr /\ p.about = c.target
    BY <2>2, <2>3 DEF Packet
  <2> QED BY <2>3, <2>4 DEF MaySend
<1>4. CASE p \in StandbyIssue(c, m)
  <2>1. PICK q : q = m.standby.outgoing
    OBVIOUS
  <2>2. q # NoPacket /\ p = [q EXCEPT !.group = StandbyGroup(c, m.standby)]
    BY <1>4, <2>1 DEF StandbyIssue
  <2>3. /\ q \in Packet /\ q.src \in {c.addr, c.target}
        /\ q.type = "DATA" <=> m.standby.hasSubstituted
        /\ q.type = "DATA" => q.src = c.target /\ Judges(c, s)
        /\ q.type # "DATA" => q.src = c.addr
        /\ q.type = "CONTROL" => q.flag = "none" /\ Asks(c, s)
        /\ q.type = "TEARDOWN" => Judges(c, s)
    BY <1>1, <2>1, <2>2 DEF TickedStandby, Told
  <2>4. p.type = q.type /\ p.src = q.src /\ p.flag = q.flag
        /\ p.group = StandbyGroup(c, m.standby)
    BY <2>2, <2>3 DEF Packet
  <2>5. q.type \in {"DATA", "CONTROL", "TEARDOWN"}
    BY <2>3 DEF Packet
  <2>6. q.type = "DATA" => p.group = c.succ
    BY <2>3, <2>4 DEF StandbyGroup
  <2> QED BY <2>1, <2>2, <2>3, <2>4, <2>5, <2>6 DEF MaySend
<1>5. CASE p \in ReplyIssue(c, m)
  <2>1. p.type = "DATA" /\ p.src = c.addr /\ p.group = c.succ /\ s.responder.pending
    BY <1>1, <1>5 DEF ReplyIssue, DataPacket
  <2> QED BY <2>1 DEF MaySend
<1> QED BY <1>2, <1>3, <1>4, <1>5 DEF Issues

LEMMA GrantedWhenReady ==
  ASSUME NEW c \in Configuration, NEW s \in DeviceState,
         s.sched.state # "READY_TO_TRANSMIT"
  PROVE  /\ SchedulerTick(c, s.sched).state = "READY_TO_TRANSMIT" <=> TakesTurn(c, s)
         /\ SchedulerTick(c, s.sched) \in Scheduler
<1>1. s.sched \in Scheduler
  BY DEF DeviceState
<1>2. SchedulerTick(c, s.sched) \in Scheduler
  BY <1>1, SchedulerTickType
<1> QED BY <1>1, <1>2 DEF SchedulerTick, Scheduler, TakesTurn, NodeState

(* Retransmissions: a slot filled in this iteration is not due yet.        *)
RepeatedDevice(c, s, m, z, y) ==
  /\ SameOthers(z, y) /\ z.sent \subseteq y.sent
  /\ \A p \in y.sent : p \in Issues(c, m) \/ \E k \in Slot : Again(s.retx[k], p)
  /\ \A k \in Slot : y.retx[k].left > 0 =>
       y.retx[k].pkt \in y.sent
       \/ (s.retx[k].left > 0 /\ y.retx[k].pkt = s.retx[k].pkt)

LEMMA Repeated ==
  ASSUME NEW c \in Configuration, NEW s, NEW m, NEW z, m.retx = s.retx, m.sent = {},
         RepliedDevice(c, m, z), DeviceInv(c, z), NEW y, y = RetransmitStage(z)
  PROVE  RepeatedDevice(c, s, m, z, y)
<1>1. z \in DeviceState /\ z.retx \in [Slot -> RetxSlot]
  BY DEF DeviceInv, DeviceState
<1>2. PICK rx : rx = [k \in Slot |-> SlotServiced(z.retx[k])]
  OBVIOUS
<1>3. PICK S : S = z.sent \cup Repeats(z)
  OBVIOUS
<1>4. y = [z EXCEPT !.sent = S, !.retx = rx]
  BY <1>2, <1>3 DEF RetransmitStage, Repeats
<1>5. SameOthers(z, y) /\ y.sent = S /\ y.retx = rx
  BY <1>1, <1>4 DEF DeviceState, SameOthers
<1>6. ASSUME NEW k \in Slot, Due(z.retx[k])
      PROVE  Again(s.retx[k], [z.retx[k].pkt EXCEPT !.copy = Copies - z.retx[k].left])
  <2>1. z.retx[k].left > 0 /\ z.retx[k].wait # 0
    BY <1>1, <1>6, TicksAssumption DEF Due, RetxSlot
  <2>2. z.retx[k] = s.retx[k]
    BY <2>1 DEF RepliedDevice
  <2> QED BY <2>1, <2>2 DEF Again
<1>7. \A p \in Repeats(z) : \E k \in Slot : Again(s.retx[k], p)
  BY <1>6 DEF Repeats
<1>8. z.sent \subseteq Issues(c, m)
  BY DEF RepliedDevice
<1>9. ASSUME NEW k \in Slot, y.retx[k].left > 0
      PROVE  y.retx[k].pkt \in y.sent
             \/ (s.retx[k].left > 0 /\ y.retx[k].pkt = s.retx[k].pkt)
  <2>1. PICK q : q = z.retx[k] /\ q \in RetxSlot
    BY <1>1
  <2>2. y.retx[k] = SlotServiced(q)
    BY <1>2, <1>5, <2>1
  <2>3. SlotServiced(q).left > 0 => q.left > 0 /\ SlotServiced(q).pkt = q.pkt
    <3>1. EmptySlot.left = 0
      BY DEF EmptySlot
    <3> QED BY <2>1, <3>1 DEF SlotServiced, Due, RetxSlot
  <2>4. q.left > 0 /\ y.retx[k].pkt = q.pkt
    BY <1>9, <2>2, <2>3
  <2>5. q = s.retx[k] \/ q.pkt \in z.sent
    BY <2>1, <2>4 DEF RepliedDevice
  <2> QED BY <1>3, <1>5, <2>4, <2>5
<1> QED BY <1>3, <1>5, <1>7, <1>8, <1>9 DEF RepeatedDevice

(* The device just before the stage that may close its pass.               *)
BeforeClosing(c, s, m, y) ==
  /\ y \in DeviceState /\ Issues(c, m) \subseteq y.sent
  /\ \A p \in y.sent : p \in Issues(c, m) \/ \E k \in Slot : Again(s.retx[k], p)
  /\ \A k \in Slot : y.retx[k].left > 0 =>
       y.retx[k].pkt \in y.sent
       \/ (s.retx[k].left > 0 /\ y.retx[k].pkt = s.retx[k].pkt)
  /\ \A p \in y.sent : MaySend(c, s, p)
  /\ TakesTurn(c, s) => [OutputPacket(c, SchedulerTick(c, s.sched))
                           EXCEPT !.group = c.succ] \in y.sent
  /\ y.standby.outgoing = NoPacket /\ y.standby.diagnostic = NoPacket
  /\ SameJudgement(m.standby, y.standby) /\ Unresolved(y.standby)
  /\ y.sched.state # "READY_TO_TRANSMIT"
  /\ PassContinues(c, s, y)

LEMMA SentAndRepeated ==
  ASSUME NEW c \in Configuration, NEW s, DeviceInv(c, s), HandedOver(s),
         Unresolved(s.standby)
  PROVE  BeforeClosing(c, s, Ticked(c, s), RetransmitStage(Replied(c, Ticked(c, s))))
<1>1. s \in DeviceState /\ s.sent = {} /\ s.sched.state # "READY_TO_TRANSMIT"
  BY DEF DeviceInv, HandedOver
<1>2. PICK m : m = Ticked(c, s)
  OBVIOUS
<1>3. PICK z : z = Replied(c, m)
  OBVIOUS
<1>4. PICK y : y = RetransmitStage(z)
  OBVIOUS
<1>7. TickedDevice(c, s, m) /\ Unresolved(m.standby)
  BY <1>2, DeviceTicked
<1>8. DeviceInv(c, m)
  <2>1. DeviceInv(c, StandbyStage(c, SchedulerStage(c, s)))
    BY SchedulerStageInv, StandbyStageInv
  <2> QED BY <1>2, <2>1, StallStageInv DEF Ticked
<1>9. RepliedDevice(c, m, z) /\ DeviceInv(c, z)
  BY <1>3, <1>8, AllSent
<1>10. DeviceInv(c, y) /\ y \in DeviceState
  BY <1>4, <1>9, RetransmitStageInv DEF DeviceInv
<1>11. OutputReady(m.sched) <=> TakesTurn(c, s)
  BY <1>1, <1>7, GrantedWhenReady DEF OutputReady, TickedDevice
<1>12. m.retx = s.retx /\ m.sent = {} /\ m.standby \in Standby
  BY <1>1, <1>7, <1>8 DEF TickedDevice, DeviceInv, DeviceState
<1>13. /\ SameOthers(z, y) /\ z.sent \subseteq y.sent
       /\ \A p \in y.sent : p \in Issues(c, m) \/ \E k \in Slot : Again(s.retx[k], p)
       /\ \A k \in Slot : y.retx[k].left > 0 =>
            y.retx[k].pkt \in y.sent
            \/ (s.retx[k].left > 0 /\ y.retx[k].pkt = s.retx[k].pkt)
  <2>1. RepeatedDevice(c, s, m, z, y)
    BY <1>4, <1>9, <1>12, Repeated
  <2> QED BY <2>1 DEF RepeatedDevice
<1>14. \A p \in y.sent : MaySend(c, s, p)
  <2> TAKE p \in y.sent
  <2>1. CASE p \in Issues(c, m)
    BY <1>7, <1>8, <1>11, <2>1, IssuesAllowed
  <2>2. CASE \E k \in Slot : Again(s.retx[k], p)
    BY <2>2 DEF MaySend
  <2> QED BY <1>13, <2>1, <2>2
<1>15. TakesTurn(c, s) => [OutputPacket(c, SchedulerTick(c, s.sched))
                             EXCEPT !.group = c.succ] \in y.sent
  <2> HAVE TakesTurn(c, s)
  <2>1. OwnIssue(c, m) \subseteq y.sent
    BY <1>9, <1>13 DEF RepliedDevice, Issues
  <2>2. OutputPacket(c, m.sched) = OutputPacket(c, SchedulerTick(c, s.sched))
    BY <1>7 DEF OutputPacket, TickedDevice
  <2> QED BY <1>11, <2>1, <2>2 DEF OwnIssue
<1>16. /\ y.sched.state = IF TakesTurn(c, s) THEN "TRANSMITTED"
                          ELSE SchedulerTick(c, s.sched).state
       /\ y.ownOutputSent <=> s.ownOutputSent \/ TakesTurn(c, s)
  <2>1. y.sched.state = z.sched.state /\ y.ownOutputSent = z.ownOutputSent
    BY <1>13 DEF SameOthers
  <2>2. m.sched.state = SchedulerTick(c, s.sched).state
        /\ m.ownOutputSent = s.ownOutputSent
    BY <1>7 DEF TickedDevice
  <2> QED BY <1>9, <1>11, <2>1, <2>2 DEF RepliedDevice, SameOutput
<1>17. y.standby.outgoing = NoPacket /\ y.standby.diagnostic = NoPacket
       /\ ~y.responder.pending /\ SameJudgement(m.standby, y.standby)
  BY <1>9, <1>13 DEF SameOthers, RepliedDevice, Steady
<1>18. Unresolved(y.standby)
  BY <1>7, <1>17 DEF Unresolved, SameJudgement
<1>19. y.sched.state # "READY_TO_TRANSMIT"
  BY <1>1, <1>16, GrantedWhenReady
<1>20. PassContinues(c, s, y)
  <2>1. /\ y.locked = s.locked /\ y.idle = s.idle
        /\ y.stallArmed = m.stallArmed /\ y.stalled = m.stalled
        /\ y.sched.node = m.sched.node /\ m.sched.observed \subseteq y.sched.observed
        /\ y.sched.observed = z.sched.observed
    BY <1>7, <1>9, <1>13 DEF SameOthers, RepliedDevice, Steady, TickedDevice
  <2>2. /\ y.sched.node = SchedulerTick(c, s.sched).node
        /\ y.sched.node.buffer = s.sched.node.buffer
    BY <1>7, <2>1 DEF TickedDevice
  <2>3. /\ s.sched.observed \subseteq y.sched.observed
        /\ Released(c, s) => c.preceding \subseteq y.sched.observed
    BY <1>7, <2>1 DEF TickedDevice
  <2>4. ASSUME NEW n \in y.sched.observed
        PROVE  \/ n \in s.sched.observed
               \/ n \in c.preceding /\ Released(c, s)
               \/ \E p \in y.sent : /\ p.type = "DATA" /\ p.src = c.target
                                   /\ n = c.target.node
    <3>1. CASE n \in m.sched.observed
      BY <1>7, <3>1 DEF TickedDevice
    <3>2. CASE n \notin m.sched.observed
      <4>1. PICK q : q = m.standby.outgoing
        OBVIOUS
      <4>2. PICK p : p = [q EXCEPT !.group = c.succ]
        OBVIOUS
      <4>3. /\ q # NoPacket /\ m.standby.hasSubstituted /\ p \in y.sent
            /\ n = q.src.node
        BY <1>9, <1>13, <2>1, <3>2, <4>1, <4>2 DEF RepliedDevice
      <4>4. q \in Packet /\ q.type = "DATA" /\ q.src = c.target
        BY <1>7, <4>1, <4>3 DEF TickedDevice, TickedStandby, Told
      <4>5. p.type = "DATA" /\ p.src = c.target
        BY <4>2, <4>4 DEF Packet
      <4> QED BY <4>3, <4>4, <4>5
    <3> QED BY <3>1, <3>2
  <2>5. ASSUME NEW p \in y.sent, p.type = "DATA", p.src = c.target, c.target # c.addr,
               c.target.layer = c.addr.layer
        PROVE  c.target.node \in y.sched.observed \/ \E k \in Slot : Again(s.retx[k], p)
    <3>1. CASE p \in Issues(c, m)
      <4>1. /\ m.standby.outgoing # NoPacket /\ m.standby.hasSubstituted
            /\ m.standby.outgoing.src = c.target
        BY <1>7, <1>8, <1>11, <2>5, <3>1, IssuesAllowed
      <4> QED BY <1>9, <2>1, <2>5, <4>1 DEF RepliedDevice
    <3> QED BY <1>13, <3>1
  <2>6. /\ y.stallArmed <=> /\ SchedulerTick(c, s.sched).state = "WAITING_FOR_TURN"
                            /\ ~Released(c, s)
        /\ y.stalled = IF y.stallArmed /\ s.stallArmed THEN s.stalled ELSE 0
    BY <1>7, <2>1 DEF TickedDevice
  <2>7. /\ y.standby.targetObserved = s.standby.targetObserved
        /\ y.standby.layerObserved = s.standby.layerObserved
        /\ y.standby.resendRequested <=> s.standby.resendRequested \/ Asks(c, s)
        /\ y.standby.waited = IF Asks(c, s) THEN 0 ELSE s.standby.waited
        /\ y.standby.hasSubstituted \/ y.standby.hasTornDown <=>
             s.standby.hasSubstituted \/ s.standby.hasTornDown \/ Judges(c, s)
    BY <1>7, <1>17 DEF TickedDevice, TickedStandby, SameJudgement
  <2> QED BY <1>16, <1>17, <2>1, <2>2, <2>3, <2>4, <2>5, <2>6, <2>7 DEF PassContinues
<1>21. Issues(c, m) \subseteq y.sent
  BY <1>9, <1>13 DEF RepliedDevice
<1>22. BeforeClosing(c, s, m, y)
  BY <1>10, <1>13, <1>14, <1>15, <1>17, <1>18, <1>19, <1>20, <1>21 DEF BeforeClosing
<1> QED BY <1>2, <1>3, <1>4, <1>22

LEMMA StepDone ==
  ASSUME NEW c \in Configuration, NEW s, DeviceInv(c, s), HandedOver(s),
         Unresolved(s.standby)
  PROVE  StepTaken(c, s, RuntimeStep(c, s))
<1>1. PICK m : m = Ticked(c, s)
  OBVIOUS
<1>4. PICK y : y = RetransmitStage(Replied(c, m))
  OBVIOUS
<1>5. PICK u : u = CloseStage(c, y)
  OBVIOUS
<1>6. u = RuntimeStep(c, s)
  BY <1>1, <1>4, <1>5 DEF RuntimeStep, Ticked, Replied
<1>7. BeforeClosing(c, s, m, y)
  BY <1>1, <1>4, SentAndRepeated
<1>10. y \in DeviceState
  BY <1>7 DEF BeforeClosing
<1>13. \A k \in Slot : y.retx[k].left > 0 =>
         y.retx[k].pkt \in y.sent
         \/ (s.retx[k].left > 0 /\ y.retx[k].pkt = s.retx[k].pkt)
  BY <1>7 DEF BeforeClosing
<1>14. \A p \in y.sent : MaySend(c, s, p)
  BY <1>7 DEF BeforeClosing
<1>15. TakesTurn(c, s) => [OutputPacket(c, SchedulerTick(c, s.sched))
                             EXCEPT !.group = c.succ] \in y.sent
  BY <1>7 DEF BeforeClosing
<1>16. y.standby.outgoing = NoPacket /\ y.standby.diagnostic = NoPacket
       /\ Unresolved(y.standby) /\ y.sched.state # "READY_TO_TRANSMIT"
  BY <1>7 DEF BeforeClosing
<1>20. PassContinues(c, s, y)
  BY <1>7 DEF BeforeClosing
<1>21. CASE ~Closing(c, y)
  <2>1. u = y
    BY <1>5, <1>21 DEF CloseStage
  <2>2. HandedOver([y EXCEPT !.sent = {}])
    BY <1>10, <1>16 DEF HandedOver, DeviceState
  <2>3. ~(PassManaged(c) /\ s.idle >= IdleTicks)
    BY <1>20, <1>21 DEF Closing, PassContinues
  <2> QED BY <1>6, <1>13, <1>14, <1>15, <1>16, <1>20, <2>1, <2>2, <2>3 DEF StepTaken
<1>22. CASE Closing(c, y)
  <2>1. u = [PassReset EXCEPT !.sent = y.sent]
    BY <1>5, <1>22 DEF CloseStage
  <2>2. PassReset \in DeviceState
    BY PassResetInv DEF DeviceInv
  <2>3. u.sent = y.sent /\ u.standby = StandbyReset /\ u.sched = SchedulerReset
        /\ u.retx = [k \in Slot |-> EmptySlot]
    BY <2>1 DEF PassReset
  <2>4. u = [PassReset EXCEPT !.sent = u.sent]
    BY <2>1, <2>3
  <2>5. HandedOver([u EXCEPT !.sent = {}])
    BY <2>1, <2>3 DEF HandedOver, StandbyReset, SchedulerReset, PassReset
  <2>6. Unresolved(u.standby)
    BY <2>3 DEF Unresolved, StandbyReset
  <2>7. \A k \in Slot : ~(u.retx[k].left > 0)
    BY <2>3 DEF EmptySlot
  <2>8. PassCloses(c, s, u)
    BY <1>20, <1>22, <2>4 DEF PassCloses, PassContinues, Closing, PassResolved
  <2> QED BY <1>6, <1>14, <1>15, <2>3, <2>5, <2>6, <2>7, <2>8 DEF StepTaken
<1> QED BY <1>21, <1>22

-----------------------------------------------------------------------------
(* What a received packet changes.                                         *)
Unjudging(b, d) ==
  /\ d.resendRequested = b.resendRequested /\ d.waited = b.waited
  /\ d.hasSubstituted = b.hasSubstituted /\ d.hasTornDown = b.hasTornDown
  /\ d.resolved = b.resolved
  /\ d.outgoing = b.outgoing /\ d.diagnostic = b.diagnostic

PacketTaken(c, s, p, u) ==
  /\ u.idle = 0 /\ u.stallArmed = s.stallArmed /\ u.stalled = s.stalled
  /\ u.ownOutputSent = s.ownOutputSent /\ u.retx = s.retx /\ u.sent = s.sent
  /\ u.locked = IF FromPredecessors(c, p) THEN LockedAfter(s.locked, p) ELSE s.locked
  /\ u.responder.pending => s.responder.pending \/ s.ownOutputSent
  /\ u.sched.state = s.sched.state
  /\ u.sched.node.hasExecuted = s.sched.node.hasExecuted
  /\ u.sched.observed =
       s.sched.observed \cup
       (IF p.type = "DATA" /\ p.src.layer = c.addr.layer /\ ~Suppressed(c, s, p)
        THEN {p.src.node} ELSE {})
  /\ u.sched.node.buffer.received =
       s.sched.node.buffer.received \cup
       (IF p.type = "DATA" /\ FromPredecessors(c, p) /\ ~Suppressed(c, s, p)
        THEN {p.src.node} ELSE {})
  /\ \A n \in u.standby.layerObserved :
       \/ n \in s.standby.layerObserved
       \/ p.type = "DATA" /\ p.src.layer = c.addr.layer /\ n = p.src.node
  /\ u.standby.targetObserved <=>
       \/ s.standby.targetObserved
       \/ /\ p.type = "DATA" /\ IsStandby(c) /\ p.src = c.target
          /\ ~Suppressed(c, s, p)
  /\ Unjudging(s.standby, u.standby)

LEMMA PacketDone ==
  ASSUME NEW c \in Configuration, NEW s, DeviceInv(c, s), NEW p \in Packet
  PROVE  PacketTaken(c, s, p, ReceivePacket(c, s, p))
<1>1. s \in DeviceState /\ s.sched \in Scheduler /\ s.sched.node \in Node
      /\ s.standby \in Standby /\ s.responder \in Responder
      /\ p.src \in Address /\ p.type \in {"DATA", "CONTROL", "TEARDOWN"}
  BY DEF DeviceInv, DeviceState, Scheduler, Packet
<1>2. PICK l : l = IF FromPredecessors(c, p) THEN LockedAfter(s.locked, p) ELSE s.locked
  OBVIOUS
<1>3. PICK t : t = [s EXCEPT !.idle = 0, !.locked = l]
  OBVIOUS
<1>4. PICK u : u = ReceivePacket(c, s, p)
  OBVIOUS
<1>5. t = [s EXCEPT !.idle = 0, !.locked = IF FromPredecessors(c, p)
                                           THEN LockedAfter(@, p) ELSE @]
  BY <1>2, <1>3
<1>6. /\ t.idle = 0 /\ t.locked = l /\ t.sched = s.sched /\ t.standby = s.standby
      /\ t.responder = s.responder /\ t.ownOutputSent = s.ownOutputSent
      /\ t.myOutputValue = s.myOutputValue /\ t.stallArmed = s.stallArmed
      /\ t.stalled = s.stalled /\ t.retx = s.retx /\ t.sent = s.sent
  BY <1>1, <1>3 DEF DeviceState
<1>7. t \in DeviceState
  <2>1. l \in SUBSET NodeId
    BY <1>1, <1>2 DEF LockedAfter, DeviceState, Address
  <2> QED BY <1>1, <1>3, <2>1 DEF DeviceState
<1>8. CASE Suppressed(c, s, p) \/ p.type = "TEARDOWN"
  <2>1. u = t
    BY <1>4, <1>5, <1>8 DEF ReceivePacket
  <2> QED BY <1>2, <1>4, <1>6, <1>8, <2>1 DEF PacketTaken, Unjudging
<1>9. CASE ~Suppressed(c, s, p) /\ p.type = "CONTROL"
  <2>1. u = ReceiveControl(c, t, p)
    BY <1>4, <1>5, <1>9 DEF ReceivePacket
  <2>2. PICK r : r = ResponderObserve(c, t.responder, p, t.ownOutputSent, t.myOutputValue)
    OBVIOUS
  <2>3. u = [t EXCEPT !.responder = r]
    BY <2>1, <2>2 DEF ReceiveControl
  <2>4. r.pending => t.responder.pending \/ t.ownOutputSent
    BY <2>2 DEF ResponderObserve
  <2>5. /\ u.idle = t.idle /\ u.locked = t.locked /\ u.sched = t.sched
        /\ u.standby = t.standby /\ u.responder = r
        /\ u.ownOutputSent = t.ownOutputSent /\ u.stallArmed = t.stallArmed
        /\ u.stalled = t.stalled /\ u.retx = t.retx /\ u.sent = t.sent
    BY <1>7, <2>3 DEF DeviceState
  <2> QED BY <1>2, <1>4, <1>6, <1>9, <2>4, <2>5 DEF PacketTaken, Unjudging
<1>10. CASE ~Suppressed(c, s, p) /\ p.type = "DATA"
  <2>1. u = ReceiveData(c, t, p)
    BY <1>4, <1>5, <1>10 DEF ReceivePacket
  <2>2. PICK q : q = SchedulerReceive(c, t.sched, p)
    OBVIOUS
  <2>3. PICK b : b = IF IsStandby(c) THEN StandbyObserve(c, t.standby, p) ELSE t.standby
    OBVIOUS
  <2>4. u = [t EXCEPT !.sched = q, !.standby = b,
                      !.targetSeen = @ \/ (IsStandby(c) /\ p.src = c.target)]
    BY <2>1, <2>2, <2>3 DEF ReceiveData
  <2>5. /\ u.idle = t.idle /\ u.locked = t.locked /\ u.sched = q
        /\ u.standby = b /\ u.responder = t.responder
        /\ u.ownOutputSent = t.ownOutputSent /\ u.stallArmed = t.stallArmed
        /\ u.stalled = t.stalled /\ u.retx = t.retx /\ u.sent = t.sent
    BY <1>7, <2>4 DEF DeviceState
  <2>6. PICK n : n = NodeReceive(c, s.sched.node, p)
    OBVIOUS
  <2>7. /\ n \in Node /\ n.hasExecuted = s.sched.node.hasExecuted
        /\ n.buffer.received = s.sched.node.buffer.received \cup
             (IF FromPredecessors(c, p) THEN {p.src.node} ELSE {})
    <3>1. n \in Node
      BY <1>1, <2>6, NodeReceiveType
    <3> QED BY <1>1, <2>6, <3>1 DEF NodeReceive, FromPredecessors, StoreInput, Node
  <2>8. q = SiblingObserved(c, [s.sched EXCEPT !.node = n], p.src)
    BY <1>6, <2>2, <2>6 DEF SchedulerReceive
  <2>9. PICK x : x = [s.sched EXCEPT !.node = n]
    OBVIOUS
  <2>10. x \in Scheduler /\ x.node = n /\ x.state = s.sched.state
         /\ x.observed = s.sched.observed
    BY <1>1, <2>7, <2>9 DEF Scheduler
  <2>11. /\ q.node = n /\ q.state = s.sched.state
         /\ q.observed = s.sched.observed \cup
              (IF p.src.layer = c.addr.layer THEN {p.src.node} ELSE {})
    BY <2>8, <2>9, <2>10 DEF SiblingObserved, Scheduler
  <2>12. /\ Unjudging(s.standby, b)
         /\ b.targetObserved <=> s.standby.targetObserved
                                 \/ (IsStandby(c) /\ p.src = c.target)
         /\ \A k \in b.layerObserved :
              \/ k \in s.standby.layerObserved
              \/ p.src.layer = c.addr.layer /\ k = p.src.node
    <3>1. CASE ~IsStandby(c)
      BY <1>6, <2>3, <3>1 DEF Unjudging
    <3>2. CASE IsStandby(c) /\ p.src = c.target
      <4>1. b = [s.standby EXCEPT !.targetObserved = TRUE]
        BY <1>6, <2>3, <3>2 DEF StandbyObserve
      <4> QED BY <1>1, <3>2, <4>1 DEF Unjudging, Standby
    <3>3. CASE IsStandby(c) /\ p.src # c.target
      <4>1. PICK B : B = IF p.src.layer = c.tpredLayer /\ p.src.node \in c.tpred
                         THEN StoreInput(s.standby.buffer, p.src.node, p.value)
                         ELSE s.standby.buffer
        OBVIOUS
      <4>2. PICK L : L = IF p.src.layer = c.addr.layer
                         THEN s.standby.layerObserved \cup {p.src.node}
                         ELSE s.standby.layerObserved
        OBVIOUS
      <4>3. b = [s.standby EXCEPT !.layerObserved = L, !.buffer = B]
        BY <1>6, <2>3, <3>3, <4>1, <4>2 DEF StandbyObserve
      <4>4. /\ b.targetObserved = s.standby.targetObserved /\ b.layerObserved = L
            /\ Unjudging(s.standby, b)
        BY <1>1, <4>3 DEF Unjudging, Standby
      <4> QED BY <3>3, <4>2, <4>4
    <3> QED BY <3>1, <3>2, <3>3
  <2> QED BY <1>2, <1>4, <1>6, <1>10, <2>5, <2>7, <2>11, <2>12 DEF PacketTaken
<1> QED BY <1>1, <1>8, <1>9, <1>10

-----------------------------------------------------------------------------
(* What a tick of the clock changes.                                       *)
TimePassed(c, s, u) ==
  /\ u.sched = s.sched /\ u.responder = s.responder /\ u.locked = s.locked
  /\ u.ownOutputSent = s.ownOutputSent /\ u.stallArmed = s.stallArmed
  /\ u.sent = s.sent
  /\ u.stalled = IF s.stallArmed /\ s.stalled < StallTicks THEN s.stalled + 1
                 ELSE s.stalled
  /\ u.idle = IF PassManaged(c) /\ s.idle < IdleTicks THEN s.idle + 1 ELSE s.idle
  /\ \A k \in Slot : u.retx[k].left = s.retx[k].left /\ u.retx[k].pkt = s.retx[k].pkt
  /\ u.standby.targetObserved = s.standby.targetObserved
  /\ u.standby.layerObserved = s.standby.layerObserved
  /\ u.standby.resendRequested = s.standby.resendRequested
  /\ u.standby.hasSubstituted = s.standby.hasSubstituted
  /\ u.standby.hasTornDown = s.standby.hasTornDown
  /\ u.standby.resolved = s.standby.resolved
  /\ u.standby.outgoing = s.standby.outgoing
  /\ u.standby.diagnostic = s.standby.diagnostic

LEMMA TimeDone ==
  ASSUME NEW c \in Configuration, NEW s, DeviceInv(c, s)
  PROVE  TimePassed(c, s, Elapse(c, s))
<1>1. s \in DeviceState /\ s.standby \in Standby /\ s.retx \in [Slot -> RetxSlot]
      /\ SlotsLoaded(s)
  BY DEF DeviceInv, DeviceState
<1>2. PICK b : b = StandbyElapse(c, s.standby)
  OBVIOUS
<1>3. /\ b.targetObserved = s.standby.targetObserved
      /\ b.layerObserved = s.standby.layerObserved
      /\ b.resendRequested = s.standby.resendRequested
      /\ b.hasSubstituted = s.standby.hasSubstituted
      /\ b.hasTornDown = s.standby.hasTornDown /\ b.resolved = s.standby.resolved
      /\ b.outgoing = s.standby.outgoing /\ b.diagnostic = s.standby.diagnostic
  BY <1>1, <1>2 DEF StandbyElapse, Standby
<1>4. PICK x : x = IF s.stallArmed /\ s.stalled < StallTicks THEN s.stalled + 1
                   ELSE s.stalled
  OBVIOUS
<1>5. PICK y : y = IF PassManaged(c) /\ s.idle < IdleTicks THEN s.idle + 1 ELSE s.idle
  OBVIOUS
<1>6. PICK rx : rx = [k \in Slot |-> SlotElapse(s.retx[k])]
  OBVIOUS
<1>7. \A k \in Slot : rx[k].left = s.retx[k].left /\ rx[k].pkt = s.retx[k].pkt
  BY <1>1, <1>6, SlotLemma DEF SlotsLoaded
<1>8. PICK u : u = Elapse(c, s)
  OBVIOUS
<1>9. u = [s EXCEPT !.standby = b, !.stalled = x, !.idle = y, !.retx = rx]
  BY <1>2, <1>4, <1>5, <1>6, <1>8 DEF Elapse
<1>10. /\ u.sched = s.sched /\ u.responder = s.responder /\ u.locked = s.locked
       /\ u.ownOutputSent = s.ownOutputSent /\ u.stallArmed = s.stallArmed
       /\ u.sent = s.sent /\ u.stalled = x /\ u.idle = y /\ u.standby = b /\ u.retx = rx
  BY <1>1, <1>9 DEF DeviceState
<1> QED BY <1>3, <1>4, <1>5, <1>7, <1>8, <1>10 DEF TimePassed

-----------------------------------------------------------------------------
(* The standby's part of an iteration, where it has its target's inputs.   *)
Relieved(c) == IsStandby(c) => MirrorsOwnInputs(c)

(* A packet that gives nobody up.                                          *)
Heartening(p) == p.type # "TEARDOWN" /\ p.flag # "teardown"

(* The verdict is told to the layer and to the laptop.                     *)
Substituted(c, ps) ==
  /\ \E p \in ps : p.type = "DATA" /\ p.src = c.target
  /\ \E p \in ps : /\ Report(p) /\ p.group = DiagGroup
                   /\ p.src = c.addr /\ p.about = c.target

StepWatched(c, s, u) ==
  /\ Judges(c, s) => Substituted(c, u.sent)
  /\ \A p \in u.sent : Heartening(p) \/ \E k \in Slot : Again(s.retx[k], p)
  /\ \/ /\ PassContinues(c, s, u)
        /\ u.targetSeen => s.targetSeen \/ Judges(c, s)
        /\ u.standby.resolved <=> s.standby.resolved \/ Judges(c, s)
     \/ /\ PassCloses(c, s, u) /\ u.standby = StandbyReset /\ ~u.targetSeen
        /\ \/ s.idle >= IdleTicks
           \/ IsStandby(c) => s.targetSeen \/ s.standby.resolved \/ Judges(c, s)

(* The standby once it has been ticked.                                    *)
TickedVerdict(c, s, b) ==
  /\ b.resolved <=> s.standby.resolved \/ Judges(c, s)
  /\ Judges(c, s) =>
       /\ b.hasSubstituted /\ b.outgoing # NoPacket /\ b.diagnostic # NoPacket
       /\ b.outgoing.type = "DATA" /\ b.outgoing.src = c.target
       /\ b.outgoing.flag = "substitute" /\ b.diagnostic.flag = "substitute"
  /\ b.outgoing # NoPacket /\ (b.hasSubstituted \/ b.hasTornDown) => Judges(c, s)

LEMMA VerdictTicked ==
  ASSUME NEW c \in Configuration, Relieved(c), NEW s, DeviceInv(c, s), HandedOver(s),
         Unresolved(s.standby),
         NEW b, b = IF Watches(c, s) THEN StandbyTick(c, s.standby) ELSE s.standby
  PROVE  TickedVerdict(c, s, b)
<1> DEFINE a == s.standby
<1>1. /\ s \in DeviceState /\ s.sched \in Scheduler
      /\ a \in Standby /\ a.outgoing = NoPacket /\ a.diagnostic = NoPacket
  BY DEF DeviceInv, DeviceState, HandedOver
<1>2. CASE ~Judges(c, s)
  <2>1. CASE b = a
    BY <1>1, <1>2, <2>1 DEF TickedVerdict
  <2>2. CASE b # a
    <3>1. /\ Watches(c, s) /\ ~a.targetObserved /\ ~a.resolved /\ b = StandbyTick(c, a)
      BY <2>2 DEF StandbyTick
    <3>2. ~(a.resendRequested /\ a.waited >= c.grace)
      BY <1>2, <3>1 DEF Judges, Unjudged
    <3>3. b = RequestResend(c, a)
      BY <2>2, <3>1, <3>2 DEF StandbyTick, GraceOver
    <3>4. PICK p : p = ControlPacket(c.addr, 0, "none", c.target)
      OBVIOUS
    <3>5. b = [a EXCEPT !.resendRequested = TRUE, !.waited = 0, !.outgoing = p]
      BY <3>3, <3>4 DEF RequestResend
    <3>6. /\ b.resolved = a.resolved /\ b.hasSubstituted = a.hasSubstituted
          /\ b.hasTornDown = a.hasTornDown
      BY <1>1, <3>5 DEF Standby
    <3> QED BY <1>2, <3>1, <3>6 DEF TickedVerdict, Unresolved
  <2> QED BY <2>1, <2>2
<1>3. CASE Judges(c, s)
  <2>1. /\ IsStandby(c) /\ b = StandbyTick(c, a) /\ ~a.targetObserved /\ ~a.resolved
        /\ a.resendRequested /\ a.waited >= c.grace
        /\ SchedulerTick(c, s.sched).state # "WAITING_FOR_INPUT"
    BY <1>3 DEF Judges, Unjudged, Watches
  <2>2. IsComplete(s.sched.node.buffer, c.pred)
    BY <1>1, <2>1, SchedulerTickType DEF DeviceInv, PastInputs
  <2>3. IsComplete(a.buffer, c.tpred)
    BY <2>1, <2>2 DEF Relieved, DeviceInv, StandbyFollows, MirrorsOwnInputs, IsComplete
  <2>4. b = Substitute(c, a)
    BY <2>1, <2>3 DEF StandbyTick, GraceOver, Verdict
  <2>5. PICK p : p = DataPacket(c.target, "substitute", Gathered(a.buffer, c.tpred))
    OBVIOUS
  <2>6. PICK q : q = FailoverReport(c, "substitute")
    OBVIOUS
  <2>7. b = [a EXCEPT !.resolved = TRUE, !.hasSubstituted = TRUE,
                      !.outgoing = p, !.diagnostic = q]
    BY <2>4, <2>5, <2>6 DEF Substitute
  <2>8. /\ b.resolved = TRUE /\ b.hasSubstituted = TRUE /\ b.outgoing = p
        /\ b.diagnostic = q
    BY <1>1, <2>7 DEF Standby
  <2>9. /\ p.type = "DATA" /\ p.src = c.target /\ p.flag = "substitute"
        /\ q.type = "CONTROL" /\ q.flag = "substitute"
    BY <2>5, <2>6 DEF DataPacket, FailoverReport, ControlPacket
  <2>10. p # NoPacket /\ q # NoPacket
    BY <2>9 DEF NoPacket
  <2> QED BY <1>3, <2>8, <2>9, <2>10 DEF TickedVerdict
<1> QED BY <1>2, <1>3

(* The stages before anything is sent do not touch targetSeen.             *)
LEMMA TickedUnseen ==
  ASSUME NEW c \in Configuration, NEW s, DeviceInv(c, s), NEW m, m = Ticked(c, s)
  PROVE  /\ m.standby = IF Watches(c, s) THEN StandbyTick(c, s.standby) ELSE s.standby
         /\ m.targetSeen = s.targetSeen
<1>1. s \in DeviceState /\ s.sched \in Scheduler
  BY DEF DeviceInv, DeviceState
<1>2. PICK x : x = SchedulerStage(c, s)
  OBVIOUS
<1>3. PICK q : q = SchedulerTick(c, s.sched)
  OBVIOUS
<1>4. x = [s EXCEPT !.sched = q]
  BY <1>2, <1>3 DEF SchedulerStage
<1>5. /\ x.sched = q /\ x.standby = s.standby /\ x.targetSeen = s.targetSeen
      /\ DeviceInv(c, x) /\ x \in DeviceState
  <2>1. x.sched = q /\ x.standby = s.standby /\ x.targetSeen = s.targetSeen
    BY <1>1, <1>4 DEF DeviceState
  <2>2. DeviceInv(c, x)
    BY <1>2, SchedulerStageInv
  <2> QED BY <2>1, <2>2 DEF DeviceInv
<1>6. PICK y : y = StandbyStage(c, x)
  OBVIOUS
<1>7. DeviceInv(c, y) /\ y \in DeviceState
  BY <1>5, <1>6, StandbyStageInv DEF DeviceInv
<1>8. /\ y.standby = IF Watches(c, s) THEN StandbyTick(c, s.standby) ELSE s.standby
      /\ y.targetSeen = s.targetSeen
  <2>1. CASE Watches(c, s)
    <3>1. PICK b : b = StandbyTick(c, s.standby)
      OBVIOUS
    <3>2. y = [x EXCEPT !.standby = b]
      BY <1>3, <1>5, <1>6, <2>1, <3>1 DEF StandbyStage, Watches
    <3> QED BY <1>5, <2>1, <3>1, <3>2 DEF DeviceState
  <2>2. CASE ~Watches(c, s)
    <3>1. y = x
      BY <1>3, <1>5, <1>6, <2>2 DEF StandbyStage, Watches
    <3> QED BY <1>5, <2>2, <3>1
  <2> QED BY <2>1, <2>2
<1>9. m = StallStage(c, y)
  BY <1>2, <1>6 DEF Ticked
<1>10. m.standby = y.standby /\ m.targetSeen = y.targetSeen
  BY <1>7, <1>9 DEF StallStage, DeviceState
<1> QED BY <1>8, <1>10

(* Nor does handing packets to the transport.                              *)
LEMMA SendingUnseen ==
  ASSUME NEW s, "targetSeen" \in DOMAIN s, NEW p, NEW g, NEW k
  PROVE  /\ SendOnce(s, p, g).targetSeen = s.targetSeen
         /\ SendAndRetransmit(s, p, g, k).targetSeen = s.targetSeen
<1>1. PICK S : S = s.sent \cup {[p EXCEPT !.group = g]}
  OBVIOUS
<1>2. PICK t : t = SendOnce(s, p, g)
  OBVIOUS
<1>3. t = [s EXCEPT !.sent = S]
  BY <1>1, <1>2 DEF SendOnce
<1>4. t.targetSeen = s.targetSeen /\ "targetSeen" \in DOMAIN t
  BY <1>3
<1>5. PICK R : R = [left |-> Copies - 1, wait |-> 0, pkt |-> [p EXCEPT !.group = g]]
  OBVIOUS
<1>6. PICK rx : rx = [t.retx EXCEPT ![k] = R]
  OBVIOUS
<1>7. SendAndRetransmit(s, p, g, k) = [t EXCEPT !.retx = rx]
  BY <1>2, <1>5, <1>6 DEF SendAndRetransmit
<1> QED BY <1>2, <1>4, <1>7

(* The stages that send, from m to y: only a verdict adds to targetSeen.   *)
LEMMA SentUnseen ==
  ASSUME NEW c \in Configuration, NEW m, DeviceInv(c, m),
         NEW y, y = RetransmitStage(Replied(c, m)), y.targetSeen
  PROVE  \/ m.targetSeen
         \/ /\ m.standby.outgoing # NoPacket
            /\ m.standby.hasSubstituted \/ m.standby.hasTornDown
<1>1. PICK a : a = OwnOutputStage(c, m)
  OBVIOUS
<1>2. PICK b : b = ReportStage(c, a)
  OBVIOUS
<1>3. PICK d : d = StandbyOutputStage(c, b)
  OBVIOUS
<1>4. PICK z : z = ReplyStage(c, d)
  OBVIOUS
<1>5. DeviceInv(c, a) /\ DeviceInv(c, b) /\ DeviceInv(c, d) /\ DeviceInv(c, z)
  <2>1. DeviceInv(c, a)
    BY <1>1, OwnOutputStageInv
  <2>2. DeviceInv(c, b)
    BY <1>2, <2>1, ReportStageInv
  <2>3. DeviceInv(c, d)
    BY <1>3, <2>2, StandbyOutputStageInv
  <2> QED BY <1>4, <2>1, <2>2, <2>3, ReplyStageInv
<1>6. z = Replied(c, m)
  BY <1>1, <1>2, <1>3, <1>4 DEF Replied
<1>7. a.standby = m.standby
  BY <1>1, OwnOutputSends
<1>8. /\ b.standby.outgoing = a.standby.outgoing
      /\ b.standby.hasSubstituted = a.standby.hasSubstituted
      /\ b.standby.hasTornDown = a.standby.hasTornDown
  <2>1. Steady(a, b) /\ b.standby.outgoing = a.standby.outgoing
    BY <1>2, <1>5, ReportSends
  <2> QED BY <2>1 DEF Steady, SameJudgement
<1>9. /\ m \in DeviceState /\ a \in DeviceState /\ b \in DeviceState
      /\ d \in DeviceState /\ z \in DeviceState
  BY <1>5 DEF DeviceInv
<1>10. a.targetSeen = m.targetSeen
  <2>1. CASE ~OutputReady(m.sched)
    BY <1>1, <2>1 DEF OwnOutputStage
  <2>2. CASE OutputReady(m.sched)
    <3>1. PICK x : x = [m EXCEPT !.sched = OutputTaken(@), !.ownOutputSent = TRUE,
                                 !.myOutputValue = m.sched.node.outputValue]
      OBVIOUS
    <3>2. x.targetSeen = m.targetSeen /\ "targetSeen" \in DOMAIN x
      BY <1>9, <3>1 DEF DeviceState
    <3>3. a = SendAndRetransmit(x, OutputPacket(c, m.sched), c.succ, "own")
      BY <1>1, <2>2, <3>1 DEF OwnOutputStage
    <3> QED BY <3>2, <3>3, SendingUnseen
  <2> QED BY <2>1, <2>2
<1>11. b.targetSeen = a.targetSeen
  <2>1. CASE a.standby.diagnostic = NoPacket
    BY <1>2, <2>1 DEF ReportStage
  <2>2. CASE a.standby.diagnostic # NoPacket
    <3>1. PICK x : x = [a EXCEPT !.standby = DiagnosticTaken(@)]
      OBVIOUS
    <3>2. x.targetSeen = a.targetSeen /\ "targetSeen" \in DOMAIN x
      BY <1>9, <3>1 DEF DeviceState
    <3>3. b = SendAndRetransmit(x, a.standby.diagnostic, DiagGroup, "report")
      BY <1>2, <2>2, <3>1 DEF ReportStage
    <3> QED BY <3>2, <3>3, SendingUnseen
  <2> QED BY <2>1, <2>2
<1>12. z.targetSeen = d.targetSeen
  <2>1. CASE ~d.responder.pending
    BY <1>4, <2>1 DEF ReplyStage
  <2>2. CASE d.responder.pending
    <3>1. PICK x : x = [d EXCEPT !.responder = NoReply]
      OBVIOUS
    <3>2. x.targetSeen = d.targetSeen /\ "targetSeen" \in DOMAIN x
      BY <1>9, <3>1 DEF DeviceState
    <3>3. PICK p : z = SendOnce(x, p, c.succ)
      BY <1>4, <2>2, <3>1 DEF ReplyStage
    <3> QED BY <3>2, <3>3, SendingUnseen
  <2> QED BY <2>1, <2>2
<1>13. y.targetSeen = z.targetSeen
  BY <1>6, <1>9 DEF RetransmitStage, DeviceState
<1>14. d.targetSeen => \/ b.targetSeen
                       \/ /\ b.standby.outgoing # NoPacket
                          /\ b.standby.hasSubstituted \/ b.standby.hasTornDown
  <2>1. CASE b.standby.outgoing = NoPacket
    BY <1>3, <2>1 DEF StandbyOutputStage
  <2>2. CASE /\ b.standby.outgoing # NoPacket
             /\ ~b.standby.hasSubstituted /\ ~b.standby.hasTornDown
    <3>1. PICK x : x = [b EXCEPT !.standby = OutgoingTaken(@)]
      OBVIOUS
    <3>2. x.targetSeen = b.targetSeen /\ "targetSeen" \in DOMAIN x
      BY <1>9, <3>1 DEF DeviceState
    <3>3. d = SendOnce(x, b.standby.outgoing, c.addr.layer)
      BY <1>3, <2>2, <3>1 DEF StandbyOutputStage
    <3> QED BY <3>2, <3>3, SendingUnseen
  <2> QED BY <2>1, <2>2
<1> QED BY <1>7, <1>8, <1>10, <1>11, <1>12, <1>13, <1>14

LEMMA WatchDone ==
  ASSUME NEW c \in Configuration, Relieved(c), NEW s, DeviceInv(c, s), HandedOver(s),
         Unresolved(s.standby)
  PROVE  StepWatched(c, s, RuntimeStep(c, s))
<1>1. PICK m : m = Ticked(c, s)
  OBVIOUS
<1>2. PICK y : y = RetransmitStage(Replied(c, m))
  OBVIOUS
<1>3. PICK u : u = CloseStage(c, y)
  OBVIOUS
<1>4. u = RuntimeStep(c, s)
  BY <1>1, <1>2, <1>3 DEF RuntimeStep, Ticked, Replied
<1>5. BeforeClosing(c, s, m, y)
  BY <1>1, <1>2, SentAndRepeated
<1>6. TickedVerdict(c, s, m.standby) /\ m.targetSeen = s.targetSeen
  BY <1>1, TickedUnseen, VerdictTicked
<1>7. TickedDevice(c, s, m)
  BY <1>1, DeviceTicked
<1>8. DeviceInv(c, m)
  <2>1. DeviceInv(c, StandbyStage(c, SchedulerStage(c, s)))
    BY SchedulerStageInv, StandbyStageInv
  <2> QED BY <1>1, <2>1, StallStageInv DEF Ticked
<1>9. /\ m.standby \in Standby /\ TickedStandby(c, s, m.standby) /\ Told(c, m.standby)
  BY <1>7, <1>8 DEF DeviceInv, DeviceState, TickedDevice, TickedStandby
<1>10. y.targetSeen => s.targetSeen \/ Judges(c, s)
  BY <1>2, <1>6, <1>8, SentUnseen DEF TickedVerdict
<1>11. /\ PassContinues(c, s, y) /\ SameJudgement(m.standby, y.standby)
       /\ Unresolved(y.standby) /\ Issues(c, m) \subseteq y.sent
       /\ \A p \in y.sent : p \in Issues(c, m) \/ \E k \in Slot : Again(s.retx[k], p)
  BY <1>5 DEF BeforeClosing
<1>12. y.standby.resolved <=> s.standby.resolved \/ Judges(c, s)
  BY <1>6, <1>11 DEF TickedVerdict, SameJudgement
<1>13. Judges(c, s) => Substituted(c, y.sent)
  <2> SUFFICES ASSUME Judges(c, s) PROVE Substituted(c, y.sent)
    OBVIOUS
  <2>1. PICK p, q : p = m.standby.outgoing /\ q = m.standby.diagnostic
    OBVIOUS
  <2>2. /\ p # NoPacket /\ p \in Packet /\ p.type = "DATA" /\ p.src = c.target
        /\ q # NoPacket /\ q \in Packet /\ q.type = "CONTROL" /\ q.flag = "substitute"
        /\ q.src = c.addr /\ q.about = c.target
    BY <1>6, <1>9, <2>1 DEF TickedVerdict, Told
  <2>3. PICK f : f = [p EXCEPT !.group = StandbyGroup(c, m.standby)]
    OBVIOUS
  <2>4. PICK g : g = [q EXCEPT !.group = DiagGroup]
    OBVIOUS
  <2>5. f \in y.sent /\ g \in y.sent
    BY <1>11, <2>1, <2>2, <2>3, <2>4 DEF Issues, StandbyIssue, ReportIssue
  <2>6. f.type = "DATA" /\ f.src = c.target
    BY <2>2, <2>3 DEF Packet
  <2>7. Report(g) /\ g.group = DiagGroup /\ g.src = c.addr /\ g.about = c.target
    BY <2>2, <2>4 DEF Packet, Report
  <2> QED BY <2>5, <2>6, <2>7 DEF Substituted
<1>14. ASSUME NEW p \in y.sent
       PROVE  Heartening(p) \/ \E k \in Slot : Again(s.retx[k], p)
  <2>1. CASE p \in OwnIssue(c, m) \/ p \in ReplyIssue(c, m)
    <3>1. ASSUME NEW v, NEW q, q = DataPacket(c.addr, "none", v)
          PROVE  /\ q.type = "DATA" /\ q.flag = "none"
                 /\ "type" \in DOMAIN q /\ "flag" \in DOMAIN q
      BY <3>1 DEF DataPacket
    <3>2. ASSUME p \in OwnIssue(c, m)
          PROVE  p.type = "DATA" /\ p.flag = "none"
      <4>1. PICK q : q = DataPacket(c.addr, "none", m.sched.node.outputValue)
        OBVIOUS
      <4>2. p = [q EXCEPT !.group = c.succ]
        BY <3>2, <4>1 DEF OwnIssue, OutputPacket
      <4> QED BY <3>1, <4>1, <4>2
    <3>3. ASSUME p \in ReplyIssue(c, m)
          PROVE  p.type = "DATA" /\ p.flag = "none"
      <4>1. PICK q : q = DataPacket(c.addr, "none", m.responder.value)
        OBVIOUS
      <4>2. p = [q EXCEPT !.copy = Copies, !.group = c.succ]
        BY <3>3, <4>1 DEF ReplyIssue
      <4> QED BY <3>1, <4>1, <4>2
    <3> QED BY <2>1, <3>2, <3>3 DEF Heartening
  <2>2. CASE p \in StandbyIssue(c, m)
    <3>1. PICK q : q = m.standby.outgoing
      OBVIOUS
    <3>2. q # NoPacket /\ p = [q EXCEPT !.group = StandbyGroup(c, m.standby)]
      BY <2>2, <3>1 DEF StandbyIssue
    <3>3. /\ q \in Packet /\ (q.type = "CONTROL" => q.flag = "none")
          /\ q.type # "CONTROL" => q.type = "DATA" /\ q.flag = "substitute"
      BY <1>6, <1>9, <3>1, <3>2 DEF Told, TickedVerdict, TickedStandby
    <3>4. p.type = q.type /\ p.flag = q.flag
      BY <3>2, <3>3 DEF Packet
    <3> QED BY <3>3, <3>4 DEF Heartening
  <2>3. CASE p \in ReportIssue(m)
    <3>1. PICK q : q = m.standby.diagnostic
      OBVIOUS
    <3>2. q # NoPacket /\ p = [q EXCEPT !.group = DiagGroup]
      BY <2>3, <3>1 DEF ReportIssue
    <3>3. q \in Packet /\ q.type = "CONTROL" /\ q.flag = "substitute"
      BY <1>6, <1>9, <3>1, <3>2 DEF Told, TickedVerdict, TickedStandby
    <3>4. p.type = q.type /\ p.flag = q.flag
      BY <3>2, <3>3 DEF Packet
    <3> QED BY <3>3, <3>4 DEF Heartening
  <2> QED BY <1>11, <2>1, <2>2, <2>3 DEF Issues
<1>15. CASE ~Closing(c, y)
  <2>1. u = y
    BY <1>3, <1>15 DEF CloseStage
  <2> QED BY <1>4, <1>10, <1>11, <1>12, <1>13, <1>14, <2>1 DEF StepWatched
<1>16. CASE Closing(c, y)
  <2>1. u = [PassReset EXCEPT !.sent = y.sent]
    BY <1>3, <1>16 DEF CloseStage
  <2>2. u.sent = y.sent /\ u.standby = StandbyReset /\ ~u.targetSeen
    BY <2>1 DEF PassReset
  <2>3. u = [PassReset EXCEPT !.sent = u.sent]
    BY <2>1, <2>2
  <2>4. y.ownOutputSent \/ s.idle >= IdleTicks
    BY <1>11, <1>16 DEF Closing, PassResolved, PassContinues
  <2>5. PassCloses(c, s, u)
    BY <1>11, <2>3, <2>4 DEF PassCloses, PassContinues
  <2>6. \/ s.idle >= IdleTicks
        \/ IsStandby(c) => s.targetSeen \/ s.standby.resolved \/ Judges(c, s)
    BY <1>10, <1>11, <1>12, <1>16 DEF Closing, PassResolved, PassContinues, Unresolved
  <2> QED BY <1>4, <1>13, <1>14, <2>2, <2>5, <2>6 DEF StepWatched
<1> QED BY <1>15, <1>16

(* What a packet tells the standby.                                        *)
PacketWatched(c, s, p, u) ==
  /\ s.standby.layerObserved \subseteq u.standby.layerObserved
  /\ p.type = "DATA" /\ IsStandby(c) /\ ~Suppressed(c, s, p) /\ p.src # c.target
     /\ p.src.layer = c.addr.layer => p.src.node \in u.standby.layerObserved
  /\ s.targetSeen => u.targetSeen
  /\ u.targetSeen => s.targetSeen \/ (p.type = "DATA" /\ IsStandby(c) /\ p.src = c.target)

LEMMA PacketSeen ==
  ASSUME NEW c \in Configuration, NEW s, DeviceInv(c, s), NEW p \in Packet
  PROVE  PacketWatched(c, s, p, ReceivePacket(c, s, p))
<1>1. s \in DeviceState /\ s.standby \in Standby
      /\ p.type \in {"DATA", "CONTROL", "TEARDOWN"}
  BY DEF DeviceInv, DeviceState, Packet
<1>2. PICK l : l = IF FromPredecessors(c, p) THEN LockedAfter(s.locked, p) ELSE s.locked
  OBVIOUS
<1>3. PICK t : t = [s EXCEPT !.idle = 0, !.locked = l]
  OBVIOUS
<1>4. PICK u : u = ReceivePacket(c, s, p)
  OBVIOUS
<1>5. t = [s EXCEPT !.idle = 0, !.locked = IF FromPredecessors(c, p)
                                           THEN LockedAfter(@, p) ELSE @]
  BY <1>2, <1>3
<1>6. /\ t.standby = s.standby /\ t.targetSeen = s.targetSeen
      /\ {"standby", "targetSeen"} \subseteq DOMAIN t
  BY <1>1, <1>3 DEF DeviceState
<1>7. CASE Suppressed(c, s, p) \/ p.type = "TEARDOWN"
  <2>1. u = t
    BY <1>4, <1>5, <1>7 DEF ReceivePacket
  <2> QED BY <1>4, <1>6, <1>7, <2>1 DEF PacketWatched
<1>8. CASE ~Suppressed(c, s, p) /\ p.type = "CONTROL"
  <2>1. u = ReceiveControl(c, t, p)
    BY <1>4, <1>5, <1>8 DEF ReceivePacket
  <2>2. u.standby = t.standby /\ u.targetSeen = t.targetSeen
    BY <1>6, <2>1 DEF ReceiveControl
  <2> QED BY <1>4, <1>6, <1>8, <2>2 DEF PacketWatched
<1>9. CASE ~Suppressed(c, s, p) /\ p.type = "DATA"
  <2>1. u = ReceiveData(c, t, p)
    BY <1>4, <1>5, <1>9 DEF ReceivePacket
  <2>2. PICK q : q = SchedulerReceive(c, t.sched, p)
    OBVIOUS
  <2>3. PICK b : b = IF IsStandby(c) THEN StandbyObserve(c, t.standby, p) ELSE t.standby
    OBVIOUS
  <2>4. PICK x : x = (t.targetSeen \/ (IsStandby(c) /\ p.src = c.target))
    OBVIOUS
  <2>5. u = [t EXCEPT !.sched = q, !.standby = b, !.targetSeen = x]
    BY <2>1, <2>2, <2>3, <2>4 DEF ReceiveData
  <2>6. u.standby = b /\ u.targetSeen = x
    BY <1>6, <2>5
  <2>7. /\ s.standby.layerObserved \subseteq b.layerObserved
        /\ IsStandby(c) /\ p.src # c.target /\ p.src.layer = c.addr.layer =>
             p.src.node \in b.layerObserved
    <3>1. CASE ~IsStandby(c)
      BY <1>6, <2>3, <3>1
    <3>2. CASE IsStandby(c) /\ p.src = c.target
      <4>1. b = [s.standby EXCEPT !.targetObserved = TRUE]
        BY <1>6, <2>3, <3>2 DEF StandbyObserve
      <4> QED BY <1>1, <3>2, <4>1 DEF Standby
    <3>3. CASE IsStandby(c) /\ p.src # c.target
      <4>1. PICK B : B = IF p.src.layer = c.tpredLayer /\ p.src.node \in c.tpred
                         THEN StoreInput(s.standby.buffer, p.src.node, p.value)
                         ELSE s.standby.buffer
        OBVIOUS
      <4>2. PICK L : L = IF p.src.layer = c.addr.layer
                         THEN s.standby.layerObserved \cup {p.src.node}
                         ELSE s.standby.layerObserved
        OBVIOUS
      <4>3. b = [s.standby EXCEPT !.layerObserved = L, !.buffer = B]
        BY <1>6, <2>3, <3>3, <4>1, <4>2 DEF StandbyObserve
      <4>4. b.layerObserved = L
        BY <1>1, <4>3 DEF Standby
      <4> QED BY <4>2, <4>4
    <3> QED BY <3>1, <3>2, <3>3
  <2> QED BY <1>4, <1>6, <1>9, <2>4, <2>6, <2>7 DEF PacketWatched
<1> QED BY <1>1, <1>7, <1>8, <1>9

(* What a tick of the clock changes in the watch.                          *)
TimeWatched(c, s, u) ==
  /\ u.targetSeen = s.targetSeen
  /\ u.standby.waited = IF /\ s.standby.resendRequested /\ ~s.standby.resolved
                           /\ s.standby.waited < c.grace
                        THEN s.standby.waited + 1 ELSE s.standby.waited

LEMMA TimeSeen ==
  ASSUME NEW c \in Configuration, NEW s, DeviceInv(c, s)
  PROVE  TimeWatched(c, s, Elapse(c, s))
<1>1. s \in DeviceState /\ s.standby \in Standby
  BY DEF DeviceInv, DeviceState
<1>2. PICK b : b = StandbyElapse(c, s.standby)
  OBVIOUS
<1>3. b.waited = IF /\ s.standby.resendRequested /\ ~s.standby.resolved
                    /\ s.standby.waited < c.grace
                 THEN s.standby.waited + 1 ELSE s.standby.waited
  BY <1>1, <1>2 DEF StandbyElapse, Standby
<1>4. Elapse(c, s).standby = b /\ Elapse(c, s).targetSeen = s.targetSeen
  BY <1>1, <1>2 DEF Elapse, DeviceState
<1> QED BY <1>3, <1>4 DEF TimeWatched
=============================================================================
