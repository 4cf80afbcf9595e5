--------------------------- MODULE DeviceRuntime ---------------------------
(***************************************************************************)
(* One device in the RUNNING state: the globals of                         *)
(* src/examples/Device_Setup/Device_Setup.ino and the stages of            *)
(* runRuntimeStep, in the order the loop executes them, as operators on a  *)
(* device record.  The duplicate-suppression log flag and the serial       *)
(* output are left out.                                                    *)
(***************************************************************************)
EXTENDS NNFailover

CONSTANTS
  StallTicks,   \* NN_TURN_STALL_MS
  IdleTicks,    \* NN_PASS_IDLE_MS
  GapTicks      \* NN_DATA_RETRANSMIT_GAP_MS, all in ticks of the clock

ASSUME TicksAssumption == {StallTicks, IdleTicks, GapTicks} \subseteq Nat \ {0}

Slot == {"own", "substitute", "report"}   \* RetxSlotId

RetxSlot == [left : 0..Copies, wait : Nat, pkt : Packet \cup {NoPacket}]

EmptySlot == [left |-> 0, wait |-> 0, pkt |-> NoPacket]

(* stallArmed, stalled: turnStallArmed and the ticks since turnStallSinceMs*)
(* idle: the ticks since lastActivityMs                                    *)
(* sent: the packets the current step hands to the transport; empty between*)
(*       two steps                                                         *)
DeviceState ==
  [sched : Scheduler, standby : Standby, responder : Responder,
   locked : SUBSET NodeId, ownOutputSent : BOOLEAN, myOutputValue : Value,
   targetSeen : BOOLEAN, stallArmed : BOOLEAN, stalled : Nat, idle : Nat,
   retx : [Slot -> RetxSlot], sent : SUBSET Packet]

(* startRuntime creates the standby only for a role inside the own layer   *)
(* whose roster was provisioned.                                           *)
IsStandby(c) == /\ c.hasRole
                /\ c.target.layer = c.addr.layer
                /\ c.roster # {}

(* The standby is provisioned with the device's own predecessors as the    *)
(* target's, as build_devices does in a fully connected layer.             *)
MirrorsOwnInputs(c) == /\ c.tpred \subseteq c.pred /\ c.tpredLayer = c.predLayer
                       /\ c.target.layer # c.predLayer

(* A node without predecessors is never reset between passes.              *)
PassManaged(c) == c.pred # {}

(* The groups startRuntime joins: the own layer's, and the successor's to  *)
(* overhear the siblings when turn taking or a backup role needs them.     *)
Groups(c) ==
  {c.addr.layer} \cup
  (IF (c.preceding # {} \/ c.hasRole) /\ c.succ # NoSiblingGroup
   THEN {c.succ} ELSE {})

(* The globals as a closed pass leaves them.                               *)
PassReset ==
  [sched |-> SchedulerReset, standby |-> StandbyReset, responder |-> NoReply,
   locked |-> {}, ownOutputSent |-> FALSE, myOutputValue |-> NoValue,
   targetSeen |-> FALSE, stallArmed |-> FALSE, stalled |-> 0, idle |-> 0,
   retx |-> [k \in Slot |-> EmptySlot], sent |-> {}]

(* startRuntime: an input node that was sent an INPUT_VALUE (seed) is      *)
(* seeded and waits for its turn.                                          *)
StartRuntime(c) ==
  IF PassManaged(c) \/ ~c.seeded THEN PassReset
  ELSE [PassReset EXCEPT
          !.sched = NotifySeeded([SchedulerReset EXCEPT
                                    !.node = SeedOutput(NodeReset, c.seed)])]

-----------------------------------------------------------------------------
(* The body of the receive loop, for one packet.                           *)

FromPredecessors(c, p) == p.src.layer = c.predLayer

Suppressed(c, s, p) == FromPredecessors(c, p) /\ ~ShouldAccept(s.locked, p)

SchedulerReceive(c, q, p) ==
  SiblingObserved(c, [q EXCEPT !.node = NodeReceive(c, @, p)], p.src)

ReceiveData(c, s, p) ==
  [s EXCEPT
     !.sched = SchedulerReceive(c, @, p),
     !.standby = IF IsStandby(c) THEN StandbyObserve(c, @, p) ELSE @,
     !.targetSeen = @ \/ (IsStandby(c) /\ p.src = c.target)]

ReceiveControl(c, s, p) ==
  [s EXCEPT !.responder =
     ResponderObserve(c, @, p, s.ownOutputSent, s.myOutputValue)]

(* Faulty variant: the slot is locked before it is tested, against the     *)
(* substitute itself.                                                      *)
ReceiveLockFirst(c, s, p) ==
  LET t == [s EXCEPT !.idle = 0,
                     !.locked = IF FromPredecessors(c, p)
                                THEN LockedAfter(@, p) ELSE @]
  IN IF Suppressed(c, t, p) THEN t
     ELSE CASE p.type = "DATA"     -> ReceiveData(c, t, p)
            [] p.type = "CONTROL"  -> ReceiveControl(c, t, p)
            [] p.type = "TEARDOWN" -> t

ReceivePacket(c, s, p) ==
  LET t == [s EXCEPT !.idle = 0,
                     !.locked = IF FromPredecessors(c, p)
                                THEN LockedAfter(@, p) ELSE @]
  IN IF Suppressed(c, s, p) THEN t
     ELSE CASE p.type = "DATA"     -> ReceiveData(c, t, p)
            [] p.type = "CONTROL"  -> ReceiveControl(c, t, p)
            [] p.type = "TEARDOWN" -> t      \* only logged

-----------------------------------------------------------------------------
(* The stages of one loop iteration after the receive loop has run dry.    *)

SchedulerStage(c, s) == [s EXCEPT !.sched = SchedulerTick(c, @)]

(* Faulty variant: the standby watches before its own pass has begun.      *)
StandbyAlways(c, s) ==
  IF IsStandby(c) THEN [s EXCEPT !.standby = StandbyTick(c, @)] ELSE s

StandbyStage(c, s) ==
  IF IsStandby(c) /\ s.sched.state # "WAITING_FOR_INPUT"
  THEN [s EXCEPT !.standby = StandbyTick(c, @)] ELSE s

(* Faulty variant: a stalled turn is never released.                       *)
StallForever(c, s) ==
  CASE s.sched.state # "WAITING_FOR_TURN" ->
         [s EXCEPT !.stallArmed = FALSE, !.stalled = 0]
    [] s.sched.state = "WAITING_FOR_TURN" /\ ~s.stallArmed ->
         [s EXCEPT !.stallArmed = TRUE, !.stalled = 0]
    [] OTHER -> s

(* maybeReleaseStalledTurn and releaseTurn: the markers reach only the     *)
(* scheduler.                                                              *)
StallStage(c, s) ==
  CASE s.sched.state # "WAITING_FOR_TURN" ->
         [s EXCEPT !.stallArmed = FALSE, !.stalled = 0]
    [] s.sched.state = "WAITING_FOR_TURN" /\ ~s.stallArmed ->
         [s EXCEPT !.stallArmed = TRUE, !.stalled = 0]
    [] s.sched.state = "WAITING_FOR_TURN" /\ s.stallArmed
       /\ s.stalled >= StallTicks ->
         [s EXCEPT !.sched.observed = @ \cup c.preceding,
                   !.stallArmed = FALSE, !.stalled = 0]
    [] OTHER -> s

SendOnce(s, p, group) == [s EXCEPT !.sent = @ \cup {[p EXCEPT !.group = group]}]

SendAndRetransmit(s, p, group, slot) ==
  [SendOnce(s, p, group) EXCEPT
     !.retx[slot] = [left |-> Copies - 1, wait |-> 0,
                     pkt |-> [p EXCEPT !.group = group]]]

OwnOutputStage(c, s) ==
  IF ~OutputReady(s.sched) THEN s
  ELSE SendAndRetransmit(
         [s EXCEPT !.sched = OutputTaken(@), !.ownOutputSent = TRUE,
                   !.myOutputValue = s.sched.node.outputValue],
         OutputPacket(c, s.sched), c.succ, "own")

ReportStage(c, s) ==
  IF s.standby.diagnostic = NoPacket THEN s
  ELSE SendAndRetransmit([s EXCEPT !.standby = DiagnosticTaken(@)],
                         s.standby.diagnostic, DiagGroup, "report")

(* Faulty variant: a substitute goes to the own layer, like a request.     *)
StandbyOutputHome(c, s) ==
  LET p == s.standby.outgoing
      t == [s EXCEPT !.standby = OutgoingTaken(@)]
  IN CASE p = NoPacket -> s
       [] p # NoPacket /\ s.standby.hasSubstituted ->
            SendAndRetransmit(
              [t EXCEPT !.sched = SiblingObserved(c, @, p.src),
                        !.targetSeen = TRUE], p, c.addr.layer, "substitute")
       [] OTHER -> SendOnce(t, p, c.addr.layer)

(* A substitute also counts as the target's turn for the own scheduler,    *)
(* since a board may not hear its own multicast.                           *)
StandbyOutputStage(c, s) ==
  LET p == s.standby.outgoing
      t == [s EXCEPT !.standby = OutgoingTaken(@)]
  IN CASE p = NoPacket -> s
       [] p # NoPacket /\ s.standby.hasSubstituted ->
            SendAndRetransmit(
              [t EXCEPT !.sched = SiblingObserved(c, @, p.src),
                        !.targetSeen = TRUE], p, c.succ, "substitute")
       [] p # NoPacket /\ ~s.standby.hasSubstituted /\ s.standby.hasTornDown ->
            SendOnce([t EXCEPT !.targetSeen = TRUE], p, c.succ)
       [] OTHER -> SendOnce(t, p, c.addr.layer)

ReplyStage(c, s) ==
  IF ~s.responder.pending THEN s
  ELSE SendOnce([s EXCEPT !.responder = NoReply],
                [DataPacket(c.addr, "none", s.responder.value)
                   EXCEPT !.copy = Copies], c.succ)

Due(slot) == slot.left > 0 /\ slot.wait >= GapTicks

(* Faulty variant: an empty slot is decremented too.                       *)
SlotUnguarded(slot) == [slot EXCEPT !.left = @ - 1, !.wait = 0]

SlotServiced(slot) ==
  CASE ~Due(slot)                    -> slot
    [] Due(slot) /\ slot.left = 1    -> EmptySlot
    [] Due(slot) /\ slot.left # 1    -> [slot EXCEPT !.left = @ - 1, !.wait = 0]

SlotElapse(slot) ==
  IF slot.left > 0 /\ slot.wait < GapTicks THEN [slot EXCEPT !.wait = @ + 1]
  ELSE slot

RetransmitStage(s) ==
  [s EXCEPT
     !.sent = @ \cup {[s.retx[k].pkt EXCEPT !.copy = Copies - s.retx[k].left] :
                      k \in {j \in Slot : Due(s.retx[j])}},
     !.retx = [k \in Slot |-> SlotServiced(s.retx[k])]]

PassResolved(c, s) ==
  /\ s.ownOutputSent
  /\ IsStandby(c) => \/ s.targetSeen
                     \/ s.standby.hasSubstituted
                     \/ s.standby.hasTornDown

Closing(c, s) == PassManaged(c) /\ (PassResolved(c, s) \/ s.idle >= IdleTicks)

(* Faulty variants of closePass: the scheduler is not reset; the inputs are*)
(* kept.                                                                   *)
CloseKeepsScheduler(c, s) ==
  IF Closing(c, s) THEN [PassReset EXCEPT !.sent = s.sent, !.sched = s.sched]
  ELSE s
CloseKeepsInputs(c, s) ==
  IF Closing(c, s)
  THEN [PassReset EXCEPT !.sent = s.sent,
                         !.sched.node.buffer = s.sched.node.buffer]
  ELSE s

(* maybeClosePass and closePass: every pending retransmission is dropped.  *)
CloseStage(c, s) ==
  IF Closing(c, s)
  THEN [PassReset EXCEPT !.sent = s.sent] ELSE s

RuntimeStep(c, s) ==
  LET ticked   == StallStage(c, StandbyStage(c, SchedulerStage(c, s)))
      reported == ReportStage(c, OwnOutputStage(c, ticked))
      replied  == ReplyStage(c, StandbyOutputStage(c, reported))
  IN CloseStage(c, RetransmitStage(replied))

-----------------------------------------------------------------------------
(* One tick of millis() for every timer of the device that is running.     *)
Elapse(c, s) ==
  [s EXCEPT
     !.standby = StandbyElapse(c, @),
     !.stalled = IF s.stallArmed /\ @ < StallTicks THEN @ + 1 ELSE @,
     !.idle    = IF PassManaged(c) /\ @ < IdleTicks THEN @ + 1 ELSE @,
     !.retx    = [k \in Slot |-> SlotElapse(s.retx[k])]]
=============================================================================
