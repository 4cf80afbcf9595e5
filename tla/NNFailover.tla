----------------------------- MODULE NNFailover -----------------------------
(***************************************************************************)
(* The failover classes of src/src/NNFailover.h as operators on records:   *)
(* the standby that watches one sibling (NNBackupStandby), the responder   *)
(* that answers resend requests (NNResendResponder) and the suppressor     *)
(* that keeps a slot for the substitute that claimed it                    *)
(* (NNDuplicateSuppressor).                                                *)
(*                                                                         *)
(* Further fields of a configuration c:                                    *)
(*   hasRole             hasBackupRole                                     *)
(*   target              backupTargetAddress                               *)
(*   tpred, tpredLayer   backupTargetPredecessorMask / ...LayerId          *)
(*   roster              layerRosterMask                                   *)
(*   grace               resendGraceMs, in ticks of the model's clock      *)
(***************************************************************************)
EXTENDS NNScheduler

(* What a device is provisioned with (NNNodeConfig, NNWindowConfig and the *)
(* INPUT_VALUE), with the fields NNScheduler names.                        *)
Configuration ==
  [addr : Address, pred : SUBSET NodeId, predLayer : Layer, succ : Group,
   preceding : SUBSET NodeId, seeded : BOOLEAN, seed : Value,
   hasRole : BOOLEAN, target : Address, tpred : SUBSET NodeId,
   tpredLayer : Layer, roster : SUBSET NodeId, grace : Nat]

Standby == [targetObserved  : BOOLEAN,
            layerObserved   : SUBSET NodeId,
            buffer          : InputBuffer,
            resendRequested : BOOLEAN,
            waited          : Nat,       \* ticks since waitStartTime
            hasSubstituted  : BOOLEAN,
            hasTornDown     : BOOLEAN,
            resolved        : BOOLEAN,
            outgoing        : Packet \cup {NoPacket},   \* outputPending
            diagnostic      : Packet \cup {NoPacket}]   \* diagnosticPending

StandbyReset == [targetObserved |-> FALSE, layerObserved |-> {},
                 buffer |-> EmptyBuffer, resendRequested |-> FALSE,
                 waited |-> 0, hasSubstituted |-> FALSE, hasTornDown |-> FALSE,
                 resolved |-> FALSE, outgoing |-> NoPacket,
                 diagnostic |-> NoPacket]

Others(c) == c.roster \ {c.target.node, c.addr.node}

(* NNBackupStandby::onPacketObserved.  The target's own packet only stands *)
(* the standby down.  Every other packet may count twice: as the round     *)
(* progress of the layer and as an input of the target.                    *)
StandbyObserve(c, b, p) ==
  IF p.src = c.target THEN [b EXCEPT !.targetObserved = TRUE]
  ELSE [b EXCEPT
          !.layerObserved =
             IF p.src.layer = c.addr.layer THEN @ \cup {p.src.node} ELSE @,
          !.buffer =
             IF p.src.layer = c.tpredLayer /\ p.src.node \in c.tpred
             THEN StoreInput(@, p.src.node, p.value) ELSE @]

(* Faulty variant: the report names the backup as the failed node.         *)
ReportSelf(c, flag) == ControlPacket(c.addr, DiagGroup, flag, c.addr)

(* buildFailoverReport *)
FailoverReport(c, flag) == ControlPacket(c.addr, DiagGroup, flag, c.target)

RequestResend(c, b) ==
  [b EXCEPT !.resendRequested = TRUE, !.waited = 0,
            !.outgoing = ControlPacket(c.addr, 0, "none", c.target)]

(* Faulty variants: the substitute is sent under the backup's own address; *)
(* it is not reported.                                                     *)
SubstituteAsSelf(c, b) ==
  [b EXCEPT !.resolved = TRUE, !.hasSubstituted = TRUE,
            !.outgoing = DataPacket(c.addr, "substitute",
                                    Gathered(b.buffer, c.tpred)),
            !.diagnostic = FailoverReport(c, "substitute")]
SubstituteUnreported(c, b) ==
  [b EXCEPT !.resolved = TRUE, !.hasSubstituted = TRUE,
            !.outgoing = DataPacket(c.target, "substitute",
                                    Gathered(b.buffer, c.tpred))]

(* computeSubstituteOutput: the packet carries the target's address.       *)
Substitute(c, b) ==
  [b EXCEPT !.resolved = TRUE, !.hasSubstituted = TRUE,
            !.outgoing = DataPacket(c.target, "substitute",
                                    Gathered(b.buffer, c.tpred)),
            !.diagnostic = FailoverReport(c, "substitute")]

(* buildTeardownPacket *)
TearDown(c, b) ==
  [b EXCEPT !.resolved = TRUE, !.hasTornDown = TRUE,
            !.outgoing = TeardownPacket(c.addr),
            !.diagnostic = FailoverReport(c, "teardown")]

(* Faulty variant: the target gets no time to answer.                      *)
GraceIgnored(c, b) == TRUE

GraceOver(c, b) == b.waited >= c.grace

(* The two ends of the grace period.                                       *)
Verdict(c, b) ==
  IF IsComplete(b.buffer, c.tpred) THEN Substitute(c, b) ELSE TearDown(c, b)

(* Faulty variants of tick: the round is not awaited; a verdict does not   *)
(* end the watch; the target's answer does not; there is no teardown.      *)
TickUnrounded(c, b) ==
  CASE b.targetObserved \/ b.resolved -> b
    [] OTHER -> IF ~b.resendRequested THEN RequestResend(c, b)
                ELSE IF GraceOver(c, b) THEN Verdict(c, b) ELSE b
TickUnresolved(c, b) ==
  CASE b.targetObserved -> b
    [] OTHER -> IF ~b.resendRequested
                THEN IF Others(c) \subseteq b.layerObserved
                     THEN RequestResend(c, b) ELSE b
                ELSE IF GraceOver(c, b) THEN Verdict(c, b) ELSE b
TickDeaf(c, b) ==
  CASE b.resolved -> b
    [] OTHER -> IF ~b.resendRequested
                THEN IF Others(c) \subseteq b.layerObserved
                     THEN RequestResend(c, b) ELSE b
                ELSE IF GraceOver(c, b) THEN Verdict(c, b) ELSE b
TickPatient(c, b) ==
  CASE b.targetObserved \/ b.resolved -> b
    [] OTHER -> IF ~b.resendRequested
                THEN IF Others(c) \subseteq b.layerObserved
                     THEN RequestResend(c, b) ELSE b
                ELSE IF GraceOver(c, b) /\ IsComplete(b.buffer, c.tpred)
                     THEN Substitute(c, b) ELSE b

(* NNBackupStandby::tick *)
StandbyTick(c, b) ==
  CASE b.targetObserved \/ b.resolved -> b
    [] OTHER ->
       IF ~b.resendRequested
       THEN IF Others(c) \subseteq b.layerObserved THEN RequestResend(c, b)
            ELSE b
       ELSE IF GraceOver(c, b) THEN Verdict(c, b) ELSE b

(* Faulty variant: the grace counts down, past zero.                       *)
StandbyElapseDown(c, b) ==
  IF b.resendRequested /\ ~b.resolved THEN [b EXCEPT !.waited = @ - 1] ELSE b

(* The clock the standby reads only between its request and its verdict.   *)
StandbyElapse(c, b) ==
  IF b.resendRequested /\ ~b.resolved /\ b.waited < c.grace
  THEN [b EXCEPT !.waited = @ + 1] ELSE b

OutgoingTaken(b) == [b EXCEPT !.outgoing = NoPacket]
DiagnosticTaken(b) == [b EXCEPT !.diagnostic = NoPacket]

-----------------------------------------------------------------------------
(* NNResendResponder: the pending reply is the value to repeat.            *)
NoReply == [pending |-> FALSE, value |-> NoValue]
Responder == [pending : BOOLEAN, value : Value]

ResponderObserve(c, r, p, haveOutput, output) ==
  IF p.type = "CONTROL" /\ p.about = c.addr /\ haveOutput
  THEN [pending |-> TRUE, value |-> output] ELSE r

-----------------------------------------------------------------------------
(* NNDuplicateSuppressor: slots are keyed by the sender's node id alone.   *)
ShouldAccept(locked, p) == p.src.node \notin locked

LockedAfter(locked, p) ==
  IF ShouldAccept(locked, p) /\ p.flag = "substitute"
  THEN locked \cup {p.src.node} ELSE locked
=============================================================================
