--------------------------- MODULE BackupStandby ---------------------------
(***************************************************************************)
(* NNBackupStandby (src/src/NNFailover.h) as an object driven through its  *)
(* public methods in any order: packets of anyone, in any order, lost or   *)
(* repeated; a clock that may run at any speed; outputs taken promptly or  *)
(* late; a pass closed at any moment.  The firmware's use of it            *)
(* (DeviceRuntime) is one of these orders.                                 *)
(***************************************************************************)
EXTENDS NNFailover

CONSTANTS
  Config,    \* the configuration of the device that owns the standby
  Observed   \* the packets it may observe

(* A standby with a role watches a sibling, never itself.                  *)
ASSUME ConfigAssumption ==
  /\ Config \in Configuration /\ Config.hasRole
  /\ Config.target.layer = Config.addr.layer
  /\ Config.target # Config.addr
ASSUME ObservedAssumption == Observed \subseteq Packet

VARIABLES
  standby,
  emitted    \* history: the kinds of the packets taken in this pass

vars == <<standby, emitted>>

OutputKind(p) ==
  CASE p.type = "CONTROL"  -> "request"
    [] p.type = "DATA"     -> "substitute"
    [] p.type = "TEARDOWN" -> "teardown"

DiagnosticKind(p) ==
  IF p.flag = "substitute" THEN "cover report" ELSE "loss report"

Init == standby = StandbyReset /\ emitted = {}

OnPacketObserved(p) ==
  /\ standby' = StandbyObserve(Config, standby, p)
  /\ UNCHANGED emitted

TickStandby == standby' = StandbyTick(Config, standby) /\ UNCHANGED emitted

Elapse == standby' = StandbyElapse(Config, standby) /\ UNCHANGED emitted

HasOutputReady ==
  /\ standby.outgoing # NoPacket
  /\ standby' = OutgoingTaken(standby)
  /\ emitted' = emitted \cup {OutputKind(standby.outgoing)}

HasDiagnosticReady ==
  /\ standby.diagnostic # NoPacket
  /\ standby' = DiagnosticTaken(standby)
  /\ emitted' = emitted \cup {DiagnosticKind(standby.diagnostic)}

(* Faulty variant: a queued packet survives into the next pass.            *)
ResetKeepsOutgoing ==
  /\ standby' = [StandbyReset EXCEPT !.outgoing = standby.outgoing]
  /\ emitted' = {}

ResetForNextPass == standby' = StandbyReset /\ emitted' = {}

Next == \/ \E p \in Observed : OnPacketObserved(p)
        \/ TickStandby \/ Elapse
        \/ HasOutputReady \/ HasDiagnosticReady \/ ResetForNextPass

Spec == Init /\ [][Next]_vars

(* The loop calls tick() forever and millis() advances.                    *)
FairSpec == Spec /\ WF_vars(TickStandby) /\ WF_vars(Elapse)

-----------------------------------------------------------------------------
(* The standby keeps the shape of NNBackupStandby's private fields.        *)
TypeOK == standby \in Standby

(* The flags tell one story: a verdict follows a request, at most one      *)
(* verdict is reached, and it was reached with the inputs it claims.       *)
VerdictOK ==
  /\ standby.resolved <=> standby.hasSubstituted \/ standby.hasTornDown
  /\ standby.resolved => standby.resendRequested
  /\ ~(standby.hasSubstituted /\ standby.hasTornDown)
  /\ standby.hasSubstituted => IsComplete(standby.buffer, Config.tpred)

(* What is queued, for the layer and for the laptop, agrees with the flags.*)
QueuesOK ==
  LET out == standby.outgoing
      diag == standby.diagnostic
  IN /\ out = NoPacket \/ out.type \in {"CONTROL", "DATA", "TEARDOWN"}
     /\ out.type = "CONTROL" =>  standby.resendRequested /\ ~standby.resolved
     /\ out.type = "DATA" => standby.hasSubstituted
     /\ out.type = "TEARDOWN" => standby.hasTornDown
     /\ diag = NoPacket \/ diag.flag \in {"substitute", "teardown"}
     /\ diag # NoPacket /\ diag.flag = "substitute" => standby.hasSubstituted
     /\ diag # NoPacket /\ diag.flag = "teardown" => standby.hasTornDown

(* The mapping to the abstract duty.                                       *)
Phase == CASE standby.hasSubstituted -> "covered"
           [] standby.hasTornDown /\ ~standby.hasSubstituted -> "lost"
           [] standby.resendRequested /\ ~standby.resolved -> "asked"
           [] OTHER -> "watching"

Duty == INSTANCE FailoverDuty WITH
          phase <- Phase,
          heard <- standby.targetObserved,
          over <- Others(Config) \subseteq standby.layerObserved,
          ready <- IsComplete(standby.buffer, Config.tpred),
          emitted <- emitted

(* The standby does its duty in every order of calls (NNFailover.h:1-4:    *)
(* a bounded resend-request retry before falling back to backup weights,   *)
(* and teardown when even that fails).                                     *)
DoesDuty == Duty!DutySpec

(* A request that stays unanswered ends in a verdict unless the pass is    *)
(* closed first.                                                           *)
RequestsResolved ==
  standby.resendRequested ~>
    (standby.resolved \/ standby.targetObserved \/ ~standby.resendRequested)
=============================================================================
