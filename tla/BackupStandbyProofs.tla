------------------------ MODULE BackupStandbyProofs ------------------------
(***************************************************************************)
(* Proofs about BackupStandby, for every configuration and every set of    *)
(* observed packets.                                                       *)
(***************************************************************************)
EXTENDS BackupStandby, NNFailoverProofs

IInv == TypeOK /\ VerdictOK /\ QueuesOK


(* Type correctness, for every configuration of a standby (NNFailover.h).  *)
THEOREM TypeCorrect == Spec => []TypeOK
<1>1. Init => TypeOK
  BY ResetType DEF Init, TypeOK
<1>2. TypeOK /\ [Next]_vars => TypeOK'
  <2> SUFFICES ASSUME TypeOK, [Next]_vars PROVE TypeOK'
    OBVIOUS
  <2>1. ASSUME NEW p \in Observed, OnPacketObserved(p) PROVE TypeOK'
    BY <2>1, ObserveType, ObservedAssumption, ConfigAssumption DEF OnPacketObserved, TypeOK
  <2>2. CASE TickStandby
    BY <2>2, TickType, ConfigAssumption DEF TickStandby, TypeOK
  <2>3. CASE Elapse
    BY <2>3 DEF Elapse, StandbyElapse, TypeOK, Standby
  <2>4. CASE HasOutputReady
    BY <2>4 DEF HasOutputReady, OutgoingTaken, TypeOK, Standby
  <2>5. CASE HasDiagnosticReady
    BY <2>5 DEF HasDiagnosticReady, DiagnosticTaken, TypeOK, Standby
  <2>6. CASE ResetForNextPass
    BY <2>6, ResetType DEF ResetForNextPass, TypeOK
  <2>7. CASE UNCHANGED vars
    BY <2>7 DEF vars, TypeOK
  <2> QED BY <2>1, <2>2, <2>3, <2>4, <2>5, <2>6, <2>7 DEF Next
<1> QED BY <1>1, <1>2, PTL DEF Spec

-----------------------------------------------------------------------------
(* The verdict invariant is inductive on its own.                          *)
LEMMA VerdictStep == TypeOK /\ VerdictOK /\ [Next]_vars => VerdictOK'
<1> SUFFICES ASSUME TypeOK, VerdictOK, [Next]_vars PROVE VerdictOK'
  OBVIOUS
<1>1. ASSUME NEW p \in Observed, OnPacketObserved(p) PROVE VerdictOK'
  <2>1. p \in Packet
    BY ObservedAssumption
  <2> QED BY <1>1, <2>1, ObserveGrows, ConfigAssumption
          DEF OnPacketObserved, TypeOK, VerdictOK, IsComplete
<1>2. CASE TickStandby
  BY <1>2 DEF TickStandby, StandbyTick, Verdict, RequestResend, Substitute, TearDown,
     TypeOK, Standby, VerdictOK
<1>3. CASE Elapse
  BY <1>3 DEF Elapse, StandbyElapse, TypeOK, Standby, VerdictOK
<1>4. CASE HasOutputReady
  BY <1>4 DEF HasOutputReady, OutgoingTaken, TypeOK, Standby, VerdictOK
<1>5. CASE HasDiagnosticReady
  BY <1>5 DEF HasDiagnosticReady, DiagnosticTaken, TypeOK, Standby, VerdictOK
<1>6. CASE ResetForNextPass
  BY <1>6 DEF ResetForNextPass, StandbyReset, VerdictOK
<1>7. CASE UNCHANGED vars
  BY <1>7 DEF vars, VerdictOK
<1> QED BY <1>1, <1>2, <1>3, <1>4, <1>5, <1>6, <1>7 DEF Next

(* The queues follow the flags as long as the flags agree.                 *)
LEMMA QueuesStep == IInv /\ [Next]_vars => QueuesOK'
<1> SUFFICES ASSUME TypeOK, VerdictOK, QueuesOK, [Next]_vars PROVE QueuesOK'
  BY DEF IInv
<1>1. ASSUME NEW p \in Observed, OnPacketObserved(p) PROVE QueuesOK'
  <2>1. p \in Packet
    BY ObservedAssumption
  <2> QED BY <1>1, <2>1, ObserveGrows, ConfigAssumption
          DEF OnPacketObserved, TypeOK, QueuesOK
<1>2. CASE TickStandby
  <2> DEFINE b == standby
  <2> USE BuiltPackets, ConfigAssumption DEF TypeOK, Standby, VerdictOK, QueuesOK
  <2>1. CASE standby' = b
    BY <2>1
  <2>2. CASE ~b.resolved /\ standby' = RequestResend(Config, b)
    BY <2>2 DEF RequestResend
  <2>3. CASE ~b.resolved /\ standby' = Substitute(Config, b)
    BY <2>3 DEF Substitute
  <2>4. CASE ~b.resolved /\ standby' = TearDown(Config, b)
    BY <2>4 DEF TearDown
  <2> QED BY <1>2, <2>1, <2>2, <2>3, <2>4 DEF TickStandby, StandbyTick, Verdict
<1>3. CASE Elapse
  BY <1>3 DEF Elapse, StandbyElapse, TypeOK, Standby, QueuesOK
<1>4. CASE HasOutputReady
  BY <1>4, BuiltPackets, ConfigAssumption DEF HasOutputReady, OutgoingTaken, TypeOK, Standby, QueuesOK
<1>5. CASE HasDiagnosticReady
  BY <1>5, BuiltPackets, ConfigAssumption DEF HasDiagnosticReady, DiagnosticTaken, TypeOK, Standby, QueuesOK
<1>6. CASE ResetForNextPass
  BY <1>6, BuiltPackets, ConfigAssumption DEF ResetForNextPass, StandbyReset, QueuesOK
<1>7. CASE UNCHANGED vars
  BY <1>7 DEF vars, QueuesOK
<1> QED BY <1>1, <1>2, <1>3, <1>4, <1>5, <1>6, <1>7 DEF Next

LEMMA InitOK == Init => VerdictOK /\ QueuesOK
BY BuiltPackets, ConfigAssumption DEF Init, StandbyReset, VerdictOK, QueuesOK

(* A standby never reaches two verdicts in a pass, none without a request, *)
(* and substitutes only from a full set of inputs (NNBackupStandby::tick). *)
THEOREM VerdictsSound == Spec => []VerdictOK
<1> QED BY InitOK, VerdictStep, TypeCorrect, PTL DEF Spec

(* What waits to be sent is what the flags say was decided.                *)
THEOREM QueuesSound == Spec => []QueuesOK
<1> QED BY InitOK, QueuesStep, VerdictsSound, TypeCorrect, PTL DEF Spec, IInv

-----------------------------------------------------------------------------
(* The phase the flags stand for.                                          *)
LEMMA PhaseOfFlags ==
  ASSUME VerdictOK
  PROVE  /\ standby.hasSubstituted => Phase = "covered"
         /\ standby.hasTornDown => Phase = "lost"
         /\ standby.resendRequested /\ ~standby.resolved => Phase = "asked"
         /\ ~standby.resendRequested => Phase = "watching"
BY DEF VerdictOK, Phase

(* Every step of the standby is a step of the duty or leaves it alone.     *)
LEMMA DutyStep ==
  IInv /\ IInv' /\ [Next]_vars => [Duty!DutyNext]_(Duty!dutyVars)
<1> SUFFICES ASSUME IInv, IInv', [Next]_vars
             PROVE  Duty!DutyNext \/ UNCHANGED Duty!dutyVars
  OBVIOUS
<1> DEFINE b == standby
<1> USE DEF IInv
<1>1. ASSUME NEW p \in Observed, OnPacketObserved(p)
      PROVE  Duty!Hear \/ Duty!Gather
  <2>1. p \in Packet
    BY ObservedAssumption
  <2>2. UNCHANGED <<Phase, emitted>>
    BY <1>1, <2>1, ObserveGrows, ConfigAssumption DEF OnPacketObserved, Phase, TypeOK
  <2>3. CASE b.targetObserved' # b.targetObserved
    <3>1. b.targetObserved' = TRUE
      BY <1>1, <2>1, <2>3, ObserveGrows, ConfigAssumption DEF OnPacketObserved, TypeOK, Standby
    <3> QED BY <1>1, <2>1, <2>2, <2>3, <3>1, ObserveGrows, ConfigAssumption
            DEF OnPacketObserved, TypeOK, Duty!Hear, IsComplete
  <2>4. CASE b.targetObserved' = b.targetObserved
    BY <1>1, <2>1, <2>2, <2>4, ObserveGrows, ConfigAssumption
       DEF OnPacketObserved, TypeOK, Duty!Gather, IsComplete
  <2> QED BY <2>3, <2>4
<1>2. CASE TickStandby
  <2>1. CASE b' = b
    BY <1>2, <2>1 DEF TickStandby, Duty!dutyVars, Phase
  <2>2. CASE /\ ~b.targetObserved /\ ~b.resolved /\ ~b.resendRequested
             /\ Others(Config) \subseteq b.layerObserved
             /\ b' = RequestResend(Config, b)
    <3>1. Phase = "watching" /\ Phase' = "asked"
      BY <2>2 DEF VerdictOK, Phase, RequestResend, TypeOK, Standby
    <3> QED BY <1>2, <2>2, <3>1
            DEF TickStandby, RequestResend, Duty!Ask, Duty!DutyNext, TypeOK, Standby
  <2>3. CASE /\ ~b.targetObserved /\ ~b.resolved /\ b.resendRequested
             /\ IsComplete(b.buffer, Config.tpred)
             /\ b' = Substitute(Config, b)
    <3>1. Phase = "asked" /\ Phase' = "covered"
      BY <2>3 DEF VerdictOK, Phase, Substitute, TypeOK, Standby
    <3> QED BY <1>2, <2>3, <3>1
            DEF TickStandby, Substitute, Duty!Cover, Duty!DutyNext, TypeOK, Standby
  <2>4. CASE /\ ~b.targetObserved /\ ~b.resolved /\ b.resendRequested
             /\ ~IsComplete(b.buffer, Config.tpred)
             /\ b' = TearDown(Config, b)
    <3>1. Phase = "asked" /\ Phase' = "lost"
      BY <2>4 DEF VerdictOK, Phase, TearDown, TypeOK, Standby
    <3> QED BY <1>2, <2>4, <3>1
            DEF TickStandby, TearDown, Duty!GiveUp, Duty!DutyNext, TypeOK, Standby
  <2> QED BY <1>2, <2>1, <2>2, <2>3, <2>4 DEF TickStandby, StandbyTick, Verdict
<1>3. CASE Elapse
  BY <1>3 DEF Elapse, StandbyElapse, TypeOK, Standby, Duty!dutyVars, Phase
<1>4. CASE HasOutputReady
  <2>1. OutputKind(b.outgoing) \in Duty!Entitled(Phase)
    BY <1>4, PhaseOfFlags
       DEF HasOutputReady, QueuesOK, VerdictOK, OutputKind, Duty!Entitled
  <2> QED BY <1>4, <2>1 DEF HasOutputReady, OutgoingTaken, TypeOK, Standby,
             Duty!Emit, Duty!DutyNext, Phase
<1>5. CASE HasDiagnosticReady
  <2>1. DiagnosticKind(b.diagnostic) \in Duty!Entitled(Phase)
    BY <1>5, PhaseOfFlags
       DEF HasDiagnosticReady, QueuesOK, DiagnosticKind, Duty!Entitled
  <2> QED BY <1>5, <2>1 DEF HasDiagnosticReady, DiagnosticTaken, TypeOK,
             Standby, Duty!Emit, Duty!DutyNext, Phase
<1>6. CASE ResetForNextPass
  BY <1>6 DEF ResetForNextPass, StandbyReset, Phase, IsComplete,
     Duty!Close, Duty!Fresh, Duty!DutyNext
<1>7. CASE UNCHANGED vars
  BY <1>7 DEF vars, Duty!dutyVars, Phase
<1> QED BY <1>1, <1>2, <1>3, <1>4, <1>5, <1>6, <1>7 DEF Next, Duty!DutyNext

(* In whatever order its methods are called, the standby does its duty: it *)
(* asks before it judges, judges only a silent sibling, at most once in a  *)
(* pass, and sends nothing its verdict does not entitle it to.             *)
THEOREM StandbyDoesDuty == Spec => DoesDuty
<1>1. Init => Duty!DutyInit
  BY DEF Init, StandbyReset, Phase, IsComplete, Duty!DutyInit, Duty!Fresh
<1> QED BY <1>1, DutyStep, TypeCorrect, VerdictsSound, QueuesSound, PTL
        DEF Spec, IInv, DoesDuty, Duty!DutySpec
=============================================================================
