-------------------------- MODULE NNFailoverProofs --------------------------
(***************************************************************************)
(* Lemmas about the operators of NNFailover and of the modules it rests on,*)
(* for every configuration of a device.                                    *)
(***************************************************************************)
EXTENDS NNFailover, TLAPS

(* The packets the standby builds are packets.                             *)
LEMMA ReportIsPacket ==
  ASSUME NEW c \in Configuration, NEW flag \in {"substitute", "teardown"}
  PROVE  FailoverReport(c, flag) \in Packet
BY DEF Configuration, FailoverReport, ControlPacket, Packet, Group,
   DiagGroup, Value, NoValue, Copies

LEMMA RequestIsPacket ==
  ASSUME NEW c \in Configuration
  PROVE  ControlPacket(c.addr, 0, "none", c.target) \in Packet
BY DEF Configuration, ControlPacket, Packet, Group, Value, NoValue, Copies

LEMMA TeardownIsPacket ==
  ASSUME NEW c \in Configuration
  PROVE  TeardownPacket(c.addr) \in Packet
BY DEF Configuration, TeardownPacket, Packet, Group, Value, NoValue, Copies

(* What is gathered from a buffer is a value.                              *)
LEMMA GatheredIsValue ==
  ASSUME NEW b \in InputBuffer, NEW mask \in SUBSET NodeId
  PROVE  Gathered(b, mask) \in Value
<1>1. \A n \in mask : b.values[n] \subseteq Run
  BY DEF InputBuffer, Value
<1> QED BY <1>1, Zenon DEF Gathered, Value

LEMMA SubstituteIsPacket ==
  ASSUME NEW c \in Configuration, NEW v \in Value
  PROVE  DataPacket(c.target, "substitute", v) \in Packet
BY DEF Configuration, DataPacket, Packet, Group, Copies

LEMMA StoreInputType ==
  ASSUME NEW b \in InputBuffer, NEW n \in NodeId, NEW v \in Value
  PROVE  StoreInput(b, n, v) \in InputBuffer
BY DEF StoreInput, InputBuffer

-----------------------------------------------------------------------------
(* Each operation keeps a standby a standby.                               *)
LEMMA ResetType == StandbyReset \in Standby
BY DEF StandbyReset, Standby, EmptyBuffer, InputBuffer, Value, NoValue

LEMMA ObserveType ==
  ASSUME NEW c \in Configuration, NEW b \in Standby, NEW p \in Packet
  PROVE  StandbyObserve(c, b, p) \in Standby
<1>1. p.src.node \in NodeId /\ p.value \in Value
  BY DEF Packet, Address
<1>2. b.buffer \in InputBuffer
  BY DEF Standby
<1>3. StoreInput(b.buffer, p.src.node, p.value) \in InputBuffer
  BY <1>1, <1>2, StoreInputType
<1> QED BY <1>1, <1>2, <1>3 DEF StandbyObserve, Standby

LEMMA TickType ==
  ASSUME NEW c \in Configuration, NEW b \in Standby
  PROVE  StandbyTick(c, b) \in Standby
<1>1. RequestResend(c, b) \in Standby
  BY RequestIsPacket DEF RequestResend, Standby
<1>2. Substitute(c, b) \in Standby
  <2>1. Gathered(b.buffer, c.tpred) \in Value
    BY GatheredIsValue DEF Configuration, Standby
  <2>2. DataPacket(c.target, "substitute", Gathered(b.buffer, c.tpred))
          \in Packet
    BY <2>1, SubstituteIsPacket
  <2> QED BY <2>2, ReportIsPacket DEF Substitute, Standby
<1>3. TearDown(c, b) \in Standby
  BY TeardownIsPacket, ReportIsPacket DEF TearDown, Standby
<1> QED BY <1>1, <1>2, <1>3 DEF StandbyTick, Verdict

(* Knowledge of a pass only grows with the packets observed in it.         *)
LEMMA ObserveGrows ==
  ASSUME NEW c \in Configuration, NEW b \in Standby, NEW p \in Packet
  PROVE  LET o == StandbyObserve(c, b, p)
         IN /\ b.layerObserved \subseteq o.layerObserved
            /\ b.buffer.received \subseteq o.buffer.received
            /\ b.targetObserved => o.targetObserved
            /\ o.resendRequested = b.resendRequested
            /\ o.hasSubstituted = b.hasSubstituted
            /\ o.hasTornDown = b.hasTornDown
            /\ o.resolved = b.resolved
            /\ o.outgoing = b.outgoing /\ o.diagnostic = b.diagnostic
            /\ o.targetObserved # b.targetObserved =>
                 o.layerObserved = b.layerObserved /\ o.buffer = b.buffer
BY DEF StandbyObserve, Standby, StoreInput, InputBuffer

(* What the builders put into the fields that are looked at again.         *)
LEMMA BuiltPackets ==
  ASSUME NEW c \in Configuration
  PROVE
  /\ ControlPacket(c.addr, 0, "none", c.target).type = "CONTROL"
  /\ TeardownPacket(c.addr).type = "TEARDOWN"
  /\ \A v : DataPacket(c.target, "substitute", v).type = "DATA"
  /\ \A flag : FailoverReport(c, flag).flag = flag
  /\ NoPacket.type = "none"
  /\ \A p \in Packet : p # NoPacket
BY DEF ControlPacket, TeardownPacket, DataPacket, FailoverReport, NoPacket, Packet

=============================================================================
