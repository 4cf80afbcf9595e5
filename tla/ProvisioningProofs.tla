------------------------- MODULE ProvisioningProofs -------------------------
(***************************************************************************)
(* No board is ever verified, configured or started with a chunk missing,  *)
(* however its messages are lost, repeated or delayed, whenever it is      *)
(* power-cycled, and however many sessions are run.  And what the session  *)
(* proofs build on: the boards picked, the steps of a session field by     *)
(* field, the places of a script, the replies, the types.                  *)
(***************************************************************************)
EXTENDS ProvisioningProperties, SequenceTheorems, FiniteSetTheorems,
        WellFoundedInduction, TLAPS

Packaged(a) == a.state \in {"VERIFYING", "CONFIGURED", "RUNNING"} =>
                 PrimaryComplete(a) /\ BackupComplete(a)

AgentOK(a) == a \in Agent /\ Packaged(a)

(* What a store holds was saved of a configured board without its counts.  *)
SavedOK(a) == a \in Agent /\ a.expected = 0 /\ a.bexpected = 0

MessageOK(m) == m.op \in Setup \cup {"START"} /\ m.role \in AnyRole

Emission == [op : Setup, chunk : Nat]

(* The boards seen, planned and configured so far may be anything: no step *)
(* of an agent depends on them.                                            *)
ToolWith(seen, boards, ok) ==
  [phase : {"idle", "discover", "send", "await", "done", "failed"},
   session : Nat, roles : Seq(Role), seen : {seen}, boards : {boards},
   at : Nat, seq : Nat, try : Nat, ok : {ok}]

ToolShape(t) == t \in ToolWith(t.seen, t.boards, t.ok)

Sending(t) == t.phase \in {"send", "await"} =>
  /\ t.at \in 1..Len(t.roles)
  /\ t.seq + 1 \in 1..Len(Script(t.roles[t.at]))

ToolOK(t) ==
  /\ ToolShape(t) /\ Sending(t)
  /\ t.phase # "idle" => t.roles # << >>
  /\ t.phase = "discover" => t.at = 1 /\ t.seq = 0

-----------------------------------------------------------------------------
(* The script of a device.                                                 *)
LEMMA OneType ==
  ASSUME NEW op \in Setup
  PROVE  /\ One(op) \in Seq(Emission) /\ Len(One(op)) = 1
         /\ One(op)[1].op = op
BY DEF One, Emission

LEMMA ChunksType ==
  ASSUME NEW op \in Setup, NEW n \in Nat
  PROVE  Chunks(op, n) \in Seq(Emission) /\ Len(Chunks(op, n)) = n
<1>1. \A i \in 1..n : [op |-> op, chunk |-> i - 1] \in Emission
  BY DEF Emission
<1>2. Chunks(op, n) \in [1..n -> Emission]
  BY <1>1 DEF Chunks
<1> QED BY <1>2

(* Every script is made of setup messages and ends with the commit.        *)
LEMMA ScriptShape ==
  ASSUME NEW r \in Role
  PROVE  /\ Script(r) \in Seq(Emission) /\ Len(Script(r)) \in Nat \ {0}
         /\ Script(r)[Len(Script(r))].op = "COMMIT_REQUEST"
<1> DEFINE backup  == IF r.backup THEN One("BACKUP_ROLE_INFO") ELSE << >>
           own     == Chunks("WEIGHTS_CHUNK", r.chunks)
           weights == IF r.backup THEN Chunks("BACKUP_WEIGHTS_CHUNK", r.bchunks)
                      ELSE << >>
           input   == IF r.seed THEN One("INPUT_VALUE") ELSE << >>
           body    == One("ASSIGN_ADDRESS") \o One("TOPOLOGY_INFO")
                      \o backup \o own \o weights \o input
<1>1. r.chunks \in Nat /\ r.bchunks \in Nat
  BY RoleAssumption DEF IsRole
<1>2. /\ backup \in Seq(Emission) /\ own \in Seq(Emission)
      /\ weights \in Seq(Emission) /\ input \in Seq(Emission)
  BY <1>1, OneType, ChunksType, EmptySeq DEF Setup
<1>3. body \in Seq(Emission)
  <2> HIDE DEF backup, own, weights, input
  <2> QED BY <1>2, OneType, ConcatProperties DEF Setup
<1>4. Script(r) = body \o One("COMMIT_REQUEST")
  BY DEF Script
<1>5. One("COMMIT_REQUEST") \in Seq(Emission) /\ Len(One("COMMIT_REQUEST")) = 1
      /\ One("COMMIT_REQUEST")[1].op = "COMMIT_REQUEST"
  BY OneType DEF Setup
<1> HIDE DEF body
<1>6. Len(body) \in Nat
  BY <1>3, LenProperties
<1>7. /\ Script(r) \in Seq(Emission) /\ Len(Script(r)) = Len(body) + 1
      /\ Script(r)[Len(body) + 1] = One("COMMIT_REQUEST")[1]
  BY <1>3, <1>4, <1>5, <1>6, ConcatProperties
<1> QED BY <1>5, <1>6, <1>7

-----------------------------------------------------------------------------
(* The handlers.                                                           *)
LEMMA AdvancedOK ==
  ASSUME NEW a \in Agent, a.state = "RECEIVING_CONFIG" \/ Packaged(a)
  PROVE  AgentOK(Advanced(a))
BY DEF Advanced, AgentOK, Packaged, PrimaryComplete, BackupComplete, Agent,
       AgentState

LEMMA RoleFields ==
  ASSUME NEW r \in AnyRole
  PROVE  r.addr \in Place /\ r.chunks \in 0..MaxChunks /\ r.bchunks \in 0..MaxChunks
BY RoleAssumption DEF AnyRole, Nobody, IsRole, Place

LEMMA BlankOK == AgentOK(Blank) /\ SavedOK(Blank)
BY RoleAssumption DEF Blank, AgentOK, SavedOK, Packaged, Agent, AgentState,
   Place, AnyRole, Nobody

LEMMA TopologyOK ==
  ASSUME NEW a, AgentOK(a), NEW m, MessageOK(m)
  PROVE  AgentOK(HandleTopologyInfo(a, m))
<1> DEFINE t == [a EXCEPT !.topology = m.role, !.ownLayer = a.addr.layer,
                          !.expected = m.role.chunks, !.received = {},
                          !.state = "RECEIVING_CONFIG"]
<1>1. t \in Agent /\ t.state = "RECEIVING_CONFIG"
  BY RoleFields DEF AgentOK, Agent, AgentState, Place, MessageOK
<1> QED BY <1>1, AdvancedOK DEF HandleTopologyInfo

LEMMA WeightsOK ==
  ASSUME NEW a, AgentOK(a), NEW m, MessageOK(m)
  PROVE  AgentOK(HandleWeightsChunk(a, m))
<1> DEFINE t == [a EXCEPT !.weights[m.chunk] = m.role,
                          !.received = a.received \cup {m.chunk}]
<1>1. CASE ~Collecting(a) \/ ~InRange(a, m)
  BY <1>1 DEF HandleWeightsChunk
<1>2. CASE Collecting(a) /\ InRange(a, m)
  <2>1. m.chunk \in Chunk
    BY <1>2, RoleAssumption DEF InRange, FirstChunks, Chunk, AgentOK, Agent
  <2>2. t \in Agent
    BY <2>1 DEF AgentOK, Agent, MessageOK
  <2>3. t.state = "RECEIVING_CONFIG" \/ Packaged(t)
    BY <1>2 DEF Collecting, AgentOK, Agent, Packaged, PrimaryComplete, BackupComplete
  <2> QED BY <1>2, <2>2, <2>3, AdvancedOK DEF HandleWeightsChunk
<1> QED BY <1>1, <1>2

LEMMA BackupRoleOK ==
  ASSUME NEW a, AgentOK(a), NEW m, MessageOK(m)
  PROVE  AgentOK(HandleBackupRoleInfo(a, m))
<1> DEFINE t == [a EXCEPT !.hasBackup = TRUE, !.backup = m.role,
                          !.bexpected = m.role.bchunks, !.breceived = {},
                          !.state = "RECEIVING_CONFIG"]
<1>1. t \in Agent /\ t.state = "RECEIVING_CONFIG"
  BY RoleFields DEF AgentOK, Agent, AgentState, MessageOK
<1> QED BY <1>1, AdvancedOK DEF HandleBackupRoleInfo

LEMMA BackupWeightsOK ==
  ASSUME NEW a, AgentOK(a), NEW m, MessageOK(m)
  PROVE  AgentOK(HandleBackupWeightsChunk(a, m))
<1> DEFINE t == [a EXCEPT !.bweights[m.chunk] = m.role,
                          !.breceived = a.breceived \cup {m.chunk}]
<1>1. CASE ~a.hasBackup \/ ~Collecting(a) \/ ~BackupInRange(a, m)
  BY <1>1 DEF HandleBackupWeightsChunk
<1>2. CASE a.hasBackup /\ Collecting(a) /\ BackupInRange(a, m)
  <2>1. m.chunk \in Chunk
    BY <1>2, RoleAssumption DEF BackupInRange, FirstChunks, Chunk, AgentOK, Agent
  <2>2. t \in Agent
    BY <2>1 DEF AgentOK, Agent, MessageOK
  <2>3. t.state = "RECEIVING_CONFIG" \/ Packaged(t)
    BY <1>2 DEF Collecting, AgentOK, Agent, Packaged, PrimaryComplete, BackupComplete
  <2> QED BY <1>2, <2>2, <2>3, AdvancedOK DEF HandleBackupWeightsChunk
<1> QED BY <1>1, <1>2

(* No message can make an agent pass for complete.                         *)
LEMMA OnSetupPacketOK ==
  ASSUME NEW a, AgentOK(a), NEW m, MessageOK(m)
  PROVE  AgentOK(OnSetupPacket(a, m))
<1>1. AgentOK(HandleAssignAddress(a, m))
  BY RoleFields DEF HandleAssignAddress, AgentOK, MessageOK, Agent, Packaged,
     PrimaryComplete, BackupComplete
<1>2. AgentOK(HandleInputValue(a, m))
  BY DEF HandleInputValue, AgentOK, MessageOK, Agent, Packaged,
     PrimaryComplete, BackupComplete
<1>3. AgentOK(HandleCommitRequest(a, m))
  BY DEF HandleCommitRequest, AgentOK, Agent, AgentState, Packaged,
     PrimaryComplete, BackupComplete
<1>4. AgentOK(HandleStart(a, m))
  BY DEF HandleStart, AgentOK, Agent, AgentState, Packaged,
     PrimaryComplete, BackupComplete
<1> QED BY <1>1, <1>2, <1>3, <1>4, TopologyOK, WeightsOK, BackupRoleOK,
           BackupWeightsOK DEF OnSetupPacket, MessageOK, Setup

(* The store keeps no counts, so a board booted from it is complete.       *)
LEMMA PersistedOK ==
  ASSUME NEW a, AgentOK(a)
  PROVE  SavedOK(Persisted(a))
<1>1. PICK w : /\ w \in [Chunk -> AnyRole]
               /\ w = [i \in Chunk |-> IF i \in FirstChunks(a.topology.chunks)
                                       THEN a.weights[i] ELSE Nobody]
  BY DEF AgentOK, Agent, AnyRole
<1>2. PICK v : /\ v \in [Chunk -> AnyRole]
               /\ v = [i \in Chunk |->
                         IF a.hasBackup /\ i \in FirstChunks(a.backup.bchunks)
                         THEN a.bweights[i] ELSE Nobody]
  BY DEF AgentOK, Agent, AnyRole
<1>3. PICK p : p = Persisted(a)
  OBVIOUS
<1>4. PICK b : /\ b \in AnyRole
               /\ b = IF a.hasBackup THEN a.backup ELSE Nobody
  BY DEF AgentOK, Agent, AnyRole
<1>5. p = [state |-> "CONFIGURED", addr |-> a.addr, ownLayer |-> 0,
           topology |-> a.topology, expected |-> 0, received |-> {}, weights |-> w,
           hasBackup |-> a.hasBackup, backup |-> b, bexpected |-> 0,
           breceived |-> {}, bweights |-> v, input |-> Nobody]
  BY <1>1, <1>2, <1>3, <1>4 DEF Persisted, Blank
<1>6. /\ a.addr \in Place /\ a.topology \in AnyRole /\ a.hasBackup \in BOOLEAN
      /\ 0 \in 0..15 /\ 0 \in 0..MaxChunks /\ Nobody \in AnyRole
  BY RoleAssumption DEF AgentOK, Agent, AnyRole
<1>7. p \in Agent
  BY <1>1, <1>2, <1>4, <1>5, <1>6 DEF Agent, AgentState
<1>8. p.expected = 0 /\ p.bexpected = 0
  BY <1>5
<1> QED BY <1>3, <1>7, <1>8 DEF SavedOK

LEMMA BootedOK ==
  ASSUME NEW a, SavedOK(a)
  PROVE  AgentOK(Booted(a))
<1>1. Booted(a) \in Agent /\ Booted(a).expected = 0 /\ Booted(a).bexpected = 0
  BY DEF Booted, SavedOK, Agent, Place
<1> QED BY <1>1 DEF AgentOK, Packaged, PrimaryComplete, BackupComplete, FirstChunks

-----------------------------------------------------------------------------
(* The tool.                                                               *)
LEMMA ShapeOf ==
  ASSUME NEW seen, NEW boards, NEW ok, NEW t \in ToolWith(seen, boards, ok)
  PROVE  /\ ToolShape(t)
         /\ t.phase \in {"idle", "discover", "send", "await", "done", "failed"}
         /\ t.session \in Nat /\ t.roles \in Seq(Role) /\ t.at \in Nat
         /\ t.seq \in Nat /\ t.try \in Nat
BY DEF ToolWith, ToolShape

(* A device that is about to be sent its first message.                    *)
LEMMA FirstMessage ==
  ASSUME NEW t, ToolShape(t), t.phase = "send", t.at \in 1..Len(t.roles),
         t.seq = 0
  PROVE  ToolOK(t)
<1>1. t.roles \in Seq(Role)
  BY ShapeOf DEF ToolShape
<1>2. t.roles[t.at] \in Role
  BY <1>1, ElementOfSeq
<1>3. Sending(t)
  BY <1>2, ScriptShape DEF Sending
<1>4. t.roles # << >>
  BY <1>1, EmptySeq
<1> QED BY <1>3, <1>4 DEF ToolOK

LEMMA NextDeviceOK ==
  ASSUME NEW t, ToolShape(t), t.roles = tool.roles, t.roles # << >>
  PROVE  ToolOK(NextDevice(t))
<1>1. t.roles \in Seq(Role) /\ Len(t.roles) \in Nat /\ t.at \in Nat
  BY ShapeOf, LenProperties DEF ToolShape
<1>2. ASSUME t.at < Needed
      PROVE  ToolOK(NextDevice(t))
  <2>1. PICK u : u = [t EXCEPT !.phase = "send", !.at = t.at + 1, !.seq = 0,
                               !.try = 0]
    OBVIOUS
  <2>2. /\ u \in ToolWith(t.seen, t.boards, t.ok)
        /\ u.roles = t.roles /\ u.at = t.at + 1 /\ u.seq = 0
        /\ u.phase = "send"
    <3>1. t \in ToolWith(t.seen, t.boards, t.ok) /\ t.at + 1 \in Nat
      BY <1>1 DEF ToolShape
    <3>2. u.roles = t.roles /\ u.at = t.at + 1 /\ u.seq = 0 /\ u.phase = "send"
      BY <3>1, <2>1 DEF ToolWith
    <3>3. u \in ToolWith(t.seen, t.boards, t.ok)
      BY <3>1, <2>1 DEF ToolWith
    <3> QED BY <3>2, <3>3
  <2>3. u.at \in 1..Len(u.roles)
    BY <1>1, <1>2, <2>2 DEF Needed
  <2>4. NextDevice(t) = u
    BY <1>2, <2>1 DEF NextDevice
  <2> QED BY <2>2, <2>3, <2>4, ShapeOf, FirstMessage
<1>3. ASSUME ~(t.at < Needed)
      PROVE  ToolOK(NextDevice(t))
  <2>1. PICK u : /\ NextDevice(t) = u
                 /\ \/ u = [t EXCEPT !.phase = "done"]
                    \/ u = [t EXCEPT !.phase = "failed"]
    BY <1>3 DEF NextDevice
  <2>2. /\ u \in ToolWith(t.seen, t.boards, t.ok)
        /\ u.roles = t.roles /\ u.phase \in {"done", "failed"}
    BY <2>1 DEF ToolWith, ToolShape
  <2> QED BY <2>1, <2>2, ShapeOf DEF ToolOK, Sending
<1> QED BY <1>2, <1>3

(* An acknowledged message is not the last of its script: only COMMIT_REPLY*)
(* answers that.                                                           *)
LEMMA JudgedOK ==
  ASSUME ToolOK(tool), NEW p, tool.phase = "await", Matches(p)
  PROVE  ToolOK(Judged(p))
<1> DEFINE script == Script(tool.roles[tool.at])
<1>1. /\ ToolShape(tool) /\ tool.roles # << >> /\ tool.at \in 1..Len(tool.roles)
      /\ tool.seq + 1 \in 1..Len(script)
  BY DEF ToolOK, Sending
<1>2. tool.roles \in Seq(Role) /\ tool.seq \in Nat
  BY <1>1, ShapeOf DEF ToolShape
<1>3. tool.roles[tool.at] \in Role
  BY <1>1, <1>2, ElementOfSeq
<1>4. Len(script) \in Nat /\ script[Len(script)].op = "COMMIT_REQUEST"
  BY <1>3, ScriptShape
<1> HIDE DEF script
<1>5. ASSUME p.op = "ACK"
      PROVE  ToolOK(Judged(p))
  <2>1. script[tool.seq + 1].op # "COMMIT_REQUEST"
    BY <1>5 DEF Matches, Current, Assigned, script
  <2>2. tool.seq + 2 \in 1..Len(script)
    BY <1>1, <1>2, <1>4, <2>1
  <2>3. PICK u : u = [tool EXCEPT !.phase = "send", !.seq = tool.seq + 1, !.try = 0]
    OBVIOUS
  <2>4. /\ u \in ToolWith(tool.seen, tool.boards, tool.ok)
        /\ u.roles = tool.roles /\ u.at = tool.at /\ u.seq = tool.seq + 1
        /\ u.phase = "send"
    <3>1. tool \in ToolWith(tool.seen, tool.boards, tool.ok)
          /\ tool.seq + 1 \in Nat
      BY <1>1, <1>2 DEF ToolShape
    <3>2. /\ u.roles = tool.roles /\ u.at = tool.at /\ u.seq = tool.seq + 1
          /\ u.phase = "send"
      BY <3>1, <2>3 DEF ToolWith
    <3>3. u \in ToolWith(tool.seen, tool.boards, tool.ok)
      BY <3>1, <2>3 DEF ToolWith
    <3> QED BY <3>2, <3>3
  <2>5. Sending(u)
    BY <1>1, <1>2, <2>2, <2>4 DEF Sending, script
  <2>6. Judged(p) = u
    BY <1>5, <2>3 DEF Judged
  <2> QED BY <1>1, <2>4, <2>5, <2>6, ShapeOf DEF ToolOK
<1>6. ASSUME p.op = "NACK"
      PROVE  ToolOK(Judged(p))
  <2>1. Judged(p) = NextDevice(tool)
    BY <1>6 DEF Judged
  <2> QED BY <1>1, <2>1, NextDeviceOK
<1>7. ASSUME p.op = "COMMIT_REPLY"
      PROVE  ToolOK(Judged(p))
  <2>1. PICK t : /\ t = IF Verified(p, Assigned)
                        THEN [tool EXCEPT !.ok = @ \cup {Board}] ELSE tool
                 /\ Judged(p) = NextDevice(t)
    BY <1>7 DEF Judged
  <2>2. /\ t \in ToolWith(tool.seen, tool.boards, t.ok)
        /\ t.roles = tool.roles /\ t.at = tool.at
    BY <1>1, <2>1 DEF ToolWith, ToolShape
  <2> QED BY <1>1, <2>1, <2>2, ShapeOf, NextDeviceOK
<1> QED BY <1>5, <1>6, <1>7 DEF Matches

LEMMA StartMessagesOK == \A m \in StartMessages : MessageOK(m)
BY DEF StartMessages, MessageOK, AnyRole

-----------------------------------------------------------------------------
(* The invariant.                                                          *)
Boards ==
  /\ agent = [h \in Hardware |-> agent[h]]
  /\ saved = [h \in Hardware |-> saved[h]]
  /\ \A h \in Hardware : AgentOK(agent[h]) /\ SavedOK(saved[h])

Mail == \A m \in down : MessageOK(m)

ProvisioningInv == Boards /\ Mail /\ ToolOK(tool)

LEMMA InitInv == Init => ProvisioningInv
<1> SUFFICES ASSUME Init PROVE ProvisioningInv
  OBVIOUS
<1>1. Boards
  BY BlankOK DEF Init, Boards
<1>2. tool \in ToolWith({}, << >>, {}) /\ tool.phase = "idle"
  BY EmptySeq DEF Init, ToolWith
<1>3. ToolOK(tool)
  BY <1>2, ShapeOf DEF ToolOK, Sending
<1> QED BY <1>1, <1>3 DEF Init, ProvisioningInv, Mail

-----------------------------------------------------------------------------
(* The steps.                                                              *)
LEMMA StartSessionOK ==
  ASSUME ToolOK(tool), StartSession
  PROVE  ToolOK(tool')
<1>1. PICK net \in Networks :
        tool' = [phase |-> "discover", session |-> tool.session + 1,
                 roles |-> net, seen |-> {}, boards |-> << >>, at |-> 1,
                 seq |-> 0, try |-> 0, ok |-> {}]
  BY DEF StartSession
<1>2. net \in Seq(Role) /\ net # << >> /\ tool.session + 1 \in Nat
  BY ProvisioningAssumption, ShapeOf DEF ToolOK, ToolShape
<1>3. /\ tool' \in ToolWith({}, << >>, {}) /\ tool'.phase = "discover"
      /\ tool'.at = 1 /\ tool'.seq = 0 /\ tool'.roles = net
  BY <1>1, <1>2 DEF ToolWith
<1> QED BY <1>2, <1>3, ShapeOf DEF ToolOK, Sending

(* A step of the tool that changes its phase, the boards it saw, those it  *)
(* will provision and the attempt, but neither device nor message.         *)
LEMMA SameMessageOK ==
  ASSUME ToolOK(tool), NEW t, NEW seen, NEW boards, NEW ok,
         t \in ToolWith(seen, boards, ok),
         t.roles = tool.roles, t.at = tool.at, t.seq = tool.seq,
         \/ t.phase = tool.phase
         \/ t.phase = "failed" /\ tool.phase = "discover"
         \/ t.phase = "send" /\ tool.phase \in {"discover", "await"}
         \/ t.phase = "await" /\ tool.phase = "send"
  PROVE  ToolOK(t)
<1>1. /\ tool.roles \in Seq(Role) /\ ToolShape(t) /\ ToolShape(tool)
  BY ShapeOf DEF ToolOK, ToolShape
<1>2. CASE tool.phase = "discover" /\ t.phase = "send"
  <2>1. tool.roles # << >> /\ tool.at = 1 /\ tool.seq = 0
    BY <1>2 DEF ToolOK
  <2>2. 1 \in 1..Len(tool.roles)
    BY <1>1, <2>1, EmptySeq
  <2> QED BY <1>1, <1>2, <2>1, <2>2, FirstMessage
<1>3. CASE ~(tool.phase = "discover" /\ t.phase = "send")
  BY <1>1, <1>3 DEF ToolOK, Sending
<1> QED BY <1>2, <1>3

LEMMA NextInv == ProvisioningInv /\ [Next]_vars => ProvisioningInv'
<1> SUFFICES ASSUME ProvisioningInv, [Next]_vars PROVE ProvisioningInv'
  OBVIOUS
<1>0. /\ Boards /\ Mail /\ ToolOK(tool)
      /\ tool \in ToolWith(tool.seen, tool.boards, tool.ok)
  BY DEF ProvisioningInv, ToolOK, ToolShape
<1>1. CASE StartSession
  BY <1>0, <1>1, StartSessionOK DEF StartSession, ProvisioningInv, Boards, Mail
<1>2. CASE CloseWindow
  <2>1. PICK t : /\ tool' = t
                 /\ \/ t = [tool EXCEPT !.phase = "failed"]
                    \/ \E b : t = [tool EXCEPT !.phase = "send", !.boards = b]
    BY <1>2 DEF CloseWindow
  <2>2. tool.phase = "discover"
    BY <1>2 DEF CloseWindow
  <2>3. /\ t \in ToolWith(tool.seen, t.boards, tool.ok)
        /\ t.roles = tool.roles /\ t.at = tool.at /\ t.seq = tool.seq
        /\ t.phase \in {"failed", "send"}
    BY <1>0, <2>1 DEF ToolWith
  <2>4. ToolOK(t)
    BY <1>0, <2>2, <2>3, SameMessageOK
  <2> QED BY <1>0, <1>2, <2>1, <2>4 DEF CloseWindow, ProvisioningInv, Boards, Mail
<1>3. CASE Send
  <2>1. PICK t : tool' = t /\ t = [tool EXCEPT !.phase = "await"]
    BY <1>3 DEF Send
  <2>2. tool.phase = "send"
    BY <1>3 DEF Send
  <2>3. /\ t \in ToolWith(tool.seen, tool.boards, tool.ok)
        /\ t.roles = tool.roles /\ t.at = tool.at /\ t.seq = tool.seq
        /\ t.phase = "await"
    BY <1>0, <2>1 DEF ToolWith
  <2>4. ToolOK(t)
    BY <1>0, <2>2, <2>3, SameMessageOK
  <2>5. MessageOK(CurrentMessage)
    <3>1. /\ tool.roles \in Seq(Role) /\ tool.at \in 1..Len(tool.roles)
          /\ tool.seq + 1 \in 1..Len(Script(tool.roles[tool.at]))
      BY <1>0, <2>2, ShapeOf DEF ToolOK, Sending
    <3>2. Assigned \in Role
      BY <3>1, ElementOfSeq DEF Assigned
    <3>3. Current \in Emission
      BY <3>1, <3>2, ScriptShape, ElementOfSeq DEF Current, Assigned
    <3> QED BY <3>2, <3>3 DEF CurrentMessage, MessageOK, Emission, AnyRole
  <2> QED BY <1>0, <1>3, <2>1, <2>4, <2>5 DEF Send, ProvisioningInv, Boards, Mail
<1>4. CASE LaptopReceive
  <2>1. PICK p \in up : IF tool.phase = "await" /\ Matches(p)
                        THEN Advance(Judged(p)) ELSE UNCHANGED <<tool, down>>
    BY <1>4 DEF LaptopReceive
  <2>2. Boards'
    BY <1>0, <1>4 DEF LaptopReceive, Boards
  <2>3. CASE tool.phase = "await" /\ Matches(p)
    BY <1>0, <2>1, <2>2, <2>3, JudgedOK, StartMessagesOK
       DEF Advance, ProvisioningInv, Mail
  <2>4. CASE ~(tool.phase = "await" /\ Matches(p))
    BY <1>0, <2>1, <2>2, <2>4 DEF ProvisioningInv, Mail
  <2> QED BY <2>3, <2>4
<1>5. CASE Timeout
  <2>1. PICK t : /\ Advance(t)
                 /\ \/ t = [tool EXCEPT !.phase = "send", !.try = tool.try + 1]
                    \/ t = NextDevice(tool)
    BY <1>5 DEF Timeout
  <2>2. tool.phase = "await"
    BY <1>5 DEF Timeout
  <2>3. ASSUME t = [tool EXCEPT !.phase = "send", !.try = tool.try + 1]
        PROVE  ToolOK(t)
    <3>1. tool.try + 1 \in Nat
      BY <1>0, ShapeOf
    <3>2. /\ t \in ToolWith(tool.seen, tool.boards, tool.ok)
          /\ t.roles = tool.roles /\ t.at = tool.at /\ t.seq = tool.seq
          /\ t.phase = "send"
      BY <1>0, <2>3, <3>1 DEF ToolWith
    <3> QED BY <1>0, <2>2, <3>2, SameMessageOK
  <2>4. ASSUME t = NextDevice(tool)
        PROVE  ToolOK(t)
    BY <1>0, <2>2, <2>4, NextDeviceOK DEF ToolOK
  <2>5. Boards'
    BY <1>0, <1>5 DEF Timeout, Boards
  <2> QED BY <1>0, <2>1, <2>3, <2>4, <2>5, StartMessagesOK
          DEF Advance, ProvisioningInv, Mail
<1>6. CASE Lose
  BY <1>0, <1>6 DEF Lose, ProvisioningInv, Boards, Mail
<1>7. ASSUME NEW h \in Hardware, Hello(h)
      PROVE  ProvisioningInv'
  <2>1. PICK t : tool' = t /\ t = [tool EXCEPT !.seen = tool.seen \cup {h}]
    BY <1>7 DEF Hello
  <2>2. /\ t \in ToolWith(t.seen, tool.boards, tool.ok)
        /\ t.roles = tool.roles /\ t.at = tool.at /\ t.seq = tool.seq
        /\ t.phase = tool.phase
    BY <1>0, <2>1 DEF ToolWith
  <2>3. ToolOK(t)
    BY <1>0, <2>2, SameMessageOK
  <2> QED BY <1>0, <1>7, <2>1, <2>3 DEF Hello, ProvisioningInv, Boards, Mail
<1>8. ASSUME NEW h \in Hardware, Receive(h)
      PROVE  ProvisioningInv'
  <2>1. PICK m \in down :
          /\ down' = down \ {m}
          /\ agent' = [agent EXCEPT ![h] =
                         IF Listening(h) THEN OnSetupPacket(@, m) ELSE @]
    BY <1>8 DEF Receive
  <2>2. MessageOK(m) /\ AgentOK(agent[h])
    BY <1>0 DEF Mail, Boards
  <2>3. \A g \in Hardware : AgentOK(agent'[g])
    BY <1>0, <2>1, <2>2, OnSetupPacketOK DEF Boards
  <2>4. /\ saved' = [g \in Hardware |-> saved'[g]]
        /\ \A g \in Hardware : SavedOK(saved'[g])
    BY <1>0, <1>8, <2>3, PersistedOK DEF Receive, Boards
  <2>5. agent' = [g \in Hardware |-> agent'[g]]
    BY <1>0, <2>1 DEF Boards
  <2> QED BY <1>0, <1>8, <2>1, <2>3, <2>4, <2>5
          DEF Receive, ProvisioningInv, Boards, Mail
<1>9. ASSUME NEW h \in Hardware, Reboot(h)
      PROVE  ProvisioningInv'
  <2>1. Boards'
    BY <1>0, <1>9, BootedOK DEF Reboot, Boards
  <2> QED BY <1>0, <1>9, <2>1 DEF Reboot, ProvisioningInv, Mail
<1>10. CASE UNCHANGED vars
  BY <1>0, <1>10 DEF vars, ProvisioningInv, Boards, Mail
<1> QED BY <1>1, <1>2, <1>3, <1>4, <1>5, <1>6, <1>7, <1>8, <1>9, <1>10 DEF Next

-----------------------------------------------------------------------------
(* No board verifies, is configured or runs with a chunk of its own or its *)
(* target's weights missing, for any delay, loss or repetition of setup    *)
(* messages, any number of sessions and power cycles, and whether the store*)
(* persists or not.                                                        *)
THEOREM WeightsComplete == Spec => []NoPartialWeights
<1>1. ProvisioningInv => NoPartialWeights
  BY DEF ProvisioningInv, Boards, AgentOK, Packaged, NoPartialWeights
<1> QED BY <1>1, InitInv, NextInv, PTL DEF Spec

-----------------------------------------------------------------------------
(* The boards the tool picks.                                              *)

(* No hardware id is listed twice in hardware_ids.json.                    *)
PoolDistinct == \A i, j \in DOMAIN Pool : Pool[i] = Pool[j] => i = j

(* The order of the naturals as a relation, well-founded.                  *)
Below == {ss \in Nat \X Nat : ss[1] < ss[2]}

LEMMA BelowFounded == IsWellFoundedOn(Below, Nat)
BY NatLessThanWellFounded, Zenon DEF OpToRel, Below

(* Induction over the naturals, of a set instead of a predicate.           *)
LEMMA SetInduction ==
  ASSUME NEW T, T \subseteq Nat, 0 \in T, \A n \in T : n + 1 \in T
  PROVE  T = Nat
<1> DEFINE S == Nat \ T
<1> SUFFICES ASSUME S # {} PROVE FALSE
  OBVIOUS
<1>1. PICK x \in S : \A y \in S : ~ (<<y, x>> \in Below)
  <2>1. S \subseteq Nat
    OBVIOUS
  <2> HIDE DEF S
  <2> QED BY <2>1, BelowFounded, WFMin, Zenon
<1>2. x # 0 /\ x - 1 \in Nat
  OBVIOUS
<1>3. <<x - 1, x>> \in Below
  BY <1>2 DEF Below
<1>4. x - 1 \in T
  BY <1>1, <1>2, <1>3
<1>5. (x - 1) + 1 \in T
  BY <1>4
<1> QED BY <1>2, <1>5

(* f filters the first n boards of the pool: f[k] holds those of the first *)
(* k that are in seen.                                                     *)
Filters(f, seen, n) ==
  f = [k \in 0..n |-> IF k = 0 THEN << >>
                      ELSE IF Pool[k] \in seen THEN Append(f[k - 1], Pool[k])
                      ELSE f[k - 1]]

LEMMA FilterStep ==
  ASSUME NEW seen, NEW n, NEW f, Filters(f, seen, n), NEW k \in 0..n
  PROVE  f[k] = IF k = 0 THEN << >>
                ELSE IF Pool[k] \in seen THEN Append(f[k - 1], Pool[k])
                ELSE f[k - 1]
<1>1. PICK F : F = [j \in 0..n |-> IF j = 0 THEN << >>
                      ELSE IF Pool[j] \in seen THEN Append(f[j - 1], Pool[j])
                      ELSE f[j - 1]]
  OBVIOUS
<1>2. f = F
  BY <1>1, Zenon DEF Filters
<1>3. F[k] = IF k = 0 THEN << >>
             ELSE IF Pool[k] \in seen THEN Append(f[k - 1], Pool[k])
             ELSE f[k - 1]
  BY <1>1, Zenon
<1> QED BY <1>2, <1>3, Zenon

(* The recursion of Available defines a function for every length.         *)
LEMMA FilterExists ==
  ASSUME NEW seen
  PROVE  \A n \in Nat : \E f : Filters(f, seen, n)
<1> DEFINE T == {n \in Nat : \E f : Filters(f, seen, n)}
<1>1. 0 \in T
  <2>1. Filters([k \in 0..0 |-> << >>], seen, 0)
    BY DEF Filters
  <2> QED BY <2>1
<1>2. ASSUME NEW n \in T PROVE n + 1 \in T
  <2>1. PICK f : Filters(f, seen, n)
    OBVIOUS
  <2> DEFINE last == IF Pool[n + 1] \in seen THEN Append(f[n], Pool[n + 1]) ELSE f[n]
             g == [k \in 0..(n + 1) |-> IF k = n + 1 THEN last ELSE f[k]]
             G(k) == IF k = 0 THEN << >>
                     ELSE IF Pool[k] \in seen THEN Append(g[k - 1], Pool[k])
                     ELSE g[k - 1]
  <2>2. ASSUME NEW k \in 0..(n + 1) PROVE g[k] = G(k)
    <3>1. CASE k = 0
      BY <2>1, <3>1, FilterStep
    <3>2. CASE k = n + 1
      <4>1. g[k] = last /\ g[k - 1] = f[n] /\ k # 0
        BY <3>2
      <4> HIDE DEF g
      <4> QED BY <3>2, <4>1
    <3>3. CASE k \in 1..n
      <4>1. g[k] = f[k] /\ g[k - 1] = f[k - 1]
        BY <3>3
      <4> HIDE DEF g
      <4>2. f[k] = IF Pool[k] \in seen THEN Append(f[k - 1], Pool[k]) ELSE f[k - 1]
        BY <2>1, <3>3, FilterStep
      <4> QED BY <3>3, <4>1, <4>2
    <3> QED BY <3>1, <3>2, <3>3
  <2>3. g = [k \in 0..(n + 1) |-> G(k)]
    <3>1. g = [k \in 0..(n + 1) |-> g[k]]
      OBVIOUS
    <3> HIDE DEF g, G
    <3> QED BY <2>2, <3>1
  <2> HIDE DEF g
  <2>4. Filters(g, seen, n + 1)
    BY <2>3, Zenon DEF Filters
  <2> QED BY <2>4
<1> HIDE DEF T
<1>3. T \subseteq Nat
  BY DEF T
<1>4. T = Nat
  BY <1>1, <1>2, <1>3, SetInduction
<1> QED BY <1>4 DEF T

(* Filtered boards are boards of the pool, none twice, and all of them when*)
(* all were seen.                                                          *)
Filtered(s, seen, n) ==
  /\ s \in Seq(Hardware) /\ Len(s) <= n
  /\ \A i \in 1..Len(s) : \E k \in 1..n : s[i] = Pool[k]
  /\ PoolDistinct => \A i, j \in 1..Len(s) : s[i] = s[j] => i = j
  /\ Len(s) = n => \A i \in 1..n : s[i] = Pool[i]
  /\ (\A k \in 1..n : Pool[k] \in seen) => Len(s) = n

(* By induction over the pool.                                             *)
LEMMA FilterShape ==
  ASSUME NEW seen, NEW f, Filters(f, seen, Len(Pool))
  PROVE  Filtered(f[Len(Pool)], seen, Len(Pool))
<1> DEFINE T == {n \in Nat : n <= Len(Pool) => Filtered(f[n], seen, n)}
<1>0. Len(Pool) \in Nat /\ \A k \in 1..Len(Pool) : Pool[k] \in Hardware
  BY ProvisioningAssumption
<1>1. 0 \in T
  <2>1. f[0] = << >>
    BY <1>0, FilterStep
  <2>2. Filtered(<< >>, seen, 0)
    BY EmptySeq DEF Filtered
  <2> QED BY <2>1, <2>2
<1>2. ASSUME NEW n \in T PROVE n + 1 \in T
  <2> SUFFICES ASSUME n + 1 <= Len(Pool) PROVE Filtered(f[n + 1], seen, n + 1)
    OBVIOUS
  <2>0. n \in Nat /\ n + 1 \in 1..Len(Pool) /\ Pool[n + 1] \in Hardware
    BY <1>0
  <2>1. PICK s : s = f[n] /\ Filtered(s, seen, n)
    BY <1>0, <2>0
  <2>2. f[n + 1] = IF Pool[n + 1] \in seen THEN Append(s, Pool[n + 1]) ELSE s
    BY <1>0, <2>0, <2>1, FilterStep
  <2>3. CASE Pool[n + 1] \in seen
    <3>1. PICK u : u = Append(s, Pool[n + 1])
      OBVIOUS
    <3>2. /\ u \in Seq(Hardware) /\ Len(u) = Len(s) + 1 /\ Len(s) \in Nat
          /\ \A i \in 1..Len(s) : u[i] = s[i]
          /\ u[Len(s) + 1] = Pool[n + 1]
      <4>1. s \in Seq(Hardware) /\ Pool[n + 1] \in Hardware
        BY <2>0, <2>1 DEF Filtered
      <4> HIDE DEF Filtered
      <4> QED BY <3>1, <4>1, AppendProperties
    <3>3. ASSUME NEW i \in 1..Len(u)
          PROVE  \E k \in 1..(n + 1) : u[i] = Pool[k]
      <4>1. CASE i = Len(s) + 1
        BY <2>0, <3>2, <4>1
      <4>2. CASE i \in 1..Len(s)
        <5>1. PICK k \in 1..n : s[i] = Pool[k]
          BY <2>1, <4>2 DEF Filtered
        <5> QED BY <2>0, <3>2, <4>2, <5>1
      <4> QED BY <3>2, <4>1, <4>2
    <3>4. ASSUME PoolDistinct, NEW i \in 1..Len(u), NEW j \in 1..Len(u), u[i] = u[j]
          PROVE  i = j
      <4>1. ASSUME NEW x \in 1..Len(s) PROVE s[x] # Pool[n + 1]
        <5>1. PICK k \in 1..n : s[x] = Pool[k]
          BY <2>1 DEF Filtered
        <5>2. k \in DOMAIN Pool /\ n + 1 \in DOMAIN Pool /\ k # n + 1
          BY <1>0, <2>0
        <5> QED BY <3>4, <5>1, <5>2 DEF PoolDistinct
      <4>2. \A x, y \in 1..Len(s) : s[x] = s[y] => x = y
        BY <2>1, <3>4 DEF Filtered
      <4>3. \A x \in 1..Len(u) : \/ x = Len(s) + 1 /\ u[x] = Pool[n + 1]
                                 \/ x \in 1..Len(s) /\ u[x] = s[x]
        BY <3>2
      <4> HIDE DEF T
      <4> QED BY ONLY <3>4, <4>1, <4>2, <4>3
    <3>5. Len(u) = n + 1 => \A i \in 1..(n + 1) : u[i] = Pool[i]
      BY <2>0, <2>1, <3>2 DEF Filtered
    <3>6. (\A k \in 1..(n + 1) : Pool[k] \in seen) => Len(u) = n + 1
      BY <2>0, <2>1, <3>2 DEF Filtered
    <3>7. Len(u) <= n + 1
      BY <2>0, <2>1, <3>2 DEF Filtered
    <3>8. Filtered(u, seen, n + 1)
      BY <3>2, <3>3, <3>4, <3>5, <3>6, <3>7, Zenon DEF Filtered
    <3> QED BY <2>2, <2>3, <3>1, <3>8
  <2>4. CASE Pool[n + 1] \notin seen
    <3>1. Len(s) \in Nat
      BY <2>1 DEF Filtered
    <3> QED BY <2>0, <2>1, <2>2, <2>4, <3>1 DEF Filtered
  <2> QED BY <2>3, <2>4
<1> HIDE DEF T
<1>3. T \subseteq Nat
  BY DEF T
<1>4. T = Nat
  BY <1>1, <1>2, <1>3, SetInduction
<1> QED BY <1>0, <1>4 DEF T

(* What discover() hands to the dynamic assignment (setup_tool.py:298).    *)
LEMMA AvailableShape == Filtered(Available, tool.seen, Len(Pool))
<1>1. Len(Pool) \in Nat
  BY ProvisioningAssumption
<1>2. PICK f : f = CHOOSE g : Filters(g, tool.seen, Len(Pool))
  OBVIOUS
<1>3. Filters(f, tool.seen, Len(Pool))
  BY <1>1, <1>2, FilterExists
<1>4. Available = f[Len(Pool)]
  BY <1>2, Zenon DEF Available, Filters
<1> QED BY <1>3, <1>4, FilterShape

-----------------------------------------------------------------------------
(* The session, field by field.                                            *)
Provisioning(t) == t.phase \in {"send", "await"}
Planning(t) == t.phase \in {"send", "await", "done"}

(* What only a new session changes.                                        *)
Kept(t, u) == /\ u.session = t.session /\ u.roles = t.roles
              /\ u.seen = t.seen /\ u.boards = t.boards

(* The same device is sent message seq, for the try-th time.               *)
Stays(t, u, phase, seq, try) ==
  /\ u \in Tool /\ Kept(t, u) /\ u.ok = t.ok /\ u.at = t.at
  /\ u.phase = phase /\ u.seq = seq /\ u.try = try

(* The tool is through with a device, ok being those configured by then.   *)
Leaves(t, u, ok) ==
  /\ u \in Tool /\ Kept(t, u) /\ u.ok = ok
  /\ \/ /\ t.at < Len(t.roles)
        /\ u.phase = "send" /\ u.at = t.at + 1 /\ u.seq = 0 /\ u.try = 0
     \/ /\ t.at >= Len(t.roles) /\ u.at = t.at
        /\ u.phase = "done" /\ \A i \in 1..Len(t.roles) : t.boards[i] \in ok
     \/ /\ t.at >= Len(t.roles) /\ u.at = t.at
        /\ u.phase = "failed" /\ \E i \in 1..Len(t.roles) : t.boards[i] \notin ok

(* provision_device returned: the next device, or the end of the session.  *)
LEMMA NextDeviceFields ==
  ASSUME NEW t \in Tool, t.roles = tool.roles
  PROVE  Leaves(t, NextDevice(t), t.ok)
<1>1. /\ t.at \in Nat /\ Len(t.roles) \in Nat /\ t.at + 1 \in Nat
      /\ 0 \in 0..Retries
  BY ProvisioningAssumption DEF Tool
<1>2. ASSUME t.at < Needed
      PROVE  Leaves(t, NextDevice(t), t.ok)
  <2>1. PICK u : u = [t EXCEPT !.phase = "send", !.at = t.at + 1, !.seq = 0,
                               !.try = 0]
    OBVIOUS
  <2>2. u \in Tool
    BY <1>1, <2>1 DEF Tool
  <2>3. Kept(t, u) /\ u.ok = t.ok /\ u.phase = "send" /\ u.at = t.at + 1
        /\ u.seq = 0 /\ u.try = 0
    BY <2>1 DEF Tool, Kept
  <2>4. NextDevice(t) = u
    BY <1>2, <2>1 DEF NextDevice
  <2> QED BY <1>2, <2>2, <2>3, <2>4 DEF Leaves, Needed
<1>3. ASSUME ~(t.at < Needed)
      PROVE  Leaves(t, NextDevice(t), t.ok)
  <2>1. PICK all \in BOOLEAN : all = \A i \in 1..Needed : t.boards[i] \in t.ok
    OBVIOUS
  <2>2. PICK u : u = [t EXCEPT !.phase = IF all THEN "done" ELSE "failed"]
    OBVIOUS
  <2>3. u \in Tool /\ Kept(t, u) /\ u.ok = t.ok /\ u.at = t.at
        /\ u.phase = IF all THEN "done" ELSE "failed"
    BY <2>2 DEF Tool, Kept
  <2>4. NextDevice(t) = u
    BY <1>3, <2>1, <2>2 DEF NextDevice
  <2> QED BY <1>1, <1>3, <2>1, <2>3, <2>4 DEF Leaves, Needed
<1> QED BY <1>2, <1>3

(* What the tool makes of a matching reply.                                *)
Judges(p, u) ==
  \/ p.op = "ACK" /\ Stays(tool, u, "send", tool.seq + 1, 0)
  \/ p.op = "NACK" /\ Leaves(tool, u, tool.ok)
  \/ /\ p.op = "COMMIT_REPLY"
     /\ Leaves(tool, u, IF Verified(p, Assigned) THEN tool.ok \cup {Board}
                        ELSE tool.ok)

LEMMA JudgedFields ==
  ASSUME tool \in Tool, Board \in Hardware, NEW p, Matches(p)
  PROVE  Judges(p, Judged(p))
<1>1. ASSUME p.op = "ACK" PROVE Judges(p, Judged(p))
  <2>1. PICK u : u = [tool EXCEPT !.phase = "send", !.seq = tool.seq + 1, !.try = 0]
    OBVIOUS
  <2>2. tool.seq + 1 \in Nat /\ 0 \in 0..Retries
    BY ProvisioningAssumption DEF Tool
  <2>3. Stays(tool, u, "send", tool.seq + 1, 0)
    BY <2>1, <2>2 DEF Tool, Stays, Kept
  <2>4. Judged(p) = u
    BY <1>1, <2>1 DEF Judged
  <2> QED BY <1>1, <2>3, <2>4 DEF Judges
<1>2. ASSUME p.op = "NACK" PROVE Judges(p, Judged(p))
  BY <1>2, NextDeviceFields DEF Judged, Judges
<1>3. ASSUME p.op = "COMMIT_REPLY" PROVE Judges(p, Judged(p))
  <2>1. PICK t : t = IF Verified(p, Assigned)
                     THEN [tool EXCEPT !.ok = tool.ok \cup {Board}] ELSE tool
    OBVIOUS
  <2>2. PICK ok : ok = IF Verified(p, Assigned) THEN tool.ok \cup {Board}
                       ELSE tool.ok
    OBVIOUS
  <2>3. t \in Tool /\ Kept(tool, t) /\ t.at = tool.at /\ t.ok = ok
    BY <2>1, <2>2 DEF Tool, Kept
  <2>4. Judged(p) = NextDevice(t)
    BY <1>3, <2>1 DEF Judged
  <2>5. Leaves(t, Judged(p), ok)
    BY <2>3, <2>4, NextDeviceFields DEF Kept
  <2>6. Leaves(tool, Judged(p), ok)
    BY <2>3, <2>5 DEF Leaves, Kept
  <2> QED BY <1>3, <2>2, <2>6 DEF Judges
<1> QED BY <1>1, <1>2, <1>3 DEF Matches

(* The plan of a session: one board for each role, none twice, and those   *)
(* configured so far are behind the device being provisioned.              *)
PlanOf(t) ==
  /\ t.roles \in Networks \cup {<< >>}
  /\ Planning(t) =>
       /\ Len(t.boards) = Len(t.roles) /\ Len(t.roles) <= Len(Pool)
       /\ PoolDistinct =>
            \A i, j \in 1..Len(t.roles) : t.boards[i] = t.boards[j] => i = j
       /\ ~Dynamic \/ Len(t.roles) = Len(Pool) =>
            \A i \in 1..Len(t.roles) : t.boards[i] = Pool[i]
  /\ t.phase = "discover" => t.ok = {}
  /\ Provisioning(t) => \A h \in t.ok : \E i \in 1..(t.at - 1) : t.boards[i] = h
  /\ t.phase = "done" => \A i \in 1..Len(t.roles) : t.boards[i] \in t.ok

(* The inductive invariant of TypeCorrect.                                 *)
SessionInv == ProvisioningInv /\ TypeOK /\ PlanOf(tool)

(* The device being provisioned has a role and a board, and the message    *)
(* being sent is one of its script.                                        *)
LEMMA AtDevice ==
  ASSUME SessionInv, Provisioning(tool)
  PROVE  /\ tool.at \in 1..Len(tool.roles) /\ tool.at \in 1..Needed
         /\ Len(tool.roles) \in Nat
         /\ Len(tool.boards) = Len(tool.roles)
         /\ Assigned \in Role /\ Board \in Hardware
         /\ tool.seq \in Nat /\ tool.seq + 1 \in 1..Len(Script(Assigned))
         /\ Len(Script(Assigned)) \in Nat
<1>1. /\ tool.at \in 1..Len(tool.roles) /\ tool.roles \in Seq(Role)
      /\ Len(tool.boards) = Len(tool.roles) /\ tool.boards \in Seq(Hardware)
      /\ tool.seq + 1 \in 1..Len(Script(tool.roles[tool.at])) /\ tool.seq \in Nat
  BY DEF SessionInv, TypeOK, ProvisioningInv, ToolOK, Sending, Tool, PlanOf,
     Provisioning, Planning
<1>2. tool.roles[tool.at] \in Role /\ tool.boards[tool.at] \in Hardware
      /\ Len(tool.roles) \in Nat
  BY <1>1, ElementOfSeq
<1>3. Len(Script(tool.roles[tool.at])) \in Nat
  BY <1>2, ScriptShape
<1> QED BY <1>1, <1>2, <1>3 DEF Assigned, Board, Needed

(* A new session starts from nothing.                                      *)
LEMMA StartFields ==
  ASSUME SessionInv, StartSession
  PROVE  /\ tool' \in Tool /\ PlanOf(tool')
         /\ tool'.phase = "discover" /\ tool'.session = tool.session + 1
         /\ tool'.ok = {} /\ tool'.roles \in Networks /\ tool'.try = 0
<1>1. PICK net \in Networks :
        tool' = [phase |-> "discover", session |-> tool.session + 1,
                 roles |-> net, seen |-> {}, boards |-> << >>, at |-> 1,
                 seq |-> 0, try |-> 0, ok |-> {}]
  BY DEF StartSession
<1>2. /\ net \in Seq(Role) /\ << >> \in Seq(Hardware) /\ 0 \in 0..Retries
      /\ tool.session + 1 \in 0..MaxSessions
  <2>1. net \in Seq(Role) /\ << >> \in Seq(Hardware)
    BY ProvisioningAssumption, EmptySeq
  <2>2. tool.session \in 0..MaxSessions /\ tool.session < MaxSessions
    BY DEF SessionInv, TypeOK, Tool, StartSession
  <2> QED BY <2>1, <2>2, ProvisioningAssumption
<1>3. tool' \in Tool
  BY <1>1, <1>2 DEF Tool
<1> QED BY <1>1, <1>3 DEF PlanOf, Provisioning, Planning

(* CloseWindow takes the first Needed of the boards it is offered.         *)
LEMMA CloseFields ==
  ASSUME SessionInv, CloseWindow
  PROVE  /\ tool' \in Tool /\ PlanOf(tool')
         /\ tool.phase = "discover" /\ tool'.phase \in {"failed", "send"}
         /\ tool'.session = tool.session /\ tool'.roles = tool.roles
         /\ tool'.ok = {} /\ tool'.at = 1 /\ tool'.seq = 0 /\ tool'.try = tool.try
<1> DEFINE offered == IF Dynamic THEN Available ELSE Pool
           short   == Len(offered) < Taken \/ Taken < Needed
<1>1. /\ tool \in Tool /\ tool.phase = "discover" /\ tool.ok = {}
      /\ tool.at = 1 /\ tool.seq = 0 /\ tool.roles \in Networks \cup {<< >>}
  BY DEF CloseWindow, SessionInv, TypeOK, PlanOf, ProvisioningInv, ToolOK
<1>2. Filtered(offered, IF Dynamic THEN tool.seen ELSE Hardware, Len(Pool))
  <2>1. Filtered(Pool, Hardware, Len(Pool))
    BY ProvisioningAssumption DEF Filtered, PoolDistinct
  <2> QED BY <2>1, AvailableShape
<1>3. tool' = IF short THEN [tool EXCEPT !.phase = "failed"]
              ELSE [tool EXCEPT !.phase = "send",
                                !.boards = SubSeq(offered, 1, Needed)]
  BY DEF CloseWindow
<1> HIDE DEF offered
<1>4. Needed \in Nat /\ Taken \in Nat /\ Len(Pool) \in Nat
  <2>1. Needed \in Nat
    BY <1>1 DEF Needed, Tool
  <2>2. IsFiniteSet(1..Needed)
    BY <2>1, FS_Interval
  <2> DEFINE working == {i \in 1..Needed : ~tool.roles[i].seed}
  <2>a. working \subseteq 1..Needed
    OBVIOUS
  <2> HIDE DEF working
  <2>3. Cardinality(working) \in Nat
    BY <2>2, <2>a, FS_Subset, FS_CardinalityType
  <2> USE DEF working
  <2> QED BY <2>1, <2>3, ProvisioningAssumption DEF Taken
<1>5. CASE short
  <2>1. PICK u : u = [tool EXCEPT !.phase = "failed"]
    OBVIOUS
  <2>2. /\ u \in Tool /\ u.phase = "failed"
        /\ u.session = tool.session /\ u.roles = tool.roles
        /\ u.ok = {} /\ u.at = 1 /\ u.seq = 0 /\ u.try = tool.try
    BY <1>1, <2>1 DEF Tool
  <2>3. PlanOf(u)
    BY <1>1, <2>2 DEF PlanOf, Provisioning, Planning
  <2> QED BY <1>1, <1>3, <1>5, <2>1, <2>2, <2>3
<1>6. CASE ~short
  <2>1. PICK b : b = SubSeq(offered, 1, Needed)
    OBVIOUS
  <2>2. /\ b \in Seq(Hardware) /\ Len(b) = Needed
        /\ \A i \in 1..Needed : b[i] = offered[i]
        /\ Needed <= Len(offered)
    BY <1>2, <1>4, <1>6, <2>1 DEF Filtered
  <2>3. PICK u : u = [tool EXCEPT !.phase = "send", !.boards = b]
    OBVIOUS
  <2>4. /\ u \in Tool /\ u.phase = "send"
        /\ u.session = tool.session /\ u.roles = tool.roles /\ u.boards = b
        /\ u.ok = {} /\ u.at = 1 /\ u.seq = 0 /\ u.try = tool.try
    BY <1>1, <2>2, <2>3 DEF Tool
  <2>5. ASSUME PoolDistinct, NEW i \in 1..Needed, NEW j \in 1..Needed, b[i] = b[j]
        PROVE  i = j
    BY <1>2, <1>4, <2>2, <2>5 DEF Filtered
  <2>6. ASSUME ~Dynamic \/ Needed = Len(Pool), NEW i \in 1..Needed
        PROVE  b[i] = Pool[i]
    <3>1. CASE ~Dynamic
      BY <2>2, <3>1 DEF offered
    <3>2. CASE Needed = Len(Pool)
      <4>1. Len(offered) = Len(Pool)
        BY <1>2, <1>4, <2>2, <3>2 DEF Filtered
      <4>2. offered[i] = Pool[i]
        BY <1>2, <3>2, <4>1 DEF Filtered
      <4> QED BY <2>2, <4>2
    <3> QED BY <2>6, <3>1, <3>2
  <2>7. Needed <= Len(Pool)
    BY <1>2, <1>4, <2>2 DEF Filtered
  <2>8. PlanOf(u)
    BY <1>1, <2>2, <2>4, <2>5, <2>6, <2>7 DEF PlanOf, Provisioning, Planning, Needed
  <2> QED BY <1>1, <1>3, <1>6, <2>1, <2>3, <2>4, <2>8
<1> QED BY <1>5, <1>6

(* Sending changes nothing of the session but that it waits.               *)
LEMMA SendFields ==
  ASSUME SessionInv, Send
  PROVE  /\ Stays(tool, tool', "await", tool.seq, tool.try) /\ PlanOf(tool')
         /\ tool.phase = "send"
<1>1. tool \in Tool /\ tool.phase = "send" /\ PlanOf(tool)
  BY DEF SessionInv, TypeOK, Send
<1>2. PICK u : tool' = u /\ u = [tool EXCEPT !.phase = "await"]
  BY DEF Send
<1>3. Stays(tool, u, "await", tool.seq, tool.try)
  BY <1>1, <1>2 DEF Tool, Stays, Kept
<1>4. PlanOf(u)
  BY <1>1, <1>3 DEF Stays, Kept, PlanOf, Provisioning, Planning
<1> QED BY <1>1, <1>2, <1>3, <1>4

(* Another message for the same device leaves the plan as it is.           *)
LEMMA StaysPlan ==
  ASSUME SessionInv, Provisioning(tool), NEW u, NEW phase, NEW seq, NEW try,
         phase \in {"send", "await"}, Stays(tool, u, phase, seq, try)
  PROVE  PlanOf(u)
BY DEF SessionInv, Stays, Kept, PlanOf, Provisioning, Planning

(* So does the next device, if only the one just left was configured.      *)
LEMMA LeavesPlan ==
  ASSUME SessionInv, Provisioning(tool), NEW u, NEW ok,
         tool.ok \subseteq ok, ok \subseteq tool.ok \cup {Board},
         Leaves(tool, u, ok)
  PROVE  PlanOf(u)
<1>1. /\ PlanOf(tool) /\ tool.at \in 1..Len(tool.roles) /\ Len(tool.roles) \in Nat
      /\ Kept(tool, u) /\ u.ok = ok
  BY AtDevice DEF SessionInv, Leaves
<1>2. CASE u.phase = "send" /\ u.at = tool.at + 1
  <2>1. ASSUME NEW h \in ok PROVE \E i \in 1..(u.at - 1) : u.boards[i] = h
    <3>1. CASE h \in tool.ok
      BY <1>1, <1>2, <3>1 DEF PlanOf, Provisioning, Kept
    <3>2. CASE h = Board
      BY <1>1, <1>2, <3>2 DEF Board, Kept
    <3> QED BY <3>1, <3>2
  <2> QED BY <1>1, <1>2, <2>1 DEF PlanOf, Provisioning, Planning, Kept
<1>3. CASE /\ u.phase = "done" /\ \A i \in 1..Len(tool.roles) : tool.boards[i] \in ok
  BY <1>1, <1>3 DEF PlanOf, Provisioning, Planning, Kept
<1>4. CASE u.phase = "failed"
  BY <1>1, <1>4 DEF PlanOf, Provisioning, Planning, Kept
<1> QED BY <1>2, <1>3, <1>4 DEF Leaves

(* Every tool state a reply or a timeout leads to sends START if it is the *)
(* last of a successful session.                                           *)
Announces == down' = IF tool'.phase = "done" THEN down \cup StartMessages ELSE down

(* A reply is judged if it is the one awaited and dropped if not.          *)
LEMMA ReceiveFields ==
  ASSUME SessionInv, LaptopReceive
  PROVE  \E p \in up :
           /\ up' = up \ {p}
           /\ \/ ~(tool.phase = "await" /\ Matches(p)) /\ UNCHANGED <<tool, down>>
              \/ /\ tool.phase = "await" /\ Matches(p)
                 /\ Judges(p, tool') /\ PlanOf(tool') /\ tool' \in Tool /\ Announces
<1>1. PICK p \in up :
        /\ up' = up \ {p}
        /\ IF tool.phase = "await" /\ Matches(p) THEN Advance(Judged(p))
           ELSE UNCHANGED <<tool, down>>
  BY DEF LaptopReceive
<1>2. CASE tool.phase = "await" /\ Matches(p)
  <2>1. Provisioning(tool) /\ tool \in Tool /\ Board \in Hardware
    BY <1>2, AtDevice DEF Provisioning, SessionInv, TypeOK
  <2>2. tool' = Judged(p) /\ Announces
    BY <1>1, <1>2 DEF Advance, Announces
  <2>3. Judges(p, tool')
    BY <1>2, <2>1, <2>2, JudgedFields
  <2>4. PICK u : u = tool' /\ Judges(p, u)
    BY <2>3
  <2>5. PlanOf(u) /\ u \in Tool
    <3>1. ASSUME Stays(tool, u, "send", tool.seq + 1, 0) PROVE PlanOf(u) /\ u \in Tool
      BY <2>1, <3>1, StaysPlan DEF Stays
    <3>2. ASSUME NEW ok, tool.ok \subseteq ok, ok \subseteq tool.ok \cup {Board},
                 Leaves(tool, u, ok)
          PROVE  PlanOf(u) /\ u \in Tool
      BY <2>1, <3>2, LeavesPlan DEF Leaves
    <3> QED BY <2>4, <3>1, <3>2 DEF Judges
  <2> QED BY <1>1, <1>2, <2>2, <2>3, <2>4, <2>5
<1>3. CASE ~(tool.phase = "await" /\ Matches(p))
  BY <1>1, <1>3
<1> QED BY <1>2, <1>3

(* A timeout retries or gives the device up.                               *)
LEMMA TimeoutFields ==
  ASSUME SessionInv, Timeout
  PROVE  /\ tool' \in Tool /\ PlanOf(tool') /\ Announces
         /\ tool.phase = "await" /\ TimedOut
         /\ \/ tool.try < Retries /\ Stays(tool, tool', "send", tool.seq, tool.try + 1)
            \/ tool.try >= Retries /\ Leaves(tool, tool', tool.ok)
<1>1. /\ tool.phase = "await" /\ TimedOut /\ Announces
      /\ tool' = IF tool.try < Retries
                 THEN [tool EXCEPT !.phase = "send", !.try = @ + 1]
                 ELSE NextDevice(tool)
  BY DEF Timeout, Advance, Announces
<1>2. tool \in Tool /\ Provisioning(tool) /\ tool.try \in Nat /\ Retries \in Nat
  BY <1>1, ProvisioningAssumption DEF SessionInv, TypeOK, Provisioning, Tool
<1>3. CASE tool.try < Retries
  <2>1. PICK u : u = [tool EXCEPT !.phase = "send", !.try = tool.try + 1]
    OBVIOUS
  <2>2. tool.try + 1 \in 0..Retries
    BY <1>2, <1>3
  <2>3. Stays(tool, u, "send", tool.seq, tool.try + 1)
    BY <1>2, <2>1, <2>2 DEF Tool, Stays, Kept
  <2>4. tool' = u
    BY <1>1, <1>3, <2>1
  <2>5. PlanOf(u)
    BY <1>2, <2>3, StaysPlan
  <2>6. u \in Tool
    BY <2>3 DEF Stays
  <2> QED BY <1>1, <1>3, <2>3, <2>4, <2>5, <2>6
<1>4. CASE tool.try >= Retries
  <2>1. PICK u : u = NextDevice(tool)
    OBVIOUS
  <2>2. Leaves(tool, u, tool.ok) /\ u \in Tool
    BY <1>2, <2>1, NextDeviceFields DEF Leaves
  <2>3. PlanOf(u)
    BY <1>2, <2>2, LeavesPlan
  <2>4. tool' = u
    <3>1. ~(tool.try < Retries)
      BY <1>2, <1>4
    <3> QED BY <1>1, <2>1, <3>1
  <2> QED BY <1>1, <1>4, <2>2, <2>3, <2>4
<1> QED BY <1>2, <1>3, <1>4

(* An announcement only adds to the boards seen.                           *)
LEMMA HelloFields ==
  ASSUME SessionInv, NEW h \in Hardware, Hello(h)
  PROVE  /\ tool' \in Tool /\ PlanOf(tool')
         /\ tool.phase = "discover" /\ tool'.phase = "discover"
         /\ tool'.session = tool.session /\ tool'.roles = tool.roles
         /\ tool'.ok = {} /\ tool'.try = tool.try
<1>1. tool \in Tool /\ tool.phase = "discover" /\ PlanOf(tool)
  BY DEF SessionInv, TypeOK, Hello
<1>2. PICK u : tool' = u /\ u = [tool EXCEPT !.seen = tool.seen \cup {h}]
  BY DEF Hello
<1>3. /\ u \in Tool /\ u.phase = "discover" /\ u.session = tool.session
      /\ u.roles = tool.roles /\ u.ok = tool.ok /\ u.try = tool.try
  BY <1>1, <1>2 DEF Tool
<1> QED BY <1>1, <1>2, <1>3 DEF PlanOf, Provisioning, Planning

-----------------------------------------------------------------------------
(* Where the messages of a script stand.                                   *)
Mark(op) == [op |-> op, chunk |-> 0]
BackupSlot(r) == IF r.backup THEN 1 ELSE 0
BackupChunks(r) == IF r.backup THEN r.bchunks ELSE 0
SeedSlot(r) == IF r.seed THEN 1 ELSE 0

(* Before the own and before the backup chunks, and before the input.      *)
OwnFrom(r) == 2 + BackupSlot(r)
BackupFrom(r) == OwnFrom(r) + r.chunks
SeedFrom(r) == BackupFrom(r) + BackupChunks(r)
LastSlot(r) == (SeedFrom(r) + SeedSlot(r)) + 1

(* The script of r, place by place.                                        *)
Laid(r, s) ==
  /\ Len(s) = LastSlot(r)
  /\ s[1] = Mark("ASSIGN_ADDRESS") /\ s[2] = Mark("TOPOLOGY_INFO")
  /\ r.backup => s[3] = Mark("BACKUP_ROLE_INFO")
  /\ \A i \in 1..r.chunks :
       s[OwnFrom(r) + i] = [op |-> "WEIGHTS_CHUNK", chunk |-> i - 1]
  /\ \A i \in 1..BackupChunks(r) :
       s[BackupFrom(r) + i] = [op |-> "BACKUP_WEIGHTS_CHUNK", chunk |-> i - 1]
  /\ r.seed => s[SeedFrom(r) + 1] = Mark("INPUT_VALUE")
  /\ s[LastSlot(r)] = Mark("COMMIT_REQUEST")

(* u is s followed by t.                                                   *)
Joined(s, t, u) ==
  /\ u \in Seq(Emission) /\ Len(u) = Len(s) + Len(t)
  /\ \A i \in 1..Len(s) : u[i] = s[i]
  /\ \A i \in 1..Len(t) : u[Len(s) + i] = t[i]

LEMMA Joining ==
  ASSUME NEW s \in Seq(Emission), NEW t \in Seq(Emission)
  PROVE  Joined(s, t, s \o t)
<1>1. PICK u : u = s \o t
  OBVIOUS
<1>2. u \in Seq(Emission) /\ Len(u) = Len(s) + Len(t)
  BY <1>1, ConcatProperties
<1>3. \A i \in 1..Len(s) : u[i] = s[i]
  BY <1>1, ConcatProperties
<1>4. \A i \in 1..Len(t) : u[Len(s) + i] = t[i]
  BY <1>1
<1> QED BY <1>1, <1>2, <1>3, <1>4 DEF Joined

(* The places are numbers, in this order.                                  *)
LEMMA SlotsType ==
  ASSUME NEW r \in Role
  PROVE  /\ r.chunks \in Nat /\ r.bchunks \in Nat
         /\ BackupSlot(r) \in 0..1 /\ SeedSlot(r) \in 0..1
         /\ BackupChunks(r) \in Nat /\ OwnFrom(r) \in Nat /\ OwnFrom(r) >= 2
         /\ BackupFrom(r) \in Nat /\ SeedFrom(r) \in Nat /\ LastSlot(r) \in Nat
         /\ OwnFrom(r) = 2 + BackupSlot(r) /\ BackupFrom(r) = OwnFrom(r) + r.chunks
         /\ SeedFrom(r) = BackupFrom(r) + BackupChunks(r)
         /\ LastSlot(r) = (SeedFrom(r) + SeedSlot(r)) + 1
         /\ r.backup => BackupSlot(r) = 1 /\ BackupChunks(r) = r.bchunks
         /\ r.seed => SeedSlot(r) = 1
         /\ r.backup \in BOOLEAN /\ r.seed \in BOOLEAN
         /\ r.chunks <= MaxChunks /\ r.bchunks <= MaxChunks
         /\ ~r.backup => BackupSlot(r) = 0 /\ BackupChunks(r) = 0
         /\ ~r.seed => SeedSlot(r) = 0
<1>1. /\ r.chunks \in 0..MaxChunks /\ r.bchunks \in 0..MaxChunks
      /\ r.backup \in BOOLEAN /\ r.seed \in BOOLEAN /\ MaxChunks \in Nat
  BY RoleAssumption DEF IsRole
<1>2. BackupSlot(r) \in 0..1 /\ SeedSlot(r) \in 0..1 /\ BackupChunks(r) \in Nat
  BY <1>1 DEF BackupSlot, SeedSlot, BackupChunks
<1>3. OwnFrom(r) \in Nat /\ OwnFrom(r) >= 2 /\ OwnFrom(r) = 2 + BackupSlot(r)
  BY <1>2 DEF OwnFrom
<1>4. BackupFrom(r) \in Nat /\ BackupFrom(r) = OwnFrom(r) + r.chunks
  BY <1>1, <1>3 DEF BackupFrom
<1>5. SeedFrom(r) \in Nat /\ SeedFrom(r) = BackupFrom(r) + BackupChunks(r)
  BY <1>2, <1>4 DEF SeedFrom
<1>6. LastSlot(r) \in Nat /\ LastSlot(r) = (SeedFrom(r) + SeedSlot(r)) + 1
  BY <1>2, <1>5 DEF LastSlot
<1>7. /\ r.backup => BackupSlot(r) = 1 /\ BackupChunks(r) = r.bchunks
      /\ r.seed => SeedSlot(r) = 1
      /\ ~r.backup => BackupSlot(r) = 0 /\ BackupChunks(r) = 0
      /\ ~r.seed => SeedSlot(r) = 0
  BY DEF BackupSlot, BackupChunks, SeedSlot
<1> QED BY <1>1, <1>2, <1>3, <1>4, <1>5, <1>6, <1>7

(* build_device_packets appends in this order (setup_tool.py:72-163).      *)
LEMMA ScriptLaid ==
  ASSUME NEW r \in Role
  PROVE  Laid(r, Script(r))
<1> DEFINE backup  == IF r.backup THEN One("BACKUP_ROLE_INFO") ELSE << >>
           own     == Chunks("WEIGHTS_CHUNK", r.chunks)
           weights == IF r.backup THEN Chunks("BACKUP_WEIGHTS_CHUNK", r.bchunks)
                      ELSE << >>
           input   == IF r.seed THEN One("INPUT_VALUE") ELSE << >>
           assign  == One("ASSIGN_ADDRESS")
           wiring  == One("TOPOLOGY_INFO")
           commit  == One("COMMIT_REQUEST")
           p1 == assign \o wiring
           p2 == p1 \o backup
           p3 == p2 \o own
           p4 == p3 \o weights
           p5 == p4 \o input
           p6 == p5 \o commit
<1>0. /\ r.chunks \in Nat /\ r.bchunks \in Nat
      /\ << >> \in Seq(Emission) /\ Len(<< >>) = 0
  BY SlotsType, EmptySeq
<1>1. /\ assign \in Seq(Emission) /\ Len(assign) = 1 /\ assign[1] = Mark("ASSIGN_ADDRESS")
      /\ wiring \in Seq(Emission) /\ Len(wiring) = 1 /\ wiring[1] = Mark("TOPOLOGY_INFO")
      /\ commit \in Seq(Emission) /\ Len(commit) = 1 /\ commit[1] = Mark("COMMIT_REQUEST")
  BY DEF One, Emission, Setup, Mark
<1>2. /\ backup \in Seq(Emission) /\ Len(backup) = BackupSlot(r)
      /\ r.backup => backup[1] = Mark("BACKUP_ROLE_INFO")
  <2>1. CASE r.backup
    <3>1. backup = One("BACKUP_ROLE_INFO") /\ BackupSlot(r) = 1
      BY <2>1, SlotsType
    <3> HIDE DEF backup
    <3> QED BY <3>1 DEF One, Emission, Setup, Mark
  <2>2. CASE ~r.backup
    <3>1. backup = << >> /\ BackupSlot(r) = 0
      BY <2>2, SlotsType
    <3> HIDE DEF backup
    <3> QED BY <1>0, <2>2, <3>1
  <2> QED BY <2>1, <2>2
<1>3. /\ input \in Seq(Emission) /\ Len(input) = SeedSlot(r)
      /\ r.seed => input[1] = Mark("INPUT_VALUE")
  <2>1. CASE r.seed
    <3>1. input = One("INPUT_VALUE") /\ SeedSlot(r) = 1
      BY <2>1, SlotsType
    <3> HIDE DEF input
    <3> QED BY <3>1 DEF One, Emission, Setup, Mark
  <2>2. CASE ~r.seed
    <3>1. input = << >> /\ SeedSlot(r) = 0
      BY <2>2, SlotsType
    <3> HIDE DEF input
    <3> QED BY <1>0, <2>2, <3>1
  <2> QED BY <2>1, <2>2
<1>4. /\ own \in Seq(Emission) /\ Len(own) = r.chunks
      /\ \A i \in 1..r.chunks : own[i] = [op |-> "WEIGHTS_CHUNK", chunk |-> i - 1]
  BY <1>0, ChunksType DEF Setup, Chunks
<1>5. /\ weights \in Seq(Emission) /\ Len(weights) = BackupChunks(r)
      /\ \A i \in 1..BackupChunks(r) :
           weights[i] = [op |-> "BACKUP_WEIGHTS_CHUNK", chunk |-> i - 1]
  <2>1. CASE r.backup
    <3>1. weights = Chunks("BACKUP_WEIGHTS_CHUNK", r.bchunks) /\ BackupChunks(r) = r.bchunks
      BY <2>1, SlotsType
    <3>2. weights \in Seq(Emission) /\ Len(weights) = BackupChunks(r)
      BY <1>0, <3>1, ChunksType DEF Setup
    <3> HIDE DEF weights
    <3> QED BY <3>1, <3>2 DEF Chunks
  <2>2. CASE ~r.backup
    <3>1. weights = << >> /\ BackupChunks(r) = 0
      BY <2>2, SlotsType
    <3> HIDE DEF weights
    <3> QED BY <1>0, <3>1
  <2> QED BY <2>1, <2>2
<1> HIDE DEF backup, own, weights, input, assign, wiring, commit
<1>6. Joined(assign, wiring, p1)
  BY <1>1, Joining
<1>7. Joined(p1, backup, p2)
  <2> HIDE DEF p1
  <2> QED BY <1>2, <1>6, Joining DEF Joined
<1>8. Joined(p2, own, p3)
  <2> HIDE DEF p2
  <2> QED BY <1>4, <1>7, Joining DEF Joined
<1>9. Joined(p3, weights, p4)
  <2> HIDE DEF p3
  <2> QED BY <1>5, <1>8, Joining DEF Joined
<1>10. Joined(p4, input, p5)
  <2> HIDE DEF p4
  <2> QED BY <1>3, <1>9, Joining DEF Joined
<1>11. Joined(p5, commit, p6)
  <2> HIDE DEF p5
  <2> QED BY <1>1, <1>10, Joining DEF Joined
<1>12. Script(r) = p6
  BY DEF Script, p1, p2, p3, p4, p5, p6, backup, own, weights, input, assign,
     wiring, commit
<1> HIDE DEF p1, p2, p3, p4, p5, p6
<1>13. Len(p1) = 2 /\ p1[1] = Mark("ASSIGN_ADDRESS") /\ p1[2] = Mark("TOPOLOGY_INFO")
  BY <1>1, <1>6 DEF Joined
<1>14. /\ Len(p2) = OwnFrom(r)
       /\ p2[1] = Mark("ASSIGN_ADDRESS") /\ p2[2] = Mark("TOPOLOGY_INFO")
       /\ r.backup => p2[3] = Mark("BACKUP_ROLE_INFO")
  BY <1>2, <1>7, <1>13, SlotsType DEF Joined
<1>15. /\ Len(p3) = BackupFrom(r)
       /\ \A i \in 1..OwnFrom(r) : p3[i] = p2[i]
       /\ \A i \in 1..r.chunks :
            p3[OwnFrom(r) + i] = [op |-> "WEIGHTS_CHUNK", chunk |-> i - 1]
  <2>1. /\ Len(p3) = OwnFrom(r) + r.chunks
        /\ \A i \in 1..OwnFrom(r) : p3[i] = p2[i]
        /\ \A i \in 1..r.chunks : p3[OwnFrom(r) + i] = own[i]
    BY <1>4, <1>8, <1>14 DEF Joined
  <2> QED BY <1>4, <2>1, SlotsType
<1>16. /\ Len(p4) = SeedFrom(r)
       /\ \A i \in 1..BackupFrom(r) : p4[i] = p3[i]
       /\ \A i \in 1..BackupChunks(r) :
            p4[BackupFrom(r) + i] = [op |-> "BACKUP_WEIGHTS_CHUNK", chunk |-> i - 1]
  <2>1. /\ Len(p4) = BackupFrom(r) + BackupChunks(r)
        /\ \A i \in 1..BackupFrom(r) : p4[i] = p3[i]
        /\ \A i \in 1..BackupChunks(r) : p4[BackupFrom(r) + i] = weights[i]
    BY <1>5, <1>9, <1>15 DEF Joined
  <2> QED BY <1>5, <2>1, SlotsType
<1>17. /\ Len(p5) = SeedFrom(r) + SeedSlot(r)
       /\ \A i \in 1..SeedFrom(r) : p5[i] = p4[i]
       /\ r.seed => p5[SeedFrom(r) + 1] = Mark("INPUT_VALUE")
  <2>1. /\ Len(p5) = SeedFrom(r) + SeedSlot(r)
        /\ \A i \in 1..SeedFrom(r) : p5[i] = p4[i]
        /\ \A i \in 1..SeedSlot(r) : p5[SeedFrom(r) + i] = input[i]
    BY <1>3, <1>10, <1>16 DEF Joined
  <2>2. r.seed => 1 \in 1..SeedSlot(r)
    BY SlotsType
  <2> QED BY <1>3, <2>1, <2>2
<1>18. /\ Len(p6) = LastSlot(r)
       /\ \A i \in 1..(SeedFrom(r) + SeedSlot(r)) : p6[i] = p5[i]
       /\ p6[LastSlot(r)] = Mark("COMMIT_REQUEST")
  BY <1>1, <1>11, <1>17, SlotsType DEF Joined
<1>19. \A i \in 1..SeedFrom(r) : p6[i] = p4[i]
  <2>1. 1..SeedFrom(r) \subseteq 1..(SeedFrom(r) + SeedSlot(r))
    BY SlotsType
  <2> QED BY <1>17, <1>18, <2>1
<1>20. \A i \in 1..BackupFrom(r) : p6[i] = p3[i]
  <2>1. 1..BackupFrom(r) \subseteq 1..SeedFrom(r)
    BY SlotsType
  <2> QED BY <1>16, <1>19, <2>1
<1>21. \A i \in 1..OwnFrom(r) : p6[i] = p2[i]
  <2>1. 1..OwnFrom(r) \subseteq 1..BackupFrom(r)
    BY SlotsType
  <2> QED BY <1>15, <1>20, <2>1
<1>22. /\ p6[1] = Mark("ASSIGN_ADDRESS") /\ p6[2] = Mark("TOPOLOGY_INFO")
       /\ r.backup => p6[3] = Mark("BACKUP_ROLE_INFO")
  BY <1>14, <1>21, SlotsType
<1>23. ASSUME NEW i \in 1..r.chunks
       PROVE  p6[OwnFrom(r) + i] = [op |-> "WEIGHTS_CHUNK", chunk |-> i - 1]
  <2>1. OwnFrom(r) + i \in 1..BackupFrom(r)
    BY SlotsType
  <2> QED BY <1>15, <1>20, <2>1
<1>24. ASSUME NEW i \in 1..BackupChunks(r)
       PROVE  p6[BackupFrom(r) + i] = [op |-> "BACKUP_WEIGHTS_CHUNK", chunk |-> i - 1]
  <2>1. BackupFrom(r) + i \in 1..SeedFrom(r)
    BY SlotsType
  <2> QED BY <1>16, <1>19, <2>1
<1>25. r.seed => p6[SeedFrom(r) + 1] = Mark("INPUT_VALUE")
  BY <1>17, <1>18, SlotsType
<1> QED BY <1>12, <1>18, <1>22, <1>23, <1>24, <1>25 DEF Laid

(* e is the message at place i of the script of r.                         *)
Stands(r, i, e) ==
  \/ e.op = "ASSIGN_ADDRESS" /\ i = 1
  \/ e.op = "TOPOLOGY_INFO" /\ i = 2
  \/ e.op = "BACKUP_ROLE_INFO" /\ r.backup /\ i = 3
  \/ /\ e.op = "WEIGHTS_CHUNK" /\ e.chunk \in FirstChunks(r.chunks)
     /\ i = (OwnFrom(r) + e.chunk) + 1
  \/ /\ e.op = "BACKUP_WEIGHTS_CHUNK" /\ r.backup
     /\ e.chunk \in FirstChunks(r.bchunks) /\ i = (BackupFrom(r) + e.chunk) + 1
  \/ e.op = "INPUT_VALUE" /\ r.seed /\ i = SeedFrom(r) + 1
  \/ e.op = "COMMIT_REQUEST" /\ i = LastSlot(r)

(* The place of a chunk gives its number.                                  *)
LEMMA Within ==
  ASSUME NEW o \in Int, NEW n \in Nat, NEW i \in (o + 1)..(o + n)
  PROVE  \E c \in 0..(n - 1) : i = (o + c) + 1 /\ i = o + (c + 1) /\ c + 1 \in 1..n
<1>1. (i - o) - 1 \in 0..(n - 1)
  OBVIOUS
<1> QED BY <1>1

(* A script has no other places.                                           *)
LEMMA Sections ==
  ASSUME NEW b \in {0, 1}, NEW n \in Nat, NEW k \in Nat, NEW d \in {0, 1},
         NEW o \in Int, NEW bf \in Int, NEW sf \in Int, NEW l \in Int,
         o = 2 + b, bf = o + n, sf = bf + k, l = (sf + d) + 1, NEW i \in 1..l
  PROVE  \/ i = 1 \/ i = 2 \/ (b = 1 /\ i = 3)
         \/ i \in (o + 1)..(o + n) \/ i \in (bf + 1)..(bf + k)
         \/ (d = 1 /\ i = sf + 1) \/ i = l
<1>0. i \in Int /\ i >= 1
  OBVIOUS
<1>1. CASE i <= o
  <2>1. CASE b = 0
    BY <1>0, <1>1, <2>1
  <2>2. CASE b = 1
    BY <1>0, <1>1, <2>2
  <2> QED BY <2>1, <2>2
<1>2. CASE i > o /\ i <= bf
  BY <1>2
<1>3. CASE i > bf /\ i <= sf
  BY <1>3
<1>4. CASE i > sf
  BY <1>4
<1> QED BY <1>1, <1>2, <1>3, <1>4

(* Every place of a script is one of them.                                 *)
LEMMA ScriptStands ==
  ASSUME NEW r \in Role, NEW i \in 1..Len(Script(r))
  PROVE  /\ Stands(r, i, Script(r)[i]) /\ Len(Script(r)) = LastSlot(r)
         /\ Script(r)[i].op \in Setup /\ Script(r)[i].chunk \in Chunk \cup {0}
<1>1. PICK s : s = Script(r)
  OBVIOUS
<1>2. Laid(r, s) /\ Len(s) = LastSlot(r)
  BY <1>1, ScriptLaid DEF Laid
<1> DEFINE good(e) == Stands(r, i, e) /\ e.op \in Setup /\ e.chunk \in Chunk \cup {0}
<1> SUFFICES good(s[i])
  BY <1>1, <1>2
<1>3. /\ BackupSlot(r) \in {0, 1} /\ SeedSlot(r) \in {0, 1}
      /\ r.chunks \in Nat /\ BackupChunks(r) \in Nat
      /\ OwnFrom(r) \in Int /\ BackupFrom(r) \in Int
      /\ SeedFrom(r) \in Int /\ LastSlot(r) \in Int
      /\ r.chunks <= MaxChunks /\ BackupChunks(r) <= MaxChunks /\ MaxChunks \in Nat
  <2>1. MaxChunks \in Nat
    BY RoleAssumption
  <2>2. BackupChunks(r) <= MaxChunks
    <3>1. CASE r.backup
      BY <3>1, SlotsType
    <3>2. CASE ~r.backup
      BY <2>1, <3>2, SlotsType
    <3> QED BY <3>1, <3>2
  <2> QED BY <2>1, <2>2, SlotsType
<1>4. CASE i = 1
  <2>1. s[i] = Mark("ASSIGN_ADDRESS")
    BY <1>2, <1>4 DEF Laid
  <2> QED BY <1>4, <2>1 DEF Stands, Mark, Setup
<1>5. CASE i = 2
  <2>1. s[i] = Mark("TOPOLOGY_INFO")
    BY <1>2, <1>5 DEF Laid
  <2> QED BY <1>5, <2>1 DEF Stands, Mark, Setup
<1>6. CASE r.backup /\ i = 3
  <2>1. s[i] = Mark("BACKUP_ROLE_INFO")
    BY <1>2, <1>6 DEF Laid
  <2> QED BY <1>6, <2>1 DEF Stands, Mark, Setup
<1>7. CASE i \in (OwnFrom(r) + 1)..(OwnFrom(r) + r.chunks)
  <2>1. PICK c \in 0..(r.chunks - 1) :
          /\ i = (OwnFrom(r) + c) + 1 /\ i = OwnFrom(r) + (c + 1)
          /\ c + 1 \in 1..r.chunks
    BY <1>3, <1>7, Within
  <2>2. s[i] = [op |-> "WEIGHTS_CHUNK", chunk |-> (c + 1) - 1]
    BY <1>2, <2>1 DEF Laid
  <2>3. (c + 1) - 1 = c /\ c \in Chunk
    BY <1>3 DEF Chunk
  <2> QED BY <2>1, <2>2, <2>3 DEF Stands, Setup, FirstChunks
<1>8. CASE i \in (BackupFrom(r) + 1)..(BackupFrom(r) + BackupChunks(r))
  <2>1. PICK c \in 0..(BackupChunks(r) - 1) :
          /\ i = (BackupFrom(r) + c) + 1 /\ i = BackupFrom(r) + (c + 1)
          /\ c + 1 \in 1..BackupChunks(r)
    BY <1>3, <1>8, Within
  <2>2. s[i] = [op |-> "BACKUP_WEIGHTS_CHUNK", chunk |-> (c + 1) - 1]
    BY <1>2, <2>1 DEF Laid
  <2>3. (c + 1) - 1 = c /\ c \in Chunk
    BY <1>3 DEF Chunk
  <2>4. r.backup /\ BackupChunks(r) = r.bchunks
    BY <2>1, SlotsType
  <2> QED BY <2>1, <2>2, <2>3, <2>4 DEF Stands, Setup, FirstChunks
<1>9. CASE r.seed /\ i = SeedFrom(r) + 1
  <2>1. s[i] = Mark("INPUT_VALUE")
    BY <1>2, <1>9 DEF Laid
  <2> QED BY <1>9, <2>1 DEF Stands, Mark, Setup
<1>10. CASE i = LastSlot(r)
  <2>1. s[i] = Mark("COMMIT_REQUEST")
    BY <1>2, <1>10 DEF Laid
  <2> QED BY <1>10, <2>1 DEF Stands, Mark, Setup
<1>11. /\ i \in 1..LastSlot(r)
       /\ OwnFrom(r) = 2 + BackupSlot(r) /\ BackupFrom(r) = OwnFrom(r) + r.chunks
       /\ SeedFrom(r) = BackupFrom(r) + BackupChunks(r)
       /\ LastSlot(r) = (SeedFrom(r) + SeedSlot(r)) + 1
  BY <1>1, <1>2, SlotsType
<1>12. \/ i = 1 \/ i = 2 \/ (BackupSlot(r) = 1 /\ i = 3)
       \/ i \in (OwnFrom(r) + 1)..(OwnFrom(r) + r.chunks)
       \/ i \in (BackupFrom(r) + 1)..(BackupFrom(r) + BackupChunks(r))
       \/ SeedSlot(r) = 1 /\ i = SeedFrom(r) + 1
       \/ i = LastSlot(r)
  <2>1. PICK b \in {0, 1} : b = BackupSlot(r)
    BY <1>3
  <2>2. PICK d \in {0, 1} : d = SeedSlot(r)
    BY <1>3
  <2>3. PICK n \in Nat, k \in Nat : n = r.chunks /\ k = BackupChunks(r)
    BY <1>3
  <2>4. PICK o \in Int, bf \in Int, sf \in Int, l \in Int :
          o = OwnFrom(r) /\ bf = BackupFrom(r) /\ sf = SeedFrom(r) /\ l = LastSlot(r)
    BY <1>3
  <2>5. o = 2 + b /\ bf = o + n /\ sf = bf + k /\ l = (sf + d) + 1 /\ i \in 1..l
    BY <1>11, <2>1, <2>2, <2>3, <2>4
  <2>6. \/ i = 1 \/ i = 2 \/ (b = 1 /\ i = 3)
        \/ i \in (o + 1)..(o + n) \/ i \in (bf + 1)..(bf + k)
        \/ (d = 1 /\ i = sf + 1) \/ i = l
    BY <2>5, Sections
  <2> QED BY <2>1, <2>2, <2>3, <2>4, <2>6
<1>13. /\ BackupSlot(r) = 1 => r.backup
       /\ SeedSlot(r) = 1 => r.seed
  BY DEF BackupSlot, SeedSlot
<1> QED BY <1>4, <1>5, <1>6, <1>7, <1>8, <1>9, <1>10, <1>12, <1>13

(* The message being sent.                                                 *)
LEMMA CurrentFields ==
  ASSUME SessionInv, Provisioning(tool)
  PROVE  /\ Stands(Assigned, tool.seq + 1, Current)
         /\ Len(Script(Assigned)) = LastSlot(Assigned)
         /\ Current.op \in Setup
         /\ CurrentMessage \in Message
         /\ CurrentMessage.op = Current.op /\ CurrentMessage.hw = Board
         /\ CurrentMessage.seq = SequenceNumber /\ CurrentMessage.role = Assigned
         /\ CurrentMessage.chunk = Current.chunk
<1>1. /\ Assigned \in Role /\ tool.seq + 1 \in 1..Len(Script(Assigned))
      /\ Board \in Hardware /\ tool.seq \in Nat
  BY AtDevice
<1>2. /\ Stands(Assigned, tool.seq + 1, Current)
      /\ Len(Script(Assigned)) = LastSlot(Assigned)
      /\ Current.op \in Setup /\ Current.chunk \in Chunk \cup {0}
  BY <1>1, ScriptStands DEF Current
<1>3. SequenceNumber \in 0..255
  <2>1. \A n \in Nat : n % 256 \in 0..255
    OBVIOUS
  <2> QED BY <1>1, <2>1 DEF SequenceNumber
<1>4. <<tool.session, tool.try>> \in Copy
  BY ProvisioningAssumption DEF SessionInv, TypeOK, Tool, Copy
<1>5. CurrentMessage \in Message
  BY <1>1, <1>2, <1>3, <1>4 DEF CurrentMessage, Message, AnyRole
<1> QED BY <1>2, <1>5 DEF CurrentMessage

LEMMA StartMessagesType ==
  ASSUME SessionInv
  PROVE  StartMessages \subseteq Message /\ \A m \in StartMessages : m.op = "START"
<1>1. tool.session \in Nat
  BY ProvisioningAssumption DEF SessionInv, TypeOK, Tool
<1> QED BY <1>1 DEF StartMessages, Message, AnyRole, Copy

-----------------------------------------------------------------------------
(* What a board answers.                                                   *)
SumOf(n, w) == [i \in FirstChunks(n) |-> w[i]]

(* The arrays the checksums are computed over.                             *)
LEMMA SumType ==
  ASSUME NEW n \in 0..MaxChunks, NEW w \in [Chunk -> AnyRole]
  PROVE  SumOf(n, w) \in Sums
<1>1. \A i \in 0..(n - 1) : i \in Chunk
  BY RoleAssumption DEF Chunk
<1>2. SumOf(n, w) \in [0..(n - 1) -> AnyRole]
  BY <1>1 DEF SumOf, FirstChunks
<1> QED BY <1>2 DEF Sums

LEMMA NoSumType == NoSum \in Sums
<1>1. NoSum \in [0..(0 - 1) -> AnyRole]
  BY DEF NoSum
<1> QED BY <1>1, RoleAssumption DEF Sums

(* p answers m as op.                                                      *)
Answers(p, m, op) ==
  /\ p \in Reply /\ p.op = op /\ p.hw = m.hw /\ p.seq = m.seq /\ p.about = m.op

LEMMA AckedFields ==
  ASSUME NEW m \in Message, m.op \in Setup
  PROVE  Answers(Acked(m), m, "ACK") /\ Answers(Nacked(m), m, "NACK")
<1>1. Answers(Acked(m), m, "ACK") /\ Acked(m).success = TRUE
  BY NoSumType DEF Acked, Answers, Message, Reply
<1>2. PICK a : a = Acked(m)
  OBVIOUS
<1>3. PICK n : n = [a EXCEPT !.op = "NACK", !.success = FALSE]
  OBVIOUS
<1>4. Answers(n, m, "NACK")
  BY <1>1, <1>2, <1>3 DEF Answers, Reply
<1> QED BY <1>1, <1>2, <1>3, <1>4 DEF Nacked

(* A commit succeeds if the board is VERIFYING, and reports what it        *)
(* stores.                                                                 *)
LEMMA CommitReplyFields ==
  ASSUME NEW a \in Agent, NEW m \in Message, m.op \in Setup
  PROVE  /\ Answers(CommitReply(a, m), m, "COMMIT_REPLY")
         /\ CommitReply(a, m).success = (a.state = "VERIFYING")
         /\ a.state = "VERIFYING" =>
              /\ CommitReply(a, m).sum = SumOf(a.topology.chunks, a.weights)
              /\ CommitReply(a, m).bsum =
                   IF a.hasBackup THEN SumOf(a.backup.bchunks, a.bweights) ELSE NoSum
<1>1. PICK k : k = Acked(m)
  OBVIOUS
<1>2. Answers(k, m, "ACK") /\ k.success = TRUE
  BY <1>1, AckedFields DEF Acked
<1>3. CASE a.state # "VERIFYING"
  <2>1. PICK p : p = [k EXCEPT !.op = "COMMIT_REPLY", !.success = FALSE]
    OBVIOUS
  <2>2. Answers(p, m, "COMMIT_REPLY") /\ p.success = FALSE
    BY <1>2, <2>1 DEF Answers, Reply
  <2>3. CommitReply(a, m) = p
    BY <1>1, <1>3, <2>1 DEF CommitReply
  <2> QED BY <1>3, <2>2, <2>3
<1>4. CASE a.state = "VERIFYING"
  <2>1. PICK sum : sum = SumOf(a.topology.chunks, a.weights)
    OBVIOUS
  <2>2. PICK bsum : bsum = IF a.hasBackup THEN SumOf(a.backup.bchunks, a.bweights)
                           ELSE NoSum
    OBVIOUS
  <2>3. /\ a.topology.chunks \in 0..MaxChunks /\ a.backup.bchunks \in 0..MaxChunks
        /\ a.weights \in [Chunk -> AnyRole] /\ a.bweights \in [Chunk -> AnyRole]
    BY RoleFields DEF Agent
  <2>4. sum \in Sums /\ bsum \in Sums
    BY <2>1, <2>2, <2>3, SumType, NoSumType
  <2>5. PICK p : p = [k EXCEPT !.op = "COMMIT_REPLY", !.sum = sum, !.bsum = bsum]
    OBVIOUS
  <2>6. /\ Answers(p, m, "COMMIT_REPLY") /\ p.success = TRUE
        /\ p.sum = sum /\ p.bsum = bsum
    BY <1>2, <2>4, <2>5 DEF Answers, Reply
  <2>7. CommitReply(a, m) = p
    BY <1>1, <1>4, <2>1, <2>2, <2>5 DEF CommitReply, SumOf
  <2> QED BY <1>4, <2>1, <2>2, <2>6, <2>7
<1> QED BY <1>3, <1>4

(* A board answers a message with one reply or none.                       *)
AnswerOp(m) == IF m.op = "COMMIT_REQUEST" THEN {"COMMIT_REPLY"} ELSE {"ACK", "NACK"}

LEMMA RepliesFields ==
  ASSUME NEW a \in Agent, NEW m \in Message
  PROVE  \/ Replies(a, m) = {}
         \/ /\ m.op \in Setup
            /\ \E p : /\ Replies(a, m) = {p}
                      /\ \E op \in AnswerOp(m) : Answers(p, m, op)
<1>1. CASE m.op = "START"
  BY <1>1 DEF Replies
<1>2. CASE m.op = "COMMIT_REQUEST"
  <2>1. m.op \in Setup /\ Replies(a, m) = {CommitReply(a, m)}
    BY <1>2 DEF Replies, Setup
  <2> QED BY <1>2, <2>1, CommitReplyFields DEF AnswerOp
<1>3. CASE m.op \in Setup \ {"COMMIT_REQUEST"}
  <2>1. Replies(a, m) \in {{}, {Acked(m)}, {Nacked(m)}}
    BY <1>3 DEF Replies, ChunkReply, Setup
  <2>2. Answers(Acked(m), m, "ACK") /\ Answers(Nacked(m), m, "NACK")
    BY <1>3, AckedFields
  <2> QED BY <1>3, <2>1, <2>2 DEF AnswerOp
<1> QED BY <1>1, <1>2, <1>3 DEF Message

-----------------------------------------------------------------------------
(* The types and the plan are kept.                                        *)
LEMMA AgentsOf ==
  ASSUME SessionInv, NEW h \in Hardware
  PROVE  agent[h] \in Agent /\ saved[h] \in Agent
BY DEF SessionInv, TypeOK

(* The three facts of TypeCorrect.                                         *)
LEMMA InitSession == Init => SessionInv
<1> SUFFICES ASSUME Init PROVE SessionInv
  OBVIOUS
<1>1. ProvisioningInv
  BY InitInv
<1>2. /\ << >> \in Seq(Role) /\ << >> \in Seq(Hardware) /\ 0 \in 0..Retries
      /\ 0 \in 0..MaxSessions /\ 0 \in 0..MaxLoss /\ 0 \in 0..MaxReboot
      /\ 0 \in 0..MaxLate
  BY ProvisioningAssumption, EmptySeq
<1>3. tool \in Tool
  BY <1>2 DEF Init, Tool
<1>4. TypeOK
  BY <1>2, <1>3, BlankOK DEF Init, TypeOK, AgentOK, Faults
<1>5. PlanOf(tool)
  BY DEF Init, PlanOf, Provisioning, Planning
<1> QED BY <1>1, <1>4, <1>5 DEF SessionInv

LEMMA NextSession == SessionInv /\ [Next]_vars => SessionInv'
<1> SUFFICES ASSUME SessionInv, [Next]_vars PROVE SessionInv'
  OBVIOUS
<1>0. ProvisioningInv' /\ TypeOK /\ PlanOf(tool)
  BY NextInv DEF SessionInv
<1> SUFFICES TypeOK' /\ PlanOf(tool')
  BY <1>0 DEF SessionInv
<1>a. agent' \in [Hardware -> Agent] /\ saved' \in [Hardware -> Agent]
  BY <1>0 DEF ProvisioningInv, Boards, AgentOK, SavedOK
<1>1. CASE StartSession
  BY <1>0, <1>1, <1>a, StartFields DEF StartSession, TypeOK
<1>2. CASE CloseWindow
  BY <1>0, <1>2, <1>a, CloseFields DEF CloseWindow, TypeOK
<1>3. CASE Send
  <2>1. Provisioning(tool)
    BY <1>3 DEF Send, Provisioning
  <2> QED BY <1>0, <1>3, <1>a, <2>1, SendFields, CurrentFields DEF Send, Stays, TypeOK
<1>4. CASE LaptopReceive
  <2>1. tool' \in Tool /\ PlanOf(tool')
    BY <1>0, <1>4, ReceiveFields DEF TypeOK
  <2>2. down' \subseteq down \cup StartMessages /\ up' \subseteq up
    BY <1>4, ReceiveFields DEF Announces
  <2> QED BY <1>0, <1>4, <1>a, <2>1, <2>2, StartMessagesType DEF LaptopReceive, TypeOK
<1>5. CASE Timeout
  <2>1. down' \subseteq down \cup StartMessages
    BY <1>5, TimeoutFields DEF Announces
  <2>2. faults' \in Faults
    BY <1>0, <1>5, ProvisioningAssumption DEF Timeout, TimedOut, TypeOK, Faults
  <2> QED BY <1>0, <1>5, <1>a, <2>1, <2>2, TimeoutFields, StartMessagesType
          DEF Timeout, TypeOK
<1>6. CASE Lose
  <2>1. faults' \in Faults
    BY <1>0, <1>6, ProvisioningAssumption DEF Lose, TypeOK, Faults
  <2> QED BY <1>0, <1>6, <1>a, <2>1 DEF Lose, TypeOK
<1>7. ASSUME NEW h \in Hardware, Hello(h) PROVE TypeOK' /\ PlanOf(tool')
  BY <1>0, <1>7, <1>a, HelloFields DEF Hello, TypeOK
<1>8. ASSUME NEW h \in Hardware, Receive(h) PROVE TypeOK' /\ PlanOf(tool')
  <2>1. PICK m \in down :
          /\ down' = down \ {m}
          /\ up' = IF Listening(h) THEN up \cup Replies(agent[h], m) ELSE up
    BY <1>8 DEF Receive
  <2>2. m \in Message /\ agent[h] \in Agent
    BY <1>0 DEF TypeOK
  <2>3. Replies(agent[h], m) \subseteq Reply
    BY <2>2, RepliesFields DEF Answers
  <2> QED BY <1>0, <1>8, <1>a, <2>1, <2>3 DEF Receive, TypeOK
<1>9. ASSUME NEW h \in Hardware, Reboot(h) PROVE TypeOK' /\ PlanOf(tool')
  <2>1. PICK B : B = BOOLEAN
    OBVIOUS
  <2>2. \E o \in B : faults' = [faults EXCEPT !.reboot = @ + 1, !.outage = o]
    <3>1. (faults.outage \/ ~Over) \in B
      BY <2>1, Zenon
    <3> QED BY <1>9, <3>1, Zenon DEF Reboot
  <2>3. faults' \in Faults
    <3>1. faults \in [loss : 0..MaxLoss, late : 0..MaxLate,
                     reboot : 0..MaxReboot, outage : B]
      BY <1>0, <2>1 DEF TypeOK, Faults
    <3>2. faults.reboot < MaxReboot
      BY <1>9, Zenon DEF Reboot
    <3>3. PICK r : r = faults.reboot + 1
      OBVIOUS
    <3>4. r \in 0..MaxReboot
      BY <3>1, <3>2, <3>3, ProvisioningAssumption
    <3>5. PICK o \in B : faults' = [faults EXCEPT !.reboot = r, !.outage = o]
      BY <2>2, <3>3, Zenon
    <3>6. faults' \in [loss : 0..MaxLoss, late : 0..MaxLate,
                      reboot : 0..MaxReboot, outage : B]
      BY <3>1, <3>4, <3>5
    <3> QED BY <2>1, <3>6 DEF Faults
  <2>4. saved' = saved /\ down' = down /\ up' = up /\ tool' = tool
    <3>1. UNCHANGED <<saved, down, up, tool>>
      BY <1>9, Zenon DEF Reboot
    <3> QED BY <3>1
  <2>5. TypeOK'
    BY <1>0, <1>a, <2>3, <2>4 DEF TypeOK
  <2> QED BY <1>0, <2>4, <2>5 DEF PlanOf, Provisioning, Planning
<1>10. CASE UNCHANGED vars
  BY <1>0, <1>10 DEF vars, TypeOK
<1> QED BY <1>1, <1>2, <1>3, <1>4, <1>5, <1>6, <1>7, <1>8, <1>9, <1>10 DEF Next

(* Boards, stores, packets and session keep the shapes of NNSetupAgent's   *)
(* fields, the wire structs and main()'s locals, in every run: whatever is *)
(* lost, however often boards are power-cycled and sessions are run.       *)
THEOREM TypeCorrect == Spec => []TypeOK
BY InitSession, NextSession, PTL DEF Spec, SessionInv
=============================================================================
