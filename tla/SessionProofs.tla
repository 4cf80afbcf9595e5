---------------------------- MODULE SessionProofs ----------------------------
(***************************************************************************)
(* What a session that broadcasts START has achieved, while no answer is   *)
(* late (Timely, MaxLate = 0): the weights of the plan on every board that *)
(* obeys, the whole of its role in a first session, distinct addresses, and*)
(* that retries save a session from losses.                                *)
(***************************************************************************)
EXTENDS ProvisioningProofs

-----------------------------------------------------------------------------
(* Stop and wait: while the timeout is long compared with delivery, at most*)
(* one message or its reply is in flight, and it is the current one's.     *)
Rendezvous ==
  /\ tool.phase \in {"idle", "discover", "send", "failed"} => Quiet
  /\ tool.phase = "await" => \/ Quiet
                             \/ down = {CurrentMessage} /\ up = {}
                             \/ down = {} /\ \E p \in up : up = {p} /\ Matches(p)
  /\ tool.phase = "done" => up = {} /\ \A m \in down : m.op = "START"

(* With nothing late, a timeout finds nothing in flight.                   *)
LEMMA TimeoutQuiet ==
  ASSUME SessionInv, Timely, MaxLate = 0, Timeout
  PROVE  Quiet /\ faults' = faults
<1>1. faults \in Faults
  BY DEF SessionInv, TypeOK
<1>2. ~(faults.late < MaxLate)
  BY <1>1 DEF Faults
<1> QED BY <1>2 DEF Timeout, TimedOut

(* In a Timely session every reply is the one awaited, and every message   *)
(* received is the current one or START.                                   *)
LEMMA ReceivesCurrent ==
  ASSUME SessionInv, Timely, MaxLate = 0, Rendezvous, LaptopReceive
  PROVE  /\ tool.phase = "await" /\ Provisioning(tool)
         /\ tool' \in Tool /\ Announces /\ down = {} /\ up' = {}
         /\ \E p \in up : up = {p} /\ Matches(p) /\ Judges(p, tool')
<1>1. PICK p \in up :
           /\ up' = up \ {p}
           /\ \/ ~(tool.phase = "await" /\ Matches(p)) /\ UNCHANGED <<tool, down>>
              \/ /\ tool.phase = "await" /\ Matches(p)
                 /\ Judges(p, tool') /\ PlanOf(tool') /\ tool' \in Tool /\ Announces
  BY ReceiveFields
<1>2. tool.phase = "await" /\ down = {} /\ up = {p} /\ Matches(p)
  BY <1>1 DEF Rendezvous, Quiet, SessionInv, TypeOK, Tool
<1> QED BY <1>1, <1>2 DEF Provisioning

(* Receive, for one message.                                               *)
BoardStep(h, m) ==
  /\ down' = down \ {m} /\ UNCHANGED <<tool, faults>>
  /\ agent' = [agent EXCEPT ![h] = IF Listening(h) THEN OnSetupPacket(agent[h], m)
                                   ELSE agent[h]]
  /\ saved' = IF Persistent /\ agent[h].state = "VERIFYING"
                 /\ agent'[h].state = "CONFIGURED"
              THEN [saved EXCEPT ![h] = Persisted(agent'[h])] ELSE saved
  /\ up' = IF Listening(h) THEN up \cup Replies(agent[h], m) ELSE up

LEMMA DeliversCurrent ==
  ASSUME SessionInv, Timely, MaxLate = 0, Rendezvous, NEW h \in Hardware,
         Receive(h)
  PROVE  \/ /\ tool.phase = "await" /\ Provisioning(tool) /\ h = Board
            /\ down = {CurrentMessage} /\ down' = {} /\ up = {}
            /\ BoardStep(h, CurrentMessage)
         \/ /\ tool.phase = "done" /\ up = {} /\ up' = {}
            /\ \E m \in down : m.op = "START" /\ m.hw = h /\ BoardStep(h, m)
<1>1. PICK m \in down : m.hw = h /\ BoardStep(h, m)
  BY DEF Receive, BoardStep
<1>2. \/ tool.phase = "await" /\ down = {CurrentMessage} /\ up = {}
      \/ tool.phase = "done" /\ up = {} /\ m.op = "START"
  BY <1>1 DEF Rendezvous, Quiet, SessionInv, TypeOK, Tool
<1>3. CASE tool.phase = "await" /\ down = {CurrentMessage} /\ up = {}
  <2>1. m = CurrentMessage /\ Provisioning(tool)
    BY <1>3 DEF Provisioning
  <2>2. h = Board
    BY <1>1, <2>1, CurrentFields
  <2>3. down' = {}
    BY <1>1, <1>3, <2>1 DEF BoardStep
  <2> QED BY <1>1, <1>3, <2>1, <2>2, <2>3
<1>4. CASE tool.phase = "done" /\ up = {} /\ m.op = "START"
  BY <1>1, <1>4 DEF BoardStep, Replies
<1> QED BY <1>2, <1>3, <1>4

(* A reply of the current message is the one awaited.                      *)
LEMMA AnswerMatches ==
  ASSUME SessionInv, Provisioning(tool), NEW p, NEW op \in AnswerOp(CurrentMessage),
         Answers(p, CurrentMessage, op)
  PROVE  Matches(p)
BY CurrentFields DEF AnswerOp, Answers, Matches

LEMMA InitRendezvous == Init => Rendezvous
BY DEF Init, Rendezvous, Quiet

(* Send and Timeout wait for Quiet; the rest leaves one packet or none.    *)
LEMMA NextRendezvous ==
  ASSUME SessionInv, Timely, MaxLate = 0, Rendezvous, [Next]_vars
  PROVE  Rendezvous'
<1>1. CASE StartSession
  BY <1>1, StartFields DEF StartSession, Rendezvous, Quiet
<1>2. CASE CloseWindow
  BY <1>2, CloseFields DEF CloseWindow, Rendezvous, Quiet
<1>3. CASE Send
  <2>1. tool' = [tool EXCEPT !.phase = "await"] /\ tool \in Tool
    BY <1>3 DEF Send, SessionInv, TypeOK
  <2>2. CurrentMessage' = CurrentMessage
    <3>1. Stays(tool, tool', "await", tool.seq, tool.try)
      BY <1>3, SendFields
    <3> QED BY <3>1 DEF Stays, Kept, CurrentMessage, Current, Board, Assigned,
                        SequenceNumber
  <2>3. Quiet /\ down' = down \cup {CurrentMessage} /\ up' = up
    BY <1>3 DEF Send, Rendezvous
  <2> QED BY <1>3, <2>2, <2>3, SendFields DEF Rendezvous, Quiet, Stays
<1>4. CASE LaptopReceive
  <2>1. /\ up' = {} /\ tool'.phase \in {"send", "done", "failed"}
        /\ down' = IF tool'.phase = "done" THEN StartMessages ELSE {}
    BY <1>4, ReceivesCurrent DEF Announces, Judges, Stays, Leaves
  <2> QED BY <2>1, StartMessagesType DEF Rendezvous, Quiet
<1>5. CASE Timeout
  <2>1. /\ Quiet /\ tool'.phase \in {"send", "done", "failed"} /\ up' = up
        /\ down' = IF tool'.phase = "done" THEN down \cup StartMessages ELSE down
    BY <1>5, TimeoutFields, TimeoutQuiet DEF Announces, Stays, Leaves, Timeout
  <2> QED BY <2>1, StartMessagesType DEF Rendezvous, Quiet
<1>6. CASE Lose
  <2>1. tool' = tool /\ down' \subseteq down /\ up' \subseteq up
        /\ CurrentMessage' = CurrentMessage
    BY <1>6 DEF Lose, CurrentMessage, Current, Board, Assigned, SequenceNumber
  <2>2. tool.phase = "await" => Quiet'
    <3>1. ASSUME tool.phase = "await" PROVE Quiet'
      BY <1>6, <3>1 DEF Lose, Rendezvous, Quiet
    <3> QED BY <3>1
  <2> QED BY <2>1, <2>2 DEF Rendezvous, Quiet
<1>7. ASSUME NEW h \in Hardware, Hello(h) PROVE Rendezvous'
  BY <1>7, HelloFields DEF Hello, Rendezvous, Quiet
<1>8. ASSUME NEW h \in Hardware, Receive(h) PROVE Rendezvous'
  <2>1. CASE /\ tool.phase = "await" /\ Provisioning(tool) /\ h = Board
             /\ down = {CurrentMessage} /\ down' = {} /\ up = {}
             /\ BoardStep(h, CurrentMessage)
    <3>1. tool' = tool
          /\ up' = IF Listening(h) THEN Replies(agent[h], CurrentMessage) ELSE {}
      BY <2>1 DEF BoardStep
    <3>2. up' = {} \/ \E p : up' = {p} /\ Matches(p)
      <4>1. agent[h] \in Agent /\ CurrentMessage \in Message
        BY <2>1, CurrentFields, AgentsOf
      <4> QED BY <2>1, <3>1, <4>1, RepliesFields, AnswerMatches
    <3>3. \A p : Matches(p) => Matches(p)'
      BY <3>1 DEF Matches, Board, Current, Assigned, SequenceNumber
    <3> QED BY <2>1, <3>1, <3>2, <3>3 DEF Rendezvous, Quiet
  <2>2. CASE /\ tool.phase = "done" /\ up = {} /\ up' = {}
             /\ \E m \in down : m.op = "START" /\ m.hw = h /\ BoardStep(h, m)
    BY <2>2 DEF BoardStep, Rendezvous
  <2> QED BY <1>8, <2>1, <2>2, DeliversCurrent
<1>9. CASE UNCHANGED <<tool, down, up>>
  BY <1>9 DEF Rendezvous, Quiet, CurrentMessage, Matches, Board, Current, Assigned,
     SequenceNumber
<1>10. ASSUME NEW h \in Hardware, Reboot(h) PROVE Rendezvous'
  BY <1>9, <1>10 DEF Reboot
<1> QED BY <1>1, <1>2, <1>3, <1>4, <1>5, <1>6, <1>7, <1>8, <1>9, <1>10 DEF Next, vars

-----------------------------------------------------------------------------
(* A verified commit means the weights of the role.                        *)
Carries(a, r) ==
  /\ \A c \in FirstChunks(r.chunks) : a.weights[c] = r
  /\ r.backup => \A c \in FirstChunks(r.bchunks) : a.bweights[c] = r

(* A board START runs, or has run.                                         *)
Obeying(a) == a.state \in {"CONFIGURED", "RUNNING"}

(* The board is configured with the weights of r, or has lost its memory;  *)
(* a store that persists has kept them.                                    *)
Settled(a, s, r) ==
  /\ Obeying(a) => Carries(a, r)
  /\ Obeying(a) \/ ~Persistent
  /\ Persistent => s.state = "CONFIGURED" /\ Carries(s, r)

SettledAt(h, r) == Settled(agent[h], saved[h], r)

(* A reply the tool counts as configured (provision_device).               *)
Confirms(p) == p.op = "COMMIT_REPLY" /\ Verified(p, Assigned)

(* What the tool believes configured is, and so is the board whose verdict *)
(* is on its way.                                                          *)
Verdicts ==
  /\ ~Persistent => \A h \in Hardware : saved[h].state = "UNCONFIGURED"
  /\ Planning(tool) =>
       \A i \in 1..Len(tool.roles) :
         tool.boards[i] \in tool.ok => SettledAt(tool.boards[i], tool.roles[i])
  /\ tool.phase = "await" =>
       \A p \in up : Confirms(p) => SettledAt(Board, Assigned)

(* The checksums the reply carries are of the arrays the board keeps.      *)
LEMMA CommitCarries ==
  ASSUME NEW a \in Agent, NEW m \in Message, m.op = "COMMIT_REQUEST",
         NEW r \in Role, Verified(CommitReply(a, m), r)
  PROVE  /\ a.state = "VERIFYING" /\ OnSetupPacket(a, m).state = "CONFIGURED"
         /\ Carries(OnSetupPacket(a, m), r)
         /\ Persisted(OnSetupPacket(a, m)).state = "CONFIGURED"
         /\ Carries(Persisted(OnSetupPacket(a, m)), r)
<1>1. a.state = "VERIFYING"
  BY CommitReplyFields DEF Verified, Setup
<1>2. /\ SumOf(a.topology.chunks, a.weights) = [i \in FirstChunks(r.chunks) |-> r]
      /\ r.backup => (IF a.hasBackup THEN SumOf(a.backup.bchunks, a.bweights) ELSE NoSum)
                     = [i \in FirstChunks(r.bchunks) |-> r]
  BY <1>1, CommitReplyFields DEF Verified, Setup
<1>3. /\ FirstChunks(r.chunks) = FirstChunks(a.topology.chunks)
      /\ \A c \in FirstChunks(r.chunks) : a.weights[c] = r
  <2>1. PICK f : f = SumOf(a.topology.chunks, a.weights)
    OBVIOUS
  <2>2. DOMAIN f = FirstChunks(a.topology.chunks) /\ DOMAIN f = FirstChunks(r.chunks)
    BY <1>2, <2>1 DEF SumOf
  <2>3. \A c \in DOMAIN f : f[c] = a.weights[c] /\ f[c] = r
    BY <1>2, <2>1 DEF SumOf
  <2> QED BY <2>2, <2>3
<1>4. ASSUME r.backup
      PROVE  /\ \A c \in FirstChunks(r.bchunks) : a.bweights[c] = r
             /\ \A c \in FirstChunks(r.bchunks) :
                  a.hasBackup /\ c \in FirstChunks(a.backup.bchunks)
  <2>1. PICK f : f = IF a.hasBackup THEN SumOf(a.backup.bchunks, a.bweights) ELSE NoSum
    OBVIOUS
  <2>2. DOMAIN f = FirstChunks(r.bchunks) /\ \A c \in DOMAIN f : f[c] = r
    BY <1>2, <1>4, <2>1
  <2>3. CASE a.hasBackup
    <3>1. /\ DOMAIN f = FirstChunks(a.backup.bchunks)
          /\ \A c \in DOMAIN f : f[c] = a.bweights[c]
      BY <2>1, <2>3 DEF SumOf
    <3> QED BY <2>2, <2>3, <3>1
  <2>4. CASE ~a.hasBackup
    <3>1. DOMAIN f = {}
      BY <2>1, <2>4 DEF NoSum
    <3> QED BY <2>2, <3>1
  <2> QED BY <2>3, <2>4
<1>5. /\ FirstChunks(r.chunks) \subseteq Chunk /\ FirstChunks(r.bchunks) \subseteq Chunk
  BY SlotsType, RoleAssumption DEF FirstChunks, Chunk
<1>6. PICK b : b = OnSetupPacket(a, m)
  OBVIOUS
<1>7. /\ b.state = "CONFIGURED" /\ b.weights = a.weights /\ b.bweights = a.bweights
      /\ b.topology = a.topology /\ b.hasBackup = a.hasBackup /\ b.backup = a.backup
  <2>1. b = [a EXCEPT !.state = "CONFIGURED"]
    BY <1>1, <1>6 DEF OnSetupPacket, HandleCommitRequest
  <2> QED BY <2>1 DEF Agent
<1>8. PICK s : s = Persisted(b)
  OBVIOUS
<1>9. /\ s.state = "CONFIGURED"
      /\ s.weights = [i \in Chunk |-> IF i \in FirstChunks(b.topology.chunks)
                                      THEN b.weights[i] ELSE Nobody]
      /\ s.bweights = [i \in Chunk |->
                         IF b.hasBackup /\ i \in FirstChunks(b.backup.bchunks)
                         THEN b.bweights[i] ELSE Nobody]
  BY <1>8 DEF Persisted, Blank
<1>10. Carries(b, r)
  BY <1>3, <1>4, <1>7 DEF Carries
<1>11. Carries(s, r)
  BY <1>3, <1>4, <1>5, <1>7, <1>9 DEF Carries
<1> QED BY <1>1, <1>6, <1>7, <1>8, <1>9, <1>10, <1>11

(* START and a power cycle leave a settled board settled.                  *)
LEMMA StartSettles ==
  ASSUME NEW a \in Agent, NEW m, m.op = "START", NEW s, NEW r, Settled(a, s, r)
  PROVE  Settled(OnSetupPacket(a, m), s, r)
<1>1. PICK b : b = OnSetupPacket(a, m)
  OBVIOUS
<1>2. b = IF a.state = "CONFIGURED" THEN [a EXCEPT !.state = "RUNNING"] ELSE a
  BY <1>1 DEF OnSetupPacket, HandleStart
<1>3. /\ b.weights = a.weights /\ b.bweights = a.bweights
      /\ Obeying(b) = Obeying(a)
  BY <1>2 DEF Agent, Obeying
<1> QED BY <1>1, <1>3 DEF Settled, Carries

LEMMA BootSettles ==
  ASSUME NEW a, NEW s \in Agent, NEW r, Settled(a, s, r),
         ~Persistent => s.state = "UNCONFIGURED"
  PROVE  Settled(Booted(s), s, r)
<1>1. /\ Booted(s).weights = s.weights /\ Booted(s).bweights = s.bweights
      /\ Booted(s).state = s.state
  BY DEF Booted, Agent
<1> QED BY <1>1 DEF Settled, Obeying, Carries

(* The boards configured so far are not the one being provisioned.         *)
LEMMA OkElsewhere ==
  ASSUME SessionInv, Provisioning(tool), PoolDistinct
  PROVE  /\ Board \notin tool.ok
         /\ \A i \in 1..Len(tool.roles) : tool.boards[i] = Board => i = tool.at
<1>1. /\ tool.at \in 1..Len(tool.roles) /\ PlanOf(tool) /\ Planning(tool)
      /\ Len(tool.roles) \in Nat
  BY AtDevice DEF SessionInv, Provisioning, Planning
<1>2. ASSUME NEW i \in 1..Len(tool.roles), tool.boards[i] = Board
      PROVE  i = tool.at
  BY <1>1, <1>2 DEF PlanOf, Board
<1>3. Board \notin tool.ok
  BY <1>1, <1>2 DEF PlanOf
<1> QED BY <1>2, <1>3

(* Every device of the plan has a board and a role.                        *)
LEMMA PlannedBoard ==
  ASSUME SessionInv, Planning(tool), NEW i \in 1..Len(tool.roles)
  PROVE  tool.boards[i] \in Hardware /\ tool.roles[i] \in Role
<1>1. tool.boards \in Seq(Hardware) /\ tool.roles \in Seq(Role)
      /\ Len(tool.boards) = Len(tool.roles)
  BY DEF SessionInv, TypeOK, Tool, PlanOf
<1> QED BY <1>1, ElementOfSeq

(* By the one step that can confirm a board, the delivery of its commit.   *)
LEMMA NextVerdicts ==
  ASSUME SessionInv, Timely, MaxLate = 0, PoolDistinct, Rendezvous, Verdicts,
         [Next]_vars
  PROVE  Verdicts'
<1>1. CASE StartSession
  BY <1>1, StartFields DEF StartSession, Verdicts, Planning
<1>2. CASE CloseWindow
  BY <1>2, CloseFields DEF CloseWindow, Verdicts, Planning
<1>3. CASE Send
  <2>1. Stays(tool, tool', "await", tool.seq, tool.try) /\ tool.phase = "send"
    BY <1>3, SendFields
  <2>2. up' = {} /\ agent' = agent /\ saved' = saved
    BY <1>3, <2>1 DEF Send, Rendezvous, Quiet
  <2> QED BY <2>1, <2>2 DEF Verdicts, Stays, Kept, Planning, SettledAt
<1>4. CASE LaptopReceive
  <2>1. PICK p \in up : up = {p} /\ Matches(p) /\ Judges(p, tool')
    BY <1>4, ReceivesCurrent
  <2>2. /\ tool.phase = "await" /\ up' = {} /\ Provisioning(tool) /\ Planning(tool)
        /\ agent' = agent /\ saved' = saved
    BY <1>4, ReceivesCurrent DEF LaptopReceive, Planning
  <2>3. /\ Kept(tool, tool')
        /\ \A h \in tool'.ok : h \in tool.ok \/ (h = Board /\ Confirms(p))
    BY <2>1 DEF Judges, Stays, Leaves, Confirms
  <2>4. ASSUME NEW i \in 1..Len(tool.roles), tool.boards[i] \in tool'.ok
        PROVE  SettledAt(tool.boards[i], tool.roles[i])
    <3>1. CASE tool.boards[i] \in tool.ok
      BY <2>2, <3>1 DEF Verdicts
    <3>2. CASE tool.boards[i] = Board /\ Confirms(p)
      <4>1. i = tool.at
        BY <2>2, <3>2, OkElsewhere
      <4> QED BY <2>1, <2>2, <3>2, <4>1 DEF Verdicts, Assigned
    <3> QED BY <2>3, <2>4, <3>1, <3>2
  <2> QED BY <2>2, <2>3, <2>4 DEF Verdicts, Kept, SettledAt
<1>5. CASE Timeout
  <2>1. /\ tool.phase = "await" /\ Quiet /\ up' = up
        /\ agent' = agent /\ saved' = saved /\ Kept(tool, tool') /\ tool'.ok = tool.ok
    BY <1>5, TimeoutFields, TimeoutQuiet DEF Timeout, Stays, Leaves
  <2> QED BY <2>1 DEF Verdicts, Kept, Planning, Quiet, SettledAt
<1>6. CASE Lose
  <2>1. up' \subseteq up /\ UNCHANGED <<tool, agent, saved>>
    BY <1>6 DEF Lose
  <2> QED BY <2>1 DEF Verdicts, SettledAt, Board, Assigned, Confirms
<1>7. ASSUME NEW h \in Hardware, Hello(h) PROVE Verdicts'
  BY <1>7, HelloFields DEF Hello, Verdicts, Planning
<1>8. ASSUME NEW h \in Hardware, Receive(h) PROVE Verdicts'
  <2>0. agent \in [Hardware -> Agent] /\ saved \in [Hardware -> Agent]
    BY DEF SessionInv, TypeOK
  <2>1. CASE /\ tool.phase = "await" /\ Provisioning(tool) /\ h = Board
             /\ down = {CurrentMessage} /\ down' = {} /\ up = {}
             /\ BoardStep(h, CurrentMessage)
    <3>1. /\ tool' = tool /\ \A g \in Hardware \ {h} : agent'[g] = agent[g] /\ saved'[g] = saved[g]
      BY <2>0, <2>1 DEF BoardStep
    <3>2. ASSUME NEW i \in 1..Len(tool.roles), tool.boards[i] \in tool.ok
          PROVE  SettledAt(tool.boards[i], tool.roles[i])'
      <4>1. tool.boards[i] \in Hardware \ {h} /\ Planning(tool)
        BY <2>1, <3>2, OkElsewhere, PlannedBoard DEF Provisioning, Planning
      <4> QED BY <3>1, <3>2, <4>1 DEF Verdicts, SettledAt
    <3>3. ASSUME NEW p \in up', Confirms(p)
          PROVE  SettledAt(Board, Assigned)'
      <4>1. PICK m : m = CurrentMessage
        OBVIOUS
      <4>2. /\ m \in Message /\ m.op \in Setup /\ agent[h] \in Agent
            /\ Assigned \in Role
        BY <2>1, <4>1, CurrentFields, AgentsOf, AtDevice
      <4>3. Listening(h) /\ Replies(agent[h], m) = {p} /\ m.op = "COMMIT_REQUEST"
        BY <2>1, <3>3, <4>1, <4>2, RepliesFields DEF BoardStep, Confirms, AnswerOp, Answers
      <4>4. p = CommitReply(agent[h], m)
        BY <4>3 DEF Replies
      <4>5. PICK b : b = OnSetupPacket(agent[h], m)
        OBVIOUS
      <4>6. /\ agent[h].state = "VERIFYING" /\ b.state = "CONFIGURED"
            /\ Carries(b, Assigned)
            /\ Persisted(b).state = "CONFIGURED" /\ Carries(Persisted(b), Assigned)
        BY <3>3, <4>2, <4>3, <4>4, <4>5, CommitCarries DEF Confirms
      <4>7. agent'[h] = b
        BY <2>0, <2>1, <4>1, <4>3, <4>5 DEF BoardStep
      <4>8. Persistent => saved'[h] = Persisted(b)
        BY <2>0, <2>1, <4>6, <4>7 DEF BoardStep
      <4>9. Settled(agent'[h], saved'[h], Assigned)
        BY <4>6, <4>7, <4>8 DEF Settled, Obeying
      <4>10. Board' = h /\ Assigned' = Assigned
        BY <2>1, <3>1 DEF Board, Assigned
      <4> QED BY <4>9, <4>10 DEF SettledAt
    <3>4. ~Persistent => \A g \in Hardware : saved'[g].state = "UNCONFIGURED"
      BY <2>1 DEF BoardStep, Verdicts
    <3>5. \A p : Confirms(p)' => Confirms(p)
      BY <3>1 DEF Confirms, Assigned
    <3> QED BY <3>1, <3>2, <3>3, <3>4, <3>5 DEF Verdicts
  <2>2. CASE /\ tool.phase = "done" /\ up = {} /\ up' = {}
             /\ \E m \in down : m.op = "START" /\ m.hw = h /\ BoardStep(h, m)
    <3>1. PICK m \in down : m.op = "START" /\ BoardStep(h, m)
      BY <2>2
    <3>2. /\ tool' = tool /\ saved' = saved
          /\ \A g \in Hardware \ {h} : agent'[g] = agent[g]
          /\ agent'[h] = OnSetupPacket(agent[h], m) \/ agent'[h] = agent[h]
      <4>1. agent'[h] = OnSetupPacket(agent[h], m) \/ agent'[h] = agent[h]
        BY <2>0, <3>1 DEF BoardStep
      <4>2. agent[h].state = "VERIFYING" => agent'[h].state # "CONFIGURED"
        BY <3>1, <4>1 DEF OnSetupPacket, HandleStart
      <4> QED BY <2>0, <3>1, <4>1, <4>2 DEF BoardStep
    <3>3. ASSUME NEW i \in 1..Len(tool.roles), tool.boards[i] \in tool.ok
          PROVE  SettledAt(tool.boards[i], tool.roles[i])'
      <4>1. PICK g \in Hardware : g = tool.boards[i]
        BY <2>2, PlannedBoard DEF Planning
      <4>2. Settled(agent[g], saved[g], tool.roles[i])
        BY <2>2, <3>3, <4>1 DEF Verdicts, Planning, SettledAt
      <4>3. Settled(agent'[g], saved'[g], tool.roles[i])
        BY <2>0, <3>1, <3>2, <4>2, StartSettles
      <4> QED BY <3>2, <4>1, <4>3 DEF SettledAt
    <3> QED BY <2>2, <3>2, <3>3 DEF Verdicts
  <2> QED BY <1>8, <2>1, <2>2, DeliversCurrent
<1>9. ASSUME NEW h \in Hardware, Reboot(h) PROVE Verdicts'
  <2>0. agent \in [Hardware -> Agent] /\ saved \in [Hardware -> Agent]
    BY DEF SessionInv, TypeOK
  <2>1. /\ tool' = tool /\ saved' = saved /\ up' = up
        /\ agent' = [agent EXCEPT ![h] = Booted(saved[h])]
    BY <1>9 DEF Reboot
  <2>2. ASSUME NEW g \in Hardware, NEW r, SettledAt(g, r)
        PROVE  Settled(agent'[g], saved'[g], r)
    BY <2>0, <2>1, <2>2, BootSettles DEF SettledAt, Verdicts
  <2>3. ASSUME Planning(tool), NEW i \in 1..Len(tool.roles), tool.boards[i] \in tool.ok
        PROVE  SettledAt(tool.boards[i], tool.roles[i])'
    BY <2>1, <2>2, <2>3, PlannedBoard DEF SettledAt, Verdicts
  <2>4. ASSUME tool.phase = "await", NEW p \in up, Confirms(p)
        PROVE  SettledAt(Board, Assigned)'
    <3>1. Board \in Hardware
      BY <2>4, AtDevice DEF Provisioning
    <3> QED BY <2>1, <2>2, <2>4, <3>1 DEF SettledAt, Verdicts, Board, Assigned
  <2> QED BY <2>1, <2>3, <2>4 DEF Verdicts, Confirms, Assigned
<1>10. CASE UNCHANGED vars
  BY <1>10 DEF vars, Verdicts, SettledAt, Board, Assigned, Confirms
<1> QED BY <1>1, <1>2, <1>3, <1>4, <1>5, <1>6, <1>7, <1>8, <1>9, <1>10 DEF Next

(* The inductive invariant of WeightsPlanned and AllAwait.                 *)
ConfirmedInv == SessionInv /\ Rendezvous /\ Verdicts

LEMMA Confirming ==
  ASSUME Timely, MaxLate = 0, PoolDistinct
  PROVE  Spec => []ConfirmedInv
<1>1. Init => ConfirmedInv
  <2>1. Init => Verdicts
    BY DEF Init, Verdicts, Planning, Blank
  <2> QED BY <2>1, InitSession, InitRendezvous DEF ConfirmedInv
<1>2. ConfirmedInv /\ [Next]_vars => ConfirmedInv'
  BY NextSession, NextRendezvous, NextVerdicts DEF ConfirmedInv
<1> QED BY <1>1, <1>2, PTL DEF Spec

LEMMA DoneSettled ==
  ASSUME ConfirmedInv, tool.phase = "done", NEW i \in DOMAIN tool.boards
  PROVE  i \in 1..Len(tool.roles) /\ SettledAt(tool.boards[i], tool.roles[i])
<1>1. Planning(tool) /\ PlanOf(tool) /\ tool.boards \in Seq(Hardware)
  BY DEF Planning, ConfirmedInv, SessionInv, TypeOK, Tool
<1>2. i \in 1..Len(tool.roles)
  BY <1>1 DEF PlanOf
<1> QED BY <1>1, <1>2 DEF PlanOf, ConfirmedInv, Verdicts

(* A board that obeys START multiplies by the manifest's weights, its own  *)
(* and its target's: whatever is lost, however many sessions came before   *)
(* and whenever boards were power-cycled, as long as no late answer        *)
(* outlives a timeout and no board is listed twice in the pool.            *)
THEOREM WeightsPlanned ==
  Timely /\ MaxLate = 0 /\ PoolDistinct => (Spec => []WeightsAsPlanned)
<1> SUFFICES ASSUME Timely, MaxLate = 0,
                    PoolDistinct PROVE Spec => []WeightsAsPlanned
  OBVIOUS
<1>1. ConfirmedInv => WeightsAsPlanned
  BY DoneSettled DEF WeightsAsPlanned, SettledAt, Settled, Carries, Obeying
<1> QED BY <1>1, Confirming, PTL

(* Every board of the plan is waiting for START when it is broadcast, if   *)
(* the boards' stores persist.                                             *)
THEOREM AllAwait ==
  Timely /\ MaxLate = 0 /\ PoolDistinct /\ Persistent
    => (Spec => []AllAwaitStart)
<1> SUFFICES ASSUME Timely, MaxLate = 0, PoolDistinct,
                    Persistent PROVE Spec => []AllAwaitStart
  OBVIOUS
<1>1. ConfirmedInv => AllAwaitStart
  BY DoneSettled DEF AllAwaitStart, SettledAt, Settled, Obeying, Planned
<1> QED BY <1>1, Confirming, PTL

-----------------------------------------------------------------------------
(* What the handlers change.                                               *)
Prompt(a) == a.state = "RECEIVING_CONFIG" => ~(PrimaryComplete(a) /\ BackupComplete(a))
Busy(a) == Collecting(a) /\ Prompt(a)

(* b has the scalar fields, the own or the backup array of a.              *)
SamePlace(a, b) == /\ b.addr = a.addr /\ b.ownLayer = a.ownLayer
                   /\ b.topology = a.topology /\ b.input = a.input
SameArray(a, b) == /\ b.expected = a.expected /\ b.received = a.received
                   /\ b.weights = a.weights
SameDuty(a, b) == /\ b.hasBackup = a.hasBackup /\ b.backup = a.backup
                  /\ b.bexpected = a.bexpected
SameBackup(a, b) == /\ SameDuty(a, b) /\ b.breceived = a.breceived
                    /\ b.bweights = a.bweights

(* maybeAdvanceToVerifying changes only the state                          *)
(* (NNSetupProtocol.h:205-217).                                            *)
LEMMA AdvancedKeeps ==
  ASSUME NEW a \in Agent
  PROVE  /\ SamePlace(a, Advanced(a)) /\ SameArray(a, Advanced(a))
         /\ SameBackup(a, Advanced(a))
         /\ Collecting(a) => Busy(Advanced(a))
<1>1. CASE a.state = "RECEIVING_CONFIG" /\ PrimaryComplete(a) /\ BackupComplete(a)
  <2>1. PICK b : b = [a EXCEPT !.state = "VERIFYING"]
    OBVIOUS
  <2>2. /\ SamePlace(a, b) /\ SameArray(a, b) /\ SameBackup(a, b)
        /\ b.state = "VERIFYING"
    BY <2>1 DEF Agent, SamePlace, SameArray, SameBackup, SameDuty
  <2>3. Advanced(a) = b
    BY <1>1, <2>1 DEF Advanced
  <2> QED BY <2>2, <2>3 DEF Busy, Prompt, Collecting
<1>2. CASE ~(a.state = "RECEIVING_CONFIG" /\ PrimaryComplete(a) /\ BackupComplete(a))
  <2>1. Advanced(a) = a
    BY <1>2 DEF Advanced
  <2> QED BY <1>2, <2>1 DEF Busy, Prompt, SamePlace, SameArray, SameBackup, SameDuty
<1> QED BY <1>1, <1>2

(* handleTopologyInfo, field by field.                                     *)
LEMMA TopologyEffect ==
  ASSUME NEW a \in Agent, NEW m, MessageOK(m), NEW b, b = HandleTopologyInfo(a, m)
  PROVE  /\ b.addr = a.addr /\ b.ownLayer = a.addr.layer /\ b.topology = m.role
         /\ b.input = a.input /\ b.expected = m.role.chunks /\ b.received = {}
         /\ b.weights = a.weights /\ SameBackup(a, b) /\ Busy(b)
<1>1. PICK t : t = [a EXCEPT !.topology = m.role, !.ownLayer = a.addr.layer,
                             !.expected = m.role.chunks, !.received = {},
                             !.state = "RECEIVING_CONFIG"]
  OBVIOUS
<1>2. t \in Agent
  BY <1>1, RoleFields DEF Agent, AgentState, Place, MessageOK
<1>3. /\ t.addr = a.addr /\ t.ownLayer = a.addr.layer /\ t.topology = m.role
      /\ t.input = a.input /\ t.expected = m.role.chunks /\ t.received = {}
      /\ t.weights = a.weights /\ SameBackup(a, t) /\ t.state = "RECEIVING_CONFIG"
  BY <1>1 DEF Agent, SameBackup, SameDuty
<1>4. b = Advanced(t)
  BY <1>1 DEF HandleTopologyInfo
<1> QED BY <1>2, <1>3, <1>4, AdvancedKeeps
        DEF SamePlace, SameArray, SameBackup, SameDuty, Collecting

(* handleWeightsChunk, for a chunk in range.                               *)
LEMMA WeightsEffect ==
  ASSUME NEW a \in Agent, NEW m, MessageOK(m), Collecting(a), InRange(a, m),
         NEW b, b = HandleWeightsChunk(a, m)
  PROVE  /\ SamePlace(a, b) /\ b.expected = a.expected
         /\ b.received = a.received \cup {m.chunk}
         /\ b.weights = [a.weights EXCEPT ![m.chunk] = m.role]
         /\ SameBackup(a, b) /\ Busy(b)
<1>1. PICK t : t = [a EXCEPT !.weights[m.chunk] = m.role,
                             !.received = a.received \cup {m.chunk}]
  OBVIOUS
<1>2. m.chunk \in Chunk
  BY RoleAssumption DEF InRange, FirstChunks, Chunk, Agent
<1>3. t \in Agent
  BY <1>1, <1>2 DEF Agent, MessageOK
<1>4. /\ SamePlace(a, t) /\ t.expected = a.expected
      /\ t.received = a.received \cup {m.chunk}
      /\ t.weights = [a.weights EXCEPT ![m.chunk] = m.role]
      /\ SameBackup(a, t) /\ t.state = a.state
  BY <1>1 DEF Agent, SamePlace, SameBackup, SameDuty
<1>5. b = Advanced(t)
  BY <1>1 DEF HandleWeightsChunk
<1> QED BY <1>3, <1>4, <1>5, AdvancedKeeps
        DEF SamePlace, SameArray, SameBackup, SameDuty, Collecting

(* handleBackupRoleInfo, while the board collects.                         *)
LEMMA BackupRoleEffect ==
  ASSUME NEW a \in Agent, NEW m, MessageOK(m), Collecting(a),
         NEW b, b = HandleBackupRoleInfo(a, m)
  PROVE  /\ SamePlace(a, b) /\ SameArray(a, b)
         /\ b.hasBackup = TRUE /\ b.backup = m.role /\ b.bexpected = m.role.bchunks
         /\ b.breceived = {} /\ b.bweights = a.bweights /\ Busy(b)
<1>1. PICK t : t = [a EXCEPT !.hasBackup = TRUE, !.backup = m.role,
                             !.bexpected = m.role.bchunks, !.breceived = {},
                             !.state = "RECEIVING_CONFIG"]
  OBVIOUS
<1>2. t \in Agent
  BY <1>1, RoleFields DEF Agent, AgentState, MessageOK
<1>3. /\ SamePlace(a, t) /\ SameArray(a, t)
      /\ t.hasBackup = TRUE /\ t.backup = m.role /\ t.bexpected = m.role.bchunks
      /\ t.breceived = {} /\ t.bweights = a.bweights /\ t.state = "RECEIVING_CONFIG"
  BY <1>1 DEF Agent, SamePlace, SameArray
<1>4. b = Advanced(t)
  BY <1>1 DEF HandleBackupRoleInfo
<1> QED BY <1>2, <1>3, <1>4, AdvancedKeeps
        DEF SamePlace, SameArray, SameBackup, SameDuty, Collecting

(* handleBackupWeightsChunk, for a chunk in range.                         *)
LEMMA BackupWeightsEffect ==
  ASSUME NEW a \in Agent, NEW m, MessageOK(m), Collecting(a), a.hasBackup,
         BackupInRange(a, m), NEW b, b = HandleBackupWeightsChunk(a, m)
  PROVE  /\ SamePlace(a, b) /\ SameArray(a, b)
         /\ SameDuty(a, b) /\ b.breceived = a.breceived \cup {m.chunk}
         /\ b.bweights = [a.bweights EXCEPT ![m.chunk] = m.role]
         /\ Busy(b)
<1>1. PICK t : t = [a EXCEPT !.bweights[m.chunk] = m.role,
                             !.breceived = a.breceived \cup {m.chunk}]
  OBVIOUS
<1>2. m.chunk \in Chunk
  BY RoleAssumption DEF BackupInRange, FirstChunks, Chunk, Agent
<1>3. t \in Agent
  BY <1>1, <1>2 DEF Agent, MessageOK
<1>4. /\ SamePlace(a, t) /\ SameArray(a, t)
      /\ SameDuty(a, t) /\ t.breceived = a.breceived \cup {m.chunk}
      /\ t.bweights = [a.bweights EXCEPT ![m.chunk] = m.role] /\ t.state = a.state
  BY <1>1 DEF Agent, SamePlace, SameArray, SameDuty
<1>5. b = Advanced(t)
  BY <1>1 DEF HandleBackupWeightsChunk
<1>6. SamePlace(t, b) /\ SameArray(t, b) /\ SameBackup(t, b) /\ Busy(b)
  BY <1>3, <1>4, <1>5, AdvancedKeeps DEF Collecting
<1>7. SamePlace(a, b) /\ SameArray(a, b)
  BY <1>4, <1>6 DEF SamePlace, SameArray
<1>8. SameDuty(a, b)
  BY <1>4, <1>6 DEF SameBackup, SameDuty
<1>9. /\ b.breceived = a.breceived \cup {m.chunk}
      /\ b.bweights = [a.bweights EXCEPT ![m.chunk] = m.role]
  BY <1>4, <1>6 DEF SameBackup
<1> QED BY <1>6, <1>7, <1>8, <1>9

(* handleAssignAddress.                                                    *)
LEMMA AssignEffect ==
  ASSUME NEW a \in Agent, NEW m, NEW b, b = HandleAssignAddress(a, m)
  PROVE  /\ b.addr = m.role.addr /\ b.ownLayer = a.ownLayer
         /\ b.topology = a.topology /\ b.input = a.input
         /\ SameArray(a, b) /\ SameBackup(a, b) /\ b.state = a.state
BY DEF HandleAssignAddress, Agent, SameArray, SameBackup, SameDuty

(* handleInputValue.                                                       *)
LEMMA InputEffect ==
  ASSUME NEW a \in Agent, NEW m, NEW b, b = HandleInputValue(a, m)
  PROVE  /\ b.addr = a.addr /\ b.ownLayer = a.ownLayer
         /\ b.topology = a.topology /\ b.input = m.role
         /\ SameArray(a, b) /\ SameBackup(a, b) /\ b.state = a.state
BY DEF HandleInputValue, Agent, SameArray, SameBackup, SameDuty

(* handleCommitRequest.                                                    *)
LEMMA CommitEffect ==
  ASSUME NEW a \in Agent, NEW m, NEW b, b = HandleCommitRequest(a, m)
  PROVE  /\ SamePlace(a, b) /\ SameArray(a, b) /\ SameBackup(a, b)
         /\ b.state = IF a.state = "VERIFYING" THEN "CONFIGURED" ELSE a.state
BY DEF HandleCommitRequest, Agent, SamePlace, SameArray, SameBackup, SameDuty

(* handleStart.                                                            *)
LEMMA StartEffect ==
  ASSUME NEW a \in Agent, NEW m, NEW b, b = HandleStart(a, m)
  PROVE  /\ SamePlace(a, b) /\ SameArray(a, b) /\ SameBackup(a, b)
         /\ b.state = IF a.state = "CONFIGURED" THEN "RUNNING" ELSE a.state
BY DEF HandleStart, Agent, SamePlace, SameArray, SameBackup, SameDuty

-----------------------------------------------------------------------------
(* What a board has been told of its role when it has acknowledged the     *)
(* first k messages.                                                       *)
Told(a, r, k) ==
  /\ k >= 1 => a.addr = r.addr
  /\ k >= 2 => a.ownLayer = r.addr.layer /\ a.topology = r
  /\ k >= 3 /\ r.backup => a.hasBackup /\ a.backup = r
  /\ k >= LastSlot(r) - 1 /\ r.seed => a.input = r

(* m is message k of the script of r, counted from 0.                      *)
Sent(r, k, m) == Stands(r, k + 1, m) /\ m \in Message /\ m.op \in Setup /\ m.role = r

LEMMA ToldNothing ==
  ASSUME NEW a, NEW r \in Role
  PROVE  Told(a, r, 0)
BY SlotsType DEF Told

(* The next message of the script adds what it says, and forgets nothing.  *)
LEMMA ToldStep ==
  ASSUME NEW a \in Agent, NEW r \in Role, NEW k \in Nat, NEW m, Sent(r, k, m),
         Told(a, r, k), NEW b, b = OnSetupPacket(a, m)
  PROVE  /\ Told(b, r, k)
         /\ \A p \in Replies(a, m) : p.op = "ACK" => Told(b, r, k + 1)
<1>0. /\ MessageOK(m) /\ Stands(r, k + 1, m) /\ m.role = r
  BY DEF Sent, MessageOK, Message
<1>a. /\ LastSlot(r) \in Nat /\ LastSlot(r) >= 3 /\ OwnFrom(r) \in Nat
      /\ BackupFrom(r) \in Nat /\ SeedFrom(r) \in Nat
      /\ OwnFrom(r) >= 2 /\ (r.backup => OwnFrom(r) = 3)
      /\ BackupFrom(r) = OwnFrom(r) + r.chunks /\ SeedFrom(r) >= BackupFrom(r)
      /\ r.backup => SeedFrom(r) = BackupFrom(r) + r.bchunks
      /\ r.seed => LastSlot(r) = SeedFrom(r) + 2
      /\ r.chunks \in Nat /\ r.bchunks \in Nat
  BY SlotsType
<1>1. CASE m.op = "ASSIGN_ADDRESS" /\ k = 0
  <2>1. b.addr = r.addr
    BY <1>0, <1>1, AssignEffect DEF OnSetupPacket
  <2> QED BY <1>1, <2>1, <1>a DEF Told
<1>2. CASE m.op = "TOPOLOGY_INFO" /\ k = 1
  <2>1. b = HandleTopologyInfo(a, m)
    BY <1>2 DEF OnSetupPacket
  <2>2. b.addr = a.addr /\ b.ownLayer = a.addr.layer /\ b.topology = r
    BY <1>0, <2>1, TopologyEffect
  <2> QED BY <1>2, <2>2, <1>a DEF Told
<1>3. CASE m.op = "BACKUP_ROLE_INFO" /\ r.backup /\ k = 2
  <2>1. b = HandleBackupRoleInfo(a, m)
    BY <1>3 DEF OnSetupPacket
  <2>2. CASE Collecting(a)
    <3>1. SamePlace(a, b) /\ b.hasBackup /\ b.backup = r
      BY <1>0, <2>1, <2>2, BackupRoleEffect
    <3> QED BY <1>3, <3>1, <1>a DEF Told, SamePlace
  <2>3. CASE ~Collecting(a)
    <3>1. b = a /\ Replies(a, m) = {}
      BY <1>3, <2>1, <2>3 DEF HandleBackupRoleInfo, Replies
    <3> QED BY <3>1
  <2> QED BY <2>2, <2>3
<1>4. CASE /\ m.op = "WEIGHTS_CHUNK" /\ m.chunk \in FirstChunks(r.chunks)
           /\ k + 1 = (OwnFrom(r) + m.chunk) + 1
  <2>1. b = HandleWeightsChunk(a, m)
    BY <1>4 DEF OnSetupPacket
  <2>2. SamePlace(a, b) /\ SameBackup(a, b)
    <3>1. CASE Collecting(a) /\ InRange(a, m)
      BY <1>0, <2>1, <3>1, WeightsEffect
    <3>2. CASE ~(Collecting(a) /\ InRange(a, m))
      BY <2>1, <3>2 DEF HandleWeightsChunk, SamePlace, SameBackup, SameDuty
    <3> QED BY <3>1, <3>2
  <2>3. /\ k >= 2 /\ (r.seed => k + 1 < LastSlot(r) - 1)
        /\ r.backup => k >= 3
    BY <1>4, <1>a DEF FirstChunks
  <2> QED BY <1>4, <2>2, <2>3, <1>a DEF Told, SamePlace, SameBackup, SameDuty, FirstChunks
<1>5. CASE /\ m.op = "BACKUP_WEIGHTS_CHUNK" /\ r.backup
           /\ m.chunk \in FirstChunks(r.bchunks)
           /\ k + 1 = (BackupFrom(r) + m.chunk) + 1
  <2>1. b = HandleBackupWeightsChunk(a, m)
    BY <1>5 DEF OnSetupPacket
  <2>2. SamePlace(a, b) /\ SameDuty(a, b)
    <3>1. CASE a.hasBackup /\ Collecting(a) /\ BackupInRange(a, m)
      BY <1>0, <2>1, <3>1, BackupWeightsEffect
    <3>2. CASE ~(a.hasBackup /\ Collecting(a) /\ BackupInRange(a, m))
      BY <2>1, <3>2 DEF HandleBackupWeightsChunk, SamePlace, SameDuty
    <3> QED BY <3>1, <3>2
  <2> QED BY <1>5, <2>2, <1>a DEF Told, SamePlace, SameDuty, FirstChunks
<1>6. CASE m.op = "INPUT_VALUE" /\ r.seed /\ k + 1 = SeedFrom(r) + 1
  <2>1. b = HandleInputValue(a, m)
    BY <1>6 DEF OnSetupPacket
  <2>2. /\ b.addr = a.addr /\ b.ownLayer = a.ownLayer
        /\ b.topology = a.topology /\ b.input = r /\ SameBackup(a, b)
    BY <1>0, <2>1, InputEffect
  <2> QED BY <1>6, <2>2, <1>a DEF Told, SameBackup, SameDuty
<1>7. CASE m.op = "COMMIT_REQUEST"
  <2>1. b = HandleCommitRequest(a, m)
    BY <1>7 DEF OnSetupPacket
  <2>2. SamePlace(a, b) /\ SameBackup(a, b)
    BY <2>1, CommitEffect
  <2>3. Told(b, r, k)
    BY <2>2 DEF Told, SamePlace, SameBackup, SameDuty
  <2>4. \A p \in Replies(a, m) : p.op = "COMMIT_REPLY"
    BY <1>7, CommitReplyFields DEF Replies, Answers, Sent
  <2> QED BY <2>3, <2>4
<1> QED BY <1>0, <1>1, <1>2, <1>3, <1>4, <1>5, <1>6, <1>7 DEF Stands

-----------------------------------------------------------------------------
(* What a delivery does in a Timely session: the current message changes   *)
(* the board it is for, or START runs a configured board.                  *)
Started(a, b) ==
  /\ SamePlace(a, b) /\ SameArray(a, b) /\ SameBackup(a, b)
  /\ b.state = a.state \/ (a.state = "CONFIGURED" /\ b.state = "RUNNING")

(* The board drops the current message, or handles it and replies.         *)
Handled(h) ==
  \/ ~Listening(h) /\ agent'[h] = agent[h] /\ up' = {}
  \/ /\ Listening(h) /\ up' = Replies(agent[h], CurrentMessage)
     /\ agent'[h] = OnSetupPacket(agent[h], CurrentMessage)

LEMMA Delivered ==
  ASSUME SessionInv, Timely, MaxLate = 0, Rendezvous, NEW h \in Hardware,
         Receive(h)
  PROVE  /\ tool' = tool /\ faults' = faults
         /\ \A g \in Hardware \ {h} : agent'[g] = agent[g] /\ saved'[g] = saved[g]
         /\ saved'[h] = IF Persistent /\ agent[h].state = "VERIFYING"
                           /\ agent'[h].state = "CONFIGURED"
                        THEN Persisted(agent'[h]) ELSE saved[h]
         /\ \/ /\ tool.phase = "await" /\ Provisioning(tool) /\ h = Board
               /\ up = {} /\ Handled(h)
            \/ tool.phase = "done" /\ up' = {} /\ Started(agent[h], agent'[h])
<1>0. agent \in [Hardware -> Agent] /\ saved \in [Hardware -> Agent]
  BY DEF SessionInv, TypeOK
<1>1. CASE /\ tool.phase = "await" /\ Provisioning(tool) /\ h = Board
           /\ up = {} /\ BoardStep(h, CurrentMessage)
  BY <1>0, <1>1 DEF BoardStep, Handled
<1>2. CASE /\ tool.phase = "done" /\ up' = {}
           /\ \E m \in down : m.op = "START" /\ BoardStep(h, m)
  <2>1. PICK m \in down : m.op = "START" /\ BoardStep(h, m)
    BY <1>2
  <2>2. agent'[h] = agent[h] \/ agent'[h] = HandleStart(agent[h], m)
    BY <1>0, <2>1 DEF BoardStep, OnSetupPacket
  <2>3. Started(agent[h], agent'[h])
    <3>1. CASE agent'[h] = agent[h]
      BY <3>1 DEF Started, SamePlace, SameArray, SameBackup, SameDuty
    <3>2. CASE agent'[h] = HandleStart(agent[h], m)
      BY <1>0, <3>2, StartEffect DEF Started
    <3> QED BY <2>2, <3>1, <3>2
  <2> QED BY <1>0, <1>2, <2>1, <2>3 DEF BoardStep
<1> QED BY <1>1, <1>2, DeliversCurrent

(* Reboots are counted.                                                    *)
LEMMA RebootCounts ==
  ASSUME faults \in Faults, NEW h \in Hardware, Reboot(h)
  PROVE  faults'.reboot = faults.reboot + 1 /\ faults'.loss = faults.loss
<1>1. PICK o : faults' = [faults EXCEPT !.reboot = @ + 1, !.outage = o]
  BY Zenon DEF Reboot
<1> QED BY <1>1 DEF Faults

(* A power cycle in a session is remembered.                               *)
LEMMA OutageTold ==
  ASSUME faults \in Faults, NEW h \in Hardware, Reboot(h)
  PROVE  /\ Over \/ faults'.outage
         /\ faults.outage => faults'.outage
<1>1. PICK o : o = (faults.outage \/ ~Over)
  OBVIOUS
<1>2. faults' = [faults EXCEPT !.reboot = @ + 1, !.outage = o]
  BY <1>1, Zenon DEF Reboot
<1>3. faults'.outage = o
  BY <1>2 DEF Faults
<1> QED BY <1>1, <1>3, Zenon

LEMMA NoReboot ==
  ASSUME SessionInv, faults'.reboot = 0, NEW h \in Hardware
  PROVE  ~Reboot(h)
<1> SUFFICES ASSUME Reboot(h) PROVE FALSE
  OBVIOUS
<1>1. faults \in Faults
  BY DEF SessionInv, TypeOK
<1>2. faults'.reboot = faults.reboot + 1 /\ faults.reboot \in Nat
  BY <1>1, RebootCounts, ProvisioningAssumption DEF Faults
<1> QED BY <1>2

-----------------------------------------------------------------------------
(* While no board is power-cycled, a board knows of its role what it has   *)
(* acknowledged, and all of it when it is configured.                      *)
Fed(a, r) == Told(a, r, LastSlot(r) - 1)

(* The board being provisioned, the acknowledgement on its way, and the    *)
(* boards already configured.                                              *)
Telling ==
  /\ Provisioning(tool) => Told(agent[Board], Assigned, tool.seq)
  /\ tool.phase = "await" =>
       \A p \in up : p.op = "ACK" => Told(agent[Board], Assigned, tool.seq + 1)
  /\ Planning(tool) =>
       \A i \in 1..Len(tool.roles) :
         tool.boards[i] \in tool.ok => Fed(agent[tool.boards[i]], tool.roles[i])

(* Only the scalar fields matter.                                          *)
LEMMA StillTold ==
  ASSUME NEW a, NEW b, SamePlace(a, b), SameDuty(a, b), NEW r, NEW k, Told(a, r, k)
  PROVE  Told(b, r, k)
BY DEF SamePlace, SameDuty, Told

(* The message in flight is the next of the script, the commit the last.   *)
LEMMA CurrentSent ==
  ASSUME SessionInv, Provisioning(tool)
  PROVE  /\ Sent(Assigned, tool.seq, CurrentMessage)
         /\ CurrentMessage.op = "COMMIT_REQUEST" => tool.seq = LastSlot(Assigned) - 1
         /\ CurrentMessage.op = Current.op
<1>1. /\ Stands(Assigned, tool.seq + 1, Current)
      /\ CurrentMessage \in Message /\ Current.op \in Setup
      /\ CurrentMessage.op = Current.op /\ CurrentMessage.role = Assigned
      /\ CurrentMessage.chunk = Current.chunk
  BY CurrentFields
<1>2. PICK m : m = CurrentMessage
  OBVIOUS
<1>3. PICK e : e = Current
  OBVIOUS
<1>4. Stands(Assigned, tool.seq + 1, m) /\ m.op = e.op
  BY <1>1, <1>2, <1>3 DEF Stands
<1>5. m.op = "COMMIT_REQUEST" => tool.seq + 1 = LastSlot(Assigned)
  BY <1>4 DEF Stands
<1>6. tool.seq \in Nat /\ LastSlot(Assigned) \in Nat
  BY AtDevice, SlotsType
<1> QED BY <1>1, <1>2, <1>3, <1>4, <1>5, <1>6 DEF Sent

(* The next device of the plan has a role too.                             *)
LEMMA RoleAt ==
  ASSUME SessionInv, NEW i \in 1..Len(tool.roles)
  PROVE  tool.roles[i] \in Role
BY ElementOfSeq DEF SessionInv, TypeOK, Tool

(* The next device has been told nothing.                                  *)
LEMMA LeavesTelling ==
  ASSUME SessionInv, Provisioning(tool), Telling, NEW ok, Leaves(tool, tool', ok),
         agent' = agent, up' = {},
         \A h \in ok \ tool.ok : h = Board /\ Fed(agent[Board], Assigned), PoolDistinct
  PROVE  Telling'
<1>1. /\ tool'.roles = tool.roles /\ tool'.boards = tool.boards /\ tool'.ok = ok
      /\ Planning(tool) /\ tool.at \in 1..Len(tool.roles) /\ Len(tool.roles) \in Nat
  BY AtDevice DEF Leaves, Kept, Provisioning, Planning
<1>2. ASSUME NEW i \in 1..Len(tool.roles), tool.boards[i] \in ok
      PROVE  Fed(agent[tool.boards[i]], tool.roles[i])
  <2>1. CASE tool.boards[i] \in tool.ok
    BY <1>1, <2>1 DEF Telling
  <2>2. CASE tool.boards[i] \notin tool.ok
    <3>1. tool.boards[i] = Board /\ Fed(agent[Board], Assigned)
      BY <1>2, <2>2
    <3>2. i = tool.at
      BY <3>1, OkElsewhere
    <3> QED BY <3>1, <3>2 DEF Assigned
  <2> QED BY <2>1, <2>2
<1>3. Provisioning(tool') => tool'.seq = 0 /\ Assigned' \in Role
  <2>1. ASSUME Provisioning(tool') PROVE tool'.seq = 0 /\ tool'.at = tool.at + 1
                                         /\ tool.at < Len(tool.roles)
    BY <2>1 DEF Leaves, Provisioning
  <2>2. ASSUME Provisioning(tool') PROVE tool.roles[tool.at + 1] \in Role
    BY <1>1, <2>1, <2>2, RoleAt
  <2> QED BY <1>1, <2>1, <2>2 DEF Assigned
<1>4. Provisioning(tool') => Told(agent'[Board'], Assigned', tool'.seq)
  BY <1>3, ToldNothing
<1> QED BY <1>1, <1>2, <1>4 DEF Telling

(* A power cycle is the one step that makes a board forget.                *)
LEMMA NextTelling ==
  ASSUME SessionInv, Timely, MaxLate = 0, PoolDistinct, Rendezvous, Telling,
         [Next]_vars,
         \A h \in Hardware : ~Reboot(h)
  PROVE  Telling'
<1>1. CASE StartSession
  BY <1>1, StartFields DEF Telling, Provisioning, Planning
<1>2. CASE CloseWindow
  <2>1. /\ tool.phase = "discover" /\ tool'.phase \in {"failed", "send"}
        /\ tool'.ok = {} /\ tool'.at = 1 /\ tool'.seq = 0 /\ tool'.roles = tool.roles
        /\ up' = up /\ agent' = agent
    BY <1>2, CloseFields DEF CloseWindow
  <2>2. tool.roles[1] \in Role
    <3>1. tool.roles \in Seq(Role) /\ tool.roles # << >>
      BY <2>1 DEF SessionInv, ProvisioningInv, ToolOK, TypeOK, Tool
    <3>2. 1 \in 1..Len(tool.roles)
      BY <3>1, EmptySeq
    <3> QED BY <3>2, RoleAt
  <2>3. Told(agent'[Board'], Assigned', tool'.seq)
    BY <2>1, <2>2, ToldNothing DEF Assigned
  <2> QED BY <2>1, <2>3 DEF Telling
<1>3. CASE Send
  <2>1. Stays(tool, tool', "await", tool.seq, tool.try) /\ Provisioning(tool)
    BY <1>3, SendFields DEF Provisioning
  <2>2. up' = {} /\ agent' = agent
    BY <1>3 DEF Send, Rendezvous, Quiet
  <2> QED BY <2>1, <2>2 DEF Telling, Stays, Kept, Board, Assigned, Provisioning, Planning
<1>4. CASE LaptopReceive
  <2>1. PICK p \in up : Matches(p) /\ Judges(p, tool')
    BY <1>4, ReceivesCurrent
  <2>2. tool.phase = "await" /\ Provisioning(tool) /\ up' = {} /\ agent' = agent
    BY <1>4, ReceivesCurrent DEF LaptopReceive
  <2>3. CASE p.op = "ACK" /\ Stays(tool, tool', "send", tool.seq + 1, 0)
    <3>1. Told(agent[Board], Assigned, tool.seq + 1)
      BY <2>1, <2>2, <2>3 DEF Telling
    <3> QED BY <2>2, <2>3, <3>1 DEF Telling, Stays, Kept, Board, Assigned,
                                    Provisioning, Planning
  <2>4. CASE p.op = "NACK" /\ Leaves(tool, tool', tool.ok)
    BY <2>2, <2>4, LeavesTelling
  <2>5. CASE /\ p.op = "COMMIT_REPLY"
             /\ Leaves(tool, tool', IF Verified(p, Assigned) THEN tool.ok \cup {Board}
                                    ELSE tool.ok)
    <3>1. Current.op = "COMMIT_REQUEST"
      BY <2>1, <2>5 DEF Matches
    <3>2. Fed(agent[Board], Assigned)
      BY <2>2, <3>1, CurrentSent DEF Telling, Fed
    <3>3. PICK ok : ok = IF Verified(p, Assigned) THEN tool.ok \cup {Board} ELSE tool.ok
      OBVIOUS
    <3> QED BY <2>2, <2>5, <3>2, <3>3, LeavesTelling
  <2> QED BY <2>1, <2>3, <2>4, <2>5 DEF Judges
<1>5. CASE Timeout
  <2>1. tool.phase = "await" /\ Provisioning(tool) /\ up' = {} /\ agent' = agent
    BY <1>5, TimeoutFields, TimeoutQuiet DEF Timeout, Provisioning, Quiet
  <2>2. CASE Stays(tool, tool', "send", tool.seq, tool.try + 1)
    BY <2>1, <2>2 DEF Telling, Stays, Kept, Board, Assigned, Provisioning, Planning
  <2>3. CASE Leaves(tool, tool', tool.ok)
    BY <2>1, <2>3, LeavesTelling
  <2> QED BY <1>5, <2>2, <2>3, TimeoutFields
<1>6. CASE Lose
  BY <1>6 DEF Lose, Telling, Board, Assigned
<1>7. ASSUME NEW h \in Hardware, Hello(h) PROVE Telling'
  BY <1>7, HelloFields DEF Telling, Provisioning, Planning
<1>8. ASSUME NEW h \in Hardware, Receive(h) PROVE Telling'
  <2>0. agent \in [Hardware -> Agent]
    BY DEF SessionInv, TypeOK
  <2>1. tool' = tool /\ \A g \in Hardware \ {h} : agent'[g] = agent[g]
    BY <1>8, Delivered
  <2>2. CASE /\ tool.phase = "await" /\ Provisioning(tool) /\ h = Board
             /\ up = {} /\ Handled(h)
    <3>1. /\ Told(agent'[h], Assigned, tool.seq)
          /\ \A p \in up' : p.op = "ACK" => Told(agent'[h], Assigned, tool.seq + 1)
      <4>1. Told(agent[h], Assigned, tool.seq) /\ Sent(Assigned, tool.seq, CurrentMessage)
            /\ agent[h] \in Agent /\ Assigned \in Role /\ tool.seq \in Nat
        BY <2>0, <2>2, CurrentSent, AtDevice DEF Telling
      <4>2. CASE agent'[h] = agent[h] /\ up' = {}
        BY <4>1, <4>2
      <4>3. CASE /\ up' = Replies(agent[h], CurrentMessage)
                 /\ agent'[h] = OnSetupPacket(agent[h], CurrentMessage)
        BY <4>1, <4>3, ToldStep
      <4> QED BY <2>2, <4>2, <4>3 DEF Handled
    <3>2. ASSUME NEW i \in 1..Len(tool.roles), tool.boards[i] \in tool.ok
          PROVE  Fed(agent'[tool.boards[i]], tool.roles[i])
      <4>1. tool.boards[i] \in Hardware \ {h} /\ Planning(tool)
        BY <2>2, <3>2, OkElsewhere, PlannedBoard DEF Provisioning, Planning
      <4> QED BY <2>1, <3>2, <4>1 DEF Telling
    <3> QED BY <2>1, <2>2, <3>1, <3>2 DEF Telling, Board, Assigned
  <2>3. CASE tool.phase = "done" /\ up' = {} /\ Started(agent[h], agent'[h])
    <3>1. ASSUME NEW i \in 1..Len(tool.roles), tool.boards[i] \in tool.ok
          PROVE  Fed(agent'[tool.boards[i]], tool.roles[i])
      <4>1. tool.boards[i] \in Hardware /\ Fed(agent[tool.boards[i]], tool.roles[i])
        BY <2>3, <3>1, PlannedBoard DEF Planning, Telling
      <4>2. CASE tool.boards[i] = h
        BY <2>3, <4>1, <4>2, StillTold DEF Started, SameBackup, Fed
      <4>3. CASE tool.boards[i] # h
        BY <2>1, <4>1, <4>3
      <4> QED BY <4>2, <4>3
    <3> QED BY <2>1, <2>3, <3>1 DEF Telling, Provisioning, Planning
  <2> QED BY <1>8, <2>2, <2>3, Delivered
<1>9. ASSUME NEW h \in Hardware, Reboot(h) PROVE FALSE
  BY <1>9
<1>10. CASE UNCHANGED vars
  BY <1>10 DEF vars, Telling, Board, Assigned
<1> QED BY <1>1, <1>2, <1>3, <1>4, <1>5, <1>6, <1>7, <1>8, <1>9, <1>10 DEF Next

-----------------------------------------------------------------------------
(* In the first session, while no board is power-cycled, a board not yet   *)
(* provisioned is as it left the factory, and a backup role is held only by*)
(* boards that the plan gives one.                                         *)
FirstSession == tool.session <= 1 /\ faults.reboot = 0

(* Before, while and after the first session provisions.                   *)
Fresh ==
  /\ tool.session = 0 => tool.phase = "idle"
  /\ tool.phase \in {"idle", "discover"} => \A h \in Hardware : agent[h] = Blank
  /\ Provisioning(tool) =>
       \A h \in Hardware : /\ agent[h].state # "RUNNING"
                           /\ \/ agent[h] = Blank
                              \/ \E i \in 1..tool.at : tool.boards[i] = h
  /\ Planning(tool) =>
       \A i \in 1..Len(tool.roles) :
         agent[tool.boards[i]].hasBackup => tool.roles[i].backup

(* No setup message but BACKUP_ROLE_INFO gives a backup duty, and none     *)
(* runs a board.                                                           *)
LEMMA SetupChanges ==
  ASSUME NEW a \in Agent, NEW r \in Role, NEW k \in Nat, NEW m, Sent(r, k, m),
         a.state # "RUNNING", NEW b, b = OnSetupPacket(a, m)
  PROVE  /\ b.state # "RUNNING"
         /\ b.hasBackup => a.hasBackup \/ r.backup
<1>0. MessageOK(m) /\ Stands(r, k + 1, m) /\ m.role = r
  BY DEF Sent, MessageOK, Message
<1>1. CASE m.op = "ASSIGN_ADDRESS"
  <2>1. SameBackup(a, b) /\ b.state = a.state
    BY <1>1, AssignEffect DEF OnSetupPacket
  <2> QED BY <2>1 DEF SameBackup, SameDuty
<1>2. CASE m.op = "TOPOLOGY_INFO"
  <2>1. SameBackup(a, b) /\ Busy(b)
    BY <1>0, <1>2, TopologyEffect DEF OnSetupPacket
  <2> QED BY <2>1 DEF SameBackup, SameDuty, Busy, Collecting
<1>3. CASE m.op = "WEIGHTS_CHUNK"
  <2>1. b = HandleWeightsChunk(a, m)
    BY <1>3 DEF OnSetupPacket
  <2>2. CASE Collecting(a) /\ InRange(a, m)
    <3>1. SameBackup(a, b) /\ Busy(b)
      BY <1>0, <2>1, <2>2, WeightsEffect
    <3> QED BY <3>1 DEF SameBackup, SameDuty, Busy, Collecting
  <2>3. CASE ~(Collecting(a) /\ InRange(a, m))
    <3>1. b = a
      BY <2>1, <2>3 DEF HandleWeightsChunk
    <3> QED BY <3>1
  <2> QED BY <2>2, <2>3
<1>4. CASE m.op = "BACKUP_ROLE_INFO" /\ r.backup
  <2>1. b = HandleBackupRoleInfo(a, m)
    BY <1>4 DEF OnSetupPacket
  <2>2. CASE Collecting(a)
    <3>1. Busy(b)
      BY <1>0, <2>1, <2>2, BackupRoleEffect
    <3> QED BY <1>4, <3>1 DEF Busy, Collecting
  <2>3. CASE ~Collecting(a)
    <3>1. b = a
      BY <2>1, <2>3 DEF HandleBackupRoleInfo
    <3> QED BY <3>1
  <2> QED BY <2>2, <2>3
<1>5. CASE m.op = "BACKUP_WEIGHTS_CHUNK" /\ r.backup
  <2>1. b = HandleBackupWeightsChunk(a, m)
    BY <1>5 DEF OnSetupPacket
  <2>2. CASE a.hasBackup /\ Collecting(a) /\ BackupInRange(a, m)
    <3>1. Busy(b)
      BY <1>0, <2>1, <2>2, BackupWeightsEffect
    <3> QED BY <1>5, <3>1 DEF Busy, Collecting
  <2>3. CASE ~(a.hasBackup /\ Collecting(a) /\ BackupInRange(a, m))
    <3>1. b = a
      BY <2>1, <2>3 DEF HandleBackupWeightsChunk
    <3> QED BY <3>1
  <2> QED BY <2>2, <2>3
<1>6. CASE m.op = "INPUT_VALUE"
  <2>1. SameBackup(a, b) /\ b.state = a.state
    BY <1>6, InputEffect DEF OnSetupPacket
  <2> QED BY <2>1 DEF SameBackup, SameDuty
<1>7. CASE m.op = "COMMIT_REQUEST"
  <2>1. SameBackup(a, b) /\ b.state = IF a.state = "VERIFYING" THEN "CONFIGURED" ELSE a.state
    BY <1>7, CommitEffect DEF OnSetupPacket
  <2> QED BY <2>1 DEF SameBackup, SameDuty
<1> QED BY <1>0, <1>1, <1>2, <1>3, <1>4, <1>5, <1>6, <1>7 DEF Stands

LEMMA BlankFields ==
  /\ Blank.state = "UNCONFIGURED" /\ Blank.hasBackup = FALSE
  /\ Blank.expected = 0 /\ Blank.bexpected = 0 /\ Blank \in Agent
BY BlankOK DEF Blank, AgentOK

(* No step leads back to the first session.                                *)
LEMMA FirstKept ==
  ASSUME SessionInv, [Next]_vars, FirstSession'
  PROVE  FirstSession
<1>0. /\ faults \in Faults
      /\ tool.session \in Nat /\ faults.reboot \in Nat
  BY ProvisioningAssumption DEF SessionInv, TypeOK, Tool, Faults
<1>1. CASE StartSession
  BY <1>0, <1>1, StartFields DEF StartSession, FirstSession
<1>2. CASE CloseWindow
  BY <1>2, CloseFields DEF CloseWindow, FirstSession
<1>3. CASE Send
  BY <1>3, SendFields DEF Send, FirstSession, Stays, Kept
<1>4. CASE LaptopReceive
  <2>1. tool'.session = tool.session
    BY <1>4, ReceiveFields DEF Judges, Stays, Leaves, Kept
  <2> QED BY <1>4, <2>1 DEF LaptopReceive, FirstSession
<1>5. CASE Timeout
  <2>1. faults'.reboot = faults.reboot
    BY <1>0, <1>5, TimeoutFields DEF TimedOut, Faults
  <2> QED BY <1>5, <2>1, TimeoutFields DEF FirstSession, Stays, Leaves, Kept
<1>6. CASE Lose
  BY <1>0, <1>6 DEF Lose, FirstSession, Faults
<1>7. ASSUME NEW h \in Hardware, Hello(h) PROVE FirstSession
  BY <1>7, HelloFields DEF Hello, FirstSession
<1>8. ASSUME NEW h \in Hardware, Receive(h) PROVE FirstSession
  BY <1>8 DEF Receive, FirstSession
<1>9. ASSUME NEW h \in Hardware, Reboot(h) PROVE FirstSession
  <2>1. faults'.reboot = faults.reboot + 1
    BY <1>0, <1>9, RebootCounts
  <2> QED BY <1>0, <2>1 DEF FirstSession
<1>10. CASE UNCHANGED vars
  BY <1>10 DEF vars, FirstSession
<1> QED BY <1>1, <1>2, <1>3, <1>4, <1>5, <1>6, <1>7, <1>8, <1>9, <1>10 DEF Next

(* The next device leaves the boards alone.                                *)
LEMMA LeavesFresh ==
  ASSUME SessionInv, Provisioning(tool), Fresh, NEW ok, Leaves(tool, tool', ok),
         agent' = agent
  PROVE  Fresh'
<1>1. /\ tool'.roles = tool.roles /\ tool'.boards = tool.boards
      /\ tool'.session = tool.session /\ tool.session # 0
      /\ Planning(tool) /\ tool.at \in Nat
      /\ tool'.phase \in {"send", "done", "failed"}
      /\ Provisioning(tool') => tool'.at = tool.at + 1
  BY AtDevice DEF Leaves, Kept, Provisioning, Planning, Fresh
<1> QED BY <1>1 DEF Fresh, Provisioning, Planning

(* By the deliveries of the device being provisioned.                      *)
LEMMA NextFresh ==
  ASSUME SessionInv, Timely, MaxLate = 0, PoolDistinct, Rendezvous, Fresh,
         [Next]_vars,
         FirstSession'
  PROVE  Fresh'
<1>0. /\ tool.session \in Nat /\ FirstSession
  BY FirstKept DEF SessionInv, TypeOK, Tool
<1>1. CASE StartSession
  <2>1. tool.session = 0 /\ tool'.session = 1
    BY <1>0, <1>1, StartFields DEF FirstSession
  <2> QED BY <1>1, <2>1, StartFields DEF StartSession, Fresh, Provisioning, Planning
<1>2. CASE CloseWindow
  <2>1. /\ tool.phase = "discover" /\ tool'.phase \in {"failed", "send"}
        /\ tool'.session = tool.session /\ agent' = agent
        /\ \A h \in Hardware : agent[h] = Blank
    BY <1>2, CloseFields DEF CloseWindow, Fresh
  <2>2. Planning(tool') =>
          \A i \in 1..Len(tool'.roles) : tool'.boards[i] \in Hardware
    <3>1. tool' \in Tool /\ PlanOf(tool')
      BY <1>2, CloseFields
    <3> QED BY <3>1, ElementOfSeq DEF Tool, PlanOf
  <2> QED BY <2>1, <2>2, BlankFields DEF Fresh
<1>3. CASE Send
  <2>1. Stays(tool, tool', "await", tool.seq, tool.try) /\ Provisioning(tool)
    BY <1>3, SendFields DEF Provisioning
  <2>2. agent' = agent
    BY <1>3 DEF Send
  <2> QED BY <2>1, <2>2 DEF Fresh, Stays, Kept, Provisioning, Planning
<1>4. CASE LaptopReceive
  <2>1. PICK p \in up : Judges(p, tool')
    BY <1>4, ReceivesCurrent
  <2>2. Provisioning(tool) /\ agent' = agent
    BY <1>4, ReceivesCurrent DEF LaptopReceive
  <2>3. ASSUME Stays(tool, tool', "send", tool.seq + 1, 0) PROVE Fresh'
    BY <2>2, <2>3 DEF Fresh, Stays, Kept, Provisioning, Planning
  <2>4. ASSUME NEW ok, Leaves(tool, tool', ok) PROVE Fresh'
    BY <2>2, <2>4, LeavesFresh
  <2> QED BY <2>1, <2>3, <2>4 DEF Judges
<1>5. CASE Timeout
  <2>1. Provisioning(tool) /\ agent' = agent
    BY <1>5, TimeoutFields DEF Timeout, Provisioning
  <2>2. CASE Stays(tool, tool', "send", tool.seq, tool.try + 1)
    BY <2>1, <2>2 DEF Fresh, Stays, Kept, Provisioning, Planning
  <2>3. CASE Leaves(tool, tool', tool.ok)
    BY <2>1, <2>3, LeavesFresh
  <2> QED BY <1>5, <2>2, <2>3, TimeoutFields
<1>6. CASE Lose
  BY <1>6 DEF Lose, Fresh
<1>7. ASSUME NEW h \in Hardware, Hello(h) PROVE Fresh'
  BY <1>7, HelloFields DEF Hello, Fresh, Provisioning, Planning
<1>8. ASSUME NEW h \in Hardware, Receive(h) PROVE Fresh'
  <2>0. agent[h] \in Agent
    BY DEF SessionInv, TypeOK
  <2>1. tool' = tool /\ \A g \in Hardware \ {h} : agent'[g] = agent[g]
    BY <1>8, Delivered
  <2>2. CASE /\ tool.phase = "await" /\ Provisioning(tool) /\ h = Board
             /\ up = {} /\ Handled(h)
    <3>1. /\ agent'[h].state # "RUNNING"
          /\ agent'[h].hasBackup => agent[h].hasBackup \/ Assigned.backup
      <4>1. Sent(Assigned, tool.seq, CurrentMessage)
            /\ Assigned \in Role /\ tool.seq \in Nat /\ agent[h].state # "RUNNING"
        BY <2>2, CurrentSent, AtDevice DEF Fresh
      <4>2. CASE agent'[h] = agent[h]
        BY <4>1, <4>2
      <4>3. CASE agent'[h] = OnSetupPacket(agent[h], CurrentMessage)
        BY <2>0, <4>1, <4>3, SetupChanges
      <4> QED BY <2>2, <4>2, <4>3 DEF Handled
    <3>2. tool.at \in 1..tool.at /\ tool.boards[tool.at] = h /\ Planning(tool)
          /\ tool.at \in 1..Len(tool.roles)
      BY <2>2, AtDevice DEF Board, Planning, Provisioning
    <3>3. ASSUME NEW i \in 1..Len(tool.roles), agent'[tool.boards[i]].hasBackup
          PROVE  tool.roles[i].backup
      <4>1. CASE i = tool.at
        BY <3>1, <3>2, <3>3, <4>1 DEF Assigned, Fresh
      <4>2. CASE i # tool.at
        <5>1. tool.boards[i] \in Hardware \ {h}
          BY <2>2, <3>2, <4>2, OkElsewhere, PlannedBoard
        <5> QED BY <2>1, <3>2, <3>3, <5>1 DEF Fresh
      <4> QED BY <4>1, <4>2
    <3>4. ASSUME NEW g \in Hardware
          PROVE  /\ agent'[g].state # "RUNNING"
                 /\ agent'[g] = Blank \/ \E i \in 1..tool.at : tool.boards[i] = g
      <4>1. CASE g = h
        BY <3>1, <3>2, <4>1
      <4>2. CASE g # h
        BY <2>1, <2>2, <4>2 DEF Fresh
      <4> QED BY <4>1, <4>2
    <3> QED BY <2>1, <2>2, <3>3, <3>4 DEF Fresh
  <2>3. CASE tool.phase = "done" /\ up' = {} /\ Started(agent[h], agent'[h])
    <3>1. ASSUME NEW i \in 1..Len(tool.roles), agent'[tool.boards[i]].hasBackup
          PROVE  tool.roles[i].backup
      <4>1. tool.boards[i] \in Hardware /\ Planning(tool)
        BY <2>3, PlannedBoard DEF Planning
      <4>2. agent[tool.boards[i]].hasBackup
        BY <2>1, <2>3, <3>1, <4>1 DEF Started, SameBackup, SameDuty
      <4> QED BY <4>1, <4>2 DEF Fresh
    <3> QED BY <2>1, <2>3, <3>1 DEF Fresh, Provisioning
  <2> QED BY <1>8, <2>2, <2>3, Delivered
<1>9. ASSUME NEW h \in Hardware, Reboot(h) PROVE FALSE
  BY <1>9, NoReboot DEF FirstSession
<1>10. CASE UNCHANGED vars
  BY <1>10 DEF vars, Fresh
<1> QED BY <1>1, <1>2, <1>3, <1>4, <1>5, <1>6, <1>7, <1>8, <1>9, <1>10 DEF Next

-----------------------------------------------------------------------------
FirstInv == ConfirmedInv /\ (FirstSession => Telling /\ Fresh)

LEMMA First ==
  ASSUME Timely, MaxLate = 0, PoolDistinct
  PROVE  Spec => []FirstInv
<1>1. Init => FirstInv
  <2>1. Init => Telling /\ Fresh
    BY DEF Init, Telling, Fresh, Provisioning, Planning
  <2>2. Init => Verdicts
    BY DEF Init, Verdicts, Planning, Blank
  <2> QED BY <2>1, <2>2, InitSession, InitRendezvous DEF FirstInv, ConfirmedInv
<1>2. FirstInv /\ [Next]_vars => FirstInv'
  <2> SUFFICES ASSUME FirstInv, [Next]_vars PROVE FirstInv'
    OBVIOUS
  <2>1. SessionInv /\ Rendezvous /\ Verdicts
    BY DEF FirstInv, ConfirmedInv
  <2>2. ConfirmedInv'
    BY <2>1, NextSession, NextRendezvous, NextVerdicts DEF ConfirmedInv
  <2>3. ASSUME FirstSession' PROVE Telling' /\ Fresh'
    <3>1. Telling /\ Fresh /\ faults'.reboot = 0
      BY <2>1, <2>3, FirstKept DEF FirstInv, FirstSession
    <3> QED BY <2>1, <2>3, <3>1, NoReboot, NextTelling, NextFresh
  <2> QED BY <2>2, <2>3 DEF FirstInv
<1> QED BY <1>1, <1>2, PTL DEF Spec

(* In the first session of boards that stay powered, whatever is lost, a   *)
(* board of the plan that obeys START plays exactly the role the manifest  *)
(* gives it: its address and layer, its weights, the backup duty it has or *)
(* has not, its input.                                                     *)
THEOREM PlayedAsPlanned ==
  Timely /\ MaxLate = 0 /\ PoolDistinct
    => (Spec => [](FirstSession => StartedAsPlanned))
<1> SUFFICES ASSUME Timely, MaxLate = 0, PoolDistinct
             PROVE  Spec => [](FirstSession => StartedAsPlanned)
  OBVIOUS
<1>1. FirstInv => (FirstSession => StartedAsPlanned)
  <2> SUFFICES ASSUME FirstInv, FirstSession, tool.phase = "done",
                      NEW i \in DOMAIN tool.boards, Obeying(agent[tool.boards[i]])
               PROVE  PlaysRole(agent[tool.boards[i]], tool.roles[i])
    BY DEF StartedAsPlanned, Obeying
  <2>1. ConfirmedInv /\ Telling /\ Fresh /\ Planning(tool) /\ SessionInv
    BY DEF FirstInv, Planning, ConfirmedInv
  <2>2. i \in 1..Len(tool.roles) /\ SettledAt(tool.boards[i], tool.roles[i])
    BY <2>1, DoneSettled
  <2>3. tool.boards[i] \in tool.ok /\ tool.boards[i] \in Hardware
        /\ tool.roles[i] \in Role
    BY <2>1, <2>2, PlannedBoard DEF SessionInv, PlanOf
  <2>4. PICK a, r : a = agent[tool.boards[i]] /\ r = tool.roles[i]
    OBVIOUS
  <2>5. /\ a \in Agent /\ r \in Role /\ Fed(a, r) /\ Carries(a, r)
        /\ a.hasBackup => r.backup
    BY <2>1, <2>2, <2>3, <2>4, AgentsOf DEF Telling, Fresh, SettledAt, Settled
  <2>6. /\ LastSlot(r) - 1 >= 2 /\ (r.backup => LastSlot(r) - 1 >= 3)
        /\ LastSlot(r) \in Nat /\ r.backup \in BOOLEAN
    BY <2>5, SlotsType
  <2>7. /\ a.addr = r.addr /\ a.ownLayer = r.addr.layer /\ a.topology = r
        /\ r.backup => a.hasBackup /\ a.backup = r
        /\ r.seed => a.input = r
    BY <2>5, <2>6 DEF Fed, Told
  <2>8. a.hasBackup = r.backup
    <3>1. a.hasBackup \in BOOLEAN /\ r.backup \in BOOLEAN
      BY <2>5, <2>6 DEF Agent
    <3> QED BY <2>5, <2>7, <3>1
  <2>9. PlaysRole(a, r)
    BY <2>5, <2>7, <2>8 DEF PlaysRole, Carries
  <2> QED BY <2>4, <2>9
<1> QED BY <1>1, First, PTL

-----------------------------------------------------------------------------
(* Addresses.  No board loses power while a session provisions.            *)
PoweredWhileBusy == \A h \in Hardware : Reboot(h) => Over

(* Every network of the user takes the same boards of the pool, and gives  *)
(* no address twice.                                                       *)
SameBoards == \A net \in Networks : /\ \A other \in Networks : Len(net) = Len(other)
                                    /\ Dynamic => Len(net) = Len(Pool)
UniqueAddresses ==
  \A net \in Networks : \A i, j \in 1..Len(net) : net[i].addr = net[j].addr => i = j

(* A board that obeys START, or would after a power cycle, has the address *)
(* of r.                                                                   *)
AddressOf(a, s, r) == /\ Obeying(a) => a.addr = r.addr
                      /\ Persistent => s.addr = r.addr
AddressAt(h, r) == AddressOf(agent[h], saved[h], r)

(* As Verdicts, of the address.                                            *)
Addressed ==
  /\ Planning(tool) =>
       \A i \in 1..Len(tool.roles) :
         tool.boards[i] \in tool.ok => AddressAt(tool.boards[i], tool.roles[i])
  /\ tool.phase = "await" =>
       \A p \in up : Confirms(p) => AddressAt(Board, Assigned)

(* Before START is broadcast.                                              *)
ToldSoFar == tool.phase # "done" => Telling

(* After START a session may forget: it tells no more.                     *)
LEMMA NextTold ==
  ASSUME SessionInv, Timely, MaxLate = 0, PoolDistinct, Rendezvous, ToldSoFar,
         [Next]_vars,
         PoweredWhileBusy
  PROVE  ToldSoFar'
<1> SUFFICES ASSUME tool'.phase # "done" PROVE Telling'
  BY DEF ToldSoFar
<1>1. CASE tool.phase = "done"
  <2>1. ~Provisioning(tool') /\ ~Planning(tool') /\ tool'.phase # "await"
    <3>1. CASE StartSession
      BY <3>1, StartFields DEF Provisioning, Planning
    <3>2. CASE LaptopReceive
      BY <1>1, <3>2, ReceivesCurrent
    <3>3. CASE tool' = tool
      BY <1>1, <3>3
    <3>4. tool' = tool \/ StartSession \/ LaptopReceive
      BY <1>1 DEF Next, vars, CloseWindow, Send, Timeout, Lose, Hello, Receive, Reboot
    <3> QED BY <3>1, <3>2, <3>3, <3>4
  <2> QED BY <2>1 DEF Telling
<1>2. CASE tool.phase # "done" /\ \A h \in Hardware : ~Reboot(h)
  BY <1>2, NextTelling DEF ToldSoFar
<1>3. ASSUME tool.phase # "done", NEW h \in Hardware, Reboot(h) PROVE Telling'
  <2>1. tool' = tool /\ ~Provisioning(tool) /\ ~Planning(tool)
    BY <1>3 DEF PoweredWhileBusy, Over, Reboot, Provisioning, Planning
  <2> QED BY <2>1 DEF Telling, Provisioning, Planning
<1> QED BY <1>1, <1>2, <1>3

(* The reply to the commit of a board that was told its address.           *)
LEMMA CommitAddress ==
  ASSUME NEW a \in Agent, NEW m \in Message, m.op = "COMMIT_REQUEST",
         NEW r \in Role, Told(a, r, LastSlot(r) - 1)
  PROVE  /\ OnSetupPacket(a, m).addr = r.addr
         /\ Persisted(OnSetupPacket(a, m)).addr = r.addr
<1>1. LastSlot(r) - 1 >= 1
  BY SlotsType
<1>2. a.addr = r.addr
  BY <1>1 DEF Told
<1>3. PICK b : b = OnSetupPacket(a, m)
  OBVIOUS
<1>4. b.addr = r.addr
  BY <1>2, <1>3, CommitEffect DEF OnSetupPacket, SamePlace
<1>5. Persisted(b).addr = b.addr
  BY DEF Persisted, Blank
<1> QED BY <1>3, <1>4, <1>5

LEMMA LeavesAddressed ==
  ASSUME SessionInv, Provisioning(tool), PoolDistinct, Addressed,
         NEW ok, Leaves(tool, tool', ok), agent' = agent, saved' = saved, up' = {},
         \A h \in ok \ tool.ok : h = Board /\ AddressAt(Board, Assigned)
  PROVE  Addressed'
<1>1. /\ tool'.roles = tool.roles /\ tool'.boards = tool.boards /\ tool'.ok = ok
      /\ Planning(tool)
  BY DEF Leaves, Kept, Provisioning, Planning
<1>2. ASSUME NEW i \in 1..Len(tool.roles), tool.boards[i] \in ok
      PROVE  AddressAt(tool.boards[i], tool.roles[i])
  <2>1. CASE tool.boards[i] \in tool.ok
    BY <1>1, <2>1 DEF Addressed
  <2>2. CASE tool.boards[i] \notin tool.ok
    <3>1. tool.boards[i] = Board /\ AddressAt(Board, Assigned)
      BY <1>2, <2>2
    <3>2. i = tool.at
      BY <3>1, OkElsewhere
    <3> QED BY <3>1, <3>2 DEF Assigned
  <2> QED BY <2>1, <2>2
<1> QED BY <1>1, <1>2 DEF Addressed, AddressAt

(* As NextVerdicts, of the address.                                        *)
LEMMA NextAddressed ==
  ASSUME SessionInv, Timely, MaxLate = 0, PoolDistinct, Rendezvous, Verdicts,
         ToldSoFar,
         Addressed, [Next]_vars, PoweredWhileBusy
  PROVE  Addressed'
<1>0. agent \in [Hardware -> Agent] /\ saved \in [Hardware -> Agent]
  BY DEF SessionInv, TypeOK
<1>1. CASE StartSession
  BY <1>1, StartFields DEF Addressed, Planning
<1>2. CASE CloseWindow
  BY <1>2, CloseFields DEF Addressed, Planning
<1>3. CASE Send
  <2>1. Stays(tool, tool', "await", tool.seq, tool.try) /\ tool.phase = "send"
    BY <1>3, SendFields
  <2>2. up' = {} /\ agent' = agent /\ saved' = saved
    BY <1>3, <2>1 DEF Send, Rendezvous, Quiet
  <2> QED BY <2>1, <2>2 DEF Addressed, Stays, Kept, Planning, AddressAt
<1>4. CASE LaptopReceive
  <2>1. PICK p \in up : Judges(p, tool')
    BY <1>4, ReceivesCurrent
  <2>2. /\ tool.phase = "await" /\ Provisioning(tool) /\ up' = {}
        /\ agent' = agent /\ saved' = saved
    BY <1>4, ReceivesCurrent DEF LaptopReceive
  <2>3. ASSUME Stays(tool, tool', "send", tool.seq + 1, 0) PROVE Addressed'
    BY <2>2, <2>3 DEF Addressed, Stays, Kept, Planning, AddressAt
  <2>4. CASE p.op = "NACK" /\ Leaves(tool, tool', tool.ok)
    BY <2>2, <2>4, LeavesAddressed
  <2>5. CASE /\ p.op = "COMMIT_REPLY"
             /\ Leaves(tool, tool', IF Verified(p, Assigned) THEN tool.ok \cup {Board}
                                    ELSE tool.ok)
    <3>1. PICK ok : ok = IF Verified(p, Assigned) THEN tool.ok \cup {Board} ELSE tool.ok
      OBVIOUS
    <3>2. Verified(p, Assigned) => AddressAt(Board, Assigned)
      BY <2>2, <2>5 DEF Addressed, Confirms
    <3> QED BY <2>2, <2>5, <3>1, <3>2, LeavesAddressed
  <2> QED BY <2>1, <2>3, <2>4, <2>5 DEF Judges
<1>5. CASE Timeout
  <2>1. /\ tool.phase = "await" /\ Provisioning(tool) /\ up' = {}
        /\ agent' = agent /\ saved' = saved
    BY <1>5, TimeoutFields, TimeoutQuiet DEF Timeout, Provisioning, Quiet
  <2>2. CASE Stays(tool, tool', "send", tool.seq, tool.try + 1)
    BY <2>1, <2>2 DEF Addressed, Stays, Kept, Planning, AddressAt
  <2>3. CASE Leaves(tool, tool', tool.ok)
    BY <2>1, <2>3, LeavesAddressed
  <2> QED BY <1>5, <2>2, <2>3, TimeoutFields
<1>6. CASE Lose
  <2>1. up' \subseteq up /\ UNCHANGED <<tool, agent, saved>>
    BY <1>6 DEF Lose
  <2> QED BY <2>1 DEF Addressed, AddressAt, Board, Assigned, Confirms
<1>7. ASSUME NEW h \in Hardware, Hello(h) PROVE Addressed'
  BY <1>7, HelloFields DEF Hello, Addressed, Planning
<1>8. ASSUME NEW h \in Hardware, Receive(h) PROVE Addressed'
  <2>1. /\ tool' = tool
        /\ \A g \in Hardware \ {h} : agent'[g] = agent[g] /\ saved'[g] = saved[g]
        /\ saved'[h] = IF Persistent /\ agent[h].state = "VERIFYING"
                          /\ agent'[h].state = "CONFIGURED"
                       THEN Persisted(agent'[h]) ELSE saved[h]
    BY <1>8, Delivered
  <2>2. CASE /\ tool.phase = "await" /\ Provisioning(tool) /\ h = Board
             /\ up = {} /\ Handled(h)
    <3>1. ASSUME NEW i \in 1..Len(tool.roles), tool.boards[i] \in tool.ok
          PROVE  AddressAt(tool.boards[i], tool.roles[i])'
      <4>1. tool.boards[i] \in Hardware \ {h} /\ Planning(tool)
        BY <2>2, <3>1, OkElsewhere, PlannedBoard DEF Provisioning, Planning
      <4> QED BY <2>1, <3>1, <4>1 DEF Addressed, AddressAt
    <3>2. ASSUME NEW p \in up', Confirms(p) PROVE AddressAt(Board, Assigned)'
      <4>1. PICK m : m = CurrentMessage
        OBVIOUS
      <4>2. /\ m \in Message /\ agent[h] \in Agent /\ Assigned \in Role
            /\ Told(agent[h], Assigned, tool.seq)
            /\ m.op = "COMMIT_REQUEST" => tool.seq = LastSlot(Assigned) - 1
        BY <2>2, <4>1, CurrentFields, CurrentSent, AgentsOf, AtDevice
           DEF ToldSoFar, Telling
      <4>3. Replies(agent[h], m) = {p} /\ m.op = "COMMIT_REQUEST"
            /\ agent'[h] = OnSetupPacket(agent[h], m)
        BY <2>2, <3>2, <4>1, <4>2, RepliesFields DEF Handled, Confirms, AnswerOp, Answers
      <4>4. p = CommitReply(agent[h], m)
        BY <4>3 DEF Replies
      <4>5. agent[h].state = "VERIFYING" /\ agent'[h].state = "CONFIGURED"
        BY <3>2, <4>2, <4>3, <4>4, CommitCarries DEF Confirms
      <4>6. agent'[h].addr = Assigned.addr /\ Persisted(agent'[h]).addr = Assigned.addr
        BY <4>2, <4>3, CommitAddress
      <4>7. AddressOf(agent'[h], saved'[h], Assigned)
        BY <2>1, <4>5, <4>6 DEF AddressOf
      <4>8. Board' = h /\ Assigned' = Assigned
        BY <2>1, <2>2 DEF Board, Assigned
      <4> QED BY <4>7, <4>8 DEF AddressAt
    <3>3. \A p : Confirms(p)' => Confirms(p)
      BY <2>1 DEF Confirms, Assigned
    <3> QED BY <2>1, <3>1, <3>2, <3>3 DEF Addressed
  <2>3. CASE tool.phase = "done" /\ up' = {} /\ Started(agent[h], agent'[h])
    <3>1. saved'[h] = saved[h]
      BY <2>1, <2>3 DEF Started
    <3>2. ASSUME NEW i \in 1..Len(tool.roles), tool.boards[i] \in tool.ok
          PROVE  AddressAt(tool.boards[i], tool.roles[i])'
      <4>1. PICK g \in Hardware : g = tool.boards[i]
        BY <2>3, PlannedBoard DEF Planning
      <4>2. AddressOf(agent[g], saved[g], tool.roles[i])
        BY <2>3, <3>2, <4>1 DEF Addressed, Planning, AddressAt
      <4>3. AddressOf(agent'[g], saved'[g], tool.roles[i])
        <5>1. CASE g = h
          BY <2>3, <3>1, <4>2, <5>1 DEF AddressOf, Started, SamePlace, Obeying
        <5>2. CASE g # h
          BY <2>1, <4>2, <5>2
        <5> QED BY <5>1, <5>2
      <4> QED BY <2>1, <4>1, <4>3 DEF AddressAt
    <3> QED BY <2>1, <2>3, <3>2 DEF Addressed
  <2> QED BY <1>8, <2>2, <2>3, Delivered
<1>9. ASSUME NEW h \in Hardware, Reboot(h) PROVE Addressed'
  <2>1. /\ tool' = tool /\ saved' = saved /\ tool.phase # "await"
        /\ agent' = [agent EXCEPT ![h] = Booted(saved[h])]
    BY <1>9 DEF Reboot, PoweredWhileBusy, Over
  <2>2. Booted(saved[h]).addr = saved[h].addr /\ Booted(saved[h]).state = saved[h].state
    BY <1>0 DEF Booted, Agent
  <2>3. ASSUME Planning(tool), NEW i \in 1..Len(tool.roles), tool.boards[i] \in tool.ok
        PROVE  AddressAt(tool.boards[i], tool.roles[i])'
    <3>1. PICK g \in Hardware : g = tool.boards[i]
      BY <2>3, PlannedBoard
    <3>2. AddressOf(agent[g], saved[g], tool.roles[i])
      BY <2>3, <3>1 DEF Addressed, AddressAt
    <3>3. AddressOf(agent'[g], saved'[g], tool.roles[i])
      <4>1. CASE g = h
        BY <1>0, <2>1, <2>2, <3>2, <4>1 DEF AddressOf, Verdicts, Obeying
      <4>2. CASE g # h
        BY <1>0, <2>1, <3>2, <4>2
      <4> QED BY <4>1, <4>2
    <3> QED BY <2>1, <3>1, <3>3 DEF AddressAt
  <2> QED BY <2>1, <2>3 DEF Addressed
<1>10. CASE UNCHANGED vars
  BY <1>10 DEF vars, Addressed, AddressAt, Board, Assigned, Confirms
<1> QED BY <1>1, <1>2, <1>3, <1>4, <1>5, <1>6, <1>7, <1>8, <1>9, <1>10 DEF Next

-----------------------------------------------------------------------------
(* Boards no network takes are never configured.                           *)
Used(h) == \E i \in 1..Len(Pool) : Pool[i] = h /\ \A net \in Networks : i <= Len(net)

(* Nor does a store hold a running board.                                  *)
Bystanding ==
  \A h \in Hardware :
    /\ saved[h].state # "RUNNING"
    /\ Used(h) \/ (agent[h].state = "UNCONFIGURED" /\ saved[h].state = "UNCONFIGURED")

(* The boards of a plan are the first of the pool.                         *)
LEMMA BoardUsed ==
  ASSUME SessionInv, Planning(tool), SameBoards, NEW i \in 1..Len(tool.roles)
  PROVE  /\ tool.roles \in Networks
         /\ i \in 1..Len(Pool) /\ tool.boards[i] = Pool[i]
         /\ \A net \in Networks : Len(net) = Len(tool.roles)
<1>1. /\ PlanOf(tool) /\ tool.roles # << >>
      /\ tool.boards \in Seq(Hardware) /\ tool.roles \in Seq(Role)
  BY DEF SessionInv, ProvisioningInv, ToolOK, TypeOK, Tool, Planning
<1>2. tool.roles \in Networks
  BY <1>1 DEF PlanOf
<1>3. Len(tool.roles) <= Len(Pool) /\ Len(tool.boards) = Len(tool.roles)
      /\ \A j \in 1..Len(tool.roles) : tool.boards[j] = Pool[j]
  BY <1>1, <1>2 DEF PlanOf, SameBoards
<1>4. i \in 1..Len(Pool)
  BY <1>1, <1>3, ProvisioningAssumption
<1> QED BY <1>2, <1>3, <1>4 DEF SameBoards

(* A board is saved or configured only by its own messages.                *)
LEMMA NextBystanding ==
  ASSUME SessionInv, Timely, MaxLate = 0, Rendezvous, SameBoards, Bystanding,
         [Next]_vars
  PROVE  Bystanding'
<1>0. agent \in [Hardware -> Agent] /\ saved \in [Hardware -> Agent]
  BY DEF SessionInv, TypeOK
<1>1. ASSUME NEW h \in Hardware, Receive(h) PROVE Bystanding'
  <2>1. /\ \A g \in Hardware \ {h} : agent'[g] = agent[g] /\ saved'[g] = saved[g]
        /\ saved'[h] = IF Persistent /\ agent[h].state = "VERIFYING"
                          /\ agent'[h].state = "CONFIGURED"
                       THEN Persisted(agent'[h]) ELSE saved[h]
    BY <1>1, Delivered
  <2>2. saved'[h] = saved[h] \/ (saved'[h].state = "CONFIGURED"
                                /\ agent'[h].state = "CONFIGURED")
    BY <2>1 DEF Persisted, Blank
  <2>3. CASE tool.phase = "await" /\ Provisioning(tool) /\ h = Board
    <3>1. Used(h)
      <4>1. tool.at \in 1..Len(tool.roles) /\ Planning(tool)
        BY <2>3, AtDevice DEF Provisioning, Planning
      <4> QED BY <2>3, <4>1, BoardUsed DEF Used, Board
    <3> QED BY <2>1, <2>2, <3>1 DEF Bystanding
  <2>4. CASE tool.phase = "done" /\ up' = {} /\ Started(agent[h], agent'[h])
    <3>1. saved'[h] = saved[h]
      BY <2>1, <2>4 DEF Started
    <3> QED BY <2>1, <2>4, <3>1 DEF Bystanding, Started
  <2> QED BY <1>1, <2>3, <2>4, Delivered
<1>2. ASSUME NEW h \in Hardware, Reboot(h) PROVE Bystanding'
  <2>1. /\ saved' = saved /\ agent' = [agent EXCEPT ![h] = Booted(saved[h])]
        /\ Booted(saved[h]).state = saved[h].state
    BY <1>0, <1>2 DEF Reboot, Booted, Agent
  <2> QED BY <1>0, <2>1 DEF Bystanding
<1>3. CASE UNCHANGED <<agent, saved>>
  BY <1>3 DEF Bystanding
<1> QED BY <1>1, <1>2, <1>3 DEF Next, vars, StartSession, CloseWindow, Send,
        LaptopReceive, Timeout, Lose, Hello

(* No two running boards answer to one address.                            *)
Apart ==
  \A g, h \in Hardware :
    g # h /\ agent[g].state = "RUNNING" /\ agent[h].state = "RUNNING"
      => agent[g].addr # agent[h].addr

(* When START is broadcast every used board has the address of its role.   *)
LEMMA DoneApart ==
  ASSUME SessionInv, tool.phase = "done", SameBoards, UniqueAddresses, Addressed,
         Bystanding
  PROVE  Apart
<1>1. Planning(tool) /\ PlanOf(tool)
  BY DEF Planning, SessionInv
<1>2. ASSUME NEW h \in Hardware, agent[h].state = "RUNNING"
      PROVE  \E i \in 1..Len(tool.roles) :
               tool.boards[i] = h /\ agent[h].addr = tool.roles[i].addr
  <2>1. tool.roles \in Networks
    <3>1. tool.roles # << >>
      BY <1>1 DEF SessionInv, ProvisioningInv, ToolOK, Planning
    <3> QED BY <1>1, <3>1 DEF PlanOf
  <2>2. PICK i \in 1..Len(Pool) : Pool[i] = h /\ i <= Len(tool.roles)
    BY <1>2, <2>1 DEF Bystanding, Used
  <2>3. i \in 1..Len(tool.roles)
    BY <2>2, ProvisioningAssumption DEF SessionInv, TypeOK, Tool
  <2>4. tool.boards[i] = h
    BY <1>1, <2>2, <2>3, BoardUsed
  <2>5. agent[h].addr = tool.roles[i].addr
    BY <1>1, <1>2, <2>3, <2>4 DEF PlanOf, Addressed, AddressAt, AddressOf, Obeying
  <2> QED BY <2>3, <2>4, <2>5
<1>3. tool.roles # << >>
  BY DEF SessionInv, ProvisioningInv, ToolOK
<1>4. tool.roles \in Networks
  BY <1>1, <1>3 DEF PlanOf
<1>5. \A i, j \in 1..Len(tool.roles) : tool.roles[i].addr = tool.roles[j].addr => i = j
  BY <1>4 DEF UniqueAddresses
<1> QED BY <1>2, <1>5 DEF Apart

(* No step but a START runs a board.                                       *)
LEMMA NextApart ==
  ASSUME SessionInv, Timely, MaxLate = 0, Rendezvous, Apart, Bystanding,
         [Next]_vars, tool'.phase # "done"
  PROVE  Apart'
<1>0. agent \in [Hardware -> Agent] /\ saved \in [Hardware -> Agent]
  BY DEF SessionInv, TypeOK
<1>1. ASSUME NEW g \in Hardware
      PROVE  agent'[g] = agent[g] \/ agent'[g].state # "RUNNING"
  <2>1. ASSUME NEW h \in Hardware, Receive(h)
        PROVE  agent'[g] = agent[g] \/ agent'[g].state # "RUNNING"
    <3>1. CASE g # h
      BY <2>1, <3>1, Delivered
    <3>2. CASE g = h
      <4>1. /\ tool.phase = "await" /\ Provisioning(tool) /\ h = Board
            /\ Handled(h)
        BY <2>1, Delivered
      <4>2. CASE agent'[h] = agent[h]
        BY <3>2, <4>2
      <4>3. CASE /\ Listening(h)
                 /\ agent'[h] = OnSetupPacket(agent[h], CurrentMessage)
        <5>1. Sent(Assigned, tool.seq, CurrentMessage) /\ Assigned \in Role
              /\ tool.seq \in Nat /\ agent[h] \in Agent /\ agent[h].state # "RUNNING"
          BY <1>0, <4>1, <4>3, CurrentSent, AtDevice DEF Listening
        <5> QED BY <3>2, <4>3, <5>1, SetupChanges
      <4> QED BY <4>1, <4>2, <4>3 DEF Handled
    <3> QED BY <3>1, <3>2
  <2>2. ASSUME NEW h \in Hardware, Reboot(h)
        PROVE  agent'[g] = agent[g] \/ agent'[g].state # "RUNNING"
    <3>1. /\ agent' = [agent EXCEPT ![h] = Booted(saved[h])]
          /\ Booted(saved[h]).state = saved[h].state
      BY <1>0, <2>2 DEF Reboot, Booted, Agent
    <3> QED BY <1>0, <3>1 DEF Bystanding
  <2>3. CASE UNCHANGED agent
    BY <2>3
  <2> QED BY <2>1, <2>2, <2>3 DEF Next, vars, StartSession, CloseWindow, Send,
          LaptopReceive, Timeout, Lose, Hello
<1> QED BY <1>1 DEF Apart

(* The inductive invariant of AddressedApart: until the first outage.      *)
ApartInv ==
  /\ ConfirmedInv /\ Bystanding
  /\ ~faults.outage => /\ ToldSoFar /\ Addressed
                       /\ tool.phase # "done" => Apart

(* A step after which no board has lost power in a session is no outage.   *)
LEMMA NoOutage ==
  ASSUME SessionInv, [Next]_vars, ~faults'.outage
  PROVE  ~faults.outage /\ PoweredWhileBusy
<1>0. faults \in Faults
  BY DEF SessionInv, TypeOK
<1>1. PoweredWhileBusy
  BY <1>0, OutageTold DEF PoweredWhileBusy
<1>2. ASSUME NEW h \in Hardware, Reboot(h) PROVE ~faults.outage
  BY <1>0, <1>2, OutageTold
<1>3. ASSUME Lose \/ Timeout PROVE ~faults.outage
  <2>1. faults'.outage = faults.outage
    <3>1. CASE Lose
      BY <1>0, <3>1 DEF Lose, Faults
    <3>2. CASE Timeout
      BY <1>0, <3>2, TimeoutFields DEF TimedOut, Faults
    <3> QED BY <1>3, <3>1, <3>2
  <2> QED BY <2>1, Zenon
<1>4. ASSUME UNCHANGED faults PROVE ~faults.outage
  BY <1>4, Zenon
<1>5. UNCHANGED faults \/ Lose \/ Timeout \/ \E h \in Hardware : Reboot(h)
  BY DEF Next, vars, StartSession, CloseWindow, Send, LaptopReceive, Hello,
         Receive
<1> QED BY <1>1, <1>2, <1>3, <1>4, <1>5, Zenon

(* No two running boards answer to one address, whatever sessions were run *)
(* before and whatever is lost, until a board loses power in a session, if *)
(* every network takes the same boards and gives no address twice.         *)
THEOREM AddressedApart ==
  Timely /\ MaxLate = 0 /\ PoolDistinct /\ SameBoards /\ UniqueAddresses
    => (Spec => []DistinctAddresses)
<1> SUFFICES ASSUME Timely, MaxLate = 0, PoolDistinct, SameBoards,
                    UniqueAddresses
             PROVE  Spec => []DistinctAddresses
  OBVIOUS
<1>1. Init => ApartInv
  <2>1. Init => ToldSoFar /\ Addressed
    BY DEF Init, ToldSoFar, Telling, Addressed, Provisioning, Planning
  <2>2. Init => Verdicts /\ Bystanding /\ Apart
    BY DEF Init, Verdicts, Planning, Blank, Bystanding, Apart
  <2> QED BY <2>1, <2>2, InitSession, InitRendezvous DEF ApartInv, ConfirmedInv
<1>2. ApartInv /\ [Next]_vars => ApartInv'
  <2> SUFFICES ASSUME ApartInv, [Next]_vars PROVE ApartInv'
    OBVIOUS
  <2>1. SessionInv /\ Rendezvous /\ Verdicts /\ Bystanding
    BY DEF ApartInv, ConfirmedInv
  <2>2. ConfirmedInv'
    BY <2>1, NextSession, NextRendezvous, NextVerdicts DEF ConfirmedInv
  <2>3. Bystanding'
    BY <2>1, NextBystanding
  <2>4. ASSUME ~faults'.outage
        PROVE  ToldSoFar' /\ Addressed' /\ (tool'.phase # "done" => Apart')
    <3>1. PoweredWhileBusy /\ ToldSoFar /\ Addressed
          /\ (tool.phase # "done" => Apart)
      BY <2>1, <2>4, NoOutage DEF ApartInv
    <3>2. ToldSoFar' /\ Addressed'
      BY <2>1, <3>1, NextTold, NextAddressed
    <3>3. Apart
      BY <2>1, <3>1, DoneApart
    <3> QED BY <2>1, <3>2, <3>3, NextApart
  <2> QED BY <2>2, <2>3, <2>4 DEF ApartInv
<1>3. ApartInv => DistinctAddresses
  BY DoneApart DEF ApartInv, ConfirmedInv, DistinctAddresses, Apart
<1> QED BY <1>1, <1>2, <1>3, PTL DEF Spec

-----------------------------------------------------------------------------
(* What a board holds of its role when it has acknowledged the first k     *)
(* messages, and that it is ready for the next.                            *)
HasChunks(a, r, k) ==
  \A c \in FirstChunks(r.chunks) :
    k >= (OwnFrom(r) + c) + 1 => c \in a.received /\ a.weights[c] = r

(* The same of the backup array.                                           *)
HasBackupChunks(a, r, k) ==
  r.backup => \A c \in FirstChunks(r.bchunks) :
                k >= (BackupFrom(r) + c) + 1 => c \in a.breceived /\ a.bweights[c] = r

(* It can take the next message.                                           *)
Awaits(a, r, k) ==
  /\ Prompt(a) /\ a.state \in {"UNCONFIGURED", "RECEIVING_CONFIG", "VERIFYING"}
  /\ ~r.backup => ~a.hasBackup
  /\ k >= 2 => Collecting(a) /\ a.expected = r.chunks
  /\ k >= 3 /\ r.backup => a.bexpected = r.bchunks

(* Both.                                                                   *)
Collected(a, r, k) == Awaits(a, r, k) /\ HasChunks(a, r, k) /\ HasBackupChunks(a, r, k)

(* A factory board is ready for the first message of any role.             *)
LEMMA CollectedNothing ==
  ASSUME NEW r \in Role
  PROVE  Collected(Blank, r, 0)
<1>1. Awaits(Blank, r, 0)
  BY BlankFields DEF Awaits, Prompt
<1>2. HasChunks(Blank, r, 0)
  BY SlotsType DEF HasChunks, FirstChunks
<1>3. HasBackupChunks(Blank, r, 0)
  BY SlotsType DEF HasBackupChunks, FirstChunks
<1> QED BY <1>1, <1>2, <1>3 DEF Collected

(* What is held after a message is held before it: a retry is harmless.    *)
LEMMA CollectedEarlier ==
  ASSUME NEW a, NEW r \in Role, NEW k \in Nat, Collected(a, r, k + 1)
  PROVE  Collected(a, r, k)
<1>1. Awaits(a, r, k)
  BY DEF Collected, Awaits
<1>2. ASSUME NEW c \in FirstChunks(r.chunks), k >= (OwnFrom(r) + c) + 1
      PROVE  c \in a.received /\ a.weights[c] = r
  <2>1. k + 1 >= (OwnFrom(r) + c) + 1
    BY <1>2, SlotsType DEF FirstChunks
  <2> QED BY <1>2, <2>1 DEF Collected, HasChunks
<1>3. ASSUME r.backup, NEW c \in FirstChunks(r.bchunks), k >= (BackupFrom(r) + c) + 1
      PROVE  c \in a.breceived /\ a.bweights[c] = r
  <2>1. k + 1 >= (BackupFrom(r) + c) + 1
    BY <1>3, SlotsType DEF FirstChunks
  <2> QED BY <1>3, <2>1 DEF Collected, HasBackupChunks
<1> QED BY <1>1, <1>2, <1>3 DEF Collected, HasChunks, HasBackupChunks

(* Nothing of the arrays is lost by a message that leaves them alone, and  *)
(* nothing more of them is due after a message that is not a chunk.        *)
LEMMA StillHas ==
  ASSUME NEW a, NEW b, NEW r \in Role, NEW k \in Nat,
         k + 1 \notin (OwnFrom(r) + 1)..(OwnFrom(r) + r.chunks),
         SameArray(a, b), HasChunks(a, r, k)
  PROVE  HasChunks(b, r, k + 1)
<1> SUFFICES ASSUME NEW c \in FirstChunks(r.chunks), k + 1 >= (OwnFrom(r) + c) + 1
             PROVE  c \in a.received /\ a.weights[c] = r
  BY DEF HasChunks, SameArray
<1>1. r.chunks \in Nat /\ OwnFrom(r) \in Nat
  BY SlotsType
<1>2. k >= (OwnFrom(r) + c) + 1
  BY <1>1 DEF FirstChunks
<1> QED BY <1>2 DEF HasChunks

(* The same of the backup array.                                           *)
LEMMA StillHasBackup ==
  ASSUME NEW a, NEW b, NEW r \in Role, NEW k \in Nat,
         r.backup => k + 1 \notin (BackupFrom(r) + 1)..(BackupFrom(r) + r.bchunks),
         b.breceived = a.breceived, b.bweights = a.bweights, HasBackupChunks(a, r, k)
  PROVE  HasBackupChunks(b, r, k + 1)
<1> SUFFICES ASSUME r.backup, NEW c \in FirstChunks(r.bchunks),
                    k + 1 >= (BackupFrom(r) + c) + 1
             PROVE  c \in a.breceived /\ a.bweights[c] = r
  BY DEF HasBackupChunks
<1>1. r.bchunks \in Nat /\ BackupFrom(r) \in Nat
  BY SlotsType
<1>2. k >= (BackupFrom(r) + c) + 1
  BY <1>1 DEF FirstChunks
<1> QED BY <1>2 DEF HasBackupChunks

(* A message that leaves the counts alone, or sets them, leaves the board  *)
(* ready.                                                                  *)
LEMMA StillAwaits ==
  ASSUME NEW a, NEW b, NEW r \in Role, NEW k \in Nat, Awaits(a, r, k),
         SameArray(a, b), SameDuty(a, b), b.breceived = a.breceived,
         b.state = a.state, k # 1, r.backup => k # 2
  PROVE  Awaits(b, r, k + 1)
BY DEF Awaits, SameArray, SameDuty, Prompt, PrimaryComplete, BackupComplete, Collecting

LEMMA BusyAwaits ==
  ASSUME NEW b, Busy(b), NEW r \in Role, NEW k,
         ~r.backup => ~b.hasBackup, b.expected = r.chunks,
         k >= 3 /\ r.backup => b.bexpected = r.bchunks
  PROVE  Awaits(b, r, k)
BY DEF Busy, Awaits, Collecting

(* A board that is ready for a message takes it and acknowledges it.       *)
LEMMA CollectedStep ==
  ASSUME NEW a \in Agent, NEW r \in Role, NEW k \in Nat, NEW m, Sent(r, k, m),
         Told(a, r, k), Collected(a, r, k), m.op # "COMMIT_REQUEST",
         NEW b, b = OnSetupPacket(a, m)
  PROVE  Collected(b, r, k + 1) /\ Replies(a, m) = {Acked(m)}
<1>0. /\ MessageOK(m) /\ Stands(r, k + 1, m) /\ m.role = r
      /\ Awaits(a, r, k) /\ HasChunks(a, r, k) /\ HasBackupChunks(a, r, k)
  BY DEF Sent, MessageOK, Message, Collected
<1>a. /\ OwnFrom(r) \in Nat /\ BackupFrom(r) \in Nat /\ SeedFrom(r) \in Nat
      /\ OwnFrom(r) >= 2 /\ (r.backup => OwnFrom(r) = 3)
      /\ BackupFrom(r) = OwnFrom(r) + r.chunks /\ SeedFrom(r) >= BackupFrom(r)
      /\ r.backup => SeedFrom(r) = BackupFrom(r) + r.bchunks
      /\ r.chunks \in Nat /\ r.bchunks \in Nat
  BY SlotsType
<1>1. CASE m.op = "ASSIGN_ADDRESS" /\ k = 0
  <2>1. SameArray(a, b) /\ SameBackup(a, b) /\ b.state = a.state
    BY <1>1, AssignEffect DEF OnSetupPacket
  <2>2. Awaits(b, r, k + 1)
    BY <1>0, <1>1, <2>1, StillAwaits DEF SameBackup
  <2>3. HasChunks(b, r, k + 1)
    BY <1>0, <1>1, <1>a, <2>1, StillHas
  <2>4. HasBackupChunks(b, r, k + 1)
    BY <1>0, <1>1, <1>a, <2>1, StillHasBackup DEF SameBackup
  <2> QED BY <1>1, <2>2, <2>3, <2>4 DEF Collected, Replies
<1>2. CASE m.op = "TOPOLOGY_INFO" /\ k = 1
  <2>1. /\ b.expected = r.chunks /\ SameBackup(a, b) /\ Busy(b)
    BY <1>0, <1>2, TopologyEffect DEF OnSetupPacket
  <2>2. Awaits(b, r, k + 1)
    BY <1>0, <1>2, <2>1, BusyAwaits DEF SameBackup, SameDuty, Awaits
  <2>3. HasChunks(b, r, k + 1)
    BY <1>2, <1>a DEF HasChunks, FirstChunks
  <2>4. HasBackupChunks(b, r, k + 1)
    BY <1>2, <1>a DEF HasBackupChunks, FirstChunks
  <2> QED BY <1>2, <2>2, <2>3, <2>4 DEF Collected, Replies
<1>3. CASE m.op = "BACKUP_ROLE_INFO" /\ r.backup /\ k = 2
  <2>1. Collecting(a) /\ a.expected = r.chunks
    BY <1>0, <1>3 DEF Awaits
  <2>2. b = HandleBackupRoleInfo(a, m)
    BY <1>3 DEF OnSetupPacket
  <2>3. /\ SameArray(a, b) /\ b.bexpected = r.bchunks /\ Busy(b)
    BY <1>0, <2>1, <2>2, BackupRoleEffect
  <2>4. Awaits(b, r, k + 1)
    BY <1>3, <2>1, <2>3, BusyAwaits DEF SameArray
  <2>5. HasChunks(b, r, k + 1)
    BY <1>3, <1>a DEF HasChunks, FirstChunks
  <2>6. HasBackupChunks(b, r, k + 1)
    BY <1>3, <1>a DEF HasBackupChunks, FirstChunks
  <2> QED BY <1>3, <2>1, <2>4, <2>5, <2>6 DEF Collected, Replies
<1>4. CASE /\ m.op = "WEIGHTS_CHUNK" /\ m.chunk \in FirstChunks(r.chunks)
           /\ k + 1 = (OwnFrom(r) + m.chunk) + 1
  <2>0. /\ m.chunk \in 0..(r.chunks - 1) /\ k = OwnFrom(r) + m.chunk
        /\ k >= 2 /\ (r.backup => k >= 3) /\ k < BackupFrom(r)
    BY <1>4, <1>a DEF FirstChunks
  <2>1. Collecting(a) /\ a.expected = r.chunks /\ InRange(a, m)
    BY <1>0, <1>4, <2>0 DEF Awaits, InRange
  <2>2. b = HandleWeightsChunk(a, m)
    BY <1>4 DEF OnSetupPacket
  <2>3. /\ b.expected = a.expected /\ SameBackup(a, b) /\ Busy(b)
        /\ b.received = a.received \cup {m.chunk}
        /\ b.weights = [a.weights EXCEPT ![m.chunk] = r]
    BY <1>0, <2>1, <2>2, WeightsEffect
  <2>4. Awaits(b, r, k + 1)
    BY <1>0, <2>0, <2>1, <2>3, BusyAwaits DEF Awaits, SameBackup, SameDuty
  <2>5. HasChunks(b, r, k + 1)
    <3> SUFFICES ASSUME NEW c \in FirstChunks(r.chunks), k + 1 >= (OwnFrom(r) + c) + 1
                 PROVE  c \in b.received /\ b.weights[c] = r
      BY DEF HasChunks
    <3>0. r.chunks <= MaxChunks /\ MaxChunks \in Nat
      BY SlotsType, RoleAssumption
    <3>i. c \in 0..(r.chunks - 1) /\ r.chunks \in Nat
      BY <1>a DEF FirstChunks
    <3>a. c \in Chunk
      BY <3>0, <3>i DEF Chunk
    <3>b. a.weights \in [Chunk -> AnyRole]
      BY <1>a DEF Agent
    <3>1. c \in Chunk /\ a.weights \in [Chunk -> AnyRole]
      BY <3>a, <3>b
    <3>2. CASE c = m.chunk
      BY <2>3, <3>1, <3>2
    <3>3. CASE c # m.chunk
      <4>1. k >= (OwnFrom(r) + c) + 1
        BY <1>a, <2>0, <3>3 DEF FirstChunks
      <4>2. c \in a.received /\ a.weights[c] = r
        BY <1>0, <4>1 DEF HasChunks
      <4> QED BY <2>3, <3>1, <3>3, <4>2
    <3> QED BY <3>2, <3>3
  <2>6. HasBackupChunks(b, r, k + 1)
    BY <1>a, <2>0 DEF HasBackupChunks, FirstChunks
  <2> QED BY <1>4, <2>1, <2>4, <2>5, <2>6 DEF Collected, Replies, ChunkReply
<1>5. CASE /\ m.op = "BACKUP_WEIGHTS_CHUNK" /\ r.backup
           /\ m.chunk \in FirstChunks(r.bchunks)
           /\ k + 1 = (BackupFrom(r) + m.chunk) + 1
  <2>0. /\ m.chunk \in 0..(r.bchunks - 1) /\ k = BackupFrom(r) + m.chunk
        /\ k >= 3 /\ k + 1 > BackupFrom(r)
    BY <1>5, <1>a DEF FirstChunks
  <2>1. /\ Collecting(a) /\ a.expected = r.chunks /\ a.bexpected = r.bchunks
        /\ BackupInRange(a, m)
    BY <1>0, <1>5, <2>0 DEF Awaits, BackupInRange
  <2>a. a.hasBackup
    BY <1>5, <2>0 DEF Told
  <2>2. b = HandleBackupWeightsChunk(a, m)
    BY <1>5 DEF OnSetupPacket
  <2>3. /\ SameArray(a, b) /\ SameDuty(a, b) /\ Busy(b)
        /\ b.breceived = a.breceived \cup {m.chunk}
        /\ b.bweights = [a.bweights EXCEPT ![m.chunk] = r]
    BY <1>0, <2>1, <2>a, <2>2, BackupWeightsEffect
  <2>4. Awaits(b, r, k + 1)
    BY <1>5, <2>1, <2>3, BusyAwaits DEF SameArray, SameDuty
  <2>5. HasChunks(b, r, k + 1)
    BY <1>0, <1>a, <2>0, <2>3, StillHas
  <2>6. HasBackupChunks(b, r, k + 1)
    <3> SUFFICES ASSUME NEW c \in FirstChunks(r.bchunks),
                        k + 1 >= (BackupFrom(r) + c) + 1
                 PROVE  c \in b.breceived /\ b.bweights[c] = r
      BY DEF HasBackupChunks
    <3>0. r.bchunks <= MaxChunks /\ MaxChunks \in Nat
      BY SlotsType, RoleAssumption
    <3>i. c \in 0..(r.bchunks - 1) /\ r.bchunks \in Nat
      BY <1>a DEF FirstChunks
    <3>a. c \in Chunk
      BY <3>0, <3>i DEF Chunk
    <3>b. a.bweights \in [Chunk -> AnyRole]
      BY <1>a DEF Agent
    <3>1. c \in Chunk /\ a.bweights \in [Chunk -> AnyRole]
      BY <3>a, <3>b
    <3>2. CASE c = m.chunk
      BY <2>3, <3>1, <3>2
    <3>3. CASE c # m.chunk
      <4>1. k >= (BackupFrom(r) + c) + 1
        BY <1>a, <2>0, <3>3 DEF FirstChunks
      <4>2. c \in a.breceived /\ a.bweights[c] = r
        BY <1>0, <1>5, <4>1 DEF HasBackupChunks
      <4> QED BY <2>3, <3>1, <3>3, <4>2
    <3> QED BY <3>2, <3>3
  <2> QED BY <1>5, <2>1, <2>a, <2>4, <2>5, <2>6 DEF Collected, Replies, ChunkReply
<1>6. CASE m.op = "INPUT_VALUE" /\ r.seed /\ k + 1 = SeedFrom(r) + 1
  <2>1. SameArray(a, b) /\ SameBackup(a, b) /\ b.state = a.state
    BY <1>0, <1>6, InputEffect DEF OnSetupPacket
  <2>2. Awaits(b, r, k + 1)
    BY <1>0, <1>6, <1>a, <2>1, StillAwaits DEF SameBackup
  <2>3. HasChunks(b, r, k + 1)
    BY <1>0, <1>6, <1>a, <2>1, StillHas
  <2>4. HasBackupChunks(b, r, k + 1)
    BY <1>0, <1>6, <1>a, <2>1, StillHasBackup DEF SameBackup
  <2> QED BY <1>6, <2>2, <2>3, <2>4 DEF Collected, Replies
<1> QED BY <1>0, <1>1, <1>2, <1>3, <1>4, <1>5, <1>6 DEF Stands

(* A board that holds all of its role verifies, and says so.               *)
LEMMA CommitConfirms ==
  ASSUME NEW a \in Agent, NEW r \in Role, NEW m \in Message, m.op = "COMMIT_REQUEST",
         Told(a, r, LastSlot(r) - 1), Collected(a, r, LastSlot(r) - 1)
  PROVE  Verified(CommitReply(a, m), r)
<1>a. /\ LastSlot(r) \in Nat /\ LastSlot(r) - 1 >= BackupFrom(r)
      /\ r.backup => LastSlot(r) - 1 >= BackupFrom(r) + r.bchunks
      /\ LastSlot(r) - 1 >= 2 /\ (r.backup => LastSlot(r) - 1 >= 3)
      /\ BackupFrom(r) = OwnFrom(r) + r.chunks
      /\ OwnFrom(r) \in Nat /\ r.chunks \in Nat /\ r.bchunks \in Nat
      /\ r.backup \in BOOLEAN
  BY SlotsType
<1>1. /\ a.topology = r /\ Collecting(a) /\ a.expected = r.chunks /\ Prompt(a)
      /\ r.backup => a.hasBackup /\ a.backup = r /\ a.bexpected = r.bchunks
      /\ ~r.backup => ~a.hasBackup
  BY <1>a DEF Told, Collected, Awaits
<1>2. \A c \in FirstChunks(r.chunks) : c \in a.received /\ a.weights[c] = r
  BY <1>a DEF Collected, HasChunks, FirstChunks
<1>3. r.backup => \A c \in FirstChunks(r.bchunks) : c \in a.breceived /\ a.bweights[c] = r
  <2> SUFFICES ASSUME r.backup, NEW c \in FirstChunks(r.bchunks)
               PROVE  c \in a.breceived /\ a.bweights[c] = r
    OBVIOUS
  <2>1. LastSlot(r) - 1 >= (BackupFrom(r) + c) + 1
    BY <1>a DEF FirstChunks
  <2> QED BY <2>1 DEF Collected, HasBackupChunks
<1>4. a.state = "VERIFYING"
  <2>1. PrimaryComplete(a)
    BY <1>1, <1>2 DEF PrimaryComplete
  <2>2. BackupComplete(a)
    BY <1>1, <1>3 DEF BackupComplete
  <2> QED BY <1>1, <2>1, <2>2 DEF Collecting, Prompt
<1>5. /\ CommitReply(a, m).success
      /\ CommitReply(a, m).sum = SumOf(r.chunks, a.weights)
      /\ r.backup => CommitReply(a, m).bsum = SumOf(r.bchunks, a.bweights)
  <2>1. PICK k : k = CommitReply(a, m)
    OBVIOUS
  <2>2. k.success /\ k.sum = SumOf(a.topology.chunks, a.weights)
        /\ k.bsum = IF a.hasBackup THEN SumOf(a.backup.bchunks, a.bweights) ELSE NoSum
    BY <1>4, <2>1, CommitReplyFields DEF Setup
  <2>3. k.success /\ k.sum = SumOf(r.chunks, a.weights)
    BY <1>1, <2>2
  <2>4. r.backup => k.bsum = SumOf(r.bchunks, a.bweights)
    BY <1>1, <2>2
  <2> QED BY <2>1, <2>3, <2>4
<1>6. SumOf(r.chunks, a.weights) = [i \in FirstChunks(r.chunks) |-> r]
  BY <1>2 DEF SumOf
<1>7. r.backup => SumOf(r.bchunks, a.bweights) = [i \in FirstChunks(r.bchunks) |-> r]
  BY <1>3 DEF SumOf
<1> QED BY <1>5, <1>6, <1>7 DEF Verified

-----------------------------------------------------------------------------
(* Attempts.  Every attempt but the first of a message has cost a loss, so *)
(* with no more losses than retries none is given up.                      *)

(* A network has no more devices than the pool has boards; a dynamic one no*)
(* input device.                                                           *)
NetworksFit ==
  \A net \in Networks : /\ Len(net) <= Len(Pool)
                        /\ Dynamic => \A i \in 1..Len(net) : ~net[i].seed

(* The reply in flight is an acknowledgement of a board that collects, or  *)
(* the good verdict.                                                       *)
Assured(p) ==
  \/ p.op = "ACK" /\ Collected(agent[Board], Assigned, tool.seq + 1)
  \/ Confirms(p)

(* The session has not failed, and will not for want of attempts.          *)
Succeeding ==
  /\ tool.phase # "failed"
  /\ tool.phase \in {"idle", "discover"} => tool.try = 0
  /\ Provisioning(tool) => /\ tool.try <= faults.loss
                           /\ \A i \in 1..(tool.at - 1) : tool.boards[i] \in tool.ok
  /\ tool.phase = "await" /\ Quiet => tool.try + 1 <= faults.loss
  /\ tool.phase = "send" => Collected(agent[Board], Assigned, tool.seq)
  /\ tool.phase = "await" /\ up = {} => Collected(agent[Board], Assigned, tool.seq)
  /\ tool.phase = "await" => \A p \in up : Assured(p)

(* The window closes with a board for every device.                        *)
LEMMA WindowSuffices ==
  ASSUME SessionInv, NetworksFit, Fresh, CloseWindow
  PROVE  tool'.phase = "send"
<1> DEFINE offered == IF Dynamic THEN Available ELSE Pool
<1>1. /\ tool \in Tool /\ tool.phase = "discover" /\ tool.roles # << >>
      /\ tool.roles \in Networks \cup {<< >>} /\ tool.roles \in Seq(Role)
  BY DEF CloseWindow, SessionInv, ProvisioningInv, ToolOK, TypeOK, PlanOf, Tool
<1>2. /\ Len(tool.roles) <= Len(Pool) /\ Len(tool.roles) \in Nat
      /\ Dynamic => \A i \in 1..Len(tool.roles) : ~tool.roles[i].seed
  BY <1>1 DEF NetworksFit
<1>3. Taken = Needed /\ Needed \in Nat /\ Needed <= Len(Pool)
  <2>1. CASE Dynamic
    <3>1. {i \in 1..Needed : ~tool.roles[i].seed} = 1..Needed
      BY <1>2, <2>1 DEF Needed
    <3>2. Cardinality(1..Needed) = Needed
      BY <1>2, FS_Interval DEF Needed
    <3> QED BY <1>2, <2>1, <3>1, <3>2 DEF Taken, Needed
  <2>2. CASE ~Dynamic
    BY <1>2, <2>2 DEF Taken, Needed
  <2> QED BY <2>1, <2>2
<1>4. Len(offered) = Len(Pool)
  <2>1. ASSUME Dynamic PROVE Len(Available) = Len(Pool)
    <3>1. Hardware \subseteq tool.seen
      BY <1>1, BlankFields DEF CloseWindow, Announced, Fresh
    <3>2. \A k \in 1..Len(Pool) : Pool[k] \in tool.seen
      BY <3>1, ProvisioningAssumption, ElementOfSeq
    <3> QED BY <3>2, AvailableShape DEF Filtered
  <2> QED BY <2>1
<1>5. tool' = IF Len(offered) < Taken \/ Taken < Needed
              THEN [tool EXCEPT !.phase = "failed"]
              ELSE [tool EXCEPT !.phase = "send", !.boards = SubSeq(offered, 1, Needed)]
  BY DEF CloseWindow
<1> HIDE DEF offered
<1>6. ~(Len(offered) < Taken \/ Taken < Needed)
  BY <1>3, <1>4, ProvisioningAssumption
<1>7. tool' = [tool EXCEPT !.phase = "send", !.boards = SubSeq(offered, 1, Needed)]
  BY <1>5, <1>6
<1> QED BY <1>1, <1>7 DEF Tool

(* The next device's board has been sent nothing yet.                      *)
LEMMA NextIsBlank ==
  ASSUME SessionInv, PoolDistinct, Fresh, Provisioning(tool),
         tool.at < Len(tool.roles)
  PROVE  agent[tool.boards[tool.at + 1]] = Blank
<1>1. /\ tool.at \in 1..Len(tool.roles) /\ Planning(tool) /\ PlanOf(tool)
      /\ tool.at + 1 \in 1..Len(tool.roles)
  BY AtDevice DEF Provisioning, Planning, SessionInv
<1>2. tool.boards[tool.at + 1] \in Hardware
  BY <1>1, PlannedBoard
<1>3. \A i \in 1..tool.at : tool.boards[i] # tool.boards[tool.at + 1]
  BY <1>1 DEF PlanOf
<1> QED BY <1>2, <1>3 DEF Fresh

(* A confirmed device makes way for a factory-new one, or for START.       *)
LEMMA ConfirmedLeaves ==
  ASSUME SessionInv, PoolDistinct, Fresh, Succeeding, Provisioning(tool),
         Leaves(tool, tool', tool.ok \cup {Board}), agent' = agent, up' = {},
         faults' = faults
  PROVE  Succeeding'
<1>1. /\ tool.at \in 1..Len(tool.roles) /\ Len(tool.roles) \in Nat
      /\ tool'.roles = tool.roles /\ tool'.boards = tool.boards
      /\ tool'.ok = tool.ok \cup {Board}
  BY AtDevice DEF Leaves, Kept
<1>2. \A i \in 1..tool.at : tool.boards[i] \in tool.ok \cup {Board}
  BY <1>1 DEF Succeeding, Board
<1>3. faults.loss \in Nat
  BY ProvisioningAssumption DEF SessionInv, TypeOK, Faults
<1>4. CASE /\ tool.at < Len(tool.roles) /\ tool'.phase = "send"
           /\ tool'.at = tool.at + 1 /\ tool'.seq = 0 /\ tool'.try = 0
  <2>1. tool.roles[tool.at + 1] \in Role
    BY <1>1, <1>4, RoleAt
  <2>2. agent[tool.boards[tool.at + 1]] = Blank
    BY <1>4, NextIsBlank
  <2>3. Collected(agent'[Board'], Assigned', tool'.seq)
    BY <1>1, <1>4, <2>1, <2>2, CollectedNothing DEF Board, Assigned
  <2> QED BY <1>1, <1>2, <1>3, <1>4, <2>3 DEF Succeeding, Provisioning
<1>5. CASE tool'.phase = "done"
  BY <1>5 DEF Succeeding, Provisioning
<1>6. CASE /\ tool.at >= Len(tool.roles) /\ tool'.phase = "failed"
           /\ \E i \in 1..Len(tool.roles) : tool.boards[i] \notin tool.ok \cup {Board}
  BY <1>1, <1>2, <1>6
<1> QED BY <1>4, <1>5, <1>6 DEF Leaves

(* By the attempts: each but the first was preceded by a loss.             *)
LEMMA NextSucceeding ==
  ASSUME SessionInv, Timely, MaxLate = 0, PoolDistinct, NetworksFit,
         "COMMIT_REPLY" \notin Losable,
         Rendezvous, Telling, Fresh, Succeeding, [Next]_vars,
         FirstSession', faults'.loss <= Retries
  PROVE  Succeeding'
<1>0. /\ FirstSession /\ faults.loss \in Nat /\ tool.try \in Nat /\ tool.seq \in Nat
      /\ agent \in [Hardware -> Agent] /\ Retries \in Nat /\ tool.session \in Nat
  BY FirstKept, ProvisioningAssumption DEF SessionInv, TypeOK, Tool, Faults
<1>1. CASE StartSession
  BY <1>1, StartFields DEF Succeeding, Provisioning
<1>2. CASE CloseWindow
  <2>1. /\ tool.phase = "discover" /\ tool'.phase = "send"
        /\ tool'.at = 1 /\ tool'.seq = 0 /\ tool'.try = tool.try
        /\ tool'.roles = tool.roles /\ tool' \in Tool /\ PlanOf(tool')
        /\ agent' = agent /\ faults' = faults
    BY <1>2, CloseFields, WindowSuffices DEF CloseWindow
  <2>2. 1 \in 1..Len(tool.roles)
    <3>1. tool.roles \in Seq(Role) /\ tool.roles # << >>
      BY <2>1 DEF SessionInv, ProvisioningInv, ToolOK, TypeOK, Tool
    <3> QED BY <3>1, EmptySeq
  <2>3. tool.roles[1] \in Role
    BY <2>2, RoleAt
  <2>4. tool'.boards[1] \in Hardware
    <3>1. tool'.boards \in Seq(Hardware) /\ Len(tool'.boards) = Len(tool.roles)
      BY <2>1 DEF Tool, PlanOf, Planning
    <3> QED BY <2>2, <3>1, ElementOfSeq
  <2>5. agent'[Board'] = Blank /\ Assigned' = tool.roles[1]
    BY <2>1, <2>4 DEF Board, Assigned, Fresh
  <2>6. Collected(agent'[Board'], Assigned', tool'.seq)
    BY <2>1, <2>3, <2>5, CollectedNothing
  <2> QED BY <1>0, <2>1, <2>6 DEF Succeeding, Provisioning
<1>3. CASE Send
  <2>1. /\ Stays(tool, tool', "await", tool.seq, tool.try) /\ tool.phase = "send"
        /\ Provisioning(tool)
    BY <1>3, SendFields DEF Provisioning
  <2>2. up' = {} /\ agent' = agent /\ faults' = faults /\ down' # {}
    BY <1>3, <2>1 DEF Send, Rendezvous, Quiet
  <2> QED BY <2>1, <2>2 DEF Succeeding, Stays, Kept, Board, Assigned, Provisioning, Quiet
<1>4. CASE LaptopReceive
  <2>1. PICK p \in up : Judges(p, tool') /\ up = {p}
    BY <1>4, ReceivesCurrent
  <2>2. /\ tool.phase = "await" /\ Provisioning(tool) /\ up' = {}
        /\ agent' = agent /\ faults' = faults /\ Assured(p)
    BY <1>4, <2>1, ReceivesCurrent DEF LaptopReceive, Succeeding
  <2>3. CASE p.op = "ACK" /\ Stays(tool, tool', "send", tool.seq + 1, 0)
    <3>1. Collected(agent[Board], Assigned, tool.seq + 1)
      BY <2>2, <2>3 DEF Assured, Confirms
    <3>2. /\ Board' = Board /\ Assigned' = Assigned /\ tool'.seq = tool.seq + 1
          /\ tool'.phase = "send" /\ tool'.try = 0 /\ tool'.at = tool.at
          /\ tool'.boards = tool.boards /\ tool'.ok = tool.ok
      BY <2>3 DEF Stays, Kept, Board, Assigned
    <3> QED BY <1>0, <2>2, <3>1, <3>2 DEF Succeeding, Provisioning
  <2>4. CASE p.op = "NACK"
    BY <2>2, <2>4 DEF Assured, Confirms
  <2>5. CASE /\ p.op = "COMMIT_REPLY"
             /\ Leaves(tool, tool', IF Verified(p, Assigned) THEN tool.ok \cup {Board}
                                    ELSE tool.ok)
    <3>1. Leaves(tool, tool', tool.ok \cup {Board})
      BY <2>2, <2>5 DEF Assured, Confirms
    <3> QED BY <2>2, <3>1, ConfirmedLeaves
  <2> QED BY <2>1, <2>3, <2>4, <2>5 DEF Judges
<1>5. CASE Timeout
  <2>1. /\ tool.phase = "await" /\ Provisioning(tool) /\ Quiet /\ up' = {}
        /\ agent' = agent /\ faults' = faults
    BY <1>5, TimeoutFields, TimeoutQuiet DEF Timeout, Provisioning, Quiet
  <2>2. tool.try + 1 <= faults.loss
    BY <2>1 DEF Succeeding
  <2>3. Stays(tool, tool', "send", tool.seq, tool.try + 1)
    BY <1>0, <1>5, <2>1, <2>2, TimeoutFields
  <2>4. Collected(agent[Board], Assigned, tool.seq)
    BY <2>1 DEF Succeeding, Quiet
  <2> QED BY <2>1, <2>2, <2>3, <2>4 DEF Succeeding, Stays, Kept, Board, Assigned,
                                      Provisioning
<1>6. CASE Lose
  <2>1. /\ tool' = tool /\ agent' = agent /\ faults'.loss = faults.loss + 1
        /\ Board' = Board /\ Assigned' = Assigned /\ up' \subseteq up
    <3>1. faults \in Faults
      BY DEF SessionInv, TypeOK
    <3> QED BY <1>6, <3>1 DEF Lose, Board, Assigned, Faults
  <2>2. tool.phase = "await" => Collected(agent[Board], Assigned, tool.seq) \/ up' = up
    <3> SUFFICES ASSUME tool.phase = "await", up' # up
                 PROVE  Collected(agent[Board], Assigned, tool.seq)
      OBVIOUS
    <3>1. PICK p \in up : p.op \in Losable
      BY <1>6 DEF Lose
    <3>2. Collected(agent[Board], Assigned, tool.seq + 1)
      BY <3>1 DEF Succeeding, Assured, Confirms
    <3>3. Assigned \in Role
      BY AtDevice DEF Provisioning
    <3> QED BY <1>0, <3>2, <3>3, CollectedEarlier
  <2>3. tool.phase = "await" => \A p \in up' : Assured(p)'
    BY <2>1 DEF Succeeding, Assured, Confirms
  <2>4. tool.phase = "await" /\ up' = {} => Collected(agent[Board], Assigned, tool.seq)
    BY <2>2 DEF Succeeding
  <2>5. tool.phase = "send" => Collected(agent[Board], Assigned, tool.seq)
    BY DEF Succeeding
  <2>6. Provisioning(tool) => tool.try + 1 <= faults'.loss
    BY <1>0, <2>1 DEF Succeeding
  <2> QED BY <1>0, <2>1, <2>3, <2>4, <2>5, <2>6 DEF Succeeding, Provisioning
<1>7. ASSUME NEW h \in Hardware, Hello(h) PROVE Succeeding'
  BY <1>7, HelloFields DEF Hello, Succeeding, Provisioning
<1>8. ASSUME NEW h \in Hardware, Receive(h) PROVE Succeeding'
  <2>1. tool' = tool /\ faults' = faults
        /\ Board' = Board /\ Assigned' = Assigned
    BY <1>8, Delivered DEF Board, Assigned
  <2>2. CASE /\ tool.phase = "await" /\ Provisioning(tool) /\ h = Board
             /\ up = {} /\ Handled(h)
    <3>1. PICK a, r, m, k : /\ a = agent[h] /\ r = Assigned /\ m = CurrentMessage
                            /\ k = tool.seq
      OBVIOUS
    <3>2. /\ a \in Agent /\ r \in Role /\ m \in Message /\ k \in Nat
          /\ Sent(r, k, m) /\ Told(a, r, k) /\ Collected(a, r, k)
          /\ m.op = "COMMIT_REQUEST" => k = LastSlot(r) - 1
          /\ a.state # "RUNNING" /\ m.op \in Setup
      BY <1>0, <2>2, <3>1, CurrentFields, CurrentSent, AtDevice
         DEF Succeeding, Telling, Fresh
    <3>3. /\ \E p : /\ Replies(a, m) = {p}
                    /\ \/ p.op = "ACK" /\ Collected(OnSetupPacket(a, m), r, k + 1)
                       \/ p.op = "COMMIT_REPLY" /\ Verified(p, r)
      <4>1. CASE m.op = "COMMIT_REQUEST"
        <5>1. Verified(CommitReply(a, m), r)
          BY <3>2, <4>1, CommitConfirms
        <5>2. CommitReply(a, m).op = "COMMIT_REPLY"
          BY <3>2, <4>1, CommitReplyFields DEF Answers
        <5>3. Replies(a, m) = {CommitReply(a, m)}
          BY <4>1 DEF Replies
        <5> QED BY <5>1, <5>2, <5>3
      <4>2. CASE m.op # "COMMIT_REQUEST"
        <5>1. Collected(OnSetupPacket(a, m), r, k + 1) /\ Replies(a, m) = {Acked(m)}
          BY <3>2, <4>2, CollectedStep
        <5>2. Acked(m).op = "ACK"
          BY DEF Acked
        <5> QED BY <5>1, <5>2
      <4> QED BY <4>1, <4>2
    <3>4. agent'[h] = OnSetupPacket(a, m) /\ up' = Replies(a, m)
      <4>1. CASE agent'[h] = agent[h] /\ up' = {} /\ ~Listening(h)
        BY <3>1, <3>2, <4>1 DEF Listening
      <4> QED BY <1>8, <2>2, <3>1, <3>2, <4>1, Delivered DEF Handled
    <3>5. PICK p : /\ up' = {p}
                   /\ \/ p.op = "ACK" /\ Collected(agent'[h], r, k + 1)
                      \/ p.op = "COMMIT_REPLY" /\ Verified(p, r)
      BY <3>3, <3>4
    <3>6. Assured(p)'
      BY <2>1, <2>2, <3>1, <3>5 DEF Assured, Confirms
    <3> QED BY <2>1, <2>2, <3>5, <3>6 DEF Succeeding, Provisioning, Quiet
  <2>3. CASE tool.phase = "done" /\ up' = {}
    BY <2>1, <2>3 DEF Succeeding, Provisioning
  <2> QED BY <1>8, <2>2, <2>3, Delivered
<1>9. ASSUME NEW h \in Hardware, Reboot(h) PROVE FALSE
  BY <1>9, NoReboot DEF FirstSession
<1>10. CASE UNCHANGED vars
  BY <1>10 DEF vars, Succeeding, Quiet, Assured, Confirms, Board, Assigned
<1> QED BY <1>1, <1>2, <1>3, <1>4, <1>5, <1>6, <1>7, <1>8, <1>9, <1>10 DEF Next

(* Losses are counted.                                                     *)
LEMMA LossesCount ==
  ASSUME SessionInv, [Next]_vars, faults'.loss <= Retries
  PROVE  faults.loss <= Retries
<1>1. faults \in Faults /\ faults.loss \in Nat
  BY ProvisioningAssumption DEF SessionInv, TypeOK, Faults
<1>2. CASE Lose
  <2>1. faults'.loss = faults.loss + 1
    BY <1>1, <1>2 DEF Lose, Faults
  <2> QED BY <1>1, <2>1, ProvisioningAssumption
<1>3. ASSUME NEW h \in Hardware, Reboot(h) PROVE faults'.loss = faults.loss
  BY <1>1, <1>3, RebootCounts
<1>4. CASE Timeout
  <2>1. faults'.loss = faults.loss
    BY <1>1, <1>4, TimeoutFields DEF TimedOut, Faults
  <2> QED BY <2>1
<1>5. CASE UNCHANGED faults
  BY <1>5
<1> QED BY <1>2, <1>3, <1>4, <1>5 DEF Next, vars, StartSession, CloseWindow,
        Send, LaptopReceive, Hello, Receive

(* The inductive invariant of RetriesSave.                                 *)
RetriesInv == FirstInv /\ (FirstSession /\ faults.loss <= Retries => Succeeding)

(* The first session of boards that stay powered configures every board of *)
(* its plan unless more transmissions are lost than there are retries, as  *)
(* long as no COMMIT_REPLY is lost, the timeout is long and the networks   *)
(* fit the pool.                                                           *)
THEOREM RetriesSave ==
  Timely /\ MaxLate = 0 /\ PoolDistinct /\ NetworksFit /\ "COMMIT_REPLY" \notin Losable
    => (Spec => [](FirstSession => RetriesSuffice))
<1> SUFFICES ASSUME Timely, MaxLate = 0, PoolDistinct, NetworksFit,
                    "COMMIT_REPLY" \notin Losable
             PROVE  Spec => [](FirstSession => RetriesSuffice)
  OBVIOUS
<1>1. Init => Succeeding
  <2>1. Init => tool.phase = "idle" /\ tool.try = 0
    BY DEF Init
  <2> QED BY <2>1 DEF Succeeding, Provisioning
<1>2. FirstInv /\ FirstInv' /\ RetriesInv /\ [Next]_vars => RetriesInv'
  <2> SUFFICES ASSUME FirstInv, FirstInv', RetriesInv, [Next]_vars,
                      FirstSession', faults'.loss <= Retries
               PROVE  Succeeding'
    BY DEF RetriesInv
  <2>1. SessionInv /\ Rendezvous
    BY DEF FirstInv, ConfirmedInv
  <2>2. FirstSession /\ faults.loss <= Retries
    BY <2>1, FirstKept, LossesCount
  <2>3. Telling /\ Fresh /\ Succeeding
    BY <2>2 DEF FirstInv, RetriesInv
  <2> QED BY <2>1, <2>3, NextSucceeding
<1>3. RetriesInv => (FirstSession => RetriesSuffice)
  BY DEF RetriesInv, Succeeding, RetriesSuffice
<1>4. FirstInv /\ Succeeding => RetriesInv
  BY DEF RetriesInv
<1> QED BY <1>1, <1>2, <1>3, <1>4, First, PTL DEF Spec
=============================================================================
