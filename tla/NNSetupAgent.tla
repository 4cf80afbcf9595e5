---------------------------- MODULE NNSetupAgent ----------------------------
(***************************************************************************)
(* The device side of the setup phase: NNSetupAgent                        *)
(* (src/src/NNSetupProtocol.h) as operators on an agent record.            *)
(*                                                                         *)
(* A role is what a manifest assigns to one device.  The scalar fields of  *)
(* a TOPOLOGY_INFO or BACKUP_ROLE_INFO arrive together, so they are        *)
(* represented by the role they describe; a stored weight chunk by the role*)
(* whose weights it holds.  Distinct roles have distinct weight checksums. *)
(***************************************************************************)
EXTENDS Integers

CONSTANTS
  Hardware,    \* the hardware ids of the boards
  Role,        \* the roles of the manifests, records as in IsRole
  MaxChunks,   \* chunks a weight array may have
  Persistent   \* TRUE: the NNConfigStore keeps what it saved

Chunk == 0..(MaxChunks - 1)
Place == [layer : 0..15, node : 0..15]

(* chunks, bchunks: WEIGHTS_CHUNK messages for the own and the backup array*)
(* seed: the manifest has an inputValue for the device                     *)
(* id and any further field tell the roles apart.                          *)
IsRole(r) == /\ r.addr \in Place
             /\ r.chunks \in 0..MaxChunks /\ r.bchunks \in 0..MaxChunks
             /\ r.backup \in BOOLEAN /\ r.seed \in BOOLEAN

Nobody == [id |-> "nobody", addr |-> [layer |-> 0, node |-> 0], chunks |-> 0,
           backup |-> FALSE, bchunks |-> 0, seed |-> FALSE]

ASSUME RoleAssumption == (\A r \in Role : IsRole(r)) /\ MaxChunks \in Nat

AnyRole == Role \cup {Nobody}

AgentState == {"UNCONFIGURED", "RECEIVING_CONFIG", "VERIFYING", "CONFIGURED",
               "RUNNING"}

(* addr, topology, backup: the nodeConfig the last ASSIGN_ADDRESS,         *)
(*   TOPOLOGY_INFO and BACKUP_ROLE_INFO filled in                          *)
(* ownLayer: windowConfig.ownLayerId                                       *)
(* expected, bexpected: the chunk counts; received, breceived: the masks   *)
(* weights, bweights: the storage, never cleared                           *)
(* input: whose INPUT_VALUE is pending (hasInputValue unless Nobody)       *)
Agent == [state : AgentState, addr : Place, ownLayer : 0..15,
          topology : AnyRole, expected : 0..MaxChunks,
          received : SUBSET Chunk, weights : [Chunk -> AnyRole],
          hasBackup : BOOLEAN, backup : AnyRole, bexpected : 0..MaxChunks,
          breceived : SUBSET Chunk, bweights : [Chunk -> AnyRole], input : AnyRole]

Setup == {"ASSIGN_ADDRESS", "TOPOLOGY_INFO", "BACKUP_ROLE_INFO",
          "WEIGHTS_CHUNK", "BACKUP_WEIGHTS_CHUNK", "INPUT_VALUE",
          "COMMIT_REQUEST"}

(* copy is not on the wire: the session and the attempt tell the           *)
(* transmissions of a message apart.                                       *)
Copy == Nat \X Nat

Message == [op : Setup \cup {"START"}, hw : Hardware, seq : 0..255,
            role : AnyRole, chunk : Chunk \cup {0}, copy : Copy]

(* sum, bsum: the arrays the checksums were computed over.                 *)
Sums == UNION {[0..(n - 1) -> AnyRole] : n \in 0..MaxChunks}
NoSum == << >>

Reply == [op : {"ACK", "NACK", "COMMIT_REPLY"}, hw : Hardware, seq : 0..255,
          about : Setup, success : BOOLEAN, sum : Sums, bsum : Sums,
          copy : Copy]

Blank == [state |-> "UNCONFIGURED", addr |-> Nobody.addr, ownLayer |-> 0,
          topology |-> Nobody, expected |-> 0, received |-> {},
          weights |-> [i \in Chunk |-> Nobody],
          hasBackup |-> FALSE, backup |-> Nobody, bexpected |-> 0,
          breceived |-> {}, bweights |-> [i \in Chunk |-> Nobody], input |-> Nobody]

FirstChunks(n) == 0..(n - 1)

(* The NNPersistedConfig of a configured board: the weights in use, not the*)
(* chunk counts, the masks or the input value.                             *)
Persisted(a) ==
  [Blank EXCEPT
     !.state = "CONFIGURED", !.addr = a.addr, !.topology = a.topology,
     !.weights = [i \in Chunk |-> IF i \in FirstChunks(a.topology.chunks)
                                  THEN a.weights[i] ELSE Nobody],
     !.hasBackup = a.hasBackup,
     !.backup = IF a.hasBackup THEN a.backup ELSE Nobody,
     !.bweights = [i \in Chunk |->
                     IF a.hasBackup /\ i \in FirstChunks(a.backup.bchunks)
                     THEN a.bweights[i] ELSE Nobody]]

(* Faulty variants of Booted: the store is not read; the backup weights are*)
(* not restored from it.                                                   *)
BootedBlank(saved) == Blank
BootedUnloaded(saved) ==
  [saved EXCEPT !.ownLayer = saved.addr.layer, !.bweights = Blank.bweights]

(* Fresh RAM, then begin(): what the store holds, if anything, is applied. *)
Booted(saved) == [saved EXCEPT !.ownLayer = saved.addr.layer]

PrimaryComplete(a) == FirstChunks(a.expected) \subseteq a.received
BackupComplete(a) == a.hasBackup => FirstChunks(a.bexpected) \subseteq a.breceived

(* maybeAdvanceToVerifying                                                 *)
Advanced(a) ==
  IF a.state = "RECEIVING_CONFIG" /\ PrimaryComplete(a) /\ BackupComplete(a)
  THEN [a EXCEPT !.state = "VERIFYING"] ELSE a

Collecting(a) == a.state \in {"RECEIVING_CONFIG", "VERIFYING"}

-----------------------------------------------------------------------------
(* The handlers.                                                           *)

HandleAssignAddress(a, m) == [a EXCEPT !.addr = m.role.addr]

(* Faulty variant: the layer of an earlier configuration is kept.          *)
TopologyKeepsLayer(a, m) ==
  Advanced([a EXCEPT !.topology = m.role, !.expected = m.role.chunks,
                     !.received = {}, !.state = "RECEIVING_CONFIG"])

(* Faulty variant: a board that collects already stays where it is.        *)
TopologyAgain(a, m) ==
  Advanced([a EXCEPT !.topology = m.role, !.ownLayer = a.addr.layer,
                     !.expected = m.role.chunks, !.received = {},
                     !.state = IF Collecting(a) THEN @ ELSE "RECEIVING_CONFIG"])

(* The backup fields of an earlier configuration are left as they are.     *)
HandleTopologyInfo(a, m) ==
  Advanced([a EXCEPT !.topology = m.role, !.ownLayer = a.addr.layer,
                     !.expected = m.role.chunks, !.received = {},
                     !.state = "RECEIVING_CONFIG"])

InRange(a, m) == m.chunk \in FirstChunks(a.expected)

HandleWeightsChunk(a, m) ==
  IF ~Collecting(a) \/ ~InRange(a, m) THEN a
  ELSE Advanced([a EXCEPT !.weights[m.chunk] = m.role,
                          !.received = a.received \cup {m.chunk}])

HandleBackupRoleInfo(a, m) ==
  IF ~Collecting(a) THEN a
  ELSE Advanced([a EXCEPT !.hasBackup = TRUE, !.backup = m.role,
                          !.bexpected = m.role.bchunks, !.breceived = {},
                     !.state = "RECEIVING_CONFIG"])

BackupInRange(a, m) == m.chunk \in FirstChunks(a.bexpected)

HandleBackupWeightsChunk(a, m) ==
  IF ~a.hasBackup \/ ~Collecting(a) \/ ~BackupInRange(a, m) THEN a
  ELSE Advanced([a EXCEPT !.bweights[m.chunk] = m.role,
                          !.breceived = a.breceived \cup {m.chunk}])

HandleInputValue(a, m) == [a EXCEPT !.input = m.role]

HandleCommitRequest(a, m) ==
  IF a.state = "VERIFYING" THEN [a EXCEPT !.state = "CONFIGURED"] ELSE a

(* Faulty variant: START is honoured one state too early.                  *)
StartVerifying(a, m) ==
  IF a.state = "VERIFYING" THEN [a EXCEPT !.state = "RUNNING"] ELSE a

HandleStart(a, m) ==
  IF a.state = "CONFIGURED" THEN [a EXCEPT !.state = "RUNNING"] ELSE a

(* onSetupPacket, for a message addressed to the board.                    *)
OnSetupPacket(a, m) ==
  CASE m.op = "ASSIGN_ADDRESS"       -> HandleAssignAddress(a, m)
    [] m.op = "TOPOLOGY_INFO"        -> HandleTopologyInfo(a, m)
    [] m.op = "WEIGHTS_CHUNK"        -> HandleWeightsChunk(a, m)
    [] m.op = "BACKUP_ROLE_INFO"     -> HandleBackupRoleInfo(a, m)
    [] m.op = "BACKUP_WEIGHTS_CHUNK" -> HandleBackupWeightsChunk(a, m)
    [] m.op = "INPUT_VALUE"          -> HandleInputValue(a, m)
    [] m.op = "COMMIT_REQUEST"       -> HandleCommitRequest(a, m)
    [] m.op = "START"                -> HandleStart(a, m)

-----------------------------------------------------------------------------
(* The replies.                                                            *)

Acked(m) == [op |-> "ACK", hw |-> m.hw, seq |-> m.seq, about |-> m.op,
             success |-> TRUE, sum |-> NoSum, bsum |-> NoSum, copy |-> m.copy]
Nacked(m) == [Acked(m) EXCEPT !.op = "NACK", !.success = FALSE]

(* COMMIT_REPLY carries the checksums of what the handler found stored.    *)
CommitReply(a, m) ==
  IF a.state # "VERIFYING"
  THEN [Acked(m) EXCEPT !.op = "COMMIT_REPLY", !.success = FALSE]
  ELSE [Acked(m) EXCEPT
          !.op = "COMMIT_REPLY",
          !.sum  = [i \in FirstChunks(a.topology.chunks) |-> a.weights[i]],
          !.bsum = IF a.hasBackup
                   THEN [i \in FirstChunks(a.backup.bchunks) |-> a.bweights[i]]
                   ELSE NoSum]

ChunkReply(inRange, m) == IF inRange THEN {Acked(m)} ELSE {Nacked(m)}

(* a is the agent as the message finds it.                                 *)
Replies(a, m) ==
  CASE m.op = "START" -> {}
    [] m.op \in {"ASSIGN_ADDRESS", "TOPOLOGY_INFO", "INPUT_VALUE"} -> {Acked(m)}
    [] m.op = "COMMIT_REQUEST" -> {CommitReply(a, m)}
    [] m.op = "BACKUP_ROLE_INFO" -> IF Collecting(a) THEN {Acked(m)} ELSE {}
    [] m.op = "WEIGHTS_CHUNK" ->
         IF Collecting(a) THEN ChunkReply(InRange(a, m), m) ELSE {}
    [] m.op = "BACKUP_WEIGHTS_CHUNK" ->
         IF a.hasBackup /\ Collecting(a) THEN ChunkReply(BackupInRange(a, m), m)
         ELSE {}
=============================================================================
