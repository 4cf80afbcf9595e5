----------------------- MODULE ProvisioningProperties -----------------------
(***************************************************************************)
(* What a provisioning session promises.  Which property holds under which *)
(* faults is the matter of the runs (README.md).                           *)
(***************************************************************************)
EXTENDS Provisioning

(* Boards, messages and session keep the shapes of NNSetupAgent's fields,  *)
(* the wire structs and main()'s locals.                                   *)
TypeOK ==
  /\ agent \in [Hardware -> Agent] /\ saved \in [Hardware -> Agent]
  /\ down \subseteq Message /\ up \subseteq Reply
  /\ tool \in Tool
  /\ faults \in Faults

Planned == {tool.boards[i] : i \in DOMAIN tool.boards}

(* A board verifies, is configured or runs only with every chunk of the    *)
(* arrays it announced as expected (NNSetupProtocol.h:211).                *)
NoPartialWeights ==
  \A h \in Hardware : agent[h].state \in {"VERIFYING", "CONFIGURED", "RUNNING"}
                        => PrimaryComplete(agent[h]) /\ BackupComplete(agent[h])

(* a holds what the manifest says of role r, and nothing else.             *)
PlaysRole(a, r) ==
  /\ a.addr = r.addr /\ a.ownLayer = r.addr.layer /\ a.topology = r
  /\ \A i \in FirstChunks(r.chunks) : a.weights[i] = r
  /\ a.hasBackup = r.backup
  /\ r.backup => /\ a.backup = r
                 /\ \A i \in FirstChunks(r.bchunks) : a.bweights[i] = r
  /\ r.seed => a.input = r

(* When START is broadcast, every board of the plan that obeys it plays    *)
(* exactly the role the manifest gives it.                                 *)
StartedAsPlanned ==
  tool.phase = "done" =>
    \A i \in DOMAIN tool.boards :
      agent[tool.boards[i]].state \in {"CONFIGURED", "RUNNING"}
        => PlaysRole(agent[tool.boards[i]], tool.roles[i])

(* When START is broadcast, a board of the plan that obeys it multiplies   *)
(* by the manifest's weights, its own and its target's: the checksums the  *)
(* tool compared were of the arrays the board runs with                    *)
(* (setup_tool.py:165-176, NNSetupProtocol.h:446-452).                     *)
WeightsAsPlanned ==
  tool.phase = "done" =>
    \A i \in DOMAIN tool.boards :
      LET a == agent[tool.boards[i]]
          r == tool.roles[i]
      IN a.state \in {"CONFIGURED", "RUNNING"} =>
           /\ \A c \in FirstChunks(r.chunks) : a.weights[c] = r
           /\ r.backup => \A c \in FirstChunks(r.bchunks) : a.bweights[c] = r

(* When START is broadcast, every board of the plan is waiting for it      *)
(* (setup_tool.py:329).                                                    *)
AllAwaitStart ==
  tool.phase = "done" =>
    \A h \in Planned : agent[h].state \in {"CONFIGURED", "RUNNING"}

(* No two running boards answer to one address, although START reaches     *)
(* every configured board and the addresses move between two sessions, if  *)
(* boards lose power only between sessions: a session that does not bring  *)
(* every board of its plan along starts none (setup_tool.py:326-332).      *)
DistinctAddresses ==
  ~faults.outage => \A g, h \in Hardware :
    g # h /\ agent[g].state = "RUNNING" /\ agent[h].state = "RUNNING"
      => agent[g].addr # agent[h].addr

(* Losing no more transmissions than there are retries fails no session    *)
(* unless one is late (setup_tool.py:227).                                 *)
RetriesSuffice ==
  faults.loss <= Retries /\ faults.late = 0 => tool.phase # "failed"

(* Every session ends, whatever is lost or late: retries are counted and a *)
(* device that exhausts them is given up (send_and_wait, provision_device).*)
SessionEnds == tool.phase = "discover" ~> Over

(* Once START is broadcast every board of the plan runs, unless a late     *)
(* TOPOLOGY_INFO may have unsettled it: START needs no acknowledgement only*)
(* because it is sent three times (setup_tool.py:329).                     *)
EveryoneStarts ==
  tool.phase = "done" /\ faults.late = 0
    ~> \A h \in Planned : agent[h].state = "RUNNING"
=============================================================================
