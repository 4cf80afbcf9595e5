------------------------ MODULE MapperAppProperties ------------------------
(***************************************************************************)
(* What the mapper app promises its user.                                  *)
(***************************************************************************)
EXTENDS MapperApp

(* The state is well formed: in particular the drop-downs are those of the *)
(* topology that was rendered last (app.py keys them by topology_sig).     *)
TypeOK ==
  /\ text \in Texts /\ sig \in Seq(Nat)
  /\ choice \in [DropDowns(sig) -> NodeId \cup {NoBackup}]
  /\ scanned \subseteq Hardware /\ setupDone \in BOOLEAN
  /\ DOMAIN agent = Hardware
  /\ \A h \in Hardware : /\ agent[h].state \in AgentState
                         /\ {agent[h].topology, agent[h].backup} \subseteq AnyRole
  /\ DOMAIN deployed.roles \subseteq Hardware

(* Whatever was picked, edited and picked again, the selection the app     *)
(* holds passes the checks of codegen, of generate_manifest and of         *)
(* device_manifest: the options offered and the options accepted cannot    *)
(* drift apart (eligible_backup_targets), nor can an edit leave a choice   *)
(* that no longer makes sense (topology_sig).                              *)
OfferedIsAccepted ==
  Offered(text) =>
    /\ BackupsValid(Model, BackupSelection)
    /\ \A l \in 1..LastLayer(Model) :
         /\ LayerFits(Network, l)
         /\ \A n \in NodesOf(Model[l + 1].size), hw \in Hardware :
              Parses(Device(Network, AddressOf(l, n), hw))

(* The two generators of manifests, codegen.to_devices_json and            *)
(* generate_manifest.build_devices, give each board the same node, wiring  *)
(* and numbers, except for the successor of the last layer.                *)
MappersAgree ==
  Offered(text) =>
    LET pool    == Times(DeviceTotal(Model))
        entries == DevicesJson(Model, pool)
        devices == Devices(Network, pool)
    IN /\ DOMAIN entries = DOMAIN devices
       /\ \A k \in DOMAIN pool :
            LET e == entries[k]
                d == devices[k]
                last == d.cfg.addr.layer = LastLayer(Model)
            IN /\ <<e.hw, e.slot, e.activation, e.weights, e.bias>>
                    = <<d.hw, d.slot, d.activation, d.weights, d.bias>>
               /\ <<e.addr, e.pred, e.predLayer, e.preceding>>
                    = <<d.cfg.addr, d.cfg.pred, d.cfg.predLayer, d.cfg.preceding>>
               /\ e.succ = IF last THEN TerminalSentinel ELSE d.cfg.succ

NodeAddresses(model) ==
  UNION {{AddressOf(l, n) : n \in NodesOf(model[l + 1].size)} :
            l \in ModelLayers(model)}

(* The addresses of an accepted model survive their 4-bit fields           *)
(* (wire_format.encode_address): no two nodes, inputs included, share one. *)
FitsTheWire ==
  Offered(text) =>
    \A a, b \in NodeAddresses(Model) : OnWire(a) = OnWire(b) => a = b

(* An accepted model passes the desktop check of the chain from its        *)
(* manifest over the setup messages to a neuron's output (roundtrip.py).   *)
RoundTripPasses ==
  Offered(text) => RoundTripCheck(Model, Times(DeviceTotal(Model)))

(* The notes beside a backup selection (backup_detection_caveats) are true *)
(* of the configurations the boards would get: no other sibling ends the   *)
(* round, and somebody waits for the target's turn.                        *)
CaveatsMatchFirmware ==
  Offered(text) =>
    \A l \in DOMAIN BackupSelection :
      LET size    == Model[l + 1].size
          config(n) == ComputeConfig(Network, AddressOf(l, n), {})
      IN \A n \in DOMAIN BackupSelection[l] :
           /\ NoRoundEndSignal(size, BackupSelection[l]) <=> Others(config(n)) = {}
           /\ n \in TargetNotLast(size, BackupSelection[l]) <=>
                \E k \in NodesOf(size) :
                  BackupSelection[l][n] \in config(k).preceding

-----------------------------------------------------------------------------
(* Runs of the deployed model.                                             *)

Ran == used'.runs # used.runs /\ Model = deployed.model

ExpectedOutcome == ~outcome'.error /\ outcome'.answers = outcome'.expected

(* A board with a backup role nobody gave it this time.                    *)
StaleRole(h) == agent[h].hasBackup /\ ~deployed.roles[h].backup

TearsDown == \E e \in outcome'.events : e.kind = "teardown"

(* When the boards that run are the ones the last successful setup         *)
(* configured, every device answers with the number the app shows as       *)
(* expected and no device is reported, whatever the boards had been set up *)
(* for before; a backup role left over from then may report a device, and  *)
(* even stop the run, but no wrong number is shown.                        *)
PredictionsTrue ==
  [][Ran /\ Running = DOMAIN deployed.roles
       => \/ ExpectedOutcome /\ outcome'.events = {}
          \/ /\ \E h \in Running : StaleRole(h)
             /\ ExpectedOutcome \/ (outcome'.error /\ TearsDown)]_vars

Stood(b, h) == /\ deployed.roles[b].backup
               /\ deployed.roles[b].device.cfg.target = deployed.roles[h].addr

(* When one board has died for which another was planned to stand in, the  *)
(* run still ends with every expected number, and reports the substitution.*)
SubstitutesTrue ==
  [][\A h \in DOMAIN deployed.roles :
       /\ Ran /\ Running = DOMAIN deployed.roles \ {h}
       /\ \E b \in Running : Stood(b, h)
       => /\ ExpectedOutcome
          /\ \E e \in outcome'.events :
               e.kind = "substitute" /\ e.failed = deployed.roles[h].addr]_vars

(* When a substitution is reported and the run succeeds, the prediction is *)
(* correct, as the app says under the event (FAILOVER_EVENT_KINDS).        *)
SubstitutesCorrect ==
  [][/\ Ran /\ Running \subseteq DOMAIN deployed.roles
     /\ ~outcome'.error /\ \E e \in outcome'.events : e.kind = "substitute"
     => outcome'.answers = outcome'.expected]_vars
=============================================================================
