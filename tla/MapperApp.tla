----------------------------- MODULE MapperApp -----------------------------
(***************************************************************************)
(* The mapper app (src/tools/nn_mapper/app.py): a user edits a model, picks*)
(* backups, scans for boards, sets them up and runs an inference on them.  *)
(* Streamlit runs the script from the top after every click; what lasts is *)
(* the session state.  A text that does not load or map stops the script,  *)
(* so that nothing but the editor is offered.                              *)
(***************************************************************************)
EXTENDS DeployedRun, FiniteSets

CONSTANTS
  Texts,       \* the model files, as load_model reads them
  Example,     \* the one the editor starts with
  Previews,    \* those that are only looked at: never scanned or set up for
  MaxEdits, MaxSetups, MaxRuns, MaxFailures, MaxReboots   \* bounds

ASSUME AppAssumption ==
  /\ Texts \subseteq Seq([size : {Missing} \cup Nat,
                          activation : {Missing} \cup STRING,
                          weights : {Missing} \cup Seq(Seq(Int)),
                          bias : {Missing} \cup Seq(Int)])
  /\ Example \in Texts /\ Previews \subseteq Texts

VARIABLES
  text,      \* model_json_editor
  choice,    \* the drop-downs by layer and node, under the keys of sig
  sig,       \* topology_sig of the last script run that got that far
  scanned,   \* scanned_devices
  setupDone, \* setup_done
  outcome,   \* run_outcome
  agent,     \* the boards
  deployed,  \* history: the model and the devices of the last started setup
  used       \* what has been used of the bounds

vars == <<text, choice, sig, scanned, setupDone, outcome, agent, deployed, used>>

NoOutcome == [answers |-> << >>, events |-> {}, error |-> FALSE, expected |-> << >>]
Undeployed == [model |-> << >>, roles |-> << >>]

-----------------------------------------------------------------------------
(* What the script derives from the text and the drop-downs.               *)

Model == Load(text)
Offered(t) == Loadable(t) /\ Mappable(Load(t))

(* The drop-downs of a topology, and all of them at "none".                *)
DropDowns(sizes) ==
  UNION {{<<l, n>> : n \in NodesOf(sizes[l + 1])} : l \in 1..(Len(sizes) - 1)}

Unchosen(sizes) == [a \in DropDowns(sizes) |-> NoBackup]

Backers(l) == {a[2] : a \in {x \in DOMAIN choice : x[1] = l /\ choice[x] # NoBackup}}

(* backup_selection: only what is chosen.                                  *)
BackupSelection ==
  [l \in {k \in 1..LastLayer(Model) : Backers(k) # {}} |->
     [n \in Backers(l) |-> choice[<<l, n>>]]]

ResendGrace == 300   \* the number input is left as it is

Network == NetworkJson(Model, BackupSelection, ResendGrace)

-----------------------------------------------------------------------------
Init ==
  /\ text = Example /\ Offered(text)
  /\ sig = Sizes(Load(text)) /\ choice = Unchosen(sig)
  /\ scanned = {} /\ setupDone = FALSE /\ outcome = NoOutcome
  /\ agent = [h \in Hardware |-> Blank]
  /\ deployed = Undeployed
  /\ used = [edits |-> 0, setups |-> 0, runs |-> 0, failures |-> 0, reboots |-> 0]

Spend(what, n) == used' = [used EXCEPT ![what] = @ + n]

(* Faulty variant: the keys of the drop-downs lack topology_sig.           *)
RenderedKeyed(t) ==
  /\ sig' = IF Offered(t) THEN Sizes(Load(t)) ELSE sig
  /\ UNCHANGED choice

(* Keys of another topology are new: their drop-downs start at none.       *)
Rendered(t) ==
  IF Offered(t) /\ Sizes(Load(t)) # sig
  THEN sig' = Sizes(Load(t)) /\ choice' = Unchosen(sig')
  ELSE UNCHANGED <<sig, choice>>

(* Bound: previews are looked at before the first setup.                   *)
Editable == IF used.setups = 0 THEN Texts \ {text} ELSE Texts \ ({text} \cup Previews)

(* The editor, an upload or the reset button.                              *)
Edit ==
  /\ used.edits < MaxEdits
  /\ \E t \in Editable : text' = t /\ Rendered(t)
  /\ Spend("edits", 1)
  /\ UNCHANGED <<scanned, setupDone, outcome, agent, deployed>>

(* A drop-down offers none and the eligible targets.                       *)
Options(a) == EligibleTargets(Model[a[1] + 1].size, a[2]) \cup {NoBackup}

Choose ==
  /\ Offered(text)
  /\ \E a \in DOMAIN choice : \E t \in Options(a) \ {choice[a]} :
       choice' = [choice EXCEPT ![a] = t]
  /\ UNCHANGED <<text, sig, scanned, setupDone, outcome, agent, deployed, used>>

Selectable == Offered(text) /\ text \notin Previews

(* The window is long enough for every unconfigured board to be heard.     *)
Scan ==
  /\ Selectable
  /\ scanned' = {h \in Hardware : agent[h].state = "UNCONFIGURED"}
  /\ UNCHANGED <<text, choice, sig, setupDone, outcome, agent, deployed, used>>

-----------------------------------------------------------------------------
(* Setup.                                                                  *)

(* The reply provision_device goes on after.                               *)
Consents(a, m) ==
  \E p \in Replies(a, m) : p.op = "ACK" \/ (p.op = "COMMIT_REPLY" /\ Verified(p, m.role))

Step(progress, m) ==
  IF ~progress.live \/ progress.agent.state = "RUNNING"
  THEN [progress EXCEPT !.live = FALSE]
  ELSE [agent |-> OnSetupPacket(progress.agent, m),
        live  |-> Consents(progress.agent, m)]

(* provision_device sends the script up to and with the commit; contact may*)
(* be lost when the board has got the first n messages, be it before the   *)
(* reply to the n-th.                                                      *)
Provisioned(r, hw, n) ==
  FoldLeft(Step, [agent |-> agent[hw], live |-> TRUE],
           SubSeq(SetupMessages(r, hw), 1, n))

(* START is broadcast: every configured board takes it.                    *)
Started(a) == IF a.state = "CONFIGURED" THEN [a EXCEPT !.state = "RUNNING"] ELSE a

(* _deploy_to_devices: all devices are tried, START is sent if none failed.*)
(* roles: by hardware id; got: how many messages reach the lost boards.    *)
Deploy(roles, got) ==
  LET boards  == DOMAIN roles
      total   == [h \in boards |-> Len(Script(roles[h]))]
      results == [h \in boards |->
                    Provisioned(roles[h], h,
                                IF h \in DOMAIN got THEN got[h] ELSE total[h])]
      success == DOMAIN got = {} /\ \A h \in boards : results[h].live
      after   == [h \in Hardware |->
                    IF h \in boards THEN results[h].agent ELSE agent[h]]
  IN /\ \A h \in DOMAIN got : got[h] <= total[h]
     /\ agent' = IF success THEN [h \in Hardware |-> Started(after[h])] ELSE after
     /\ setupDone' = success
     /\ deployed' = IF success THEN [model |-> Model, roles |-> roles]
                    ELSE deployed

(* More than any script has. *)
MaxScript == 4 + 2 * MaxChunks

StartSetup ==
  /\ Selectable /\ used.setups < MaxSetups /\ DeviceTotal(Model) > 0
  /\ \E selected \in kSubset(DeviceTotal(Model), scanned) :
       LET pool    == SetToSortSeq(selected, <)
           devices == Devices(Network, pool)
           roles   == [h \in selected |->
                         ParsedRole(devices[CHOOSE k \in DOMAIN pool : pool[k] = h])]
       IN IF Buildable(Network, pool) /\ \A k \in DOMAIN devices : Parses(devices[k])
          THEN \E lost \in SUBSET selected :
                 /\ used.failures + Cardinality(lost) <= MaxFailures
                 /\ \E got \in [lost -> 0..MaxScript] : Deploy(roles, got)
                 /\ used' = [used EXCEPT !.setups = @ + 1,
                                         !.failures = @ + Cardinality(lost)]
          ELSE /\ setupDone' = FALSE /\ Spend("setups", 1)
               /\ UNCHANGED <<agent, deployed>>
  /\ UNCHANGED <<text, choice, sig, scanned, outcome>>

-----------------------------------------------------------------------------
(* Run.                                                                    *)

Running == {h \in Hardware : agent[h].state = "RUNNING"}

Expected(model) ==
  [a \in PhysicalAddresses(model) |-> {SimulateAll(model)[a.layer][a.node]}]

(* Nothing asks for setup_done: the button is there without it.            *)
RunInference ==
  /\ Selectable
  /\ \E boards \in SetToSeqs(Running) :
       \E files \in Filed([k \in DOMAIN boards |-> agent[boards[k]]], Model) :
         outcome' = [answers |-> files.answers, events |-> files.events,
                     error |-> Unanswered(Model, files),
                     expected |-> Expected(Model)]
  /\ Spend("runs", 1)
  /\ UNCHANGED <<text, choice, sig, scanned, setupDone, agent, deployed>>

(* A board loses power; it comes back with an empty store.                 *)
Reboot(h) ==
  /\ used.reboots < MaxReboots /\ agent[h] # Blank
  /\ agent' = [agent EXCEPT ![h] = Booted(Blank)]
  /\ Spend("reboots", 1)
  /\ UNCHANGED <<text, choice, sig, scanned, setupDone, outcome, deployed>>

(* Bound: a session ends with its last run.                                *)
Next ==
  /\ used.runs < MaxRuns
  /\ \/ Edit \/ Choose \/ Scan \/ StartSetup \/ RunInference
     \/ \E h \in Hardware : Reboot(h)

Spec == Init /\ [][Next]_vars
=============================================================================
