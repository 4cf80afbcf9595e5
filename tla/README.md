# A TLA+ model of NNAware

NNAware runs a fully connected neural network on a cluster of boards, one board
per neuron.  A laptop provisions the boards over UDP broadcast, then injects
inputs and collects outputs over UDP multicast; a board may back up a sibling of
its layer.  A desktop app maps a trained network onto the boards, sets them up and
compares what they answer with a simulation.  This directory models the app and
both phases, checks them with TLC on small deployments and proves the central
safety properties with TLAPS for all of them.

Paths are those of the repository (`src/src/` holds the C++ headers, "ino" is
`src/examples/Device_Setup/Device_Setup.ino`).

## 1. Inventory

| component | state | operations | talks to |
|---|---|---|---|
| `NNInputBuffer` (`NNBuffer.h`) | received mask, a value per sender | store, complete, reset | neuron, standby |
| `NNNode` | buffer, hasExecuted, output | receive, execute, seed, build, reset | scheduler |
| `NNScheduler` | six states, mask of siblings heard | observe, tick, seed, output, reset | node, loop |
| `NNBackupStandby` (`NNFailover.h`) | target heard, siblings heard, the target's inputs, verdict flags, two queued packets | observe, tick, two polls, reset | loop |
| `NNResendResponder`, `NNDuplicateSuppressor` | a pending reply; the locked slots | observe, poll, accept, reset | loop |
| firmware runtime loop (ino) | the pass globals, three retransmission slots, stall and idle timers | one iteration of `runRuntimeStep` | all of the above, multicast |
| inference client (`runtime.py`) | answers, reports, deadline | inject, absorb, wait, drain | multicast |
| UDP multicast | groups joined | send, receive; loses, repeats, reorders | boards and laptop |
| `NNSetupAgent` (`NNSetupProtocol.h`) | setup state, configuration, weights, chunk masks | eight handlers, HELLO, boot | broadcast, store |
| setup tool (`setup_tool.py`, `app.py`) | session, device, message, attempt | discover, provision, START | broadcast |
| manifest (`generate_manifest.py`, `device_manifest.py`) | none | check a network, derive masks, roles and numbers | setup tool, app |
| mapper core (`model_io`, `topology`, `constraints`, `codegen`, `simulate`, `roundtrip`) | none | load, check, expand, generate, simulate, verify on the desktop | app, manifest, agent, scheduler |
| mapper app (`app.py`) | the editor's text, the backup drop-downs, the boards scanned, whether setup was done, the last outcome | edit, choose, scan, set up, run | mapper core, setup tool, client |
| `NNPacketQueue` (`NNBuffer.h`) | eight slots, two positions, a count | push, pop | loopback, BLE and MQTT transports |
| wire formats, other transports | | | not modelled but for the address fields, see section 8 |

What is hard here: nothing on the wire says which run a packet belongs to;
packets are sent three times without acknowledgement while passes are opened and
closed by each board on its own; turn taking waits for siblings that may be dead
and backups wait for the round that waits for them; five timers (grace 50 ms,
gap 150 ms, stall 1.5 s, idle 5 s, the laptop's deadline) must nest; a setup
session is a chain of retried messages to a board whose handlers are mostly not
guarded by its state, and it may be repeated on boards that remember the last
one; the app is a script rerun from the top at every click, and what it says about
a run rests on what its user did to the network, the drop-downs and the boards in
the meantime.  `PROJECT.json` lists these hazards at their lines with the properties that
watch them.

What makes a component correct:

* buffer, node, scheduler: no computation before all inputs, turns in order,
  every pass ends;
* standby: one verdict, never for a live sibling, never without a request, from
  complete inputs; and what it sends and reports agrees with it;
* runtime phase: every run is answered with values of that run although a board
  dies or a packet is lost, and a substitution is reported;
* agent: never configured with a chunk missing;
* setup session: ends, survives the losses its retries are for, and START finds
  every planned board waiting in the role the manifest gives it, and no other;
* manifest and mapper core: the checks at one end of the chain admit nothing that
  the other end refuses or mangles, and two ways of computing the same thing agree;
* app: what it offers is accepted, and what it predicts and reports is true.

## 2. Modules

| module | models |
|---|---|
| `NNBuffer`, `NNPacket`, `NNScheduler`, `NNFailover` | the classes, as operators on records; a configuration record `c` is passed where the code holds a reference |
| `DeviceRuntime` | the globals of the sketch as one record; each stage of `runRuntimeStep` is an operator and `RuntimeStep` composes them in the order of the code |
| `Manifest` | what `build_devices` derives from a network description |
| `Inference` | the deployment: boards, client, network, time, faults |
| `InferenceProperties`, `MCInference` | the properties; three small networks |
| `LayerRun` | the abstract promise of a run of one layer, which `Inference` implements |
| `MCLayer` | `MCInference` together with the hypotheses and the invariants of the theorems about one layer |
| `BackupStandby`, `MCBackupStandby` | the standby alone, its methods called in any order |
| `FailoverDuty` | the abstract duty of a backup, which `BackupStandby` implements |
| `NNSetupAgent` | the agent's handlers and replies as operators on a record |
| `DevicePackets` | the messages the tool sends one board, and the reply it accepts |
| `Provisioning` | sessions of the tool, boards, network, power cycles |
| `ProvisioningProperties`, `MCProvisioning` | their properties and small networks |
| `DeviceManifest` | `build_devices` with its checks and numbers, and `parse_devices`; extends `Manifest` |
| `Mapper` | the mapper core: `load_model`, `build_topology`, `validate_topology`, `codegen`, `simulate_all` |
| `RoundTrip` | `roundtrip.py`: a manifest, `DevicePackets`, `NNSetupAgent` and `NNScheduler` put in a row |
| `DeployedRun` | what a run computes on boards as they were really set up, and what the client files of it |
| `MapperApp`, `MapperAppProperties`, `MCMapperApp` | the app: its session state and buttons, over all of the above; its properties; eight small model files |
| `PacketQueue` | the ring of packets, one action per return of `push` and `pop` |
| `BoundedFifo` | the abstract queue, which `PacketQueue` implements |
| `NNFailoverProofs`, `BackupStandbyProofs`, `DeviceRuntimeProofs`, `InferenceProofs`, `ProvisioningProofs`, `SessionProofs`, `MapperProofs`, `PacketQueueProofs` | the proofs |

Operators named in a comment "Faulty variant" are plausible bugs of the
definition that follows them.  Nothing uses them: `PROJECT.json` ("mutants")
says which property notices when one replaces its definition.

### Runtime phase

A value is its provenance: the set of runs whose inputs it was computed from.
Weighted sums become unions, so "the answer of this run" can be said without
arithmetic.  `Receive(d)` is one turn of the receive loop; `LoopStep(d)` is the
rest of an iteration, with every stage and the closing of the pass.  Between the
packets of one drain of the socket the code does nothing else, so a stage of the
model may run with packets still waiting where the code would have read them
first; a packet that arrives just after the drain has the same effect.
`StartRun`, `LaptopReceive`, `StopWaiting` and `FinishRun` are the phases of
`run_inference_on_devices`.  `Crash` is a board that dies; with the volatile
store it cannot rejoin without being provisioned again.  The history variable
`spoken` records who sent DATA in whose name in the current run.

Each packet has a field `copy`, not on the wire, that tells the three
transmissions of one packet in flight apart.  A stray packet (`MaxStray`) is one
that `Deliver` leaves in place, so that it comes again, or one that is still
under way when a timer runs out (`Straggling`).

### Setup phase

A role is what a manifest assigns to one board.  The scalar fields of a message
arrive together and are represented by the role they describe; a weight chunk by
the role whose weights it holds, and a checksum by the array it was computed
over (so a collision of the 8-bit checksum is not modelled).  `Send`,
`LaptopReceive` and `Timeout` are `send_and_wait`, `NextDevice` the end of
`provision_device`, `Advance` also the triple START of `main`.  `app.py`'s Setup
button runs the same functions in the same order; their interleavings with the
network are checked here, their outcomes composed with the rest in `MapperApp`.

### Mapper and app

A model file is the sequence of its layers as `load_model` reads them, the input
layer first; a missing key is `Missing`.  Numbers are symbols: an output is a term
of an activation, a bias and a sequence of (input, weight) pairs, built once by
`SimulateAll` and once by the boards, so that a swapped weight, a wrong bias or a
sum in another order is a different term.  Rounding is out of scope; the code
compares with a tolerance for its sake.  A role of `MapperApp` carries the whole
device of its manifest (field `device`), and `AssembledConfig` and
`AssembledWeights` put together what an agent has collected: the tool cuts an
array into chunks of `ChunkFloats` values, the last one shorter (`Slice`), the
agent copies each to its `Offset`, and a place no chunk reaches stays zero
(`Filled`).

Every click is an action.  Streamlit reruns the script from the top, so an action
takes effect together with what the rerun derives from it: `Rendered` is the
keying of the drop-downs by `topology_sig`.  A text that does not load or map
stops the script at the editor, and the drop-downs keep their state.  `StartSetup`
is a whole session: every board of the plan is provisioned by the messages of its
script through `OnSetupPacket`; contact with a board may be lost after any number
of them, be it before the reply to the last; START goes to every configured
board if none failed.  `Reboot` is a power cycle with the volatile store of the
sketch.  `RunInference` runs the text's model on whatever boards are running.

`DeployedRun` takes the passes of `Inference` one layer at a time, without losses
and with every timer running out in time, for agents in the configuration they
really assembled: the boards of a layer answer in any order (it matters when two
have one address), then its standbys act.  The races within a pass are the subject
of `Inference`.  A standby hears its own multicast, which makes a difference only
if its target is itself (a stale role).  `windowConfig.ownLayerId` is taken to be
the layer of the address: the two differ on a running board only after a third
session has broken off between ASSIGN_ADDRESS and TOPOLOGY_INFO.

## 3. Time

`Tick` advances every running timer of boards and laptop together.  With `Timely`
TRUE a tick, a run and a timeout happen only when the network is empty and no
board has work to do: delivery takes milliseconds, a tick stands for at least
the smallest timer.  At most `MaxStray` ticks, or `MaxLate` timeouts of the setup
tool, happen all the same with something still under way: an answer that misses
the grace period or the retry meant for it.  With FALSE the clocks run at any
speed.  The ratios kept
are: grace = gap < stall < idle < the client's deadline, the drain at least one
gap (2, 3, 8 and 1 ticks against 1).  In the firmware stall and grace together
(1500 + 50 ms by default) are still shorter than idle (5000 ms), which is what a
substitute needs to be in time; `trio_crash`, the run about it, has idle at 4.

## 4. Runs

Networks: *Mutual*, one input and two nodes that back each other up; *Trio*,
three siblings, first and last back each other; *Deep*, Mutual feeding a second
layer.  The app's model files: an AND gate, a pair of nodes, the same pair
retrained, a chain of two layers; to look at only, three siblings, a layer too
wide, a network too deep, a row too short.

| run | setting | holds |
|---|---|---|
| `standby_duty` | three siblings, two predecessors, any order of calls | TypeOK, VerdictOK, QueuesOK, DoesDuty, RequestsResolved |
| `pair_reruns` | Mutual, two runs, a board dies at any moment, fair | TypeOK, OnlyTheDeadReplaced, ReportsTrue, FreshAnswers, PassesClose |
| `pair_loss` | Mutual, one run, one packet lost on its way to a board, one repeated or late, nobody dies | RunsComplete, NeverTornDown |
| `trio_crash` | Trio, one run, the first or the last dies at any moment | LayerInv, DeadlineInv, RunsComplete, SubstitutionsReported, TurnOrder, AskAfterRound, RunAsPromised |
| `deep_crash` | Deep, one run, a node of the hidden layer dies at any moment, fair | InputsComplete, RunsAnswered, RunsComplete, SubstitutionsReported |
| `setup_retries` | an input board and a backer, one retry, two losses of anything but COMMIT_REPLY, one answer later than its timeout, fair | TypeOK, RetriesSuffice, StartedAsPlanned, NoPartialWeights, SessionEnds, EveryoneStarts |
| `setup_again` | two sessions of two manifests in any order, between which an address moves to the other board and an input board has the default address (0,0); a persistent store, two power cycles, two losses | AllAwaitStart, WeightsAsPlanned, DistinctAddresses |
| `mapper_session` | the app, two boards, eight model files; two edits, any choices and scans, two setups of which one may lose contact with a board, a power cycle, a run | TypeOK, OfferedIsAccepted, MappersAgree, FitsTheWire, RoundTripPasses, CaveatsMatchFirmware, PredictionsTrue, SubstitutesTrue |

The cfg files hold the exact constants.  Bounds: `Runs`, `MaxLoss`, `MaxStray`,
`MaxCrash`, `MaxSessions`, `MaxLate`, `MaxReboot`, `Retries`, the tick counts and, in the app,
`MaxEdits`, `MaxSetups`, `MaxRuns`, `MaxFailures` and `MaxReboots`.  Two runs are
the least that show one run leaking into the next, three
siblings the least in which a backup waits for a round, two layers the least in
which a substitute has a consumer, two chunks the least in which a mask can be
partial.  A session repeats the same handling for every device, so two devices
meet every branch; one retry and two losses are the least that exhaust the
retries, so that a device is given up and the session goes on without it.  Two
power cycles are the least that leave two boards without the configuration of
one session.  No symmetry is used: siblings are ordered.

In the app an address field holds three values (`FieldMax`), a chunk two numbers
(`ChunkFloats`) and a board three predecessors (`MaxPredecessors`), so that the
limits lie within the model files: `TooWide` and `TooDeep` exceed a field by one,
an array of three is cut into a full chunk and a short one.  Two setups are the
least in which one
leaves something behind for the other, two edits the least that leave a network
and come back.  A session ends with its last run, which nothing follows that a
property speaks of.  The previews are edited to and chosen in, but not scanned or
set up for: three siblings would need a third board, the others are refused.

`TurnOrder` speaks of devices whose preceding siblings all live.  When the first
of three dies, the stall timers of the other two expire together and both are
released: the code does not stagger them, and the order among the survivors is
not kept.

`trio_crash` is also the small instance of the theorems about one layer: its module
has TLC evaluate their hypotheses, `OneLayer`, `Calm` and `Covered`, and the run
checks `LayerInv` and `DeadlineInv`, the inductive invariants they rest on, and
`RunAsPromised`, that the run implements the abstract `LayerRun`.

Deadlock is checked in the runtime runs: a board's loop always has a step, if
only a stuttering one.  The setup runs end by design when the last session is
over, and the user of the app may stop clicking; they say `CHECK_DEADLOCK FALSE`.

### Disagreements between the code and what it says

Each run below finds one property of the documentation violated by the code;
`PROJECT.json` ("findings") quotes the line.

| run | what happens |
|---|---|
| `rerun_lost` | a resend reply that arrives after the pass was closed makes the standby believe in the next run that its dead target has spoken: the run is lost |
| `report_lost` | the pass closes in the iteration of the substitution and drops the report's retransmissions; one loss hides the failover |
| `reply_lost` | a commit repeated because its reply was lost is answered with a failure |
| `stale_backup` | a board set up with a backup in a session that failed for another board keeps the role when it is set up for a retrained network without backups; its sibling dies, it stands in with the old weights, and the app calls the wrong prediction correct |

The cause of the first, that a packet does not say which run it belongs to and
that copies outlive the pass they were sent in, limits other properties too.
With two runs, late copies of the first also grant turns and finish rounds in the
second, so `TurnOrder`, `AskAfterRound`, `RunsComplete` and `RunsAnswered` are
claims about a single run.  `FreshAnswers` holds over two runs of a single layer,
whose inputs the laptop sends once, and fails from the second layer on, where a
retransmission of the first run can stand in for a value of the second
(`Deep` with `Runs = 2`).

In the deployment of `stale_backup`, with nobody dead, the stale standby may also
report a device as gone silent, one that answers or one that does not exist;
`PredictionsTrue` therefore allows a report where a board holds a role it was not
given this time, and claims that the numbers are right all the same.  It also
allows such a run to stop without numbers: a stale role from a network with three
inputs waits in a network with two for an input that never comes, so the standby
gives its target up, and the client ends the run with the teardown as its error.

Other limits:

* An output may go out once only.  A board whose standby has heard its target by the time
  it transmits closes its pass in that iteration (ino:220-237), and the closing
  clears the two transmissions that `NN_DATA_RETRANSMITS` (ino:30) has left.  One
  loss on the way to the laptop then costs the run: `RunsComplete` fails in the
  deployment of `pair_loss` when the laptop's packets may be lost too.  On the way
  to a board one loss is made good, by the resend request or the backup.
* `AllAwaitStart` fails with a single late answer (`MaxLate = 1`), and with `Timely`
  FALSE: a delayed copy of TOPOLOGY_INFO takes a CONFIGURED board back to
  RECEIVING_CONFIG, and START is ignored there.  `RetriesSuffice` and
  `EveryoneStarts` speak of sessions without one for the same reason.
* `StartedAsPlanned` fails over two sessions: a backup role survives being
  provisioned without one (`hasBackupRole` is only ever set), and the tool does
  not look at the reply's `has_backup_role`.  `stale_backup` shows what it costs.
  If the first session broke off before the last backup chunk, the board cannot
  complete without a backup either and fails every setup until it is power-cycled
  or given a backup again.
* An input board that was sent no INPUT_VALUE transmits a zero: its empty
  predecessor mask is complete, although ino:309 says it has nothing to emit.
  `build_devices` writes no such board.
* Dynamic assignment fails for every network with `inputValues`: setup_tool.py:257
  counts the nodes of the layers only (`Taken`), while generate_manifest.py:76-78
  says that each input node counts as a device.  The app never writes
  `inputValues`, and the runtime runs have the laptop inject the inputs.
* A board configured in a failed session stays configured, and starts with the
  START of the next session even if that one does not include it.
* `OnlyTheDeadReplaced` and `ReportsTrue` fail with a single repeated or late packet:
  an injected input that reaches a board again after it has closed its pass opens a
  second one, in which its target has nothing to say; the board stands in for it
  and reports it as gone silent.  Hence `pair_reruns` has `MaxStray = 0`.
* `DistinctAddresses` ends with the first power cycle within a session (its
  premise, `~faults.outage`): a board cycled between its ASSIGN_ADDRESS and its
  TOPOLOGY_INFO is configured all the same, with the default address (0,0).  Two
  such boards share it, and one shares it with an input board whose address that
  is, in a first session already.  With dynamic assignment and a spare board the
  property fails without any power cycle: a board configured in a failed session
  announces itself no more, and the spare gets its role.
* When a node and its backup die nobody reports it, and the run ends in the
  client's timeout; a node that has computed but not transmitted ignores a
  resend request (`ownOutputSent` is still false).

Seen in the app while modelling it, and not the subject of a property:

* `suggested_target` of a caveat is the last node of the layer even when the backer
  is that node, a pairing `_validate_layer_backups` refuses.
* `to_devices_json` ends the last layer with successor 255, `build_devices` with
  the next group, which is the one the client joins; the app uses the second.
  `MappersAgree` states the exception.
* `setup_done` and the last outcome outlive an edit of the network: the hint to
  run setup stays away, and the old answers are shown under the new devices.

## 5. Fairness

`LoopFairness`: an Arduino `loop()` is called for ever, so a board that has work
takes its steps.  `TimeFairness`: `millis()` advances.  Both are weak fairness
with ENABLED written out, because an idle loop iteration is a stuttering step.
`Receive` is weakly fair: the loop polls the socket and what the network does
not lose is handed over.  The client's actions are weakly fair: it is a loop
with timeouts.  In the setup phase the tool's actions, HELLO and `Receive` are
weakly fair for the same reasons.  No fairness is assumed of the user
(`StartRun`, `StartSession`), of losses, deaths or power cycles.  The standby on
its own assumes that `tick` is called and the clock advances.

## 6. Proofs

Proved with TLAPS for every value of the constants that satisfies the named
assumptions:

* `BackupStandbyProofs`: `TypeCorrect`, `VerdictsSound`, `QueuesSound`, and
  `StandbyDoesDuty`: the standby implements `FailoverDuty`.  The inductive
  invariant is the conjunction of the first three; the queue part is needed
  because a verdict may be reached while a request is still queued, and the
  refinement needs it to know that what is polled is what the phase entitles
  the backup to send.
* `InferenceProofs`: `TypeCorrect`; `NodesWaitForInputs`, that no node leaves
  WAITING_FOR_INPUT before its inputs are complete; and `TeardownUnreachable`,
  that in a deployment in which every standby is given its own predecessors as its
  target's (`Provided`), as `build_devices` writes them, no TEARDOWN and no report
  of one is ever sent and no run is aborted for one, so the TEARDOWN branch of the
  firmware is dead code there.  It speaks of what is on the wire, because a
  board that has already transmitted would set the flag and clear it again within
  one iteration.  It needs a stronger invariant: the standby's buffer has every
  input the node's buffer has, because both are filled by the same packets and
  emptied by the same `closePass`; the standby ticks only when the node's buffer
  is complete, so no tick of any iteration gives the target up; and what waits in
  a retransmission slot is no teardown either (`Hopeful`).
  These three cover every network, number of runs, loss, duplication, delay and
  death.  The next ones speak of a single run, because a second one can be
  misled by packets of the first (`rerun_lost`).
  - `AsksLast`: a standby asks its target to resend only after everyone else in
    its layer has been heard of in this run.  It needs `Runs <= 1` and
    `FedByLaptop` (every board waits for packets and knows its address, the laptop
    plays the input nodes, which are layer 0), and nothing of the faults.  The
    invariant `AskInv` says that whatever was observed by a standby, or is in
    flight to be observed, has been said (`Truthful`), that between two iterations
    a board has handed over what it had to send (`Settled`), and that before the
    run nothing is in flight and nobody has been heard (`AtRest`).  It carries over
    the closing of a pass, in which a standby forgets, because the history does not.
  - `PlayedInStep`, `LiveNotReplaced`, `LiveNotReported`, `TurnsInOrder`: in a network
    of one layer of any size with any backup roles (`OneLayer`), with prompt and
    lossless delivery to the boards and the stall timeout shorter than the idle one
    (`Calm`), however many boards die and whenever, nobody speaks in the name of a
    live board (the history `spoken` says so, also of a board that substitutes after
    its own turn and closes its pass at once), none is reported, and a board whose
    preceding siblings live speaks after them.
    `BuiltOneLayer` shows that `build_devices` provisions every such network as
    `OneLayer` asks.  What the laptop hears may be lost.
    The invariant `LayerInv` follows every live board through the run: before it
    has spoken it holds exactly the inputs that are no longer in flight, its pass
    is not about to time out (`Patient`), and while those before it live it has
    not been released from its turn (`KeepsTurn`); afterwards it does not start
    over (`Finished`); and a standby has heard its target or will (`Watching`).
    The clocks are where it could fail, and a tick passes only when nobody has
    work left.  Then every board yet to speak waits for a lower node that has not
    been heard of (`StandsStill`); the lowest such node would wait for nobody
    (`NobodyBlocked`, by well-foundedness of the naturals), so one that waits while
    those before it live cannot exist, and no stall timer runs that would release
    it.  In the same way a request to a live target has been answered by the time
    the clock moves (`TickAnswers`), because the target must have spoken for the
    round to be complete.
    In the deployment of `trio_crash` TLC refutes these properties when a hypothesis
    of `Calm` is dropped: `TurnOrder` with one loss, with a second run or with
    `Timely` FALSE, `ReportsTrue` with three losses or one repetition.  That the
    stall timeout is the shorter one (1.5 s against 5 s in the firmware) is what
    `Patient` uses; TLC finds the three properties true with equal ones as well.
  - `NoRunLost`, `NoSilentSubstitute`, `LayerKeepsPromise`: what the laptop gets.
    To `OneLayer` and `Calm` they add `Covered`: at most one board dies, one that a
    sibling backs up; the laptop hears everything; and stall plus grace is shorter
    than a pass's idle timeout and the laptop's deadline.  Then the run ends with
    every answer (`RunsComplete`) and with a report of every substitution
    (`SubstitutionsReported`), and the deployment implements `LayerRun`, in which
    only the silent dead are spoken for and the laptop files only what was said.
    `BuiltCovered` reduces `Covered`, for networks that `build_devices` accepts and a
    laptop that waits for the layer in the groups it always joins, to what only the
    user and the network can provide: no loss, a backup for each board that may
    die, and a grace period that short.
    The argument, `DeadlineInv` (`DeadlineKept`), is an account of the clocks.
    While the laptop waits, whoever is yet to speak has stalled exactly as long as
    the laptop has waited (`OnTime`), so after one stall timeout every survivor has
    spoken; a standby whose target is silent follows the round (`Following`), so
    its request goes out then at the latest and its grace accounts for the rest
    of the wait.  At the deadline nobody can be missing: `Complete` is there
    before.  That the closing of a pass cuts a report's retransmissions short
    (`report_lost`) does no harm, because nothing is lost and the first copy is on
    its way (`Reported`).  The refinement needs `PromiseInv` besides: every report
    tells of a substitute that was sent (`Vouched`), and a standby that has waited a
    tick for its target knows whether it spoke (`Mute`), without which a target
    that dies just after speaking would be spoken for all the same.  What one loss and a
    second run do to these properties is the subject of `report_lost` and
    `rerun_lost`.
* `ProvisioningProofs`: `WeightsComplete`, that no board verifies, is configured
  or runs with a chunk of a weight array missing.  TLC checks it with one late
  answer (`setup_retries`); the theorem covers every delay and reordering.  Its
  invariant says of each board that it is packaged whenever it is past
  RECEIVING_CONFIG, of each store that it holds no chunk counts (so a board that
  boots from it expects none), of each message that it carries a role, and of the
  tool that it stands inside the script of a device of the plan; the last rests
  on the lemma that every script ends with the one message an ACK does not answer.
  `TypeCorrect` adds the type of every variable.  Its invariant `SessionInv` has a
  second part, `PlanOf`: the boards of a plan are as many as its roles, are taken
  from the pool, and none twice if the pool lists none twice; the devices
  configured so far are among those before the current one.
* `SessionProofs`: what a whole session gives the boards.  All its theorems assume
  `Timely` and `MaxLate = 0` (the tool's timeout is longer than the network keeps a
  message) and
  `PoolDistinct` (`hardware_ids.json` names no board twice); any number of boards,
  layers, chunks, sessions, losses and power cycles is covered except where said.
  - `WeightsPlanned`: a board that obeys START multiplies by the manifest's
    weights, its own and its target's.  The invariant `ConfirmedInv` is about one
    board: from the good verdict of COMMIT_REPLY on, the arrays it holds are the
    ones whose checksum the tool compared.  What makes it inductive is
    `Rendezvous`: with a timeout longer than the network only the board being
    provisioned has a message or an answer in flight, and each answers the
    packet the tool waits on.
  - `AllAwait`: if the stores persist, every board of the plan is CONFIGURED when
    START is broadcast.  Same invariant: a board's store is written when the
    verdict is good, so a power cycle takes it back to CONFIGURED.
  - `PlayedAsPlanned`: a board that obeys START has the whole of its role (address,
    layer, weights, backup duty or none, input), in the first session of boards
    that stay powered.  COMMIT verifies the weights only, so the rest has to
    come from the script: `Telling` says that a board told the first k messages of
    its script has the fields those messages carry, and `Fresh` that boards the
    session has not reached are as they left the factory.  Neither restriction can
    go: TLC finds the property violated in a second session (`stale_backup`)
    and after one power cycle in the first (a board rebooted between its
    TOPOLOGY_INFO and its COMMIT forgets it had a backup role, and passes).
  - `AddressedApart`: `DistinctAddresses`, that as long as boards lose power only
    between sessions no two running boards have one address, over all sessions, if
    every network uses the same boards (`SameBoards`) and no network gives an
    address twice (`UniqueAddresses`).  `ApartInv`, which holds until the first
    outage, says where the address of every kind of board comes from:
    `ToldSoFar` of the one being provisioned, `Addressed` of those configured in
    this session, `Bystanding` of those an earlier one left.  TLC refutes it for
    networks of different sizes, even without power cycles, and without its
    premise for one power cycle within a session; section 4 says how.
  - `RetriesSave`: the first session of powered boards gives up no device unless more
    transmissions are lost than there are retries, provided no COMMIT_REPLY is
    lost (`reply_lost` shows why) and the networks fit the pool.  The invariant
    counts: every attempt but the first of a packet is paid for by a loss, and
    `Collected` says that a board told the first k messages answers the next
    with an ACK, and COMMIT with the checksums the tool expects.

* `MapperProofs`: `SelectionSafe`, that whatever is edited and picked the selection
  the app holds passes every check of codegen and of both manifest modules, and
  `AddressesSafe`, that no two nodes of an accepted model share an address on the
  wire; for every set of model files and every width of the fields.  The
  inductive invariant `Selections` says that the drop-downs are those of the
  topology rendered last, that this is the topology of the text whenever the
  text is offered, and that each drop-down holds "none" or a target eligible in
  that topology.  The middle part is what the key `topology_sig` is for; the
  mutant whose keys lack it breaks it.
  `CaveatsSafe`, that the app's caveats about a selection are true of the masks
  the boards would get, for layers of any size, follows from the same invariant
  and two facts about masks: `othersMask` is empty exactly in a layer of two, and
  a target is in some board's preceding mask exactly when it is not the last of
  its layer.
  `GeneratorsAgree`, that `to_devices_json` and `build_devices` write the same
  boards in the same order but for the successor of the last layer, whatever the
  depth, the widths and the backups.  One flattens the topology, whose first layer
  are the virtual inputs, and filters them out; the other flattens the rows of
  addresses of the network file.  Both are recursions, and the proof is an
  induction on the layers walked so far: the two lists agree place by place behind
  the inputs (`NodesListed`, from `FlattenJoins`, `RowListed` and `ListsConcat`), so
  the filter leaves what the other generator has (`PhysicalListed`, from
  `PhysicalKeeps`), and `EntriesAgree` compares what is written for one node.  The
  marker `Missing` must not be a number (`ManifestAssumption`).
  `ManifestMirrors`,
  that every backup configuration `build_devices` writes mirrors the layer's own
  inputs, discharges the condition under which `TeardownUnreachable` of
  `InferenceProofs` holds.
* `PacketQueueProofs`: `QueueIsFifo`, that the ring implements `BoundedFifo` for
  every positive capacity: however often its positions wrap, packets come out in
  the order they went in, each once, and a full ring refuses the newest without
  disturbing the others.  The abstract queue reads the slots from `head` on; that
  reading is right because of `RingSafe`, that `tail` is always `count` slots
  ahead of `head`.  The ring stands alone, so the theorem says all there is and
  no run repeats it.

`NNFailoverProofs` has the type lemmas of the operators and `DeviceRuntimeProofs`
one lemma per stage of the loop (what it does to types, to the scheduler, to
the standby and to what is sent).  Its second part puts the stages together:
`StepTaken` says what an iteration that closes the pass and one that does not can
have done, and `PacketTaken` the same of a packet.  `InferenceProofs` cites them
for `LoopStep` and `Receive` and treats faults and time.  The assumptions are those of the modules: `Cfg` holds
configurations, the standby watches a sibling of its own layer and not itself,
ticks are positive, a session has at least one device, the app's model files are
sequences of layers (`AppAssumption`).  Unless said above, nothing is assumed about
the network: the proofs cover any loss, duplication, reordering and any speed of
the clocks.

Scripts and the boards found are recursive functions over the pool and the chunks.
The library's induction theorem takes a predicate, which the provers cannot
instantiate; `SetInduction` in `ProvisioningProofs` and `MapperProofs` derives from
well-foundedness the same principle for a set of naturals, and that is enough for
what a recursive function returns (`FilterShape`, `ScriptLaid`, `PhysicalKeeps`).

Only model-checked:

* all liveness properties (`PassesClose`, `RunsAnswered`, `RequestsResolved`,
  `SessionEnds`, `EveryoneStarts`): fairness is out of the prover's reach;
* `RunsComplete` and `SubstitutionsReported` for two layers and for a lost or repeated
  packet (`deep_crash`, `pair_loss`): `DeadlineInv` counts one layer's stall and grace,
  and charges nothing to a retransmission;
* `OnlyTheDeadReplaced` and `ReportsTrue` over two runs, and `TurnOrder` over several
  layers: the theorems speak of one run of one layer;
* `FreshAnswers` over two runs: it rests on no packet of the first run being
  accepted in the second, which is false from the second layer on.  For a single
  layer an invariant would have to say when each board that outlived its
  pass, its slots and its standby's queue are at rest again, for every number of
  boards and deaths; `LayerInv` speaks of the first run only;
* what the app says of numbers (`RoundTripPasses`, `PredictionsTrue`,
  `SubstitutesTrue`) and its type invariant: the terms, assembled arrays and
  agents they speak of come out of the community modules' folds, whose
  definitions choose an element or take an operator, and which the provers cannot
  unfold step by step.

## 7. Plan

In the order of importance; 1 to 5, 7 and 8 are done.

1. Runtime phase: buffer to `Inference`, standby refinement, its proofs.
2. Setup phase: agent, sessions, runs.
3. Mapper and app: manifest, mapper core, round trip, sessions, their proofs.
4. The safety of the setup phase as theorems, for any number of boards.
5. The safety of one run of one layer as theorems, for any number of boards.
6. `OnlyTheDeadReplaced`, `ReportsTrue` and `FreshAnswers` over several runs of one
   layer: `LayerInv` needs a part that says which copies of an earlier run may
   still be in flight.  Then layers behind each other, where a board's inputs
   arrive spread over time.
7. `RunsComplete` for one run of one layer: that the laptop's deadline is longer than
   the timers of a layer can add up to.
8. An abstract specification of a run (`LayerRun`) and its refinement by `Inference`
   for a single run of one layer.
9. An abstract specification of provisioning (a board is unassigned, assigned or
   started, with a role) and the refinement of `Provisioning` to it for the
   settings in which it holds.
10. Runs with `Loopback` and with two backers of one target; a persistent store,
    an input board and a manifest that moves a board are in `setup_again`.

## 8. Not modelled

* BLE and MQTT transports, but for the queue between their callbacks and
  `receive`: not used by the firmware, called not fully tested by the
  repository's README, and otherwise radio and broker I/O.
* Serialisation and checksums of packets and setup messages, floating-point
  arithmetic and activation functions: pure conversions, covered by the
  repository's golden-packet and reference-network tests.  A corrupted packet is
  a lost one.
* The app's tables and wording, its path, port and grace inputs, `to_cpp_header`
  and the files the mapper writes: display and output.  `cpp_runner.py`: a test
  harness.
* A multicast join that fails, WiFi reconnection, serial output.
* Weight arrays longer than the storage, packets from a foreign cluster: no
  manifest of `build_devices` leads there.
