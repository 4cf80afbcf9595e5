---------------------------- MODULE DeployedRun ----------------------------
(***************************************************************************)
(* What an inference run computes on the boards as they were really set up:*)
(* agents hold what they assembled, each layer answers after the one before*)
(* it, the standbys of a layer act when its boards have spoken, and the    *)
(* client (run_inference_on_devices) files what it hears.                  *)
(*                                                                         *)
(* Nothing is lost and every timer runs out in its time: the races of a    *)
(* pass are the subject of Inference.  The order in which boards of a layer*)
(* are heard is arbitrary (it matters when two have one address).  Copies  *)
(* and resend requests are left out: a target that hears one has answered. *)
(***************************************************************************)
EXTENDS RoundTrip

(* air: the packets multicast so far, in order; units: the agents of the   *)
(* boards that run, in the order in which they are heard.                  *)

SentTo(group, p) == [p EXCEPT !.group = group]

Overheard(c, air) == SelectSeq(air, LAMBDA p : p.group \in Groups(c))

(* A turn that stalls is released.                                         *)
Released(c, s) == [s EXCEPT !.observed = @ \cup c.preceding]

OwnOutput(a, air) ==
  LET c == AssembledConfig(a)
      s == Ticked(c, Released(c, Hear(c, Overheard(c, air))))
  IN IF OutputReady(s)
     THEN <<SentTo(c.succ, DataPacket(c.addr, "none", {Computed(a, s)}))>>
     ELSE << >>

Watching(c, air) ==
  FoldLeft(LAMBDA b, p : StandbyObserve(c, b, p), StandbyReset,
           Overheard(c, air))

(* tick() of a standby: before the request, and when the grace is over.    *)
Resolved(c, b) == StandbyTick(c, [StandbyTick(c, b) EXCEPT !.waited = c.grace])

(* computeSubstituteOutput, with the numbers.                              *)
SubstituteNumber(a, b) ==
  Output(a.backup.device.bactivation, a.backup.device.bbias,
         BufferedNumbers(b.buffer, a.backup.device.cfg.tpred),
         AssembledBackupWeights(a))

(* A standby watches once its own pass has begun (StandbyStage).           *)
StandbyPackets(a, air) ==
  LET c == AssembledConfig(a)
      b == Resolved(c, Watching(c, air))
      watches == IsStandby(c) /\ OwnOutput(a, air) # << >>
  IN CASE watches /\ b.hasSubstituted ->
            <<b.diagnostic, SentTo(c.succ, [b.outgoing EXCEPT
                              !.value = {SubstituteNumber(a, b)}])>>
       [] watches /\ b.hasTornDown -> <<b.diagnostic>>
       [] OTHER -> << >>

(* A substitute may be what completes the round for another standby.       *)
LayerPass(units, air, l) ==
  LET layer  == SelectSeq(units, LAMBDA a : a.addr.layer = l)
      spoken == FoldLeft(LAMBDA x, a : x \o OwnOutput(a, x), air, layer)
  IN FoldLeft(LAMBDA x, a : x \o StandbyPackets(a, x), spoken,
              FlattenSeq([i \in DOMAIN layer |-> layer]))

(* The client injects one packet per input node of its model.              *)
Injected(model) ==
  [k \in 1..model[1].size |->
     SentTo(1, DataPacket(AddressOf(0, k - 1), "none", {InputTerm(k - 1)}))]

Air(units, model) ==
  FoldLeft(LAMBDA air, l : LayerPass(units, air, l), Injected(model),
           Times(FieldMax - 1))

-----------------------------------------------------------------------------
(* The client.                                                             *)

ClientGroups(model) == {l + 1 : l \in 1..LastLayer(model)} \cup {DiagGroup}

PhysicalAddresses(model) == {n.addr : n \in ToSet(PhysicalNodes(model))}

OutputAddresses(model) ==
  {a \in PhysicalAddresses(model) : a.layer = LastLayer(model)}

(* absorb() *)
AbsorbPacket(model, files, p) ==
  IF Report(p)
  THEN [files EXCEPT !.events = @ \cup {[kind |-> p.flag, failed |-> p.about,
                                         backup |-> p.src]}]
  ELSE IF p.type = "DATA" /\ p.src \in PhysicalAddresses(model)
       THEN [files EXCEPT !.answers = (p.src :> p.value) @@ @] ELSE files

(* A report of a failed substitution makes the client stop, so it may miss *)
(* what comes after it.                                                    *)
StopPoints(heard) ==
  {Len(heard)} \cup
  {k \in DOMAIN heard : \E j \in 1..k : Report(heard[j])
                                        /\ heard[j].flag = "teardown"}

(* What run_inference_on_devices may return or raise.                      *)
Filed(units, model) ==
  LET heard == SelectSeq(Air(units, model),
                         LAMBDA p : p.group \in ClientGroups(model))
      files == [answers |-> << >>, events |-> {}]
  IN {FoldLeft(LAMBDA f, p : AbsorbPacket(model, f, p), files,
               SubSeq(heard, 1, k)) : k \in StopPoints(heard)}

Unanswered(model, files) ==
  ~(OutputAddresses(model) \subseteq DOMAIN files.answers)
=============================================================================
