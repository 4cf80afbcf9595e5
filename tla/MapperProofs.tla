---------------------------- MODULE MapperProofs ----------------------------
(***************************************************************************)
(* For every set of model files: whatever the user edits and picks, the    *)
(* selection the app holds is accepted, what is said of it is true, and the*)
(* two generators write the same boards.  The inductive invariant says     *)
(* which topology the drop-downs belong to and that each holds one of its  *)
(* options.                                                                *)
(***************************************************************************)
EXTENDS MapperAppProperties, SequenceTheorems, WellFoundedInduction, TLAPS

LayerFile == [size : {Missing} \cup Nat, activation : {Missing} \cup STRING,
              weights : {Missing} \cup Seq(Seq(Int)), bias : {Missing} \cup Seq(Int)]

LEMMA ListShape ==
  ASSUME NEW n \in Nat, NEW S, NEW f \in [1..n -> S]
  PROVE  f \in Seq(S) /\ Len(f) = n /\ DOMAIN f = 1..n
<1>1. f \in Seq(S)
  BY SeqDef
<1> QED
  BY <1>1, LenProperties

LEMMA TextShape ==
  ASSUME NEW raw \in Texts
  PROVE  /\ Len(raw) \in Nat /\ DOMAIN raw = 1..Len(raw)
         /\ \A i \in 1..Len(raw) : raw[i] \in LayerFile
<1>1. raw \in Seq(LayerFile)
  BY AppAssumption DEF AppAssumption, LayerFile
<1> QED
  BY <1>1, LenProperties

(* Loading keeps every layer but for a missing activation.                 *)
LEMMA LoadShape ==
  ASSUME NEW raw \in Texts
  PROVE  /\ Len(Load(raw)) = Len(raw) /\ DOMAIN Load(raw) = 1..Len(raw)
         /\ Len(Sizes(Load(raw))) = Len(raw)
         /\ \A i \in 1..Len(raw) :
              /\ Load(raw)[i].size = raw[i].size
              /\ Load(raw)[i].activation = Activation(raw[i])
              /\ Load(raw)[i].weights = raw[i].weights
              /\ Load(raw)[i].bias = raw[i].bias
              /\ Sizes(Load(raw))[i] = raw[i].size
<1> DEFINE n == Len(raw)
<1>1. n \in Nat /\ DOMAIN raw = 1..n /\ \A i \in 1..n : raw[i] \in LayerFile
  BY TextShape
<1>2. Load(raw) \in [1..n -> {Load(raw)[i] : i \in 1..n}]
  BY <1>1 DEF Load
<1>3. Len(Load(raw)) = n /\ DOMAIN Load(raw) = 1..n
  BY <1>1, <1>2, ListShape
<1>4. Sizes(Load(raw)) \in [1..n -> {Sizes(Load(raw))[i] : i \in 1..n}]
  BY <1>3 DEF Sizes
<1>5. Len(Sizes(Load(raw))) = n
  BY <1>1, <1>4, ListShape
<1>6. ASSUME NEW i \in 1..n
      PROVE  /\ Load(raw)[i].size = raw[i].size
             /\ Load(raw)[i].activation = Activation(raw[i])
             /\ Load(raw)[i].weights = raw[i].weights
             /\ Load(raw)[i].bias = raw[i].bias
  BY <1>1, <1>6 DEF Load, LayerFile
<1>7. ASSUME NEW i \in 1..n PROVE Sizes(Load(raw))[i] = raw[i].size
  BY <1>3, <1>6, <1>7 DEF Sizes
<1> QED
  BY <1>3, <1>5, <1>6, <1>7

LEMMA OfferedShape ==
  ASSUME NEW raw \in Texts, Offered(raw)
  PROVE  /\ Len(raw) \in Nat /\ Len(raw) >= 2
         /\ \A i \in 1..Len(raw) : LayerLoads(raw, i) /\ raw[i].size \in Nat
<1>1. /\ Len(raw) \in Nat /\ DOMAIN raw = 1..Len(raw)
      /\ \A i \in 1..Len(raw) : raw[i] \in LayerFile
  BY TextShape
<1> QED
  BY <1>1 DEF Offered, Loadable, LayerLoads, LayerFile

-----------------------------------------------------------------------------
(* The inductive invariant.                                                *)

SizeAt(sizes, a) == sizes[a[1] + 1]

Selections ==
  /\ text \in Texts
  /\ Offered(text) => sig = Sizes(Load(text))
  /\ choice = [a \in DropDowns(sig) |-> choice[a]]
  /\ \A a \in DropDowns(sig) :
       choice[a] \in EligibleTargets(SizeAt(sig, a), a[2]) \cup {NoBackup}

LEMMA SelectionsInitial == Init => Selections
<1> SUFFICES ASSUME Init PROVE Selections
  OBVIOUS
<1>1. text \in Texts /\ sig = Sizes(Load(text)) /\ choice = Unchosen(sig)
  BY AppAssumption DEF Init, AppAssumption
<1> QED
  BY <1>1 DEF Selections, Unchosen

LEMMA RenderedKeeps ==
  ASSUME Selections, NEW t \in Texts, text' = t, Rendered(t)
  PROVE  Selections'
<1>1. CASE Offered(t) /\ Sizes(Load(t)) # sig
  <2>1. sig' = Sizes(Load(t)) /\ choice' = Unchosen(sig')
    BY <1>1 DEF Rendered
  <2> QED
    BY <2>1 DEF Selections, Unchosen
<1>2. CASE ~(Offered(t) /\ Sizes(Load(t)) # sig)
  <2>1. sig' = sig /\ choice' = choice
    BY <1>2 DEF Rendered
  <2> QED
    BY <2>1, <1>2 DEF Selections
<1> QED
  BY <1>1, <1>2

LEMMA ChooseKeeps ==
  ASSUME Selections, Choose
  PROVE  Selections'
<1>1. PICK a \in DOMAIN choice : \E t \in Options(a) \ {choice[a]} :
                                   choice' = [choice EXCEPT ![a] = t]
  BY DEF Choose
<1>2. PICK t \in Options(a) : choice' = [choice EXCEPT ![a] = t]
  BY <1>1
<1>3. text' = text /\ sig' = sig /\ Offered(text) /\ sig = Sizes(Load(text))
  BY DEF Choose, Selections
<1>4. text \in Texts /\ DOMAIN choice = DropDowns(sig)
  BY DEF Selections
<1>5. Len(text) \in Nat /\ Len(sig) = Len(text)
  BY <1>3, <1>4, TextShape, LoadShape
<1>6. a[1] + 1 \in 1..Len(text)
  BY <1>4, <1>5 DEF DropDowns
<1>7. Model[a[1] + 1].size = SizeAt(sig, a)
  BY <1>3, <1>4, <1>6, LoadShape DEF Model, SizeAt
<1>8. t \in EligibleTargets(SizeAt(sig, a), a[2]) \cup {NoBackup}
  BY <1>2, <1>7 DEF Options
<1> QED
  BY <1>1, <1>2, <1>3, <1>4, <1>8 DEF Selections

LEMMA SelectionsInductive == Selections /\ [Next]_vars => Selections'
<1> SUFFICES ASSUME Selections, [Next]_vars PROVE Selections'
  OBVIOUS
<1>1. CASE Edit
  <2>1. PICK t \in Editable : text' = t /\ Rendered(t)
    BY <1>1 DEF Edit
  <2>2. t \in Texts
    BY <2>1 DEF Editable
  <2> QED
    BY <2>1, <2>2, RenderedKeeps
<1>2. CASE Choose
  BY <1>2, ChooseKeeps
<1>3. CASE UNCHANGED <<text, choice, sig>>
  BY <1>3 DEF Selections
<1>4. Scan \/ StartSetup \/ RunInference \/ (\E h \in Hardware : Reboot(h))
      \/ UNCHANGED vars => UNCHANGED <<text, choice, sig>>
  BY DEF Scan, StartSetup, RunInference, Reboot, vars
<1> QED
  BY <1>1, <1>2, <1>3, <1>4 DEF Next

-----------------------------------------------------------------------------
(* What the invariant gives.                                               *)

LEMMA BackersChosen ==
  ASSUME Selections, Offered(text), NEW l, NEW n \in Backers(l)
  PROVE  /\ l \in 1..LastLayer(Model) /\ n \in NodesOf(Model[l + 1].size)
         /\ choice[<<l, n>>] \in EligibleTargets(Model[l + 1].size, n)
<1>1. PICK a \in DOMAIN choice : a[1] = l /\ a[2] = n /\ choice[a] # NoBackup
  BY DEF Backers
<1>2. text \in Texts /\ sig = Sizes(Load(text)) /\ DOMAIN choice = DropDowns(sig)
  BY DEF Selections
<1>3. PICK k \in 1..(Len(sig) - 1) : a \in {<<k, m>> : m \in NodesOf(sig[k + 1])}
  BY <1>1, <1>2 DEF DropDowns
<1>4. a = <<l, n>> /\ l \in 1..(Len(sig) - 1) /\ n \in NodesOf(sig[l + 1])
  BY <1>1, <1>3
<1>5. Len(text) \in Nat /\ Len(Model) = Len(text) /\ Len(sig) = Len(text)
  BY <1>2, TextShape, LoadShape DEF Model
<1>6. l \in 1..LastLayer(Model) /\ l + 1 \in 1..Len(text)
  BY <1>4, <1>5 DEF LastLayer
<1>7. sig[l + 1] = Model[l + 1].size
  BY <1>2, <1>6, LoadShape DEF Model
<1>8. choice[a] \in EligibleTargets(SizeAt(sig, a), a[2])
  BY <1>1, <1>2 DEF Selections
<1>9. choice[<<l, n>>] \in EligibleTargets(Model[l + 1].size, n)
  BY <1>1, <1>4, <1>7, <1>8 DEF SizeAt
<1> QED
  BY <1>4, <1>6, <1>7, <1>9

LEMMA SelectionShape ==
  /\ DOMAIN BackupSelection = {k \in 1..LastLayer(Model) : Backers(k) # {}}
  /\ \A l \in DOMAIN BackupSelection :
       /\ DOMAIN BackupSelection[l] = Backers(l)
       /\ \A n \in Backers(l) : BackupSelection[l][n] = choice[<<l, n>>]
  BY DEF BackupSelection

LEMMA SelectionValid ==
  ASSUME Selections, Offered(text)
  PROVE  BackupsValid(Model, BackupSelection)
<1> DEFINE B == BackupSelection
<1>1. DOMAIN B \subseteq 1..LastLayer(Model)
  BY SelectionShape
<1>2. ASSUME NEW l \in DOMAIN B
      PROVE  /\ Model[l + 1].size >= 2
             /\ \A n \in DOMAIN B[l] :
                  /\ n \in NodesOf(Model[l + 1].size)
                  /\ B[l][n] \in EligibleTargets(Model[l + 1].size, n)
  <2>1. DOMAIN B[l] = Backers(l) /\ Backers(l) # {}
        /\ \A n \in Backers(l) : B[l][n] = choice[<<l, n>>]
    BY SelectionShape
  <2>2. \A n \in Backers(l) : /\ n \in NodesOf(Model[l + 1].size)
                              /\ B[l][n] \in EligibleTargets(Model[l + 1].size, n)
    BY <2>1, BackersChosen
  <2>3. /\ text \in Texts /\ Len(text) \in Nat /\ Len(Model) = Len(text)
        /\ l \in 1..LastLayer(Model)
    BY <1>1, TextShape, LoadShape DEF Selections, Model
  <2>4. Model[l + 1].size \in Nat
    BY <2>3, OfferedShape, LoadShape DEF Model, LastLayer
  <2>5. Model[l + 1].size >= 2
    <3>1. PICK n \in Backers(l) : TRUE
      BY <2>1
    <3>2. EligibleTargets(Model[l + 1].size, n) # {}
      BY <2>2, <3>1
    <3>3. ~(Model[l + 1].size < 2)
      BY <3>2 DEF EligibleTargets
    <3> QED
      BY <2>4, <3>3
  <2> QED
    BY <2>1, <2>2, <2>5
<1> QED
  BY <1>1, <1>2 DEF BackupsValid

-----------------------------------------------------------------------------
(* The layers of the network that is written.                              *)

LEMMA NetworkShape ==
  ASSUME NEW l \in 1..LastLayer(Model)
  PROVE  /\ Network.inputSize = Model[1].size
         /\ Network.physicalInputs = FALSE
         /\ Network.layers[l].nodes = Model[l + 1].size
         /\ Network.layers[l].activationType = ActivationName[Model[l + 1].activation]
         /\ Network.layers[l].weights = Model[l + 1].weights
         /\ Network.layers[l].bias = Model[l + 1].bias
         /\ Network.layers[l].backups =
              IF l \in DOMAIN BackupSelection THEN BackupSelection[l] ELSE << >>
  BY DEF Network, NetworkJson

LEMMA LayerShape ==
  ASSUME Selections, Offered(text), NEW l \in 1..LastLayer(Model)
  PROVE  LET layer == Model[l + 1]
         IN /\ layer.size \in Nat /\ layer.activation \in Activations
            /\ Len(layer.weights) = layer.size /\ Len(layer.bias) = layer.size
            /\ \A k \in DOMAIN layer.weights : Len(layer.weights[k]) = Model[l].size
<1>1. text \in Texts /\ Model = Load(text)
  BY DEF Selections, Model
<1>2. /\ Len(text) \in Nat /\ Len(Model) = Len(text)
      /\ DOMAIN text = 1..Len(text) /\ \A i \in 1..Len(text) : text[i] \in LayerFile
  BY <1>1, TextShape, LoadShape
<1>3. l \in 1..Len(text) /\ l + 1 \in 1..Len(text) /\ l + 1 # 1 /\ (l + 1) - 1 = l
  BY <1>2 DEF LastLayer
<1>4. LayerLoads(text, l + 1) /\ text[l + 1].size \in Nat
  BY <1>1, <1>3, OfferedShape
<1>5. /\ Model[l].size = text[l].size /\ Model[l + 1].size = text[l + 1].size
      /\ Model[l + 1].activation = Activation(text[l + 1])
      /\ Model[l + 1].weights = text[l + 1].weights
      /\ Model[l + 1].bias = text[l + 1].bias
  BY <1>1, <1>3, LoadShape
<1> QED
  BY <1>3, <1>4, <1>5 DEF LayerLoads

LEMMA ModelShape ==
  ASSUME Selections, Offered(text)
  PROVE  /\ Len(Model) \in Nat /\ Len(Model) >= 2 /\ DOMAIN Model = 1..Len(Model)
         /\ LastLayer(Model) = Len(Model) - 1 /\ Model[1].size \in Nat
         /\ \A l \in 1..LastLayer(Model) : Model[l + 1].bias # Missing
<1>1. text \in Texts /\ Model = Load(text)
  BY DEF Selections, Model
<1>2. /\ Len(text) \in Nat /\ Len(text) >= 2
      /\ \A i \in 1..Len(text) : LayerLoads(text, i) /\ text[i].size \in Nat
  BY <1>1, OfferedShape
<1>3. /\ Len(Model) = Len(text) /\ DOMAIN Model = 1..Len(text)
      /\ \A i \in 1..Len(text) : /\ Model[i].size = text[i].size
                                 /\ Model[i].bias = text[i].bias
  BY <1>1, LoadShape
<1>4. ASSUME NEW l \in 1..LastLayer(Model) PROVE Model[l + 1].bias # Missing
  <2>1. l + 1 \in 1..Len(text) /\ l + 1 # 1
    BY <1>2, <1>3 DEF LastLayer
  <2> QED
    BY <1>2, <1>3, <2>1 DEF LayerLoads
<1> QED
  BY <1>2, <1>3, <1>4 DEF LastLayer

LEMMA WidthBefore ==
  ASSUME Selections, Offered(text), NEW l \in 1..LastLayer(Model)
  PROVE  PredecessorCount(Network, l) = Model[l].size
<1>1. CASE l = 1
  BY <1>1, NetworkShape DEF PredecessorCount
<1>2. CASE l # 1
  <2>1. l - 1 \in 1..LastLayer(Model) /\ (l - 1) + 1 = l
    BY <1>2, ModelShape
  <2>2. Network.layers[l - 1].nodes = Model[l].size
    BY <2>1, NetworkShape
  <2> QED
    BY <1>2, <2>2 DEF PredecessorCount
<1> QED
  BY <1>1, <1>2

LEMMA NetworkLayerFits ==
  ASSUME Selections, Offered(text), NEW l \in 1..LastLayer(Model)
  PROVE  LayerFits(Network, l)
<1> DEFINE layer == Network.layers[l]
<1>1. /\ Len(layer.weights) = layer.nodes /\ Len(layer.bias) = layer.nodes
      /\ \A k \in DOMAIN layer.weights : Len(layer.weights[k]) = Model[l].size
  <2>1. /\ layer.nodes = Model[l + 1].size /\ layer.weights = Model[l + 1].weights
        /\ layer.bias = Model[l + 1].bias
    BY NetworkShape
  <2> HIDE DEF layer
  <2>2. /\ Len(Model[l + 1].weights) = Model[l + 1].size
        /\ Len(Model[l + 1].bias) = Model[l + 1].size
        /\ \A k \in DOMAIN Model[l + 1].weights :
             Len(Model[l + 1].weights[k]) = Model[l].size
    BY LayerShape
  <2> QED BY <2>1, <2>2
<1>2. PredecessorCount(Network, l) = Model[l].size
  BY WidthBefore
<1>3. ASSUME NEW n \in DOMAIN layer.backups
      PROVE  /\ {n, layer.backups[n]} \subseteq NodesOf(layer.nodes)
             /\ n # layer.backups[n]
  <2>1. layer.nodes = Model[l + 1].size
    BY NetworkShape
  <2>2. l \in DOMAIN BackupSelection
    <3>1. SUFFICES ASSUME l \notin DOMAIN BackupSelection PROVE FALSE
      OBVIOUS
    <3>2. layer.backups = << >>
      BY <3>1, NetworkShape
    <3>3. DOMAIN layer.backups = {}
      BY <3>2
    <3> QED
      BY <1>3, <3>3
  <2>3. layer.backups = BackupSelection[l]
    BY <2>2, NetworkShape
  <2>4. n \in Backers(l) /\ layer.backups[n] = choice[<<l, n>>]
    BY <1>3, <2>2, <2>3, SelectionShape
  <2>5. /\ n \in NodesOf(layer.nodes)
        /\ choice[<<l, n>>] \in EligibleTargets(layer.nodes, n)
    BY <2>1, <2>4, BackersChosen
  <2>6. choice[<<l, n>>] \in NodesOf(layer.nodes) \ {n}
    BY <2>5 DEF EligibleTargets
  <2> QED
    BY <2>4, <2>5, <2>6
<1> QED
  BY <1>1, <1>2, <1>3 DEF LayerFits

LEMMA DeviceParses ==
  ASSUME Selections, Offered(text), NEW l \in 1..LastLayer(Model), NEW n, NEW hw
  PROVE  Parses(Device(Network, AddressOf(l, n), hw))
<1> DEFINE a == AddressOf(l, n)
           d == Device(Network, a, hw)
           c == ComputeConfig(Network, a, {})
<1>1. a.layer = l /\ l # 0
  BY DEF AddressOf
<1>2. /\ d.cfg = c
      /\ d.activation = Network.layers[l].activationType
      /\ d.bactivation = Network.layers[l].activationType
  BY <1>1 DEF Device
<1>3. c.addr = a /\ (c.hasRole => c.target.layer = l)
  BY <1>1 DEF ComputeConfig, AddressOf
<1>4. Network.layers[l].activationType = ActivationName[Model[l + 1].activation]
      /\ Model[l + 1].activation \in Activations
  BY NetworkShape, LayerShape
<1>5. Network.layers[l].activationType \in ActivationTypes
  BY <1>4 DEF Activations, ActivationName, ActivationTypes
<1> QED
  BY <1>1, <1>2, <1>3, <1>5 DEF Parses

LEMMA SelectionsAccepted == Selections => OfferedIsAccepted
  BY SelectionValid, NetworkLayerFits, DeviceParses DEF OfferedIsAccepted

(* Whatever the user edits and picks, codegen, generate_manifest and       *)
(* device_manifest accept the selection the app holds.                     *)
THEOREM SelectionSafe == Spec => []OfferedIsAccepted
<1>1. Init => Selections
  BY SelectionsInitial
<1>2. Selections /\ [Next]_vars => Selections'
  BY SelectionsInductive
<1>3. Selections => OfferedIsAccepted
  BY SelectionsAccepted
<1> QED
  BY <1>1, <1>2, <1>3, PTL DEF Spec

-----------------------------------------------------------------------------
(* The addresses.                                                          *)

LEMMA FieldKept == ASSUME NEW x \in 0..(FieldMax - 1) PROVE x % FieldMax = x
  BY ManifestAssumption DEF ManifestAssumption

LEMMA AddressKept ==
  ASSUME NEW raw \in Texts, Offered(raw), NEW a \in NodeAddresses(Load(raw))
  PROVE  OnWire(a) = a
<1>1. PICK l \in ModelLayers(Load(raw)) : \E n \in NodesOf(Load(raw)[l + 1].size) :
                                            a = AddressOf(l, n)
  BY DEF NodeAddresses
<1>2. PICK n \in NodesOf(Load(raw)[l + 1].size) : a = AddressOf(l, n)
  BY <1>1
<1>3. Len(raw) \in Nat /\ Len(Load(raw)) = Len(raw) /\ DOMAIN Load(raw) = 1..Len(raw)
  BY TextShape, LoadShape
<1>4. l + 1 \in 1..Len(raw) /\ l \in Int
  BY <1>3 DEF ModelLayers
<1>5. Len(raw) <= FieldMax /\ Load(raw)[l + 1].size <= FieldMax
  BY <1>3, <1>4 DEF Offered, Mappable
<1>6. Load(raw)[l + 1].size \in Nat /\ FieldMax \in Nat
  BY <1>4, OfferedShape, LoadShape, ManifestAssumption DEF ManifestAssumption
<1>7. l \in 0..(FieldMax - 1)
  BY <1>3, <1>4, <1>5, <1>6
<1>8. n \in 0..(FieldMax - 1)
  BY <1>5, <1>6 DEF NodesOf
<1> QED
  BY <1>2, <1>7, <1>8, FieldKept DEF OnWire, AddressOf

(* No two nodes of an accepted model share an address on the wire, for any *)
(* width of the address fields.                                            *)
THEOREM AddressesSafe == Spec => []FitsTheWire
<1>1. Init => Selections
  BY SelectionsInitial
<1>2. Selections /\ [Next]_vars => Selections'
  BY SelectionsInductive
<1>3. Selections => FitsTheWire
  BY AddressKept DEF Selections, FitsTheWire, Model
<1> QED
  BY <1>1, <1>2, <1>3, PTL DEF Spec
-----------------------------------------------------------------------------
(* The notes beside a selection.                                           *)

LEMMA TwoOfTwo ==
  ASSUME NEW size \in Nat, NEW n \in NodesOf(size), NEW t \in NodesOf(size) \ {n}
  PROVE  size = 2 <=> NodesOf(size) \ {t, n} = {}
<1>1. ASSUME size = 2 PROVE NodesOf(size) \ {t, n} = {}
  <2>1. n \in {0, 1} /\ t \in {0, 1} /\ t # n
    BY <1>1 DEF NodesOf
  <2>2. ASSUME NEW k \in NodesOf(size) PROVE k = t \/ k = n
    <3>1. k \in {0, 1}
      BY <1>1, <2>2 DEF NodesOf
    <3> QED
      BY <2>1, <3>1
  <2> QED
    BY <2>2
<1>2. ASSUME size # 2 PROVE NodesOf(size) \ {t, n} # {}
  <2>1. size >= 3
    BY <1>2 DEF NodesOf
  <2>2. {0, 1, 2} \subseteq NodesOf(size)
    BY <2>1 DEF NodesOf
  <2>3. \E k \in {0, 1, 2} : k # t /\ k # n
    OBVIOUS
  <2> QED
    BY <2>2, <2>3
<1> QED
  BY <1>1, <1>2

LEMMA SomebodyWaits ==
  ASSUME NEW size \in Nat, NEW t \in NodesOf(size)
  PROVE  t < size - 1 <=> \E k \in NodesOf(size) : t \in NodesOf(k)
<1>1. ASSUME t < size - 1 PROVE \E k \in NodesOf(size) : t \in NodesOf(k)
  <2>1. size - 1 \in NodesOf(size) /\ t \in NodesOf(size - 1)
    BY <1>1 DEF NodesOf
  <2> QED
    BY <2>1
<1>2. ASSUME NEW k \in NodesOf(size), t \in NodesOf(k) PROVE t < size - 1
  BY <1>2 DEF NodesOf
<1> QED
  BY <1>1, <1>2

LEMMA CaveatsTrue ==
  ASSUME Selections, Offered(text),
         NEW l \in DOMAIN BackupSelection, NEW n \in DOMAIN BackupSelection[l]
  PROVE  LET size    == Model[l + 1].size
             config(k) == ComputeConfig(Network, AddressOf(l, k), {})
         IN /\ NoRoundEndSignal(size, BackupSelection[l]) <=> Others(config(n)) = {}
            /\ n \in TargetNotLast(size, BackupSelection[l]) <=>
                 \E k \in NodesOf(size) :
                   BackupSelection[l][n] \in config(k).preceding
<1> DEFINE size == Model[l + 1].size
           t == BackupSelection[l][n]
           config(k) == ComputeConfig(Network, AddressOf(l, k), {})
<1>1. /\ l \in 1..LastLayer(Model) /\ n \in Backers(l) /\ t = choice[<<l, n>>]
  BY SelectionShape
<1>2. n \in NodesOf(size) /\ t \in EligibleTargets(size, n)
  BY <1>1, BackersChosen
<1>3. size \in Nat /\ t \in NodesOf(size) \ {n}
  BY <1>1, <1>2, LayerShape DEF EligibleTargets
<1>4. /\ Network.layers[l].nodes = size
      /\ Network.layers[l].backups = BackupSelection[l]
  BY <1>1, NetworkShape
<1>5. Others(config(n)) = NodesOf(size) \ {t, n}
  BY <1>4 DEF ComputeConfig, AddressOf, Others
<1>6. \A k : config(k).preceding = NodesOf(k)
  BY DEF ComputeConfig, AddressOf
<1>7. NoRoundEndSignal(size, BackupSelection[l]) <=> size = 2
  BY DEF NoRoundEndSignal
<1>8. n \in TargetNotLast(size, BackupSelection[l]) <=> t < size - 1
  BY DEF TargetNotLast
<1>9. size = 2 <=> Others(config(n)) = {}
  BY <1>2, <1>3, <1>5, TwoOfTwo
<1>10. t < size - 1 <=> \E k \in NodesOf(size) : t \in NodesOf(k)
  BY <1>3, SomebodyWaits
<1> QED
  BY <1>6, <1>7, <1>8, <1>9, <1>10

(* What the app tells its user about a selection is true of the masks the  *)
(* boards would get, for layers of any size.                               *)
THEOREM CaveatsSafe == Spec => []CaveatsMatchFirmware
<1>1. Init => Selections
  BY SelectionsInitial
<1>2. Selections /\ [Next]_vars => Selections'
  BY SelectionsInductive
<1>3. Selections => CaveatsMatchFirmware
  BY CaveatsTrue DEF CaveatsMatchFirmware
<1> QED
  BY <1>1, <1>2, <1>3, PTL DEF Spec

-----------------------------------------------------------------------------
(* What build_devices writes for a node of a layer, whatever its backups,  *)
(* is a configuration for which InferenceProofs!TeardownUnreachable holds. *)
THEOREM ManifestMirrors ==
  ASSUME NEW network, NEW l \in Nat, NEW n, NEW seed
  PROVE  LET c == ComputeConfig(network, AddressOf(l, n), seed)
         IN c.hasRole => MirrorsOwnInputs(c)
<1> DEFINE c == ComputeConfig(network, AddressOf(l, n), seed)
<1> SUFFICES ASSUME c.hasRole PROVE MirrorsOwnInputs(c)
  OBVIOUS
<1>1. n \in DOMAIN network.layers[l].backups
  BY DEF ComputeConfig, AddressOf
<1>2. c.tpred = c.pred /\ c.tpredLayer = c.predLayer
  BY <1>1 DEF ComputeConfig, AddressOf
<1>3. c.target.layer = l /\ c.predLayer = l - 1
  BY <1>1 DEF ComputeConfig, AddressOf
<1> QED
  BY <1>2, <1>3 DEF MirrorsOwnInputs

-----------------------------------------------------------------------------
(* The two generators.  The lists of nodes are recursive functions; what   *)
(* they return is shown by induction over the naturals, of a set instead of*)
(* a predicate.                                                            *)
Below == {ss \in Nat \X Nat : ss[1] < ss[2]}

LEMMA BelowFounded == IsWellFoundedOn(Below, Nat)
BY NatLessThanWellFounded, Zenon DEF OpToRel, Below

LEMMA SetInduction ==
  ASSUME NEW T, T \subseteq Nat, 0 \in T, \A n \in T : n + 1 \in T
  PROVE  T = Nat
<1> DEFINE S == Nat \ T
<1> SUFFICES ASSUME S # {} PROVE FALSE
  OBVIOUS
<1>1. PICK x \in S : \A y \in S : ~ (<<y, x>> \in Below)
  <2>1. S \subseteq Nat
    OBVIOUS
  <2> HIDE DEF S
  <2> QED
    BY <2>1, BelowFounded, WFMin, Zenon
<1>2. x # 0 /\ x - 1 \in Nat
  OBVIOUS
<1>3. <<x - 1, x>> \in Below
  BY <1>2 DEF Below
<1>4. x - 1 \in T
  BY <1>1, <1>2, <1>3
<1>5. (x - 1) + 1 \in T
  BY <1>4
<1> QED
  BY <1>2, <1>5

(* f keeps the physical ones of the first n nodes.                         *)
Keeps(f, nodes, n) ==
  f = [k \in 0..n |-> IF k = 0 THEN << >>
                      ELSE IF nodes[k].input THEN f[k - 1]
                      ELSE Append(f[k - 1], nodes[k])]

LEMMA KeepStep ==
  ASSUME NEW nodes, NEW n, NEW f, Keeps(f, nodes, n), NEW k \in 0..n
  PROVE  f[k] = IF k = 0 THEN << >>
                ELSE IF nodes[k].input THEN f[k - 1]
                ELSE Append(f[k - 1], nodes[k])
<1>1. PICK F : F = [j \in 0..n |-> IF j = 0 THEN << >>
                      ELSE IF nodes[j].input THEN f[j - 1]
                      ELSE Append(f[j - 1], nodes[j])]
  OBVIOUS
<1>2. f = F
  BY <1>1, Zenon DEF Keeps
<1>3. F[k] = IF k = 0 THEN << >>
             ELSE IF nodes[k].input THEN f[k - 1]
             ELSE Append(f[k - 1], nodes[k])
  BY <1>1, Zenon
<1> QED
  BY <1>2, <1>3, Zenon

LEMMA KeepExists ==
  ASSUME NEW nodes
  PROVE  \A n \in Nat : \E f : Keeps(f, nodes, n)
<1> DEFINE T == {n \in Nat : \E f : Keeps(f, nodes, n)}
<1>1. 0 \in T
  <2>1. Keeps([k \in 0..0 |-> << >>], nodes, 0)
    BY DEF Keeps
  <2> QED
    BY <2>1
<1>2. ASSUME NEW n \in T PROVE n + 1 \in T
  <2>1. PICK f : Keeps(f, nodes, n)
    OBVIOUS
  <2> DEFINE last == IF nodes[n + 1].input THEN f[n] ELSE Append(f[n], nodes[n + 1])
             g == [k \in 0..(n + 1) |-> IF k = n + 1 THEN last ELSE f[k]]
             G(k) == IF k = 0 THEN << >>
                     ELSE IF nodes[k].input THEN g[k - 1]
                     ELSE Append(g[k - 1], nodes[k])
  <2>2. ASSUME NEW k \in 0..(n + 1) PROVE g[k] = G(k)
    <3>1. CASE k = 0
      BY <2>1, <3>1, KeepStep
    <3>2. CASE k = n + 1
      <4>1. g[k] = last /\ g[k - 1] = f[n] /\ k # 0
        BY <3>2
      <4> HIDE DEF g
      <4> QED
        BY <3>2, <4>1
    <3>3. CASE k \in 1..n
      <4>1. g[k] = f[k] /\ g[k - 1] = f[k - 1]
        BY <3>3
      <4> HIDE DEF g
      <4>2. f[k] = IF nodes[k].input THEN f[k - 1] ELSE Append(f[k - 1], nodes[k])
        BY <2>1, <3>3, KeepStep
      <4> QED
        BY <3>3, <4>1, <4>2
    <3> QED
      BY <3>1, <3>2, <3>3
  <2>3. g = [k \in 0..(n + 1) |-> G(k)]
    <3>1. g = [k \in 0..(n + 1) |-> g[k]]
      OBVIOUS
    <3> HIDE DEF g, G
    <3> QED
      BY <2>2, <3>1
  <2> HIDE DEF g
  <2>4. Keeps(g, nodes, n + 1)
    BY <2>3, Zenon DEF Keeps
  <2> QED
    BY <2>4
<1> HIDE DEF T
<1>3. T \subseteq Nat
  BY DEF T
<1>4. T = Nat
  BY <1>1, <1>2, <1>3, SetInduction
<1> QED
  BY <1>4 DEF T

(* Where the virtual nodes come first, m of them, the others are left.     *)
LEMMA KeepShape ==
  ASSUME NEW S, NEW nodes \in Seq(S), NEW m \in 0..Len(nodes), NEW f,
         Keeps(f, nodes, Len(nodes)),
         \A k \in 1..Len(nodes) : nodes[k].input <=> k <= m
  PROVE  /\ f[Len(nodes)] \in Seq(S) /\ Len(f[Len(nodes)]) = Len(nodes) - m
         /\ \A k \in 1..(Len(nodes) - m) : f[Len(nodes)][k] = nodes[m + k]
<1> DEFINE P(j) == /\ f[j] \in Seq(S) /\ Len(f[j]) = IF j <= m THEN 0 ELSE j - m
                   /\ \A k \in 1..(j - m) : f[j][k] = nodes[m + k]
           T == {j \in Nat : j <= Len(nodes) => P(j)}
<1>0. Len(nodes) \in Nat /\ \A k \in 1..Len(nodes) : nodes[k] \in S
  BY ElementOfSeq, LenProperties
<1>1. 0 \in T
  <2>1. f[0] = << >>
    BY <1>0, KeepStep
  <2>2. f[0] \in Seq(S) /\ Len(f[0]) = 0 /\ 1..(0 - m) = {}
    BY <1>0, <2>1, EmptySeq
  <2> QED
    BY <1>0, <2>2
<1>2. ASSUME NEW j \in T PROVE j + 1 \in T
  <2> SUFFICES ASSUME j + 1 <= Len(nodes) PROVE P(j + 1)
    OBVIOUS
  <2>1. j \in Nat /\ j + 1 \in 1..Len(nodes) /\ P(j)
    BY <1>0
  <2>2. f[j + 1] = IF nodes[j + 1].input THEN f[j] ELSE Append(f[j], nodes[j + 1])
    BY <1>0, <2>1, KeepStep
  <2>3. CASE j + 1 <= m
    <3>1. f[j + 1] = f[j]
      BY <2>1, <2>2, <2>3
    <3> QED
      BY <2>1, <2>3, <3>1
  <2>4. CASE ~(j + 1 <= m)
    <3>1. PICK s : s = f[j]
      OBVIOUS
    <3>2. s \in Seq(S) /\ Len(s) = j - m /\ \A k \in 1..(j - m) : s[k] = nodes[m + k]
      BY <2>1, <2>4, <3>1
    <3>3. PICK u : u = Append(s, nodes[j + 1])
      OBVIOUS
    <3>4. f[j + 1] = u
      BY <2>1, <2>2, <2>4, <3>1, <3>3
    <3>5. /\ u \in Seq(S) /\ Len(u) = Len(s) + 1
          /\ \A k \in 1..Len(s) : u[k] = s[k]
          /\ u[Len(s) + 1] = nodes[j + 1]
      <4>1. s \in Seq(S) /\ nodes[j + 1] \in S
        BY <1>0, <2>1, <3>2
      <4> HIDE DEF P, T
      <4> QED
        BY <3>3, <4>1, AppendProperties
    <3>6. ASSUME NEW k \in 1..((j + 1) - m) PROVE u[k] = nodes[m + k]
      <4>1. CASE k = (j + 1) - m
        BY <2>1, <3>2, <3>5, <4>1
      <4>2. CASE k \in 1..(j - m)
        BY <2>1, <3>2, <3>5, <4>2
      <4> QED
        BY <2>1, <4>1, <4>2
    <3> QED
      BY <2>1, <2>4, <3>2, <3>4, <3>5, <3>6
  <2> QED
    BY <2>3, <2>4
<1> HIDE DEF T
<1>3. T \subseteq Nat
  BY DEF T
<1>4. Len(nodes) \in T
  BY <1>0, <1>1, <1>2, <1>3, SetInduction
<1> QED
  BY <1>0, <1>4 DEF T

(* f joins the first n lists.                                              *)
Joins(f, lists, n) ==
  f = [k \in 1..n |-> IF k = 1 THEN lists[k] ELSE f[k - 1] \o lists[k]]

JoinsOne(f, lists, k) == f[k] = f[k - 1] \o lists[k]

LEMMA JoinStep ==
  ASSUME NEW lists, NEW n, NEW f, Joins(f, lists, n), NEW k \in 1..n
  PROVE  IF k = 1 THEN f[k] = lists[k] ELSE JoinsOne(f, lists, k)
<1>1. PICK F : F = [j \in 1..n |-> IF j = 1 THEN lists[j] ELSE f[j - 1] \o lists[j]]
  OBVIOUS
<1>2. f = F
  BY <1>1, Zenon DEF Joins
<1>3. F[k] = IF k = 1 THEN lists[k] ELSE f[k - 1] \o lists[k]
  BY <1>1, Zenon
<1>4. f[k] = IF k = 1 THEN lists[k] ELSE f[k - 1] \o lists[k]
  BY <1>2, <1>3, Zenon
<1>5. CASE k = 1
  BY <1>4, <1>5, Zenon
<1>6. CASE k # 1
  BY <1>4, <1>6, Zenon DEF JoinsOne
<1> QED
  BY <1>5, <1>6

LEMMA JoinExists ==
  ASSUME NEW lists
  PROVE  \A n \in Nat : \E f : Joins(f, lists, n)
<1> DEFINE T == {n \in Nat : \E f : Joins(f, lists, n)}
<1>1. 0 \in T
  <2>1. Joins([k \in 1..0 |-> << >>], lists, 0)
    BY DEF Joins
  <2> QED
    BY <2>1
<1>2. ASSUME NEW n \in T PROVE n + 1 \in T
  <2>1. PICK f : Joins(f, lists, n)
    OBVIOUS
  <2> DEFINE last == IF n = 0 THEN lists[1] ELSE f[n] \o lists[n + 1]
             g == [k \in 1..(n + 1) |-> IF k = n + 1 THEN last ELSE f[k]]
             G(k) == IF k = 1 THEN lists[k] ELSE g[k - 1] \o lists[k]
  <2>2. ASSUME NEW k \in 1..(n + 1) PROVE g[k] = G(k)
    <3>1. CASE k = n + 1 /\ n = 0
      BY <3>1
    <3>2. CASE k = n + 1 /\ n # 0
      <4>1. n \in 1..(n + 1) /\ n # n + 1 /\ k - 1 = n /\ k # 1
        BY <3>2
      <4>2. g[k] = last /\ g[n] = f[n]
        BY <3>2, <4>1
      <4> HIDE DEF g
      <4> QED
        BY <3>2, <4>1, <4>2
    <3>3. CASE k \in 1..n
      <4>1. g[k] = f[k] /\ (k # 1 => g[k - 1] = f[k - 1])
        BY <3>3
      <4> HIDE DEF g
      <4>2. IF k = 1 THEN f[k] = lists[k] ELSE JoinsOne(f, lists, k)
        BY <2>1, <3>3, JoinStep
      <4>3. k = 1 => g[k] = G(k)
        BY <4>1, <4>2, Zenon
      <4>4. k # 1 => g[k] = G(k)
        BY <4>1, <4>2, Zenon DEF JoinsOne
      <4> QED
        BY <4>3, <4>4
    <3> QED
      BY <3>1, <3>2, <3>3
  <2>3. g = [k \in 1..(n + 1) |-> G(k)]
    <3>1. g = [k \in 1..(n + 1) |-> g[k]]
      OBVIOUS
    <3> HIDE DEF g, G
    <3> QED
      BY <2>2, <3>1
  <2> HIDE DEF g
  <2>4. Joins(g, lists, n + 1)
    BY <2>3, Zenon DEF Joins
  <2> QED
    BY <2>4
<1> HIDE DEF T
<1>3. T \subseteq Nat
  BY DEF T
<1>4. T = Nat
  BY <1>1, <1>2, <1>3, SetInduction
<1> QED
  BY <1>4 DEF T

LEMMA FlattenJoins ==
  ASSUME NEW lists, Len(lists) \in Nat \ {0}
  PROVE  \E f : /\ f[1] = lists[1] /\ FlattenSeq(lists) = f[Len(lists)]
                /\ \A k \in 2..Len(lists) : JoinsOne(f, lists, k)
<1>1. PICK f : f = CHOOSE g : Joins(g, lists, Len(lists))
  OBVIOUS
<1>2. Joins(f, lists, Len(lists))
  BY <1>1, JoinExists
<1>3. FlattenSeq(lists) = f[Len(lists)]
  BY <1>1, Zenon DEF FlattenSeq, Joins
<1>4. \A k \in 1..Len(lists) : IF k = 1 THEN f[k] = lists[k] ELSE JoinsOne(f, lists, k)
  BY <1>2, JoinStep
<1>5. f[1] = lists[1] /\ \A k \in 2..Len(lists) : JoinsOne(f, lists, k)
  BY <1>4
<1> QED
  BY <1>3, <1>5

LEMMA PhysicalKeeps ==
  ASSUME NEW model, Len(AllNodes(model)) \in Nat
  PROVE  \E f : /\ Keeps(f, AllNodes(model), Len(AllNodes(model)))
                /\ PhysicalNodes(model) = f[Len(AllNodes(model))]
<1>1. PICK f : f = CHOOSE g : Keeps(g, AllNodes(model), Len(AllNodes(model)))
  OBVIOUS
<1>2. Keeps(f, AllNodes(model), Len(AllNodes(model)))
  BY <1>1, KeepExists
<1>3. PhysicalNodes(model) = f[Len(AllNodes(model))]
  BY <1>1, Zenon DEF PhysicalNodes, Keeps
<1> QED
  BY <1>2, <1>3

(* The nodes of the two lists: an address of build_devices, and the node   *)
(* build_topology has there.                                               *)
ComputeNodes ==
  UNION {{AddressOf(l, n) : n \in NodesOf(Model[l + 1].size)} :
           l \in 1..LastLayer(Model)}

NodeAt(a) == TopologyNode(Model, a.layer, a.node)

MapperNodes ==
  {TopologyNode(Model, 0, n) : n \in Nat} \cup {NodeAt(a) : a \in ComputeNodes}

(* nodes lists the virtual inputs first, then the nodes at addrs.          *)
Lists(nodes, addrs) ==
  /\ nodes \in Seq(MapperNodes) /\ addrs \in Seq(ComputeNodes)
  /\ Len(nodes) = Model[1].size + Len(addrs)
  /\ \A k \in 1..Model[1].size : nodes[k].input
  /\ \A k \in 1..Len(addrs) : nodes[Model[1].size + k] = NodeAt(addrs[k])

LEMMA ListsConcat ==
  ASSUME Model[1].size \in Nat, NEW nodes, NEW addrs, Lists(nodes, addrs),
         NEW t \in Seq(MapperNodes), NEW r \in Seq(ComputeNodes), Len(t) = Len(r),
         \A k \in 1..Len(r) : t[k] = NodeAt(r[k])
  PROVE  Lists(nodes \o t, addrs \o r)
<1> DEFINE m == Model[1].size
<1>1. PICK u : u = nodes \o t
  OBVIOUS
<1>2. PICK v : v = addrs \o r
  OBVIOUS
<1>3. nodes \in Seq(MapperNodes) /\ addrs \in Seq(ComputeNodes)
  BY DEF Lists
<1>4. /\ Len(nodes) \in Nat /\ Len(addrs) \in Nat /\ Len(r) \in Nat
      /\ Len(nodes) = m + Len(addrs)
  BY <1>3, LenProperties DEF Lists
<1>5. /\ u \in Seq(MapperNodes) /\ Len(u) = Len(nodes) + Len(r)
      /\ \A k \in 1..(Len(nodes) + Len(r)) :
           u[k] = IF k <= Len(nodes) THEN nodes[k] ELSE t[k - Len(nodes)]
  <2>1. /\ nodes \o t \in Seq(MapperNodes) /\ Len(nodes \o t) = Len(nodes) + Len(t)
        /\ \A k \in 1..(Len(nodes) + Len(t)) :
             (nodes \o t)[k] = IF k <= Len(nodes) THEN nodes[k] ELSE t[k - Len(nodes)]
    BY <1>3, ConcatProperties
  <2> QED
    BY ONLY <1>1, <2>1, Len(t) = Len(r)
<1>6. /\ v \in Seq(ComputeNodes) /\ Len(v) = Len(addrs) + Len(r)
      /\ \A k \in 1..(Len(addrs) + Len(r)) :
           v[k] = IF k <= Len(addrs) THEN addrs[k] ELSE r[k - Len(addrs)]
  BY <1>2, <1>3, ConcatProperties
<1>7. m \in Nat
  OBVIOUS
<1> HIDE DEF m
<1>8. ASSUME NEW k \in 1..m PROVE u[k].input
  <2>1. k \in 1..(Len(nodes) + Len(r)) /\ k <= Len(nodes)
    BY <1>4, <1>7
  <2>2. u[k] = nodes[k] /\ nodes[k].input
    BY <1>5, <2>1 DEF Lists, m
  <2> QED
    BY <2>2
<1>9. ASSUME NEW k \in 1..Len(v) PROVE u[m + k] = NodeAt(v[k])
  <2>1. k \in 1..(Len(addrs) + Len(r)) /\ m + k \in 1..(Len(nodes) + Len(r))
    BY <1>4, <1>6, <1>7
  <2>2. CASE k <= Len(addrs)
    <3>1. m + k <= Len(nodes) /\ k \in 1..Len(addrs)
      BY <1>4, <1>7, <2>1, <2>2
    <3>2. u[m + k] = nodes[m + k] /\ v[k] = addrs[k]
      BY <1>5, <1>6, <2>1, <2>2, <3>1
    <3>3. nodes[m + k] = NodeAt(addrs[k])
      BY <3>1 DEF Lists, m
    <3> QED
      BY <3>2, <3>3
  <2>3. CASE ~(k <= Len(addrs))
    <3>1. /\ ~(m + k <= Len(nodes)) /\ (m + k) - Len(nodes) = k - Len(addrs)
          /\ k - Len(addrs) \in 1..Len(r)
      BY <1>4, <1>7, <2>1, <2>3
    <3>2. u[m + k] = t[k - Len(addrs)] /\ v[k] = r[k - Len(addrs)]
      BY <1>5, <1>6, <2>1, <2>3, <3>1
    <3> QED
      BY <3>1, <3>2
  <2> QED
    BY <2>2, <2>3
<1>10. Len(u) = m + Len(v)
  BY <1>4, <1>5, <1>6, <1>7
<1>11. Lists(u, v)
  BY <1>5, <1>6, <1>8, <1>9, <1>10 DEF Lists, m
<1> QED
  BY <1>1, <1>2, <1>11

(* One layer in the two lists.                                             *)
LEMMA RowListed ==
  ASSUME Selections, Offered(text), NEW l \in 1..LastLayer(Model)
  PROVE  LET t == Topology(Model)[l]
             r == Row(l, Network.layers[l].nodes)
         IN /\ t \in Seq(MapperNodes) /\ r \in Seq(ComputeNodes) /\ Len(t) = Len(r)
            /\ \A k \in 1..Len(r) : t[k] = NodeAt(r[k])
<1> DEFINE t == Topology(Model)[l]
           r == Row(l, Network.layers[l].nodes)
           n == Model[l + 1].size
<1>1. n \in Nat /\ Network.layers[l].nodes = n
  BY LayerShape, NetworkShape
<1>2. l \in ModelLayers(Model)
  BY ModelShape DEF ModelLayers
<1>3. t = [k \in 1..n |-> TopologyNode(Model, l, k - 1)]
  BY <1>2 DEF Topology
<1>4. r = [k \in 1..n |-> AddressOf(l, k - 1)]
  BY <1>1 DEF Row
<1> HIDE DEF n, t, r
<1>5. ASSUME NEW k \in 1..n
      PROVE  /\ r[k] = AddressOf(l, k - 1) /\ r[k] \in ComputeNodes
             /\ t[k] = NodeAt(r[k]) /\ t[k] \in MapperNodes
  <2>1. k - 1 \in NodesOf(n)
    BY <1>1 DEF NodesOf
  <2>2. AddressOf(l, k - 1) \in ComputeNodes
    BY <2>1 DEF ComputeNodes, n
  <2>3. NodeAt(AddressOf(l, k - 1)) = TopologyNode(Model, l, k - 1)
    BY DEF NodeAt, AddressOf
  <2> QED
    BY <1>3, <1>4, <2>2, <2>3 DEF MapperNodes
<1>6. t \in [1..n -> MapperNodes] /\ r \in [1..n -> ComputeNodes]
  BY <1>3, <1>4, <1>5
<1>7. t \in Seq(MapperNodes) /\ Len(t) = n /\ r \in Seq(ComputeNodes) /\ Len(r) = n
  BY <1>1, <1>6, ListShape
<1> QED
  BY <1>5, <1>7 DEF t, r

(* Both lists run through the layers in the same order.                    *)
LEMMA NodesListed ==
  ASSUME Selections, Offered(text)
  PROVE  Lists(AllNodes(Model), PoolOrder(Network))
<1> DEFINE L == LastLayer(Model)
           ts == [i \in DOMAIN Model |-> Topology(Model)[i - 1]]
           rs == [l \in LayerIds(Network) |-> Row(l, Network.layers[l].nodes)]
<1>1. /\ Len(Model) = L + 1 /\ L \in Nat \ {0} /\ DOMAIN Model = 1..(L + 1)
      /\ Model[1].size \in Nat
  BY ModelShape
<1>2. Network.physicalInputs = FALSE /\ LayerIds(Network) = 1..L
  <2>1. Network.layers \in [1..L -> {Network.layers[l] : l \in 1..L}]
    BY DEF Network, NetworkJson
  <2>2. Len(Network.layers) = L
    BY <1>1, <2>1, ListShape
  <2> QED
    BY <2>2 DEF LayerIds, Network, NetworkJson
<1> HIDE DEF L
<1>3. Len(ts) = L + 1 /\ \A i \in 1..(L + 1) : ts[i] = Topology(Model)[i - 1]
  <2>1. ts \in [1..(L + 1) -> {Topology(Model)[i - 1] : i \in 1..(L + 1)}]
    BY <1>1
  <2>2. L + 1 \in Nat
    BY <1>1
  <2> HIDE DEF ts
  <2>3. Len(ts) = L + 1
    BY <2>1, <2>2, ListShape
  <2> QED
    BY <1>1, <2>3 DEF ts
<1>4. Len(rs) = L /\ \A l \in 1..L : rs[l] = Row(l, Network.layers[l].nodes)
  <2>1. rs \in [1..L -> {Row(l, Network.layers[l].nodes) : l \in 1..L}]
    BY <1>2
  <2> HIDE DEF rs
  <2>2. Len(rs) = L
    BY <1>1, <2>1, ListShape
  <2> QED
    BY <1>2, <2>2 DEF rs
<1>5. AllNodes(Model) = FlattenSeq(ts)
  BY DEF AllNodes
<1>6. PoolOrder(Network) = << >> \o FlattenSeq(rs)
  BY <1>2 DEF PoolOrder
<1> HIDE DEF ts, rs
<1>7. PICK f : /\ f[1] = ts[1] /\ AllNodes(Model) = f[L + 1]
               /\ \A k \in 2..(L + 1) : JoinsOne(f, ts, k)
  <2>1. Len(ts) = L + 1 /\ Len(ts) \in Nat \ {0}
    BY ONLY <1>1, <1>3
  <2>2. \E f : /\ f[1] = ts[1] /\ FlattenSeq(ts) = f[Len(ts)]
              /\ \A k \in 2..Len(ts) : JoinsOne(f, ts, k)
    BY ONLY <2>1, FlattenJoins, Zenon
  <2> QED
    BY ONLY <1>5, <2>1, <2>2, Zenon
<1>8. PICK g : /\ g[1] = rs[1] /\ FlattenSeq(rs) = g[L]
               /\ \A k \in 2..L : JoinsOne(g, rs, k)
  <2>1. Len(rs) = L /\ Len(rs) \in Nat \ {0}
    BY ONLY <1>1, <1>4
  <2>2. \E g : /\ g[1] = rs[1] /\ FlattenSeq(rs) = g[Len(rs)]
              /\ \A k \in 2..Len(rs) : JoinsOne(g, rs, k)
    BY ONLY <2>1, FlattenJoins, Zenon
  <2> QED
    BY ONLY <2>1, <2>2, Zenon
<1>9. ASSUME NEW l \in 1..L
      PROVE  /\ ts[l + 1] \in Seq(MapperNodes) /\ rs[l] \in Seq(ComputeNodes)
             /\ Len(ts[l + 1]) = Len(rs[l])
             /\ \A k \in 1..Len(rs[l]) : ts[l + 1][k] = NodeAt(rs[l][k])
  <2>1. l + 1 \in 1..(L + 1) /\ (l + 1) - 1 = l
    BY <1>1
  <2>2. ts[l + 1] = Topology(Model)[l] /\ rs[l] = Row(l, Network.layers[l].nodes)
    BY <1>3, <1>4, <2>1
  <2> QED
    BY <2>2, RowListed DEF L
<1>10. Lists(ts[1], << >>)
  <2>1. ts[1] = [k \in 1..Model[1].size |-> TopologyNode(Model, 0, k - 1)]
    <3>1. 0 \in ModelLayers(Model) /\ 1 \in 1..(L + 1) /\ 1 - 1 = 0 /\ 0 + 1 = 1
      BY <1>1 DEF ModelLayers
    <3>2. ts[1] = Topology(Model)[0]
      BY <1>3, <3>1
    <3>3. Topology(Model)[0]
            = [k \in 1..Model[0 + 1].size |-> TopologyNode(Model, 0, k - 1)]
      BY <3>1 DEF Topology
    <3> QED
      BY <3>1, <3>2, <3>3
  <2>2. \A k \in 1..Model[1].size : /\ ts[1][k] = TopologyNode(Model, 0, k - 1)
                                    /\ ts[1][k] \in MapperNodes
    BY <1>1, <2>1 DEF MapperNodes
  <2>3. ts[1] \in [1..Model[1].size -> MapperNodes]
    BY <2>1, <2>2
  <2>4. ts[1] \in Seq(MapperNodes) /\ Len(ts[1]) = Model[1].size
    <3> DEFINE m == Model[1].size
               inputs == ts[1]
    <3>1. m \in Nat /\ inputs \in [1..m -> MapperNodes]
      BY <1>1, <2>3
    <3> HIDE DEF m, inputs
    <3>2. inputs \in Seq(MapperNodes) /\ Len(inputs) = m
      BY <3>1, ListShape
    <3> QED
      BY <3>2 DEF m, inputs
  <2>5. \A k \in 1..Model[1].size : ts[1][k].input
    <3>1. \A n : TopologyNode(Model, 0, n).input
      BY Zenon DEF TopologyNode
    <3> QED
      BY <2>2, <3>1
  <2>6. << >> \in Seq(ComputeNodes) /\ Len(<< >>) = 0 /\ 1..0 = {}
    BY EmptySeq
  <2> QED
    BY <1>1, <2>4, <2>5, <2>6 DEF Lists
<1> DEFINE T == {i \in Nat : i + 1 <= L => Lists(f[i + 2], g[i + 1])}
<1>11. 0 \in T
  <2>1. 1 \in 1..L /\ 1 \in 1..(L + 1) /\ 2 \in 1..(L + 1)
    BY <1>1
  <2>2. f[2] = ts[1] \o ts[2] /\ g[1] = rs[1]
    <3>1. 2 \in 2..(L + 1) /\ 2 - 1 = 1
      BY <1>1
    <3>2. JoinsOne(f, ts, 2)
      BY <1>7, <3>1
    <3> QED
      BY <1>7, <1>8, <3>1, <3>2, Zenon DEF JoinsOne
  <2>3. << >> \o rs[1] = rs[1]
    BY <1>9, <2>1, ConcatEmptySeq
  <2>4. Lists(ts[1] \o ts[2], << >> \o rs[1])
    <3>1. /\ ts[2] \in Seq(MapperNodes) /\ rs[1] \in Seq(ComputeNodes)
          /\ Len(ts[2]) = Len(rs[1])
          /\ \A k \in 1..Len(rs[1]) : ts[2][k] = NodeAt(rs[1][k])
      BY <1>9, <2>1
    <3>2. PICK none : none = << >>
      OBVIOUS
    <3>3. Model[1].size \in Nat /\ Lists(ts[1], none)
      BY <1>1, <1>10, <3>2
    <3>4. Lists(ts[1] \o ts[2], none \o rs[1])
      BY ONLY <3>1, <3>3, ListsConcat
    <3> QED
      BY <3>2, <3>4
  <2>5. Lists(f[0 + 2], g[0 + 1])
    <3>1. 0 + 2 = 2 /\ 0 + 1 = 1
      OBVIOUS
    <3> QED
      BY <2>2, <2>3, <2>4, <3>1, Zenon
  <2> QED
    BY <2>5
<1>12. ASSUME NEW i \in T PROVE i + 1 \in T
  <2> SUFFICES ASSUME i + 2 <= L PROVE Lists(f[i + 3], g[i + 2])
    OBVIOUS
  <2>1. /\ i \in Nat /\ i + 2 \in 1..L /\ i + 3 \in 1..(L + 1) /\ i + 2 # 1 /\ i + 3 # 1
        /\ (i + 3) - 1 = i + 2 /\ (i + 2) - 1 = i + 1 /\ (i + 2) + 1 = i + 3
        /\ Lists(f[i + 2], g[i + 1])
    BY <1>1
  <2>2. f[i + 3] = f[i + 2] \o ts[i + 3] /\ g[i + 2] = g[i + 1] \o rs[i + 2]
    <3>1. i + 2 \in 2..L /\ i + 3 \in 2..(L + 1)
      BY <1>1, <2>1
    <3>2. JoinsOne(f, ts, i + 3) /\ JoinsOne(g, rs, i + 2)
      BY <1>7, <1>8, <3>1
    <3> QED
      BY <2>1, <3>2, Zenon DEF JoinsOne
  <2>3. /\ ts[i + 3] \in Seq(MapperNodes) /\ rs[i + 2] \in Seq(ComputeNodes)
        /\ Len(ts[i + 3]) = Len(rs[i + 2])
        /\ \A k \in 1..Len(rs[i + 2]) : ts[i + 3][k] = NodeAt(rs[i + 2][k])
    BY <1>9, <2>1
  <2> HIDE DEF T
  <2>4. Lists(f[i + 2] \o ts[i + 3], g[i + 1] \o rs[i + 2])
    BY <1>1, <2>1, <2>3, ListsConcat
  <2> QED
    BY <2>2, <2>4
<1> HIDE DEF T
<1>13. T \subseteq Nat
  BY DEF T
<1>14. T = Nat
  BY <1>11, <1>12, <1>13, SetInduction
<1>15. Lists(f[L + 1], g[L])
  <2>1. L - 1 \in Nat /\ (L - 1) + 1 = L /\ (L - 1) + 2 = L + 1 /\ L <= L
    BY <1>1
  <2>2. L - 1 \in T
    BY <1>14, <2>1
  <2>3. Lists(f[(L - 1) + 2], g[(L - 1) + 1])
    BY <2>1, <2>2 DEF T
  <2> QED
    BY <2>1, <2>3
<1>16. << >> \o g[L] = g[L]
  BY <1>15, ConcatEmptySeq DEF Lists
<1> QED
  BY <1>6, <1>7, <1>8, <1>15, <1>16

(* The boards of codegen stand for the nodes build_devices lists.          *)
LEMMA PhysicalListed ==
  ASSUME Selections, Offered(text)
  PROVE  LET order == PoolOrder(Network)
         IN /\ order \in Seq(ComputeNodes) /\ DeviceTotal(Model) = Len(order)
            /\ \A k \in 1..Len(order) : PhysicalNodes(Model)[k] = NodeAt(order[k])
<1> DEFINE order == PoolOrder(Network)
           nodes == AllNodes(Model)
           m == Model[1].size
<1>1. Lists(nodes, order) /\ m \in Nat
  BY NodesListed, ModelShape
<1>2. /\ nodes \in Seq(MapperNodes) /\ order \in Seq(ComputeNodes)
      /\ Len(nodes) \in Nat /\ Len(order) \in Nat /\ Len(nodes) = m + Len(order)
      /\ \A k \in 1..m : nodes[k].input
      /\ \A k \in 1..Len(order) : nodes[m + k] = NodeAt(order[k])
  BY <1>1, LenProperties DEF Lists
<1> HIDE DEF nodes, order, m
<1>3. ASSUME NEW a \in ComputeNodes PROVE ~NodeAt(a).input
  <2>1. a.layer \in 1..LastLayer(Model)
    BY DEF ComputeNodes, AddressOf
  <2>2. a.layer # 0
    BY <2>1, ModelShape
  <2> QED
    BY <2>2 DEF NodeAt, TopologyNode
<1>4. ASSUME NEW k \in 1..Len(nodes) PROVE nodes[k].input <=> k <= m
  <2>1. CASE k <= m
    BY <1>1, <1>2, <2>1
  <2>2. CASE ~(k <= m)
    <3>1. k - m \in 1..Len(order) /\ m + (k - m) = k
      BY <1>1, <1>2, <2>2
    <3>2. nodes[k] = NodeAt(order[k - m]) /\ order[k - m] \in ComputeNodes
      BY <1>2, <3>1, ElementOfSeq
    <3> QED
      BY <1>3, <2>2, <3>2
  <2> QED
    BY <2>1, <2>2
<1>5. PICK f : Keeps(f, nodes, Len(nodes)) /\ PhysicalNodes(Model) = f[Len(nodes)]
  BY <1>2, PhysicalKeeps DEF nodes
<1>6. /\ Len(f[Len(nodes)]) = Len(nodes) - m
      /\ \A k \in 1..(Len(nodes) - m) : f[Len(nodes)][k] = nodes[m + k]
  <2>1. m \in 0..Len(nodes)
    BY <1>1, <1>2
  <2>2. /\ f[Len(nodes)] \in Seq(MapperNodes) /\ Len(f[Len(nodes)]) = Len(nodes) - m
        /\ \A k \in 1..(Len(nodes) - m) : f[Len(nodes)][k] = nodes[m + k]
    <3>1. nodes \in Seq(MapperNodes)
      BY ONLY <1>2
    <3>2. Keeps(f, nodes, Len(nodes))
      BY ONLY <1>5
    <3> QED
      BY ONLY <1>4, <2>1, <3>1, <3>2, KeepShape
  <2> QED
    BY <2>2
<1>7. Len(nodes) - m = Len(order)
  BY <1>1, <1>2
<1> QED
  BY <1>2, <1>5, <1>6, <1>7 DEF order, DeviceTotal

(* The two descriptions of the board of one node.                          *)
LEMMA EntriesAgree ==
  ASSUME Selections, Offered(text), NEW a \in ComputeNodes, NEW hw
  PROVE  LET e == DeviceEntry(NodeAt(a), hw)
             d == Device(Network, a, hw)
             last == d.cfg.addr.layer = LastLayer(Model)
         IN /\ <<e.hw, e.slot, e.activation, e.weights, e.bias>>
                 = <<d.hw, d.slot, d.activation, d.weights, d.bias>>
            /\ <<e.addr, e.pred, e.predLayer, e.preceding>>
                 = <<d.cfg.addr, d.cfg.pred, d.cfg.predLayer, d.cfg.preceding>>
            /\ e.succ = IF last THEN TerminalSentinel ELSE d.cfg.succ
<1> DEFINE e == DeviceEntry(NodeAt(a), hw)
           d == Device(Network, a, hw)
           l == a.layer
           n == a.node
           layer == Model[l + 1]
           written == Network.layers[l]
<1>1. l \in 1..LastLayer(Model) /\ a = AddressOf(l, n)
  BY DEF ComputeNodes, AddressOf
<1>2. l \in Nat /\ l # 0 /\ l <= LastLayer(Model) /\ LastLayer(Model) \in Nat
  BY <1>1, ModelShape
<1>3. /\ written.activationType = ActivationName[layer.activation]
      /\ written.weights = layer.weights /\ written.bias = layer.bias
      /\ layer.bias # Missing
  BY <1>1, NetworkShape, ModelShape
<1>4. PredecessorCount(Network, l) = Model[l].size
  BY <1>1, WidthBefore
<1>5. l + 1 # Missing
  BY <1>2, ManifestAssumption DEF ManifestAssumption
<1> DEFINE t == NodeAt(a)
<1>6. /\ t.addr = AddressOf(l, n) /\ t.pred = NodesOf(Model[l].size)
      /\ t.predLayer = l - 1 /\ t.preceding = NodesOf(n)
      /\ t.succ = IF l < LastLayer(Model) THEN l + 1 ELSE Missing
      /\ t.slot = n /\ t.activation = layer.activation
      /\ t.weights = layer.weights[n + 1] /\ t.bias = layer.bias[n + 1]
  BY <1>2 DEF NodeAt, TopologyNode
<1> HIDE DEF t
<1>7. /\ e.hw = hw /\ e.addr = t.addr /\ e.pred = t.pred
      /\ e.preceding = t.preceding /\ e.slot = t.slot
      /\ e.succ = IF t.succ = Missing THEN TerminalSentinel ELSE t.succ
      /\ e.activation = ActivationName[t.activation]
      /\ e.weights = t.weights /\ e.predLayer = t.predLayer /\ e.bias = t.bias
  BY DEF DeviceEntry, t
<1> DEFINE c == ComputeConfig(Network, a, {})
<1>8. /\ c.addr = a /\ c.pred = NodesOf(PredecessorCount(Network, l))
      /\ c.predLayer = l - 1 /\ c.succ = l + 1 /\ c.preceding = NodesOf(n)
  BY DEF ComputeConfig
<1> HIDE DEF c
<1>9. /\ d.hw = hw /\ d.cfg = c /\ d.slot = n
      /\ d.activation = written.activationType
      /\ d.weights = written.weights[n + 1] /\ d.bias = BiasOf(written)[n + 1]
  BY <1>2 DEF Device, c
<1>10. BiasOf(written) = layer.bias
  BY <1>3 DEF BiasOf
<1> HIDE DEF e, d, written, layer
<1>11. <<e.hw, e.slot, e.activation, e.weights, e.bias>>
         = <<d.hw, d.slot, d.activation, d.weights, d.bias>>
  BY <1>3, <1>6, <1>7, <1>9, <1>10
<1>12. <<e.addr, e.pred, e.predLayer, e.preceding>>
         = <<d.cfg.addr, d.cfg.pred, d.cfg.predLayer, d.cfg.preceding>>
  BY <1>1, <1>4, <1>6, <1>7, <1>8, <1>9
<1>13. e.succ = IF d.cfg.addr.layer = LastLayer(Model) THEN TerminalSentinel
                ELSE d.cfg.succ
  BY <1>2, <1>5, <1>6, <1>7, <1>8, <1>9
<1> QED
  BY <1>11, <1>12, <1>13 DEF e, d

LEMMA SelectionsAgree == Selections => MappersAgree
<1> SUFFICES ASSUME Selections, Offered(text)
             PROVE  LET pool    == Times(DeviceTotal(Model))
                        entries == DevicesJson(Model, pool)
                        devices == Devices(Network, pool)
                    IN /\ DOMAIN entries = DOMAIN devices
                       /\ \A k \in DOMAIN pool :
                            LET e == entries[k]
                                d == devices[k]
                                last == d.cfg.addr.layer = LastLayer(Model)
                            IN /\ <<e.hw, e.slot, e.activation, e.weights, e.bias>>
                                    = <<d.hw, d.slot, d.activation, d.weights, d.bias>>
                               /\ <<e.addr, e.pred, e.predLayer, e.preceding>>
                                    = <<d.cfg.addr, d.cfg.pred, d.cfg.predLayer,
                                        d.cfg.preceding>>
                               /\ e.succ = IF last THEN TerminalSentinel ELSE d.cfg.succ
  BY DEF MappersAgree
<1> DEFINE order == PoolOrder(Network)
           pool == Times(DeviceTotal(Model))
           entries == DevicesJson(Model, pool)
           devices == Devices(Network, pool)
<1>1. /\ order \in Seq(ComputeNodes) /\ DeviceTotal(Model) = Len(order)
      /\ \A k \in 1..Len(order) : PhysicalNodes(Model)[k] = NodeAt(order[k])
  BY PhysicalListed
<1>2. DOMAIN order = 1..Len(order) /\ \A k \in 1..Len(order) : order[k] \in ComputeNodes
  BY <1>1, LenProperties, ElementOfSeq
<1>3. DOMAIN pool = 1..Len(order)
  BY <1>1 DEF Times
<1> HIDE DEF order, pool
<1>4. entries = [k \in 1..Len(order) |-> DeviceEntry(PhysicalNodes(Model)[k], pool[k])]
  BY <1>3 DEF DevicesJson
<1>5. devices = [k \in 1..Len(order) |-> Device(Network, order[k], pool[k])]
  BY <1>2 DEF Devices, order
<1> HIDE DEF entries, devices
<1>6. DOMAIN entries = DOMAIN devices
  BY <1>4, <1>5
<1>7. ASSUME NEW k \in DOMAIN pool
      PROVE  LET e == entries[k]
                 d == devices[k]
                 last == d.cfg.addr.layer = LastLayer(Model)
             IN /\ <<e.hw, e.slot, e.activation, e.weights, e.bias>>
                     = <<d.hw, d.slot, d.activation, d.weights, d.bias>>
                /\ <<e.addr, e.pred, e.predLayer, e.preceding>>
                     = <<d.cfg.addr, d.cfg.pred, d.cfg.predLayer, d.cfg.preceding>>
                /\ e.succ = IF last THEN TerminalSentinel ELSE d.cfg.succ
  <2>1. entries[k] = DeviceEntry(NodeAt(order[k]), pool[k])
    BY <1>1, <1>3, <1>4 DEF order
  <2>2. devices[k] = Device(Network, order[k], pool[k])
    BY <1>3, <1>5
  <2>3. order[k] \in ComputeNodes
    BY <1>2, <1>3
  <2> QED
    BY <2>1, <2>2, <2>3, EntriesAgree
<1> QED
  BY <1>6, <1>7 DEF entries, devices, pool

(* Both generators of manifests take the nodes of a model in the same order*)
(* and write the same board for each, but for the successor of the last    *)
(* layer, for models of any depth and widths and whatever backups are      *)
(* picked (codegen.py, generate_manifest.py).                              *)
THEOREM GeneratorsAgree == Spec => []MappersAgree
<1>1. Init => Selections
  BY SelectionsInitial
<1>2. Selections /\ [Next]_vars => Selections'
  BY SelectionsInductive
<1>3. Selections => MappersAgree
  BY SelectionsAgree
<1> QED
  BY <1>1, <1>2, <1>3, PTL DEF Spec
=============================================================================
