---------------------------- MODULE MCMapperApp ----------------------------
(***************************************************************************)
(* Small models for two boards.  Distinct weights are distinct numbers.    *)
(***************************************************************************)
EXTENDS MapperAppProperties

InputLayer(size) ==
  [size |-> size, activation |-> Missing, weights |-> Missing, bias |-> Missing]

Dense(size, activation, weights, bias) ==
  [size |-> size, activation |-> activation, weights |-> weights, bias |-> bias]

AndGate == <<InputLayer(2), Dense(1, "relu", <<<<1, 1>>>>, <<-1>>)>>
Pair    == <<InputLayer(3),
             Dense(2, "tanh", <<<<11, 12, 14>>, <<21, 22, 24>>>>, <<13, 23>>)>>
Retrained == <<InputLayer(3),
               Dense(2, "tanh", <<<<31, 32, 34>>, <<41, 42, 44>>>>, <<33, 43>>)>>
Chain   == <<InputLayer(2), Dense(1, Missing, <<<<51, 52>>>>, <<53>>),
             Dense(1, "sigmoid", <<<<61>>>>, <<63>>)>>
Trio    == <<InputLayer(1), Dense(3, "relu", <<<<1>>, <<2>>, <<3>>>>, <<0, 0, 0>>)>>
TooWide == <<InputLayer(1),
             Dense(4, "relu", <<<<1>>, <<2>>, <<3>>, <<4>>>>, <<0, 0, 0, 0>>)>>
TooDeep == [i \in 1..4 |-> IF i = 1 THEN InputLayer(1)
                           ELSE Dense(1, "relu", <<<<i>>>>, <<0>>)]
ShortRow == <<InputLayer(2), Dense(1, "relu", <<<<1>>>>, <<0>>)>>

Deployable == {AndGate, Pair, Retrained, Chain}
MCPreviews == {Trio, TooWide, TooDeep, ShortRow}
MCTexts == Deployable \cup MCPreviews
MCHardware == 1..2
MCNodeId == 0..3

(* The roles and the numbers these models give rise to.                    *)
PairBackups == {<< >>, <<(0 :> 1)>>, <<(1 :> 0)>>, <<(0 :> 1) @@ (1 :> 0)>>}
RolesOf(t, backups) ==
  {ParsedRole(d) : d \in
     UNION {ToSet(Devices(NetworkJson(Load(t), backups, ResendGrace), pool)) :
              pool \in {p \in {<<1>>, <<2>>, <<1, 2>>} : Len(p) = DeviceTotal(Load(t))}}}
MCRole == UNION {RolesOf(t, << >>) : t \in {AndGate, Chain}}
          \cup UNION {RolesOf(t, b) : t \in {Pair, Retrained}, b \in PairBackups}
MCRun == UNION {UNION {ToSet(SimulateAll(Load(t))[l]) : l \in ModelLayers(t)} :
                  t \in Deployable}
=============================================================================
