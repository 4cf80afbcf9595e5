--------------------------- MODULE MCProvisioning ---------------------------
(***************************************************************************)
(* Small sessions: one layer of two compute devices, the first of which    *)
(* backs the second, and an input device.                                  *)
(***************************************************************************)
EXTENDS ProvisioningProperties

CONSTANTS one, two   \* boards

At(l, n) == [layer |-> l, node |-> n]
Backer == [id |-> "backer", addr |-> At(1, 0), chunks |-> 2, backup |-> TRUE,
           bchunks |-> 1, seed |-> FALSE]
Plain  == [id |-> "plain", addr |-> At(1, 0), chunks |-> 2, backup |-> FALSE,
           bchunks |-> 0, seed |-> FALSE]
Backed == [id |-> "backed", addr |-> At(1, 1), chunks |-> 1, backup |-> FALSE,
           bchunks |-> 0, seed |-> FALSE]
Sensor == [id |-> "sensor", addr |-> At(0, 0), chunks |-> 0, backup |-> FALSE,
           bchunks |-> 0, seed |-> TRUE]

MCRole == {Backer, Plain, Backed, Sensor}
MCHardware == {one, two}
TwoPlans == {<<Backer, Backed>>, <<Sensor, Plain>>}   \* (1,0) moves to board two
MCPool == <<one, two>>
SensorNet == {<<Sensor, Backer>>}
AnyMessage == Setup \cup {"START", "ACK", "NACK", "COMMIT_REPLY"}
NotTheVerdict == AnyMessage \ {"COMMIT_REPLY"}
=============================================================================
