------------------------------ MODULE MCLayer ------------------------------
(***************************************************************************)
(* A small deployment for which the theorems about one layer are stated:   *)
(* TLC checks that it meets their hypotheses and that the invariant they   *)
(* rest on holds.                                                          *)
(***************************************************************************)
EXTENDS MCInference, InferenceProofs

ASSUME LayerAssumption == OneLayer /\ Calm /\ Covered
=============================================================================
