-------------------------- MODULE MCBackupStandby --------------------------
(***************************************************************************)
(* The first of three siblings backs the last; both have two predecessors. *)
(***************************************************************************)
EXTENDS BackupStandby

At(l, n) == [layer |-> l, node |-> n]

MCNodeId == 0..2
MCRun == {1, 2}
MCConfig == [addr |-> At(1, 0), pred |-> {0, 1}, predLayer |-> 0, succ |-> 2,
             preceding |-> {}, seeded |-> FALSE, seed |-> {}, hasRole |-> TRUE,
             target |-> At(1, 2), tpred |-> {0, 1}, tpredLayer |-> 0,
             roster |-> 0..2, grace |-> 2]

(* Predecessors' values of two runs, siblings (the target's own or an      *)
(* alien layer's), and a substitute for the target.                        *)
MCObserved ==
  {DataPacket(At(0, n), "none", {r}) : n \in {0, 1}, r \in MCRun}
  \cup {DataPacket(At(1, n), "none", {1}) : n \in {0, 1, 2}}
  \cup {DataPacket(At(1, 2), "substitute", {1}), DataPacket(At(2, 1), "none", {1})}
=============================================================================
