---------------------------- MODULE FailoverDuty ----------------------------
(***************************************************************************)
(* What a backup owes its layer in one pass, without saying how it finds   *)
(* out: when everyone else has gone it asks a silent sibling to retransmit,*)
(* and only if the sibling stays silent does it either cover for it or     *)
(* give it up, never both and never for a sibling it has heard.  What it   *)
(* sends follows its verdict.                                              *)
(***************************************************************************)
VARIABLES
  phase,     \* how far the backup has gone in this pass
  heard,     \* the sibling has been heard in this pass
  over,      \* everyone else in the layer has been heard in this pass
  ready,     \* all inputs of the sibling are known
  emitted    \* the kinds of packets sent in this pass

dutyVars == <<phase, heard, over, ready, emitted>>

Phases == {"watching", "asked", "covered", "lost"}

(* The packets each phase entitles the backup to send.                     *)
Entitled(ph) ==
  CASE ph = "watching" -> {}
    [] ph = "asked"    -> {"request"}
    [] ph = "covered"  -> {"request", "substitute", "cover report"}
    [] ph = "lost"     -> {"request", "teardown", "loss report"}

Fresh == /\ phase = "watching" /\ heard = FALSE
         /\ over \in BOOLEAN /\ ready \in BOOLEAN   \* TRUE if nobody is due
         /\ emitted = {}

DutyInit == Fresh

Hear == heard' = TRUE /\ UNCHANGED <<phase, over, ready, emitted>>

(* Knowledge of a pass only grows.                                         *)
Gather == /\ over' \in BOOLEAN /\ (over => over')
          /\ ready' \in BOOLEAN /\ (ready => ready')
          /\ UNCHANGED <<phase, heard, emitted>>

Ask == /\ phase = "watching" /\ ~heard /\ over
       /\ phase' = "asked"
       /\ UNCHANGED <<heard, over, ready, emitted>>

Cover == /\ phase = "asked" /\ ~heard /\ ready
         /\ phase' = "covered"
         /\ UNCHANGED <<heard, over, ready, emitted>>

GiveUp == /\ phase = "asked" /\ ~heard /\ ~ready
          /\ phase' = "lost"
          /\ UNCHANGED <<heard, over, ready, emitted>>

Emit == /\ \E k \in Entitled(phase) : emitted' = emitted \cup {k}
        /\ UNCHANGED <<phase, heard, over, ready>>

Close == Fresh'

DutyNext == Hear \/ Gather \/ Ask \/ Cover \/ GiveUp \/ Emit \/ Close

DutySpec == DutyInit /\ [][DutyNext]_dutyVars
=============================================================================
