------------------------------ MODULE LayerRun ------------------------------
(***************************************************************************)
(* What one run of a layer promises the laptop, without saying how the     *)
(* layer keeps it: every member speaks for itself, or, once it has died    *)
(* without a word, others speak for it; the laptop files only answers that *)
(* were spoken and only substitutions that were made, stops waiting with   *)
(* every answer, and closes its socket with every substitution filed.      *)
(***************************************************************************)
CONSTANTS
  Member,   \* the members of the layer
  Final     \* those whose answers the laptop waits for

VARIABLES
  live,       \* the members that have not died
  phase,      \* the laptop's: "idle", "waiting" or "draining"
  voices,     \* who spoke in whose name since the run began
  answered,   \* in whose name the laptop has an answer
  logged      \* the substitutions the laptop was told of

runVars == <<live, phase, voices, answered, logged>>

Own(m) == [by |-> m, as |-> m]
Substitutions == {s \in voices : s.by # s.as}

RunInit == /\ live = Member /\ phase = "idle"
           /\ voices = {} /\ answered = {} /\ logged = {}

Begin == /\ phase = "idle" /\ phase' = "waiting"
         /\ voices' = {} /\ answered' = {} /\ logged' = {}
         /\ UNCHANGED live

Die(m) == /\ m \in live /\ live' = live \ {m}
          /\ UNCHANGED <<phase, voices, answered, logged>>

(* The silent dead are the only ones somebody else may speak for.          *)
Silent == {m \in Member \ live : Own(m) \notin voices}

Speak(m) == /\ m \in live
            /\ \E heard \in SUBSET ({m} \cup Silent) :
                 voices' = voices \cup {[by |-> m, as |-> a] : a \in heard}
            /\ UNCHANGED <<live, phase, answered, logged>>

File(s) == /\ phase # "idle"
           /\ \/ answered' = answered \cup {s.as} /\ UNCHANGED logged
              \/ s \in Substitutions /\ logged' = logged \cup {s} /\ UNCHANGED answered
           /\ UNCHANGED <<live, phase, voices>>

StopWaiting == /\ phase = "waiting" /\ Final \subseteq answered
               /\ phase' = "draining"
               /\ UNCHANGED <<live, voices, answered, logged>>

Close == /\ phase = "draining" /\ Final \subseteq answered
         /\ Substitutions \subseteq logged
         /\ phase' = "idle"
         /\ UNCHANGED <<live, voices, answered, logged>>

RunNext == \/ Begin \/ StopWaiting \/ Close
           \/ \E m \in Member : Die(m) \/ Speak(m)
           \/ \E s \in voices : File(s)

RunSpec == RunInit /\ [][RunNext]_runVars
=============================================================================
