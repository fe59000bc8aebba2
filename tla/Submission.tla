----------------------------- MODULE Submission -----------------------------
(***************************************************************************)
(* What the gateway promises about the inputs it accepts, without saying   *)
(* how: each waits, is handed to AGY at most once, in the order of its     *)
(* session, while no other one is in doubt, and is closed by an answer, a  *)
(* refusal, a withdrawal or the operator.                                  *)
(***************************************************************************)
EXTENDS Naturals

CONSTANTS Requests, BindingOf, KindOf

VARIABLES
  phase,    \* "absent", "waiting", "handed" (outcome open) or "closed"
  ordinal,  \* position in the order of acceptance, 0 while absent
  rows      \* inputs accepted so far

subVars == <<phase, ordinal, rows>>

SubInit ==
  /\ phase = [r \in Requests |-> "absent"]
  /\ ordinal = [r \in Requests |-> 0]
  /\ rows = 0

Take(r) ==
  /\ phase[r] = "absent"
  /\ phase' = [phase EXCEPT ![r] = "waiting"]
  /\ ordinal' = [ordinal EXCEPT ![r] = rows + 1]
  /\ rows' = rows + 1

\* No other request is in doubt; an input has none of its session before it.
Hand(r) ==
  /\ phase[r] = "waiting"
  /\ \A s \in Requests : phase[s] # "handed"
  /\ KindOf[r] = "input" =>
       \A s \in Requests : KindOf[s] = "input" /\ BindingOf[s] = BindingOf[r] /\ phase[s] = "waiting"
                             => ordinal[r] <= ordinal[s]
  /\ phase' = [phase EXCEPT ![r] = "handed"]
  /\ UNCHANGED <<ordinal, rows>>

Close(r) ==
  /\ phase[r] \in {"waiting", "handed"}
  /\ phase' = [phase EXCEPT ![r] = "closed"]
  /\ UNCHANGED <<ordinal, rows>>

\* The native history contradicts what was concluded of these requests.
Reopen(R) ==
  /\ \A r \in R : phase[r] \in {"handed", "closed"}
  /\ phase' = [r \in Requests |-> IF r \in R THEN "handed" ELSE phase[r]]
  /\ UNCHANGED <<ordinal, rows>>

SubNext ==
  \/ \E r \in Requests : Take(r) \/ Hand(r) \/ Close(r)
  \/ \E R \in SUBSET Requests : Reopen(R)

SubSpec == SubInit /\ [][SubNext]_subVars

=============================================================================
