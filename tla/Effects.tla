------------------------------- MODULE Effects -------------------------------
(***************************************************************************)
(* What the gateway promises of a call that must not be repeated (a card   *)
(* sent to Lark, a session created or a prompt decided in AGY), without    *)
(* saying how: it is written down before it is made, made once, reported   *)
(* as done or as refused only if that is true, and in doubt otherwise; what *)
(* is in doubt is looked at or given up, never made again.                 *)
(***************************************************************************)

CONSTANT Things  \* what calls are made for

VARIABLES
  phase,   \* "absent", "waiting", "tried", or what is reported of the call
  called,  \* what it was made for, but for calls that the other side refused
  holds    \* what is so at the other side, because of the call or otherwise

effectVars == <<phase, called, holds>>

EffectsInit ==
  /\ phase = [x \in Things |-> "absent"]
  /\ called = {} /\ holds = {}

Moves(S, from, to) ==
  /\ \A x \in S : phase[x] \in from
  /\ phase' = [x \in Things |-> IF x \in S THEN to ELSE phase[x]]

Ask(S) == Moves(S, {"absent"}, "waiting") /\ UNCHANGED <<called, holds>>

Try(x) == Moves({x}, {"waiting"}, "tried") /\ UNCHANGED <<called, holds>>

Call(x) ==
  /\ phase[x] = "tried" /\ x \notin called
  /\ called' = called \cup {x}
  /\ holds' \in {holds, holds \cup {x}}
  /\ UNCHANGED phase

\* Others make it so as well, but a call that was refused has no effect later.
Happen(S) ==
  /\ \A x \in S : phase[x] = "refused" => x \notin called
  /\ holds' = holds \cup S
  /\ UNCHANGED <<phase, called>>

\* Nothing was done: the call may be made another time.
Return(x) == x \notin called /\ Moves({x}, {"tried"}, "waiting") /\ UNCHANGED <<called, holds>>

Refuse(x) == x \notin called \cap holds /\ Moves({x}, {"tried"}, "refused") /\ UNCHANGED <<called, holds>>

Confirm(x) == x \in holds /\ Moves({x}, {"tried", "doubt"}, "done") /\ UNCHANGED <<called, holds>>

Doubt(S) == Moves(S, {"tried"}, "doubt") /\ UNCHANGED <<called, holds>>

Dismiss(x) == Moves({x}, {"doubt"}, "dismissed") /\ UNCHANGED <<called, holds>>

EffectsNext ==
  \/ \E S \in SUBSET Things : Ask(S) \/ Happen(S) \/ Doubt(S)
  \/ \E x \in Things : Try(x) \/ Call(x) \/ Return(x) \/ Refuse(x) \/ Confirm(x) \/ Dismiss(x)

EffectsSpec == EffectsInit /\ [][EffectsNext]_effectVars

-----------------------------------------------------------------------------
\* What is reported is true, and a call that was made is not forgotten.
ReportsAreTrue ==
  \A x \in Things :
    /\ phase[x] = "done" => x \in holds
    /\ phase[x] = "refused" => x \notin called \cap holds
    /\ x \in called => phase[x] \notin {"absent", "waiting"}

=============================================================================
