---------------------------- MODULE Interactions ----------------------------
(***************************************************************************)
(* The buttons of one session: permission requests, questions and `stop`   *)
(* on the cards of conversation/hub.py, their rows in the tables           *)
(* interactions and inbox of store/gateway.py, and the calls of the AGY    *)
(* client that submit what was pressed, answered or has expired.           *)
(*                                                                         *)
(* An interaction is named by its fingerprint: that of the waiting step,   *)
(* or the anchor of the turn for `stop`.  The row of an expiry has an      *)
(* event of its own ("expiry:" and the token), here the prompt itself.     *)
(* What was decided travels unchanged in the row and is left out: an       *)
(* expiry denies or cancels, a press or an answer is what it is.           *)
(***************************************************************************)
EXTENDS Naturals, FiniteSets

CONSTANTS
  Prompts,       \* steps that wait for a permission or an answer
  Questions,     \* those that wait for an answer
  MaxTurns,      \* bound on native turns
  Presses,       \* events of pressed buttons and quoted answers
  MaxSurprises,  \* bound on failed reads, lost calls and crashes
  None

Turns == 1 .. MaxTurns
Keys == Prompts \cup Turns
Events == Presses \cup Prompts

ASSUME InteractionsAssumption ==
  /\ MaxTurns \in Nat /\ MaxSurprises \in Nat
  /\ Questions \subseteq Prompts
  /\ Prompts \cap (0 .. MaxTurns) = {} /\ Prompts \cap Presses = {}
  /\ None \notin Events \cup Keys

VARIABLES
  turn, running,  \* AGY: the last turn and whether it runs
  prompt,         \* AGY: each step is ahead, waiting or over
  flight,         \* calls on their way: events
  status,         \* the interactions
  due,            \* those past their `expires`
  inbox,          \* the rows of the table, by event
  pc, todo, doing, snap,  \* the worker, its rows, its row, the snapshot it read
  shown,          \* prompts of the view the hub remembers
  sent,           \* history: calls made for each event
  moved,          \* history: events for which a turn started after the worker looked
  surprises

agy == <<turn, running, prompt>>
store == <<status, due, inbox>>
worker == <<pc, todo, doing, snap, shown>>
vars == <<agy, flight, store, worker, sent, moved, surprises>>

Rows == [key : Keys \cup {None},
         state : {"NONE", "QUEUED", "SUBMITTING", "DONE", "REJECTED", "UNKNOWN", "DISMISSED"}]
NoRow == [key |-> None, state |-> "NONE"]
Row(k) == [key |-> k, state |-> "QUEUED"]
Pcs == {"down", "sleep", "reconcile", "requests", "view", "reread", "call", "answer", "steps"}

InteractionsTypeOK ==
  /\ turn \in 0 .. MaxTurns /\ running \in BOOLEAN
  /\ prompt \in [Prompts -> {"ahead", "waiting", "over"}]
  /\ flight \subseteq Events
  /\ status \in [Keys -> {"NONE", "OPEN", "CLAIMED", "EXPIRED", "CLOSED"}]
  /\ due \subseteq Keys
  /\ inbox \in [Events -> Rows]
  /\ pc \in Pcs
  /\ todo \subseteq Events /\ doing \in Events \cup {None}
  /\ snap \in BOOLEAN /\ shown \subseteq Prompts
  /\ sent \in [Events -> Nat]
  /\ moved \subseteq Events
  /\ surprises \in 0 .. MaxSurprises
  /\ pc # "down" => \A e \in Events : inbox[e].state = "SUBMITTING" <=> e = doing

Init ==
  /\ turn = 0 /\ running = FALSE
  /\ prompt = [p \in Prompts |-> "ahead"]
  /\ flight = {}
  /\ status = [k \in Keys |-> "NONE"]
  /\ due = {}
  /\ inbox = [e \in Events |-> NoRow]
  /\ pc = "sleep"
  /\ todo = {} /\ doing = None
  /\ snap = FALSE /\ shown = {}
  /\ sent = [e \in Events |-> 0]
  /\ moved = {}
  /\ surprises = 0

Surprise == surprises < MaxSurprises /\ surprises' = surprises + 1
Waiting == {p \in Prompts : prompt[p] = "waiting"}

-----------------------------------------------------------------------------
(* AGY: its own progress, its desktop, and the calls that reach it. *)

StartTurn ==
  /\ ~running /\ turn < MaxTurns
  /\ turn' = turn + 1 /\ running' = TRUE
  /\ moved' = moved \cup flight \cup ({doing} \ {None})
  /\ UNCHANGED <<prompt, flight, store, worker, sent, surprises>>

Ask(p) ==
  /\ running /\ prompt[p] = "ahead"
  /\ prompt' = [prompt EXCEPT ![p] = "waiting"]
  /\ UNCHANGED <<turn, running, flight, store, worker, sent, moved, surprises>>

Decide(p) ==
  /\ prompt[p] = "waiting"
  /\ prompt' = [prompt EXCEPT ![p] = "over"]
  /\ UNCHANGED <<turn, running, flight, store, worker, sent, moved, surprises>>

EndTurn ==
  /\ running /\ Waiting = {}
  /\ running' = FALSE
  /\ UNCHANGED <<turn, prompt, flight, store, worker, sent, moved, surprises>>

\* A stop ends whatever runs; a decision is for its step, if that still waits.
Arrive(e) ==
  /\ e \in flight
  /\ flight' = flight \ {e} /\ moved' = moved \ {e}
  /\ IF inbox[e].key \in Turns
     THEN /\ running' = FALSE
          /\ prompt' = [p \in Prompts |-> IF p \in Waiting THEN "over" ELSE prompt[p]]
     ELSE /\ prompt' = [prompt EXCEPT ![inbox[e].key] = IF @ = "waiting" THEN "over" ELSE @]
          /\ UNCHANGED running
  /\ UNCHANGED <<turn, store, worker, sent, surprises>>

-----------------------------------------------------------------------------
(* The user and the clock. *)

\* Fault: the row stays OPEN.
ClaimFault(e, k) ==
  /\ inbox[e] = NoRow
  /\ status[k] = "OPEN" /\ k \notin due
  /\ inbox' = [inbox EXCEPT ![e] = Row(k)]
  /\ UNCHANGED status

Claim(e, k) ==
  /\ inbox[e] = NoRow
  /\ status[k] = "OPEN" /\ k \notin due
  /\ status' = [status EXCEPT ![k] = "CLAIMED"]
  /\ inbox' = [inbox EXCEPT ![e] = Row(k)]

\* A button, whenever it is pressed and however often it is delivered.
Press(e, k) ==
  /\ pc # "down"
  /\ Claim(e, k)
  /\ UNCHANGED <<agy, flight, due, worker, sent, moved, surprises>>

\* A reply that quotes the card, checked against the remembered view.
AnswerText(e, p) ==
  /\ pc # "down" /\ p \in shown
  /\ Claim(e, p)
  /\ UNCHANGED <<agy, flight, due, worker, sent, moved, surprises>>

Expire(k) ==
  /\ status[k] = "OPEN" /\ k \notin due
  /\ due' = due \cup {k}
  /\ UNCHANGED <<agy, flight, status, inbox, worker, sent, moved, surprises>>

-----------------------------------------------------------------------------
(* The worker: doubtful rows, queued rows, then the view of the session. *)

InState(s) == {e \in Events : inbox[e].state = s}
Settle(e, s) == inbox' = [inbox EXCEPT ![e].state = s]
KeepsAgy == UNCHANGED <<agy, flight>>

BeginTick ==
  /\ pc = "sleep"
  /\ pc' = "reconcile" /\ todo' = InState("UNKNOWN")
  /\ KeepsAgy
  /\ UNCHANGED <<store, doing, snap, shown, sent, moved, surprises>>

\* Only looks: a doubtful decision is settled when its step no longer waits, a stop when
\* the session is idle.
ReconcileControl(e) ==
  /\ pc = "reconcile" /\ e \in todo
  /\ todo' = todo \ {e}
  /\ LET over == IF inbox[e].key \in Turns THEN ~running ELSE prompt[inbox[e].key] # "waiting"
     IN  \/ over /\ Settle(e, "DONE") /\ UNCHANGED surprises
         \/ ~over /\ UNCHANGED <<inbox, surprises>>
         \/ Surprise /\ UNCHANGED inbox
  /\ KeepsAgy
  /\ UNCHANGED <<status, due, pc, doing, snap, shown, sent, moved>>

BeginRequests ==
  /\ pc = "reconcile" /\ todo = {}
  /\ pc' = "requests" /\ todo' = InState("QUEUED")
  /\ KeepsAgy
  /\ UNCHANGED <<store, doing, snap, shown, sent, moved, surprises>>

TakeControl(e) ==
  /\ pc = "requests" /\ e \in todo
  /\ Settle(e, "SUBMITTING")
  /\ pc' = "view" /\ doing' = e /\ todo' = todo \ {e}
  /\ KeepsAgy
  /\ UNCHANGED <<status, due, snap, shown, sent, moved, surprises>>

\* The row under way ends in state `s`.
Ends(s) == Settle(doing, s) /\ pc' = "requests" /\ doing' = None
Goes(next) == pc' = next /\ UNCHANGED <<inbox, doing>>

\* Fault: a stop button is not compared with the turn it was made for.
LookControlFault ==
  /\ pc = "view"
  /\ LET key == inbox[doing].key
         same == IF key \in Turns THEN TRUE ELSE prompt[key] = "waiting"
     IN  \/ same /\ Goes(IF key \in Turns THEN "call" ELSE "reread") /\ UNCHANGED surprises
         \/ ~same /\ Ends("REJECTED") /\ UNCHANGED surprises
         \/ Ends("QUEUED") /\ Surprise
  /\ moved' = moved \ {doing}
  /\ KeepsAgy
  /\ UNCHANGED <<status, due, todo, snap, shown, sent>>

\* The view before the write: a failed read leaves the row for the next tick.
LookControl ==
  /\ pc = "view"
  /\ LET key == inbox[doing].key
         same == IF key \in Turns THEN turn = key ELSE prompt[key] = "waiting"
     IN  \/ same /\ Goes(IF key \in Turns THEN "call" ELSE "reread") /\ UNCHANGED surprises
         \/ ~same /\ Ends("REJECTED") /\ UNCHANGED surprises
         \/ Ends("QUEUED") /\ Surprise
  /\ moved' = moved \ {doing}
  /\ KeepsAgy
  /\ UNCHANGED <<status, due, todo, snap, shown, sent>>

\* The client reads the steps again; from here a failure is an unknown outcome.
RereadStep ==
  /\ pc = "reread"
  /\ \/ prompt[inbox[doing].key] = "waiting" /\ Goes("call") /\ UNCHANGED surprises
     \/ prompt[inbox[doing].key] # "waiting" /\ Ends("UNKNOWN") /\ UNCHANGED surprises
     \/ Ends("UNKNOWN") /\ Surprise
  /\ KeepsAgy
  /\ UNCHANGED <<status, due, todo, snap, shown, sent, moved>>

\* _before_write may refuse; the call is sent once.
CallControl ==
  /\ pc = "call"
  /\ \/ /\ Goes("answer")
        /\ flight' = flight \cup {doing}
        /\ sent' = [sent EXCEPT ![doing] = @ + 1]
        /\ UNCHANGED surprises
     \/ Ends("UNKNOWN") /\ Surprise /\ UNCHANGED <<flight, sent>>
  /\ UNCHANGED <<agy, status, due, todo, snap, shown, moved>>

\* Fault: a call without an answer is taken for done.
AnsweredFault ==
  /\ pc = "answer"
  /\ \/ doing \notin flight /\ Ends("DONE") /\ UNCHANGED surprises
     \/ Ends("DONE") /\ Surprise
  /\ KeepsAgy
  /\ UNCHANGED <<status, due, todo, snap, shown, sent, moved>>

\* The answer and the read after it; a stop is done when the session is idle.
Answered ==
  /\ pc = "answer"
  /\ \/ /\ doing \notin flight
        /\ Ends(IF inbox[doing].key \in Turns /\ running THEN "UNKNOWN" ELSE "DONE")
        /\ UNCHANGED surprises
     \/ Ends("UNKNOWN") /\ Surprise
  /\ KeepsAgy
  /\ UNCHANGED <<status, due, todo, snap, shown, sent, moved>>

\* The call does not arrive; a worker that still waits for its answer sees it fail.
Vanish(e) ==
  /\ e \in flight
  /\ flight' = flight \ {e}
  /\ Surprise
  /\ IF pc = "answer" /\ doing = e THEN Ends("UNKNOWN") ELSE UNCHANGED <<inbox, pc, doing>>
  /\ UNCHANGED <<agy, status, due, todo, snap, shown, sent, moved>>

\* The view of the tick: first the snapshot...
ReadSnapshot ==
  /\ pc = "requests" /\ todo = {}
  /\ \/ pc' = "steps" /\ snap' = running /\ UNCHANGED <<shown, surprises>>
     \/ pc' = "sleep" /\ shown' = {} /\ Surprise /\ UNCHANGED snap
  /\ KeepsAgy
  /\ UNCHANGED <<store, todo, doing, sent, moved>>

\* Fault: what is past its time is only shown so.
ProjectControlsFault ==
  /\ pc = "steps"
  /\ LET live == Waiting \cup IF snap \/ Waiting # {} THEN {turn} ELSE {}
     IN  /\ status' = [k \in Keys |->
              IF status[k] = "OPEN" /\ k \notin live THEN "CLOSED"
              ELSE IF status[k] = "NONE" /\ k \in live THEN "OPEN" ELSE status[k]]
         /\ due' = due \ (live \cap Turns)
  /\ shown' = {p \in Prompts : prompt[p] # "ahead"}
  /\ pc' = "sleep"
  /\ KeepsAgy
  /\ UNCHANGED <<inbox, todo, doing, snap, sent, moved, surprises>>

\* ... then the steps and, without an await, project: interactions that are not live are
\* closed, prompts past their time get an expiry row, new ones are opened, and the stop
\* button of a turn that lasts is renewed.
ProjectControls ==
  /\ pc = "steps"
  /\ LET live == Waiting \cup IF snap \/ Waiting # {} THEN {turn} ELSE {}
         over == {p \in Prompts : status[p] = "OPEN" /\ p \in live /\ p \in due}
     IN  /\ status' = [k \in Keys |->
              IF status[k] = "OPEN" /\ k \notin live THEN "CLOSED"
              ELSE IF k \in over THEN "EXPIRED"
              ELSE IF status[k] = "NONE" /\ k \in live THEN "OPEN" ELSE status[k]]
         /\ inbox' = [e \in Events |-> IF e \in over THEN Row(e) ELSE inbox[e]]
         /\ due' = due \ (live \cap Turns)
  /\ shown' = {p \in Prompts : prompt[p] # "ahead"}
  /\ pc' = "sleep"
  /\ KeepsAgy
  /\ UNCHANGED <<todo, doing, snap, sent, moved, surprises>>

Crash ==
  /\ pc # "down"
  /\ Surprise
  /\ pc' = "down"
  /\ todo' = {} /\ doing' = None /\ snap' = FALSE /\ shown' = {}
  /\ KeepsAgy
  /\ UNCHANGED <<store, sent, moved>>

\* Fault: what was under way is forgotten.
RecoverControlsFault ==
  /\ pc = "down"
  /\ pc' = "sleep"
  /\ KeepsAgy
  /\ UNCHANGED <<store, todo, doing, snap, shown, sent, moved, surprises>>

RecoverControls ==
  /\ pc = "down"
  /\ pc' = "sleep"
  /\ inbox' = [e \in Events |->
       IF inbox[e].state = "SUBMITTING" THEN [inbox[e] EXCEPT !.state = "UNKNOWN"] ELSE inbox[e]]
  /\ KeepsAgy
  /\ UNCHANGED <<status, due, todo, doing, snap, shown, sent, moved, surprises>>

\* `unilark recovery`, under the instance lock.
AcknowledgeControl(e) ==
  /\ pc = "down" /\ inbox[e].state = "UNKNOWN"
  /\ Settle(e, "DISMISSED")
  /\ KeepsAgy
  /\ UNCHANGED <<status, due, worker, sent, moved, surprises>>

-----------------------------------------------------------------------------
Work ==
  \/ BeginTick \/ BeginRequests \/ LookControl \/ RereadStep \/ CallControl \/ Answered
  \/ ReadSnapshot \/ ProjectControls
  \/ \E e \in Events : ReconcileControl(e) \/ TakeControl(e)

Next ==
  \/ StartTurn \/ EndTurn \/ Crash \/ RecoverControls \/ Work
  \/ \E p \in Prompts : Ask(p) \/ Decide(p)
  \/ \E e \in Events : Arrive(e) \/ Vanish(e) \/ AcknowledgeControl(e)
  \/ \E e \in Presses : \/ \E k \in Keys : Press(e, k)
                        \/ \E p \in Questions : AnswerText(e, p)
  \/ \E k \in Keys : Expire(k)

Spec == Init /\ [][Next]_vars

\* The loop runs, a supervisor restarts it, time passes and a sent call arrives.
LiveSpec ==
  /\ Spec /\ WF_vars(Work) /\ WF_vars(RecoverControls)
  /\ \A k \in Keys : WF_vars(Expire(k))
  /\ \A e \in Events : WF_vars(Arrive(e))

-----------------------------------------------------------------------------
\* An interaction is decided once: by one event, be it a press, another press, a quoted
\* answer or the expiry, and whatever fails, one call is made for it at most.
DecidedOnce ==
  \A e, f \in Events :
    /\ sent[e] <= 1
    /\ sent[e] > 0 /\ sent[f] > 0 /\ inbox[e].key = inbox[f].key => e = f

\* What is called decided is: a row reported DONE for a prompt means AGY does not wait
\* for it any more, whoever decided.
DoneIsOver ==
  \A e \in Events : inbox[e].state = "DONE" /\ inbox[e].key \in Prompts =>
    prompt[inbox[e].key] = "over"

\* The abstract promise, for what each button is about: whoever presses, answers or lets
\* expire, one call is made, and it is reported as done only if its prompt or turn is over.
StateOf(k) ==
  IF \E e \in Events : inbox[e].key = k
  THEN inbox[CHOOSE e \in Events : inbox[e].key = k].state
  ELSE "NONE"

Phase ==
  [k \in Keys |->
     CASE StateOf(k) = "NONE" -> "absent"
       [] StateOf(k) = "QUEUED" -> "waiting"
       [] StateOf(k) = "SUBMITTING" -> "tried"
       [] StateOf(k) = "DONE" -> "done"
       [] StateOf(k) = "REJECTED" -> "refused"
       [] StateOf(k) = "UNKNOWN" -> "doubt"
       [] OTHER -> "dismissed"]

Called == {k \in Keys : \E e \in Events : inbox[e].key = k /\ sent[e] > 0}
Over == {p \in Prompts : prompt[p] = "over"} \cup {k \in Turns : turn > k \/ (turn = k /\ ~running)}

Promise == INSTANCE Effects WITH Things <- Keys, phase <- Phase, called <- Called, holds <- Over

\* Every step of the user, the worker, recovery and AGY is a step of the abstract promise.
ImplementsEffects == Promise!EffectsSpec

\* A stop ends its own turn only, unless AGY moved on after the worker looked.
StopHitsItsTurn ==
  [][\A e \in flight \ flight' : inbox[e].key \in Turns /\ running # running' =>
       turn = inbox[e].key \/ e \in moved]_vars

\* Without exception, as the user guide has it.
OldStopIsHarmless ==
  [][\A e \in flight \ flight' : inbox[e].key \in Turns /\ running # running' =>
       turn = inbox[e].key]_vars

\* What was claimed or has expired gets an outcome, if only that it is not known.
DecisionsSettle ==
  \A e \in Events : inbox[e].state = "QUEUED" ~> inbox[e].state \notin {"QUEUED", "SUBMITTING"}

InDoubt(p) == \E e \in Events : inbox[e].key = p /\ inbox[e].state \in {"UNKNOWN", "DISMISSED"}

\* A prompt that waits is decided, by the user or by its expiry, or shown to be in doubt.
WaitingIsDecided == \A p \in Prompts : prompt[p] = "waiting" ~> prompt[p] = "over" \/ InDoubt(p)

\* Without the doubt, as the user guide has it.
UnansweredIsDenied == \A p \in Prompts : prompt[p] = "waiting" ~> prompt[p] = "over"

=============================================================================
