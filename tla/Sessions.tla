------------------------------ MODULE Sessions ------------------------------
(***************************************************************************)
(* How a session comes to be: the events that ask for one (`/new`, the     *)
(* creation form, `/attach`), accept_session of store/gateway.py, their    *)
(* execution in Hub.requests, the reconciliation of those in doubt, and    *)
(* recovery.  Lark may deliver an event any number of times.  The copies   *)
(* of an event of the owner's chat are accepted one after the other; those *)
(* of a group event await the verification of the group between the test   *)
(* that the event is new and its acceptance.                               *)
(***************************************************************************)
EXTENDS Naturals, FiniteSets

CONSTANTS
  Creates,       \* events that ask for a new session
  Attaches,      \* events that name an existing one
  FromGroup,     \* those that come from a group
  Natives,       \* the runtime's session ids
  Desktop,       \* those that were not made by the gateway
  MaxSurprises,  \* bound on failures, crashes and refusals
  None           \* no event, no session

Events == Creates \cup Attaches

ASSUME SessionsAssumption ==
  /\ Creates \cap Attaches = {}
  /\ FromGroup \subseteq Events
  /\ Desktop \subseteq Natives
  /\ MaxSurprises \in Nat
  /\ None \notin Events \cup Natives

VARIABLES
  sent,      \* events that Lark may deliver
  target,    \* the session an attach event names
  suspended, \* copies of an event that await the verification of their group
  inbox,     \* inbox.status of the event's row, "NONE" while there is no row
  bound,     \* the session the event's row is bound to
  session,   \* session_meta.state, "NONE" while the session is not bound
  pc,        \* where the worker is
  rows,      \* rows left in the worker's loop
  doing,     \* the event the worker is at, as a set of at most one
  history,   \* what the runtime has of a session
  made,      \* history: the event that made a session's binding
  started,   \* history: StartCascade calls for a session
  surprises  \* surprises so far

storeVars  == <<inbox, bound, session>>
workerVars == <<pc, rows, doing>>
larkVars   == <<sent, target, suspended>>
vars == <<larkVars, storeVars, workerVars, history, made, started, surprises>>

Statuses == {"NONE", "QUEUED", "SUBMITTING", "DONE", "REJECTED", "UNKNOWN", "DISMISSED"}
States == {"NONE", "CREATING", "ATTACHING", "ACTIVE", "UNKNOWN", "UNAVAILABLE"}
Histories == {"absent", "empty", "used"}

\* The worker awaits something: inbound events may be handled.
AtAwait == pc \in {"idle", "look", "allowed", "workspace", "call", "answer", "view"}

\* Bound on the copies of an event that are suspended at once.
MaxCopies == 2

SessionsTypeOK ==
  /\ sent \subseteq Events
  /\ target \in [Attaches -> Natives]
  /\ suspended \in [Events -> 0 .. MaxCopies]
  /\ inbox \in [Events -> Statuses]
  /\ bound \in [Events -> Natives \cup {None}]
  /\ \A e \in Events : inbox[e] \notin {"NONE", "DONE"} => bound[e] # None
  /\ session \in [Natives -> States]
  /\ pc \in {"down", "idle", "unknowns", "look", "rows", "allowed", "workspace", "call", "answer",
             "view", "proven", "settle", "doubt", "refused"}
  /\ rows \subseteq Events
  /\ doing \subseteq Events
  /\ Cardinality(doing) = (IF pc \in {"down", "idle", "unknowns", "rows"} THEN 0 ELSE 1)
  /\ history \in [Natives -> Histories]
  /\ made \in [Natives -> Events \cup {None}]
  /\ started \in [Natives -> Nat]
  /\ surprises \in 0 .. MaxSurprises

Init ==
  /\ sent = {}
  /\ target \in [Attaches -> Natives]
  /\ suspended = [e \in Events |-> 0]
  /\ inbox = [e \in Events |-> "NONE"]
  /\ bound = [e \in Events |-> None]
  /\ session = [n \in Natives |-> "NONE"]
  /\ pc = "idle"
  /\ rows = {}
  /\ doing = {}
  /\ history \in [Natives -> Histories]
  /\ \A n \in Natives \ Desktop : history[n] = "absent"
  /\ made = [n \in Natives |-> None]
  /\ started = [n \in Natives |-> 0]
  /\ surprises = 0

Surprise == surprises < MaxSurprises /\ surprises' = surprises + 1

-----------------------------------------------------------------------------
(* The user, at Lark and at the desktop. *)

\* Nobody can name a session that has no id yet.
Send(e) ==
  /\ e \notin sent
  /\ e \in Attaches => target[e] \in Desktop \/ session[target[e]] # "NONE"
  /\ sent' = sent \cup {e}
  /\ UNCHANGED <<target, suspended, storeVars, workerVars, history, made, started, surprises>>

\* A first task, from Lark or at the desktop.
Use(n) ==
  /\ history[n] = "empty"
  /\ history' = [history EXCEPT ![n] = "used"]
  /\ UNCHANGED <<larkVars, storeVars, workerVars, made, started, surprises>>

-----------------------------------------------------------------------------
(* Hub.accept: one copy of an event. *)

\* accept_session for a new session: its id is fresh.
AcceptCreate(e) ==
  \E n \in Natives \ Desktop :
    /\ session[n] = "NONE"
    /\ session' = [session EXCEPT ![n] = "CREATING"]
    /\ made' = [made EXCEPT ![n] = e]
    /\ IF inbox[e] = "NONE"
       THEN inbox' = [inbox EXCEPT ![e] = "QUEUED"] /\ bound' = [bound EXCEPT ![e] = n]
       ELSE UNCHANGED <<inbox, bound>>

\* accept_session for a named session, or the handler of its ValueError: the event is
\* then settled, whatever its row was.
AcceptAttach(e) ==
  LET n == target[e]
  IN  IF session[n] \in {"NONE", "ACTIVE"}
      THEN /\ session' = [session EXCEPT ![n] = IF @ = "NONE" THEN "ATTACHING" ELSE @]
           /\ made' = [made EXCEPT ![n] = IF @ = None THEN e ELSE @]
           /\ IF inbox[e] = "NONE"
              THEN inbox' = [inbox EXCEPT ![e] = "QUEUED"] /\ bound' = [bound EXCEPT ![e] = n]
              ELSE UNCHANGED <<inbox, bound>>
      ELSE inbox' = [inbox EXCEPT ![e] = "DONE"] /\ UNCHANGED <<bound, session, made>>

Accept(e) == IF e \in Creates THEN AcceptCreate(e) ELSE AcceptAttach(e)

\* Fault: the copies of an event are not told apart.
ReceiveFault(e) ==
  /\ AtAwait
  /\ e \in sent \ FromGroup
  /\ Accept(e)
  /\ UNCHANGED <<larkVars, workerVars, history, started, surprises>>

\* An event of the owner's chat.  A form is told apart by the same test, in Panels.perform.
Receive(e) ==
  /\ AtAwait
  /\ e \in sent \ FromGroup
  /\ inbox[e] = "NONE"
  /\ Accept(e)
  /\ UNCHANGED <<larkVars, workerVars, history, started, surprises>>

Suspend(e) ==
  /\ AtAwait
  /\ e \in sent \cap FromGroup
  /\ inbox[e] = "NONE"
  /\ suspended[e] < MaxCopies
  /\ suspended' = [suspended EXCEPT ![e] = @ + 1]
  /\ UNCHANGED <<sent, target, storeVars, workerVars, history, made, started, surprises>>

GoOn(e) ==
  /\ AtAwait
  /\ suspended[e] > 0
  /\ suspended' = [suspended EXCEPT ![e] = @ - 1]
  /\ \/ Accept(e) /\ UNCHANGED surprises
     \/ Surprise /\ UNCHANGED <<storeVars, made>>
  /\ UNCHANGED <<sent, target, workerVars, history, started>>

-----------------------------------------------------------------------------
(* Hub.reconcile_controls. *)

Mark(e, status) == inbox' = [inbox EXCEPT ![e] = status]
Put(e, state) == session' = [session EXCEPT ![bound[e]] = state]

InStatus(s) == {e \in Events : inbox[e] = s}

\* Fault: what is in doubt is not looked up.
BeginTickFault ==
  /\ pc = "idle"
  /\ pc' = "unknowns"
  /\ rows' = {}
  /\ UNCHANGED <<larkVars, storeVars, doing, history, made, started, surprises>>

BeginTick ==
  /\ pc = "idle"
  /\ pc' = "unknowns"
  /\ rows' = InStatus("UNKNOWN")
  /\ UNCHANGED <<larkVars, storeVars, doing, history, made, started, surprises>>

LookUp(e) ==
  /\ pc = "unknowns"
  /\ e \in rows
  /\ pc' = "look"
  /\ rows' = rows \ {e}
  /\ doing' = {e}
  /\ UNCHANGED <<larkVars, storeVars, history, made, started, surprises>>

\* Only a history proves that the session exists; a failed look-up leaves the doubt.
LookedUp(e) ==
  /\ pc = "look"
  /\ e \in doing
  /\ \/ /\ history[bound[e]] = "used"
        /\ Put(e, "ACTIVE")
        /\ pc' = "proven"
        /\ UNCHANGED <<doing, surprises>>
     \/ /\ history[bound[e]] # "used"
        /\ pc' = "unknowns"
        /\ doing' = {}
        /\ UNCHANGED <<session, surprises>>
     \/ /\ Surprise
        /\ pc' = "unknowns"
        /\ doing' = {}
        /\ UNCHANGED session
  /\ UNCHANGED <<larkVars, inbox, bound, rows, history, made, started>>

-----------------------------------------------------------------------------
(* Hub.requests. *)

BeginRequests ==
  /\ pc = "unknowns"
  /\ rows = {}
  /\ pc' = "rows"
  /\ rows' = InStatus("QUEUED")
  /\ UNCHANGED <<larkVars, storeVars, doing, history, made, started, surprises>>

\* A creation may have to ask the runtime for its workspace first.
Execute(e) ==
  /\ Mark(e, "SUBMITTING")
  /\ IF e \in Attaches THEN pc' = "view" ELSE pc' \in {"workspace", "call"}

Take(e) ==
  /\ pc = "rows"
  /\ e \in rows
  /\ rows' = rows \ {e}
  /\ doing' = {e}
  /\ IF e \in FromGroup THEN pc' = "allowed" /\ UNCHANGED inbox ELSE Execute(e)
  /\ UNCHANGED <<larkVars, bound, session, history, made, started, surprises>>

Allowed(e) ==
  /\ pc = "allowed"
  /\ e \in doing
  /\ \/ Execute(e) /\ UNCHANGED <<doing, surprises>>
     \/ Surprise /\ pc' = "rows" /\ doing' = {} /\ UNCHANGED inbox
  /\ UNCHANGED <<larkVars, bound, session, rows, history, made, started>>

\* Nothing was written: the row is queued again.
Again(e) ==
  /\ Surprise
  /\ Mark(e, "QUEUED")
  /\ pc' = "rows"
  /\ doing' = {}

Workspace(e) ==
  /\ pc = "workspace"
  /\ e \in doing
  /\ \/ pc' = "call" /\ UNCHANGED <<inbox, doing, surprises>>
     \/ Again(e)
  /\ UNCHANGED <<larkVars, bound, session, rows, history, made, started>>

\* Fault: a creation that was not confirmed is taken for a refused one.
DoubtfulFault(e) == Surprise /\ Mark(e, "REJECTED") /\ pc' = "refused"

\* The call may have been carried out.
Doubtful(e) == Surprise /\ Mark(e, "UNKNOWN") /\ pc' = "doubt"

Refused(e) == Mark(e, "REJECTED") /\ pc' = "refused"

\* StartCascade, or a failure of what precedes it.
Call(e) ==
  /\ pc = "call"
  /\ e \in doing
  /\ LET n == bound[e]
     IN  \/ /\ started' = [started EXCEPT ![n] = @ + 1]
            /\ \/ history' = [history EXCEPT ![n] = IF @ = "absent" THEN "empty" ELSE @] /\ UNCHANGED surprises
               \/ Surprise /\ UNCHANGED history
            /\ pc' = "answer"
            /\ UNCHANGED inbox
         \/ Doubtful(e) /\ UNCHANGED <<history, started>>
  /\ UNCHANGED <<larkVars, bound, session, rows, doing, made>>

Answer(e) ==
  /\ pc = "answer"
  /\ e \in doing
  /\ \/ history[bound[e]] # "absent" /\ Put(e, "ACTIVE") /\ pc' = "settle" /\ UNCHANGED <<inbox, surprises>>
     \/ history[bound[e]] = "absent" /\ Refused(e) /\ UNCHANGED <<session, surprises>>
     \/ Doubtful(e) /\ UNCHANGED session
  /\ UNCHANGED <<larkVars, bound, rows, doing, history, made, started>>

\* Fault: an answer is enough, an empty one too.
ViewFault(e) ==
  /\ pc = "view"
  /\ e \in doing
  /\ \/ Put(e, "ACTIVE") /\ pc' = "settle" /\ UNCHANGED <<inbox, doing, surprises>>
     \/ Again(e) /\ UNCHANGED session
  /\ UNCHANGED <<larkVars, bound, rows, history, made, started>>

\* What an attach reads of the named session.
View(e) ==
  /\ pc = "view"
  /\ e \in doing
  /\ \/ /\ history[bound[e]] = "used"
        /\ Put(e, "ACTIVE")
        /\ pc' = "settle"
        /\ UNCHANGED <<inbox, doing, surprises>>
     \/ history[bound[e]] # "used" /\ Refused(e) /\ UNCHANGED <<session, doing, surprises>>
     \/ Again(e) /\ UNCHANGED session
  /\ UNCHANGED <<larkVars, bound, rows, history, made, started>>

\* The second transaction of each outcome.
Settle(e) ==
  /\ e \in doing
  /\ \/ pc \in {"proven", "settle"} /\ Mark(e, "DONE") /\ UNCHANGED session
     \/ pc = "doubt" /\ Put(e, "UNKNOWN") /\ UNCHANGED inbox
     \/ pc = "refused" /\ Put(e, "UNAVAILABLE") /\ UNCHANGED inbox
  /\ pc' = IF pc = "proven" THEN "unknowns" ELSE "rows"
  /\ doing' = {}
  /\ UNCHANGED <<larkVars, bound, rows, history, made, started, surprises>>

EndTick ==
  /\ pc = "rows"
  /\ rows = {}
  /\ pc' = "idle"
  /\ UNCHANGED <<larkVars, storeVars, rows, doing, history, made, started, surprises>>

-----------------------------------------------------------------------------
Crash ==
  /\ pc # "down"
  /\ Surprise
  /\ pc' = "down"
  /\ rows' = {}
  /\ doing' = {}
  /\ suspended' = [e \in Events |-> 0]
  /\ UNCHANGED <<sent, target, storeVars, history, made, started>>

\* Fault: what was under way is done again.
RestartFault ==
  /\ pc = "down"
  /\ pc' = "idle"
  /\ inbox' = [e \in Events |-> IF inbox[e] = "SUBMITTING" THEN "QUEUED" ELSE inbox[e]]
  /\ UNCHANGED <<larkVars, bound, session, rows, doing, history, made, started, surprises>>

\* Fault: what was under way is forgotten.
RestartForgetsFault ==
  /\ pc = "down"
  /\ pc' = "idle"
  /\ UNCHANGED <<larkVars, storeVars, rows, doing, history, made, started, surprises>>

\* recover_gateway: what was under way is in doubt, and so is its session.
Restart ==
  /\ pc = "down"
  /\ pc' = "idle"
  /\ inbox' = [e \in Events |-> IF inbox[e] = "SUBMITTING" THEN "UNKNOWN" ELSE inbox[e]]
  /\ session' = [n \in Natives |->
       IF session[n] \in {"CREATING", "ATTACHING"} /\ \E e \in Events : bound[e] = n /\ inbox'[e] = "UNKNOWN"
       THEN "UNKNOWN" ELSE session[n]]
  /\ UNCHANGED <<larkVars, bound, rows, doing, history, made, started, surprises>>

\* `unilark recover`, while the gateway is down: the operator gives the session up.
Acknowledge(e) ==
  /\ pc = "down"
  /\ inbox[e] = "UNKNOWN"
  /\ Mark(e, "DISMISSED")
  /\ Put(e, "UNAVAILABLE")
  /\ UNCHANGED <<larkVars, bound, workerVars, history, made, started, surprises>>

Inbound(e) == Send(e) \/ Receive(e) \/ Suspend(e) \/ GoOn(e)

Worker ==
  \/ BeginTick \/ BeginRequests \/ EndTick
  \/ \E e \in Events :
       \/ LookUp(e) \/ LookedUp(e) \/ Take(e) \/ Allowed(e) \/ Workspace(e)
       \/ Call(e) \/ Answer(e) \/ View(e) \/ Settle(e)

Next ==
  \/ Worker \/ Crash \/ Restart
  \/ \E e \in Events : Inbound(e) \/ Acknowledge(e)
  \/ \E n \in Natives : Use(n)

Spec == Init /\ [][Next]_vars

\* The worker goes on, its calls return, and the supervisor restarts the process.
Fairness == WF_vars(Worker) /\ WF_vars(Restart)

LiveSpec == Spec /\ Fairness

-----------------------------------------------------------------------------
\* docs/en/user-guide.md: "Duplicate form submission does not create a second session."
\* An event of the owner's chat makes one session, however often it is delivered.
OneSessionPerEvent ==
  \A e \in Creates \ FromGroup : Cardinality({n \in Natives : made[n] = e}) <= 1

\* An active session exists in the runtime, and one that was not made by the gateway
\* has a history: nothing is submitted to an id that somebody merely typed.
ActiveIsProven ==
  \A n \in Natives :
    session[n] = "ACTIVE" => history[n] # "absent" /\ (n \in Desktop => history[n] = "used")

\* StartCascade is called once for a session: neither a doubt, nor a crash, nor a
\* duplicate of the event repeats a creation.
StartedOnce == \A n \in Natives : started[n] <= 1

\* A creation is reported as refused only if the runtime has not made the session.
RefusedIsNotMade ==
  \A e \in Creates : inbox[e] = "REJECTED" => history[bound[e]] = "absent"

\* The abstract promise, for the creation that each event asks for: StartCascade is not
\* repeated, and the outcome of the event is that of the call.
Phase ==
  [e \in Creates |->
     CASE inbox[e] = "NONE" -> "absent"
       [] inbox[e] = "QUEUED" -> "waiting"
       [] inbox[e] = "SUBMITTING" -> "tried"
       [] inbox[e] = "DONE" -> "done"
       [] inbox[e] = "REJECTED" -> "refused"
       [] inbox[e] = "UNKNOWN" -> "doubt"
       [] OTHER -> "dismissed"]

Called == {e \in Creates : bound[e] # None /\ started[bound[e]] > 0}
Exists == {e \in Creates : bound[e] # None /\ history[bound[e]] # "absent"}

Promise == INSTANCE Effects WITH Things <- Creates, phase <- Phase, called <- Called, holds <- Exists

\* Every step of the handlers, the worker, recovery and the runtime is a step of the
\* abstract promise.
ImplementsEffects == Promise!EffectsSpec

\* Every request that was accepted gets an outcome, through failures and restarts.
EventuallyAnswered ==
  \A e \in Events :
    inbox[e] \in {"QUEUED", "SUBMITTING"} ~> inbox[e] \in {"DONE", "REJECTED", "UNKNOWN", "DISMISSED"}

\* A doubt is resolved by itself once the session has a history.
DoubtIsResolved ==
  \A e \in Events :
    inbox[e] = "UNKNOWN" /\ history[bound[e]] = "used" ~> inbox[e] # "UNKNOWN"

\* store/gateway.py, accept_session: "Binding, selection and intent survive or roll back
\* together."  A session that waits to be made has a request that will make it, for it
\* holds every submission of the gateway as long as it waits.
NoOrphan ==
  \A n \in Natives :
    session[n] \in {"CREATING", "ATTACHING"} /\ pc # "refused" =>
      \E e \in Events : bound[e] = n /\ inbox[e] \in {"QUEUED", "SUBMITTING", "UNKNOWN"}

=============================================================================
