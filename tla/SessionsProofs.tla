--------------------------- MODULE SessionsProofs ---------------------------
(***************************************************************************)
(* The safety of module Sessions: no creation is repeated or wrongly       *)
(* reported as refused, an active session is real, and an event of the     *)
(* owner's chat makes one session.  The inductive invariant says whose     *)
(* each session is, and how far the request has come that may start it.    *)
(***************************************************************************)
EXTENDS Sessions, FiniteSetTheorems, TLAPS

Requesting == {"rows", "allowed", "workspace", "call", "answer", "view", "settle", "doubt", "refused"}

\* The values of the variables the invariant speaks of.
Domains ==
  /\ target \in [Attaches -> Natives]
  /\ suspended \in [Events -> Nat]
  /\ inbox \in [Events -> Statuses]
  /\ bound \in [Events -> Natives \cup {None}]
  /\ session \in [Natives -> States]
  /\ rows \in SUBSET Events
  /\ doing \in SUBSET Events
  /\ history \in [Natives -> Histories]
  /\ made \in [Natives -> Events \cup {None}]
  /\ started \in [Natives -> Nat]

\* A creation is bound to a session of its own, whatever duplicates of it have made.
Owned ==
  /\ \A e \in Creates : IF inbox[e] = "NONE" THEN bound[e] = None ELSE bound[e] \in Natives \ Desktop
  /\ \A e \in Creates : bound[e] # None => made[bound[e]] = e /\ session[bound[e]] # "NONE"
  /\ \A n \in Natives : made[n] \in Creates \ FromGroup => bound[made[n]] = n
  /\ \A e \in Events : suspended[e] # 0 => e \in FromGroup

\* The worker handles one event; a creation it has yet to begin is still queued.
Handled ==
  /\ pc \in {"down", "idle", "unknowns", "rows"} => doing = {}
  /\ \A e, f \in doing : e = f
  /\ \A e \in Creates \cap (rows \cup doing) : inbox[e] # "NONE"
  /\ pc \in {"workspace", "call", "answer", "doubt"} =>
       \A e \in doing : e \in Creates /\ (pc # "doubt" => inbox[e] = "SUBMITTING")
  /\ pc = "view" => doing \cap Creates = {}
  /\ pc \in Requesting => \A e \in rows \cap Creates : inbox[e] = "QUEUED" /\ e \notin doing
  /\ pc = "allowed" => \A e \in doing \cap Creates : inbox[e] = "QUEUED"

\* A creation that is queued, or not yet sent, was never started.
Unstarted ==
  /\ \A n \in Natives : started[n] # 0 => \E e \in Creates : bound[e] = n
  /\ \A e \in Creates :
       inbox[e] = "QUEUED" \/ (e \in doing /\ pc \in {"workspace", "call"}) => started[bound[e]] = 0

\* The inductive invariant.
SessionsInv ==
  /\ Domains
  /\ Owned
  /\ Handled
  /\ Unstarted
  /\ StartedOnce
  /\ RefusedIsNotMade
  /\ ActiveIsProven

LEMMA SessionsInvInit == Init => SessionsInv
BY SessionsAssumption
DEF Init, SessionsInv, Domains, Owned, Handled, Unstarted, StartedOnce, RefusedIsNotMade, ActiveIsProven,
    Statuses, States, Histories, Events, Requesting

\* One copy of an event is accepted.
LEMMA AcceptKeeps ==
  ASSUME SessionsInv, NEW e \in Events, Accept(e), AtAwait,
         inbox[e] = "NONE" \/ e \in FromGroup,
         suspended' \in [Events -> Nat], \A f \in Events : suspended'[f] # 0 => f \in FromGroup,
         UNCHANGED <<target, workerVars, history, started>>
  PROVE  SessionsInv'
<1> USE SessionsAssumption DEF SessionsInv, Events
<1>1. CASE e \in Creates
  <2>1. PICK n \in Natives \ Desktop :
           /\ session[n] = "NONE"
           /\ session' = [session EXCEPT ![n] = "CREATING"]
           /\ made' = [made EXCEPT ![n] = e]
           /\ IF inbox[e] = "NONE"
              THEN inbox' = [inbox EXCEPT ![e] = "QUEUED"] /\ bound' = [bound EXCEPT ![e] = n]
              ELSE UNCHANGED <<inbox, bound>>
    BY <1>1 DEF Accept, AcceptCreate
  <2>2. Domains'
    BY <2>1 DEF Domains, Statuses, States, workerVars
  <2>3. started[n] = 0
    BY <2>1 DEF Domains, Owned, Unstarted
  <2>4. /\ \A f \in Events : inbox'[f] = IF f = e /\ inbox[e] = "NONE" THEN "QUEUED" ELSE inbox[f]
        /\ \A f \in Events : bound'[f] = IF f = e /\ inbox[e] = "NONE" THEN n ELSE bound[f]
        /\ \A m \in Natives : session'[m] = IF m = n THEN "CREATING" ELSE session[m]
        /\ \A m \in Natives : made'[m] = IF m = n THEN e ELSE made[m]
    BY <2>1 DEF Domains
  <2>5. \A f \in Creates : bound[f] # n
    BY <2>1 DEF Owned, Domains
  <2>6. Owned'
    BY <1>1, <2>1, <2>4, <2>5, <2>2 DEF Owned, Domains
  <2>7. Handled'
    BY <1>1, <2>4, <2>2 DEF Handled, Domains, Requesting, AtAwait, workerVars
  <2>8. Unstarted'
    BY <1>1, <2>1, <2>3, <2>4, <2>2 DEF Unstarted, Domains, workerVars, Handled, Owned
  <2>9. StartedOnce' /\ RefusedIsNotMade' /\ ActiveIsProven'
    BY <1>1, <2>1, <2>4, <2>2 DEF StartedOnce, RefusedIsNotMade, ActiveIsProven, Domains, Owned
  <2> QED BY <2>2, <2>6, <2>7, <2>8, <2>9
<1>2. CASE e \in Attaches
  <2> DEFINE n == target[e]
  <2>1. /\ inbox' \in [Events -> Statuses]
        /\ bound' \in [Events -> Natives \cup {None}]
        /\ session' \in [Natives -> States]
        /\ made' \in [Natives -> Events \cup {None}]
        /\ \A f \in Creates : inbox'[f] = inbox[f] /\ bound'[f] = bound[f]
        /\ \A m \in Natives : /\ session'[m] # session[m] => session[m] = "NONE" /\ session'[m] = "ATTACHING"
                              /\ made'[m] # made[m] => made[m] = None /\ made'[m] = e
    <3>1. CASE session[n] \in {"NONE", "ACTIVE"}
      <4>1. /\ session' = [session EXCEPT ![n] = IF @ = "NONE" THEN "ATTACHING" ELSE @]
            /\ made' = [made EXCEPT ![n] = IF @ = None THEN e ELSE @]
            /\ \/ /\ inbox' = [inbox EXCEPT ![e] = "QUEUED"]
                  /\ bound' = [bound EXCEPT ![e] = n]
               \/ UNCHANGED <<inbox, bound>>
        BY <1>2, <3>1 DEF Accept, AcceptAttach
      <4>2. n \in Natives
        BY <1>2 DEF Domains
      <4> HIDE DEF n
      <4> QED BY <1>2, <4>1, <4>2 DEF Domains, Statuses, States
    <3>2. CASE session[n] \notin {"NONE", "ACTIVE"}
      BY <1>2, <3>2 DEF Accept, AcceptAttach, Domains, Statuses, States
    <3> QED BY <3>1, <3>2
  <2>2. Domains'
    BY <2>1 DEF Domains, workerVars
  <2>3. Owned'
    BY <1>2, <2>1, <2>2 DEF Owned, Domains
  <2>4. Handled' /\ Unstarted'
    BY <1>2, <2>1, <2>2 DEF Handled, Unstarted, Domains, Requesting, workerVars
  <2>5. StartedOnce' /\ RefusedIsNotMade' /\ ActiveIsProven'
    BY <1>2, <2>1, <2>2 DEF StartedOnce, RefusedIsNotMade, ActiveIsProven, Domains, Owned
  <2> QED BY <2>2, <2>3, <2>4, <2>5
<1> QED BY <1>1, <1>2

\* A step that accepts nothing leaves the sessions with whom they were.
LEMMA OwnedKeeps ==
  ASSUME Owned, Domains,
         UNCHANGED <<bound, made>>,
         \A e \in Creates : inbox'[e] = "NONE" <=> inbox[e] = "NONE",
         \A n \in Natives : session[n] # "NONE" => session'[n] # "NONE",
         \A e \in Events : suspended'[e] # 0 => suspended[e] # 0 \/ e \in FromGroup
  PROVE  Owned'
BY DEF Owned, Domains, Events

\* The user and the inbound handler.
LEMMA InboundStep == ASSUME SessionsInv, NEW e \in Events, Inbound(e) PROVE SessionsInv'
<1> USE DEF SessionsInv
<1>1. CASE Send(e)
  BY <1>1, OwnedKeeps
  DEF Send, storeVars, workerVars, Domains, Owned, Handled, Unstarted, StartedOnce, RefusedIsNotMade, ActiveIsProven
<1>2. CASE Receive(e)
  BY <1>2, AcceptKeeps DEF Receive, larkVars, Domains, Owned
<1>3. CASE Suspend(e)
  <2>1. suspended' \in [Events -> Nat] /\ \A f \in Events : suspended'[f] # 0 => suspended[f] # 0 \/ f \in FromGroup
    BY <1>3 DEF Suspend, Domains
  <2> QED BY <1>3, <2>1, OwnedKeeps
    DEF Suspend, storeVars, workerVars, Domains, Handled, Unstarted, StartedOnce, RefusedIsNotMade, ActiveIsProven
<1>4. CASE GoOn(e)
  <2>1. /\ suspended' \in [Events -> Nat]
        /\ \A f \in Events : suspended'[f] # 0 => f \in FromGroup
        /\ e \in FromGroup
    BY <1>4 DEF GoOn, Domains, Owned
  <2>2. CASE Accept(e)
    BY <1>4, <2>1, <2>2, AcceptKeeps DEF GoOn
  <2>3. CASE UNCHANGED <<storeVars, made>>
    BY <1>4, <2>1, <2>3, OwnedKeeps
    DEF GoOn, storeVars, workerVars, Domains, Handled, Unstarted, StartedOnce, RefusedIsNotMade, ActiveIsProven
  <2> QED BY <1>4, <2>2, <2>3 DEF GoOn
<1> QED BY <1>1, <1>2, <1>3, <1>4 DEF Inbound

LEMMA UseStep == ASSUME SessionsInv, NEW n \in Natives, Use(n) PROVE SessionsInv'
<1>1. Owned'
  BY OwnedKeeps DEF SessionsInv, Use, larkVars, storeVars, Domains
<1> QED BY <1>1
  DEF Use, larkVars, storeVars, workerVars, SessionsInv, Domains, Handled, Unstarted, StartedOnce, RefusedIsNotMade,
      ActiveIsProven, Owned, Histories

\* The worker's loops, and what changes nothing but rows, doing and pc.
LEMMA LoopStep ==
  ASSUME SessionsInv,
         \/ BeginTick \/ BeginRequests \/ EndTick \/ Crash
         \/ \E e \in Events : LookUp(e)
  PROVE  SessionsInv'
<1> USE DEF SessionsInv
<1>1. /\ UNCHANGED <<target, storeVars, history, made, started>>
      /\ \A e \in Events : suspended'[e] # 0 => suspended[e] # 0
      /\ suspended' \in [Events -> Nat]
  BY DEF BeginTick, BeginRequests, EndTick, Crash, LookUp, larkVars, storeVars, Domains
<1>2. Domains' /\ Owned'
  <2>1. rows' \in SUBSET Events /\ doing' \in SUBSET Events
    BY DEF BeginTick, BeginRequests, EndTick, Crash, LookUp, Domains, InStatus
  <2>2. Domains'
    BY <1>1, <2>1 DEF Domains, storeVars
  <2> QED BY <1>1, <2>2, OwnedKeeps DEF storeVars
<1>3. Handled'
  BY <1>1 DEF BeginTick, BeginRequests, EndTick, Crash, LookUp, Handled, Domains, InStatus, Requesting, storeVars, Events
<1>4. Unstarted'
  BY <1>1 DEF BeginTick, BeginRequests, EndTick, Crash, LookUp, Unstarted, storeVars
<1> QED BY <1>1, <1>2, <1>3, <1>4 DEF StartedOnce, RefusedIsNotMade, ActiveIsProven, storeVars

\* What the worker does with the event it has taken, but for the call itself.
LEMMA RequestStep ==
  ASSUME SessionsInv, NEW e \in Events,
         LookedUp(e) \/ Take(e) \/ Allowed(e) \/ Workspace(e) \/ Answer(e) \/ View(e) \/ Settle(e)
  PROVE  SessionsInv'
<1> USE DEF SessionsInv
<1>1. /\ UNCHANGED <<target, suspended, bound, history, made, started>>
      /\ inbox' \in [Events -> Statuses]
      /\ \A f \in Events : f # e => inbox'[f] = inbox[f]
      /\ session' \in [Natives -> States]
      /\ \A n \in Natives : session'[n] # "NONE" \/ session'[n] = session[n]
  BY DEF LookedUp, Take, Allowed, Workspace, Answer, View, Settle, larkVars, storeVars, Domains, Execute, Again,
         Mark, Put, Doubtful, Refused, Statuses, States
<1>2. rows' \in SUBSET Events /\ doing' \in SUBSET Events
  BY DEF LookedUp, Take, Allowed, Workspace, Answer, View, Settle, Again, Domains
<1>3. e \in rows \cup doing
  BY DEF LookedUp, Take, Allowed, Workspace, Answer, View, Settle
<1>4. inbox'[e] = "NONE" => inbox[e] = "NONE"
  BY DEF LookedUp, Take, Allowed, Workspace, Answer, View, Settle, Domains, Execute, Again, Mark, Doubtful, Refused
<1>5. Domains'
  BY <1>1, <1>2 DEF Domains
<1>6. Owned'
  BY <1>1, <1>3, <1>4, OwnedKeeps DEF Handled, Domains, Events
<1>7. Handled'
  <2> USE SessionsAssumption DEF Handled, Domains, Events, Requesting
  <2>1. CASE Take(e)
    BY <1>1, <1>3, <1>4, <2>1 DEF Take, Execute, Mark, Statuses
  <2>2. CASE Allowed(e)
    BY <1>1, <1>3, <1>4, <2>2 DEF Allowed, Execute, Mark, Statuses
  <2>3. CASE Workspace(e) \/ View(e)
    BY <1>1, <1>3, <1>4, <2>3 DEF Workspace, View, Again, Mark, Refused
  <2>4. CASE LookedUp(e) \/ Answer(e)
    BY <1>1, <1>3, <1>4, <2>4 DEF LookedUp, Answer, Mark, Doubtful, Refused
  <2>5. CASE Settle(e)
    BY <1>1, <1>3, <1>4, <2>5 DEF Settle, Mark
  <2> QED BY <2>1, <2>2, <2>3, <2>4, <2>5
<1>8. Unstarted' /\ StartedOnce'
  BY <1>1
  DEF LookedUp, Take, Allowed, Workspace, Answer, View, Settle, Execute, Again, Mark, Doubtful, Refused,
      Handled, Unstarted, StartedOnce, Domains, Events, Requesting
<1>9. RefusedIsNotMade'
  BY <1>1
  DEF LookedUp, Take, Allowed, Workspace, Answer, View, Settle, Execute, Again, Mark, Doubtful, Refused,
      Handled, RefusedIsNotMade, Domains, Events
<1>10. ActiveIsProven'
  BY <1>1
  DEF LookedUp, Take, Allowed, Workspace, Answer, View, Settle, Put, Handled, ActiveIsProven, Domains, Owned, Events
<1> QED BY <1>5, <1>6, <1>7, <1>8, <1>9, <1>10

\* StartCascade is called for a session that was never started.
LEMMA CallStep == ASSUME SessionsInv, NEW e \in Events, Call(e) PROVE SessionsInv'
<1> USE DEF SessionsInv
<1> DEFINE n == bound[e]
<1>1. /\ e \in Creates /\ inbox[e] = "SUBMITTING" /\ n \in Natives \ Desktop /\ started[n] = 0
      /\ e \in doing /\ \A f \in doing : f = e
      /\ \A f \in Creates : bound[f] = n => f = e
  BY SessionsAssumption DEF Call, Handled, Owned, Unstarted
<1>2. /\ UNCHANGED <<target, suspended, bound, session, rows, doing, made>>
      /\ inbox' \in [Events -> Statuses]
      /\ \A f \in Events : f # e => inbox'[f] = inbox[f]
      /\ inbox'[e] \in {"SUBMITTING", "UNKNOWN"}
      /\ pc' \in {"answer", "doubt"}
      /\ pc' = "answer" => inbox'[e] = "SUBMITTING"
  BY <1>1 DEF Call, Doubtful, Mark, larkVars, Domains, Statuses
<1>3. /\ history' \in [Natives -> Histories]
      /\ \A m \in Natives : history'[m] = history[m] \/ (m = n /\ history'[m] = "empty" /\ history[m] = "absent")
      /\ started' \in [Natives -> Nat]
      /\ \A m \in Natives : m # n => started'[m] = started[m]
      /\ started'[n] <= 1
  <2> HIDE DEF n
  <2>1. \/ /\ started' = [started EXCEPT ![n] = @ + 1]
           /\ history' = history \/ history' = [history EXCEPT ![n] = IF @ = "absent" THEN "empty" ELSE @]
        \/ UNCHANGED <<history, started>>
    BY DEF Call, n
  <2> QED BY <1>1, <2>1 DEF Domains, Histories
<1> HIDE DEF n
<1>4. Domains'
  BY <1>2, <1>3 DEF Domains
<1>5. Owned'
  BY <1>1, <1>2, OwnedKeeps DEF Events
<1>6. Handled'
  BY <1>1, <1>2 DEF Handled, Requesting, Call, Events
<1>7. Unstarted'
  BY <1>1, <1>2, <1>3 DEF Unstarted, Events, n, Owned
<1>8. StartedOnce' /\ RefusedIsNotMade' /\ ActiveIsProven'
  BY <1>1, <1>2, <1>3 DEF StartedOnce, RefusedIsNotMade, ActiveIsProven, Events, Owned, Domains
<1> QED BY <1>4, <1>5, <1>6, <1>7, <1>8

\* Recovery and the operator.
LEMMA LifecycleStep ==
  ASSUME SessionsInv, Restart \/ \E e \in Events : Acknowledge(e) PROVE SessionsInv'
<1> USE DEF SessionsInv
<1>1. /\ UNCHANGED <<target, suspended, bound, rows, doing, history, made, started>>
      /\ inbox' \in [Events -> Statuses]
      /\ \A f \in Events : \/ inbox'[f] = inbox[f]
                           \/ inbox[f] \in {"SUBMITTING", "UNKNOWN"} /\ inbox'[f] \in {"UNKNOWN", "DISMISSED"}
      /\ session' \in [Natives -> States]
      /\ \A n \in Natives : session'[n] = session[n] \/ session'[n] \in {"UNKNOWN", "UNAVAILABLE"}
  BY DEF Restart, Acknowledge, larkVars, storeVars, workerVars, Mark, Put, Domains, Statuses, States
<1>2. Domains' /\ Owned'
  BY <1>1, OwnedKeeps DEF Domains, Events
<1>3. Handled'
  BY <1>1 DEF Restart, Acknowledge, workerVars, Handled, Requesting, Events, Domains
<1>4. Unstarted' /\ StartedOnce' /\ RefusedIsNotMade' /\ ActiveIsProven'
  BY <1>1 DEF Restart, Acknowledge, workerVars, Unstarted, StartedOnce, RefusedIsNotMade, ActiveIsProven, Events,
              Handled, Domains
<1> QED BY <1>2, <1>3, <1>4

LEMMA SessionsInvStep == SessionsInv /\ [Next]_vars => SessionsInv'
<1> SUFFICES ASSUME SessionsInv, [Next]_vars PROVE SessionsInv'
  OBVIOUS
<1>1. CASE UNCHANGED vars
  BY <1>1 DEF vars, larkVars, storeVars, workerVars, SessionsInv, Domains, Owned, Handled, Unstarted, StartedOnce,
              RefusedIsNotMade, ActiveIsProven
<1>2. CASE Worker
  BY <1>2, LoopStep, RequestStep, CallStep DEF Worker
<1>3. CASE Crash \/ Restart
  BY <1>3, LoopStep, LifecycleStep
<1>4. ASSUME NEW e \in Events, Inbound(e) \/ Acknowledge(e) PROVE SessionsInv'
  BY <1>4, InboundStep, LifecycleStep
<1>5. ASSUME NEW n \in Natives, Use(n) PROVE SessionsInv'
  BY <1>5, UseStep
<1> QED BY <1>1, <1>2, <1>3, <1>4, <1>5 DEF Next

\* The inductive invariant holds in every reachable state.
THEOREM SessionsCorrect == Spec => []SessionsInv
BY SessionsInvInit, SessionsInvStep, PTL DEF Spec

\* No doubt, crash or duplicate makes the worker call StartCascade twice for a session.
THEOREM NoCreationRepeated == Spec => []StartedOnce
<1>1. SessionsInv => StartedOnce
  BY DEF SessionsInv
<1> QED BY <1>1, SessionsCorrect, PTL

\* What is reported as refused was not made.
THEOREM RefusalsAreTrue == Spec => []RefusedIsNotMade
<1>1. SessionsInv => RefusedIsNotMade
  BY DEF SessionsInv
<1> QED BY <1>1, SessionsCorrect, PTL

\* What is active exists, and one that was attached has a history.
THEOREM ActiveIsReal == Spec => []ActiveIsProven
<1>1. SessionsInv => ActiveIsProven
  BY DEF SessionsInv
<1> QED BY <1>1, SessionsCorrect, PTL

\* An event of the owner's chat makes at most one session.
THEOREM OneSession == Spec => []OneSessionPerEvent
<1>1. ASSUME SessionsInv PROVE OneSessionPerEvent
  <2> SUFFICES ASSUME NEW e \in Creates \ FromGroup
               PROVE  Cardinality({n \in Natives : made[n] = e}) <= 1
    BY DEF OneSessionPerEvent
  <2>1. {n \in Natives : made[n] = e} \subseteq {bound[e]}
    BY <1>1 DEF SessionsInv, Owned
  <2>2. IsFiniteSet({bound[e]}) /\ Cardinality({bound[e]}) = 1
    BY FS_Singleton
  <2>3. Cardinality({n \in Natives : made[n] = e}) <= Cardinality({bound[e]})
    BY <2>1, <2>2, FS_Subset
  <2> QED BY <2>2, <2>3
<1> QED BY <1>1, SessionsCorrect, PTL

-----------------------------------------------------------------------------
(* A creation is an effect of module Effects. *)

\* How far the worker is with a creation, and that only its call makes a session.
Progress ==
  /\ pc = "settle" => \A e \in doing \cap Creates : inbox[e] = "SUBMITTING" /\ history[bound[e]] # "absent"
  /\ pc \in {"look", "proven"} => \A e \in doing \cap Creates : inbox[e] = "UNKNOWN"
  /\ pc = "proven" => \A e \in doing \cap Creates : history[bound[e]] # "absent"
  /\ pc \in {"unknowns", "look", "proven"} => \A e \in rows \cap Creates : inbox[e] = "UNKNOWN" /\ e \notin doing
  /\ \A n \in Natives \ Desktop : history[n] # "absent" => started[n] # 0

LEMMA ProgressStep == SessionsInv /\ Progress /\ [Next]_vars => Progress'
<1> SUFFICES ASSUME SessionsInv, Progress, [Next]_vars PROVE Progress'
  OBVIOUS
<1> USE SessionsAssumption DEF SessionsInv, Progress, Domains
<1>1. CASE UNCHANGED vars
  BY <1>1 DEF vars, storeVars, workerVars
<1>2. ASSUME NEW e \in Events, Receive(e) \/ GoOn(e) PROVE Progress'
  <2>1. UNCHANGED <<pc, rows, doing, history, started>> /\ AtAwait
    BY <1>2 DEF Receive, GoOn, workerVars
  <2>2. \A f \in Creates : inbox[f] # "NONE" => inbox'[f] = inbox[f] /\ bound'[f] = bound[f]
    BY <1>2 DEF Receive, GoOn, Accept, AcceptCreate, AcceptAttach, storeVars, Events
  <2> QED BY <2>1, <2>2 DEF Events
<1>3. ASSUME NEW e \in Events, Send(e) \/ Suspend(e) PROVE Progress'
  BY <1>3 DEF Send, Suspend, storeVars, workerVars
<1>4. ASSUME NEW n \in Natives, Use(n) PROVE Progress'
  <2>1. UNCHANGED <<inbox, bound, pc, rows, doing, started>>
        /\ \A m \in Natives : history'[m] = "absent" <=> history[m] = "absent"
    BY <1>4 DEF Use, storeVars, workerVars
  <2>2. \A f \in Creates : inbox[f] # "NONE" => bound[f] \in Natives
    BY DEF Owned
  <2> QED BY <2>1, <2>2 DEF Events
<1>5. CASE BeginTick \/ BeginRequests \/ EndTick \/ Crash \/ Restart
  BY <1>5 DEF BeginTick, BeginRequests, EndTick, Crash, Restart, storeVars, workerVars, InStatus, Handled
<1>6. ASSUME NEW e \in Events, LookUp(e) \/ LookedUp(e) PROVE Progress'
  BY <1>6 DEF LookUp, LookedUp, storeVars, workerVars, Put, Handled, Events
<1>7. ASSUME NEW e \in Events, Take(e) \/ Allowed(e) \/ Workspace(e) \/ View(e) PROVE Progress'
  <2>1. pc' \in {"rows", "allowed", "workspace", "call", "view", "settle", "refused"} /\ UNCHANGED <<history, started>>
    BY <1>7 DEF Take, Allowed, Workspace, View, Execute, Again, Refused
  <2>2. pc' = "settle" => UNCHANGED doing /\ pc = "view"
    BY <1>7 DEF Take, Allowed, Workspace, View, Execute, Again, Refused
  <2> QED BY <2>1, <2>2 DEF Handled
<1>8. ASSUME NEW e \in Events, Call(e) PROVE Progress'
  <2>1. pc' \in {"answer", "doubt"} /\ bound[e] \in Natives
    BY <1>8 DEF Call, Doubtful, Handled, Owned
  <2>2. \A n \in Natives \ Desktop : history'[n] # "absent" => started'[n] # 0
    BY <1>8, <2>1 DEF Call
  <2> QED BY <2>1, <2>2
<1>9. ASSUME NEW e \in Events, Answer(e) PROVE Progress'
  <2>1. UNCHANGED <<bound, history, started, doing>> /\ pc' \in {"settle", "refused", "doubt"} /\ pc = "answer" /\ e \in doing
    BY <1>9 DEF Answer, Refused, Doubtful
  <2>2. pc' = "settle" => UNCHANGED inbox /\ history[bound[e]] # "absent"
    BY <1>9 DEF Answer, Refused, Doubtful
  <2> QED BY <2>1, <2>2 DEF Handled
<1>10. ASSUME NEW e \in Events, Settle(e) PROVE Progress'
  BY <1>10 DEF Settle, Mark, Put, Handled, Events
<1>11. ASSUME NEW e \in Events, Acknowledge(e) PROVE Progress'
  BY <1>11 DEF Acknowledge, workerVars
<1> QED BY <1>1, <1>2, <1>3, <1>4, <1>5, <1>6, <1>7, <1>8, <1>9, <1>10, <1>11 DEF Next, Worker, Inbound

LEMMA PhaseStays ==
  ASSUME NEW e \in Creates, inbox'[e] = inbox[e]
  PROVE  Phase'[e] = Phase[e]
BY DEF Phase

LEMMA Others ==
  ASSUME Domains, NEW e \in Creates, NEW s, Mark(e, s)
  PROVE  Phase' = [f \in Creates |-> IF f \in {e} THEN Phase'[e] ELSE Phase[f]]
<1>1. Phase' = [f \in Creates |-> Phase'[f]]
  BY DEF Phase
<1>2. \A f \in Creates : f # e => Phase'[f] = Phase[f]
  BY PhaseStays DEF Mark, Domains, Events
<1> QED BY <1>1, <1>2

\* Nothing that the abstract promise sees has changed.
LEMMA Stutters ==
  ASSUME \A e \in Creates : Phase'[e] = Phase[e], UNCHANGED <<Called, Exists>>
  PROVE  UNCHANGED Promise!effectVars
<1>1. Phase = [e \in Creates |-> Phase[e]] /\ Phase' = [e \in Creates |-> Phase'[e]]
  BY DEF Phase
<1>2. Phase' = Phase
  BY <1>1, Zenon
<1> QED BY <1>2 DEF Promise!effectVars

\* The sessions' side is left alone.
LEMMA OtherSide ==
  ASSUME UNCHANGED <<bound, history, started>>
  PROVE  UNCHANGED <<Called, Exists>>
BY DEF Called, Exists

\* The steps that leave every creation and the runtime alone.
LEMMA QuietEffects ==
  ASSUME SessionsInv, Progress,
         \/ UNCHANGED vars \/ BeginTick \/ BeginRequests \/ EndTick \/ Crash
         \/ \E e \in Events : Send(e) \/ Suspend(e) \/ LookUp(e) \/ LookedUp(e) \/ View(e)
         \/ \E n \in Natives : Use(n)
  PROVE  UNCHANGED Promise!effectVars
<1> USE SessionsAssumption DEF SessionsInv, Events
<1>1. CASE \E n \in Natives : Use(n)
  <2>1. PICK n \in Natives : Use(n)
    BY <1>1
  <2>2. UNCHANGED <<inbox, bound, started>> /\ \A m \in Natives : history'[m] = "absent" <=> history[m] = "absent"
    BY <2>1 DEF Use, storeVars, Domains
  <2>3. \A e \in Creates : bound[e] # None => bound[e] \in Natives
    BY DEF Domains
  <2>4. UNCHANGED <<Called, Exists>>
    BY <2>2, <2>3 DEF Called, Exists
  <2> QED BY <2>2, <2>4, PhaseStays, Stutters
<1>2. CASE ~\E n \in Natives : Use(n)
  <2>1. UNCHANGED <<bound, history, started>> /\ \A e \in Creates : inbox'[e] = inbox[e]
    BY <1>2 DEF BeginTick, BeginRequests, EndTick, Crash, Send, Suspend, LookUp, LookedUp, View, Mark, Again, Refused,
                Handled, Domains, vars, storeVars
  <2> QED BY <2>1, PhaseStays, OtherSide, Stutters
<1> QED BY <1>1, <1>2

\* An event is accepted: its session is new to the runtime.
LEMMA AcceptEffects ==
  ASSUME SessionsInv, Progress, NEW e \in Events, Receive(e) \/ GoOn(e)
  PROVE  [Promise!EffectsNext]_Promise!effectVars
<1> USE SessionsAssumption DEF SessionsInv
<1>1. UNCHANGED <<history, started>>
  BY DEF Receive, GoOn
<1>2. CASE UNCHANGED <<inbox, bound>> \/ e \in Attaches
  <2>1. \A f \in Creates : inbox'[f] = inbox[f] /\ bound'[f] = bound[f]
    BY <1>2 DEF Receive, GoOn, Accept, AcceptAttach, storeVars, Domains, Events
  <2>2. UNCHANGED <<Called, Exists>>
    BY <1>1, <2>1 DEF Called, Exists
  <2> QED BY <2>1, <2>2, PhaseStays, Stutters
<1>3. CASE e \in Creates /\ ~UNCHANGED <<inbox, bound>>
  <2>1. PICK n \in Natives \ Desktop :
          /\ session[n] = "NONE" /\ inbox[e] = "NONE"
          /\ Mark(e, "QUEUED") /\ bound' = [bound EXCEPT ![e] = n]
    BY <1>3 DEF Receive, GoOn, Accept, AcceptCreate, Mark, storeVars
  <2>2. started[n] = 0 /\ history[n] = "absent" /\ bound[e] = None
    BY <1>3, <2>1 DEF Owned, Unstarted, Progress, Domains
  <2>3. UNCHANGED <<Called, Exists>>
    BY <1>1, <1>3, <2>1, <2>2 DEF Called, Exists, Domains, Mark
  <2>4. Phase[e] = "absent" /\ Phase'[e] = "waiting"
    BY <1>3, <2>1 DEF Phase, Domains, Mark
  <2>5. Promise!Moves({e}, {"absent"}, "waiting")
    BY <1>3, <2>1, <2>4, Others DEF Promise!Moves
  <2>6. Promise!Ask({e})
    BY <2>3, <2>5 DEF Promise!Ask
  <2> QED BY <1>3, <2>6 DEF Promise!EffectsNext
<1> QED BY <1>2, <1>3 DEF Events

\* A creation is written down before its call, or queued again while nothing was called.
LEMMA StartEffects ==
  ASSUME SessionsInv, Progress, NEW e \in Events, Take(e) \/ Allowed(e) \/ Workspace(e)
  PROVE  [Promise!EffectsNext]_Promise!effectVars
<1> USE SessionsAssumption DEF SessionsInv
<1>1. UNCHANGED <<bound, history, started>> /\ UNCHANGED <<Called, Exists>>
  BY OtherSide DEF Take, Allowed, Workspace
<1>2. CASE inbox' = inbox \/ e \in Attaches
  <2>1. \A f \in Creates : inbox'[f] = inbox[f]
    BY <1>2 DEF Take, Allowed, Workspace, Execute, Mark, Again, Domains, Events
  <2> QED BY <1>1, <2>1, PhaseStays, Stutters
<1>3. CASE e \in Creates /\ Workspace(e) /\ Again(e)
  <2>1. /\ inbox[e] = "SUBMITTING" /\ started[bound[e]] = 0
        /\ Mark(e, "QUEUED")
    BY <1>3 DEF Workspace, Again, Mark, Handled, Unstarted
  <2>2. Phase[e] = "tried" /\ Phase'[e] = "waiting" /\ e \notin Called
    BY <1>3, <2>1 DEF Phase, Called, Domains, Mark
  <2>3. Promise!Moves({e}, {"tried"}, "waiting")
    BY <1>3, <2>1, <2>2, Others DEF Promise!Moves
  <2>4. Promise!Return(e)
    BY <1>1, <2>2, <2>3 DEF Promise!Return
  <2> QED BY <1>3, <2>4 DEF Promise!EffectsNext
<1>4. CASE e \in Creates /\ Execute(e) /\ ~Workspace(e)
  <2>1. inbox[e] = "QUEUED"
    BY <1>4 DEF Take, Allowed, Handled, Requesting
  <2>2. Mark(e, "SUBMITTING")
    BY <1>4 DEF Execute, Mark
  <2>3. Phase[e] = "waiting" /\ Phase'[e] = "tried"
    BY <1>4, <2>1, <2>2 DEF Phase, Domains, Mark
  <2>4. Promise!Moves({e}, {"waiting"}, "tried")
    BY <1>4, <2>2, <2>3, Others DEF Promise!Moves
  <2>5. Promise!Try(e)
    BY <1>1, <2>4 DEF Promise!Try
  <2> QED BY <1>4, <2>5 DEF Promise!EffectsNext
<1> QED BY <1>2, <1>3, <1>4 DEF Take, Allowed, Workspace, Events

\* A creation ends in doubt, ...
LEMMA DoubtfulEffects ==
  ASSUME SessionsInv, NEW e \in Creates, inbox[e] = "SUBMITTING", Mark(e, "UNKNOWN"),
         UNCHANGED <<bound, history, started>>
  PROVE  Promise!EffectsNext
<1>1. Phase[e] = "tried" /\ Phase'[e] = "doubt"
  BY DEF Phase, Mark, SessionsInv, Domains, Events
<1>2. Promise!Moves({e}, {"tried"}, "doubt")
  BY <1>1, Others DEF SessionsInv, Promise!Moves
<1>3. Promise!Doubt({e})
  BY <1>2, OtherSide DEF Promise!Doubt
<1> QED BY <1>3 DEF Promise!EffectsNext

\* ... is called, ...
LEMMA CallEffects ==
  ASSUME SessionsInv, Progress, NEW e \in Events, Call(e)
  PROVE  [Promise!EffectsNext]_Promise!effectVars
<1> USE SessionsAssumption DEF SessionsInv
<1>1. e \in Creates /\ inbox[e] = "SUBMITTING" /\ started[bound[e]] = 0 /\ bound[e] \in Natives /\ bound[e] # None
  BY DEF Call, Handled, Unstarted, Owned
<1>2. CASE Doubtful(e)
  BY <1>1, <1>2, DoubtfulEffects DEF Call, Doubtful
<1>3. CASE UNCHANGED <<inbox, bound>> /\ started' = [started EXCEPT ![bound[e]] = @ + 1]
           /\ history' \in {history, [history EXCEPT ![bound[e]] = IF @ = "absent" THEN "empty" ELSE @]}
  <2>1. \A f \in Creates : bound[f] = bound[e] => f = e
    BY <1>1 DEF Owned
  <2>2. e \notin Called /\ Called' = Called \cup {e}
    BY <1>1, <1>3, <2>1 DEF Called, Domains, Events
  <2>3. Exists' \in {Exists, Exists \cup {e}}
    <3>1. CASE history' = history
      BY <1>3, <3>1 DEF Exists
    <3>2. CASE history' = [history EXCEPT ![bound[e]] = IF @ = "absent" THEN "empty" ELSE @]
      <4>1. \A m \in Natives : m # bound[e] => history'[m] = history[m]
        BY <3>2 DEF Domains
      <4>2. history'[bound[e]] # "absent"
        BY <1>1, <3>2 DEF Domains
      <4>3. \A f \in Creates : f # e => (f \in Exists' <=> f \in Exists)
        BY <1>3, <2>1, <4>1 DEF Exists, Domains, Events
      <4>4. e \in Exists'
        BY <1>1, <1>3, <4>2 DEF Exists
      <4>5. Exists' \subseteq Creates /\ Exists \subseteq Creates
        BY DEF Exists
      <4>6. Exists' = Exists \cup {e}
        BY <4>3, <4>4, <4>5
      <4> QED BY <4>6
    <3> QED BY <1>3, <3>1, <3>2
  <2>4. Phase[e] = "tried" /\ UNCHANGED Phase
    BY <1>1, <1>3 DEF Phase
  <2>5. Promise!Call(e)
    BY <2>2, <2>3, <2>4 DEF Promise!Call
  <2> QED BY <1>1, <2>5 DEF Promise!EffectsNext
<1> QED BY <1>2, <1>3 DEF Call

\* ... and answered.
LEMMA AnswerEffects ==
  ASSUME SessionsInv, Progress, NEW e \in Events, Answer(e)
  PROVE  [Promise!EffectsNext]_Promise!effectVars
<1> USE SessionsAssumption DEF SessionsInv
<1>1. e \in Creates /\ inbox[e] = "SUBMITTING" /\ UNCHANGED <<bound, history, started>>
  BY DEF Answer, Handled
<1>2. CASE UNCHANGED inbox
  BY <1>1, <1>2, PhaseStays, OtherSide, Stutters
<1>3. CASE Doubtful(e)
  BY <1>1, <1>3, DoubtfulEffects DEF Doubtful
<1>4. CASE history[bound[e]] = "absent" /\ Refused(e)
  <2>1. Mark(e, "REJECTED")
    BY <1>4 DEF Refused, Mark
  <2>2. Phase[e] = "tried" /\ Phase'[e] = "refused" /\ e \notin Exists
    BY <1>1, <1>4, <2>1 DEF Phase, Exists, Domains, Mark, Events
  <2>3. Promise!Moves({e}, {"tried"}, "refused")
    BY <1>1, <2>1, <2>2, Others DEF Promise!Moves
  <2>4. Promise!Refuse(e)
    BY <1>1, <2>2, <2>3, OtherSide DEF Promise!Refuse
  <2> QED BY <1>1, <2>4 DEF Promise!EffectsNext
<1> QED BY <1>2, <1>3, <1>4 DEF Answer

\* The outcome is stored; the operator gives up what is in doubt.
LEMMA SettleEffects ==
  ASSUME SessionsInv, Progress, NEW e \in Events, Settle(e) \/ Acknowledge(e)
  PROVE  [Promise!EffectsNext]_Promise!effectVars
<1> USE SessionsAssumption DEF SessionsInv
<1>1. UNCHANGED <<bound, history, started>> /\ UNCHANGED <<Called, Exists>>
  BY OtherSide DEF Settle, Acknowledge
<1>2. CASE inbox' = inbox \/ e \in Attaches
  <2>1. \A f \in Creates : inbox'[f] = inbox[f]
    BY <1>2 DEF Settle, Acknowledge, Mark, Domains, Events
  <2> QED BY <1>1, <2>1, PhaseStays, Stutters
<1>3. CASE e \in Creates /\ Settle(e) /\ Mark(e, "DONE") /\ inbox' # inbox
  <2>1. inbox[e] \in {"SUBMITTING", "UNKNOWN"} /\ history[bound[e]] # "absent" /\ bound[e] # None
    BY <1>3 DEF Settle, Progress, Owned
  <2>2. Mark(e, "DONE")
    BY <1>3 DEF Mark
  <2>3. Phase[e] \in {"tried", "doubt"} /\ Phase'[e] = "done" /\ e \in Exists
    BY <1>3, <2>1, <2>2 DEF Phase, Exists, Domains, Mark
  <2>4. Promise!Moves({e}, {"tried", "doubt"}, "done")
    BY <1>3, <2>3, Others DEF Promise!Moves
  <2>5. Promise!Confirm(e)
    BY <1>1, <2>3, <2>4 DEF Promise!Confirm
  <2> QED BY <1>3, <2>5 DEF Promise!EffectsNext
<1>4. CASE e \in Creates /\ Acknowledge(e)
  <2>1. inbox[e] = "UNKNOWN" /\ Mark(e, "DISMISSED")
    BY <1>4 DEF Acknowledge, Mark
  <2>2. Phase[e] = "doubt" /\ Phase'[e] = "dismissed"
    BY <1>4, <2>1 DEF Phase, Domains, Mark
  <2>3. Promise!Moves({e}, {"doubt"}, "dismissed")
    BY <1>4, <2>1, <2>2, Others DEF Promise!Moves
  <2>4. Promise!Dismiss(e)
    BY <1>1, <2>3 DEF Promise!Dismiss
  <2> QED BY <1>4, <2>4 DEF Promise!EffectsNext
<1> QED BY <1>2, <1>3, <1>4 DEF Settle, Events

\* What was under way when the process ended is in doubt.
LEMMA RestartEffects ==
  ASSUME SessionsInv, Progress, Restart
  PROVE  [Promise!EffectsNext]_Promise!effectVars
<1> USE SessionsAssumption DEF SessionsInv
<1> DEFINE S == {e \in Creates : inbox[e] = "SUBMITTING"}
<1>1. /\ UNCHANGED <<Called, Exists>>
      /\ \A e \in Creates : inbox'[e] = IF inbox[e] = "SUBMITTING" THEN "UNKNOWN" ELSE inbox[e]
  BY OtherSide DEF Restart, Events
<1>2. \A e \in S : Phase[e] = "tried" /\ Phase'[e] = "doubt"
  BY <1>1 DEF Phase
<1>3. \A e \in Creates \ S : Phase'[e] = Phase[e]
  BY <1>1, PhaseStays
<1>4. Phase' = [e \in Creates |-> Phase'[e]] /\ S \in SUBSET Creates
  BY DEF Phase
<1> HIDE DEF S
<1>5. Promise!Moves(S, {"tried"}, "doubt")
  BY <1>2, <1>3, <1>4 DEF Promise!Moves
<1>6. Promise!Doubt(S)
  BY <1>1, <1>5 DEF Promise!Doubt
<1> QED BY <1>4, <1>6 DEF Promise!EffectsNext

LEMMA EffectsStep == SessionsInv /\ Progress /\ [Next]_vars => [Promise!EffectsNext]_Promise!effectVars
<1> SUFFICES ASSUME SessionsInv, Progress, [Next]_vars PROVE [Promise!EffectsNext]_Promise!effectVars
  OBVIOUS
<1> QED BY QuietEffects, AcceptEffects, StartEffects, CallEffects, AnswerEffects, SettleEffects, RestartEffects
        DEF Next, Worker, Inbound

\* For every event that asks for a session: the creation is written down, called, answered,
\* queued again and given up as the abstract promise has it.
THEOREM SessionsImplementsEffects == Spec => ImplementsEffects
<1>1. Init => Promise!EffectsInit /\ Progress
  BY SessionsAssumption DEF Init, Progress, Promise!EffectsInit, Phase, Called, Exists, Events
<1>2. Spec => []Progress
  BY <1>1, ProgressStep, SessionsCorrect, PTL DEF Spec
<1> QED BY <1>1, <1>2, EffectsStep, SessionsCorrect, PTL DEF Spec, ImplementsEffects, Promise!EffectsSpec

\* What is said of a creation is true, and no call is forgotten.
THEOREM SessionsReportsAreTrue == Spec => []Promise!ReportsAreTrue
<1>1. Promise!EffectsInit => Promise!ReportsAreTrue
  BY DEF Promise!EffectsInit, Promise!ReportsAreTrue
<1>2. Promise!ReportsAreTrue /\ [Promise!EffectsNext]_Promise!effectVars => Promise!ReportsAreTrue'
  BY DEF Promise!ReportsAreTrue, Promise!EffectsNext, Promise!effectVars, Promise!Moves, Promise!Ask, Promise!Try,
         Promise!Call, Promise!Happen, Promise!Return, Promise!Refuse, Promise!Confirm, Promise!Doubt, Promise!Dismiss
<1> QED BY <1>1, <1>2, SessionsImplementsEffects, PTL DEF ImplementsEffects, Promise!EffectsSpec

=============================================================================
