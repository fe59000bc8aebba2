----------------------------- MODULE HubProofs -----------------------------
(***************************************************************************)
(* The safety of the submission path, in three parts.  First the ledger,   *)
(* for any order in which its transactions are called.  Then the worker:   *)
(* its inductive invariant HubInv, that every step keeps it, and that the  *)
(* worker touches the tables of the ledger by their transactions only, so  *)
(* that what the first part proves of them holds of the worker too.  Last, *)
(* that the worker implements the abstract promise of module Submission:   *)
(* claiming a request and handing it back unsent are invisible there, and  *)
(* the request is handed over by the step that transmits it.               *)
(***************************************************************************)
EXTENDS Hub, TLAPS

-----------------------------------------------------------------------------
(* The ledger. *)

\* Ordinals are given in increasing order, one per row of the table.
Numbered == \A r \in Requests : ordinal[r] <= rows /\ (opState[r] = "NONE" <=> ordinal[r] = 0)

\* A request is unsettled only if it was attempted, and no attempted request waits.
AttemptsSettle ==
  \A r \in Requests :
    /\ opState[r] \in Unsettled => r \in attempted
    /\ r \in attempted => opState[r] \notin {"NONE", "QUEUED"}

\* The inductive invariant: InOrder alone is not inductive, because a request that
\* is put back in the queue could overtake one that was attempted meanwhile.
LedgerInv ==
  /\ TypeOK
  /\ Numbered
  /\ AttemptsSettle
  /\ InOrder
  /\ OneSubmissionPerSession

\* The empty tables of a new ledger satisfy the invariant.
LEMMA InitInv == LedgerInit => LedgerInv
  BY LedgerAssumption
  DEF LedgerInit, LedgerInv, TypeOK, OpStates, Numbered, AttemptsSettle, Unsettled,
      InOrder, Earlier, Of, OneSubmissionPerSession

\* Every transaction keeps every column in its domain.
LEMMA TypeStep == TypeOK /\ [LedgerNext]_ledgerVars => TypeOK'
<1> SUFFICES ASSUME TypeOK, [LedgerNext]_ledgerVars PROVE TypeOK'
  OBVIOUS
<1> USE LedgerAssumption DEF TypeOK, OpStates
<1>1. ASSUME NEW r \in Requests, Accept(r) PROVE TypeOK'
  BY <1>1 DEF Accept
<1>2. ASSUME NEW r \in Requests, Claim(r) PROVE TypeOK'
  BY <1>2 DEF Claim
<1>3. ASSUME NEW r \in Requests, NEW result \in {"ACCEPTED", "UNKNOWN", "REJECTED"},
             Finish(r, result)
      PROVE TypeOK'
  BY <1>3 DEF Finish
<1>4. ASSUME NEW r \in Requests, RequeueUnsent(r) PROVE TypeOK'
  BY <1>4 DEF RequeueUnsent
<1>5. ASSUME NEW r \in Requests, CancelQueued(r) PROVE TypeOK'
  BY <1>5 DEF CancelQueued
<1>6. ASSUME NEW r \in Requests, AcknowledgeUnknown(r) PROVE TypeOK'
  BY <1>6 DEF AcknowledgeUnknown
<1>7. ASSUME NEW b \in Bindings, Pause(b) \/ Resume(b) PROVE TypeOK'
  BY <1>7 DEF Pause, Resume
<1>8. ASSUME NEW b \in Bindings, NEW R \in SUBSET Requests, AmbiguousOperations(R, b)
      PROVE TypeOK'
  BY <1>8 DEF AmbiguousOperations
<1>9. ASSUME NEW B \in SUBSET Bindings, Recover(B) PROVE TypeOK'
  BY <1>9 DEF Recover
<1>10. CASE UNCHANGED ledgerVars
  BY <1>10 DEF ledgerVars
<1> QED
  BY <1>1, <1>2, <1>3, <1>4, <1>5, <1>6, <1>7, <1>8, <1>9, <1>10 DEF LedgerNext

\* What a transaction may do to one request: the cases that the numbering and
\* the order of submission depend on.
Move(r) ==
  /\ \/ ordinal'[r] = ordinal[r] /\ (opState'[r] = "NONE" <=> opState[r] = "NONE")
     \/ opState[r] = "NONE" /\ opState'[r] = "QUEUED" /\ ordinal'[r] = rows + 1 /\ rows' = rows + 1
  /\ opState'[r] = "QUEUED" =>
       \/ opState[r] = "QUEUED"
       \/ opState[r] \in {"NONE", "SUBMITTING"} /\ r \notin attempted'
  /\ opState'[r] = "SUBMITTING" => opState[r] = "SUBMITTING" \/ Claim(r)
  /\ opState'[r] = "UNKNOWN" => opState[r] \in Unsettled \/ r \in attempted
  /\ r \in attempted' => r \in attempted \/ Claim(r)
  /\ r \in attempted /\ r \notin attempted' => opState'[r] = "QUEUED"

\* Every transaction treats each request in one of those ways.
LEMMA MoveStep ==
  ASSUME TypeOK, AttemptsSettle, [LedgerNext]_ledgerVars
  PROVE  rows' \in {rows, rows + 1} /\ \A r \in Requests : Move(r)
<1> USE LedgerAssumption DEF TypeOK, OpStates, AttemptsSettle, Unsettled, Move
<1> DEFINE Goal == rows' \in {rows, rows + 1} /\ \A q \in Requests : Move(q)
<1>1. ASSUME NEW r \in Requests, Accept(r) PROVE Goal
  BY <1>1 DEF Accept
<1>2. ASSUME NEW r \in Requests, Claim(r) PROVE Goal
  BY <1>2 DEF Claim, Claimable
<1>3. ASSUME NEW r \in Requests, NEW result \in {"ACCEPTED", "UNKNOWN", "REJECTED"},
             Finish(r, result)
      PROVE Goal
  BY <1>3 DEF Finish
<1>4. ASSUME NEW r \in Requests, RequeueUnsent(r) PROVE Goal
  BY <1>4 DEF RequeueUnsent
<1>5. ASSUME NEW r \in Requests, CancelQueued(r) PROVE Goal
  BY <1>5 DEF CancelQueued
<1>6. ASSUME NEW r \in Requests, AcknowledgeUnknown(r) PROVE Goal
  BY <1>6 DEF AcknowledgeUnknown
<1>7. ASSUME NEW b \in Bindings, Pause(b) \/ Resume(b) PROVE Goal
  BY <1>7 DEF Pause, Resume
<1>8. ASSUME NEW b \in Bindings, NEW R \in SUBSET Requests, AmbiguousOperations(R, b)
      PROVE Goal
  BY <1>8 DEF AmbiguousOperations, Of
<1>9. ASSUME NEW B \in SUBSET Bindings, Recover(B) PROVE Goal
  BY <1>9 DEF Recover
<1>10. CASE UNCHANGED ledgerVars
  BY <1>10 DEF ledgerVars
<1> QED
  BY <1>1, <1>2, <1>3, <1>4, <1>5, <1>6, <1>7, <1>8, <1>9, <1>10 DEF LedgerNext

\* The invariant is kept by every transaction.
LEMMA InvStep == LedgerInv /\ [LedgerNext]_ledgerVars => LedgerInv'
<1> SUFFICES ASSUME LedgerInv, [LedgerNext]_ledgerVars PROVE LedgerInv'
  OBVIOUS
<1> USE LedgerAssumption
<1>1. TypeOK'
  BY TypeStep DEF LedgerInv
<1>2. rows' \in {rows, rows + 1} /\ \A r \in Requests : Move(r)
  BY MoveStep DEF LedgerInv
<1>3. Numbered'
  <2> SUFFICES ASSUME NEW r \in Requests
               PROVE ordinal'[r] <= rows' /\ (opState'[r] = "NONE" <=> ordinal'[r] = 0)
    BY DEF Numbered
  <2>1. rows \in Nat /\ ordinal[r] \in Nat /\ ordinal[r] <= rows
        /\ (opState[r] = "NONE" <=> ordinal[r] = 0)
    BY DEF LedgerInv, TypeOK, Numbered
  <2> QED
    BY <1>2, <2>1 DEF Move
<1>4. AttemptsSettle'
  <2> SUFFICES ASSUME NEW r \in Requests
               PROVE /\ opState'[r] \in Unsettled => r \in attempted'
                     /\ r \in attempted' => opState'[r] \notin {"NONE", "QUEUED"}
    BY DEF AttemptsSettle
  <2>1. CASE Claim(r)
    BY <2>1 DEF Claim, LedgerInv, TypeOK
  <2>2. CASE ~Claim(r)
    BY <1>2, <2>2 DEF Move, LedgerInv, AttemptsSettle, Unsettled
  <2> QED
    BY <2>1, <2>2
<1>5. InOrder'
  <2> SUFFICES ASSUME NEW r \in Requests, r \in attempted', KindOf[r] = "input",
                      NEW e \in Requests, BindingOf[e] = BindingOf[r], KindOf[e] = "input",
                      ordinal'[e] # 0, ordinal'[e] < ordinal'[r]
               PROVE opState'[e] \notin {"QUEUED", "SUBMITTING"}
    BY <1>1 DEF InOrder, Earlier, Of, TypeOK
  <2>1. /\ rows \in Nat /\ ordinal[e] \in Nat /\ ordinal[r] \in Nat
        /\ ordinal[r] <= rows
    BY DEF LedgerInv, TypeOK, Numbered
  <2>2. opState[r] # "NONE"
    BY <1>2 DEF Move, LedgerInv, AttemptsSettle, Claim, Claimable
  <2>3. ordinal'[r] = ordinal[r]
    BY <1>2, <2>2 DEF Move
  <2>4. ordinal'[e] = ordinal[e] /\ opState[e] # "NONE"
    BY <1>2, <2>1, <2>3 DEF Move, LedgerInv, Numbered
  <2>5. e \in Earlier(r)
    BY <2>1, <2>3, <2>4 DEF Earlier, Of
  <2>6. CASE Claim(r)
    BY <2>5, <2>6, <2>4 DEF Claim, Claimable, LedgerInv, TypeOK, Of, Unsettled, Earlier
  <2>7. CASE r \in attempted
    <3>1. opState[e] \notin {"QUEUED", "SUBMITTING"}
      BY <2>5, <2>7 DEF LedgerInv, InOrder
    <3> QED
      BY <1>2, <2>4, <3>1 DEF Move, Claim, Claimable
  <2> QED
    BY <1>2, <2>6, <2>7 DEF Move
<1>6. OneSubmissionPerSession'
  <2> SUFFICES ASSUME NEW r \in Requests, NEW s \in Requests, BindingOf[r] = BindingOf[s],
                      opState'[r] = "SUBMITTING", opState'[s] = "SUBMITTING", r # s
               PROVE FALSE
    BY DEF OneSubmissionPerSession
  <2>1. /\ opState[r] = "SUBMITTING" \/ Claim(r)
        /\ opState[s] = "SUBMITTING" \/ Claim(s)
    BY <1>2 DEF Move
  <2>2. CASE Claim(r)
    BY <2>1, <2>2 DEF Claim, Claimable, LedgerInv, TypeOK, Of, Unsettled
  <2>3. CASE Claim(s)
    BY <2>1, <2>3 DEF Claim, Claimable, LedgerInv, TypeOK, Of, Unsettled
  <2> QED
    BY <2>1, <2>2, <2>3 DEF LedgerInv, OneSubmissionPerSession
<1> QED
  BY <1>1, <1>3, <1>4, <1>5, <1>6 DEF LedgerInv

\* The invariant holds in every state of the ledger.
THEOREM LedgerCorrect == LedgerSpec => []LedgerInv
  BY InitInv, InvStep, PTL DEF LedgerSpec

\* Inputs of a session are submitted in the order in which they were accepted.
THEOREM SubmittedInOrder == LedgerSpec => []InOrder
<1>1. LedgerInv => InOrder
  BY DEF LedgerInv
<1> QED
  BY LedgerCorrect, <1>1, PTL

\* A session never has two submissions under way.
THEOREM OneAtATime == LedgerSpec => []OneSubmissionPerSession
<1>1. LedgerInv => OneSubmissionPerSession
  BY DEF LedgerInv
<1> QED
  BY LedgerCorrect, <1>1, PTL

\* No transaction puts back what was handed to the runtime.
THEOREM NoResubmission == LedgerSpec => NeverResubmitted
<1>1. LedgerInv /\ [LedgerNext]_ledgerVars
        => [\A r \in Requests :
              opState[r] \in {"UNKNOWN", "ACCEPTED", "REJECTED", "DISMISSED"}
                => opState'[r] \notin {"QUEUED", "SUBMITTING"}]_ledgerVars
  <2> SUFFICES ASSUME LedgerInv, [LedgerNext]_ledgerVars, NEW r \in Requests,
                      opState[r] \in {"UNKNOWN", "ACCEPTED", "REJECTED", "DISMISSED"}
               PROVE opState'[r] \notin {"QUEUED", "SUBMITTING"}
    OBVIOUS
  <2>1. Move(r)
    BY MoveStep DEF LedgerInv
  <2> QED
    BY <2>1 DEF Move, Claim, Claimable
<1> QED
  BY LedgerCorrect, <1>1, PTL DEF LedgerSpec, NeverResubmitted

-----------------------------------------------------------------------------
(* The worker. *)

\* The values of the variables the invariant speaks of.
Domains ==
  /\ opState \in [Requests -> OpStates]
  /\ queue \in [Bindings -> {"OPEN", "PAUSED"}]
  /\ attempted \in SUBSET Requests
  /\ sent \in [Requests -> {0, 1}]
  /\ place \in [Requests -> Places]
  /\ view \in [Bindings -> Views \cup {NoView}]
  /\ ctl \in [Controls -> CtlStates]
  /\ session \in [Bindings -> {"ACTIVE", "ARCHIVED"}]

\* What waits was never transmitted; what is at the runtime was, and was claimed.
Transmitted ==
  \A r \in Requests :
    /\ opState[r] \in {"NONE", "QUEUED"} => sent[r] = 0
    /\ place[r] # "none" => sent[r] = 1
    /\ sent[r] = 1 \/ opState[r] = "SUBMITTING" => r \in attempted

\* The worker knows what it is sending, and whether it has been sent.
Sending ==
  pc \in {"send", "sendAck"} =>
    \E r \in Requests : /\ sending = <<r>>
                        /\ opState[r] = "SUBMITTING"
                        /\ sent[r] = IF pc = "send" THEN 0 ELSE 1

\* A view shows only what was transmitted to its session.
ViewsTrue ==
  \A b \in Bindings : view[b] # NoView =>
    \A r \in view[b].once \cup view[b].twice : r \in Of(b) /\ sent[r] = 1

\* The inductive invariant of the worker.
HubInv ==
  /\ Domains
  /\ Transmitted
  /\ Sending
  /\ ViewsTrue
  /\ DoubtPausesQueue
  /\ UnresolvedStopHoldsQueue
  /\ ArchivedIsQuiet


\* A step that neither submits nor touches a request: it may only pause queues,
\* and leaves no stop in doubt with an open queue.
OffSubmission ==
  /\ pc \notin {"down", "send", "sendAck", "sendPause"}
  /\ pc' \notin {"down", "send", "sendAck", "sendPause"}
  /\ UNCHANGED <<opState, attempted, sent, view, session>>
  /\ queue' \in [Bindings -> {"OPEN", "PAUSED"}]
  /\ \A b \in Bindings : queue[b] = "PAUSED" => queue'[b] = "PAUSED"
  /\ ctl' \in [Controls -> CtlStates]
  /\ \A c \in Controls :
       ctl'[c] = "UNKNOWN" /\ ActionOf[c] = "stop" =>
         \/ ctl[c] = "UNKNOWN" /\ pc # "controlPause"
         \/ queue'[TargetOf[c]] = "PAUSED"
         \/ pc' = "controlPause" /\ c = doing'[1]
  /\ place' \in [Requests -> Places]
  /\ \A r \in Requests : place'[r] # "none" => place[r] # "none"

\* Such a step keeps the invariant: the commands, the projection of a doubt and most
\* steps of the worker are of this form.
LEMMA OffSubmissionKeeps == ASSUME HubInv, OffSubmission PROVE HubInv'
  BY LedgerAssumption, HubAssumption
  DEF HubInv, Domains, OffSubmission, Transmitted, Sending, ViewsTrue, Of,
      DoubtPausesQueue, UnresolvedStopHoldsQueue, ArchivedIsQuiet

\* Ledger.pause closes a queue and opens none.
LEMMA PauseKeeps == ASSUME Domains, NEW b, Pause(b)
  PROVE /\ queue' \in [Bindings -> {"OPEN", "PAUSED"}]
        /\ \A a \in Bindings : queue[a] = "PAUSED" => queue'[a] = "PAUSED"
        /\ b \in Bindings => queue'[b] = "PAUSED"
        /\ UNCHANGED <<opState, attempted>>
  BY DEF Pause, Domains

\* The end of a command (request_state) changes the status of that command only.
LEMMA SettleKeeps == ASSUME Domains, NEW state \in CtlStates, Settle(state)
  PROVE /\ ctl' \in [Controls -> CtlStates]
        /\ \A c \in Controls : ctl'[c] = "UNKNOWN" => ctl[c] = "UNKNOWN" \/ (state = "UNKNOWN" /\ c = doing[1])
        /\ pc' = "requests"
<1> DEFINE d == doing[1]
<1>1. ctl' = [ctl EXCEPT ![d] = state] /\ pc' = "requests"
  BY DEF Settle
<1> HIDE DEF d
<1> QED BY <1>1 DEF Domains, d

\* A call without a usable answer leaves its command to ControlPause.
LEMMA UnansweredKeeps == ASSUME Domains, NEW state \in CtlStates, Unanswered(state)
  PROVE /\ UNCHANGED <<opState, attempted, queue, session>>
        /\ pc' = "controlPause"
        /\ ctl' \in [Controls -> CtlStates]
        /\ \A c \in Controls : ctl'[c] = "UNKNOWN" => ctl[c] = "UNKNOWN" \/ c = doing'[1]
<1> DEFINE d == doing[1]
<1>1. ctl' = [ctl EXCEPT ![d] = state] /\ pc' = "controlPause" /\ d = doing'[1]
  BY DEF Unanswered
<1>2. UNCHANGED <<opState, attempted, queue, session>>
  BY DEF Unanswered, ledgerVars
<1> HIDE DEF d
<1>3. ctl' \in [Controls -> CtlStates] /\ \A c \in Controls : ctl'[c] = "UNKNOWN" => ctl[c] = "UNKNOWN" \/ c = d
  BY <1>1 DEF Domains
<1> QED BY <1>1, <1>2, <1>3

\* Reading views, reconcile_controls and requests keep the invariant.
LEMMA ControlStep ==
  ASSUME HubInv,
         \/ Wake \/ Requeue \/ ReconcileStop \/ StopReconciled \/ BeginRequests \/ SkipRequest \/ TakeRequest
         \/ ControlDone \/ ControlPause \/ LookFirst \/ LookFails \/ StopViewed \/ StopCall \/ StopConfirm
         \/ BeginViews \/ ViewNext \/ EndViews \/ TickRooms \/ EndProject \/ SubmitNothing
  PROVE  HubInv'
<1> SUFFICES OffSubmission
  BY OffSubmissionKeeps
<1> USE DEF OffSubmission, ledgerVars, inboundVars, workerVars, agyVars
<1>0. Domains
  BY DEF HubInv
<1>1. CASE Requeue
  BY <1>0, <1>1, PauseKeeps, SettleKeeps DEF Requeue, Domains, Domains, CtlStates
<1>2. CASE ReconcileStop
  BY <1>0, <1>2, PauseKeeps, SettleKeeps DEF ReconcileStop, Domains, Domains, StartView
<1>3. CASE StopReconciled
  <2>1. /\ UNCHANGED <<ledgerVars, sent, view, session, place>>
        /\ pc \in {"snapshot", "steps"} /\ pc' = "reconcile"
    BY <1>3 DEF StopReconciled, Viewed, ViewFails
  <2>2. ctl' \in [Controls -> CtlStates] /\ \A c \in Controls : ctl'[c] = "UNKNOWN" => ctl[c] = "UNKNOWN"
    <3> DEFINE h == Head(todo)
    <3>1. ctl' = ctl \/ ctl' = [ctl EXCEPT ![h] = "DONE"]
      BY <1>3 DEF StopReconciled, h
    <3> HIDE DEF h
    <3> QED BY <1>0, <3>1 DEF Domains, CtlStates
  <2> QED BY <1>0, <2>1, <2>2 DEF Domains
<1>4. CASE BeginRequests
  BY <1>0, <1>4, PauseKeeps, SettleKeeps DEF BeginRequests, Domains
<1>5. CASE SkipRequest
  BY <1>0, <1>5, PauseKeeps, SettleKeeps DEF SkipRequest, Domains
<1>6. CASE TakeRequest
  BY <1>0, <1>6, PauseKeeps, SettleKeeps DEF TakeRequest, Domains, Domains, CtlStates
<1>7. CASE ControlDone
  BY <1>0, <1>7, SettleKeeps, "DONE" \in CtlStates DEF ControlDone, CtlStates, Domains
<1>8. CASE LookFirst
  <2>1. pc = "control" /\ UNCHANGED <<ledgerVars, sent, view, session, place>>
    BY <1>8 DEF LookFirst, Refuse
  <2>2. CASE Refuse
    BY <1>0, <2>1, <2>2, SettleKeeps DEF Refuse, CtlStates, Domains
  <2>3. CASE StartView("control") /\ UNCHANGED ctl
    BY <1>0, <2>1, <2>3 DEF StartView, Domains
  <2> QED BY <1>8, <2>2, <2>3 DEF LookFirst
<1>9. CASE LookFails
  <2>1. pc \in {"snapshot", "steps"} /\ UNCHANGED <<sent, view, session, place>> /\ Unanswered("QUEUED")
    BY <1>9 DEF LookFails, ViewFails, Unanswered
  <2> QED BY <1>0, <2>1, UnansweredKeeps, "QUEUED" \in CtlStates DEF CtlStates, Domains
<1>10. CASE StopViewed
  BY <1>0, <1>10 DEF StopViewed, Viewed, Domains
<1>11. CASE StopCall
  <2>1. /\ pc = "stopCall" /\ UNCHANGED <<sent, view, session>>
        /\ Unanswered("UNKNOWN") \/ Refuse \/ (pc' = "stopConfirm" /\ UNCHANGED <<ledgerVars, ctl>>)
    BY <1>11 DEF StopCall, Unanswered, Refuse
  <2>2. place' \in [Requests -> Places] /\ \A r \in Requests : place'[r] # "none" => place[r] # "none"
    <3>1. CASE UNCHANGED place
      BY <1>0, <3>1 DEF Domains
    <3>2. CASE Halt(TargetOf[doing[1]])
      BY <1>0, <3>2 DEF Halt, Domains, Places
    <3> QED BY <1>11, <3>1, <3>2 DEF StopCall
  <2>3. CASE Unanswered("UNKNOWN")
    BY <1>0, <2>1, <2>2, <2>3, UnansweredKeeps, "UNKNOWN" \in CtlStates DEF CtlStates, Domains
  <2>4. CASE Refuse
    BY <1>0, <2>1, <2>2, <2>4, SettleKeeps DEF Refuse, CtlStates, Domains
  <2>5. CASE pc' = "stopConfirm" /\ UNCHANGED <<ledgerVars, ctl>>
    BY <1>0, <2>1, <2>2, <2>5 DEF Domains
  <2> QED BY <2>1, <2>3, <2>4, <2>5
<1>12. CASE StopConfirm
  <2>1. /\ pc = "stopConfirm" /\ UNCHANGED <<sent, view, session, place>>
        /\ Unanswered("UNKNOWN") \/ (pc' = "controlDone" /\ UNCHANGED <<ledgerVars, ctl>>)
    BY <1>12 DEF StopConfirm, Unanswered
  <2>2. CASE Unanswered("UNKNOWN")
    BY <1>0, <2>1, <2>2, UnansweredKeeps, "UNKNOWN" \in CtlStates DEF CtlStates, Domains
  <2>3. CASE pc' = "controlDone" /\ UNCHANGED <<ledgerVars, ctl>>
    BY <1>0, <2>1, <2>3 DEF Domains
  <2> QED BY <2>1, <2>2, <2>3
<1>20. CASE ControlPause
  <2> DEFINE b == TargetOf[doing[1]]
  <2>1. /\ pc = "controlPause" /\ pc' = "requests" /\ Pause(b)
        /\ UNCHANGED <<ctl, session, sent, view, place>>
    BY <1>20 DEF ControlPause
  <2>2. \A c \in Controls : ctl[c] = "UNKNOWN" /\ ActionOf[c] = "stop" => queue'[TargetOf[c]] = "PAUSED"
    BY <1>0, <2>1, HubAssumption, PauseKeeps DEF HubInv, UnresolvedStopHoldsQueue, Domains
  <2> HIDE DEF b
  <2> QED BY <1>0, <2>1, <2>2, PauseKeeps DEF Domains
<1>13. CASE BeginViews
  BY <1>0, <1>13, PauseKeeps, SettleKeeps DEF BeginViews, Domains
<1>14. CASE ViewNext
  BY <1>0, <1>14, PauseKeeps, SettleKeeps DEF ViewNext, Domains, Domains, StartView
<1>15. CASE EndViews
  BY <1>0, <1>15, PauseKeeps, SettleKeeps DEF EndViews, Domains
<1>16. CASE TickRooms
  BY <1>0, <1>16, PauseKeeps, SettleKeeps DEF TickRooms, Domains
<1>17. CASE EndProject
  BY <1>0, <1>17, PauseKeeps, SettleKeeps DEF EndProject, Domains
<1>18. CASE SubmitNothing
  BY <1>0, <1>18, PauseKeeps, SettleKeeps DEF SubmitNothing, Domains
<1>19. CASE Wake
  BY <1>0, <1>19 DEF Wake, Domains
<1> QED
  BY <1>1, <1>2, <1>3, <1>4, <1>5, <1>6, <1>7, <1>8, <1>9, <1>10, <1>11, <1>12, <1>13, <1>14,
     <1>15, <1>16, <1>17, <1>18, <1>19, <1>20

\* What the runtime does on its own keeps the invariant.
LEMMA AgyStep == ASSUME HubInv, Agy PROVE HubInv'
<1> USE LedgerAssumption
    DEF HubInv, Domains, Places, Transmitted, Sending, ViewsTrue, Of, DoubtPausesQueue,
        UnresolvedStopHoldsQueue, ArchivedIsQuiet, ledgerVars, inboundVars, workerVars
<1>1. ASSUME NEW r \in Requests, Arrive(r) PROVE HubInv'
  BY <1>1 DEF Arrive
<1>2. ASSUME NEW r \in Requests, Vanish(r) PROVE HubInv'
  BY <1>2 DEF Vanish
<1>3. ASSUME NEW r \in Requests, Start(r) PROVE HubInv'
  BY <1>3 DEF Start
<1>4. ASSUME NEW r \in Requests, End(r) PROVE HubInv'
  BY <1>4 DEF End
<1>5. ASSUME NEW r \in Requests, Double(r) PROVE HubInv'
  BY <1>5 DEF Double
<1>6. ASSUME NEW b \in Bindings, DesktopStart(b) \/ DesktopEnd(b) PROVE HubInv'
  BY <1>6 DEF DesktopStart, DesktopEnd
<1> QED BY <1>1, <1>2, <1>3, <1>4, <1>5, <1>6 DEF Agy

\* What inbound events do between two awaits of the worker keeps the invariant.
LEMMA InboundStep == ASSUME HubInv, Inbound PROVE HubInv'
<1> USE LedgerAssumption, HubAssumption
    DEF HubInv, Domains, OpStates, CtlStates, Transmitted, Sending, ViewsTrue, Of, DoubtPausesQueue,
        UnresolvedStopHoldsQueue, ArchivedIsQuiet, ledgerVars, workerVars, agyVars
<1>1. ASSUME NEW r \in Requests, ReceiveInput(r) PROVE HubInv'
  BY <1>1 DEF ReceiveInput, Accept
<1>2. ASSUME NEW r \in Requests, ReceiveCancel(r) PROVE HubInv'
  BY <1>2 DEF ReceiveCancel, CancelQueued
<1>3. ASSUME NEW c \in Controls, Receive(c) PROVE HubInv'
  <2>1. /\ UNCHANGED <<opState, attempted, session, workerVars, agyVars>>
        /\ UNCHANGED queue \/ Pause(TargetOf[c])
    BY <1>3 DEF Receive, Pause
  <2>2. /\ ctl' \in [Controls -> CtlStates]
        /\ \A d \in Controls : ctl'[d] = "UNKNOWN" => ctl[d] = "UNKNOWN"
    <3>1. CASE ActionOf[c] = "stop"
      BY <1>3, <3>1 DEF Receive
    <3>2. CASE ActionOf[c] # "stop"
      <4>1. ctl' = [ctl EXCEPT ![c] = "QUEUED"]
        BY <1>3, <3>2 DEF Receive
      <4> QED BY <4>1
    <3> QED BY <3>1, <3>2
  <2>3. /\ queue' \in [Bindings -> {"OPEN", "PAUSED"}]
        /\ \A b \in Bindings : queue[b] = "PAUSED" => queue'[b] = "PAUSED"
    BY <2>1, PauseKeeps
  <2>4. Domains' /\ Transmitted' /\ Sending' /\ ViewsTrue'
    BY <2>1, <2>2, <2>3
  <2>5. DoubtPausesQueue' /\ UnresolvedStopHoldsQueue' /\ ArchivedIsQuiet'
    BY <2>1, <2>2, <2>3
  <2> QED BY <2>4, <2>5
<1>4. ASSUME NEW b \in Bindings, RefuseGroup(b) PROVE HubInv'
  BY <1>4 DEF RefuseGroup
<1> QED BY <1>1, <1>2, <1>3, <1>4 DEF Inbound

\* Archiving and resuming a session keep the invariant: nothing queued is left behind.
LEMMA SessionStep ==
  ASSUME HubInv, Continue \/ Archive \/ ResumeSession
  PROVE  HubInv'
<1> DEFINE b == TargetOf[doing[1]]
<1>0. Domains
  BY DEF HubInv
<1>1. CASE Refuse /\ UNCHANGED <<sent, place, view>> /\ pc \in {"control", "steps"}
  <2>1. OffSubmission
    BY <1>0, <1>1, SettleKeeps DEF Refuse, CtlStates, Domains, OffSubmission, ledgerVars
  <2> QED BY <2>1, OffSubmissionKeeps
<1>2. CASE Continue /\ ~Refuse
  <2>1. /\ pc = "control" /\ pc' = "controlDone"
        /\ MayContinue(b) /\ Resume(b)
        /\ UNCHANGED <<opState, attempted, sent, place, view, ctl, session>>
    BY <1>2 DEF Continue, Doing, Resume, agyVars
  <2> HIDE DEF b
  <2>2. Domains' /\ Transmitted' /\ Sending' /\ ViewsTrue'
    BY <1>0, <2>1 DEF HubInv, Domains, Transmitted, Sending, ViewsTrue, Of, Resume
  <2>3. DoubtPausesQueue'
    BY <1>0, <2>1, LedgerAssumption DEF HubInv, Domains, DoubtPausesQueue, Resume, Resumable, Of
  <2>4. UnresolvedStopHoldsQueue'
    BY <1>0, <2>1, HubAssumption DEF HubInv, Domains, UnresolvedStopHoldsQueue, Resume, MayContinue, Blocked
  <2>5. ArchivedIsQuiet'
    BY <1>0, <2>1 DEF HubInv, Domains, ArchivedIsQuiet, Resume, MayContinue, Of
  <2> QED BY <2>2, <2>3, <2>4, <2>5 DEF HubInv
<1>3. CASE Archive /\ ~Refuse
  <2>1. /\ pc = "steps" /\ pc' = "controlDone"
        /\ MayArchive(b) /\ Pause(b)
        /\ session' = [session EXCEPT ![b] = "ARCHIVED"]
        /\ UNCHANGED <<opState, attempted, sent, place, view, ctl>>
    BY <1>3 DEF Archive, Viewed, Pause, agyVars
  <2> HIDE DEF b
  <2>2. Domains' /\ Transmitted' /\ Sending' /\ ViewsTrue'
    BY <1>0, <2>1 DEF HubInv, Domains, Transmitted, Sending, ViewsTrue, Of, Pause
  <2>3. DoubtPausesQueue'
    BY <1>0, <2>1, LedgerAssumption DEF HubInv, Domains, DoubtPausesQueue, Pause
  <2>4. UnresolvedStopHoldsQueue'
    BY <1>0, <2>1, HubAssumption DEF HubInv, Domains, UnresolvedStopHoldsQueue, Pause
  <2>5. ArchivedIsQuiet'
    BY <1>0, <2>1 DEF HubInv, Domains, ArchivedIsQuiet, Pause, MayArchive, Of, Unsettled
  <2> QED BY <2>2, <2>3, <2>4, <2>5 DEF HubInv
<1>4. CASE ResumeSession /\ ~Refuse
  <2>1. /\ pc = "steps" /\ pc' = "controlDone"
        /\ session' = [session EXCEPT ![b] = "ACTIVE"]
        /\ UNCHANGED <<opState, queue, attempted, sent, place, view, ctl>>
    BY <1>4 DEF ResumeSession, Viewed, ledgerVars, agyVars
  <2> HIDE DEF b
  <2>2. Domains' /\ Transmitted' /\ Sending' /\ ViewsTrue'
    BY <1>0, <2>1 DEF HubInv, Domains, Transmitted, Sending, ViewsTrue, Of
  <2>3. DoubtPausesQueue'
    BY <1>0, <2>1, LedgerAssumption DEF HubInv, Domains, DoubtPausesQueue
  <2>4. UnresolvedStopHoldsQueue'
    BY <1>0, <2>1, HubAssumption DEF HubInv, Domains, UnresolvedStopHoldsQueue
  <2>5. ArchivedIsQuiet'
    BY <1>0, <2>1 DEF HubInv, Domains, ArchivedIsQuiet
  <2> QED BY <2>2, <2>3, <2>4, <2>5 DEF HubInv
<1>5. ASSUME Refuse, Continue \/ Archive \/ ResumeSession
      PROVE  UNCHANGED <<sent, place, view>> /\ pc \in {"control", "steps"}
  BY <1>5 DEF Continue, Archive, ResumeSession, Doing, Viewed, agyVars
<1> QED BY <1>1, <1>2, <1>3, <1>4, <1>5

\* A view stored by tick shows only what was transmitted to its session.
LEMMA ViewStep == ASSUME HubInv, SessionViewed PROVE HubInv'
<1> DEFINE b == Subject
<1>0. Domains
  BY DEF HubInv
<1>1. /\ UNCHANGED <<opState, attempted, queue, sent, place, ctl, session>>
      /\ pc \in {"snapshot", "steps"} /\ pc' = "views"
  BY DEF SessionViewed, Viewed, ViewFails, ledgerVars, agyVars, inboundVars
<1>2. (\E v \in Seen(b) : view' = [view EXCEPT ![b] = v]) \/ view' = [view EXCEPT ![b] = NoView]
  BY DEF SessionViewed
<1> HIDE DEF b
<1>3. \A v \in Seen(b) : v \in Views /\ v.once \cup v.twice \subseteq Shown(b)
  <2> SUFFICES ASSUME NEW active \in BOOLEAN,
                      NEW v, v = [idle |-> snap /\ ~active, once |-> Shown(b) \ doubled,
                                  twice |-> Shown(b) \cap doubled]
               PROVE  v \in Views /\ v.once \cup v.twice \subseteq Shown(b)
    BY DEF Seen
  <2>1. Shown(b) \subseteq Requests
    BY DEF Shown, Of
  <2> QED BY <2>1 DEF Views
<1>4. view' \in [Bindings -> Views \cup {NoView}]
  BY <1>0, <1>2, <1>3 DEF Domains
<1>5. ViewsTrue'
  <2> SUFFICES ASSUME NEW a \in Bindings, view'[a] # NoView,
                      NEW r \in view'[a].once \cup view'[a].twice
               PROVE  (r \in Of(a) /\ sent[r] = 1)
    BY <1>1 DEF ViewsTrue, Of
  <2>1. CASE view'[a] = view[a]
    BY <2>1 DEF HubInv, ViewsTrue
  <2>2. CASE view'[a] # view[a]
    <3>1. a = b /\ view'[b] \in Seen(b)
      BY <1>0, <1>2, <2>2 DEF Domains
    <3>2. r \in Shown(b)
      BY <1>3, <3>1
    <3> QED BY <3>1, <3>2 DEF Shown, HubInv, Transmitted, Of
  <2> QED BY <2>1, <2>2
<1> QED
  BY <1>0, <1>1, <1>4, <1>5
  DEF HubInv, Domains, Transmitted, Sending, DoubtPausesQueue, UnresolvedStopHoldsQueue, ArchivedIsQuiet, Of

\* The scheduling loop keeps the invariant: project, claim, transmission and its outcomes.
LEMMA SubmitStep ==
  ASSUME HubInv,
         \/ \E b \in Bindings : ProjectAmbiguous(b)
         \/ \E r \in Requests : ProjectFound(r) \/ RefuseSteer(r) \/ Submit(r)
         \/ Busy \/ Transmit \/ Accepted \/ Rejected \/ SendFails \/ PauseAfterFailure
  PROVE  HubInv'
<1> USE LedgerAssumption
    DEF HubInv, Domains, OpStates, Places, Transmitted, Sending, ViewsTrue, Of, Unsettled, DoubtPausesQueue,
        UnresolvedStopHoldsQueue, ArchivedIsQuiet, ledgerVars, inboundVars, workerVars, agyVars, hubVars
<1>1. ASSUME NEW b \in Bindings, ProjectAmbiguous(b) PROVE HubInv'
  BY <1>1 DEF ProjectAmbiguous, NewlyAmbiguous, Projected, AmbiguousOperations
<1>2. ASSUME NEW r \in Requests, ProjectFound(r) PROVE HubInv'
  BY <1>2 DEF ProjectFound, Found, Finish
<1>3. ASSUME NEW r \in Requests, RefuseSteer(r) PROVE HubInv'
  BY <1>3 DEF RefuseSteer, CancelQueued
<1>4. ASSUME NEW r \in Requests, Submit(r) PROVE HubInv'
  BY <1>4 DEF Submit, Claim, Claimable
<1>5. CASE pc \in {"send", "sendAck"} /\ (Busy \/ Transmit \/ Accepted \/ Rejected \/ SendFails)
  <2>1. PICK r \in Requests : /\ sending = <<r>>
                              /\ opState[r] = "SUBMITTING"
                              /\ sent[r] = IF pc = "send" THEN 0 ELSE 1
    BY <1>5
  <2>2. sending[1] = r
    BY <2>1
  <2>3. CASE Busy
    BY <2>1, <2>2, <2>3 DEF Busy, Sent, RequeueUnsent, Finish
  <2>4. CASE Transmit
    <3>1. /\ sent' = [sent EXCEPT ![r] = @ + 1] /\ place' = [place EXCEPT ![r] = "wire"]
          /\ pc = "send" /\ pc' = "sendAck" /\ sending' = sending
          /\ UNCHANGED <<opState, attempted, queue, view, ctl, session>>
      BY <2>2, <2>4 DEF Transmit
    <3>2. r \in attempted
      BY <2>1
    <3>3. Domains'
      BY <2>1, <3>1
    <3>4. Transmitted' /\ Sending' /\ ViewsTrue'
      BY <2>1, <3>1, <3>2
    <3>5. DoubtPausesQueue' /\ UnresolvedStopHoldsQueue' /\ ArchivedIsQuiet'
      BY <3>1
    <3> QED BY <3>3, <3>4, <3>5
  <2>5. CASE Accepted
    BY <2>1, <2>2, <2>5 DEF Accepted, Sent, Finish
  <2>6. CASE Rejected
    BY <2>1, <2>2, <2>6 DEF Rejected, Sent, Finish
  <2>7. CASE SendFails
    BY <2>1, <2>2, <2>7 DEF SendFails, Sent, Finish
  <2> QED BY <1>5, <2>3, <2>4, <2>5, <2>6, <2>7
<1>6. CASE PauseAfterFailure
  <2>1. /\ queue' \in [Bindings -> {"OPEN", "PAUSED"}]
        /\ \A b \in Bindings : queue[b] = "PAUSED" => queue'[b] = "PAUSED"
        /\ \A r \in Requests : sending = <<r>> => queue'[BindingOf[r]] = "PAUSED"
        /\ pc = "sendPause" /\ pc' = "sleep"
        /\ UNCHANGED <<opState, attempted, sent, place, view, ctl, session>>
    <3>1. ASSUME NEW r \in Requests, sending = <<r>> PROVE queue'[BindingOf[r]] = "PAUSED"
      <4>1. sending[1] = r
        BY <3>1
      <4>2. queue' = [queue EXCEPT ![BindingOf[r]] = "PAUSED"]
        BY <1>6, <4>1 DEF PauseAfterFailure, Pause
      <4> QED BY <4>2
    <3> QED BY <1>6, <3>1, PauseKeeps DEF PauseAfterFailure, Pause
  <2>2. Domains' /\ Transmitted' /\ Sending' /\ ViewsTrue'
    BY <2>1
  <2>3. DoubtPausesQueue'
    <3> SUFFICES ASSUME NEW r \in Requests, opState[r] = "UNKNOWN", queue'[BindingOf[r]] = "OPEN"
                 PROVE  FALSE
      BY <2>1
    <3>1. queue[BindingOf[r]] = "OPEN"
      BY <2>1
    <3>2. sending = <<r>>
      BY <2>1, <3>1
    <3> QED BY <2>1, <3>2
  <2>4. UnresolvedStopHoldsQueue' /\ ArchivedIsQuiet'
    BY <2>1, HubAssumption
  <2> QED BY <2>2, <2>3, <2>4
<1>7. Busy \/ Transmit \/ Accepted \/ Rejected \/ SendFails => pc \in {"send", "sendAck"}
  BY DEF Busy, Transmit, Accepted, Rejected, SendFails
<1> QED BY <1>1, <1>2, <1>3, <1>4, <1>5, <1>6, <1>7

\* A crash at any place, the recovery of the next start and an operator's decision
\* keep the invariant.
LEMMA LifecycleStep == ASSUME HubInv, Crash \/ Restart \/ Acknowledge PROVE HubInv'
<1> USE LedgerAssumption, HubAssumption
    DEF HubInv, Domains, OpStates, CtlStates, Transmitted, Sending, ViewsTrue, Of, Unsettled, DoubtPausesQueue,
        UnresolvedStopHoldsQueue, ArchivedIsQuiet, ledgerVars, inboundVars, workerVars, agyVars
<1>1. CASE Crash
  BY <1>1 DEF Crash
<1>2. CASE Restart
  BY <1>2 DEF Restart, Recover
<1>3. ASSUME NEW r \in Requests, Acknowledge, AcknowledgeUnknown(r) PROVE HubInv'
  BY <1>3 DEF Acknowledge, AcknowledgeUnknown
<1>4. ASSUME NEW c \in Controls, Acknowledge, ctl' = [ctl EXCEPT ![c] = "DISMISSED"], Pause(TargetOf[c])
      PROVE HubInv'
  BY <1>4, PauseKeeps DEF Acknowledge
<1> QED BY <1>1, <1>2, <1>3, <1>4 DEF Acknowledge

\* The invariant holds of a gateway with empty tables.
LEMMA HubInvInit == Init => HubInv
  BY LedgerAssumption, HubAssumption
  DEF Init, LedgerInit, HubInv, Domains, OpStates, CtlStates, Places, Transmitted, Sending, ViewsTrue,
      DoubtPausesQueue, UnresolvedStopHoldsQueue, ArchivedIsQuiet, Of

\* Every step of the whole system keeps the invariant.
LEMMA HubInvStep == HubInv /\ [Next]_vars => HubInv'
<1> SUFFICES ASSUME HubInv, [Next]_vars PROVE HubInv'
  OBVIOUS
<1>1. CASE Agy \/ Inbound
  BY <1>1, AgyStep, InboundStep
<1>2. CASE Reconcile \/ HandleRequests
  BY <1>2, ControlStep, SessionStep DEF Reconcile, HandleRequests
<1>3. CASE Schedule
  BY <1>3, ControlStep, ViewStep, SubmitStep DEF Schedule
<1>4. CASE Crash \/ Restart \/ Acknowledge
  BY <1>4, LifecycleStep
<1>5. CASE ReadSnapshot
  BY <1>5 DEF ReadSnapshot, HubInv, Domains, Transmitted, Sending, ViewsTrue, Of, DoubtPausesQueue,
              UnresolvedStopHoldsQueue, ArchivedIsQuiet, ledgerVars, inboundVars, agyVars
<1>6. CASE UNCHANGED vars
  BY <1>6 DEF vars, HubInv, Domains, Transmitted, Sending, ViewsTrue, Of, DoubtPausesQueue,
              UnresolvedStopHoldsQueue, ArchivedIsQuiet, ledgerVars, hubVars, inboundVars, workerVars, agyVars
<1> QED BY <1>1, <1>2, <1>3, <1>4, <1>5, <1>6 DEF Next, Worker

\* The invariant holds in every state the gateway reaches.
THEOREM HubCorrect == Spec => []HubInv
<1>1. Init => HubInv
  BY HubInvInit
<1>2. HubInv /\ [Next]_vars => HubInv'
  BY HubInvStep
<1> QED BY <1>1, <1>2, PTL DEF Spec

\* No input is transmitted twice, for any number of inputs, sessions, commands, crashes
\* and lost answers: nothing in tick or recover_gateway sends again.
THEOREM TransmittedOnce == Spec => []AtMostOnce
<1>1. HubInv => AtMostOnce
  BY DEF HubInv, Domains, AtMostOnce
<1> QED BY <1>1, HubCorrect, PTL

\* An input of unknown outcome pauses its session's queue.
THEOREM DoubtHolds == Spec => []DoubtPausesQueue
<1>1. HubInv => DoubtPausesQueue
  BY DEF HubInv
<1> QED BY <1>1, HubCorrect, PTL

\* A stop of unknown outcome keeps its session's queue paused.
THEOREM StopHolds == Spec => []UnresolvedStopHoldsQueue
<1>1. HubInv => UnresolvedStopHoldsQueue
  BY DEF HubInv
<1> QED BY <1>1, HubCorrect, PTL

\* An archived session has nothing to submit.
THEOREM ArchiveIsQuiet == Spec => []ArchivedIsQuiet
<1>1. HubInv => ArchivedIsQuiet
  BY DEF HubInv
<1> QED BY <1>1, HubCorrect, PTL

-----------------------------------------------------------------------------
\* Pausing or opening a queue, whatever the command names, is a transaction of the ledger.
LEMMA QueueIsLedger ==
  ASSUME Domains, NEW b, Pause(b) \/ Resume(b)
  PROVE  LedgerNext \/ UNCHANGED ledgerVars
<1>1. CASE b \in Bindings
  BY <1>1 DEF LedgerNext
<1>2. CASE b \notin Bindings
  BY <1>2 DEF Domains, Pause, Resume, ledgerVars
<1> QED BY <1>1, <1>2

\* Every step of the system is a transaction of the ledger or leaves it alone.
LEMMA LedgerStep == HubInv /\ [Next]_vars => [LedgerNext]_ledgerVars
<1> SUFFICES ASSUME HubInv, [Next]_vars PROVE LedgerNext \/ UNCHANGED ledgerVars
  OBVIOUS
<1>0. Domains
  BY DEF HubInv
<1>1. CASE Agy \/ ReadSnapshot \/ Crash \/ UNCHANGED vars
  BY <1>1 DEF Agy, Arrive, Vanish, Start, End, Double, DesktopStart, DesktopEnd, ReadSnapshot, Crash, vars
<1>2. CASE Inbound
  BY <1>0, <1>2, QueueIsLedger DEF Inbound, ReceiveInput, ReceiveCancel, Receive, RefuseGroup, LedgerNext
<1>3. CASE Reconcile
  BY <1>3 DEF Reconcile, Wake, Requeue, ReconcileStop, StopReconciled
<1>4. CASE HandleRequests
  <2>1. CASE BeginRequests \/ SkipRequest \/ TakeRequest \/ ControlDone \/ ResumeSession \/ StopViewed
    BY <2>1 DEF BeginRequests, SkipRequest, TakeRequest, ControlDone, ResumeSession, StopViewed, Refuse
  <2>2. CASE LookFirst
    BY <2>2 DEF LookFirst, Refuse
  <2>3. CASE Continue
    BY <1>0, <2>3, QueueIsLedger DEF Continue, Refuse
  <2>4. CASE Archive
    BY <1>0, <2>4, QueueIsLedger DEF Archive, Refuse
  <2>5. CASE LookFails \/ StopConfirm
    BY <2>5 DEF LookFails, StopConfirm, Unanswered
  <2>6. CASE StopCall
    BY <2>6 DEF StopCall, Unanswered, Refuse
  <2>7. CASE ControlPause
    BY <1>0, <2>7, QueueIsLedger DEF ControlPause
  <2> QED BY <1>4, <2>1, <2>2, <2>3, <2>4, <2>5, <2>6, <2>7 DEF HandleRequests
<1>5. CASE Schedule
  <2>1. CASE BeginViews \/ ViewNext \/ SessionViewed \/ EndViews \/ TickRooms \/ EndProject \/ SubmitNothing
    BY <2>1 DEF BeginViews, ViewNext, SessionViewed, EndViews, TickRooms, EndProject, SubmitNothing
  <2>2. ASSUME NEW b \in Bindings, ProjectAmbiguous(b) PROVE LedgerNext
    <3>1. view[b].twice \in SUBSET Requests
      BY <1>0, <2>2 DEF ProjectAmbiguous, NewlyAmbiguous, Projected, Domains, Views
    <3> QED BY <2>2, <3>1 DEF ProjectAmbiguous, LedgerNext
  <2>3. ASSUME NEW r \in Requests, ProjectFound(r) \/ RefuseSteer(r) \/ Submit(r) PROVE LedgerNext
    BY <2>3 DEF ProjectFound, RefuseSteer, Submit, LedgerNext
  <2>4. CASE Transmit
    BY <2>4 DEF Transmit
  <2>5. CASE PauseAfterFailure
    BY <1>0, <2>5, QueueIsLedger DEF PauseAfterFailure
  <2>6. CASE Busy \/ Accepted \/ Rejected \/ SendFails
    <3>1. PICK r \in Requests : sending = <<r>>
      BY <2>6 DEF HubInv, Sending, Busy, Accepted, Rejected, SendFails
    <3>2. sending[1] = r
      BY <3>1
    <3> QED BY <2>6, <3>2 DEF Busy, Accepted, Rejected, SendFails, Sent, LedgerNext
  <2> QED BY <1>5, <2>1, <2>2, <2>3, <2>4, <2>5, <2>6 DEF Schedule
<1>6. CASE Restart
  BY <1>6, HubAssumption DEF Restart, LedgerNext
<1>7. CASE Acknowledge
  BY <1>0, <1>7, QueueIsLedger DEF Acknowledge, LedgerNext
<1> QED BY <1>1, <1>2, <1>3, <1>4, <1>5, <1>6, <1>7 DEF Next, Worker

\* The worker implements the ledger: its guards imply those of the transactions it calls.
THEOREM HubUsesLedger == Spec => ImplementsLedger
<1>1. Init => LedgerInit
  BY DEF Init
<1>2. HubInv /\ [Next]_vars => [LedgerNext]_ledgerVars
  BY LedgerStep
<1> QED BY <1>1, <1>2, HubCorrect, PTL DEF Spec, ImplementsLedger, LedgerSpec

\* What the ledger promises holds of the gateway: submission in the order of acceptance,
\* one at a time in a session, and nothing handed over is queued again.
THEOREM HubKeepsOrder == Spec => [](InOrder /\ OneSubmissionPerSession) /\ NeverResubmitted
  BY HubUsesLedger, SubmittedInOrder, OneAtATime, NoResubmission, PTL DEF ImplementsLedger

-----------------------------------------------------------------------------
(* The worker implements Submission. *)

\* While the worker is about to send, no other request is unsettled.
Alone ==
  pc = "send" => \A r \in Requests : opState[r] \in Unsettled => sending = <<r>>

\* What the refinement rests on.
PhaseInv == HubInv /\ LedgerInv /\ Alone

\* A claim is made only when nothing is in doubt, and nothing becomes so before the
\* request is sent.
LEMMA AloneStep == HubInv /\ Alone /\ [Next]_vars => Alone'
<1> SUFFICES ASSUME HubInv, Alone, [Next]_vars, pc' = "send" PROVE Alone'
  BY DEF Alone
<1> USE DEF Alone, Unsettled, ledgerVars, hubVars, inboundVars, workerVars, agyVars
<1>1. CASE Agy \/ UNCHANGED vars
  BY <1>1 DEF Agy, Arrive, Vanish, Start, End, Double, DesktopStart, DesktopEnd, vars
<1>2. CASE Inbound
  BY <1>2
  DEF Inbound, ReceiveInput, ReceiveCancel, Receive, RefuseGroup, Accept, CancelQueued, Pause, HubInv, Domains
<1>3. ASSUME NEW r \in Requests, Submit(r) PROVE Alone'
  BY <1>3 DEF Submit, Submittable, Considered, Uncertain, Claim, HubInv, Domains
<1>4. CASE Worker /\ \A r \in Requests : ~Submit(r)
  <2>1. pc' # "send"
    BY <1>4
    DEF Worker, Reconcile, HandleRequests, Schedule, ReadSnapshot, Wake, Requeue, ReconcileStop, StopReconciled,
        BeginRequests, SkipRequest, TakeRequest, Continue, ControlDone, LookFirst, LookFails, Archive,
        ResumeSession, StopViewed, StopCall, StopConfirm, Refuse, Unanswered, ControlPause, Settle, StartView,
        Doing, Viewed, ViewFails,
        BeginViews, ViewNext, SessionViewed, EndViews, TickRooms, ProjectAmbiguous, ProjectFound, RefuseSteer,
        EndProject, SubmitNothing, Busy, Transmit, Accepted, Rejected, SendFails, PauseAfterFailure, Sent
  <2> QED BY <2>1
<1>5. CASE Crash \/ Restart \/ Acknowledge
  BY <1>5 DEF Crash, Restart, Acknowledge
<1> QED BY <1>1, <1>2, <1>3, <1>4, <1>5 DEF Next, Worker, Schedule

\* The four phases of a request, in terms of the ledger and of what was sent.
LEMMA PhaseCases ==
  ASSUME Domains, NEW r \in Requests
  PROVE  /\ Phase[r] = "absent" <=> opState[r] = "NONE"
         /\ Phase[r] = "waiting" <=> opState[r] = "QUEUED" \/ (opState[r] \in Unsettled /\ sent[r] = 0)
         /\ Phase[r] = "handed" <=> opState[r] \in Unsettled /\ sent[r] = 1
         /\ Phase[r] = "closed" <=> opState[r] \in {"ACCEPTED", "REJECTED", "DISMISSED"}
         /\ Phase[r] \in {"absent", "waiting", "handed", "closed"}
  BY DEF Phase, Domains, OpStates, Unsettled

\* A step that changes no request is invisible.
LEMMA Invisible ==
  ASSUME UNCHANGED <<opState, sent, ordinal, rows>>
  PROVE  UNCHANGED Abstract!subVars
  BY DEF Abstract!subVars, Phase

\* A step that closes one request which was waiting or handed over.
LEMMA Closes ==
  ASSUME Domains, Domains', NEW r \in Requests,
         opState[r] = "QUEUED" \/ opState[r] \in Unsettled,
         \E result \in {"ACCEPTED", "REJECTED", "DISMISSED"} : opState' = [opState EXCEPT ![r] = result],
         UNCHANGED <<sent, ordinal, rows>>
  PROVE  Abstract!Close(r)
<1>1. Phase[r] \in {"waiting", "handed"}
  BY PhaseCases DEF Domains, Unsettled
<1>2. Phase' = [Phase EXCEPT ![r] = "closed"]
  BY DEF Phase, Domains, Unsettled
<1> QED BY <1>1, <1>2 DEF Abstract!Close

\* A request moves between the queue and the worker before it is transmitted.
LEMMA MovesUnsent ==
  ASSUME Domains, NEW r \in Requests, sent[r] = 0,
         opState[r] \in {"QUEUED", "SUBMITTING", "UNKNOWN"},
         \E state \in {"QUEUED", "SUBMITTING", "UNKNOWN"} : opState' = [opState EXCEPT ![r] = state],
         UNCHANGED <<sent, ordinal, rows>>
  PROVE  UNCHANGED Abstract!subVars
<1>1. Phase' = Phase
  BY DEF Phase, Domains, Unsettled
<1> QED BY <1>1 DEF Abstract!subVars

\* Its outcome becomes unknown: a request handed over stays handed over.
LEMMA BecomesUnknown ==
  ASSUME Domains, NEW R \in SUBSET Requests,
         \A r \in R : opState[r] \in Unsettled,
         opState' = [r \in Requests |-> IF r \in R THEN "UNKNOWN" ELSE opState[r]],
         UNCHANGED <<sent, ordinal, rows>>
  PROVE  UNCHANGED Abstract!subVars
<1>1. Phase' = Phase
  BY DEF Phase, Domains, Unsettled
<1> QED BY <1>1 DEF Abstract!subVars

\* A new row is a request that begins to wait.
LEMMA AcceptTakes ==
  ASSUME HubInv, NEW r \in Requests, Accept(r), UNCHANGED sent
  PROVE  Abstract!Take(r)
<1>1. Phase[r] = "absent" /\ Phase' = [Phase EXCEPT ![r] = "waiting"]
  BY DEF Accept, Phase, HubInv, Domains, Unsettled
<1> QED BY <1>1 DEF Abstract!Take, Accept

\* A tag shown twice puts transmitted requests back in doubt.
LEMMA AmbiguityReopens ==
  ASSUME HubInv, NEW b \in Bindings, ProjectAmbiguous(b)
  PROVE  \E R \in SUBSET Requests : Abstract!Reopen(R)
<1> DEFINE R == view[b].twice
<1>1. R \in SUBSET Requests /\ \A r \in R : sent[r] = 1
  BY DEF HubInv, Domains, ViewsTrue, Of, ProjectAmbiguous, NewlyAmbiguous, Projected
<1>2. /\ opState' = [r \in Requests |-> IF r \in R THEN "UNKNOWN" ELSE opState[r]]
      /\ UNCHANGED <<sent, ordinal, rows>>
  BY DEF ProjectAmbiguous, AmbiguousOperations, hubVars, agyVars
<1>3. \A r \in R : Phase[r] \in {"handed", "closed"}
  <2> SUFFICES ASSUME NEW r \in R PROVE Phase[r] \in {"handed", "closed"}
    OBVIOUS
  <2>1. r \in Requests /\ sent[r] = 1 /\ opState[r] \in OpStates \ {"NONE", "QUEUED"}
    BY <1>1 DEF HubInv, Domains, Transmitted
  <2> QED BY <2>1, PhaseCases DEF HubInv, OpStates, Unsettled
<1> HIDE DEF R
<1>4. Phase' = [r \in Requests |-> IF r \in R THEN "handed" ELSE Phase[r]]
  BY <1>1, <1>2 DEF Phase, HubInv, Domains, Unsettled
<1> QED BY <1>1, <1>2, <1>3, <1>4 DEF Abstract!Reopen

\* The request that is transmitted is the oldest of its session that still waits,
\* and nothing else is in doubt.
LEMMA TransmitHands ==
  ASSUME PhaseInv, Transmit
  PROVE  \E r \in Requests : Abstract!Hand(r)
<1>1. PICK r \in Requests : sending = <<r>> /\ opState[r] = "SUBMITTING" /\ sent[r] = 0
  BY DEF PhaseInv, HubInv, Sending, Transmit
<1>2. /\ sending[1] = r
      /\ \A s \in Requests : <<s>> = <<r>> => s = r
  BY <1>1
<1>3. \A s \in Requests : opState[s] \in Unsettled => s = r
  BY <1>1, <1>2 DEF PhaseInv, Alone, Transmit
<1>4. Domains
  BY DEF PhaseInv, HubInv
<1>5. Phase[r] = "waiting" /\ \A s \in Requests : Phase[s] # "handed"
  BY <1>1, <1>3, <1>4, PhaseCases DEF Unsettled
<1>6. ASSUME KindOf[r] = "input", NEW s \in Requests, KindOf[s] = "input", BindingOf[s] = BindingOf[r],
             Phase[s] = "waiting"
      PROVE  ordinal[r] <= ordinal[s]
  <2>1. CASE s = r
    BY <2>1 DEF PhaseInv, LedgerInv, TypeOK
  <2>2. CASE s # r
    <3>1. opState[s] = "QUEUED"
      BY <1>3, <1>4, <1>6, <2>2, PhaseCases
    <3>2. r \in attempted /\ ordinal[s] # 0
      BY <1>1, <3>1 DEF PhaseInv, LedgerInv, AttemptsSettle, Unsettled, Numbered
    <3>3. s \notin Earlier(r)
      BY <1>6, <3>1, <3>2 DEF PhaseInv, LedgerInv, InOrder
    <3> QED BY <1>6, <3>2, <3>3 DEF Earlier, Of, PhaseInv, LedgerInv, TypeOK
  <2> QED BY <2>1, <2>2
<1>7. Phase' = [Phase EXCEPT ![r] = "handed"] /\ UNCHANGED <<ordinal, rows>>
  <2>1. sent' = [sent EXCEPT ![r] = 1] /\ UNCHANGED <<opState, ordinal, rows>>
    <3>1. sent' = [sent EXCEPT ![r] = sent[r] + 1]
      BY <1>2 DEF Transmit
    <3>2. sent[r] + 1 = 1 /\ UNCHANGED <<opState, ordinal, rows>>
      BY <1>1 DEF Transmit, ledgerVars
    <3> QED BY <3>1, <3>2
  <2>2. Phase' = [q \in Requests |-> IF q = r THEN "handed" ELSE Phase[q]]
    BY <1>1, <1>4, <2>1 DEF Phase, Domains, Unsettled
  <2> QED BY <2>1, <2>2 DEF Phase
<1> QED BY <1>5, <1>6, <1>7 DEF Abstract!Hand

\* Every step of the system is a step of the abstract promise or invisible to it.
LEMMA PhaseStep == PhaseInv /\ [Next]_vars => [Abstract!SubNext]_Abstract!subVars
<1> SUFFICES ASSUME PhaseInv, [Next]_vars PROVE Abstract!SubNext \/ UNCHANGED Abstract!subVars
  OBVIOUS
<1>0. HubInv /\ HubInv' /\ Domains /\ Domains'
  BY HubInvStep DEF PhaseInv, HubInv
<1> USE DEF Abstract!SubNext, ledgerVars, hubVars, agyVars
<1>1. CASE Agy \/ ReadSnapshot \/ Crash \/ UNCHANGED vars
  BY <1>1, Invisible
  DEF Agy, Arrive, Vanish, Start, End, Double, DesktopStart, DesktopEnd, ReadSnapshot, Crash, vars
<1>2. CASE Inbound
  <2>1. ASSUME NEW r \in Requests, ReceiveInput(r) PROVE Abstract!SubNext
    BY <1>0, <2>1, AcceptTakes DEF ReceiveInput
  <2>2. ASSUME NEW r \in Requests, ReceiveCancel(r) PROVE Abstract!SubNext
    BY <1>0, <2>2, Closes DEF ReceiveCancel, CancelQueued
  <2>3. CASE \/ \E c \in Controls : Receive(c)
            \/ \E b \in Bindings : RefuseGroup(b)
    BY <2>3, Invisible DEF Receive, RefuseGroup, Pause
  <2> QED BY <1>2, <2>1, <2>2, <2>3 DEF Inbound
<1>3. CASE Reconcile \/ HandleRequests
  <2>1. UNCHANGED <<opState, sent, ordinal, rows>>
    BY <1>3
    DEF Reconcile, Wake, Requeue, ReconcileStop, StopReconciled, HandleRequests, BeginRequests, SkipRequest,
        TakeRequest, Continue, ControlDone, LookFirst, LookFails, Archive, ResumeSession, StopViewed, StopCall,
        StopConfirm, Refuse, Unanswered, ControlPause, Pause, Resume
  <2> QED BY <2>1, Invisible
<1>4. CASE Schedule
  <2>1. CASE \/ BeginViews \/ ViewNext \/ SessionViewed \/ EndViews \/ TickRooms \/ EndProject
            \/ SubmitNothing \/ PauseAfterFailure
    BY <2>1, Invisible
    DEF BeginViews, ViewNext, SessionViewed, EndViews, TickRooms, EndProject, SubmitNothing,
        PauseAfterFailure, Pause
  <2>2. ASSUME NEW b \in Bindings, ProjectAmbiguous(b) PROVE Abstract!SubNext
    BY <1>0, <2>2, AmbiguityReopens
  <2>3. ASSUME NEW r \in Requests, ProjectFound(r) \/ RefuseSteer(r) PROVE Abstract!SubNext
    BY <1>0, <2>3, Closes DEF ProjectFound, Finish, RefuseSteer, CancelQueued
  <2>4. ASSUME NEW r \in Requests, Submit(r) PROVE UNCHANGED Abstract!subVars
    <3>1. opState[r] = "QUEUED" /\ sent[r] = 0
      BY <1>0, <2>4 DEF Submit, Claim, Claimable, HubInv, Transmitted
    <3> QED BY <1>0, <2>4, <3>1, MovesUnsent DEF Submit, Claim
  <2>5. CASE Transmit
    BY <2>5, TransmitHands
  <2>6. CASE Busy \/ Accepted \/ Rejected \/ SendFails
    <3>1. PICK r \in Requests : /\ sending = <<r>>
                                /\ opState[r] = "SUBMITTING"
                                /\ sent[r] = IF pc = "send" THEN 0 ELSE 1
      BY <1>0, <2>6 DEF HubInv, Sending, Busy, Accepted, Rejected, SendFails
    <3>2. sending[1] = r /\ UNCHANGED <<sent, ordinal, rows>>
      BY <2>6, <3>1
      DEF Busy, Accepted, Rejected, SendFails, Sent, Finish, RequeueUnsent
    <3>3. CASE Busy
      BY <1>0, <3>1, <3>2, <3>3, MovesUnsent DEF Busy, Sent, RequeueUnsent
    <3>4. CASE Accepted \/ Rejected
      BY <1>0, <3>1, <3>2, <3>4, Closes DEF Accepted, Rejected, Sent, Finish
    <3>5. CASE SendFails
      <4>1. opState' = [q \in Requests |-> IF q \in {r} THEN "UNKNOWN" ELSE opState[q]]
        BY <1>0, <3>2, <3>5 DEF SendFails, Sent, Finish, Domains
      <4> QED BY <1>0, <3>1, <3>2, <4>1, BecomesUnknown DEF Unsettled
    <3> QED BY <2>6, <3>3, <3>4, <3>5
  <2> QED BY <1>4, <2>1, <2>2, <2>3, <2>4, <2>5, <2>6 DEF Schedule
<1>5. CASE Restart
  <2> DEFINE R == {r \in Requests : opState[r] \in Unsettled}
  <2>1. /\ opState' = [r \in Requests |-> IF r \in R THEN "UNKNOWN" ELSE opState[r]]
        /\ UNCHANGED <<sent, ordinal, rows>>
    BY <1>5 DEF Restart, Recover
  <2>2. R \in SUBSET Requests /\ \A r \in R : opState[r] \in Unsettled
    OBVIOUS
  <2> HIDE DEF R
  <2>3. UNCHANGED Abstract!subVars
    BY <1>0, <2>1, <2>2, BecomesUnknown
  <2> QED BY <2>3
<1>6. CASE Acknowledge
  <2>1. ASSUME NEW r \in Requests, AcknowledgeUnknown(r) PROVE Abstract!SubNext
    BY <1>0, <1>6, <2>1, Closes DEF Acknowledge, AcknowledgeUnknown, Unsettled
  <2>2. ASSUME NEW c \in Controls, Pause(TargetOf[c]) PROVE UNCHANGED Abstract!subVars
    BY <1>6, <2>2, Invisible DEF Acknowledge, Pause
  <2> QED BY <1>6, <2>1, <2>2 DEF Acknowledge
<1> QED BY <1>1, <1>2, <1>3, <1>4, <1>5, <1>6 DEF Next, Worker

\* The worker implements the abstract promise: each input is transmitted at most
\* once, in its session's order, and never while another one is in doubt.
THEOREM HubImplementsSubmission == Spec => ImplementsSubmission
<1>1. Init => Abstract!SubInit
  BY DEF Init, LedgerInit, Abstract!SubInit, Phase, Unsettled
<1>2. Spec => []PhaseInv
  <2>1. Init => Alone
    BY DEF Init, Alone
  <2>2. HubInv /\ Alone /\ [Next]_vars => Alone'
    BY AloneStep
  <2>3. Spec => []LedgerInv
    BY HubUsesLedger, LedgerCorrect, PTL DEF ImplementsLedger
  <2>4. Spec => []Alone
    BY <2>1, <2>2, HubCorrect, PTL DEF Spec
  <2> QED BY <2>3, <2>4, HubCorrect, PTL DEF PhaseInv
<1>3. PhaseInv /\ [Next]_vars => [Abstract!SubNext]_Abstract!subVars
  BY PhaseStep
<1> QED BY <1>1, <1>2, <1>3, PTL DEF Spec, ImplementsSubmission, Abstract!SubSpec

=============================================================================
