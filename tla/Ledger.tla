------------------------------- MODULE Ledger -------------------------------
(***************************************************************************)
(* The submission ledger: the `operations` and `bindings` tables of        *)
(* store/ledger.py with the transactions that store/gateway.py adds to     *)
(* them.  Every `with self.db` block is one SQLite transaction, so each is *)
(* one action here.  A request is one accepted user input.                 *)
(*                                                                         *)
(* The module says what the tables promise whoever calls them and in       *)
(* whatever order; module Hub adds the one coroutine that does.            *)
(***************************************************************************)
EXTENDS Naturals

CONSTANTS
  Requests,   \* the inputs the user may ever send
  Bindings,   \* the native sessions bound to the gateway
  BindingOf,  \* the session each input is addressed to
  KindOf      \* "input" (a task of its own) or "steer" (joins the running task)

ASSUME LedgerAssumption ==
  /\ BindingOf \in [Requests -> Bindings]
  /\ KindOf \in [Requests -> {"input", "steer"}]

VARIABLES
  opState,    \* operations.state, "NONE" while there is no row
  ordinal,    \* operations.ordinal (AUTOINCREMENT), 0 while there is no row
  rows,       \* the last ordinal given
  queue,      \* bindings.queue_state
  attempted   \* history: requests claimed and not handed back as unsent

ledgerVars == <<opState, ordinal, rows, queue, attempted>>

OpStates == {"NONE", "QUEUED", "SUBMITTING", "UNKNOWN", "ACCEPTED", "REJECTED", "DISMISSED"}

Unsettled == {"SUBMITTING", "UNKNOWN"}

TypeOK ==
  /\ opState \in [Requests -> OpStates]
  /\ ordinal \in [Requests -> Nat]
  /\ rows \in Nat
  /\ queue \in [Bindings -> {"OPEN", "PAUSED"}]
  /\ attempted \in SUBSET Requests

LedgerInit ==
  /\ opState = [r \in Requests |-> "NONE"]
  /\ ordinal = [r \in Requests |-> 0]
  /\ rows = 0
  /\ queue = [b \in Bindings |-> "OPEN"]
  /\ attempted = {}

Of(b) == {r \in Requests : BindingOf[r] = b}

\* Inputs of the same session accepted before r.
Earlier(r) ==
  {e \in Of(BindingOf[r]) : KindOf[e] = "input" /\ ordinal[e] # 0 /\ ordinal[e] < ordinal[r]}

-----------------------------------------------------------------------------
Accept(r) ==
  /\ opState[r] = "NONE"
  /\ opState' = [opState EXCEPT ![r] = "QUEUED"]
  /\ ordinal' = [ordinal EXCEPT ![r] = rows + 1]
  /\ rows' = rows + 1
  /\ UNCHANGED <<queue, attempted>>

\* The WHERE clause of Ledger.claim.
Claimable(r) ==
  /\ opState[r] = "QUEUED"
  /\ queue[BindingOf[r]] = "OPEN"
  /\ \A o \in Of(BindingOf[r]) : opState[o] \notin Unsettled
  /\ KindOf[r] = "steer" \/ \A e \in Earlier(r) : opState[e] # "QUEUED"

Claim(r) ==
  /\ Claimable(r)
  /\ opState' = [opState EXCEPT ![r] = "SUBMITTING"]
  /\ attempted' = attempted \cup {r}
  /\ UNCHANGED <<ordinal, rows, queue>>

Finish(r, result) ==
  /\ opState[r] \in Unsettled
  /\ opState' = [opState EXCEPT ![r] = result]
  /\ UNCHANGED <<ordinal, rows, queue, attempted>>

RequeueUnsent(r) ==
  /\ opState[r] = "SUBMITTING"
  /\ opState' = [opState EXCEPT ![r] = "QUEUED"]
  /\ attempted' = attempted \ {r}
  /\ UNCHANGED <<ordinal, rows, queue>>

CancelQueued(r) ==
  /\ opState[r] = "QUEUED"
  /\ opState' = [opState EXCEPT ![r] = "REJECTED"]
  /\ UNCHANGED <<ordinal, rows, queue, attempted>>

\* Fault: the requests are put back in the queue.
AmbiguousOperationsFault(R, b) ==
  /\ R \subseteq Of(b) \cap attempted
  /\ opState' = [r \in Requests |-> IF r \in R THEN "QUEUED" ELSE opState[r]]
  /\ queue' = [queue EXCEPT ![b] = "PAUSED"]
  /\ UNCHANGED <<ordinal, rows, attempted>>

\* The native history shows the tags of these requests on more than one step.
\* The UPDATE names no state; only requests that were sent can be in a history.
AmbiguousOperations(R, b) ==
  /\ R \subseteq Of(b) \cap attempted
  /\ opState' = [r \in Requests |-> IF r \in R THEN "UNKNOWN" ELSE opState[r]]
  /\ queue' = [queue EXCEPT ![b] = "PAUSED"]
  /\ UNCHANGED <<ordinal, rows, attempted>>

Pause(b) ==
  /\ queue' = [queue EXCEPT ![b] = "PAUSED"]
  /\ UNCHANGED <<opState, ordinal, rows, attempted>>

\* Ledger.resume raises ValueError otherwise.
Resumable(b) == \A r \in Of(b) : opState[r] # "UNKNOWN"

Resume(b) ==
  /\ Resumable(b)
  /\ queue' = [queue EXCEPT ![b] = "OPEN"]
  /\ UNCHANGED <<opState, ordinal, rows, attempted>>

\* Fault: what was interrupted is submitted again.
RecoverFault(B) ==
  /\ opState' = [r \in Requests |-> IF opState[r] \in Unsettled THEN "QUEUED" ELSE opState[r]]
  /\ attempted' = {r \in attempted : opState[r] \notin Unsettled}
  /\ UNCHANGED <<ordinal, rows, queue>>

\* At start-up: Ledger.recover and the pause of recover_gateway.  B holds the
\* sessions whose controls were interrupted.
Recover(B) ==
  LET doubtful == {r \in Requests : opState[r] \in Unsettled}
  IN  /\ opState' = [r \in Requests |-> IF r \in doubtful THEN "UNKNOWN" ELSE opState[r]]
      /\ queue' = [b \in Bindings |->
                     IF b \in B \/ \E r \in doubtful : BindingOf[r] = b THEN "PAUSED" ELSE queue[b]]
      /\ UNCHANGED <<ordinal, rows, attempted>>

AcknowledgeUnknown(r) ==
  /\ opState[r] = "UNKNOWN"
  /\ opState' = [opState EXCEPT ![r] = "DISMISSED"]
  /\ queue' = [queue EXCEPT ![BindingOf[r]] = "PAUSED"]
  /\ UNCHANGED <<ordinal, rows, attempted>>

-----------------------------------------------------------------------------
LedgerNext ==
  \/ \E r \in Requests :
       \/ Accept(r)
       \/ Claim(r)
       \/ \E result \in {"ACCEPTED", "UNKNOWN", "REJECTED"} : Finish(r, result)
       \/ RequeueUnsent(r)
       \/ CancelQueued(r)
       \/ AcknowledgeUnknown(r)
  \/ \E b \in Bindings : Pause(b) \/ Resume(b)
  \/ \E b \in Bindings, R \in SUBSET Requests : AmbiguousOperations(R, b)
  \/ \E B \in SUBSET Bindings : Recover(B)

LedgerSpec == LedgerInit /\ [][LedgerNext]_ledgerVars

-----------------------------------------------------------------------------
\* Inputs of one session reach the runtime in the order the user sent them: once
\* one has been claimed, no earlier one is still to be sent, through refusals,
\* restarts, unknown outcomes and operator decisions (Ledger.claim's ORDER).
InOrder ==
  \A r \in attempted : KindOf[r] = "input" =>
    \A e \in Earlier(r) : opState[e] \notin {"QUEUED", "SUBMITTING"}

\* One submission of a session is under way at a time.
OneSubmissionPerSession ==
  \A r, s \in Requests :
    opState[r] = "SUBMITTING" /\ opState[s] = "SUBMITTING" /\ BindingOf[r] = BindingOf[s] => r = s

\* What was handed to the runtime once is never put back to be sent again,
\* whatever became of it: an answer, a refusal, a crash or a dismissal.
NeverResubmitted ==
  [][\A r \in Requests :
       opState[r] \in {"UNKNOWN", "ACCEPTED", "REJECTED", "DISMISSED"}
         => opState'[r] \notin {"QUEUED", "SUBMITTING"}]_ledgerVars

=============================================================================
