---------------------------- MODULE OutboxProofs ----------------------------
(***************************************************************************)
(* The safety of module Outbox: a card is sent as one message, a message   *)
(* the gateway could not identify is in doubt, and what is recorded as     *)
(* delivered was shown.  The inductive invariant says what the rows that   *)
(* flush read still tell of the cards it has left.                         *)
(***************************************************************************)
EXTENDS Outbox, TLAPS

\* The values of the variables the invariant speaks of.
Domains ==
  /\ revision \in [Cards -> Nat]
  /\ delivered \in [Cards -> Nat]
  /\ state \in [Cards -> States]
  /\ attempts \in [Cards -> Nat]
  /\ row \in [Cards -> Rows]
  /\ messages \in [Cards -> Nat]
  /\ shown \in [Cards -> Nat]
  /\ late \in SUBSET (Cards \X Nat)
  /\ {known, todo, current} \subseteq SUBSET Cards
  /\ reply \in Replies /\ (pc = "answer" => reply # "none")

\* The answer that flush awaits, or has, may belong to a message it does not know.
MaybeMade(c) == pc = "answer" /\ c \in current /\ reply \in {"SENT", "UNKNOWN"}

\* A card has one message or none; one that is not identified is in doubt, or the
\* answer is on its way.
Messages ==
  \A c \in Cards :
    /\ c \in known => messages[c] = 1
    /\ c \notin known => messages[c] \in {0, 1}
    /\ c \notin known /\ messages[c] = 1 =>
         \/ state[c] \in {"UNKNOWN", "DISMISSED"}
         \/ state[c] = "SENDING" /\ (pc = "down" \/ MaybeMade(c))

\* The rows of the cards that are left.
RowsTrue ==
  /\ pc \in {"down", "idle", "flush"} => current = {}
  /\ pc \in {"down", "idle"} => todo = {}
  /\ todo \cap current = {}
  /\ \A c, d \in current : c = d
  /\ \A c \in todo \cup current : row[c].known = (c \in known) /\ row[c].revision >= delivered[c]
  /\ \A c \in todo : state[c] \in {"READY", "RETRY", "DEFERRED"}
  /\ pc = "allowed" => \A c \in current : state[c] \in {"READY", "RETRY", "DEFERRED"}
  /\ pc \in {"deliver", "prepare", "call", "answer"} => \A c \in current : state[c] = "SENDING"

\* Who is about to be recorded as delivered was shown, in an answer that succeeded.
Shown ==
  pc = "answer" /\ reply = "SENT" =>
    \A c \in current : messages[c] = 1 /\ (c \notin overtaken => shown[c] >= row[c].revision)

\* The inductive invariant.
OutboxInv ==
  /\ Domains
  /\ Messages
  /\ RowsTrue
  /\ Shown
  /\ DeliveredIsShown

LEMMA OutboxInvInit == Init => OutboxInv
BY DEF Init, OutboxInv, Domains, Messages, RowsTrue, Shown, DeliveredIsShown, States, Rows, Replies

\* Time, the network, the groups, and late updates.
LEMMA EnvironmentStep ==
  ASSUME OutboxInv,
         \/ QuotaExhausted \/ QuotaPasses \/ Disconnect \/ Reconnect
         \/ \E c \in Cards : RetryTime(c) \/ GroupCloses(c) \/ GroupOpens(c)
         \/ \E c \in Cards, r \in 1 .. MaxRevision : LateUpdate(c, r) \/ LateUpdateLost(c, r)
  PROVE  OutboxInv'
<1> USE DEF OutboxInv
<1>1. /\ UNCHANGED <<revision, delivered, state, attempts, row, messages, known, todo, current, pc, reply>>
      /\ late' \subseteq late
  BY DEF QuotaExhausted, QuotaPasses, Disconnect, Reconnect, RetryTime, GroupCloses, GroupOpens, LateUpdate,
         LateUpdateLost, tableVars, flushVars, larkVars
<1>2. /\ shown' \in [Cards -> Nat]
      /\ \A c \in Cards : c \notin overtaken' => c \notin overtaken /\ shown'[c] >= shown[c]
  <2>1. CASE \E c \in Cards, r \in 1 .. MaxRevision : LateUpdate(c, r)
    <3>1. PICK c \in Cards, r \in Nat : LateUpdate(c, r)
      BY <2>1, OutboxAssumption
    <3> QED BY <3>1 DEF LateUpdate, Domains
  <2>2. CASE UNCHANGED <<shown, overtaken>>
    BY <2>2 DEF Domains
  <2> QED BY <2>1, <2>2 DEF QuotaExhausted, QuotaPasses, Disconnect, Reconnect, RetryTime, GroupCloses, GroupOpens,
                            LateUpdateLost, larkVars
<1>3. Domains' /\ Messages' /\ RowsTrue'
  BY <1>1, <1>2 DEF Domains, Messages, MaybeMade, RowsTrue
<1>4. Shown' /\ DeliveredIsShown'
  BY <1>1, <1>2 DEF Domains, Shown, DeliveredIsShown, Rows
<1> QED BY <1>3, <1>4

\* Contents are written, and the operator decides.
LEMMA WriteStep ==
  ASSUME OutboxInv, NEW c \in Cards, PutCard(c) \/ Acknowledge(c) \/ RetryDelivery(c)
  PROVE  OutboxInv'
<1> USE DEF OutboxInv
<1>1. /\ UNCHANGED <<delivered, row, messages, shown, late, overtaken, known, todo, current, pc, reply>>
      /\ revision' \in [Cards -> Nat] /\ attempts' \in [Cards -> Nat]
      /\ state' \in [Cards -> States]
      /\ \A d \in Cards : \/ state'[d] = state[d]
                          \/ state[d] = "UNKNOWN" /\ state'[d] = "DISMISSED"
                          \/ state[d] = "BLOCKED" /\ d \in known
  BY DEF PutCard, Acknowledge, RetryDelivery, flushVars, larkVars, Domains, States
<1>2. Domains' /\ Shown' /\ DeliveredIsShown'
  BY <1>1 DEF Domains, Shown, DeliveredIsShown
<1>3. Messages'
  BY <1>1 DEF Messages, MaybeMade, Domains
<1>4. RowsTrue'
  BY <1>1 DEF RowsTrue, Domains
<1> QED BY <1>2, <1>3, <1>4

\* The rows are read; the batch ends; cards are taken up.
LEMMA FlushStep ==
  ASSUME OutboxInv,
         \/ BeginFlush \/ EndFlush
         \/ \E c \in Cards : Pick(c) \/ GroupAllowed(c) \/ GroupRefused(c)
  PROVE  OutboxInv'
<1> USE DEF OutboxInv
<1>1. CASE BeginFlush
  <2>1. /\ UNCHANGED <<tableVars, current, reply, larkVars>>
        /\ todo' \subseteq Dirty /\ pc = "idle" /\ pc' = "flush"
        /\ row' = [c \in Cards |-> [revision |-> revision[c], attempts |-> attempts[c], known |-> c \in known]]
    BY <1>1 DEF BeginFlush
  <2>2. /\ todo' \in SUBSET Cards
        /\ \A c \in todo' : /\ revision[c] > delivered[c]
                            /\ state[c] \in {"READY", "RETRY", "DEFERRED"}
    BY <2>1 DEF Dirty, Domains, States
  <2>3. /\ \A c \in Cards : row'[c].revision = revision[c] /\ row'[c].known = (c \in known)
        /\ current = {}
    BY <2>1 DEF RowsTrue
  <2>4. row' \in [Cards -> Rows]
    BY <2>1 DEF Domains, Rows
  <2>5. RowsTrue'
    BY <2>1, <2>2, <2>3 DEF RowsTrue, Domains, tableVars
  <2>6. Domains' /\ Messages' /\ Shown' /\ DeliveredIsShown'
    BY <2>1, <2>2, <2>3, <2>4 DEF Domains, Messages, MaybeMade, Shown, DeliveredIsShown, tableVars, larkVars
  <2> QED BY <2>5, <2>6
<1>2. CASE EndFlush
  BY <1>2 DEF EndFlush, Domains, Messages, MaybeMade, RowsTrue, Shown, DeliveredIsShown, tableVars, larkVars
<1>3. ASSUME NEW c \in Cards, Pick(c) PROVE OutboxInv'
  BY <1>3 DEF Pick, Started, Domains, Messages, MaybeMade, RowsTrue, Shown, DeliveredIsShown, tableVars, larkVars, States
<1>4. ASSUME NEW c \in Cards, GroupAllowed(c) PROVE OutboxInv'
  BY <1>4 DEF GroupAllowed, Started, Domains, Messages, MaybeMade, RowsTrue, Shown, DeliveredIsShown, larkVars, States
<1>5. ASSUME NEW c \in Cards, GroupRefused(c) PROVE OutboxInv'
  BY <1>5 DEF GroupRefused, Domains, Messages, MaybeMade, RowsTrue, Shown, DeliveredIsShown, tableVars, larkVars
<1> QED BY <1>1, <1>2, <1>3, <1>4, <1>5

\* What deliver does, before and with the call.
LEMMA DeliverStep ==
  ASSUME OutboxInv, NEW c \in Cards,
         Deliver(c) \/ Prepare(c) \/ CallSucceeds(c) \/ CallRefused(c) \/ CallInDoubt(c)
  PROVE  OutboxInv'
<1> USE DEF OutboxInv
<1>1. /\ UNCHANGED <<tableVars, row, todo, current>>
      /\ c \in current /\ pc \in {"deliver", "prepare", "call"}
      /\ pc' \in {"prepare", "call", "answer"}
      /\ reply' \in Replies /\ (pc' = "answer" => reply' # "none")
  BY DEF Deliver, Prepare, CallSucceeds, CallRefused, CallInDoubt, Returns, Domains, Replies
<1>2. \A d \in current : d = c
  BY <1>1 DEF RowsTrue
<1>3. /\ state[c] = "SENDING" /\ row[c] \in Rows
      /\ row[c].known = (c \in known) /\ row[c].revision >= delivered[c]
      /\ c \notin known => messages[c] = 0
  BY <1>1 DEF RowsTrue, Messages, MaybeMade, Domains
<1>4. \/ /\ UNCHANGED larkVars
         /\ pc' = "answer" => reply' # "SENT"
      \/ /\ Applied(c) /\ UNCHANGED late
         /\ pc' = "answer"
         /\ reply' \in {"SENT", "UNKNOWN"} \/ (c \in known /\ reply' = "RETRY")
      \/ /\ UNCHANGED <<messages, shown, overtaken>>
         /\ late' = late \cup {<<c, row[c].revision>>}
         /\ pc' = "answer" /\ reply' # "SENT"
  <2>1. CASE Deliver(c) \/ Prepare(c) \/ CallRefused(c)
    BY <2>1 DEF Deliver, Prepare, CallRefused, Returns
  <2>2. CASE CallSucceeds(c)
    BY <2>2 DEF CallSucceeds, Returns
  <2>3. CASE CallInDoubt(c)
    <3>1. pc' = "answer" /\ (reply' = "UNKNOWN" \/ (c \in known /\ reply' = "RETRY"))
      BY <1>3, <2>3 DEF CallInDoubt, Returns
    <3> QED BY <2>3, <3>1 DEF CallInDoubt
  <2> QED BY <2>1, <2>2, <2>3
<1>5. CASE UNCHANGED larkVars /\ (pc' = "answer" => reply' # "SENT")
  BY <1>1, <1>2, <1>3, <1>5 DEF Domains, Messages, MaybeMade, RowsTrue, Shown, DeliveredIsShown, tableVars, larkVars
<1>6. CASE /\ Applied(c) /\ UNCHANGED late
           /\ pc' = "answer"
           /\ reply' \in {"SENT", "UNKNOWN"} \/ (c \in known /\ reply' = "RETRY")
  <2>1. /\ messages' \in [Cards -> Nat] /\ messages'[c] = 1
        /\ shown' \in [Cards -> Nat] /\ shown'[c] = row[c].revision
        /\ \A d \in Cards : d # c => messages'[d] = messages[d] /\ shown'[d] = shown[d]
        /\ overtaken' = overtaken \ {c}
    BY <1>3, <1>6 DEF Applied, Domains, Messages, Rows
  <2>2. Domains' /\ RowsTrue' /\ Shown'
    BY <1>1, <1>2, <1>3, <1>6, <2>1 DEF Domains, RowsTrue, Shown, Rows, tableVars
  <2>3. Messages'
    BY <1>1, <1>2, <1>3, <1>6, <2>1 DEF Messages, MaybeMade, tableVars
  <2>4. DeliveredIsShown'
    BY <1>1, <1>3, <2>1 DEF DeliveredIsShown, tableVars
  <2> QED BY <2>2, <2>3, <2>4
<1>7. CASE /\ UNCHANGED <<messages, shown, overtaken>>
           /\ late' = late \cup {<<c, row[c].revision>>}
           /\ pc' = "answer" /\ reply' # "SENT"
  BY <1>1, <1>2, <1>3, <1>7 DEF Domains, Messages, MaybeMade, RowsTrue, Shown, DeliveredIsShown, tableVars, Rows
<1> QED BY <1>4, <1>5, <1>6, <1>7

\* The answer is recorded.
LEMMA SettleStep ==
  ASSUME OutboxInv, NEW c \in Cards, Settle(c)
  PROVE  OutboxInv'
<1> USE DEF OutboxInv
<1>1. /\ UNCHANGED <<revision, row, todo, larkVars>>
      /\ pc = "answer" /\ pc' = "flush" /\ c \in current /\ current' = {}
      /\ \A d \in current : d = c
  BY DEF Settle, RowsTrue
<1>2. /\ state[c] = "SENDING" /\ row[c] \in Rows
      /\ c \notin known /\ messages[c] = 1 => reply \in {"SENT", "UNKNOWN"}
      /\ c \notin todo
  BY <1>1 DEF RowsTrue, Messages, MaybeMade, Domains
<1>3. CASE reply = "SENT"
  <2>1. /\ reply' = "none" /\ known' = known \cup {c}
        /\ attempts' \in [Cards -> Nat]
        /\ state' \in [Cards -> States] /\ \A d \in Cards : d # c => state'[d] = state[d]
        /\ delivered' \in [Cards -> Nat] /\ delivered'[c] = row[c].revision
        /\ \A d \in Cards : d # c => delivered'[d] = delivered[d]
    <3>1. /\ reply' = "none" /\ known' = known \cup {c}
          /\ attempts' = [attempts EXCEPT ![c] = 0]
          /\ state' = [state EXCEPT ![c] = "READY"]
          /\ delivered' = [delivered EXCEPT ![c] = row[c].revision]
      BY <1>3 DEF Settle
    <3>2. row[c].revision \in Nat
      BY <1>2 DEF Rows
    <3>3. attempts' \in [Cards -> Nat] /\ state' \in [Cards -> States]
      BY <3>1 DEF Domains, States
    <3> QED BY <3>1, <3>2, <3>3 DEF Domains
  <2>2. messages[c] = 1 /\ (c \notin overtaken => shown[c] >= row[c].revision)
    BY <1>1, <1>3 DEF Shown
  <2> QED BY <1>1, <1>2, <2>1, <2>2
          DEF Domains, Messages, MaybeMade, RowsTrue, Shown, DeliveredIsShown, larkVars, Replies
<1>4. CASE reply # "SENT"
  <2>1. /\ UNCHANGED <<known, delivered, attempts>> /\ reply' = "none"
        /\ state' = [state EXCEPT ![c] = Outcome(c)]
    BY <1>4 DEF Settle
  <2>2. Outcome(c) \in {"RETRY", "DEFERRED", "BLOCKED", "UNKNOWN"} /\ (reply = "UNKNOWN" => Outcome(c) = "UNKNOWN")
    BY <1>1, <1>4 DEF Outcome, Domains, Replies
  <2>3. /\ state' \in [Cards -> States] /\ state'[c] = Outcome(c)
        /\ \A d \in Cards : d # c => state'[d] = state[d]
    BY <2>1, <2>2 DEF Domains, States
  <2> QED BY <1>1, <1>2, <1>4, <2>1, <2>2, <2>3
          DEF Domains, Messages, MaybeMade, RowsTrue, Shown, DeliveredIsShown, larkVars, Replies
<1> QED BY <1>3, <1>4

LEMMA CrashStep == ASSUME OutboxInv, Crash \/ Restart PROVE OutboxInv'
<1> USE DEF OutboxInv
<1>1. CASE Crash
  BY <1>1 DEF Crash, Replies, Domains, Messages, MaybeMade, RowsTrue, Shown, DeliveredIsShown, tableVars, larkVars
<1>2. CASE Restart
  BY <1>2 DEF Restart, Domains, Messages, MaybeMade, RowsTrue, Shown, DeliveredIsShown, larkVars, States
<1> QED BY <1>1, <1>2

LEMMA OutboxInvStep == OutboxInv /\ [Next]_vars => OutboxInv'
<1> SUFFICES ASSUME OutboxInv, [Next]_vars PROVE OutboxInv'
  OBVIOUS
<1>1. CASE UNCHANGED vars
  BY <1>1 DEF vars, tableVars, flushVars, larkVars, OutboxInv, Domains, Messages, MaybeMade, RowsTrue, Shown,
              DeliveredIsShown
<1>2. CASE Worker
  BY <1>2, FlushStep, DeliverStep, SettleStep DEF Worker
<1>3. CASE Crash \/ Restart
  BY <1>3, CrashStep
<1>4. CASE QuotaExhausted \/ QuotaPasses \/ Disconnect \/ Reconnect
  BY <1>4, EnvironmentStep
<1>5. ASSUME NEW c \in Cards,
             \/ RetryTime(c) \/ GroupCloses(c) \/ GroupOpens(c)
             \/ \E r \in 1 .. MaxRevision : LateUpdate(c, r) \/ LateUpdateLost(c, r)
      PROVE  OutboxInv'
  BY <1>5, EnvironmentStep
<1>6. ASSUME NEW c \in Cards, PutCard(c) \/ Acknowledge(c) \/ RetryDelivery(c) PROVE OutboxInv'
  BY <1>6, WriteStep
<1> QED BY <1>1, <1>2, <1>3, <1>4, <1>5, <1>6 DEF Next

\* The inductive invariant holds in every reachable state.
THEOREM OutboxCorrect == Spec => []OutboxInv
BY OutboxInvInit, OutboxInvStep, PTL DEF Spec

\* No card is sent as a second message.
THEOREM SentOnce == Spec => []OneMessage
<1>1. OutboxInv => OneMessage
  BY DEF OutboxInv, Messages, OneMessage
<1> QED BY <1>1, OutboxCorrect, PTL

\* A message the gateway could not identify is in doubt.
THEOREM LostIsReported == Spec => []DoubtIsReported
<1>1. OutboxInv => DoubtIsReported
  BY DEF OutboxInv, Messages, DoubtIsReported
<1> QED BY <1>1, OutboxCorrect, PTL

\* What is recorded as delivered was shown, unless a late update undid it.
THEOREM DeliveriesAreTrue == Spec => []DeliveredIsShown
<1>1. OutboxInv => DeliveredIsShown
  BY DEF OutboxInv
<1> QED BY <1>1, OutboxCorrect, PTL

-----------------------------------------------------------------------------
(* The first message of a card is an effect of module Effects. *)

\* What has a state other than the first, or is in the batch, was written.
Written ==
  /\ \A c \in todo \cup current : revision[c] > 0
  /\ \A c \in Cards : state[c] # "READY" => revision[c] > 0

LEMMA WrittenStep == OutboxInv /\ Written /\ [Next]_vars => Written'
<1> SUFFICES ASSUME OutboxInv, Written, [Next]_vars PROVE Written'
  OBVIOUS
<1> USE DEF OutboxInv, Written, Domains
<1>1. CASE UNCHANGED vars
  BY <1>1 DEF vars, tableVars, flushVars
<1>2. CASE BeginFlush
  <2>1. UNCHANGED <<revision, delivered, state, current>> /\ todo' \subseteq Dirty /\ current = {}
    BY <1>2 DEF BeginFlush, tableVars, RowsTrue
  <2> QED BY <2>1 DEF Dirty
<1>3. CASE \/ EndFlush \/ QuotaExhausted \/ QuotaPasses \/ Disconnect \/ Reconnect \/ Crash
           \/ \E c \in Cards : \/ GroupRefused(c) \/ Deliver(c) \/ Prepare(c) \/ CallSucceeds(c) \/ CallRefused(c)
                             \/ CallInDoubt(c) \/ RetryTime(c) \/ GroupCloses(c) \/ GroupOpens(c)
                             \/ \E r \in 1 .. MaxRevision : LateUpdate(c, r) \/ LateUpdateLost(c, r)
  <2>1. UNCHANGED <<revision, state>> /\ todo' \cup current' \subseteq todo \cup current
    BY <1>3 DEF EndFlush, QuotaExhausted, QuotaPasses, Disconnect, Reconnect, Crash, GroupRefused, Deliver, Prepare,
                CallSucceeds, CallRefused, CallInDoubt, RetryTime, GroupCloses, GroupOpens, LateUpdate, LateUpdateLost,
                tableVars, flushVars
  <2> QED BY <2>1
<1>4. CASE Restart
  <2>1. UNCHANGED <<revision, todo, current>> /\ \A c \in Cards : state'[c] # "READY" => state[c] # "READY"
    BY <1>4 DEF Restart
  <2> QED BY <2>1
<1>5. ASSUME NEW c \in Cards, Pick(c) \/ GroupAllowed(c) PROVE Written'
  <2>1. UNCHANGED revision /\ todo' \cup current' \subseteq todo \cup current /\ c \in todo \cup current
    BY <1>5 DEF Pick, GroupAllowed, Started, tableVars
  <2>2. \A d \in Cards : d # c => state'[d] = state[d]
    BY <1>5 DEF Pick, GroupAllowed, Started, tableVars
  <2> QED BY <2>1, <2>2
<1>6. ASSUME NEW c \in Cards, Settle(c) PROVE Written'
  <2>1. UNCHANGED <<revision, todo>> /\ current' = {} /\ c \in current
    BY <1>6 DEF Settle
  <2>2. \A d \in Cards : d # c => state'[d] = state[d]
    BY <1>6 DEF Settle
  <2> QED BY <2>1, <2>2
<1>7. ASSUME NEW c \in Cards, PutCard(c) \/ Acknowledge(c) \/ RetryDelivery(c) PROVE Written'
  <2>1. /\ UNCHANGED <<todo, current>>
        /\ \A d \in Cards : revision'[d] \in Nat /\ revision'[d] >= revision[d]
        /\ \A d \in Cards : state'[d] # "READY" => state[d] # "READY"
    BY <1>7 DEF PutCard, Acknowledge, RetryDelivery, flushVars
  <2> QED BY <2>1
<1> QED BY <1>1, <1>2, <1>3, <1>4, <1>5, <1>6, <1>7 DEF Next, Worker

\* What of a card tells its phase.
Bare(c) == c \notin known /\ revision[c] > 0

LEMMA Phases ==
  ASSUME Domains
  PROVE  \A c \in Cards :
           /\ c \in known => Phase[c] = "done"
           /\ c \notin known /\ revision[c] = 0 => Phase[c] = "absent"
           /\ Bare(c) /\ state[c] \in {"READY", "RETRY", "DEFERRED"} => Phase[c] = "waiting"
           /\ Bare(c) /\ state[c] = "SENDING" => Phase[c] = "tried"
           /\ Bare(c) /\ state[c] = "BLOCKED" => Phase[c] = "refused"
           /\ Bare(c) /\ state[c] = "UNKNOWN" => Phase[c] = "doubt"
           /\ Bare(c) /\ state[c] = "DISMISSED" => Phase[c] = "dismissed"
BY DEF Phase, Bare, Domains

\* A card whose revision, state and identification are left alone stays in its phase.
LEMMA PhaseStays ==
  ASSUME NEW c \in Cards, state'[c] = state[c], c \in known' <=> c \in known,
         revision'[c] = revision[c]
  PROVE  Phase'[c] = Phase[c]
BY DEF Phase

LEMMA Moved ==
  ASSUME NEW S \in SUBSET Cards, NEW from, NEW to,
         \A c \in S : Phase[c] \in from /\ Phase'[c] = to,
         \A c \in Cards \ S : Phase'[c] = Phase[c]
  PROVE  Promise!Moves(S, from, to)
<1>1. Phase' = [c \in Cards |-> Phase'[c]]
  BY DEF Phase
<1> DEFINE P == Phase
<1> HIDE DEF P
<1> QED BY <1>1 DEF Promise!Moves, P

\* Nothing that the abstract promise sees has changed.
LEMMA Stutters ==
  ASSUME \A c \in Cards : Phase'[c] = Phase[c], UNCHANGED messages
  PROVE  UNCHANGED Promise!effectVars
<1>1. Phase = [c \in Cards |-> Phase[c]] /\ Phase' = [c \in Cards |-> Phase'[c]]
  BY DEF Phase
<1>2. Phase' = Phase
  BY <1>1, Zenon
<1>3. Sent' = Sent
  BY DEF Sent
<1> QED BY <1>2, <1>3 DEF Promise!effectVars

LEMMA SentIsCalled == \A c \in Cards : c \in Sent <=> messages[c] > 0
BY DEF Sent

\* The steps that leave every phase and every message alone.
LEMMA QuietEffects ==
  ASSUME OutboxInv, Written,
         \/ UNCHANGED vars \/ BeginFlush \/ EndFlush \/ QuotaExhausted \/ QuotaPasses \/ Disconnect \/ Reconnect \/ Crash
         \/ \E c \in Cards : \/ GroupRefused(c) \/ Deliver(c) \/ Prepare(c) \/ CallRefused(c)
                           \/ RetryTime(c) \/ GroupCloses(c) \/ GroupOpens(c) \/ RetryDelivery(c)
                           \/ \E r \in 1 .. MaxRevision : LateUpdate(c, r) \/ LateUpdateLost(c, r)
  PROVE  UNCHANGED Promise!effectVars
<1> USE DEF OutboxInv
<1>1. UNCHANGED <<messages, known, revision>> /\ \A c \in Cards : state'[c] = state[c] \/ c \in known
  BY DEF BeginFlush, EndFlush, QuotaExhausted, QuotaPasses, Disconnect, Reconnect, Crash, GroupRefused, Deliver, Prepare,
         CallRefused, RetryTime, GroupCloses, GroupOpens, RetryDelivery, LateUpdate, LateUpdateLost,
         vars, tableVars, flushVars, larkVars, Domains
<1>2. \A c \in Cards : Phase'[c] = Phase[c]
  <2>1. ASSUME NEW c \in Cards, c \in known PROVE Phase'[c] = Phase[c]
    BY <1>1, <2>1 DEF Phase
  <2>2. ASSUME NEW c \in Cards, c \notin known PROVE Phase'[c] = Phase[c]
    BY <1>1, <2>2, PhaseStays
  <2> QED BY <2>1, <2>2
<1> QED BY <1>1, <1>2, Stutters

\* A content is written, or the operator gives the message up.
LEMMA WriteEffects ==
  ASSUME OutboxInv, Written, OutboxInv', NEW c \in Cards, PutCard(c) \/ Acknowledge(c)
  PROVE  [Promise!EffectsNext]_Promise!effectVars
<1> USE DEF OutboxInv
<1>1. UNCHANGED <<messages, known>>
  BY DEF PutCard, Acknowledge, tableVars, larkVars
<1>2. \A d \in Cards : d # c => Phase'[d] = Phase[d]
  <2>1. \A d \in Cards : d # c => state'[d] = state[d] /\ revision'[d] = revision[d]
    BY DEF PutCard, Acknowledge, Domains
  <2> QED BY <1>1, <2>1, PhaseStays
<1>3. UNCHANGED Sent
  BY <1>1 DEF Sent
<1>4. CASE c \in known
  <2>1. Phase'[c] = Phase[c]
    BY <1>1, <1>4 DEF Phase
  <2> QED BY <1>1, <1>2, <2>1, Stutters
<1>5. CASE PutCard(c) /\ c \notin known
  <2>1. UNCHANGED state /\ revision'[c] = revision[c] + 1 /\ revision[c] \in Nat
    BY <1>5 DEF PutCard, Domains
  <2>2. CASE revision[c] = 0
    <3>1. state[c] = "READY"
      BY <2>2 DEF Written
    <3>2. Phase[c] = "absent" /\ Phase'[c] = "waiting"
      BY <1>1, <1>5, <2>1, <2>2, <3>1 DEF Phase
    <3>3. Promise!Moves({c}, {"absent"}, "waiting")
      BY <1>2, <3>2, Moved
    <3>4. Promise!Ask({c})
      BY <1>3, <3>3 DEF Promise!Ask
    <3> QED BY <3>4 DEF Promise!EffectsNext
  <2>3. CASE revision[c] # 0
    <3>1. Phase'[c] = Phase[c]
      BY <1>1, <2>1, <2>3 DEF Phase
    <3> QED BY <1>1, <1>2, <3>1, Stutters
  <2> QED BY <2>2, <2>3
<1>6. CASE Acknowledge(c) /\ c \notin known
  <2>1. state[c] = "UNKNOWN" /\ state'[c] = "DISMISSED" /\ UNCHANGED revision
    BY <1>6 DEF Acknowledge, Domains
  <2>2. Bare(c) /\ Bare(c)'
    BY <1>1, <1>6, <2>1 DEF Written, Bare
  <2>3. Phase[c] = "doubt" /\ Phase'[c] = "dismissed"
    BY <1>1, <2>1, <2>2 DEF Phase, Bare
  <2>4. Promise!Moves({c}, {"doubt"}, "dismissed")
    BY <1>2, <2>3, Moved
  <2>5. Promise!Dismiss(c)
    BY <1>3, <2>4 DEF Promise!Dismiss
  <2> QED BY <2>5 DEF Promise!EffectsNext
<1> QED BY <1>4, <1>5, <1>6

\* A card is marked as under way before its message is sent.
LEMMA StartEffects ==
  ASSUME OutboxInv, Written, NEW c \in Cards, Pick(c) \/ GroupAllowed(c)
  PROVE  [Promise!EffectsNext]_Promise!effectVars
<1> USE DEF OutboxInv
<1>1. UNCHANGED <<messages, known, revision>> /\ UNCHANGED Sent
  BY DEF Pick, GroupAllowed, Started, tableVars, larkVars, Sent
<1>2. CASE UNCHANGED tableVars
  <2>1. \A d \in Cards : Phase'[d] = Phase[d]
    BY <1>2, PhaseStays DEF tableVars
  <2> QED BY <1>1, <2>1, Stutters
<1>3. CASE Started(c)
  <2>1. /\ state[c] \in {"READY", "RETRY", "DEFERRED"} /\ revision[c] > 0
        /\ state'[c] = "SENDING" /\ \A d \in Cards : d # c => state'[d] = state[d]
    BY <1>3 DEF Started, Pick, GroupAllowed, RowsTrue, Written, Domains
  <2>2. \A d \in Cards : d # c => Phase'[d] = Phase[d]
    BY <1>1, <2>1, PhaseStays
  <2>3. CASE c \in known
    <3>1. Phase'[c] = Phase[c]
      BY <1>1, <2>3 DEF Phase
    <3> QED BY <1>1, <2>2, <3>1, Stutters
  <2>4. CASE c \notin known
    <3>1. Phase[c] = "waiting" /\ Phase'[c] = "tried"
      BY <1>1, <2>1, <2>4 DEF Phase
    <3>2. Promise!Moves({c}, {"waiting"}, "tried")
      BY <2>2, <3>1, Moved
    <3>3. Promise!Try(c)
      BY <1>1, <3>2 DEF Promise!Try
    <3> QED BY <3>3 DEF Promise!EffectsNext
  <2> QED BY <2>3, <2>4
<1> QED BY <1>2, <1>3 DEF Pick, GroupAllowed, Started

\* Lark carries out the call: a message, if the card had none.
LEMMA CallEffects ==
  ASSUME OutboxInv, Written, NEW c \in Cards, CallSucceeds(c) \/ CallInDoubt(c)
  PROVE  [Promise!EffectsNext]_Promise!effectVars
<1> USE DEF OutboxInv
<1>1. UNCHANGED <<known, revision, state>> /\ c \in current /\ pc = "call"
  BY DEF CallSucceeds, CallInDoubt, tableVars
<1>2. UNCHANGED Phase
  BY <1>1 DEF Phase
<1>3. CASE UNCHANGED messages
  BY <1>2, <1>3, Stutters
<1>4. CASE messages' = [messages EXCEPT ![c] = @ + 1] /\ ~row[c].known
  <2>1. c \notin known /\ state[c] = "SENDING" /\ messages[c] = 0 /\ revision[c] > 0
    BY <1>1, <1>4 DEF RowsTrue, Messages, MaybeMade, Written, Domains
  <2>2. Phase[c] = "tried"
    BY <2>1 DEF Phase
  <2>3. c \notin Sent /\ Sent' = Sent \cup {c}
    BY <1>4, <2>1 DEF Sent, Domains
  <2>4. Promise!Call(c)
    BY <1>2, <2>2, <2>3 DEF Promise!Call
  <2> QED BY <2>4 DEF Promise!EffectsNext
<1> QED BY <1>3, <1>4 DEF CallSucceeds, CallInDoubt, Applied, larkVars

\* The answer is recorded: only what Lark has made is done, only what it has not is tried again.
LEMMA SettleEffects ==
  ASSUME OutboxInv, Written, NEW c \in Cards, Settle(c)
  PROVE  [Promise!EffectsNext]_Promise!effectVars
<1> USE DEF OutboxInv
<1>1. /\ UNCHANGED <<messages, revision, Sent>> /\ c \in current /\ state[c] = "SENDING" /\ revision[c] > 0
      /\ pc = "answer" /\ reply \in Replies \ {"none"}
  BY DEF Settle, larkVars, Sent, RowsTrue, Written, Domains
<1>2. /\ \A d \in Cards : d # c => state'[d] = state[d]
      /\ known' \in {known, known \cup {c}}
  BY DEF Settle, Domains
<1>3. \A d \in Cards : d # c => Phase'[d] = Phase[d]
  BY <1>1, <1>2, PhaseStays
<1>4. CASE c \in known
  <2>1. Phase'[c] = Phase[c]
    BY <1>2, <1>4 DEF Phase
  <2> QED BY <1>1, <1>3, <2>1, Stutters
<1>5. CASE c \notin known
  <2>1. Phase[c] = "tried"
    BY <1>1, <1>5 DEF Phase
  <2>2. CASE reply = "SENT"
    <3>1. c \in Sent /\ c \in known'
      BY <1>1, <2>2 DEF Shown, Sent, Domains, Settle
    <3>2. Phase'[c] = "done"
      BY <3>1 DEF Phase
    <3>3. Promise!Moves({c}, {"tried", "doubt"}, "done")
      BY <1>3, <2>1, <3>2, Moved
    <3>4. Promise!Confirm(c)
      BY <1>1, <3>1, <3>3 DEF Promise!Confirm
    <3> QED BY <3>4 DEF Promise!EffectsNext
  <2>3. CASE reply = "UNKNOWN"
    <3>1. state'[c] = "UNKNOWN" /\ c \notin known'
      BY <1>5, <2>3 DEF Settle, Outcome, Domains
    <3>2. Phase'[c] = "doubt"
      BY <1>1, <3>1 DEF Phase
    <3>3. Promise!Moves({c}, {"tried"}, "doubt")
      BY <1>3, <2>1, <3>2, Moved
    <3>4. Promise!Doubt({c})
      BY <1>1, <3>3 DEF Promise!Doubt
    <3> QED BY <3>4 DEF Promise!EffectsNext
  <2>4. CASE reply \in {"RETRY", "DEFERRED", "BLOCKED"}
    <3>1. c \notin Sent
      BY <1>1, <1>5, <2>4 DEF Messages, MaybeMade, Sent, Domains
    <3>2. state'[c] \in {"RETRY", "DEFERRED", "BLOCKED"} /\ c \notin known'
      BY <1>5, <2>4 DEF Settle, Outcome, Domains
    <3>3. CASE state'[c] = "BLOCKED"
      <4>1. Phase'[c] = "refused"
        BY <1>1, <3>2, <3>3 DEF Phase
      <4>2. Promise!Moves({c}, {"tried"}, "refused")
        BY <1>3, <2>1, <4>1, Moved
      <4>3. Promise!Refuse(c)
        BY <1>1, <3>1, <4>2 DEF Promise!Refuse
      <4> QED BY <4>3 DEF Promise!EffectsNext
    <3>4. CASE state'[c] \in {"RETRY", "DEFERRED"}
      <4>1. Phase'[c] = "waiting"
        BY <1>1, <3>2, <3>4 DEF Phase
      <4>2. Promise!Moves({c}, {"tried"}, "waiting")
        BY <1>3, <2>1, <4>1, Moved
      <4>3. Promise!Return(c)
        BY <1>1, <3>1, <4>2 DEF Promise!Return
      <4> QED BY <4>3 DEF Promise!EffectsNext
    <3> QED BY <3>2, <3>3, <3>4
  <2> QED BY <1>1, <2>2, <2>3, <2>4 DEF Replies
<1> QED BY <1>4, <1>5

\* What was under way when the process ended, and is not identified, is in doubt.
LEMMA RestartEffects ==
  ASSUME OutboxInv, Written, Restart
  PROVE  [Promise!EffectsNext]_Promise!effectVars
<1> USE DEF OutboxInv
<1> DEFINE S == {c \in Cards : c \notin known /\ state[c] = "SENDING"}
<1>1. /\ UNCHANGED <<messages, known, revision, Sent>>
      /\ \A c \in Cards : state'[c] = IF state[c] # "SENDING" THEN state[c]
                                     ELSE IF c \in known THEN "READY" ELSE "UNKNOWN"
  BY DEF Restart, larkVars, Sent
<1>2. \A c \in S : Phase[c] \in {"tried"} /\ Phase'[c] = "doubt"
  <2> SUFFICES ASSUME NEW c \in S PROVE Phase[c] = "tried" /\ Phase'[c] = "doubt"
    OBVIOUS
  <2>1. revision[c] > 0 /\ c \in Cards /\ c \notin known /\ state[c] = "SENDING"
    BY DEF Written
  <2> HIDE DEF S
  <2> QED BY <1>1, <2>1 DEF Phase
<1>3. \A c \in Cards \ S : Phase'[c] = Phase[c]
  BY <1>1 DEF Phase
<1>4. Promise!Moves(S, {"tried"}, "doubt")
  <2>1. S \in SUBSET Cards
    OBVIOUS
  <2> HIDE DEF S
  <2> QED BY <1>2, <1>3, <2>1, Moved
<1>5. Promise!Doubt(S)
  BY <1>1, <1>4 DEF Promise!Doubt
<1>6. S \in SUBSET Cards
  OBVIOUS
<1> HIDE DEF S
<1> QED BY <1>5, <1>6 DEF Promise!EffectsNext

LEMMA EffectsStep == OutboxInv /\ Written /\ [Next]_vars => [Promise!EffectsNext]_Promise!effectVars
<1> SUFFICES ASSUME OutboxInv, Written, [Next]_vars PROVE [Promise!EffectsNext]_Promise!effectVars
  OBVIOUS
<1>1. OutboxInv'
  BY OutboxInvStep
<1> QED BY <1>1, QuietEffects, WriteEffects, StartEffects, CallEffects, SettleEffects, RestartEffects DEF Next, Worker

\* For every card: its message is written down, sent, answered, retried and given up as the
\* abstract promise has it.
THEOREM OutboxImplementsEffects == Spec => ImplementsEffects
<1>1. Init => Promise!EffectsInit /\ Written
  BY DEF Init, Written, Promise!EffectsInit, Phase, Sent
<1>2. Spec => []Written
  BY <1>1, WrittenStep, OutboxCorrect, PTL DEF Spec
<1> QED BY <1>1, <1>2, EffectsStep, OutboxCorrect, PTL DEF Spec, ImplementsEffects, Promise!EffectsSpec

\* What a card says of its message is true, and no call is forgotten.
THEOREM OutboxReportsAreTrue == Spec => []Promise!ReportsAreTrue
<1>1. Promise!EffectsInit => Promise!ReportsAreTrue
  BY DEF Promise!EffectsInit, Promise!ReportsAreTrue
<1>2. Promise!ReportsAreTrue /\ [Promise!EffectsNext]_Promise!effectVars => Promise!ReportsAreTrue'
  BY DEF Promise!ReportsAreTrue, Promise!EffectsNext, Promise!effectVars, Promise!Moves, Promise!Ask, Promise!Try,
         Promise!Call, Promise!Happen, Promise!Return, Promise!Refuse, Promise!Confirm, Promise!Doubt, Promise!Dismiss
<1> QED BY <1>1, <1>2, OutboxImplementsEffects, PTL DEF ImplementsEffects, Promise!EffectsSpec

=============================================================================
