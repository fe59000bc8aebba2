------------------------------- MODULE Outbox -------------------------------
(***************************************************************************)
(* The delivery of cards: the cards table of store/gateway.py, Hub.flush,  *)
(* LarkChannel.deliver, the shared quota, and Lark.  flush works on rows   *)
(* it read before its awaits, while inbound handlers write new contents    *)
(* with put_card, and an operator may retry a blocked update beside the    *)
(* running gateway.                                                        *)
(*                                                                         *)
(* The content of a card is the revision that wrote it.  The condition of  *)
(* a group is `open`; module Rooms says how it comes about.                *)
(***************************************************************************)
EXTENDS Naturals, FiniteSets

CONSTANTS
  Cards,
  GroupCards,    \* the cards that go to a group
  Batch,         \* rows that flush reads at a time
  MaxAttempts,   \* attempts after which a card to be retried is blocked
  MaxRevision,   \* bound on contents
  MaxSurprises   \* bound on failures, crashes and exhausted quotas

ASSUME OutboxAssumption ==
  /\ GroupCards \subseteq Cards
  /\ Batch \in Nat \ {0}
  /\ {MaxAttempts, MaxRevision, MaxSurprises} \subseteq Nat

VARIABLES
  revision,   \* cards.revision, 0 while there is no row
  delivered,  \* cards.delivered
  state,      \* cards.state
  attempts,   \* cards.attempts
  known,      \* cards whose message_id is stored
  later,      \* cards whose retry_at is in the future
  open,       \* cards whose group is READY
  pc,         \* where the worker is in flush
  row,        \* the rows read by flush
  todo,       \* cards left in the batch
  current,    \* the card being delivered, as a set of at most one
  reply,      \* what deliver returns for it
  connected,  \* the long connection is up
  quota,      \* the monthly quota is exhausted, as far as the gateway knows (in memory)
  messages,   \* messages at Lark for each card
  shown,      \* the content of the message
  late,       \* updates without an answer that Lark may yet apply
  overtaken,  \* history: cards shown as of a late update
  limited,    \* history: retries each card was told to make since its last success
  surprises   \* surprises so far

tableVars  == <<revision, delivered, state, attempts, known, later>>
flushVars  == <<pc, row, todo, current, reply>>
larkVars   == <<messages, shown, late, overtaken>>
vars == <<tableVars, open, flushVars, connected, quota, larkVars, limited, surprises>>

States == {"READY", "SENDING", "RETRY", "DEFERRED", "BLOCKED", "UNKNOWN", "DISMISSED"}
Replies == {"none", "SENT", "RETRY", "DEFERRED", "BLOCKED", "UNKNOWN"}
Rows == [revision : Nat, attempts : Nat, known : BOOLEAN]

OutboxTypeOK ==
  /\ revision \in [Cards -> 0 .. MaxRevision]
  /\ delivered \in [Cards -> 0 .. MaxRevision]
  /\ \A c \in Cards : delivered[c] <= revision[c]
  /\ state \in [Cards -> States]
  /\ attempts \in [Cards -> Nat]
  /\ {known, later, todo, current, overtaken} \subseteq SUBSET Cards
  /\ open \subseteq GroupCards
  /\ pc \in {"down", "idle", "flush", "allowed", "deliver", "prepare", "call", "answer"}
  /\ row \in [Cards -> Rows]
  /\ Cardinality(current) <= 1 /\ current \cap todo = {}
  /\ reply \in Replies /\ (reply # "none" <=> pc = "answer")
  /\ \A c \in Cards : state[c] = "SENDING" => pc = "down" \/ c \in current
  /\ {connected, quota} \subseteq BOOLEAN
  /\ messages \in [Cards -> Nat]
  /\ shown \in [Cards -> 0 .. MaxRevision]
  /\ late \subseteq Cards \X (1 .. MaxRevision)
  /\ limited \in [Cards -> Nat]
  /\ surprises \in 0 .. MaxSurprises

Init ==
  /\ revision = [c \in Cards |-> 0]
  /\ delivered = [c \in Cards |-> 0]
  /\ state = [c \in Cards |-> "READY"]
  /\ attempts = [c \in Cards |-> 0]
  /\ known = {}
  /\ later = {}
  /\ open = GroupCards
  /\ pc = "idle"
  /\ row = [c \in Cards |-> [revision |-> 0, attempts |-> 0, known |-> FALSE]]
  /\ todo = {}
  /\ current = {}
  /\ reply = "none"
  /\ connected = TRUE
  /\ quota = FALSE
  /\ messages = [c \in Cards |-> 0]
  /\ shown = [c \in Cards |-> 0]
  /\ late = {}
  /\ overtaken = {}
  /\ limited = [c \in Cards |-> 0]
  /\ surprises = 0

Surprise == surprises < MaxSurprises /\ surprises' = surprises + 1

\* flush awaits a call, or the worker is elsewhere: other coroutines may run.
AtAwait == pc \in {"idle", "allowed", "prepare", "answer"}

-----------------------------------------------------------------------------
(* Time, the network, the groups and Lark. *)

RetryTime(c) ==
  /\ c \in later
  /\ state[c] = "DEFERRED" => ~quota
  /\ later' = later \ {c}
  /\ UNCHANGED <<revision, delivered, state, attempts, known, open, flushVars, connected, quota, larkVars,
                 limited, surprises>>

\* A call of another coroutine finds the quota exhausted.
QuotaExhausted ==
  /\ AtAwait
  /\ ~quota
  /\ Surprise
  /\ quota' = TRUE
  /\ UNCHANGED <<tableVars, open, flushVars, connected, larkVars, limited>>

QuotaPasses ==
  /\ quota
  /\ quota' = FALSE
  /\ UNCHANGED <<tableVars, open, flushVars, connected, larkVars, limited, surprises>>

Disconnect ==
  /\ AtAwait
  /\ connected
  /\ Surprise
  /\ connected' = FALSE
  /\ UNCHANGED <<tableVars, open, flushVars, quota, larkVars, limited>>

Reconnect ==
  /\ ~connected
  /\ connected' = TRUE
  /\ UNCHANGED <<tableVars, open, flushVars, quota, larkVars, limited, surprises>>

GroupCloses(c) ==
  /\ AtAwait
  /\ c \in open
  /\ Surprise
  /\ open' = open \ {c}
  /\ UNCHANGED <<tableVars, flushVars, connected, quota, larkVars, limited>>

GroupOpens(c) ==
  /\ AtAwait
  /\ c \in GroupCards \ open
  /\ open' = open \cup {c}
  /\ UNCHANGED <<tableVars, flushVars, connected, quota, larkVars, limited, surprises>>

\* An update whose answer was lost reaches Lark after all.
LateUpdate(c, r) ==
  /\ <<c, r>> \in late
  /\ late' = late \ {<<c, r>>}
  /\ shown' = [shown EXCEPT ![c] = r]
  /\ overtaken' = IF r < shown[c] THEN overtaken \cup {c} ELSE overtaken
  /\ UNCHANGED <<tableVars, open, flushVars, connected, quota, messages, limited, surprises>>

LateUpdateLost(c, r) ==
  /\ <<c, r>> \in late
  /\ late' = late \ {<<c, r>>}
  /\ UNCHANGED <<tableVars, open, flushVars, connected, quota, messages, shown, overtaken, limited, surprises>>

-----------------------------------------------------------------------------
(* The transactions of handlers and of the operator. *)

\* put_card with a content that differs from the stored one.
PutCard(c) ==
  /\ AtAwait
  /\ revision[c] < MaxRevision
  /\ revision' = [revision EXCEPT ![c] = @ + 1]
  /\ UNCHANGED <<delivered, state, attempts, known, later, open, flushVars, connected, quota, larkVars,
                 limited, surprises>>

\* acknowledge_unknown, which needs the lock of a stopped gateway.
Acknowledge(c) ==
  /\ pc = "down"
  /\ state[c] = "UNKNOWN"
  /\ state' = [state EXCEPT ![c] = "DISMISSED"]
  /\ UNCHANGED <<revision, delivered, attempts, known, later, open, flushVars, connected, quota, larkVars,
                 limited, surprises>>

\* retry_delivery, which needs no lock.
RetryDelivery(c) ==
  /\ state[c] = "BLOCKED"
  /\ c \in known
  /\ state' = [state EXCEPT ![c] = "READY"]
  /\ attempts' = [attempts EXCEPT ![c] = 0]
  /\ limited' = [limited EXCEPT ![c] = 0]
  /\ later' = later \ {c}
  /\ UNCHANGED <<revision, delivered, known, open, flushVars, connected, quota, larkVars, surprises>>

-----------------------------------------------------------------------------
(* Hub.flush. *)

\* dirty_cards, but for its LIMIT.
Dirty ==
  {c \in Cards \ later :
     /\ revision[c] > delivered[c]
     /\ state[c] \notin {"UNKNOWN", "BLOCKED", "SENDING", "DISMISSED"}
     /\ c \in GroupCards => c \in open}

\* The rows are read once; which ones come first is left open.
BeginFlush ==
  /\ pc = "idle"
  /\ connected /\ ~quota
  /\ \E batch \in SUBSET Dirty :
       /\ Cardinality(batch) = IF Cardinality(Dirty) < Batch THEN Cardinality(Dirty) ELSE Batch
       /\ todo' = batch
  /\ row' = [c \in Cards |-> [revision |-> revision[c], attempts |-> attempts[c], known |-> c \in known]]
  /\ pc' = "flush"
  /\ UNCHANGED <<tableVars, open, current, reply, connected, quota, larkVars, limited, surprises>>

EndFlush ==
  /\ pc = "flush"
  /\ todo = {} \/ ~connected \/ quota
  /\ todo' = {}
  /\ pc' = "idle"
  /\ UNCHANGED <<tableVars, open, row, current, reply, connected, quota, larkVars, limited, surprises>>

\* delivery_started; deliver begins without an await.
Started(c) ==
  /\ state' = [state EXCEPT ![c] = "SENDING"]
  /\ attempts' = [attempts EXCEPT ![c] = @ + 1]
  /\ pc' = "deliver"
  /\ UNCHANGED <<revision, delivered, known, later>>

Pick(c) ==
  /\ pc = "flush"
  /\ connected /\ ~quota
  /\ c \in todo
  /\ todo' = todo \ {c}
  /\ current' = {c}
  /\ IF c \in GroupCards THEN pc' = "allowed" /\ UNCHANGED tableVars ELSE Started(c)
  /\ UNCHANGED <<open, row, reply, connected, quota, larkVars, limited, surprises>>

\* Rooms.allowed lets the card pass, or closes the group.
GroupAllowed(c) ==
  /\ pc = "allowed"
  /\ c \in current
  /\ c \in open
  /\ Started(c)
  /\ UNCHANGED <<open, row, todo, current, reply, connected, quota, larkVars, limited, surprises>>

GroupRefused(c) ==
  /\ pc = "allowed"
  /\ c \in current
  /\ \/ c \notin open /\ UNCHANGED surprises
     \/ Surprise
  /\ open' = open \ {c}
  /\ current' = {}
  /\ pc' = "flush"
  /\ UNCHANGED <<tableVars, row, todo, reply, connected, quota, larkVars, limited>>

-----------------------------------------------------------------------------
(* LarkChannel.deliver: nothing is sent before "call". *)

Returns(result) == pc' = "answer" /\ reply' = result

\* The first looks at the quota and the group.
Deliver(c) ==
  /\ pc = "deliver"
  /\ c \in current
  /\ \/ /\ quota
        /\ Returns("DEFERRED")
        /\ UNCHANGED <<open, surprises>>
     \/ /\ ~quota
        /\ c \in GroupCards
        /\ c \in open => Surprise
        /\ c \notin open => UNCHANGED surprises
        /\ open' = open \ {c}
        /\ Returns("RETRY")
     \/ /\ ~quota
        /\ c \in GroupCards => c \in open
        /\ pc' = "prepare"
        /\ UNCHANGED <<reply, open, surprises>>
  /\ UNCHANGED <<tableVars, row, todo, current, connected, quota, larkVars, limited>>

\* Images are uploaded, then both are looked at again.
Prepare(c) ==
  /\ pc = "prepare"
  /\ c \in current
  /\ \/ /\ quota
        /\ Returns("DEFERRED")
        /\ UNCHANGED <<open, surprises>>
     \/ /\ ~quota
        /\ c \in GroupCards
        /\ c \in open => Surprise
        /\ c \notin open => UNCHANGED surprises
        /\ open' = open \ {c}
        /\ Returns("RETRY")
     \/ /\ ~quota
        /\ c \in GroupCards => c \in open
        /\ pc' = "call"
        /\ UNCHANGED <<reply, open, surprises>>
  /\ UNCHANGED <<tableVars, row, todo, current, connected, quota, larkVars, limited>>

\* Lark has the content of the row.
Applied(c) ==
  /\ messages' = IF row[c].known THEN messages ELSE [messages EXCEPT ![c] = @ + 1]
  /\ shown' = [shown EXCEPT ![c] = row[c].revision]
  /\ overtaken' = overtaken \ {c}

CallSucceeds(c) ==
  /\ pc = "call"
  /\ c \in current
  /\ Applied(c)
  /\ Returns("SENT")
  /\ UNCHANGED <<tableVars, open, row, todo, current, connected, quota, late, limited, surprises>>

\* Lark refuses: for want of quota, too many calls, or for good.
CallRefused(c) ==
  /\ pc = "call"
  /\ c \in current
  /\ Surprise
  /\ \E result \in {"DEFERRED", "RETRY", "BLOCKED"} : Returns(result)
  /\ UNCHANGED <<tableVars, open, row, todo, current, connected, quota, larkVars, limited>>

\* Fault: a lost answer is retried as an explicit limit is.
CallInDoubtFault(c) ==
  /\ pc = "call"
  /\ c \in current
  /\ Surprise
  /\ Returns("RETRY")
  /\ \/ Applied(c) /\ UNCHANGED late
     \/ UNCHANGED larkVars
  /\ UNCHANGED <<tableVars, open, row, todo, current, connected, quota, limited>>

\* No answer, or one that says nothing: applied, or not, or not yet.  An update is
\* retried if the failure is an exception or says so.
CallInDoubt(c) ==
  /\ pc = "call"
  /\ c \in current
  /\ Surprise
  /\ \E result \in {"UNKNOWN"} \cup (IF row[c].known THEN {"RETRY"} ELSE {}) : Returns(result)
  /\ \/ Applied(c) /\ UNCHANGED late
     \/ UNCHANGED larkVars
     \/ /\ row[c].known
        /\ late' = late \cup {<<c, row[c].revision>>}
        /\ UNCHANGED <<messages, shown, overtaken>>
  /\ UNCHANGED <<tableVars, open, row, todo, current, connected, quota, limited>>

-----------------------------------------------------------------------------
(* The answer reaches flush: quota, then delivery_result. *)

\* flush gives up a card that was to be retried once too often.
Outcome(c) == IF reply = "RETRY" /\ row[c].attempts >= MaxAttempts THEN "BLOCKED" ELSE reply

\* Fault: what is stored as delivered is the present content.
SettleFault(c) ==
  /\ pc = "answer"
  /\ c \in current
  /\ IF reply = "SENT"
     THEN /\ state' = [state EXCEPT ![c] = "READY"]
          /\ known' = known \cup {c}
          /\ delivered' = [delivered EXCEPT ![c] = revision[c]]
          /\ attempts' = [attempts EXCEPT ![c] = 0]
          /\ UNCHANGED later
     ELSE /\ state' = [state EXCEPT ![c] = Outcome(c)]
          /\ later' = later \cup {c}
          /\ UNCHANGED <<known, delivered, attempts>>
  /\ quota' = (reply = "DEFERRED" \/ (quota /\ reply # "SENT"))
  /\ limited' = [limited EXCEPT ![c] = IF reply = "SENT" THEN 0 ELSE IF reply = "RETRY" THEN @ + 1 ELSE @]
  /\ reply' = "none"
  /\ current' = {}
  /\ pc' = "flush"
  /\ UNCHANGED <<revision, open, row, todo, connected, larkVars, surprises>>

\* Fault: only a success is recorded.
SettleForgetsFault(c) ==
  /\ pc = "answer"
  /\ c \in current
  /\ IF reply = "SENT"
     THEN /\ state' = [state EXCEPT ![c] = "READY"]
          /\ known' = known \cup {c}
          /\ delivered' = [delivered EXCEPT ![c] = row[c].revision]
          /\ attempts' = [attempts EXCEPT ![c] = 0]
          /\ UNCHANGED later
     ELSE UNCHANGED <<state, known, delivered, attempts, later>>
  /\ quota' = (reply = "DEFERRED" \/ (quota /\ reply # "SENT"))
  /\ limited' = [limited EXCEPT ![c] = IF reply = "SENT" THEN 0 ELSE IF reply = "RETRY" THEN @ + 1 ELSE @]
  /\ reply' = "none"
  /\ current' = {}
  /\ pc' = "flush"
  /\ UNCHANGED <<revision, open, row, todo, connected, larkVars, surprises>>

Settle(c) ==
  /\ pc = "answer"
  /\ c \in current
  /\ IF reply = "SENT"
     THEN /\ state' = [state EXCEPT ![c] = "READY"]
          /\ known' = known \cup {c}
          /\ delivered' = [delivered EXCEPT ![c] = row[c].revision]
          /\ attempts' = [attempts EXCEPT ![c] = 0]
          /\ UNCHANGED later
     ELSE /\ state' = [state EXCEPT ![c] = Outcome(c)]
          /\ later' = later \cup {c}
          /\ UNCHANGED <<known, delivered, attempts>>
  /\ quota' = (reply = "DEFERRED" \/ (quota /\ reply # "SENT"))
  /\ limited' = [limited EXCEPT ![c] = IF reply = "SENT" THEN 0 ELSE IF reply = "RETRY" THEN @ + 1 ELSE @]
  /\ reply' = "none"
  /\ current' = {}
  /\ pc' = "flush"
  /\ UNCHANGED <<revision, open, row, todo, connected, larkVars, surprises>>

-----------------------------------------------------------------------------
Crash ==
  /\ pc # "down"
  /\ Surprise
  /\ pc' = "down"
  /\ todo' = {}
  /\ current' = {}
  /\ reply' = "none"
  /\ UNCHANGED <<tableVars, open, row, connected, quota, larkVars, limited>>

\* Fault: a delivery cut short is always taken up again.
RestartFault ==
  /\ pc = "down"
  /\ pc' = "idle"
  /\ state' = [c \in Cards |-> IF state[c] = "SENDING" THEN "READY" ELSE state[c]]
  /\ quota' \in {quota, FALSE}
  /\ UNCHANGED <<revision, delivered, attempts, known, later, open, row, todo, current, reply, connected,
                 larkVars, limited, surprises>>

\* recover_gateway; the quota is what the last health report says of it.
Restart ==
  /\ pc = "down"
  /\ pc' = "idle"
  /\ state' = [c \in Cards |-> IF state[c] # "SENDING" THEN state[c]
                               ELSE IF c \in known THEN "READY" ELSE "UNKNOWN"]
  /\ quota' \in {quota, FALSE}
  /\ UNCHANGED <<revision, delivered, attempts, known, later, open, row, todo, current, reply, connected,
                 larkVars, limited, surprises>>

Worker ==
  \/ BeginFlush \/ EndFlush
  \/ \E c \in Cards :
       \/ Pick(c) \/ GroupAllowed(c) \/ GroupRefused(c) \/ Deliver(c) \/ Prepare(c)
       \/ CallSucceeds(c) \/ CallRefused(c) \/ CallInDoubt(c) \/ Settle(c)

Next ==
  \/ Worker \/ Crash \/ Restart
  \/ QuotaExhausted \/ QuotaPasses \/ Disconnect \/ Reconnect
  \/ \E c \in Cards :
       \/ PutCard(c) \/ Acknowledge(c) \/ RetryDelivery(c)
       \/ RetryTime(c) \/ GroupCloses(c) \/ GroupOpens(c)
       \/ \E r \in 1 .. MaxRevision : LateUpdate(c, r) \/ LateUpdateLost(c, r)

Spec == Init /\ [][Next]_vars

\* The worker goes on, time passes, the connection and the process come back.
Fairness ==
  /\ WF_vars(Worker)
  /\ WF_vars(Restart)
  /\ WF_vars(Reconnect)
  /\ WF_vars(QuotaPasses)
  /\ \A c \in Cards : WF_vars(RetryTime(c))

LiveSpec == Spec /\ Fairness

-----------------------------------------------------------------------------
\* docs/en/user-guide.md: "an uncertain new message is not blindly recreated": no retry,
\* deferral, crash or command of the operator sends a card as a second message.
OneMessage == \A c \in Cards : messages[c] <= 1

\* A message that Lark has and the gateway could not identify is in doubt for the
\* operator to see, once nothing is under way.
DoubtIsReported ==
  \A c \in Cards : messages[c] > 0 /\ c \notin known => state[c] \in {"SENDING", "UNKNOWN", "DISMISSED"}

\* The message shows what is recorded as delivered, or something newer, whatever was
\* written while it was under way; only a late update can undo that.
DeliveredIsShown == \A c \in Cards : c \notin overtaken => shown[c] >= delivered[c]

\* The abstract promise, for the first message of each card: what was not answered is in
\* doubt and never sent again, what the gateway identified or was refused is so.
Phase ==
  [c \in Cards |->
     CASE c \in known -> "done"
       [] c \notin known /\ revision[c] = 0 -> "absent"
       [] c \notin known /\ revision[c] > 0 /\ state[c] \in {"READY", "RETRY", "DEFERRED"} -> "waiting"
       [] c \notin known /\ revision[c] > 0 /\ state[c] = "SENDING" -> "tried"
       [] c \notin known /\ revision[c] > 0 /\ state[c] = "BLOCKED" -> "refused"
       [] c \notin known /\ revision[c] > 0 /\ state[c] = "UNKNOWN" -> "doubt"
       [] OTHER -> "dismissed"]

Sent == {c \in Cards : messages[c] > 0}

Promise == INSTANCE Effects WITH Things <- Cards, phase <- Phase, called <- Sent, holds <- Sent

\* Every step of flush, of the operator and of Lark is a step of the abstract promise.
ImplementsEffects == Promise!EffectsSpec

\* Every content reaches Lark, or the card is blocked, in doubt or given up, or its group
\* is closed.
EventuallyDelivered ==
  \A c \in Cards :
    revision[c] > delivered[c] ~> \/ revision[c] = delivered[c]
                                  \/ state[c] \in {"UNKNOWN", "BLOCKED", "DISMISSED"}
                                  \/ c \in GroupCards \ open

\* docs/RELEASE-0.0.7.md: "Deferred backlog does not consume short-term delivery retry
\* attempts": a card that Lark did not refuse for good is given up only after the
\* retries it was allowed.
DeferralsAreFree ==
  [][\A c \in Cards : reply = "RETRY" /\ c \in current /\ state'[c] = "BLOCKED" => limited[c] >= MaxAttempts]_vars

=============================================================================
