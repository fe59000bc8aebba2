------------------------- MODULE InteractionsProofs -------------------------
(***************************************************************************)
(* The safety of module Interactions: an interaction is decided once, what *)
(* is reported done is over, and a stop ends the turn it was made for.     *)
(* The inductive invariant says that an interaction has one row, how far   *)
(* that row has come when its call is made, and which turn a stop that is  *)
(* under way was compared with.                                            *)
(***************************************************************************)
EXTENDS Interactions, TLAPS

\* An interaction that can still be claimed or can still expire has no row, and none has two.
OneRow ==
  /\ \A e \in Events : inbox[e].key = None <=> inbox[e].state = "NONE"
  /\ \A p \in Prompts : inbox[p].key \in {None, p}
  /\ \A e \in Events : inbox[e].key \in Keys => status[inbox[e].key] \in {"CLAIMED", "EXPIRED"}
  /\ \A e, f \in Events : inbox[e].key \in Keys /\ inbox[e].key = inbox[f].key => e = f

\* The worker's row, and the rows it has read.
Handled ==
  /\ doing # None <=> pc \in {"view", "reread", "call", "answer"}
  /\ doing # None => inbox[doing].state = "SUBMITTING"
  /\ pc \in {"down", "sleep", "steps"} => todo = {}
  /\ pc = "reconcile" => todo \subseteq InState("UNKNOWN")
  /\ pc \in {"requests", "view", "reread", "call", "answer"} => todo \subseteq InState("QUEUED")
  /\ pc = "reread" => inbox[doing].key \in Prompts

\* No call is made for a row before its turn comes; one is made then.
CalledOnce ==
  /\ \A e \in Events : sent[e] <= 1
  /\ \A e \in Events : inbox[e].state \in {"NONE", "QUEUED"} => sent[e] = 0
  /\ pc \in {"view", "reread", "call"} => sent[doing] = 0
  /\ \A e \in flight : sent[e] = 1

\* A stop under way, or about to be, was compared with the turn that runs.
Aimed ==
  /\ \A e \in flight : inbox[e].key \in Turns => turn = inbox[e].key \/ e \in moved
  /\ pc = "call" /\ inbox[doing].key \in Turns => turn = inbox[doing].key \/ doing \in moved

\* A prompt with a row has been asked, and is over once the call for it has arrived.
Asked ==
  /\ \A p \in Prompts : status[p] # "NONE" => prompt[p] # "ahead"
  /\ pc = "answer" /\ inbox[doing].key \in Prompts /\ doing \notin flight => prompt[inbox[doing].key] = "over"
  /\ DoneIsOver

\* The inductive invariant.
InteractionsInv ==
  /\ InteractionsTypeOK
  /\ OneRow
  /\ Handled
  /\ CalledOnce
  /\ Aimed
  /\ Asked

LEMMA Apart == Prompts \cap Turns = {}
BY InteractionsAssumption DEF Turns

LEMMA InteractionsInvInit == Init => InteractionsInv
<1> SUFFICES ASSUME Init PROVE InteractionsInv
  OBVIOUS
<1> USE InteractionsAssumption
<1>1. NoRow \in Rows /\ NoRow.key = None /\ NoRow.state = "NONE" /\ None \notin Keys
  BY DEF NoRow, Rows
<1>2. \A e \in Events : inbox[e] = NoRow /\ sent[e] = 0
  BY DEF Init
<1>3. InteractionsTypeOK
  <2>1. /\ inbox \in [Events -> Rows] /\ sent \in [Events -> Nat]
        /\ \A e \in Events : inbox[e].state # "SUBMITTING" /\ e # doing
    BY <1>1, <1>2 DEF Init, Events
  <2>2. 0 \in 0 .. MaxTurns /\ 0 \in 0 .. MaxSurprises
    OBVIOUS
  <2> QED BY <2>1, <2>2 DEF Init, InteractionsTypeOK, Pcs
<1>4. OneRow
  BY <1>1, <1>2 DEF OneRow, Events
<1>5. Handled /\ CalledOnce /\ Aimed
  BY <1>1, <1>2 DEF Init, Handled, CalledOnce, Aimed
<1>6. Asked
  BY <1>1, <1>2 DEF Init, Asked, DoneIsOver, Keys
<1> QED BY <1>3, <1>4, <1>5, <1>6 DEF InteractionsInv

\* The states of a row.
States == {"NONE", "QUEUED", "SUBMITTING", "DONE", "REJECTED", "UNKNOWN", "DISMISSED"}

\* Settling a row changes its state only.
LEMMA SettleRow ==
  ASSUME inbox \in [Events -> Rows], NEW e \in Events, NEW s \in States, Settle(e, s)
  PROVE  /\ inbox' \in [Events -> Rows]
         /\ \A f \in Events : /\ inbox'[f].key = inbox[f].key
                              /\ inbox'[f].state = IF f = e THEN s ELSE inbox[f].state
<1>1. \A f \in Events : inbox'[f] = IF f = e THEN [inbox[f] EXCEPT !.state = s] ELSE inbox[f]
  BY DEF Settle
<1>2. \A f \in Events : inbox[f] \in Rows
  OBVIOUS
<1>3. /\ inbox[e].key \in Keys \cup {None}
      /\ [inbox[e] EXCEPT !.state = s] = [key |-> inbox[e].key, state |-> s]
  BY <1>2 DEF Rows
<1>4. inbox' = [f \in Events |-> inbox'[f]]
  BY DEF Settle
<1>5. \A f \in Events : inbox'[f] \in Rows
  BY <1>1, <1>2, <1>3 DEF Rows, States
<1> QED BY <1>1, <1>3, <1>4, <1>5

\* ... and keeps what is known of the interactions.
LEMMA SettledRows ==
  ASSUME OneRow, NEW e \in Events, inbox[e].state # "NONE", NEW s \in States \ {"NONE"}, UNCHANGED status,
         \A f \in Events : /\ inbox'[f].key = inbox[f].key
                         /\ inbox'[f].state = IF f = e THEN s ELSE inbox[f].state
  PROVE  OneRow'
<1>1. \A f \in Events : inbox'[f].key = None <=> inbox'[f].state = "NONE"
  BY DEF OneRow
<1>2. \A p \in Prompts : inbox'[p].key \in {None, p}
  BY DEF OneRow, Events
<1>3. \A f \in Events : inbox'[f].key \in Keys => status'[inbox'[f].key] \in {"CLAIMED", "EXPIRED"}
  BY DEF OneRow
<1>4. \A f, g \in Events : inbox'[f].key \in Keys /\ inbox'[f].key = inbox'[g].key => f = g
  BY DEF OneRow
<1> QED BY <1>1, <1>2, <1>3, <1>4 DEF OneRow

\* AGY's own progress: a turn that starts moves every call on its way, and the row under way.
LEMMA AgyStep ==
  ASSUME InteractionsInv, StartTurn \/ EndTurn \/ \E p \in Prompts : Ask(p) \/ Decide(p)
  PROVE  InteractionsInv'
<1> USE InteractionsAssumption DEF InteractionsInv
<1>1. CASE StartTurn
  <2>1. InteractionsTypeOK' /\ OneRow' /\ Handled' /\ CalledOnce' /\ Asked'
    BY <1>1 DEF StartTurn, InteractionsTypeOK, OneRow, Handled, CalledOnce, Asked, DoneIsOver, store, worker, InState
  <2>2. Aimed'
    BY <1>1 DEF StartTurn, InteractionsTypeOK, Handled, Aimed, store, worker
  <2> QED BY <2>1, <2>2
<1>2. CASE EndTurn
  BY <1>2 DEF EndTurn, InteractionsTypeOK, OneRow, Handled, CalledOnce, Aimed, Asked, DoneIsOver, store, worker, InState
<1>3. ASSUME NEW p \in Prompts, Ask(p) \/ Decide(p) PROVE InteractionsInv'
  <2>1. \A k \in Prompts : prompt'[k] # prompt[k] => prompt'[k] # "ahead" /\ prompt[k] # "over"
    BY <1>3 DEF Ask, Decide, InteractionsTypeOK
  <2>2. InteractionsTypeOK' /\ OneRow' /\ Handled' /\ CalledOnce' /\ Aimed'
    BY <1>3 DEF Ask, Decide, InteractionsTypeOK, OneRow, Handled, CalledOnce, Aimed, store, worker, InState
  <2>3. Asked'
    BY <1>3, <2>1 DEF Ask, Decide, InteractionsTypeOK, Asked, DoneIsOver, store, worker
  <2> QED BY <2>2, <2>3
<1> QED BY <1>1, <1>2, <1>3

\* A call arrives: a decision ends its prompt, a stop the turn and its prompts.
LEMMA ArriveStep == ASSUME InteractionsInv, NEW e \in Events, Arrive(e) PROVE InteractionsInv'
<1> USE InteractionsAssumption DEF InteractionsInv
<1>1. inbox[e].key \in Keys
  BY DEF Arrive, InteractionsTypeOK, Rows, OneRow, CalledOnce
<1>2. /\ prompt' \in [Prompts -> {"ahead", "waiting", "over"}]
      /\ \A k \in Prompts : prompt'[k] = prompt[k] \/ prompt'[k] = "over"
      /\ inbox[e].key \in Prompts /\ prompt[inbox[e].key] # "ahead" => prompt'[inbox[e].key] = "over"
      /\ running' \in BOOLEAN
  <2>1. CASE inbox[e].key \in Turns
    <3>1. running' = FALSE /\ prompt' = [p \in Prompts |-> IF p \in Waiting THEN "over" ELSE prompt[p]]
      BY <2>1 DEF Arrive
    <3> QED BY <2>1, <3>1, Apart DEF InteractionsTypeOK
  <2>2. CASE inbox[e].key \notin Turns
    BY <2>2, <1>1 DEF Arrive, InteractionsTypeOK, Keys
  <2> QED BY <2>1, <2>2
<1>3. inbox[e].key \in Prompts => prompt[inbox[e].key] # "ahead"
  BY <1>1 DEF OneRow, Asked
<1>4. InteractionsTypeOK' /\ OneRow' /\ Handled' /\ CalledOnce'
  BY <1>2 DEF Arrive, InteractionsTypeOK, OneRow, Handled, CalledOnce, store, worker, InState
<1>5. Aimed'
  BY <1>2 DEF Arrive, Aimed, Handled, CalledOnce, InteractionsTypeOK, store, worker
<1>6. Asked'
  BY <1>2, <1>3 DEF Arrive, Asked, DoneIsOver, InteractionsTypeOK, store, worker
<1> QED BY <1>4, <1>5, <1>6

\* An open interaction has no row: its first claim makes one.
LEMMA ClaimStep ==
  ASSUME InteractionsInv, NEW e \in Presses, NEW k \in Keys, Claim(e, k), pc # "down",
         UNCHANGED <<agy, flight, due, worker, sent, moved, surprises>>
  PROVE  InteractionsInv'
<1> USE InteractionsAssumption DEF InteractionsInv
<1>1. e \in Events /\ e \notin Prompts /\ Row(k) \in Rows /\ Row(k).key = k /\ Row(k).state = "QUEUED" /\ k # None
  BY DEF Events, Row, Rows, Keys
<1>2. /\ \A f \in Events : inbox'[f] = IF f = e THEN Row(k) ELSE inbox[f]
      /\ \A j \in Keys : status'[j] = IF j = k THEN "CLAIMED" ELSE status[j]
      /\ inbox' \in [Events -> Rows]
      /\ status' \in [Keys -> {"NONE", "OPEN", "CLAIMED", "EXPIRED", "CLOSED"}]
  BY <1>1 DEF Claim, InteractionsTypeOK
<1>3. inbox[e].state = "NONE" /\ inbox[e].key = None /\ status[k] = "OPEN" /\ \A f \in Events : inbox[f].key # k
  BY <1>1 DEF Claim, NoRow, OneRow
<1>4. InteractionsTypeOK'
  BY <1>1, <1>2, <1>3 DEF InteractionsTypeOK, agy, worker
<1>5. OneRow'
  <2>1. \A f \in Events : inbox'[f].key = IF f = e THEN k ELSE inbox[f].key
    BY <1>1, <1>2
  <2>2. \A f \in Events : inbox'[f].state = IF f = e THEN "QUEUED" ELSE inbox[f].state
    BY <1>1, <1>2
  <2>3. \A f \in Events : inbox'[f].key \in Keys => status'[inbox'[f].key] \in {"CLAIMED", "EXPIRED"}
    BY <1>2, <1>3, <2>1 DEF OneRow
  <2>4. \A f, g \in Events : inbox'[f].key \in Keys /\ inbox'[f].key = inbox'[g].key => f = g
    BY <1>3, <2>1 DEF OneRow
  <2> QED BY <1>1, <2>1, <2>2, <2>3, <2>4 DEF OneRow, Events
<1>6. Handled' /\ CalledOnce' /\ Aimed'
  BY <1>1, <1>2, <1>3 DEF Handled, CalledOnce, Aimed, InteractionsTypeOK, InState, agy, worker
<1>7. Asked'
  BY <1>1, <1>2, <1>3 DEF Asked, DoneIsOver, Handled, InteractionsTypeOK, agy, worker, Keys
<1> QED BY <1>4, <1>5, <1>6, <1>7

LEMMA ExpireStep == ASSUME InteractionsInv, NEW k \in Keys, Expire(k) PROVE InteractionsInv'
BY DEF Expire, InteractionsInv, InteractionsTypeOK, OneRow, Handled, CalledOnce, Aimed, Asked, DoneIsOver, agy, worker,
       InState

-----------------------------------------------------------------------------
(* The worker. *)

\* Reading the rows, and settling a doubtful one that turns out to be over.
LEMMA ReconcileStep ==
  ASSUME InteractionsInv, BeginTick \/ BeginRequests \/ \E e \in Events : ReconcileControl(e)
  PROVE  InteractionsInv'
<1> USE InteractionsAssumption DEF InteractionsInv, KeepsAgy, agy, store
<1>1. CASE BeginTick \/ BeginRequests
  BY <1>1 DEF BeginTick, BeginRequests, InteractionsTypeOK, Pcs, OneRow, Handled, CalledOnce, Aimed, Asked, DoneIsOver,
              InState
<1>2. ASSUME NEW e \in Events, ReconcileControl(e) PROVE InteractionsInv'
  <2>1. /\ pc = "reconcile" /\ doing = None /\ inbox[e].state = "UNKNOWN"
        /\ todo' = todo \ {e}
        /\ UNCHANGED <<turn, running, prompt, flight, status, due, pc, doing, snap, shown, sent, moved>>
    BY <1>2 DEF ReconcileControl, Handled, InState
  <2>2. surprises' \in 0 .. MaxSurprises
    BY <1>2 DEF ReconcileControl, Surprise, InteractionsTypeOK
  <2>3. CASE UNCHANGED inbox
    BY <2>1, <2>2, <2>3 DEF InteractionsTypeOK, OneRow, Handled, CalledOnce, Aimed, Asked, DoneIsOver, InState
  <2>4. CASE Settle(e, "DONE")
    <3>1. /\ inbox' \in [Events -> Rows]
          /\ \A f \in Events : /\ inbox'[f].key = inbox[f].key
                               /\ inbox'[f].state = IF f = e THEN "DONE" ELSE inbox[f].state
      BY <2>4, SettleRow DEF InteractionsTypeOK, States
    <3>2. InteractionsTypeOK' /\ Handled' /\ CalledOnce' /\ Aimed'
      BY <2>1, <2>2, <3>1 DEF InteractionsTypeOK, Handled, CalledOnce, Aimed, InState
    <3>5. OneRow'
      BY <2>1, <3>1, SettledRows DEF States
    <3>3. inbox[e].key \in Prompts => prompt[inbox[e].key] = "over"
      <4>1. ASSUME inbox[e].key \in Prompts PROVE inbox[e].key \notin Turns /\ prompt[inbox[e].key] # "ahead"
        BY <4>1, Apart DEF OneRow, Asked, Keys
      <4>2. ASSUME inbox[e].key \in Prompts, UNCHANGED inbox PROVE FALSE
        BY <4>2, <2>1, <3>1
      <4> QED BY <1>2, <4>1, <4>2 DEF ReconcileControl, InteractionsTypeOK
    <3>4. Asked'
      BY <2>1, <3>1, <3>3 DEF Asked, DoneIsOver, InteractionsTypeOK
    <3> QED BY <3>2, <3>4, <3>5
  <2> QED BY <1>2, <2>3, <2>4 DEF ReconcileControl
<1> QED BY <1>1, <1>2

\* The row under way changes its state to `s`, and its place to `next`.
LEMMA TakeStep == ASSUME InteractionsInv, NEW e \in Events, TakeControl(e) PROVE InteractionsInv'
<1> USE InteractionsAssumption DEF InteractionsInv, KeepsAgy, agy, TakeControl
<1>1. pc = "requests" /\ doing = None /\ inbox[e].state = "QUEUED"
  BY DEF Handled, InState
<1>2. /\ inbox' \in [Events -> Rows]
      /\ \A f \in Events : /\ inbox'[f].key = inbox[f].key
                           /\ inbox'[f].state = IF f = e THEN "SUBMITTING" ELSE inbox[f].state
  BY SettleRow DEF InteractionsTypeOK, States
<1>3. e # None
  BY DEF Events
<1>4. InteractionsTypeOK' /\ Handled' /\ CalledOnce' /\ Aimed'
  BY <1>1, <1>2, <1>3 DEF InteractionsTypeOK, Pcs, Handled, CalledOnce, Aimed, InState
<1>6. OneRow'
  BY <1>1, <1>2, SettledRows DEF States
<1>5. Asked'
  BY <1>1, <1>2 DEF Asked, DoneIsOver, InteractionsTypeOK
<1> QED BY <1>4, <1>5, <1>6

\* The row under way ends in a state that is not reported done, and queued only without a call.
LEMMA EndRow ==
  ASSUME InteractionsInv, doing # None, NEW s \in {"QUEUED", "REJECTED", "UNKNOWN", "DONE"}, Ends(s),
         s = "QUEUED" => sent[doing] = 0,
         s = "DONE" /\ inbox[doing].key \in Prompts => prompt[inbox[doing].key] = "over",
         flight' \subseteq flight, moved' \subseteq moved, moved \ {doing} \subseteq moved',
         doing \in flight' /\ doing \in moved => doing \in moved',
         surprises' \in 0 .. MaxSurprises,
         UNCHANGED <<agy, status, due, todo, snap, shown, sent>>
  PROVE  InteractionsInv'
<1> USE InteractionsAssumption DEF InteractionsInv, agy, Ends
<1>1. doing \in Events /\ s \in States /\ inbox[doing].state = "SUBMITTING" /\ pc # "down"
  BY DEF InteractionsTypeOK, States, Handled
<1>2. /\ inbox' \in [Events -> Rows]
      /\ \A f \in Events : /\ inbox'[f].key = inbox[f].key
                           /\ inbox'[f].state = IF f = doing THEN s ELSE inbox[f].state
  BY <1>1, SettleRow DEF InteractionsTypeOK
<1>3. todo \subseteq InState("QUEUED") /\ doing \notin todo
  BY <1>1 DEF Handled, InState
<1>4. InteractionsTypeOK'
  BY <1>1, <1>2 DEF InteractionsTypeOK, Pcs
<1>5. OneRow'
  BY <1>1, <1>2, SettledRows DEF States
<1>6. Handled'
  BY <1>1, <1>2, <1>3 DEF Handled, InState
<1>7. CalledOnce'
  BY <1>1, <1>2 DEF CalledOnce
<1>8. Aimed'
  <2>1. \A e \in flight' : e \in flight /\ (e \in moved => e \in moved') /\ e \in Events
    BY DEF InteractionsTypeOK
  <2>2. \A e \in flight' : inbox'[e].key \in Turns => turn' = inbox'[e].key \/ e \in moved'
    BY <1>2, <2>1 DEF Aimed
  <2> QED BY <2>2 DEF Aimed
<1>9. Asked'
  BY <1>1, <1>2 DEF Asked, DoneIsOver, InteractionsTypeOK
<1> QED BY <1>4, <1>5, <1>6, <1>7, <1>8, <1>9
\* The look before the write, the write and its answer.
LEMMA ControlStep ==
  ASSUME InteractionsInv, LookControl \/ RereadStep \/ CallControl \/ Answered \/ \E e \in Events : Vanish(e)
  PROVE  InteractionsInv'
<1> USE InteractionsAssumption DEF InteractionsInv, KeepsAgy, Goes, Surprise
<1>1. surprises' \in 0 .. MaxSurprises
  BY DEF LookControl, RereadStep, CallControl, Answered, Vanish, InteractionsTypeOK
<1>2. CASE LookControl
  <2>1. doing \in Events /\ doing # None /\ sent[doing] = 0 /\ doing \notin flight /\ pc = "view"
    BY <1>2 DEF LookControl, Handled, CalledOnce, InteractionsTypeOK
  <2>2. ASSUME NEW s \in {"QUEUED", "REJECTED"}, Ends(s) PROVE InteractionsInv'
    BY <1>1, <1>2, <2>1, <2>2, EndRow DEF LookControl
  <2>3. CASE /\ UNCHANGED <<inbox, doing>>
             /\ IF inbox[doing].key \in Turns THEN turn = inbox[doing].key ELSE prompt[inbox[doing].key] = "waiting"
             /\ pc' = IF inbox[doing].key \in Turns THEN "call" ELSE "reread"
    <3>1. inbox[doing].key \in Keys
      BY <2>1 DEF OneRow, Handled, InteractionsTypeOK, Rows
    <3>2. InteractionsTypeOK' /\ OneRow' /\ Handled' /\ CalledOnce'
      BY <1>1, <1>2, <2>1, <2>3, <3>1 DEF LookControl, agy, InteractionsTypeOK, Pcs, OneRow, Handled, CalledOnce, InState, Keys
    <3>3. Aimed' /\ Asked'
      BY <1>2, <2>1, <2>3 DEF LookControl, agy, Aimed, Asked, DoneIsOver, InteractionsTypeOK
    <3> QED BY <3>2, <3>3
  <2> QED BY <1>2, <2>2, <2>3 DEF LookControl
<1>3. CASE RereadStep
  <2>1. doing \in Events /\ doing # None /\ sent[doing] = 0 /\ pc = "reread" /\ inbox[doing].key \in Prompts
    BY <1>3 DEF RereadStep, Handled, CalledOnce, InteractionsTypeOK
  <2>2. CASE Ends("UNKNOWN")
    BY <1>1, <1>3, <2>1, <2>2, EndRow DEF RereadStep
  <2>3. CASE pc' = "call" /\ UNCHANGED <<inbox, doing>>
    <3>1. inbox[doing].key \notin Turns
      BY <2>1, Apart
    <3> QED BY <1>1, <1>3, <2>1, <2>3, <3>1 DEF RereadStep, agy, InteractionsTypeOK, Pcs, OneRow, Handled, CalledOnce,
               Aimed, Asked, DoneIsOver, InState
  <2> QED BY <1>3, <2>2, <2>3 DEF RereadStep
<1>4. CASE CallControl
  <2>1. doing \in Events /\ doing # None /\ sent[doing] = 0 /\ pc = "call"
    BY <1>4 DEF CallControl, Handled, CalledOnce, InteractionsTypeOK
  <2>2. CASE Ends("UNKNOWN") /\ UNCHANGED <<flight, sent>>
    BY <1>1, <1>4, <2>1, <2>2, EndRow DEF CallControl
  <2>3. CASE /\ pc' = "answer" /\ UNCHANGED <<inbox, doing>>
             /\ flight' = flight \cup {doing}
             /\ sent' = [sent EXCEPT ![doing] = @ + 1]
    <3>1. sent' \in [Events -> Nat] /\ \A e \in Events : sent'[e] = IF e = doing THEN 1 ELSE sent[e]
      BY <2>1, <2>3 DEF InteractionsTypeOK
    <3>2. InteractionsTypeOK' /\ OneRow' /\ Handled'
      BY <1>1, <1>4, <2>1, <2>3, <3>1 DEF CallControl, agy, InteractionsTypeOK, Pcs, OneRow, Handled, InState
    <3>3. CalledOnce' /\ Aimed' /\ Asked'
      BY <1>4, <2>1, <2>3, <3>1 DEF CallControl, agy, CalledOnce, Handled, Aimed, Asked, DoneIsOver, InteractionsTypeOK
    <3> QED BY <3>2, <3>3
  <2> QED BY <1>4, <2>2, <2>3 DEF CallControl
<1>5. CASE Answered
  <2>1. doing \in Events /\ doing # None /\ pc = "answer"
    BY <1>5 DEF Answered, Handled, InteractionsTypeOK
  <2>2. CASE Ends("UNKNOWN")
    BY <1>1, <1>5, <2>1, <2>2, EndRow DEF Answered
  <2>3. CASE Ends("DONE") /\ doing \notin flight
    BY <1>1, <1>5, <2>1, <2>3, EndRow DEF Answered, Asked
  <2> QED BY <1>5, <2>2, <2>3 DEF Answered
<1>6. ASSUME NEW e \in Events, Vanish(e) PROVE InteractionsInv'
  <2>1. CASE pc = "answer" /\ doing = e
    <3>1. doing # None
      BY <2>1 DEF Handled
    <3> QED BY <1>1, <1>6, <2>1, <3>1, EndRow DEF Vanish
  <2>2. CASE ~(pc = "answer" /\ doing = e)
    BY <1>1, <1>6, <2>2 DEF Vanish, agy, InteractionsTypeOK, OneRow, Handled, CalledOnce, Aimed, Asked, DoneIsOver, InState
  <2> QED BY <2>1, <2>2
<1> QED BY <1>2, <1>3, <1>4, <1>5, <1>6
\* The view of the tick: what is no longer live is closed, what is past its time gets its row.
LEMMA ViewStep == ASSUME InteractionsInv, ReadSnapshot \/ ProjectControls PROVE InteractionsInv'
<1> USE InteractionsAssumption DEF InteractionsInv, KeepsAgy, agy
<1>1. CASE ReadSnapshot
  BY <1>1 DEF ReadSnapshot, Surprise, store, InteractionsTypeOK, Pcs, OneRow, Handled, CalledOnce, Aimed, Asked,
              DoneIsOver, InState
<1>2. CASE ProjectControls
  <2> DEFINE live == Waiting \cup IF snap \/ Waiting # {} THEN {turn} ELSE {}
             over == {p \in Prompts : status[p] = "OPEN" /\ p \in live /\ p \in due}
  <2>1. /\ pc = "steps" /\ pc' = "sleep" /\ doing = None
        /\ UNCHANGED <<turn, running, prompt, flight, todo, doing, snap, sent, moved, surprises>>
        /\ status' = [k \in Keys |->
              IF status[k] = "OPEN" /\ k \notin live THEN "CLOSED"
              ELSE IF k \in over THEN "EXPIRED"
              ELSE IF status[k] = "NONE" /\ k \in live THEN "OPEN" ELSE status[k]]
        /\ inbox' = [e \in Events |-> IF e \in over THEN Row(e) ELSE inbox[e]]
        /\ due' = due \ (live \cap Turns)
        /\ shown' = {p \in Prompts : prompt[p] # "ahead"}
    BY <1>2 DEF ProjectControls, Handled
  <2>2. live \cap Prompts = Waiting
    BY DEF Waiting, InteractionsTypeOK, Turns
  <2>3. \A p \in over : status[p] = "OPEN" /\ p \in Prompts /\ prompt[p] = "waiting"
    BY <2>2 DEF Waiting
  <2>4. \A k \in Keys : status[k] = "NONE" /\ status'[k] # "NONE" => k \in live
    BY <2>1
  <2>5. /\ \A k \in over : status'[k] = "EXPIRED"
        /\ \A k \in Keys : status[k] \in {"CLAIMED", "EXPIRED"} => status'[k] = status[k]
        /\ status' \in [Keys -> {"NONE", "OPEN", "CLAIMED", "EXPIRED", "CLOSED"}]
    BY <2>1, <2>3 DEF InteractionsTypeOK, Keys
  <2> HIDE DEF over
  <2>6. \A p \in over : /\ p \in Events /\ p \in Keys /\ p # None
                        /\ inbox[p].key = None /\ inbox[p].state = "NONE"
                        /\ \A f \in Events : inbox[f].key # p
    BY <2>3 DEF OneRow, Keys, Events
  <2>7. /\ \A e \in Events : /\ inbox'[e].key = IF e \in over THEN e ELSE inbox[e].key
                            /\ inbox'[e].state = IF e \in over THEN "QUEUED" ELSE inbox[e].state
        /\ inbox' \in [Events -> Rows]
    <3>1. \A e \in over : Row(e) \in Rows /\ Row(e).key = e /\ Row(e).state = "QUEUED"
      BY <2>6 DEF Row, Rows
    <3> QED BY <2>1, <3>1 DEF InteractionsTypeOK
  <2>8. InteractionsTypeOK'
    BY <2>1, <2>5, <2>6, <2>7 DEF InteractionsTypeOK, Pcs
  <2>9. OneRow'
    <3>1. \A e \in Events : inbox'[e].key = None <=> inbox'[e].state = "NONE"
      BY <2>6, <2>7 DEF OneRow
    <3>2. \A p \in Prompts : inbox'[p].key \in {None, p}
      BY <2>7 DEF OneRow, Events
    <3>3. \A e \in Events : inbox'[e].key \in Keys => status'[inbox'[e].key] \in {"CLAIMED", "EXPIRED"}
      BY <2>5, <2>7 DEF OneRow
    <3>4. \A e, f \in Events : inbox'[e].key \in Keys /\ inbox'[e].key = inbox'[f].key => e = f
      BY <2>6, <2>7 DEF OneRow
    <3> QED BY <3>1, <3>2, <3>3, <3>4 DEF OneRow
  <2>10. Handled' /\ CalledOnce'
    BY <2>1, <2>6, <2>7 DEF Handled, CalledOnce
  <2>11. Aimed'
    <3>1. \A e \in flight : e \in Events /\ e \notin over
      BY <2>6 DEF CalledOnce, InteractionsTypeOK
    <3> QED BY <2>1, <2>7, <3>1 DEF Aimed
  <2>12. Asked'
    <3>1. \A p \in Prompts : status'[p] # "NONE" => prompt[p] # "ahead"
      BY <2>2, <2>4 DEF Asked, Keys, Waiting
    <3>2. DoneIsOver'
      BY <2>1, <2>7 DEF Asked, DoneIsOver
    <3> QED BY <2>1, <3>1, <3>2 DEF Asked
  <2> QED BY <2>8, <2>9, <2>10, <2>11, <2>12
<1> QED BY <1>1, <1>2

\* What was under way when the gateway died is in doubt.
LEMMA LifecycleStep ==
  ASSUME InteractionsInv, Crash \/ RecoverControls \/ \E e \in Events : AcknowledgeControl(e)
  PROVE  InteractionsInv'
<1> USE InteractionsAssumption DEF InteractionsInv, KeepsAgy, agy, store, worker
<1>1. CASE Crash
  <2>1. /\ pc' = "down" /\ todo' = {} /\ doing' = None /\ snap' = FALSE /\ shown' = {}
        /\ surprises' \in 0 .. MaxSurprises
        /\ UNCHANGED <<turn, running, prompt, flight, status, due, inbox, sent, moved>>
    BY <1>1 DEF Crash, Surprise, InteractionsTypeOK
  <2>3. InteractionsTypeOK' /\ Handled'
    BY <2>1 DEF InteractionsTypeOK, Pcs, Handled
  <2>2. OneRow' /\ CalledOnce' /\ Aimed' /\ Asked'
    BY <2>1 DEF OneRow, CalledOnce, Aimed, Asked, DoneIsOver
  <2> QED BY <2>2, <2>3
<1>2. CASE RecoverControls
  <2>1. /\ \A e \in Events : /\ inbox'[e].key = inbox[e].key
                            /\ inbox'[e].state = IF inbox[e].state = "SUBMITTING" THEN "UNKNOWN" ELSE inbox[e].state
        /\ inbox' \in [Events -> Rows]
    BY <1>2 DEF RecoverControls, InteractionsTypeOK, Rows
  <2>2. doing = None /\ pc = "down" /\ pc' = "sleep" /\ todo = {}
        /\ UNCHANGED <<turn, running, prompt, flight, status, due, todo, doing, snap, shown, sent, moved, surprises>>
    BY <1>2 DEF RecoverControls, Handled
  <2>3. \A e \in Events : e # None
    BY DEF Events
  <2>4. InteractionsTypeOK' /\ Handled' /\ CalledOnce' /\ Aimed' /\ Asked'
    BY <2>1, <2>2, <2>3 DEF InteractionsTypeOK, Pcs, Handled, CalledOnce, Aimed, Asked, DoneIsOver
  <2>5. OneRow'
    <3>1. \A e \in Events : inbox'[e].key = None <=> inbox'[e].state = "NONE"
      BY <2>1 DEF OneRow
    <3>2. \A p \in Prompts : inbox'[p].key \in {None, p}
      BY <2>1 DEF OneRow, Events
    <3>3. \A e \in Events : inbox'[e].key \in Keys => status'[inbox'[e].key] \in {"CLAIMED", "EXPIRED"}
      BY <2>1, <2>2 DEF OneRow
    <3>4. \A e, f \in Events : inbox'[e].key \in Keys /\ inbox'[e].key = inbox'[f].key => e = f
      BY <2>1 DEF OneRow
    <3> QED BY <3>1, <3>2, <3>3, <3>4 DEF OneRow
  <2> QED BY <2>4, <2>5
<1>3. ASSUME NEW e \in Events, AcknowledgeControl(e) PROVE InteractionsInv'
  <2>1. /\ inbox[e].state = "UNKNOWN" /\ pc = "down"
        /\ UNCHANGED <<turn, running, prompt, flight, status, due, pc, todo, doing, snap, shown, sent, moved, surprises>>
    BY <1>3 DEF AcknowledgeControl
  <2>2. /\ inbox' \in [Events -> Rows]
        /\ \A f \in Events : /\ inbox'[f].key = inbox[f].key
                            /\ inbox'[f].state = IF f = e THEN "DISMISSED" ELSE inbox[f].state
    BY <1>3, SettleRow DEF AcknowledgeControl, InteractionsTypeOK, States
  <2>3. InteractionsTypeOK' /\ Handled' /\ CalledOnce' /\ Aimed' /\ Asked'
    BY <2>1, <2>2 DEF InteractionsTypeOK, Handled, CalledOnce, Aimed, Asked, DoneIsOver
  <2>4. OneRow'
    BY <2>1, <2>2, SettledRows DEF States
  <2> QED BY <2>3, <2>4
<1> QED BY <1>1, <1>2, <1>3

LEMMA InteractionsInvStep == InteractionsInv /\ [Next]_vars => InteractionsInv'
<1> SUFFICES ASSUME InteractionsInv, [Next]_vars PROVE InteractionsInv'
  OBVIOUS
<1>1. CASE UNCHANGED vars
  BY <1>1 DEF vars, agy, store, worker, InteractionsInv, InteractionsTypeOK, OneRow, Handled, CalledOnce, Aimed, Asked,
              DoneIsOver, InState
<1>2. CASE Work
  BY <1>2, ReconcileStep, TakeStep, ControlStep, ViewStep DEF Work
<1>3. CASE StartTurn \/ EndTurn \/ \E p \in Prompts : Ask(p) \/ Decide(p)
  BY <1>3, AgyStep
<1>4. CASE Crash \/ RecoverControls \/ \E e \in Events : AcknowledgeControl(e)
  BY <1>4, LifecycleStep
<1>5. ASSUME NEW e \in Events, Arrive(e) \/ Vanish(e) PROVE InteractionsInv'
  BY <1>5, ArriveStep, ControlStep
<1>6. ASSUME NEW e \in Presses, NEW k \in Keys, Press(e, k) PROVE InteractionsInv'
  BY <1>6, ClaimStep DEF Press
<1>7. ASSUME NEW e \in Presses, NEW p \in Questions, AnswerText(e, p) PROVE InteractionsInv'
  BY <1>7, ClaimStep, InteractionsAssumption DEF AnswerText, Keys
<1>8. ASSUME NEW k \in Keys, Expire(k) PROVE InteractionsInv'
  BY <1>8, ExpireStep
<1> QED BY <1>1, <1>2, <1>3, <1>4, <1>5, <1>6, <1>7, <1>8 DEF Next

\* The inductive invariant holds in every reachable state.
THEOREM InteractionsCorrect == Spec => []InteractionsInv
BY InteractionsInvInit, InteractionsInvStep, PTL DEF Spec

\* Two presses, an answer and an expiry decide an interaction once, whatever fails.
THEOREM OneDecision == Spec => []DecidedOnce
<1>1. ASSUME InteractionsInv PROVE DecidedOnce
  <2>1. \A e \in Events : sent[e] > 0 => inbox[e].key \in Keys
    BY <1>1 DEF InteractionsInv, InteractionsTypeOK, Rows, OneRow, CalledOnce
  <2> QED BY <1>1, <2>1 DEF InteractionsInv, OneRow, CalledOnce, DecidedOnce
<1> QED BY <1>1, InteractionsCorrect, PTL

\* A decision reported done has ended the wait of its prompt.
THEOREM DoneIsTrue == Spec => []DoneIsOver
<1>1. InteractionsInv => DoneIsOver
  BY DEF InteractionsInv, Asked
<1> QED BY <1>1, InteractionsCorrect, PTL

\* A stop ends the turn of its button, or one that started after the worker had looked.
THEOREM StopsAreAimed == Spec => StopHitsItsTurn
<1>1. ASSUME InteractionsInv, [Next]_vars, NEW e \in flight \ flight', inbox[e].key \in Turns, running # running'
      PROVE  turn = inbox[e].key \/ e \in moved
  BY <1>1 DEF InteractionsInv, Aimed
<1>2. InteractionsInv /\ [Next]_vars =>
        [\A e \in flight \ flight' : inbox[e].key \in Turns /\ running # running' =>
             turn = inbox[e].key \/ e \in moved]_vars
  BY <1>1
<1> QED BY <1>2, InteractionsCorrect, PTL DEF Spec, StopHitsItsTurn

-----------------------------------------------------------------------------
(* The decision of an interaction is an effect of module Effects. *)

\* A turn with a stop button has begun, and what was refused was not called.
Begun ==
  /\ \A k \in Turns : status[k] # "NONE" => k <= turn
  /\ \A e \in Events : inbox[e].state = "REJECTED" => sent[e] = 0

LEMMA BegunStep == InteractionsInv /\ Begun /\ [Next]_vars => Begun'
<1> SUFFICES ASSUME InteractionsInv, Begun, [Next]_vars PROVE Begun'
  OBVIOUS
<1> USE InteractionsAssumption DEF InteractionsInv, Begun, Turns
<1>1. CASE \/ UNCHANGED vars \/ EndTurn \/ Crash \/ BeginTick \/ BeginRequests \/ ReadSnapshot
           \/ \E p \in Prompts : Ask(p) \/ Decide(p)
           \/ \E e \in Events : Arrive(e)
           \/ \E k \in Keys : Expire(k)
  BY <1>1 DEF vars, agy, store, worker, EndTurn, Crash, BeginTick, BeginRequests, ReadSnapshot, Ask, Decide, Arrive,
              Expire, KeepsAgy
<1>2. CASE StartTurn
  BY <1>2 DEF StartTurn, store, InteractionsTypeOK
<1>3. ASSUME NEW e \in Presses, NEW k \in Keys, Claim(e, k), UNCHANGED <<agy, sent>> PROVE Begun'
  <2>1. \A f \in Events : inbox'[f].state = "REJECTED" => inbox[f].state = "REJECTED"
    BY <1>3 DEF Claim, Row, InteractionsTypeOK, Events
  <2>2. \A j \in Keys : status'[j] # "NONE" => status[j] # "NONE"
    BY <1>3 DEF Claim, InteractionsTypeOK
  <2> QED BY <1>3, <2>1, <2>2 DEF agy, Keys
<1>4. ASSUME NEW e \in Events, NEW s \in States, Settle(e, s), s = "REJECTED" => sent[e] = 0,
             UNCHANGED <<turn, status, sent>>
      PROVE  Begun'
  <2>1. \A f \in Events : inbox'[f].state = IF f = e THEN s ELSE inbox[f].state
    BY <1>4, SettleRow DEF InteractionsTypeOK
  <2> QED BY <1>4, <2>1
<1>5. CASE \E e \in Events : ReconcileControl(e) \/ TakeControl(e) \/ AcknowledgeControl(e)
  <2>1. PICK e \in Events : ReconcileControl(e) \/ TakeControl(e) \/ AcknowledgeControl(e)
    BY <1>5
  <2>2. UNCHANGED <<turn, status, sent>>
        /\ (UNCHANGED inbox \/ \E s \in States \ {"REJECTED"} : Settle(e, s))
    BY <2>1 DEF ReconcileControl, TakeControl, AcknowledgeControl, KeepsAgy, agy, States
  <2> QED BY <1>4, <2>2
<1>6. CASE LookControl \/ RereadStep \/ CallControl \/ Answered \/ \E e \in Events : Vanish(e)
  <2>1. UNCHANGED <<turn, status>>
    BY <1>6 DEF LookControl, RereadStep, CallControl, Answered, Vanish, KeepsAgy, agy
  <2>2. (doing \in Events /\ inbox[doing].state = "SUBMITTING") \/ UNCHANGED <<inbox, sent>>
    BY <1>6 DEF LookControl, RereadStep, CallControl, Answered, Vanish, Handled, InteractionsTypeOK
  <2>3. CASE UNCHANGED inbox /\ \A e \in Events : e # doing => sent'[e] = sent[e]
    BY <2>1, <2>2, <2>3
  <2>4. CASE UNCHANGED sent /\ doing \in Events /\ \E s \in States : Settle(doing, s) /\ (s = "REJECTED" => LookControl)
    <3>1. LookControl => sent[doing] = 0
      BY DEF LookControl, CalledOnce
    <3> QED BY <1>4, <2>1, <2>4, <3>1
  <2>5. CASE LookControl
    BY <2>2, <2>3, <2>4, <2>5 DEF LookControl, Goes, Ends, States, Handled, InteractionsTypeOK
  <2>6. CASE RereadStep \/ Answered \/ \E e \in Events : Vanish(e)
    BY <2>2, <2>3, <2>4, <2>6 DEF RereadStep, Answered, Vanish, Goes, Ends, States, Handled, InteractionsTypeOK
  <2>7. CASE CallControl
    BY <2>2, <2>3, <2>4, <2>7 DEF CallControl, Goes, Ends, States, Handled, InteractionsTypeOK
  <2> QED BY <1>6, <2>5, <2>6, <2>7
<1>7. CASE ProjectControls
  <2>1. /\ \A k \in Turns : status[k] = "NONE" /\ status'[k] # "NONE" => k = turn
        /\ UNCHANGED <<turn, sent>>
    <3>1. Turns \subseteq Keys /\ Waiting \cap Turns = {}
      BY Apart DEF Keys, Waiting
    <3> QED BY <1>7, <3>1 DEF ProjectControls, KeepsAgy, agy
  <2>2. \A e \in Events : inbox'[e].state = "REJECTED" => inbox[e].state = "REJECTED"
    BY <1>7 DEF ProjectControls, Row
  <2> QED BY <2>1, <2>2 DEF InteractionsTypeOK
<1>8. CASE RecoverControls
  <2>1. \A e \in Events : inbox'[e].state = "REJECTED" => inbox[e].state = "REJECTED"
    BY <1>8 DEF RecoverControls, InteractionsTypeOK, Rows
  <2> QED BY <1>8, <2>1 DEF RecoverControls, KeepsAgy, agy
<1>9. CASE \E e \in Presses : \/ \E k \in Keys : Press(e, k)
                             \/ \E p \in Questions : AnswerText(e, p)
  BY <1>3, <1>9 DEF Press, AnswerText, Keys
<1> QED BY <1>1, <1>2, <1>5, <1>6, <1>7, <1>8, <1>9 DEF Next, Work

\* An interaction has the state of its row.
LEMMA RowOf ==
  ASSUME OneRow, NEW e \in Events, inbox[e].key \in Keys
  PROVE  StateOf(inbox[e].key) = inbox[e].state
BY DEF OneRow, StateOf

LEMMA RowOfNext ==
  ASSUME OneRow', NEW e \in Events, inbox'[e].key \in Keys
  PROVE  StateOf(inbox[e].key)' = inbox'[e].state
BY DEF OneRow, StateOf

LEMMA NoRowOf ==
  ASSUME NEW k
  PROVE  /\ (\A e \in Events : inbox[e].key # k) => StateOf(k) = "NONE"
         /\ (\A e \in Events : inbox'[e].key # k) => StateOf(k)' = "NONE"
BY DEF StateOf

LEMMA PhaseStays ==
  ASSUME NEW k \in Keys, StateOf(k)' = StateOf(k)
  PROVE  Phase'[k] = Phase[k]
BY DEF Phase

\* Nothing that the abstract promise sees has changed.
LEMMA Stutters ==
  ASSUME \A k \in Keys : StateOf(k)' = StateOf(k), UNCHANGED <<Called, Over>>
  PROVE  UNCHANGED Promise!effectVars
<1>1. Phase = [k \in Keys |-> Phase[k]] /\ Phase' = [k \in Keys |-> Phase'[k]]
  BY DEF Phase
<1>2. Phase' = Phase
  BY <1>1, PhaseStays, Zenon
<1> QED BY <1>2 DEF Promise!effectVars

\* What is called depends on the rows and the calls, what is over on AGY.
LEMMA SameCalls ==
  ASSUME \A e \in Events : inbox'[e].key = inbox[e].key /\ sent'[e] = sent[e]
  PROVE  UNCHANGED Called
BY DEF Called

LEMMA SameAgy == ASSUME UNCHANGED agy PROVE UNCHANGED Over
BY DEF agy, Over

\* One row changes its state.
LEMMA RowSettled ==
  ASSUME InteractionsInv, InteractionsInv', NEW e \in Events, NEW s \in States, Settle(e, s), inbox[e].key \in Keys
  PROVE  /\ StateOf(inbox[e].key) = inbox[e].state /\ StateOf(inbox[e].key)' = s
         /\ \A k \in Keys : k # inbox[e].key => StateOf(k)' = StateOf(k)
         /\ UNCHANGED sent => UNCHANGED Called
         /\ Phase' = [k \in Keys |-> IF k \in {inbox[e].key} THEN Phase'[inbox[e].key] ELSE Phase[k]]
<1> USE DEF InteractionsInv
<1>1. \A f \in Events : /\ inbox'[f].key = inbox[f].key
                        /\ inbox'[f].state = IF f = e THEN s ELSE inbox[f].state
  BY SettleRow DEF InteractionsTypeOK
<1>2. StateOf(inbox[e].key) = inbox[e].state /\ StateOf(inbox[e].key)' = s
  <2>1. StateOf(inbox[e].key) = inbox[e].state
    BY RowOf
  <2>2. StateOf(inbox[e].key)' = inbox'[e].state
    BY <1>1, RowOfNext
  <2> QED BY <1>1, <2>1, <2>2
<1>3. ASSUME NEW k \in Keys, k # inbox[e].key PROVE StateOf(k)' = StateOf(k)
  <2>1. CASE \E f \in Events : inbox[f].key = k
    <3>1. PICK f \in Events : inbox[f].key = k
      BY <2>1
    <3>2. StateOf(k) = inbox[f].state
      BY <3>1, RowOf
    <3>3. StateOf(inbox[f].key)' = inbox'[f].state
      BY <1>1, <3>1, RowOfNext
    <3> QED BY <1>1, <1>3, <3>1, <3>2, <3>3
  <2>2. CASE \A f \in Events : inbox[f].key # k
    BY <1>1, <2>2, NoRowOf
  <2> QED BY <2>1, <2>2
<1>4. UNCHANGED sent => UNCHANGED Called
  BY <1>1, SameCalls
<1>5. Phase' = [k \in Keys |-> Phase'[k]]
  BY DEF Phase
<1>6. \A k \in Keys : k # inbox[e].key => Phase'[k] = Phase[k]
  BY <1>3, PhaseStays
<1> QED BY <1>2, <1>3, <1>4, <1>5, <1>6

\* AGY, its desktop and the calls that reach it make more of what was asked for so.
LEMMA HappenEffects ==
  ASSUME InteractionsInv, Begun,
         StartTurn \/ EndTurn \/ (\E p \in Prompts : Ask(p) \/ Decide(p)) \/ \E e \in Events : Arrive(e)
  PROVE  [Promise!EffectsNext]_Promise!effectVars
<1> USE InteractionsAssumption DEF InteractionsInv, Turns
<1>1. UNCHANGED <<inbox, sent>>
  BY DEF StartTurn, EndTurn, Ask, Decide, Arrive, store
<1>2. UNCHANGED <<Phase, Called>>
  BY <1>1 DEF Phase, StateOf, Called
<1>3. Over \subseteq Over'
  <2>1. \A p \in Prompts : prompt[p] = "over" => prompt'[p] = "over"
    BY DEF StartTurn, EndTurn, Ask, Decide, Arrive, InteractionsTypeOK, Waiting
  <2>2. (turn' = turn /\ (~running => ~running')) \/ turn' = turn + 1
    BY DEF StartTurn, EndTurn, Ask, Decide, Arrive
  <2> QED BY <2>1, <2>2 DEF Over, InteractionsTypeOK
<1>4. \A k \in Keys : Phase[k] = "refused" => k \notin Called
  <2> SUFFICES ASSUME NEW k \in Keys, Phase[k] = "refused", NEW e \in Events, inbox[e].key = k
               PROVE  sent[e] = 0
    BY DEF Called
  <2>1. StateOf(k) = inbox[e].state
    BY RowOf
  <2>2. inbox[e].state = "REJECTED"
    BY <2>1 DEF Phase
  <2> QED BY <2>2 DEF Begun
<1>5. Over' \subseteq Keys
  BY DEF Over, Keys
<1>6. Promise!Happen(Over')
  BY <1>2, <1>3, <1>4, <1>5 DEF Promise!Happen
<1> QED BY <1>5, <1>6 DEF Promise!EffectsNext

\* A claim or an expiry leaves the first row of its interaction.
LEMMA AskedEffects ==
  ASSUME InteractionsInv, InteractionsInv', UNCHANGED <<agy, sent>>,
         \A e \in Events :
           \/ inbox'[e] = inbox[e]
           \/ /\ inbox[e].state = "NONE" /\ inbox'[e].state = "QUEUED"
              /\ inbox'[e].key \in Keys /\ status[inbox'[e].key] = "OPEN"
  PROVE  Promise!EffectsNext
<1> USE DEF InteractionsInv
<1> DEFINE S == {k \in Keys : status[k] = "OPEN" /\ \E e \in Events : inbox'[e].key = k}
<1>1. \A k \in S : k \in Keys /\ \E e \in Events : inbox'[e].key = k
  OBVIOUS
<1>2. \A k \in S : \A e \in Events : inbox[e].key # k
  BY DEF OneRow
<1>3. \A e \in Events : \/ inbox'[e] = inbox[e]
                        \/ inbox[e].state = "NONE" /\ inbox'[e].state = "QUEUED" /\ inbox'[e].key \in S
  OBVIOUS
<1> HIDE DEF S
<1>4. ASSUME NEW k \in S PROVE Phase[k] = "absent" /\ Phase'[k] = "waiting"
  <2>1. StateOf(k) = "NONE"
    BY <1>2, NoRowOf
  <2>2. PICK e \in Events : inbox'[e].key = k
    BY <1>1
  <2>3. inbox'[e].state = "QUEUED"
    BY <1>2, <1>3, <2>2
  <2>4. StateOf(inbox[e].key)' = inbox'[e].state
    BY <1>1, <2>2, RowOfNext
  <2> QED BY <1>1, <2>1, <2>2, <2>3, <2>4 DEF Phase
<1>5. ASSUME NEW k \in Keys \ S PROVE StateOf(k)' = StateOf(k)
  <2>1. ASSUME NEW e \in Events, inbox[e].key = k PROVE inbox'[e] = inbox[e]
    BY <1>3, <2>1, InteractionsAssumption DEF OneRow, Keys, Events
  <2>2. ASSUME NEW e \in Events, inbox'[e].key = k PROVE inbox[e].key = k
    BY <1>2, <1>3, <2>2
  <2>3. CASE \E e \in Events : inbox[e].key = k
    <3>1. PICK e \in Events : inbox[e].key = k
      BY <2>3
    <3>2. inbox'[e] = inbox[e]
      BY <2>1, <3>1
    <3>3. StateOf(inbox[e].key) = inbox[e].state
      BY <3>1, RowOf
    <3>4. StateOf(inbox[e].key)' = inbox'[e].state
      BY <3>1, <3>2, RowOfNext
    <3> QED BY <3>1, <3>2, <3>3, <3>4
  <2>4. CASE \A e \in Events : inbox[e].key # k
    BY <2>2, <2>4, NoRowOf
  <2> QED BY <2>3, <2>4
<1>6. UNCHANGED <<Called, Over>>
  <2>1. \A e \in Events : sent[e] > 0 => inbox'[e] = inbox[e]
    BY <1>3 DEF CalledOnce
  <2>2. UNCHANGED Called
    BY <2>1 DEF Called
  <2> QED BY <2>2, SameAgy
<1>7. Phase' = [k \in Keys |-> Phase'[k]]
  BY DEF Phase
<1>8. Promise!Moves(S, {"absent"}, "waiting")
  BY <1>4, <1>5, <1>7, PhaseStays DEF Promise!Moves
<1> QED BY <1>1, <1>6, <1>8 DEF Promise!Ask, Promise!EffectsNext

\* What may become of a row.
Allowed(e, s) ==
  \/ inbox[e].state = "QUEUED" /\ s = "SUBMITTING"
  \/ inbox[e].state = "SUBMITTING" /\ s \in {"QUEUED", "REJECTED"} /\ sent[e] = 0
  \/ inbox[e].state = "SUBMITTING" /\ s = "UNKNOWN"
  \/ inbox[e].state \in {"SUBMITTING", "UNKNOWN"} /\ s = "DONE" /\ inbox[e].key \in Over
  \/ inbox[e].state = "UNKNOWN" /\ s = "DISMISSED"

\* It is what the abstract promise allows for the interaction.
LEMMA RowEffects ==
  ASSUME InteractionsInv, InteractionsInv', NEW e \in Events, NEW s \in States, Settle(e, s), Allowed(e, s),
         UNCHANGED <<agy, sent>>
  PROVE  Promise!EffectsNext
<1> DEFINE k == inbox[e].key
<1>1. k \in Keys
  BY DEF InteractionsInv, InteractionsTypeOK, Rows, OneRow, Allowed
<1>2. /\ StateOf(k) = inbox[e].state /\ UNCHANGED <<Called, Over>>
      /\ Phase' = [j \in Keys |-> IF j \in {k} THEN Phase'[k] ELSE Phase[j]]
  BY <1>1, RowSettled, SameAgy
<1>3. StateOf(k)' = s /\ inbox'[e].key = inbox[e].key
  BY <1>1, RowSettled, SettleRow DEF InteractionsInv, InteractionsTypeOK
<1>4. sent[e] = 0 => k \notin Called
  BY <1>1 DEF Called, InteractionsInv, OneRow
<1>5. /\ Phase[k] = "waiting" <=> inbox[e].state = "QUEUED"
      /\ Phase[k] = "tried" <=> inbox[e].state = "SUBMITTING"
      /\ Phase[k] = "doubt" <=> inbox[e].state = "UNKNOWN"
  BY <1>1, <1>2 DEF Phase
<1>6. Phase'[k] = CASE s = "SUBMITTING" -> "tried" [] s = "QUEUED" -> "waiting" [] s = "REJECTED" -> "refused"
                    [] s = "UNKNOWN" -> "doubt" [] s = "DONE" -> "done" [] s = "DISMISSED" -> "dismissed"
  <2>1. \A j \in Keys : inbox'[e].key = j /\ StateOf(j)' = s => Phase'[j] =
          CASE s = "SUBMITTING" -> "tried" [] s = "QUEUED" -> "waiting" [] s = "REJECTED" -> "refused"
            [] s = "UNKNOWN" -> "doubt" [] s = "DONE" -> "done" [] s = "DISMISSED" -> "dismissed"
    BY DEF Phase, Allowed
  <2> QED BY <1>1, <1>3, <2>1
<1> HIDE DEF k
<1>7. CASE inbox[e].state = "QUEUED" /\ s = "SUBMITTING"
  BY <1>1, <1>2, <1>5, <1>6, <1>7 DEF Promise!EffectsNext, Promise!Try, Promise!Moves
<1>8. CASE inbox[e].state = "SUBMITTING" /\ s = "QUEUED" /\ sent[e] = 0
  BY <1>1, <1>2, <1>4, <1>5, <1>6, <1>8 DEF Promise!EffectsNext, Promise!Return, Promise!Moves
<1>9. CASE inbox[e].state = "SUBMITTING" /\ s = "REJECTED" /\ sent[e] = 0
  BY <1>1, <1>2, <1>4, <1>5, <1>6, <1>9 DEF Promise!EffectsNext, Promise!Refuse, Promise!Moves
<1>10. CASE inbox[e].state = "SUBMITTING" /\ s = "UNKNOWN"
  <2>1. Promise!Doubt({k})
    BY <1>1, <1>2, <1>5, <1>6, <1>10 DEF Promise!Doubt, Promise!Moves
  <2> QED BY <1>1, <2>1 DEF Promise!EffectsNext
<1>11. CASE inbox[e].state \in {"SUBMITTING", "UNKNOWN"} /\ s = "DONE" /\ k \in Over
  BY <1>1, <1>2, <1>5, <1>6, <1>11 DEF Promise!EffectsNext, Promise!Confirm, Promise!Moves
<1>12. CASE inbox[e].state = "UNKNOWN" /\ s = "DISMISSED"
  BY <1>1, <1>2, <1>5, <1>6, <1>12 DEF Promise!EffectsNext, Promise!Dismiss, Promise!Moves
<1> QED BY <1>7, <1>8, <1>9, <1>10, <1>11, <1>12 DEF Allowed, k

\* The worker leaves the interactions and AGY alone.
LEMMA QuietEffects ==
  ASSUME UNCHANGED <<agy, inbox, sent>>
  PROVE  UNCHANGED Promise!effectVars
BY SameAgy, SameCalls, Stutters DEF StateOf

\* A prompt or a turn that a row is for, and that is not waiting or running, is over.
LEMMA SeenOver ==
  ASSUME InteractionsInv, Begun, NEW e \in Events, inbox[e].key \in Keys,
         IF inbox[e].key \in Turns THEN ~running ELSE prompt[inbox[e].key] # "waiting"
  PROVE  inbox[e].key \in Over
<1>1. status[inbox[e].key] # "NONE"
  BY DEF InteractionsInv, OneRow
<1> QED BY <1>1, InteractionsAssumption DEF InteractionsInv, InteractionsTypeOK, Begun, Asked, Over, Keys, Turns

\* The worker's steps for a row.
LEMMA RowsEffects ==
  ASSUME InteractionsInv, InteractionsInv', Begun, NEW e \in Events,
         ReconcileControl(e) \/ TakeControl(e) \/ AcknowledgeControl(e)
  PROVE  [Promise!EffectsNext]_Promise!effectVars
<1>1. UNCHANGED <<agy, sent>>
  BY DEF ReconcileControl, TakeControl, AcknowledgeControl, KeepsAgy
<1>2. CASE UNCHANGED inbox
  BY <1>1, <1>2, QuietEffects
<1>3. CASE ReconcileControl(e) /\ ~UNCHANGED inbox
  <2>1. inbox[e].state = "UNKNOWN" /\ inbox[e].key \in Keys
    BY <1>3 DEF ReconcileControl, InteractionsInv, InteractionsTypeOK, Handled, InState, OneRow, Rows
  <2>2. Settle(e, "DONE") /\ IF inbox[e].key \in Turns THEN ~running ELSE prompt[inbox[e].key] # "waiting"
    BY <1>3 DEF ReconcileControl
  <2>3. Allowed(e, "DONE")
    BY <2>1, <2>2, SeenOver DEF Allowed
  <2> QED BY <1>1, <2>2, <2>3, RowEffects DEF States
<1>4. CASE TakeControl(e)
  <2>1. Settle(e, "SUBMITTING") /\ Allowed(e, "SUBMITTING")
    BY <1>4 DEF TakeControl, InteractionsInv, Handled, InState, Allowed
  <2> QED BY <1>1, <2>1, RowEffects DEF States
<1>5. CASE AcknowledgeControl(e)
  <2>1. Settle(e, "DISMISSED") /\ Allowed(e, "DISMISSED")
    BY <1>5 DEF AcknowledgeControl, Allowed
  <2> QED BY <1>1, <2>1, RowEffects DEF States
<1> QED BY <1>2, <1>3, <1>4, <1>5

\* The row under way: it is called once, and its outcome is that of the call.
LEMMA ControlEffects ==
  ASSUME InteractionsInv, InteractionsInv', Begun,
         LookControl \/ RereadStep \/ CallControl \/ Answered \/ \E e \in Events : Vanish(e)
  PROVE  [Promise!EffectsNext]_Promise!effectVars
<1> USE DEF Goes
<1>1. UNCHANGED agy
  BY DEF LookControl, RereadStep, CallControl, Answered, Vanish, KeepsAgy
<1>2. CASE UNCHANGED <<inbox, sent>>
  BY <1>1, <1>2, QuietEffects
<1>3. (doing \in Events /\ inbox[doing].state = "SUBMITTING" /\ inbox[doing].key \in Keys) \/ UNCHANGED <<inbox, sent>>
  BY DEF LookControl, RereadStep, CallControl, Answered, Vanish, InteractionsInv, InteractionsTypeOK, Handled, OneRow, Rows
<1>4. ASSUME NEW s \in States, Ends(s), Allowed(doing, s), UNCHANGED sent
      PROVE  [Promise!EffectsNext]_Promise!effectVars
  BY <1>1, <1>2, <1>3, <1>4, RowEffects DEF Ends
<1>5. CASE Ends("UNKNOWN") /\ UNCHANGED sent
  BY <1>2, <1>3, <1>4, <1>5 DEF Allowed, States
<1>6. CASE LookControl
  <2>1. sent[doing] = 0 /\ UNCHANGED sent
    BY <1>6 DEF LookControl, InteractionsInv, CalledOnce
  <2>2. CASE Ends("REJECTED")
    BY <1>2, <1>3, <1>4, <2>1, <2>2 DEF Allowed, States
  <2>3. CASE Ends("QUEUED")
    BY <1>2, <1>3, <1>4, <2>1, <2>3 DEF Allowed, States
  <2> QED BY <1>2, <1>6, <2>1, <2>2, <2>3 DEF LookControl
<1>7. CASE RereadStep \/ \E e \in Events : Vanish(e)
  BY <1>2, <1>5, <1>7 DEF RereadStep, Vanish
<1>8. CASE CallControl
  <2>1. CASE UNCHANGED inbox /\ sent' = [sent EXCEPT ![doing] = @ + 1]
    <3> DEFINE k == inbox[doing].key
    <3>1. sent[doing] = 0
      BY <1>8 DEF CallControl, InteractionsInv, CalledOnce
    <3>2. CASE ~UNCHANGED sent
      <4>1. k \in Keys /\ doing \in Events /\ inbox[doing].state = "SUBMITTING"
        BY <1>3, <3>2
      <4>2. sent'[doing] > 0 /\ \A e \in Events : e # doing => sent'[e] = sent[e]
        BY <2>1, <3>1, <4>1 DEF InteractionsInv, InteractionsTypeOK
      <4>3. k \notin Called
        BY <3>1, <4>1 DEF Called, InteractionsInv, OneRow
      <4>4. Called' = Called \cup {k}
        BY <2>1, <4>1, <4>2 DEF Called
      <4>5. Phase[k] = "tried" /\ UNCHANGED Phase
        <5>1. StateOf(k) = "SUBMITTING"
          BY <4>1, RowOf DEF InteractionsInv
        <5> QED BY <2>1, <4>1, <5>1 DEF Phase, StateOf
      <4> HIDE DEF k
      <4>6. Promise!Call(k)
        BY <1>1, <4>3, <4>4, <4>5, SameAgy DEF Promise!Call
      <4> QED BY <4>1, <4>6 DEF Promise!EffectsNext
    <3> QED BY <1>2, <2>1, <3>2
  <2> QED BY <1>5, <1>8, <2>1 DEF CallControl
<1>9. CASE Answered
  <2>1. CASE Ends("DONE") /\ doing \notin flight /\ ~(inbox[doing].key \in Turns /\ running)
    <3>1. UNCHANGED sent /\ (inbox[doing].key \in Prompts => prompt[inbox[doing].key] = "over")
      BY <1>9, <2>1 DEF Answered, InteractionsInv, Asked
    <3>2. CASE doing \in Events /\ inbox[doing].state = "SUBMITTING" /\ inbox[doing].key \in Keys
      <4>1. inbox[doing].key \in Over
        BY <2>1, <3>1, <3>2, SeenOver DEF Keys
      <4> QED BY <1>4, <2>1, <3>1, <3>2, <4>1 DEF Allowed, States
    <3> QED BY <1>2, <1>3, <3>2
  <2> QED BY <1>5, <1>9, <2>1 DEF Answered
<1> QED BY <1>6, <1>7, <1>8, <1>9

\* Presses, answers and expiries.
LEMMA ClaimEffects ==
  ASSUME InteractionsInv, InteractionsInv',
         \/ \E e \in Presses, k \in Keys : Claim(e, k) /\ UNCHANGED <<agy, sent>>
         \/ ProjectControls
  PROVE  [Promise!EffectsNext]_Promise!effectVars
<1>1. ASSUME NEW e \in Presses, NEW k \in Keys, Claim(e, k), UNCHANGED <<agy, sent>>
      PROVE  [Promise!EffectsNext]_Promise!effectVars
  <2>1. /\ status[k] = "OPEN" /\ inbox[e].state = "NONE"
        /\ inbox'[e].key = k /\ inbox'[e].state = "QUEUED"
        /\ \A f \in Events : f # e => inbox'[f] = inbox[f]
    BY <1>1, InteractionsAssumption DEF Claim, NoRow, Row, Events, InteractionsInv, InteractionsTypeOK
  <2>2. \A f \in Events :
          \/ inbox'[f] = inbox[f]
          \/ /\ inbox[f].state = "NONE" /\ inbox'[f].state = "QUEUED"
             /\ inbox'[f].key \in Keys /\ status[inbox'[f].key] = "OPEN"
    BY <2>1
  <2> QED BY <1>1, <2>2, AskedEffects
<1>2. CASE ProjectControls
  <2> DEFINE live == Waiting \cup IF snap \/ Waiting # {} THEN {turn} ELSE {}
             S == {p \in Prompts : status[p] = "OPEN" /\ p \in live /\ p \in due}
  <2>1. UNCHANGED <<agy, sent>> /\ inbox' = [e \in Events |-> IF e \in S THEN Row(e) ELSE inbox[e]]
    BY <1>2 DEF ProjectControls, KeepsAgy
  <2>2. \A p \in S : p \in Prompts /\ p \in Keys /\ p \in Events /\ status[p] = "OPEN"
    BY DEF Keys, Events
  <2> HIDE DEF S
  <2>3. \A p \in S : inbox[p].state = "NONE" /\ inbox'[p].key = p /\ inbox'[p].state = "QUEUED"
    BY <2>1, <2>2, InteractionsAssumption DEF InteractionsInv, OneRow, Row, Keys
  <2>4. \A e \in Events :
          \/ inbox'[e] = inbox[e]
          \/ /\ inbox[e].state = "NONE" /\ inbox'[e].state = "QUEUED"
             /\ inbox'[e].key \in Keys /\ status[inbox'[e].key] = "OPEN"
    BY <2>1, <2>2, <2>3
  <2> QED BY <2>1, <2>4, AskedEffects
<1> QED BY <1>1, <1>2

\* What was under way when the gateway died is in doubt.
LEMMA RecoverEffects ==
  ASSUME InteractionsInv, InteractionsInv', RecoverControls
  PROVE  [Promise!EffectsNext]_Promise!effectVars
<1> DEFINE S == {k \in Keys : StateOf(k) = "SUBMITTING"}
<1>1. UNCHANGED <<agy, sent>> /\ \A e \in Events :
        /\ inbox'[e].key = inbox[e].key
        /\ inbox'[e].state = IF inbox[e].state = "SUBMITTING" THEN "UNKNOWN" ELSE inbox[e].state
  BY DEF RecoverControls, KeepsAgy, InteractionsInv, InteractionsTypeOK, Rows
<1>2. ASSUME NEW k \in Keys PROVE StateOf(k)' = IF k \in S THEN "UNKNOWN" ELSE StateOf(k)
  <2>1. ASSUME NEW e \in Events, inbox[e].key = k PROVE StateOf(k)' = IF k \in S THEN "UNKNOWN" ELSE StateOf(k)
    <3>1. StateOf(k) = inbox[e].state
      BY <2>1, RowOf DEF InteractionsInv
    <3>2. StateOf(inbox[e].key)' = inbox'[e].state
      BY <1>1, <2>1, RowOfNext DEF InteractionsInv
    <3> QED BY <1>1, <2>1, <3>1, <3>2
  <2>2. CASE \A e \in Events : inbox[e].key # k
    BY <1>1, <2>2, NoRowOf
  <2> QED BY <2>1, <2>2
<1>3. \A k \in S : Phase[k] = "tried" /\ Phase'[k] = "doubt"
  BY <1>2 DEF Phase
<1>4. \A k \in Keys \ S : Phase'[k] = Phase[k]
  BY <1>2, PhaseStays
<1>5. Phase' = [k \in Keys |-> Phase'[k]] /\ S \in SUBSET Keys
  BY DEF Phase
<1>6. UNCHANGED <<Called, Over>>
  BY <1>1, SameCalls, SameAgy
<1> HIDE DEF S
<1>7. Promise!Moves(S, {"tried"}, "doubt")
  BY <1>3, <1>4, <1>5 DEF Promise!Moves
<1>8. Promise!Doubt(S)
  BY <1>6, <1>7 DEF Promise!Doubt
<1> QED BY <1>5, <1>8 DEF Promise!EffectsNext

LEMMA EffectsStep == InteractionsInv /\ Begun /\ [Next]_vars => [Promise!EffectsNext]_Promise!effectVars
<1> SUFFICES ASSUME InteractionsInv, Begun, [Next]_vars PROVE [Promise!EffectsNext]_Promise!effectVars
  OBVIOUS
<1>1. InteractionsInv'
  BY InteractionsInvStep
<1>2. CASE \/ UNCHANGED vars \/ Crash \/ BeginTick \/ BeginRequests \/ ReadSnapshot \/ \E k \in Keys : Expire(k)
  <2>1. UNCHANGED <<agy, inbox, sent>>
    BY <1>2 DEF vars, store, Crash, BeginTick, BeginRequests, ReadSnapshot, Expire, KeepsAgy
  <2> QED BY <2>1, QuietEffects
<1>3. CASE \E e \in Presses : \/ \E k \in Keys : Press(e, k)
                             \/ \E p \in Questions : AnswerText(e, p)
  <2>1. \E e \in Presses, k \in Keys : Claim(e, k) /\ UNCHANGED <<agy, sent>>
    BY <1>3, InteractionsAssumption DEF Press, AnswerText, Keys
  <2> QED BY <1>1, <2>1, ClaimEffects
<1> QED BY <1>1, <1>2, <1>3, HappenEffects, RowsEffects, ControlEffects, ClaimEffects, RecoverEffects DEF Next, Work

\* For every prompt and every turn: its decision is written down, called, answered and given
\* up as the abstract promise has it.
THEOREM InteractionsImplementsEffects == Spec => ImplementsEffects
<1>1. Init => Begun
  BY DEF Init, Begun, Keys, NoRow
<1>2. Init => Promise!EffectsInit
  <2> SUFFICES ASSUME Init PROVE Promise!EffectsInit
    OBVIOUS
  <2>1. \A k \in Keys, e \in Events : inbox[e].key # k
    BY InteractionsAssumption DEF Init, NoRow
  <2>2. \A k \in Keys : StateOf(k) = "NONE"
    BY <2>1, NoRowOf
  <2>3. Phase = [k \in Keys |-> "absent"]
    BY <2>2 DEF Phase
  <2>4. Called = {} /\ Over = {}
    BY <2>1, InteractionsAssumption DEF Init, Called, Over, Turns
  <2> QED BY <2>3, <2>4 DEF Promise!EffectsInit
<1>3. Spec => []Begun
  BY <1>1, BegunStep, InteractionsCorrect, PTL DEF Spec
<1> QED BY <1>2, <1>3, EffectsStep, InteractionsCorrect, PTL DEF Spec, ImplementsEffects, Promise!EffectsSpec

\* What is said of a decision is true, and no call is forgotten; a stop is done when its
\* turn is over.
THEOREM InteractionsReportsAreTrue == Spec => []Promise!ReportsAreTrue
<1>1. Promise!EffectsInit => Promise!ReportsAreTrue
  BY DEF Promise!EffectsInit, Promise!ReportsAreTrue
<1>2. Promise!ReportsAreTrue /\ [Promise!EffectsNext]_Promise!effectVars => Promise!ReportsAreTrue'
  BY DEF Promise!ReportsAreTrue, Promise!EffectsNext, Promise!effectVars, Promise!Moves, Promise!Ask, Promise!Try,
         Promise!Call, Promise!Happen, Promise!Return, Promise!Refuse, Promise!Confirm, Promise!Doubt, Promise!Dismiss
<1> QED BY <1>1, <1>2, InteractionsImplementsEffects, PTL DEF ImplementsEffects, Promise!EffectsSpec

=============================================================================
