----------------------------- MODULE PanelsProofs -----------------------------
(***************************************************************************)
(* Proofs about Panels: its type invariant, and that a form makes one      *)
(* session at most, whatever is pressed, rendered or performed again.      *)
(***************************************************************************)
EXTENDS Panels, TLAPS

\* The panels that were opened, each once, are those with a mode.
OpenedOnce == \A p \in Ids : mode[p] # None <=> \E k \in DOMAIN opened : opened[k] = p

\* The worker is at one row, and a row that is not settled is that one, or was before a crash.
AtHand ==
  /\ doing # 0 <=> pc \in {"perform", "open", "performed", "hub"}
  /\ pc = "perform" => ~inbox[doing].ui
  /\ pc # "down" => \A i \in DOMAIN inbox : inbox[i].state = "SUBMITTING" => i = doing

\* The rows of pressed buttons that submit form p.
Submissions(p) == {i \in DOMAIN inbox : ~inbox[i].ui /\ inbox[i].op = "create" /\ inbox[i].panel = p}

\* A form whose button still works was not submitted.
FormIsOpen == \A p \in Ids : "create" \in live[p] => p \notin submitted

\* A form that was not submitted made nothing, and is in no row.
UnsubmittedIsUnmade == \A p \in Ids \ submitted : made[p] = 0 /\ Submissions(p) = {}

\* One row submits a form, and until its work is in the inbox nothing was made.
OneSubmission ==
  \A p \in Ids : \A i \in Submissions(p) :
    /\ \A j \in Submissions(p) : i = j
    /\ made[p] = 0 \/ Seen(inbox[i].event, TRUE)

PanelsInv ==
  /\ PanelsTypeOK /\ OpenedOnce /\ AtHand
  /\ FormIsOpen /\ UnsubmittedIsUnmade /\ OneSubmission /\ OneSessionPerForm

-----------------------------------------------------------------------------
(* What a step does to the inbox. *)

RowStates == {"QUEUED", "SUBMITTING", "DONE", "REJECTED", "UNKNOWN"}

\* Rows stay, are settled or change their state, and the new ones are not of buttons.
Carried ==
  /\ inbox' \in Seq(Rows) /\ DOMAIN inbox \subseteq DOMAIN inbox'
  /\ \A i \in DOMAIN inbox :
       /\ inbox'[i].event = inbox[i].event /\ inbox'[i].ui = inbox[i].ui
       /\ (inbox'[i].op = inbox[i].op /\ inbox'[i].panel = inbox[i].panel) \/ inbox'[i].op = None
  /\ \A i \in DOMAIN inbox' \ DOMAIN inbox : inbox'[i].ui /\ inbox'[i].state = "QUEUED"

\* Rows that are carried submit nothing new.
LEMMA RowsCarried ==
  ASSUME UnsubmittedIsUnmade, OneSubmission, Carried, UNCHANGED <<made, submitted>>
  PROVE  UnsubmittedIsUnmade' /\ OneSubmission'
<1>1. \A p \in Ids : Submissions(p)' \subseteq Submissions(p)
  BY PanelsAssumption DEF Submissions, Carried, Ops
<1>2. \A i \in DOMAIN inbox : Seen(inbox[i].event, TRUE) => Seen(inbox[i].event, TRUE)'
  BY DEF Seen, Carried
<1>3. UnsubmittedIsUnmade'
  BY <1>1 DEF UnsubmittedIsUnmade
<1>4. OneSubmission'
  <2> SUFFICES ASSUME NEW p \in Ids, NEW i \in Submissions(p)'
               PROVE  /\ \A j \in Submissions(p)' : i = j
                      /\ made[p] = 0 \/ Seen(inbox[i].event, TRUE)'
    BY DEF OneSubmission
  <2>1. i \in Submissions(p) /\ i \in DOMAIN inbox /\ inbox'[i].event = inbox[i].event
    BY <1>1 DEF Submissions, Carried
  <2>2. \A j \in Submissions(p)' : i = j
    BY <1>1, <2>1 DEF OneSubmission
  <2>3. made[p] = 0 \/ Seen(inbox[i].event, TRUE)
    BY <2>1 DEF OneSubmission
  <2>4. Seen(inbox[i].event, TRUE)' <=> \E j \in DOMAIN inbox' : inbox'[j].event = inbox'[i].event /\ inbox'[j].ui = TRUE
    BY DEF Seen
  <2>5. Seen(inbox[i].event, TRUE) => \E j \in DOMAIN inbox' : inbox'[j].event = inbox'[i].event /\ inbox'[j].ui = TRUE
    BY <2>1 DEF Seen, Carried
  <2> QED BY <2>2, <2>3, <2>4, <2>5
<1> QED BY <1>3, <1>4

\* What Append does, for rows.
LEMMA AppendDomain ==
  ASSUME NEW s \in Seq(Rows), NEW row \in Rows
  PROVE  /\ Append(s, row) \in Seq(Rows) /\ Len(s) + 1 \notin DOMAIN s
         /\ DOMAIN Append(s, row) = DOMAIN s \cup {Len(s) + 1} /\ Append(s, row)[Len(s) + 1] = row
         /\ \A i \in DOMAIN s : Append(s, row)[i] = s[i]
OBVIOUS

\* A row changes its state.
LEMMA StateSet ==
  ASSUME inbox \in Seq(Rows), NEW i \in DOMAIN inbox, NEW s \in RowStates,
         inbox' = [inbox EXCEPT ![i].state = s]
  PROVE  /\ Carried /\ DOMAIN inbox' = DOMAIN inbox
         /\ \A j \in DOMAIN inbox : inbox'[j].state = IF j = i THEN s ELSE inbox[j].state
<1>1. /\ DOMAIN inbox' = DOMAIN inbox /\ Len(inbox') = Len(inbox)
      /\ \A j \in DOMAIN inbox : inbox'[j] = IF j = i THEN [inbox[i] EXCEPT !.state = s] ELSE inbox[j]
  OBVIOUS
<1>2. \A row \in Rows : LET new == [row EXCEPT !.state = s] IN
        new \in Rows /\ new.state = s /\ new.event = row.event /\ new.ui = row.ui
        /\ new.op = row.op /\ new.panel = row.panel
  BY DEF Rows, RowStates
<1>3. \A j \in DOMAIN inbox : inbox[j] \in Rows
  OBVIOUS
<1>4. \A j \in DOMAIN inbox' : inbox'[j] \in Rows
  BY <1>1, <1>2, <1>3
<1>5. inbox' \in Seq(Rows)
  BY <1>1, <1>4
<1> QED BY <1>1, <1>2, <1>3, <1>5 DEF Carried

\* A row is settled.
LEMMA RowSettled ==
  ASSUME inbox \in Seq(Rows), doing \in DOMAIN inbox, NEW s \in {"DONE", "REJECTED"}, Settle(s)
  PROVE  /\ Carried /\ DOMAIN inbox' = DOMAIN inbox
         /\ \A j \in DOMAIN inbox : inbox'[j].state = IF j = doing THEN s ELSE inbox[j].state
<1> DEFINE settled(row) == [row EXCEPT !.state = s, !.op = None, !.panel = None]
<1>1. \A row \in Rows :
        /\ settled(row) \in Rows /\ settled(row).state = s /\ settled(row).op = None
        /\ settled(row).event = row.event /\ settled(row).ui = row.ui
  BY DEF Rows
<1>2. inbox' = [inbox EXCEPT ![doing] = settled(inbox[doing])]
  BY DEF Settle
<1> HIDE DEF settled
<1>3. /\ DOMAIN inbox' = DOMAIN inbox /\ Len(inbox') = Len(inbox)
      /\ \A j \in DOMAIN inbox : inbox'[j] = IF j = doing THEN settled(inbox[j]) ELSE inbox[j]
  BY <1>2
<1>4. \A j \in DOMAIN inbox : inbox[j] \in Rows /\ inbox'[j] \in Rows
  BY <1>1, <1>3
<1>5. inbox' \in Seq(Rows)
  BY <1>2, <1>4
<1> QED BY <1>1, <1>3, <1>4, <1>5 DEF Carried

\* Several rows change their states.
LEMMA StatesSet ==
  ASSUME inbox \in Seq(Rows), NEW S, S \subseteq DOMAIN inbox, NEW f, \A i \in S : f[i] \in RowStates,
         inbox' = [i \in DOMAIN inbox |-> IF i \in S THEN [inbox[i] EXCEPT !.state = f[i]] ELSE inbox[i]]
  PROVE  /\ Carried /\ DOMAIN inbox' = DOMAIN inbox
         /\ \A j \in DOMAIN inbox : inbox'[j].state = IF j \in S THEN f[j] ELSE inbox[j].state
<1>1. /\ DOMAIN inbox' = DOMAIN inbox
      /\ \A j \in DOMAIN inbox : inbox'[j] = IF j \in S THEN [inbox[j] EXCEPT !.state = f[j]] ELSE inbox[j]
  OBVIOUS
<1>2. \A row \in Rows, s \in RowStates : LET new == [row EXCEPT !.state = s] IN
        new \in Rows /\ new.state = s /\ new.event = row.event /\ new.ui = row.ui
        /\ new.op = row.op /\ new.panel = row.panel
  BY DEF Rows, RowStates
<1>3. \A j \in DOMAIN inbox : inbox[j] \in Rows
  OBVIOUS
<1>4. \A j \in DOMAIN inbox' : inbox'[j] \in Rows
  BY <1>1, <1>2, <1>3
<1>5. inbox' \in Seq(Rows)
  <2>1. DOMAIN inbox = 1 .. Len(inbox) /\ Len(inbox) \in Nat
    OBVIOUS
  <2>2. inbox' = [i \in 1 .. Len(inbox) |-> inbox'[i]]
    BY <2>1
  <2> QED BY <1>1, <1>4, <2>1, <2>2
<1> QED BY <1>1, <1>2, <1>3, <1>5 DEF Carried

-----------------------------------------------------------------------------
(* Every step. *)

\* Opening a panel, under the name of the event.
LEMMA OpenTyped ==
  ASSUME PanelsTypeOK, OpenedOnce, NEW e \in Presses, NEW m \in Modes, Open(e, m)
  PROVE  /\ opened' \in Seq(Ids) /\ IsInjective(opened')
         /\ mode' \in [Ids -> Modes \cup {None}]
         /\ OpenedOnce'
<1>1. e \in Ids /\ m # None
  BY PanelsAssumption DEF Presses, Ids, Ops
<1>2. CASE mode[e] # None
  BY <1>2 DEF Open, PanelsTypeOK, OpenedOnce
<1>3. CASE mode[e] = None
  <2>1. opened' = Append(opened, e) /\ mode' = [mode EXCEPT ![e] = m] /\ opened \in Seq(Ids)
    BY <1>3 DEF Open, PanelsTypeOK
  <2>2. \A k \in DOMAIN opened : opened[k] # e
    BY <1>1, <1>3 DEF OpenedOnce
  <2>3. /\ opened' \in Seq(Ids) /\ DOMAIN opened' = DOMAIN opened \cup {Len(opened) + 1}
        /\ opened'[Len(opened) + 1] = e /\ \A k \in DOMAIN opened : opened'[k] = opened[k] /\ k # Len(opened) + 1
    BY <1>1, <2>1
  <2>4. IsInjective(opened')
    BY <2>2, <2>3 DEF IsInjective, PanelsTypeOK
  <2>5. OpenedOnce'
    <3>1. \A p \in Ids : mode'[p] = IF p = e THEN m ELSE mode[p]
      BY <2>1 DEF PanelsTypeOK
    <3>2. \A p \in Ids : (\E k \in DOMAIN opened' : opened'[k] = p) <=> p = e \/ \E k \in DOMAIN opened : opened[k] = p
      BY <2>3
    <3> QED BY <1>1, <3>1, <3>2 DEF OpenedOnce
  <2> QED BY <1>1, <2>1, <2>3, <2>4, <2>5 DEF PanelsTypeOK
<1> QED BY <1>2, <1>3

LEMMA PressStep ==
  ASSUME PanelsInv, NEW e \in Presses, NEW p \in Ids, NEW op \in Ops, Press(e, p, op)
  PROVE  PanelsInv'
<1> USE DEF PanelsInv
<1> DEFINE n == Len(inbox) + 1
<1>1. /\ op \in live[p]
      /\ inbox' = Append(inbox, Row(e, FALSE, op, p))
      /\ digest' = [digest EXCEPT ![p] = None]
      /\ submitted' = submitted \cup If(op = "create", {p})
      /\ live' = [live EXCEPT ![p] = IF op = "create" THEN {} ELSE @ \ {op}]
      /\ UNCHANGED <<opened, mode, filter, session, room, made, pc, todo, doing, surprises>>
  BY DEF Press, Consume
<1>2. Row(e, FALSE, op, p) \in Rows
  BY DEF Row, Rows
<1>3. /\ inbox \in Seq(Rows) /\ inbox' \in Seq(Rows) /\ n \notin DOMAIN inbox
      /\ DOMAIN inbox' = DOMAIN inbox \cup {n} /\ inbox'[n] = Row(e, FALSE, op, p)
      /\ \A i \in DOMAIN inbox : inbox'[i] = inbox[i]
  <2> DEFINE added == Row(e, FALSE, op, p)
  <2>1. inbox \in Seq(Rows) /\ added \in Rows /\ inbox' = Append(inbox, added)
    BY <1>1, <1>2 DEF PanelsTypeOK
  <2> HIDE DEF added
  <2>2. /\ inbox' \in Seq(Rows) /\ n \notin DOMAIN inbox
        /\ DOMAIN inbox' = DOMAIN inbox \cup {n} /\ inbox'[n] = added
        /\ \A i \in DOMAIN inbox : inbox'[i] = inbox[i]
    BY <2>1, AppendDomain
  <2> QED BY <2>1, <2>2 DEF added
<1> HIDE DEF n
<1>4. inbox'[n].state = "QUEUED" /\ inbox'[n].op = op /\ inbox'[n].panel = p /\ inbox'[n].event = e
  BY <1>3 DEF Row
<1>5. live' \in [Ids -> SUBSET Ops] /\ \A q \in Ids : live'[q] \subseteq live[q]
  BY <1>1 DEF PanelsTypeOK
<1>6. AtHand'
  BY <1>1, <1>3, <1>4 DEF AtHand, PanelsTypeOK
<1>7. PanelsTypeOK'
  <2>1. digest' \in [Ids -> {None} \cup SUBSET Ops] /\ submitted' \subseteq Ids
    BY <1>1 DEF PanelsTypeOK, If
  <2>2. pc \in {"sleep", "requests"} => \A i \in DOMAIN inbox' : inbox'[i].state # "SUBMITTING"
    BY <1>3, <1>4 DEF PanelsTypeOK
  <2> QED BY <1>1, <1>3, <1>5, <2>1, <2>2 DEF PanelsTypeOK
<1>8. OpenedOnce' /\ OneSessionPerForm'
  BY <1>1 DEF OpenedOnce, OneSessionPerForm
<1>9. FormIsOpen'
  BY <1>1, <1>5 DEF FormIsOpen, If, PanelsTypeOK
<1>10. \A q \in Ids : Submissions(q)' = Submissions(q) \cup If(op = "create" /\ q = p, {n})
  <2>1. \A q \in Ids, i \in DOMAIN inbox : i \in Submissions(q)' <=> i \in Submissions(q)
    BY <1>3 DEF Submissions
  <2>2. \A q \in Ids : n \in Submissions(q)' <=> op = "create" /\ q = p
    BY <1>3, <1>4 DEF Submissions, Row
  <2>3. \A q \in Ids : Submissions(q)' \subseteq DOMAIN inbox \cup {n} /\ Submissions(q) \subseteq DOMAIN inbox
    BY <1>3 DEF Submissions
  <2> QED BY <1>3, <2>1, <2>2, <2>3 DEF If
<1>11. UnsubmittedIsUnmade'
  BY <1>1, <1>10 DEF UnsubmittedIsUnmade, If
<1>12. OneSubmission'
  <2> SUFFICES ASSUME NEW q \in Ids, NEW i \in Submissions(q)'
               PROVE  /\ \A j \in Submissions(q)' : i = j
                      /\ made[q] = 0 \/ Seen(inbox[i].event, TRUE)'
    BY <1>1 DEF OneSubmission
  <2>1. CASE op = "create" /\ q = p
    <3>1. Submissions(q) = {} /\ made[q] = 0
      BY <1>1, <2>1 DEF FormIsOpen, UnsubmittedIsUnmade
    <3> QED BY <1>10, <2>1, <3>1 DEF If
  <2>2. CASE ~(op = "create" /\ q = p)
    <3>1. Submissions(q)' = Submissions(q) /\ i \in DOMAIN inbox
      BY <1>10, <2>2 DEF If, Submissions
    <3>2. Seen(inbox[i].event, TRUE) => Seen(inbox[i].event, TRUE)'
      BY <1>3, <3>1 DEF Seen
    <3> QED BY <3>1, <3>2 DEF OneSubmission
  <2> QED BY <2>1, <2>2
<1> QED BY <1>6, <1>7, <1>8, <1>9, <1>11, <1>12

\* The worker takes the rows of a tick, one at a time, and settles them.
LEMMA RowStep ==
  ASSUME PanelsInv, BeginTick \/ Take \/ Refuse \/ Performed \/ HubDone \/ HubRetries \/ HubRefuses
  PROVE  PanelsInv'
<1> USE DEF PanelsInv, panels
<1>1. inbox \in Seq(Rows) /\ {"QUEUED", "SUBMITTING", "DONE", "REJECTED", "UNKNOWN"} = RowStates
  BY DEF PanelsTypeOK, RowStates
<1>2. UNCHANGED <<panels, made, surprises>> /\ session' \in SessionStates /\ room' \in {"ERROR", "QUEUED"}
  <2>1. CASE BeginTick \/ Take \/ Refuse \/ Performed \/ HubRefuses
    BY <2>1 DEF BeginTick, Take, Refuse, Performed, HubRefuses, PanelsTypeOK
  <2>2. CASE HubDone
    BY <2>2 DEF HubDone, PanelsTypeOK, SessionStates
  <2>3. CASE HubRetries
    BY <2>3 DEF HubRetries, PanelsTypeOK, SessionStates
  <2> QED BY <2>1, <2>2, <2>3
<1>3. OpenedOnce' /\ FormIsOpen' /\ OneSessionPerForm'
  BY <1>2 DEF OpenedOnce, FormIsOpen, OneSessionPerForm
<1>4. ASSUME Carried, DOMAIN inbox' = DOMAIN inbox, AtHand',
             todo' \subseteq DOMAIN inbox, doing' \in {0} \cup DOMAIN inbox,
             pc' \in {"requests", "perform", "hub"},
             pc' = "requests" => \A i \in DOMAIN inbox : inbox'[i].state # "SUBMITTING"
      PROVE  PanelsInv'
  <2>1. PanelsTypeOK'
    BY <1>2, <1>4 DEF PanelsTypeOK, Carried
  <2> QED BY <1>2, <1>3, <1>4, <2>1, RowsCarried
<1>5. CASE BeginTick
  <2>1. PICK confirmed \in BOOLEAN :
          LET After(row) == IF ~row.ui \/ row.op \notin {"stop", "create"} THEN "QUEUED"
                            ELSE IF confirmed THEN "DONE" ELSE "UNKNOWN"
          IN inbox' = [i \in DOMAIN inbox |->
                         IF inbox[i].state # "UNKNOWN" THEN inbox[i]
                         ELSE [inbox[i] EXCEPT !.state = After(inbox[i])]]
    BY <1>5 DEF BeginTick
  <2> DEFINE S == {i \in DOMAIN inbox : inbox[i].state = "UNKNOWN"}
             f == [i \in S |-> IF ~inbox[i].ui \/ inbox[i].op \notin {"stop", "create"} THEN "QUEUED"
                               ELSE IF confirmed THEN "DONE" ELSE "UNKNOWN"]
  <2>2. /\ S \subseteq DOMAIN inbox /\ \A i \in S : f[i] \in RowStates /\ f[i] # "SUBMITTING"
        /\ inbox' = [i \in DOMAIN inbox |-> IF i \in S THEN [inbox[i] EXCEPT !.state = f[i]] ELSE inbox[i]]
    BY <2>1 DEF RowStates
  <2> HIDE DEF S, f
  <2>3. /\ Carried /\ DOMAIN inbox' = DOMAIN inbox
        /\ \A j \in DOMAIN inbox : inbox'[j].state = IF j \in S THEN f[j] ELSE inbox[j].state
    BY <1>1, <2>2, StatesSet
  <2>4. \A i \in DOMAIN inbox : inbox[i].state # "SUBMITTING" /\ inbox'[i].state # "SUBMITTING"
    BY <1>5, <2>2, <2>3 DEF BeginTick, PanelsTypeOK
  <2>5. /\ pc' = "requests" /\ doing' = doing /\ doing = 0
        /\ todo' \subseteq DOMAIN inbox'
    BY <1>5 DEF BeginTick, Requests, AtHand
  <2>6. AtHand'
    BY <2>3, <2>4, <2>5 DEF AtHand
  <2> QED BY <1>4, <2>3, <2>4, <2>5, <2>6
<1>6. CASE Take
  <2>1. /\ doing' \in todo /\ todo' = todo \ {doing'} /\ pc = "requests"
        /\ inbox' = [inbox EXCEPT ![doing'].state = "SUBMITTING"]
        /\ pc' = IF inbox[doing'].ui THEN "hub" ELSE "perform"
    BY <1>6 DEF Take, Foremost
  <2>2. doing' \in DOMAIN inbox /\ doing' # 0
    BY <1>1, <2>1 DEF PanelsTypeOK
  <2> DEFINE at == doing'
  <2>3. at \in DOMAIN inbox /\ inbox' = [inbox EXCEPT ![at].state = "SUBMITTING"]
    BY <2>1, <2>2
  <2> HIDE DEF at
  <2>4. /\ Carried /\ DOMAIN inbox' = DOMAIN inbox
        /\ \A j \in DOMAIN inbox : inbox'[j].state = IF j = at THEN "SUBMITTING" ELSE inbox[j].state
    BY <1>1, <2>3, StateSet
  <2>5. \A i \in DOMAIN inbox : inbox[i].state # "SUBMITTING"
    BY <2>1 DEF PanelsTypeOK
  <2>6. AtHand'
    BY <2>1, <2>2, <2>4, <2>5 DEF AtHand, Carried, at
  <2> QED BY <1>4, <2>1, <2>2, <2>4, <2>6 DEF PanelsTypeOK
<1>7. ASSUME doing \in DOMAIN inbox, Carried, DOMAIN inbox' = DOMAIN inbox, pc # "down",
             \A j \in DOMAIN inbox : inbox'[j].state = "SUBMITTING" => inbox[j].state = "SUBMITTING" /\ j # doing,
             doing' = 0, pc' = "requests", UNCHANGED todo
      PROVE  PanelsInv'
  <2>1. \A i \in DOMAIN inbox : inbox'[i].state # "SUBMITTING"
    BY <1>7 DEF AtHand
  <2>2. AtHand'
    BY <1>7, <2>1 DEF AtHand
  <2> QED BY <1>4, <1>7, <2>1, <2>2 DEF PanelsTypeOK
<1>8. CASE HubRetries
  <2>1. doing \in DOMAIN inbox /\ inbox' = [inbox EXCEPT ![doing].state = "QUEUED"]
        /\ doing' = 0 /\ pc' = "requests" /\ pc # "down" /\ UNCHANGED todo
    BY <1>8 DEF HubRetries, AtHand, PanelsTypeOK
  <2>2. /\ Carried /\ DOMAIN inbox' = DOMAIN inbox
        /\ \A j \in DOMAIN inbox : inbox'[j].state = IF j = doing THEN "QUEUED" ELSE inbox[j].state
    BY <1>1, <2>1, StateSet
  <2> QED BY <1>7, <2>1, <2>2
<1>9. CASE Refuse \/ Performed \/ HubDone \/ HubRefuses
  <2>1. PICK s \in {"DONE", "REJECTED"} : Settle(s)
    BY <1>9 DEF Refuse, Performed, HubDone, HubRefuses
  <2>2. doing \in DOMAIN inbox /\ pc # "down"
    BY <1>9 DEF Refuse, Performed, HubDone, HubRefuses, AtHand, PanelsTypeOK
  <2>3. /\ Carried /\ DOMAIN inbox' = DOMAIN inbox
        /\ \A j \in DOMAIN inbox : inbox'[j].state = IF j = doing THEN s ELSE inbox[j].state
    BY <1>1, <2>1, <2>2, RowSettled
  <2>4. doing' = 0 /\ pc' = "requests" /\ UNCHANGED todo
    BY <2>1 DEF Settle
  <2> QED BY <1>7, <2>2, <2>3, <2>4
<1> QED BY <1>5, <1>6, <1>8, <1>9

\* A stop revokes rows, and the row of a control is added once.
LEMMA ReceiveCarries ==
  ASSUME PanelsTypeOK, NEW row \in Rows, row.op \in Ops, Receive(row)
  PROVE  /\ Carried /\ session' \in SessionStates
         /\ DOMAIN inbox' = DOMAIN inbox \/ DOMAIN inbox' = DOMAIN inbox \cup {Len(inbox) + 1}
         /\ \A i \in DOMAIN inbox : inbox'[i].state = "SUBMITTING" => inbox[i].state = "SUBMITTING"
<1>1. inbox \in Seq(Rows) /\ session \in SessionStates
  BY DEF PanelsTypeOK
<1>2. CASE Seen(row.event, TRUE)
  BY <1>1, <1>2 DEF Receive, Carried
<1>3. CASE ~Seen(row.event, TRUE)
  <2> DEFINE revoked == {i \in DOMAIN inbox : row.op = "stop" /\ inbox[i].ui /\ inbox[i].op = "continue" /\ inbox[i].state = "QUEUED"}
             rows == [i \in DOMAIN inbox |-> IF i \in revoked THEN [inbox[i] EXCEPT !.state = "REJECTED"] ELSE inbox[i]]
             added == Row(row.event, TRUE, row.op, row.panel)
  <2>1. rows = IF row.op # "stop" THEN inbox
               ELSE [i \in DOMAIN inbox |->
                       IF inbox[i].ui /\ inbox[i].op = "continue" /\ inbox[i].state = "QUEUED"
                       THEN [inbox[i] EXCEPT !.state = "REJECTED"] ELSE inbox[i]]
    <3>1. CASE row.op = "stop"
      BY <3>1
    <3>2. CASE row.op # "stop"
      BY <1>1, <3>2
    <3> QED BY <3>1, <3>2
  <2>2. inbox' = Append(rows, added) /\ session' = [session EXCEPT !.paused = @ \/ row.op = "stop"]
    BY <1>3, <2>1 DEF Receive
  <2>3. \A r \in Rows : LET new == [r EXCEPT !.state = "REJECTED"] IN
          new \in Rows /\ new.state = "REJECTED" /\ new.event = r.event /\ new.ui = r.ui /\ new.op = r.op /\ new.panel = r.panel
    BY DEF Rows
  <2>4. \A i \in DOMAIN inbox : inbox[i] \in Rows /\ rows[i] \in Rows
    BY <1>1, <2>3
  <2>5. rows \in Seq(Rows) /\ DOMAIN rows = DOMAIN inbox /\ Len(rows) = Len(inbox)
    <3>1. DOMAIN inbox = 1 .. Len(inbox) /\ Len(inbox) \in Nat
      BY <1>1
    <3> QED BY <2>4, <3>1
  <2>6. added \in Rows /\ added.ui /\ added.state = "QUEUED"
    BY DEF Row, Rows
  <2>7. \A i \in DOMAIN inbox :
          /\ rows[i].event = inbox[i].event /\ rows[i].ui = inbox[i].ui
          /\ rows[i].op = inbox[i].op /\ rows[i].panel = inbox[i].panel
          /\ rows[i].state = "SUBMITTING" => inbox[i].state = "SUBMITTING"
    BY <2>3, <2>4
  <2> HIDE DEF revoked, rows, added
  <2>8. /\ inbox' \in Seq(Rows) /\ DOMAIN inbox' = DOMAIN inbox \cup {Len(rows) + 1}
        /\ inbox'[Len(rows) + 1] = added
        /\ \A i \in DOMAIN inbox : inbox'[i] = rows[i]
    BY <2>2, <2>5, <2>6, AppendDomain
  <2>9. Carried
    BY <2>6, <2>7, <2>8 DEF Carried
  <2>10. session' \in SessionStates
    BY <1>1, <2>2 DEF SessionStates
  <2> QED BY <2>5, <2>7, <2>8, <2>9, <2>10
<1> QED BY <1>2, <1>3

\* What stays true of a row that a button left while it is performed.
LEMMA AtRow ==
  ASSUME PanelsInv, pc \in {"perform", "open", "performed", "hub"}
  PROVE  doing # 0 /\ doing \in DOMAIN inbox /\ inbox[doing] \in Rows
BY DEF PanelsInv, AtHand, PanelsTypeOK

\* Making a session of a form.
LEMMA CreateStep ==
  ASSUME PanelsInv, Perform, Create(inbox[doing])
  PROVE  PanelsInv'
<1> USE DEF PanelsInv, panels
<1> DEFINE row == inbox[doing]
<1>1. /\ pc = "perform" /\ row.op = "create" /\ row.ui = FALSE /\ doing \in DOMAIN inbox /\ row \in Rows /\ doing # 0
      /\ UNCHANGED <<opened, mode, filter, digest, live, submitted, session, room, todo, doing, surprises>>
  BY AtRow DEF Perform, Create, AtHand, Rows
<1>2. inbox \in Seq(Rows)
  BY DEF PanelsTypeOK
<1>3. OpenedOnce' /\ FormIsOpen'
  BY <1>1 DEF OpenedOnce, FormIsOpen
<1>4. CASE Seen(row.event, TRUE)
  <2>1. UNCHANGED <<inbox, made>> /\ pc' = "performed"
    BY <1>4 DEF Create
  <2>2. Carried
    BY <1>2, <2>1 DEF Carried
  <2>3. AtHand' /\ PanelsTypeOK'
    BY <1>1, <2>1 DEF AtHand, PanelsTypeOK
  <2>4. OneSessionPerForm'
    BY <2>1 DEF OneSessionPerForm
  <2> QED BY <1>1, <1>3, <2>1, <2>2, <2>3, <2>4, RowsCarried
<1>5. CASE ~Seen(row.event, TRUE)
  <2> DEFINE added == Row(row.event, TRUE, "create", row.panel)
             n == Len(inbox) + 1
  <2>1. /\ inbox' = Append(inbox, added)
        /\ made' = [made EXCEPT ![row.panel] = @ + 1]
        /\ pc' = "open"
    BY <1>5 DEF Create
  <2>2. added \in Rows /\ added.ui = TRUE /\ added.state = "QUEUED" /\ added.event = row.event
    BY <1>1 DEF Row, Rows, Ops
  <2>3. /\ inbox' \in Seq(Rows) /\ DOMAIN inbox' = DOMAIN inbox \cup {n} /\ n \notin DOMAIN inbox
        /\ inbox'[n] = added /\ \A i \in DOMAIN inbox : inbox'[i] = inbox[i]
    BY <1>2, <2>1, <2>2, AppendDomain
  <2> HIDE DEF added, n
  <2>4. \A p \in Ids : Submissions(p)' = Submissions(p) /\ Submissions(p) \subseteq DOMAIN inbox
    BY <2>2, <2>3 DEF Submissions
  <2>5. \A p \in Ids : p = row.panel => doing \in Submissions(p) /\ made[p] = 0 /\ p \in submitted
    BY <1>1, <1>5 DEF Submissions, OneSubmission, UnsubmittedIsUnmade
  <2>6. \A p \in Ids : made'[p] = IF p = row.panel THEN 1 ELSE made[p]
    BY <2>1, <2>5 DEF PanelsTypeOK
  <2>7. made' \in [Ids -> Nat]
    <3>1. DOMAIN made' = Ids /\ made' = [p \in Ids |-> made'[p]]
      BY <2>1 DEF PanelsTypeOK
    <3>2. \A p \in Ids : made'[p] \in Nat
      BY <2>6 DEF PanelsTypeOK
    <3> QED BY <3>1, <3>2
  <2>8. AtHand' /\ PanelsTypeOK'
    BY <1>1, <2>1, <2>2, <2>3, <2>7 DEF AtHand, PanelsTypeOK
  <2>9. OneSessionPerForm' /\ UnsubmittedIsUnmade'
    BY <1>1, <2>4, <2>5, <2>6 DEF OneSessionPerForm, UnsubmittedIsUnmade
  <2>10. OneSubmission'
    <3> SUFFICES ASSUME NEW p \in Ids, NEW i \in Submissions(p)'
                 PROVE  /\ \A j \in Submissions(p)' : i = j
                        /\ made'[p] = 0 \/ Seen(inbox[i].event, TRUE)'
      BY DEF OneSubmission
    <3>1. /\ i \in Submissions(p) /\ i \in DOMAIN inbox /\ inbox'[i] = inbox[i]
          /\ \A j \in Submissions(p)' : i = j
      BY <2>3, <2>4 DEF OneSubmission
    <3>2. CASE p = row.panel
      <4>1. inbox'[n].event = inbox'[i].event /\ inbox'[n].ui = TRUE /\ n \in DOMAIN inbox'
        BY <2>2, <2>3, <2>5, <3>1, <3>2 DEF OneSubmission
      <4> QED BY <3>1, <4>1 DEF Seen
    <3>3. CASE p # row.panel
      <4>1. made[p] = 0 \/ Seen(inbox[i].event, TRUE)
        BY <3>1 DEF OneSubmission
      <4>2. Seen(inbox[i].event, TRUE) => Seen(inbox[i].event, TRUE)'
        BY <2>3, <3>1 DEF Seen
      <4> QED BY <2>6, <3>1, <3>3, <4>1, <4>2
    <3> QED BY <3>2, <3>3
  <2> QED BY <1>3, <2>8, <2>9, <2>10
<1> QED BY <1>4, <1>5

\* The other buttons.
LEMMA PerformStep ==
  ASSUME PanelsInv, Perform \/ OpenDetail
  PROVE  PanelsInv'
<1> USE DEF PanelsInv, panels
<1> DEFINE row == inbox[doing]
<1>1. doing \in DOMAIN inbox /\ row \in Rows /\ doing # 0 /\ inbox \in Seq(Rows)
  BY AtRow DEF Perform, OpenDetail, PanelsTypeOK
<1>2. row.event \in Presses
  BY <1>1 DEF Rows
<1>3. ASSUME Carried, DOMAIN inbox' = DOMAIN inbox \/ DOMAIN inbox' = DOMAIN inbox \cup {Len(inbox) + 1},
             \A i \in DOMAIN inbox : inbox'[i].state = "SUBMITTING" => inbox[i].state = "SUBMITTING",
             pc \in {"perform", "open"}, pc' \in {"open", "performed"},
             opened' \in Seq(Ids) /\ IsInjective(opened') /\ mode' \in [Ids -> Modes \cup {None}], OpenedOnce',
             filter' \in [Ids -> Filters], digest' \in [Ids -> {None} \cup SUBSET Ops],
             session' \in SessionStates,
             UNCHANGED <<room, live, submitted, made, todo, doing, surprises>>
      PROVE  PanelsInv'
  <2>1. AtHand'
    BY <1>1, <1>3 DEF AtHand, Carried
  <2>2. todo' \subseteq DOMAIN inbox' /\ doing' \in {0} \cup DOMAIN inbox'
    BY <1>3 DEF PanelsTypeOK, Carried
  <2>3. PanelsTypeOK'
    BY <1>3, <2>2 DEF PanelsTypeOK, Carried
  <2>4. FormIsOpen' /\ OneSessionPerForm'
    BY <1>3 DEF FormIsOpen, OneSessionPerForm
  <2> QED BY <1>3, <2>1, <2>3, <2>4, RowsCarried
<1>4. UNCHANGED inbox => Carried /\ DOMAIN inbox' = DOMAIN inbox
  BY <1>1 DEF Carried
<1>5. UNCHANGED <<opened, mode>> =>
        /\ opened' \in Seq(Ids) /\ IsInjective(opened') /\ mode' \in [Ids -> Modes \cup {None}]
        /\ OpenedOnce'
  BY DEF PanelsTypeOK, OpenedOnce
<1>6. CASE OpenDetail
  <2>1. Open(row.event, "detail")
    BY <1>6 DEF OpenDetail
  <2>2. opened' \in Seq(Ids) /\ IsInjective(opened') /\ mode' \in [Ids -> Modes \cup {None}] /\ OpenedOnce'
    BY <1>2, <2>1, OpenTyped DEF Modes
  <2>3. /\ pc = "open" /\ pc' = "performed"
        /\ UNCHANGED <<filter, digest, live, submitted, inbox, session, room, made, todo, doing, surprises>>
    BY <1>6 DEF OpenDetail
  <2> QED BY <1>3, <1>4, <2>2, <2>3 DEF PanelsTypeOK
<1>7. ASSUME Perform PROVE UNCHANGED <<room, live, submitted, todo, doing, surprises>> /\ pc = "perform"
  BY <1>7 DEF Perform
<1>8. CASE Perform /\ Page(row)
  <2>1. row.op \in Filters \cup {"page"} /\ pc' = "performed"
        /\ UNCHANGED <<opened, mode, inbox, session, made>>
    BY <1>8 DEF Page
  <2>2. filter' \in [Ids -> Filters] /\ digest' \in [Ids -> {None} \cup SUBSET Ops]
    BY <1>8 DEF Page, PanelsTypeOK
  <2> QED BY <1>3, <1>4, <1>5, <1>7, <1>8, <2>1, <2>2 DEF PanelsTypeOK
<1>9. CASE Perform /\ Navigate(row)
  <2>1. row.op \in Modes /\ Open(row.event, row.op) /\ pc' = "performed"
        /\ UNCHANGED <<filter, digest, inbox, session, made>>
    BY <1>9 DEF Navigate
  <2>2. opened' \in Seq(Ids) /\ IsInjective(opened') /\ mode' \in [Ids -> Modes \cup {None}] /\ OpenedOnce'
    BY <1>2, <2>1, OpenTyped
  <2> QED BY <1>3, <1>4, <1>7, <1>9, <2>1, <2>2 DEF PanelsTypeOK
<1>10. CASE Perform /\ Cancel(row)
  <2>1. session' \in SessionStates /\ pc' = "performed"
        /\ UNCHANGED <<opened, mode, filter, digest, inbox, made>>
    BY <1>10 DEF Cancel, PanelsTypeOK, SessionStates
  <2> QED BY <1>3, <1>4, <1>5, <1>7, <1>10, <2>1 DEF PanelsTypeOK
<1>11. CASE Perform /\ Control(row)
  <2>1. row.op \in Ops /\ Receive(row) /\ pc' = "open"
        /\ UNCHANGED <<opened, mode, filter, digest, made>>
    BY <1>11 DEF Control, Ops
  <2>2. /\ Carried /\ session' \in SessionStates
        /\ DOMAIN inbox' = DOMAIN inbox \/ DOMAIN inbox' = DOMAIN inbox \cup {Len(inbox) + 1}
        /\ \A i \in DOMAIN inbox : inbox'[i].state = "SUBMITTING" => inbox[i].state = "SUBMITTING"
    BY <1>1, <2>1, ReceiveCarries
  <2> QED BY <1>3, <1>5, <1>7, <1>11, <2>1, <2>2 DEF PanelsTypeOK
<1> QED BY <1>6, <1>8, <1>9, <1>10, <1>11, CreateStep DEF Perform

LEMMA EndTickStep ==
  ASSUME PanelsInv, EndTick
  PROVE  PanelsInv'
<1> USE DEF PanelsInv
<1>1. /\ pc = "requests" /\ pc' = "sleep" /\ Render
      /\ UNCHANGED <<opened, mode, filter, submitted, inbox, made, todo, doing>>
  BY DEF EndTick
<1>2. session' \in SessionStates /\ room' \in {"ERROR", "QUEUED"} /\ surprises' \in 0 .. MaxSurprises
  <2>1. PICK view \in {"idle", "busy", "none"}, held \in BOOLEAN :
          /\ session' = [session EXCEPT
                           !.view = IF session.state = "ACTIVE" THEN view ELSE @,
                           !.queued = @ /\ (session.state # "ACTIVE" \/ view # "idle" \/ session.paused \/ held)]
          /\ room' \in {room} \cup If(session.state = "ACTIVE" /\ view = "idle", {"ERROR"})
          /\ IF view = "none" \/ room' # room THEN Surprise ELSE UNCHANGED surprises
    BY DEF EndTick
  <2>2. PICK v \in {"idle", "busy", "none"}, q \in BOOLEAN : session' = [session EXCEPT !.view = v, !.queued = q]
    BY <2>1 DEF PanelsTypeOK, SessionStates
  <2>3. session' \in SessionStates
    BY <2>2 DEF PanelsTypeOK, SessionStates
  <2>4. room' \in {"ERROR", "QUEUED"} /\ surprises' \in 0 .. MaxSurprises
    BY <2>1, PanelsAssumption DEF Surprise, PanelsTypeOK, If
  <2> QED BY <2>3, <2>4
<1>3. \A p \in Newest : p \in Ids /\ mode'[p] \in Modes
  BY <1>1, PanelsAssumption DEF Newest, OpenedOnce, PanelsTypeOK
\* What a panel offers is its own, and a form that was submitted offers nothing to submit.
<1>4. \A p \in Newest : Offered(p)' \subseteq Ops /\ ("create" \in Offered(p)' => p \notin submitted)
  <2>1. ASSUME NEW p \in Ids, mode'[p] \in Modes
        PROVE  Offered(p)' \subseteq Ops /\ ("create" \in Offered(p)' => p \notin submitted')
    <3>1. CASE mode'[p] = "sessions"
      BY <3>1 DEF Offered, ListOps, RowOps, RoomOps, Navigation, If, Ops, Modes, Filters, Controls
    <3>2. CASE mode'[p] = "detail"
      BY <3>2 DEF Offered, DetailOps, RoomOps, Navigation, If, Ops, Modes, Filters, Controls
    <3>3. CASE mode'[p] = "new"
      BY <3>3 DEF Offered, FormOps, Navigation, If, Ops, Modes, Filters, Controls
    <3> QED BY <2>1, <3>1, <3>2, <3>3 DEF Modes
  <2> QED BY <1>1, <1>3, <2>1
<1>5. PICK fresh \in {{p \in Newest \ Drafts : digest[p] # Offered(p)'}} :
        /\ digest' = [p \in Ids |-> IF p \in fresh THEN Offered(p)' ELSE digest[p]]
        /\ live' = [p \in Ids |-> IF p \in fresh THEN Offered(p)' ELSE live[p]]
  BY <1>1 DEF Render
<1>6. fresh \subseteq Newest
  BY <1>5
<1>7. digest' \in [Ids -> {None} \cup SUBSET Ops] /\ live' \in [Ids -> SUBSET Ops]
  BY <1>4, <1>5, <1>6 DEF PanelsTypeOK
<1>8. FormIsOpen'
  BY <1>1, <1>4, <1>5, <1>6 DEF FormIsOpen
<1>9. PanelsTypeOK' /\ OpenedOnce' /\ AtHand' /\ OneSessionPerForm'
  BY <1>1, <1>2, <1>7 DEF PanelsTypeOK, OpenedOnce, AtHand, OneSessionPerForm
<1>10. Carried
  BY <1>1 DEF Carried, PanelsTypeOK
<1> QED BY <1>1, <1>8, <1>9, <1>10, RowsCarried

\* A queued input, a crash, and the recovery from it.
LEMMA ServiceStep ==
  ASSUME PanelsInv, Enqueue \/ Crash \/ Restart \/ UNCHANGED vars
  PROVE  PanelsInv'
<1> USE DEF PanelsInv, panels, vars
<1>1. inbox \in Seq(Rows)
  BY DEF PanelsTypeOK
<1>2. /\ UNCHANGED <<opened, mode, filter, digest, live, submitted, made, room>>
      /\ session' \in SessionStates /\ surprises' \in 0 .. MaxSurprises
  <2>1. CASE Enqueue \/ UNCHANGED vars
    BY <2>1 DEF Enqueue, PanelsTypeOK, SessionStates
  <2>2. CASE Crash
    BY <2>2, PanelsAssumption DEF Crash, Surprise, PanelsTypeOK
  <2>3. CASE Restart
    <3>1. PICK b \in BOOLEAN : session' = [session EXCEPT !.view = "none", !.paused = b]
      BY <2>3 DEF Restart, PanelsTypeOK, SessionStates
    <3> QED BY <2>3, <3>1 DEF Restart, PanelsTypeOK, SessionStates
  <2> QED BY <2>1, <2>2, <2>3
<1>3. Carried /\ DOMAIN inbox' = DOMAIN inbox /\ AtHand'
      /\ \A i \in DOMAIN inbox : pc' \in {"sleep", "requests"} => inbox'[i].state # "SUBMITTING"
  <2>1. CASE Restart
    <3> DEFINE S == {i \in DOMAIN inbox : inbox[i].state = "SUBMITTING"}
               f == [i \in S |-> "UNKNOWN"]
    <3>1. /\ S \subseteq DOMAIN inbox /\ \A i \in S : f[i] \in RowStates /\ f[i] = "UNKNOWN"
          /\ inbox' = [i \in DOMAIN inbox |-> IF i \in S THEN [inbox[i] EXCEPT !.state = f[i]] ELSE inbox[i]]
      BY <2>1 DEF Restart, RowStates
    <3>2. \A i \in DOMAIN inbox : inbox[i].state = "SUBMITTING" => i \in S
      OBVIOUS
    <3> HIDE DEF S, f
    <3>3. /\ Carried /\ DOMAIN inbox' = DOMAIN inbox
          /\ \A j \in DOMAIN inbox : inbox'[j].state = IF j \in S THEN f[j] ELSE inbox[j].state
      BY <1>1, <3>1, StatesSet
    <3>4. \A i \in DOMAIN inbox : inbox'[i].state # "SUBMITTING"
      BY <3>1, <3>2, <3>3
    <3>5. pc = "down" /\ pc' = "sleep" /\ UNCHANGED doing
      BY <2>1 DEF Restart
    <3> QED BY <3>3, <3>4, <3>5 DEF AtHand
  <2>2. CASE Enqueue \/ Crash \/ UNCHANGED vars
    <3>1. UNCHANGED inbox /\ (UNCHANGED <<pc, doing>> \/ (pc' = "down" /\ doing' = 0))
      BY <2>2 DEF Enqueue, Crash
    <3> QED BY <1>1, <3>1 DEF AtHand, Carried, PanelsTypeOK
  <2> QED BY <2>1, <2>2
<1>4. /\ pc' \in {"down", "sleep", "requests", "perform", "open", "performed", "hub"}
      /\ todo' \subseteq DOMAIN inbox /\ doing' \in {0} \cup DOMAIN inbox
  BY DEF Enqueue, Crash, Restart, PanelsTypeOK
<1>5. PanelsTypeOK'
  BY <1>2, <1>3, <1>4 DEF PanelsTypeOK, Carried
<1>6. OpenedOnce' /\ FormIsOpen' /\ OneSessionPerForm'
  BY <1>2 DEF OpenedOnce, FormIsOpen, OneSessionPerForm
<1> QED BY <1>2, <1>3, <1>5, <1>6, RowsCarried

LEMMA PanelsInvInit == Init => PanelsInv
<1> SUFFICES ASSUME Init PROVE PanelsInv
  OBVIOUS
<1>1. 0 \in Ids /\ Ids \subseteq Nat /\ MaxSurprises \in Nat
  BY PanelsAssumption DEF Ids
<1>2. opened \in Seq(Ids) /\ DOMAIN opened = {1} /\ opened[1] = 0 /\ inbox \in Seq(Rows) /\ DOMAIN inbox = {}
  BY <1>1 DEF Init
<1>3. PICK m \in Modes : mode = [p \in Ids |-> IF p = 0 THEN m ELSE None]
  BY DEF Init
<1>4. PanelsTypeOK
  <2>1. mode \in [Ids -> Modes \cup {None}] /\ IsInjective(opened)
    BY <1>2, <1>3 DEF IsInjective
  <2>2. /\ filter \in [Ids -> Filters] /\ digest \in [Ids -> {None} \cup SUBSET Ops] /\ live \in [Ids -> SUBSET Ops]
        /\ submitted \subseteq Ids /\ made \in [Ids -> Nat] /\ session \in SessionStates /\ room \in {"ERROR", "QUEUED"}
    BY DEF Init, Filters, SessionStates
  <2>3. pc = "sleep" /\ todo = {} /\ doing = 0 /\ surprises \in 0 .. MaxSurprises
    BY <1>1 DEF Init
  <2> QED BY <1>2, <2>1, <2>2, <2>3 DEF PanelsTypeOK
<1>5. OpenedOnce
  BY <1>1, <1>2, <1>3, PanelsAssumption DEF OpenedOnce, Ops
<1>6. AtHand /\ FormIsOpen /\ UnsubmittedIsUnmade /\ OneSubmission /\ OneSessionPerForm
  BY <1>2 DEF Init, AtHand, FormIsOpen, UnsubmittedIsUnmade, OneSubmission, OneSessionPerForm, Submissions
<1> QED BY <1>4, <1>5, <1>6 DEF PanelsInv

LEMMA PanelsInvStep == PanelsInv /\ [Next]_vars => PanelsInv'
BY PressStep, RowStep, PerformStep, EndTickStep, ServiceStep DEF Next, Worker

\* The inductive invariant of the panels, their buttons and the rows these leave.
THEOREM PanelsCorrect == Spec => []PanelsInv
BY PanelsInvInit, PanelsInvStep, PTL DEF Spec

\* Every variable has its type, and a worker that waits has no row half done.
THEOREM PanelsTyped == Spec => []PanelsTypeOK
<1>1. PanelsInv => PanelsTypeOK
  BY DEF PanelsInv
<1> QED BY <1>1, PanelsCorrect, PTL

\* PanelStore.consume and the row "ui:" of Panels.perform: a form makes one session at most,
\* whatever is pressed again, rendered again or performed again after a crash.
THEOREM FormsMakeOne == Spec => []OneSessionPerForm
<1>1. PanelsInv => OneSessionPerForm
  BY DEF PanelsInv
<1> QED BY <1>1, PanelsCorrect, PTL

=============================================================================
