------------------------------- MODULE Panels -------------------------------
(***************************************************************************)
(* Panels and forms: the tables ui_panels and ui_actions of                *)
(* store/panels.py, what conversation/panels.py offers on a panel and does *)
(* when a button is pressed, and the rows that work leaves in the inbox.   *)
(*                                                                         *)
(* With a group for each session (room_mode), as the gateway runs: the     *)
(* panels of the chat with the application, one session that they are      *)
(* about, its group and one queued input of it, and the sessions forms     *)
(* make.                                                                   *)
(* The hub's own work on a row ("ui:" and the event) is one step here; Hub *)
(* and Sessions have its parts.                                            *)
(***************************************************************************)
EXTENDS Integers, Sequences, Functions

CONSTANTS
  MaxPresses,    \* bound on pressed buttons
  Limit,         \* panels() returns so many
  MaxSurprises,  \* bound on crashes, failed views and groups that are not made
  None           \* nothing rendered, or rendered again whatever is on it

\* Events of pressed buttons, in the order of their rows; a panel has the name of the event
\* that opens it, and a message opens the first.
Presses == 1 .. MaxPresses
Ids == 0 .. MaxPresses

VARIABLES
  opened,     \* ui_panels, oldest first
  mode,       \* of each panel
  filter,     \* of each panel: archived sessions only
  digest,     \* what each panel showed when last rendered
  live,       \* ui_actions: the unused buttons of each panel
  submitted,  \* forms
  inbox,      \* rows of buttons and of the work they ask for, oldest first
  session,    \* the session: its state, queue, last view and queued input
  room,       \* the group of the session: "ERROR" if there is none, else "QUEUED", made or not
  made,       \* sessions made from each form
  pc,         \* the worker
  todo,       \* indexes of the rows it read and has not taken
  doing,      \* index of the row at hand, or 0
  surprises

panels == <<opened, mode, filter, digest, live, submitted>>
vars == <<panels, inbox, session, room, made, pc, todo, doing, surprises>>

Modes == {"sessions", "detail", "new"}
Controls == {"stop", "continue", "archive", "resume", "room"}
Filters == {"active", "archived"}
Ops == Modes \cup Controls \cup Filters \cup {"page", "create", "cancel"}

ASSUME PanelsAssumption ==
  /\ Limit \in Nat \ {0}
  /\ MaxPresses \in Nat /\ MaxSurprises \in Nat
  /\ None \notin Ids /\ None \notin Ops

SessionStates == [state : {"ACTIVE", "ARCHIVED"}, paused : BOOLEAN, view : {"idle", "busy", "none"},
                  queued : BOOLEAN]
Rows == [event : Presses, ui : BOOLEAN, op : Ops \cup {None}, panel : Ids \cup {None},
         state : {"QUEUED", "SUBMITTING", "DONE", "REJECTED", "UNKNOWN"}]

PanelsTypeOK ==
  /\ opened \in Seq(Ids) /\ IsInjective(opened)
  /\ mode \in [Ids -> Modes \cup {None}]
  /\ filter \in [Ids -> Filters]
  /\ digest \in [Ids -> {None} \cup SUBSET Ops]
  /\ live \in [Ids -> SUBSET Ops]
  /\ submitted \subseteq Ids
  /\ inbox \in Seq(Rows)
  /\ session \in SessionStates
  /\ room \in {"ERROR", "QUEUED"}
  /\ made \in [Ids -> Nat]
  /\ pc \in {"down", "sleep", "requests", "perform", "open", "performed", "hub"}
  /\ todo \subseteq DOMAIN inbox
  /\ doing \in {0} \cup DOMAIN inbox
  /\ surprises \in 0 .. MaxSurprises
  /\ pc \in {"sleep", "requests"} => \A i \in DOMAIN inbox : inbox[i].state # "SUBMITTING"

Init ==
  /\ opened = <<0>>
  /\ \E m \in Modes : mode = [p \in Ids |-> IF p = 0 THEN m ELSE None]
  /\ filter = [p \in Ids |-> "active"]
  /\ digest = [p \in Ids |-> None]
  /\ live = [p \in Ids |-> {}]
  /\ submitted = {}
  /\ inbox = <<>>
  /\ session = [state |-> "ACTIVE", paused |-> FALSE, view |-> "none", queued |-> FALSE]
  /\ room = "ERROR"
  /\ made = [p \in Ids |-> 0]
  /\ pc = "sleep" /\ todo = {} /\ doing = 0
  /\ surprises = 0

Surprise == surprises < MaxSurprises /\ surprises' = surprises + 1

-----------------------------------------------------------------------------
(* What a panel offers. *)

If(condition, ops) == IF condition THEN ops ELSE {}
Navigation == {"sessions", "new"}

\* A group that is missing or was not made can be asked for; one that is ready has a link.
RoomOps == If(room = "ERROR", {"room"})

\* A row of the list, and the list, which shows the session under the filter of its state.
RowOps ==
  {"detail"} \cup If(session.state = "ACTIVE", RoomOps)
             \cup If(session.state = "ARCHIVED", {"resume"})

ListOps(p) ==
  LET shown == (session.state = "ARCHIVED") <=> (filter[p] = "archived")
  IN Filters \cup {"page"} \cup If(shown, RowOps)

DetailOps ==
  {"page"}
  \cup If(session.queued, {"cancel"})
  \cup If(session.state = "ARCHIVED", {"resume"})
  \cup If(session.state = "ACTIVE",
          RoomOps
          \cup If(session.view = "busy", {"stop"})
          \cup If(session.paused, {"continue"})
          \cup If(session.view = "idle" /\ ~session.queued, {"archive"}))

FormOps(p) == If(p \notin submitted, {"create"})

Offered(p) ==
  Navigation \cup CASE mode[p] = "sessions" -> ListOps(p)
                    [] mode[p] = "detail"   -> DetailOps
                    [] mode[p] = "new"      -> FormOps(p)

-----------------------------------------------------------------------------
(* Buttons and the rows they leave. *)

Row(e, ui, op, p) == [event |-> e, ui |-> ui, op |-> op, panel |-> p, state |-> "QUEUED"]
Seen(e, ui) == \E i \in DOMAIN inbox : inbox[i].event = e /\ inbox[i].ui = ui

\* Fault: the form is not marked as submitted.
ConsumeFault(e, p, op) ==
  /\ ~Seen(e, FALSE) /\ op \in live[p]
  /\ inbox' = Append(inbox, Row(e, FALSE, op, p))
  /\ digest' = [digest EXCEPT ![p] = None]
  /\ live' = [live EXCEPT ![p] = @ \ {op}]
  /\ UNCHANGED submitted

\* Fault: the panel is not rendered again after a press.
ConsumeQuietFault(e, p, op) ==
  /\ ~Seen(e, FALSE) /\ op \in live[p]
  /\ inbox' = Append(inbox, Row(e, FALSE, op, p))
  /\ submitted' = submitted \cup If(op = "create", {p})
  /\ live' = [live EXCEPT ![p] = IF op = "create" THEN {} ELSE @ \ {op}]
  /\ UNCHANGED digest

\* A button acts once and has its panel rendered again; a form takes one submission.
Consume(e, p, op) ==
  /\ ~Seen(e, FALSE) /\ op \in live[p]
  /\ inbox' = Append(inbox, Row(e, FALSE, op, p))
  /\ digest' = [digest EXCEPT ![p] = None]
  /\ submitted' = submitted \cup If(op = "create", {p})
  /\ live' = [live EXCEPT ![p] = IF op = "create" THEN {} ELSE @ \ {op}]

\* The channel calls back while the worker waits.
Waiting == pc \notin {"down", "perform", "open", "performed"}

Press(e, p, op) ==
  /\ Waiting
  /\ \A f \in 1 .. e - 1 : Seen(f, FALSE)
  /\ Consume(e, p, op)
  /\ UNCHANGED <<opened, mode, filter, session, room, made, pc, todo, doing, surprises>>

Enqueue ==
  /\ Waiting
  /\ session.state = "ACTIVE" /\ ~session.queued
  /\ session' = [session EXCEPT !.queued = TRUE]
  /\ UNCHANGED <<panels, inbox, room, made, pc, todo, doing, surprises>>

-----------------------------------------------------------------------------
(* perform(): what a pressed button does, as far as its commits. *)

\* A row for the hub, once; a stop pauses the queue and revokes what would open it.
Receive(row) ==
  LET Revoked(i) == inbox[i].ui /\ inbox[i].op = "continue" /\ inbox[i].state = "QUEUED"
      rows == IF row.op # "stop" THEN inbox
              ELSE [i \in DOMAIN inbox |->
                      IF Revoked(i) THEN [inbox[i] EXCEPT !.state = "REJECTED"] ELSE inbox[i]]
  IN IF Seen(row.event, TRUE) THEN UNCHANGED <<inbox, session>>
     ELSE /\ inbox' = Append(rows, Row(row.event, TRUE, row.op, row.panel))
          /\ session' = [session EXCEPT !.paused = @ \/ row.op = "stop"]

Open(e, m) ==
  IF mode[e] # None THEN UNCHANGED <<opened, mode>>
  ELSE opened' = Append(opened, e) /\ mode' = [mode EXCEPT ![e] = m]

\* The session, its row and the group to be made are one commit, made once.
Create(row) ==
  /\ row.op = "create"
  /\ IF Seen(row.event, TRUE) THEN UNCHANGED <<inbox, made>> /\ pc' = "performed"
     ELSE /\ inbox' = Append(inbox, Row(row.event, TRUE, "create", row.panel))
          /\ made' = [made EXCEPT ![row.panel] = @ + 1]
          /\ pc' = "open"
  /\ UNCHANGED <<opened, mode, filter, digest, session>>

Page(row) ==
  /\ row.op \in Filters \cup {"page"}
  /\ filter' = IF row.op = "page" THEN filter ELSE [filter EXCEPT ![row.panel] = row.op]
  /\ digest' = [digest EXCEPT ![row.panel] = None]
  /\ pc' = "performed"
  /\ UNCHANGED <<opened, mode, inbox, session, made>>

Navigate(row) ==
  /\ row.op \in Modes
  /\ Open(row.event, row.op)
  /\ pc' = "performed"
  /\ UNCHANGED <<filter, digest, inbox, session, made>>

Cancel(row) ==
  /\ row.op = "cancel" /\ session.queued
  /\ session' = [session EXCEPT !.queued = FALSE]
  /\ pc' = "performed"
  /\ UNCHANGED <<opened, mode, filter, digest, inbox, made>>

Control(row) ==
  /\ row.op \in Controls /\ (row.op \notin {"resume", "room"} => session.state = "ACTIVE")
  /\ Receive(row)
  /\ pc' = "open"
  /\ UNCHANGED <<opened, mode, filter, digest, made>>

Refused(row) ==
  \/ row.op \in {"stop", "continue", "archive"} /\ session.state # "ACTIVE"
  \/ row.op = "cancel" /\ ~session.queued

Perform ==
  /\ pc = "perform"
  /\ LET row == inbox[doing]
     IN \/ Create(row) \/ Page(row) \/ Navigate(row) \/ Cancel(row) \/ Control(row)
  /\ UNCHANGED <<room, live, submitted, todo, doing, surprises>>

\* The panel of the session is the last commit, which a crash forgets.
OpenDetail ==
  /\ pc = "open"
  /\ Open(inbox[doing].event, "detail")
  /\ pc' = "performed"
  /\ UNCHANGED <<filter, digest, live, submitted, inbox, session, room, made, todo, doing, surprises>>

-----------------------------------------------------------------------------
(* The tick. *)

\* What a settled row was about is not looked at again, and forgotten here.
Settle(state) ==
  /\ inbox' = [inbox EXCEPT ![doing] = [@ EXCEPT !.state = state, !.op = None, !.panel = None]]
  /\ doing' = 0 /\ pc' = "requests"
  /\ UNCHANGED todo

\* The rows that are read at once, and the next of them: stops first, then the oldest.
Requests(rows) == {i \in DOMAIN rows : rows[i].state = "QUEUED"}

Foremost ==
  LET First(i) == inbox[i].ui /\ inbox[i].op = "stop"
  IN {i \in todo : \A j \in todo : IF First(i) = First(j) THEN i <= j ELSE First(i)}

\* Fault: rows in doubt are not taken up again.
BeginTickFault ==
  /\ pc = "sleep"
  /\ todo' = Requests(inbox)
  /\ pc' = "requests"
  /\ UNCHANGED <<panels, inbox, session, room, made, doing, surprises>>

\* A stop or a creation in doubt is only looked at; the other rows are taken up again.
BeginTick ==
  /\ pc = "sleep"
  /\ \E confirmed \in BOOLEAN :
       LET After(row) == IF ~row.ui \/ row.op \notin {"stop", "create"} THEN "QUEUED"
                         ELSE IF confirmed THEN "DONE" ELSE "UNKNOWN"
       IN inbox' = [i \in DOMAIN inbox |->
                      IF inbox[i].state # "UNKNOWN" THEN inbox[i]
                      ELSE [inbox[i] EXCEPT !.state = After(inbox[i])]]
  /\ todo' = Requests(inbox')
  /\ pc' = "requests"
  /\ UNCHANGED <<panels, session, room, made, doing, surprises>>

Take ==
  /\ pc = "requests"
  /\ doing' \in Foremost
  /\ todo' = todo \ {doing'}
  /\ inbox' = [inbox EXCEPT ![doing'].state = "SUBMITTING"]
  /\ pc' = IF inbox[doing'].ui THEN "hub" ELSE "perform"
  /\ UNCHANGED <<panels, session, room, made, surprises>>

Refuse ==
  /\ pc = "perform" /\ Refused(inbox[doing])
  /\ Settle("REJECTED")
  /\ UNCHANGED <<panels, session, room, made, surprises>>

Performed ==
  /\ pc = "performed"
  /\ Settle("DONE")
  /\ UNCHANGED <<panels, session, room, made, surprises>>

HubDone ==
  /\ pc = "hub"
  /\ LET op == inbox[doing].op IN
     \/ /\ op \in {"stop", "create"}
        /\ UNCHANGED <<session, room>>
     \/ /\ op = "room"
        /\ room' = "QUEUED"
        /\ UNCHANGED session
     \/ /\ op = "continue" /\ session.state = "ACTIVE"
        /\ session' = [session EXCEPT !.paused = FALSE]
        /\ UNCHANGED room
     \/ /\ op = "archive" /\ session.state = "ACTIVE" /\ ~session.queued
        /\ session' = [session EXCEPT !.state = "ARCHIVED", !.paused = TRUE]
        /\ UNCHANGED room
     \/ /\ op = "resume" /\ session.state = "ARCHIVED"
        /\ session' = [session EXCEPT !.state = "ACTIVE"]
        /\ UNCHANGED room
  /\ Settle("DONE")
  /\ UNCHANGED <<panels, made, surprises>>

\* A failed read before the write: later, with the queue paused.
HubRetries ==
  /\ pc = "hub" /\ inbox[doing].op \in Controls \ {"continue", "room"}
  /\ inbox' = [inbox EXCEPT ![doing].state = "QUEUED"]
  /\ session' = [session EXCEPT !.paused = TRUE]
  /\ doing' = 0 /\ pc' = "requests"
  /\ UNCHANGED <<panels, room, made, todo, surprises>>

HubRefuses ==
  /\ pc = "hub" /\ inbox[doing].op # "room"
  /\ Settle("REJECTED")
  /\ UNCHANGED <<panels, session, room, made, surprises>>

\* The newest panels; a form that awaits its submission keeps its draft.
Newest == {opened[i] : i \in {k \in DOMAIN opened : k > Len(opened) - Limit}}
Drafts == {p \in Ids : mode[p] = "new" /\ digest[p] # None /\ p \notin submitted}

\* Every button of a panel that changed is new; the older ones are retired.
Render ==
  \E fresh \in {{p \in Newest \ Drafts : digest[p] # Offered(p)'}} :
    /\ digest' = [p \in Ids |-> IF p \in fresh THEN Offered(p)' ELSE digest[p]]
    /\ live' = [p \in Ids |-> IF p \in fresh THEN Offered(p)' ELSE live[p]]

\* The view of an active session, its group, which is made while it is idle or fails to be, the
\* submission these may allow, and the panels.
EndTick ==
  /\ pc = "requests" /\ todo = {}
  /\ \E view \in {"idle", "busy", "none"}, held \in BOOLEAN :
       /\ session' = [session EXCEPT
                        !.view = IF session.state = "ACTIVE" THEN view ELSE @,
                        !.queued = @ /\ (session.state # "ACTIVE" \/ view # "idle" \/ session.paused \/ held)]
       /\ room' \in {room} \cup If(session.state = "ACTIVE" /\ view = "idle", {"ERROR"})
       /\ IF view = "none" \/ room' # room THEN Surprise ELSE UNCHANGED surprises
  /\ UNCHANGED <<opened, mode, filter, submitted, inbox, made, todo, doing>>
  /\ Render
  /\ pc' = "sleep"

Crash ==
  /\ pc # "down" /\ Surprise
  /\ pc' = "down" /\ todo' = {} /\ doing' = 0
  /\ UNCHANGED <<panels, inbox, session, room, made>>

\* Fault: recovery leaves the interrupted row as it was.
RestartFault ==
  /\ pc = "down"
  /\ session' = [session EXCEPT !.view = "none"]
  /\ pc' = "sleep"
  /\ UNCHANGED <<panels, inbox, room, made, todo, doing, surprises>>

\* recover_gateway pauses the sessions of the rows it puts in doubt.
Restart ==
  /\ pc = "down"
  /\ LET interrupted == {i \in DOMAIN inbox : inbox[i].state = "SUBMITTING"} IN
     /\ inbox' = [i \in DOMAIN inbox |->
                    IF i \in interrupted THEN [inbox[i] EXCEPT !.state = "UNKNOWN"] ELSE inbox[i]]
     /\ session' = [session EXCEPT !.view = "none",
                      !.paused = @ \/ \E i \in interrupted : inbox[i].op \in Controls \cup {"cancel", "detail"}]
  /\ pc' = "sleep"
  /\ UNCHANGED <<panels, room, made, todo, doing, surprises>>

Worker == BeginTick \/ Take \/ Perform \/ OpenDetail \/ Refuse \/ Performed \/ HubDone \/ HubRetries \/ HubRefuses \/ EndTick

Next ==
  \/ \E e \in Presses, p \in Ids, op \in Ops : Press(e, p, op)
  \/ Enqueue \/ Worker \/ Crash \/ Restart

Spec == Init /\ [][Next]_vars

\* The loop goes on, and systemd starts the service again.
LiveSpec == Spec /\ WF_vars(Worker) /\ WF_vars(Restart)

-----------------------------------------------------------------------------
(* Properties. *)

\* "Duplicate form submission does not create a second session", whatever is pressed again,
\* rendered again or performed again after a crash.
OneSessionPerForm == \A p \in Ids : made[p] <= 1

\* A submitted form does get its session, through a crash at any point.
SubmittedIsCreated == \A p \in Ids : p \in submitted ~> made[p] = 1

\* The newest panels do not go dead: each of them shows, again and again, all that it offers
\* on buttons that still work, even when a press changed nothing; a form may keep its draft.
ButtonsComeBack ==
  []<>(\A p \in Newest \ Drafts : digest[p] = Offered(p) /\ live[p] = Offered(p))

=============================================================================
