-------------------------------- MODULE Hub --------------------------------
(***************************************************************************)
(* The gateway's one worker coroutine, Hub.run in conversation/hub.py:     *)
(* reconcile_controls, requests, the views, project and the scheduling     *)
(* loop of tick, with the inbound handler (Hub.accept) that runs in other  *)
(* tasks whenever the worker awaits, the AGY runtime it talks to, crashes, *)
(* restarts and the operator's command line.                               *)
(*                                                                         *)
(* pc names the place the worker has reached.  Code between two awaits     *)
(* runs without interruption: inbound actions are enabled only AtAwait.  A *)
(* crash may fall between any two transactions.  Commands come from the    *)
(* session's own group, whose membership is verified first (Rooms.allowed).*)
(***************************************************************************)
EXTENDS Ledger, Sequences

CONSTANTS
  Controls,      \* the commands the user may ever send
  ActionOf,      \* "stop", "continue", "archive" or "resume"
  TargetOf,      \* the session each command is for
  SessionOrder,  \* the sessions in the order of their rows
  SteerLevels,   \* subset of BOOLEAN: may the verified AGY support steering
  MaxSurprises,  \* bound on failures, crashes, desktop tasks and duplicates
  NoView         \* no view of the session (failed, or not read yet)

ASSUME HubAssumption ==
  /\ ActionOf \in [Controls -> {"stop", "continue", "archive", "resume"}]
  /\ TargetOf \in [Controls -> Bindings]
  /\ SessionOrder \in Seq(Bindings)
  /\ SteerLevels \in SUBSET BOOLEAN
  /\ MaxSurprises \in Nat
  /\ NoView \notin [idle : BOOLEAN, once : SUBSET Requests, twice : SUBSET Requests]

VARIABLES
  ctl,        \* inbox.status of each command, "NONE" while there is no row
  inbox,      \* the commands in the order of their rows
  opener,     \* history: the row of the /continue that last opened each queue
  session,    \* session_meta.state
  ready,      \* the sessions whose group is READY
  steer,      \* capability found when the process started
  pc,         \* where the worker is
  asker,      \* what the view being read is for
  todo,       \* the rows left of the snapshot the worker iterates over
  left,       \* the sessions left to view in this tick
  snap,       \* idleness in the first of the two reads that make a view
  view,       \* Hub.views
  doing,      \* the command being handled, as a sequence of at most one
  sending,    \* the input being submitted, as a sequence of at most one
  place,      \* where each transmitted input is
  doubled,    \* inputs whose tag the native history shows twice
  desktop,    \* sessions running a task started on the desktop
  sent,       \* history: times each input was transmitted
  surprises   \* surprises so far

inboundVars == <<ctl, inbox, opener, session, ready>>
workerVars  == <<pc, asker, todo, left, snap, view, doing, sending, steer>>
agyVars     == <<place, doubled, desktop, sent>>
hubVars     == <<inboundVars, workerVars, agyVars, surprises>>
vars        == <<ledgerVars, hubVars>>

CtlStates == {"NONE", "QUEUED", "SUBMITTING", "UNKNOWN", "DONE", "REJECTED", "DISMISSED"}
Views == [idle : BOOLEAN, once : SUBSET Requests, twice : SUBSET Requests]
Places == {"none", "wire", "lost", "refused", "pending", "running", "ended"}
Steps == {"down", "sleep", "reconcile", "requests", "control", "controlDone", "controlPause",
          "snapshot", "steps", "stopCall", "stopConfirm", "views", "rooms", "project", "schedule", "send", "sendAck",
          "sendPause"}

HubTypeOK ==
  /\ TypeOK
  /\ ctl \in [Controls -> CtlStates]
  /\ inbox \in Seq(Controls)
  /\ opener \in [Bindings -> Nat]
  /\ session \in [Bindings -> {"ACTIVE", "ARCHIVED"}]
  /\ ready \in SUBSET Bindings
  /\ steer \in BOOLEAN
  /\ pc \in Steps
  /\ asker \in {"tick", "reconcile", "control"}
  /\ todo \in Seq(Controls)
  /\ left \in Seq(Bindings)
  /\ snap \in BOOLEAN
  /\ view \in [Bindings -> Views \cup {NoView}]
  /\ doing \in Seq(Controls)
  /\ sending \in Seq(Requests)
  /\ place \in [Requests -> Places]
  /\ doubled \in SUBSET Requests
  /\ desktop \in SUBSET Bindings
  /\ sent \in [Requests -> Nat]
  /\ surprises \in 0 .. MaxSurprises

Init ==
  /\ LedgerInit
  /\ ctl = [c \in Controls |-> "NONE"]
  /\ inbox = << >>
  /\ opener = [b \in Bindings |-> 0]
  /\ session = [b \in Bindings |-> "ACTIVE"]
  /\ ready = Bindings
  /\ steer \in SteerLevels
  /\ pc = "sleep"
  /\ asker = "tick"
  /\ todo = << >>
  /\ left = << >>
  /\ snap = FALSE
  /\ view = [b \in Bindings |-> NoView]
  /\ doing = << >>
  /\ sending = << >>
  /\ place = [r \in Requests |-> "none"]
  /\ doubled = {}
  /\ desktop = {}
  /\ sent = [r \in Requests |-> 0]
  /\ surprises = 0

Surprise == surprises < MaxSurprises /\ surprises' = surprises + 1

\* The worker is suspended, so that the tasks of inbound events may run.
AtAwait ==
  \/ pc \in {"sleep", "snapshot", "steps", "stopCall", "stopConfirm", "rooms", "send", "sendAck"}
  \/ pc = "requests" /\ todo # << >>

\* GatewayStore.blocked, for the commands modelled here.
Blocked(b) ==
  \E c \in Controls : /\ ActionOf[c] = "stop" /\ TargetOf[c] = b
                      /\ ctl[c] \in {"UNKNOWN", "SUBMITTING"}

-----------------------------------------------------------------------------
(* The AGY runtime, outside the gateway: it starts a received input when its *)
(* session is idle, lets a steer join the running task, and tags both.       *)

Idle(b) == b \notin desktop /\ \A r \in Of(b) : place[r] \notin {"pending", "running"}

Arrive(r) ==
  /\ place[r] = "wire"
  /\ place' = [place EXCEPT ![r] = IF KindOf[r] = "steer" /\ ~Idle(BindingOf[r]) THEN "ended"
                                                                               ELSE "pending"]
  /\ UNCHANGED <<ledgerVars, inboundVars, workerVars, doubled, desktop, sent, surprises>>

Vanish(r) ==
  /\ place[r] = "wire"
  /\ place' = [place EXCEPT ![r] = "lost"]
  /\ Surprise
  /\ UNCHANGED <<ledgerVars, inboundVars, workerVars, doubled, desktop, sent>>

Start(r) ==
  /\ place[r] = "pending"
  /\ BindingOf[r] \notin desktop
  /\ \A o \in Of(BindingOf[r]) : place[o] # "running"
  /\ place' = [place EXCEPT ![r] = "running"]
  /\ UNCHANGED <<ledgerVars, inboundVars, workerVars, doubled, desktop, sent, surprises>>

End(r) ==
  /\ place[r] = "running"
  /\ place' = [place EXCEPT ![r] = "ended"]
  /\ UNCHANGED <<ledgerVars, inboundVars, workerVars, doubled, desktop, sent, surprises>>

DesktopStart(b) ==
  /\ Idle(b)
  /\ desktop' = desktop \cup {b}
  /\ Surprise
  /\ UNCHANGED <<ledgerVars, inboundVars, workerVars, place, doubled, sent>>

DesktopEnd(b) ==
  /\ b \in desktop
  /\ desktop' = desktop \ {b}
  /\ UNCHANGED <<ledgerVars, inboundVars, workerVars, place, doubled, sent, surprises>>

\* AGY offers no idempotency of its own: a replayed turn shows the tag again.
Double(r) ==
  /\ place[r] = "ended"
  /\ r \notin doubled
  /\ doubled' = doubled \cup {r}
  /\ Surprise
  /\ UNCHANGED <<ledgerVars, inboundVars, workerVars, place, desktop, sent>>

Agy ==
  \/ \E r \in Requests : Arrive(r) \/ Vanish(r) \/ Start(r) \/ End(r) \/ Double(r)
  \/ \E b \in Bindings : DesktopStart(b) \/ DesktopEnd(b)

-----------------------------------------------------------------------------
(* Inbound events: Hub.accept, after Rooms.allowed verified the group. *)

ReceiveInput(r) ==
  /\ AtAwait
  /\ session[BindingOf[r]] = "ACTIVE"
  /\ KindOf[r] = "steer" => steer
  /\ Accept(r)
  /\ ready' = ready \cup {BindingOf[r]}
  /\ UNCHANGED <<ctl, inbox, opener, session, workerVars, agyVars, surprises>>

\* GatewayStore.receive: a stop pauses the queue at once and refuses the
\* continues that wait.
Receive(c) ==
  /\ AtAwait
  /\ ctl[c] = "NONE"
  /\ inbox' = Append(inbox, c)
  /\ ready' = ready \cup {TargetOf[c]}
  /\ IF ActionOf[c] = "stop"
     THEN /\ Pause(TargetOf[c])
          /\ ctl' = [d \in Controls |->
                       IF d = c THEN "QUEUED"
                       ELSE IF ActionOf[d] = "continue" /\ TargetOf[d] = TargetOf[c] /\ ctl[d] = "QUEUED"
                            THEN "REJECTED" ELSE ctl[d]]
     ELSE /\ ctl' = [ctl EXCEPT ![c] = "QUEUED"]
          /\ UNCHANGED ledgerVars
  /\ UNCHANGED <<opener, session, workerVars, agyVars, surprises>>

\* /cancel of an input that is still queued.
ReceiveCancel(r) ==
  /\ AtAwait
  /\ CancelQueued(r)
  /\ ready' = ready \cup {BindingOf[r]}
  /\ UNCHANGED <<ctl, inbox, opener, session, workerVars, agyVars, surprises>>

\* The group of an event did not pass verification: the event is dropped.
RefuseGroup(b) ==
  /\ AtAwait
  /\ b \in ready
  /\ ready' = ready \ {b}
  /\ Surprise
  /\ UNCHANGED <<ledgerVars, ctl, inbox, opener, session, workerVars, agyVars>>

Inbound ==
  \/ \E r \in Requests : ReceiveInput(r) \/ ReceiveCancel(r)
  \/ \E c \in Controls : Receive(c)
  \/ \E b \in Bindings : RefuseGroup(b)

-----------------------------------------------------------------------------
(* Reading a view: the adapter takes a snapshot, then the steps, and each is *)
(* a call of its own.                                                        *)

\* The session whose view is being read.
Subject ==
  CASE asker = "tick" -> Head(left)
    [] asker = "reconcile" -> TargetOf[Head(todo)]
    [] asker = "control" -> TargetOf[doing[1]]

StartView(who) ==
  /\ pc' = "snapshot"
  /\ asker' = who
  /\ snap' = FALSE

ReadSnapshot ==
  /\ pc = "snapshot"
  /\ pc' = "steps"
  /\ snap' = Idle(Subject)
  /\ UNCHANGED <<ledgerVars, inboundVars, agyVars, surprises,
                 asker, todo, left, view, doing, sending, steer>>

\* Tags seen on at least one step of the native history of b.
Shown(b) == {r \in Of(b) : place[r] \in {"running", "ended"}}

\* The views the second read can make.  A busy session may be between two
\* steps, with none marked running or waiting.
Seen(b) ==
  {[idle |-> snap /\ ~active, once |-> Shown(b) \ doubled, twice |-> Shown(b) \cap doubled] :
     active \in IF Idle(b) THEN {FALSE} ELSE BOOLEAN}

\* A view was read for who, or the runtime did not answer.
Viewed(who) == pc = "steps" /\ asker = who
ViewFails(who) == pc \in {"snapshot", "steps"} /\ asker = who /\ Surprise

-----------------------------------------------------------------------------
(* reconcile_controls: commands whose outcome a failure left UNKNOWN. *)

InState(c, state) == ctl[c] = state

Wake ==
  /\ pc = "sleep"
  /\ pc' = "reconcile"
  /\ todo' = SelectSeq(inbox, LAMBDA c : InState(c, "UNKNOWN"))
  /\ UNCHANGED <<ledgerVars, inboundVars, agyVars, surprises,
                 asker, left, snap, view, doing, sending, steer>>

\* Anything but a stop can be done again.
Requeue ==
  /\ pc = "reconcile"
  /\ todo # << >>
  /\ ActionOf[Head(todo)] # "stop"
  /\ ctl' = [ctl EXCEPT ![Head(todo)] = "QUEUED"]
  /\ todo' = Tail(todo)
  /\ UNCHANGED <<ledgerVars, inbox, opener, session, ready, agyVars, surprises,
                 pc, asker, left, snap, view, doing, sending, steer>>

ReconcileStop ==
  /\ pc = "reconcile"
  /\ todo # << >>
  /\ ActionOf[Head(todo)] = "stop"
  /\ StartView("reconcile")
  /\ UNCHANGED <<ledgerVars, inboundVars, agyVars, surprises,
                 todo, left, view, doing, sending, steer>>

\* A stop is over once the session is seen idle; the queue stays paused.
StopReconciled ==
  /\ \/ /\ Viewed("reconcile")
        /\ \E v \in Seen(Subject) :
             ctl' = IF v.idle THEN [ctl EXCEPT ![Head(todo)] = "DONE"] ELSE ctl
        /\ UNCHANGED surprises
     \/ ViewFails("reconcile") /\ UNCHANGED ctl
  /\ pc' = "reconcile"
  /\ todo' = Tail(todo)
  /\ UNCHANGED <<ledgerVars, inbox, opener, session, ready, agyVars,
                 asker, left, snap, view, doing, sending, steer>>

Reconcile == Wake \/ Requeue \/ ReconcileStop \/ StopReconciled

-----------------------------------------------------------------------------
(* requests: the snapshot of queued commands, stops first, handled in turn.  *)
(* The row is not read again before it is marked SUBMITTING.                 *)

Queued(stops) ==
  SelectSeq(inbox, LAMBDA c : InState(c, "QUEUED") /\ (ActionOf[c] = "stop") = stops)

BeginRequests ==
  /\ pc = "reconcile"
  /\ todo = << >>
  /\ pc' = "requests"
  /\ todo' = Queued(TRUE) \o Queued(FALSE)
  /\ UNCHANGED <<ledgerVars, inboundVars, agyVars, surprises,
                 asker, left, snap, view, doing, sending, steer>>

\* The group the command came from no longer passes: it stays queued.
SkipRequest ==
  /\ pc = "requests"
  /\ todo # << >>
  /\ ready' = ready \ {TargetOf[Head(todo)]}
  /\ todo' = Tail(todo)
  /\ Surprise
  /\ UNCHANGED <<ledgerVars, ctl, inbox, opener, session, agyVars,
                 pc, asker, left, snap, view, doing, sending, steer>>

TakeRequest ==
  /\ pc = "requests"
  /\ todo # << >>
  /\ ready' = ready \cup {TargetOf[Head(todo)]}
  /\ ctl' = [ctl EXCEPT ![Head(todo)] = "SUBMITTING"]
  /\ doing' = <<Head(todo)>>
  /\ todo' = Tail(todo)
  /\ pc' = "control"
  /\ UNCHANGED <<ledgerVars, inbox, opener, session, agyVars, surprises,
                 asker, left, snap, view, sending, steer>>

\* The command being handled, and the end of its handling.
Doing(action) == pc = "control" /\ ActionOf[doing[1]] = action
Settle(state) ==
  /\ ctl' = [ctl EXCEPT ![doing[1]] = state]
  /\ doing' = << >>
  /\ pc' = "requests"

Refuse == Settle("REJECTED") /\ UNCHANGED <<ledgerVars, inbox, opener, session>>

\* A call got no usable answer: the new status of the command, then the pause.
Unanswered(state) ==
  /\ ctl' = [ctl EXCEPT ![doing[1]] = state]
  /\ pc' = "controlPause"
  /\ UNCHANGED <<ledgerVars, inbox, opener, session, doing>>

\* Fault: a continue does not wait for the outcome of a stop.
MayContinueFault(b) == session[b] = "ACTIVE" /\ Resumable(b)

MayContinue(b) == session[b] = "ACTIVE" /\ ~Blocked(b) /\ Resumable(b)

RowOf(c) == CHOOSE i \in DOMAIN inbox : inbox[i] = c

Continue ==
  /\ Doing("continue")
  /\ LET b == TargetOf[doing[1]]
     IN  \/ /\ MayContinue(b)
            /\ Resume(b)
            /\ opener' = [opener EXCEPT ![b] = RowOf(doing[1])]
            /\ pc' = "controlDone"
            /\ UNCHANGED <<ctl, inbox, session, doing>>
         \/ ~MayContinue(b) /\ Refuse
  /\ UNCHANGED <<ready, agyVars, surprises, asker, todo, left, snap, view, sending, steer>>

ControlDone ==
  /\ pc = "controlDone"
  /\ Settle("DONE")
  /\ UNCHANGED <<ledgerVars, inbox, opener, session, ready, agyVars, surprises,
                 asker, todo, left, snap, view, sending, steer>>

\* The other commands look at the session first; only an archived one resumes.
ControlPause ==
  /\ pc = "controlPause"
  /\ Pause(TargetOf[doing[1]])
  /\ doing' = << >>
  /\ pc' = "requests"
  /\ UNCHANGED <<inboundVars, agyVars, surprises, asker, todo, left, snap, view, sending, steer>>

LookFirst ==
  /\ pc = "control"
  /\ ActionOf[doing[1]] # "continue"
  /\ IF ActionOf[doing[1]] = "resume" /\ session[TargetOf[doing[1]]] # "ARCHIVED"
     THEN Refuse /\ UNCHANGED <<asker, snap>>
     ELSE /\ StartView("control")
          /\ UNCHANGED <<ledgerVars, ctl, inbox, opener, session, doing>>
  /\ UNCHANGED <<ready, agyVars, surprises, todo, left, view, sending, steer>>

\* Nothing was written: the command waits.
LookFails ==
  /\ ViewFails("control")
  /\ Unanswered("QUEUED")
  /\ UNCHANGED <<ready, agyVars, asker, todo, left, snap, view, sending, steer>>

\* Fault: the inputs still queued are not looked at.
MayArchiveFault(b) ==
  /\ session[b] = "ACTIVE"
  /\ ~Blocked(b)
  /\ \A r \in Of(b) : opState[r] \notin Unsettled

\* GatewayStore.archive: nothing queued, unsettled or waiting for confirmation.
MayArchive(b) ==
  /\ session[b] = "ACTIVE"
  /\ ~Blocked(b)
  /\ \A r \in Of(b) : opState[r] \notin Unsettled \cup {"QUEUED"}

Archive ==
  /\ Viewed("control")
  /\ ActionOf[doing[1]] = "archive"
  /\ LET b == TargetOf[doing[1]]
     IN  \E v \in Seen(b) :
           \/ /\ v.idle /\ MayArchive(b)
              /\ session' = [session EXCEPT ![b] = "ARCHIVED"]
              /\ Pause(b)
              /\ pc' = "controlDone"
              /\ UNCHANGED <<ctl, inbox, opener, doing>>
           \/ ~(v.idle /\ MayArchive(b)) /\ Refuse
  /\ UNCHANGED <<ready, agyVars, surprises, asker, todo, left, snap, view, sending, steer>>

\* A session whose native history cannot be shown is not resumed.
ResumeSession ==
  /\ Viewed("control")
  /\ ActionOf[doing[1]] = "resume"
  /\ \/ /\ session' = [session EXCEPT ![TargetOf[doing[1]]] = "ACTIVE"]
        /\ pc' = "controlDone"
        /\ UNCHANGED <<ledgerVars, ctl, inbox, opener, doing>>
     \/ Shown(TargetOf[doing[1]]) = {} /\ Refuse
  /\ UNCHANGED <<ready, agyVars, surprises, asker, todo, left, snap, view, sending, steer>>

\* From here on a failure leaves the outcome of the stop unknown.
StopViewed ==
  /\ Viewed("control")
  /\ ActionOf[doing[1]] = "stop"
  /\ pc' = "stopCall"
  /\ UNCHANGED <<ledgerVars, inboundVars, agyVars, surprises,
                 asker, todo, left, snap, view, doing, sending, steer>>

\* ForceStopCascadeTree ends what runs in session b.
Halt(b) ==
  /\ place' = [r \in Requests |-> IF r \in Of(b) /\ place[r] = "running" THEN "ended" ELSE place[r]]
  /\ desktop' = desktop \ {b}

StopCall ==
  /\ pc = "stopCall"
  /\ \/ /\ Halt(TargetOf[doing[1]])
        /\ \/ /\ pc' = "stopConfirm"
              /\ UNCHANGED <<ledgerVars, ctl, inbox, opener, session, doing, surprises>>
           \/ Unanswered("UNKNOWN") /\ Surprise
     \/ Unanswered("UNKNOWN") /\ Surprise /\ UNCHANGED <<place, desktop>>
     \/ Refuse /\ Surprise /\ UNCHANGED <<place, desktop>>
  /\ UNCHANGED <<ready, doubled, sent, asker, todo, left, snap, view, sending, steer>>

StopConfirm ==
  /\ pc = "stopConfirm"
  /\ \/ /\ Idle(TargetOf[doing[1]])
        /\ pc' = "controlDone"
        /\ UNCHANGED <<ledgerVars, ctl, inbox, opener, session, doing, surprises>>
     \/ ~Idle(TargetOf[doing[1]]) /\ Unanswered("UNKNOWN") /\ UNCHANGED surprises
     \/ Unanswered("UNKNOWN") /\ Surprise
  /\ UNCHANGED <<ready, agyVars, asker, todo, left, snap, view, sending, steer>>

HandleRequests ==
  \/ BeginRequests \/ SkipRequest \/ TakeRequest \/ Continue \/ ControlDone \/ ControlPause \/ LookFirst
  \/ LookFails \/ Archive \/ ResumeSession \/ StopViewed \/ StopCall \/ StopConfirm

-----------------------------------------------------------------------------
(* The rest of tick: views, rooms, project and the scheduling loop. *)

Active(b) == session[b] = "ACTIVE"

BeginViews ==
  /\ pc = "requests"
  /\ todo = << >>
  /\ pc' = "views"
  /\ left' = SelectSeq(SessionOrder, Active)
  /\ UNCHANGED <<ledgerVars, inboundVars, agyVars, surprises,
                 asker, todo, snap, view, doing, sending, steer>>

ViewNext ==
  /\ pc = "views"
  /\ left # << >>
  /\ StartView("tick")
  /\ UNCHANGED <<ledgerVars, inboundVars, agyVars, surprises,
                 todo, left, view, doing, sending, steer>>

SessionViewed ==
  /\ \/ /\ Viewed("tick")
        /\ \E v \in Seen(Subject) : view' = [view EXCEPT ![Subject] = v]
        /\ UNCHANGED surprises
     \/ ViewFails("tick") /\ view' = [view EXCEPT ![Subject] = NoView]
  /\ left' = Tail(left)
  /\ pc' = "views"
  /\ UNCHANGED <<ledgerVars, inboundVars, agyVars, asker, todo, snap, doing, sending, steer>>

EndViews ==
  /\ pc = "views"
  /\ left = << >>
  /\ pc' = "rooms"
  /\ UNCHANGED <<ledgerVars, inboundVars, agyVars, surprises,
                 asker, todo, left, snap, view, doing, sending, steer>>

\* Fault: a group that failed verification is not verified again.
TickRoomsFault ==
  /\ pc = "rooms"
  /\ pc' = "project"
  /\ UNCHANGED <<ledgerVars, inboundVars, agyVars, surprises,
                 asker, todo, left, snap, view, doing, sending, steer>>

\* Rooms.tick verifies the groups that are not READY.
TickRooms ==
  /\ pc = "rooms"
  /\ \E passed \in SUBSET (Bindings \ ready) :
       /\ ready' = ready \cup passed
       /\ IF ready' = Bindings THEN UNCHANGED surprises ELSE Surprise
  /\ pc' = "project"
  /\ UNCHANGED <<ledgerVars, ctl, inbox, opener, session, agyVars,
                 asker, todo, left, snap, view, doing, sending, steer>>

Projected(b) == Active(b) /\ view[b] # NoView

\* project: a tag on several native steps makes the request uncertain again.
NewlyAmbiguous(b) ==
  /\ Projected(b)
  /\ \E r \in view[b].twice : opState[r] # "UNKNOWN" \/ queue[b] # "PAUSED"

ProjectAmbiguous(b) ==
  /\ pc = "project"
  /\ NewlyAmbiguous(b)
  /\ AmbiguousOperations(view[b].twice, b)
  /\ UNCHANGED hubVars

\* project: a tag on exactly one step settles the request.
Found(r) ==
  /\ Projected(BindingOf[r])
  /\ r \in view[BindingOf[r]].once
  /\ opState[r] \in Unsettled

\* Fault: a request the history does not show is submitted again.
ProjectFoundFault(r) ==
  /\ pc = "project"
  /\ Projected(BindingOf[r])
  /\ r \notin view[BindingOf[r]].once
  /\ opState[r] \in Unsettled
  /\ Finish(r, "QUEUED")
  /\ UNCHANGED hubVars

ProjectFound(r) ==
  /\ pc = "project"
  /\ Found(r)
  /\ Finish(r, "ACCEPTED")
  /\ UNCHANGED hubVars

EndProject ==
  /\ pc = "project"
  /\ \A b \in Bindings : ~NewlyAmbiguous(b)
  /\ \A r \in Requests : ~Found(r)
  /\ pc' = "schedule"
  /\ UNCHANGED <<ledgerVars, inboundVars, agyVars, surprises,
                 asker, todo, left, snap, view, doing, sending, steer>>

Uncertain ==
  \/ \E r \in Requests : opState[r] \in Unsettled
  \/ \E b \in Bindings : Blocked(b)

\* Fault: an outcome in doubt in another session is not waited for.
ConsideredFault(r) == opState[r] = "QUEUED" /\ BindingOf[r] \in ready

Considered(r) == opState[r] = "QUEUED" /\ ~Uncertain /\ BindingOf[r] \in ready

Unsteerable(r) == Considered(r) /\ KindOf[r] = "steer" /\ ~steer

Submittable(r) ==
  /\ Considered(r)
  /\ KindOf[r] = "steer" => steer
  /\ Projected(BindingOf[r])
  /\ KindOf[r] = "input" =>
       \A b \in Bindings : Active(b) => view[b] # NoView /\ view[b].idle
  /\ Claimable(r)

\* Steers go first, then the order of acceptance.
Precedes(r, s) ==
  \/ KindOf[r] = "steer" /\ KindOf[s] = "input"
  \/ KindOf[r] = KindOf[s] /\ ordinal[r] <= ordinal[s]

RefuseSteer(r) ==
  /\ pc = "schedule"
  /\ Unsteerable(r)
  /\ CancelQueued(r)
  /\ UNCHANGED hubVars

Submit(r) ==
  /\ pc = "schedule"
  /\ \A s \in Requests : ~Unsteerable(s)
  /\ Submittable(r)
  /\ \A s \in Requests : Submittable(s) => Precedes(r, s)
  /\ Claim(r)
  /\ sending' = <<r>>
  /\ pc' = "send"
  /\ UNCHANGED <<inboundVars, agyVars, surprises, asker, todo, left, snap, view, doing, steer>>

SubmitNothing ==
  /\ pc = "schedule"
  /\ \A s \in Requests : ~Unsteerable(s) /\ ~Submittable(s)
  /\ pc' = "sleep"
  /\ UNCHANGED <<ledgerVars, inboundVars, agyVars, surprises,
                 asker, todo, left, snap, view, doing, sending, steer>>

\* The end of runtime.send: what became of the request, and where the worker goes.
Sent(r, result, next) ==
  /\ IF result = "QUEUED" THEN RequeueUnsent(r) ELSE Finish(r, result)
  /\ pc' = next
  /\ sending' = IF next = "sleep" THEN << >> ELSE sending
  /\ UNCHANGED <<inboundVars, asker, todo, left, snap, view, doing, steer>>

\* AGY is looked at once more before an input leaves.
Busy ==
  /\ pc = "send"
  /\ KindOf[sending[1]] = "input" /\ ~Idle(BindingOf[sending[1]])
  /\ Sent(sending[1], "QUEUED", "sleep")
  /\ UNCHANGED <<agyVars, surprises>>

Transmit ==
  /\ pc = "send"
  /\ KindOf[sending[1]] = "steer" \/ Idle(BindingOf[sending[1]])
  /\ place' = [place EXCEPT ![sending[1]] = "wire"]
  /\ sent' = [sent EXCEPT ![sending[1]] = @ + 1]
  /\ pc' = "sendAck"
  /\ UNCHANGED <<ledgerVars, inboundVars, doubled, desktop, surprises,
                 asker, todo, left, snap, view, doing, sending, steer>>

Accepted ==
  /\ pc = "sendAck"
  /\ place[sending[1]] \notin {"wire", "lost"}
  /\ Sent(sending[1], "ACCEPTED", "sleep")
  /\ UNCHANGED <<agyVars, surprises>>

Rejected ==
  /\ pc = "sendAck"
  /\ place[sending[1]] = "wire"
  /\ place' = [place EXCEPT ![sending[1]] = "refused"]
  /\ Sent(sending[1], "REJECTED", "sleep")
  /\ Surprise
  /\ UNCHANGED <<doubled, desktop, sent>>

\* No usable answer, before or after the request left.
SendFails ==
  /\ pc \in {"send", "sendAck"}
  /\ Sent(sending[1], "UNKNOWN", "sendPause")
  /\ IF pc = "sendAck" /\ place[sending[1]] = "lost" THEN UNCHANGED surprises ELSE Surprise
  /\ UNCHANGED agyVars

\* Fault: the session goes on after a failed submission.
PauseAfterFailureFault ==
  /\ pc = "sendPause"
  /\ pc' = "sleep"
  /\ sending' = << >>
  /\ UNCHANGED <<ledgerVars, inboundVars, agyVars, surprises, asker, todo, left, snap, view, doing, steer>>

PauseAfterFailure ==
  /\ pc = "sendPause"
  /\ Pause(BindingOf[sending[1]])
  /\ pc' = "sleep"
  /\ sending' = << >>
  /\ UNCHANGED <<inboundVars, agyVars, surprises, asker, todo, left, snap, view, doing, steer>>

Schedule ==
  \/ BeginViews \/ ViewNext \/ SessionViewed \/ EndViews \/ TickRooms
  \/ \E b \in Bindings : ProjectAmbiguous(b)
  \/ \E r \in Requests : ProjectFound(r) \/ RefuseSteer(r) \/ Submit(r)
  \/ EndProject \/ SubmitNothing
  \/ Busy \/ Transmit \/ Accepted \/ Rejected \/ SendFails \/ PauseAfterFailure

-----------------------------------------------------------------------------
(* The process dies between any two transactions; everything in memory goes. *)

Crash ==
  /\ pc # "down"
  /\ Surprise
  /\ pc' = "down"
  /\ asker' = "tick"
  /\ todo' = << >>
  /\ left' = << >>
  /\ snap' = FALSE
  /\ view' = [b \in Bindings |-> NoView]
  /\ doing' = << >>
  /\ sending' = << >>
  /\ UNCHANGED <<ledgerVars, inboundVars, agyVars, steer>>

\* Fault: an interrupted input is put back in the queue.
RestartFault ==
  /\ pc = "down"
  /\ opState' = [r \in Requests |-> IF opState[r] = "SUBMITTING" THEN "QUEUED" ELSE opState[r]]
  /\ steer' \in SteerLevels
  /\ pc' = "sleep"
  /\ UNCHANGED <<ordinal, rows, queue, attempted, inboundVars, agyVars, surprises,
                 asker, todo, left, snap, view, doing, sending>>

\* recover_gateway runs before inbound events are connected.
Restart ==
  /\ pc = "down"
  /\ LET doubtful == {c \in Controls : ctl[c] \in {"SUBMITTING", "UNKNOWN"}}
     IN  /\ Recover({TargetOf[c] : c \in doubtful})
         /\ ctl' = [c \in Controls |-> IF c \in doubtful THEN "UNKNOWN" ELSE ctl[c]]
  /\ steer' \in SteerLevels
  /\ pc' = "sleep"
  /\ UNCHANGED <<inbox, opener, session, ready, agyVars, surprises,
                 asker, todo, left, snap, view, doing, sending>>

\* `unilark recover`: needs the instance lock, so the gateway is down.
Acknowledge ==
  /\ pc = "down"
  /\ \/ (\E r \in Requests : AcknowledgeUnknown(r)) /\ UNCHANGED ctl
     \/ \E c \in Controls : /\ ctl[c] = "UNKNOWN"
                            /\ ctl' = [ctl EXCEPT ![c] = "DISMISSED"]
                            /\ Pause(TargetOf[c])
  /\ UNCHANGED <<inbox, opener, session, ready, workerVars, agyVars, surprises>>

Worker == Reconcile \/ ReadSnapshot \/ HandleRequests \/ Schedule

Next == Agy \/ Inbound \/ Worker \/ Crash \/ Restart \/ Acknowledge

Spec == Init /\ [][Next]_vars

-----------------------------------------------------------------------------
\* The worker's loop, the runtime's progress and a supervisor that restarts the
\* process; nothing is assumed of the user, the operator or of surprises.
Fairness ==
  /\ WF_vars(Worker)
  /\ WF_vars(Restart)
  /\ \A r \in Requests : WF_vars(Arrive(r)) /\ WF_vars(Start(r)) /\ WF_vars(End(r))
  /\ \A b \in Bindings : WF_vars(DesktopEnd(b))

LiveSpec == Spec /\ Fairness

\* An input is transmitted at most once, whatever fails in between: README.md and
\* docs/M1-PROGRESS.md promise that nothing is sent again automatically.
AtMostOnce == \A r \in Requests : sent[r] <= 1

\* A session whose queue is open has no input of unknown outcome, but for the moment
\* between finish and pause in tick.
DoubtPausesQueue ==
  \A r \in Requests :
    pc # "down" /\ opState[r] = "UNKNOWN" /\ queue[BindingOf[r]] = "OPEN"
      => pc = "sendPause" /\ sending = <<r>>

\* While the outcome of a stop is unknown its session's queue stays paused: no continue
\* is let through until reconcile_controls or the operator settles it.  The exceptions
\* are the moment between the two transactions of requests, and the process being down.
UnresolvedStopHoldsQueue ==
  \A c \in Controls :
    ActionOf[c] = "stop" /\ ctl[c] = "UNKNOWN" /\ queue[TargetOf[c]] = "OPEN"
      => pc = "down" \/ (pc = "controlPause" /\ c = doing[1])

\* An archived session has nothing left to submit and a paused queue.
ArchivedIsQuiet ==
  \A b \in Bindings : session[b] = "ARCHIVED" =>
    queue[b] = "PAUSED" /\ \A r \in Of(b) : opState[r] \notin {"QUEUED", "SUBMITTING"}

\* The abstract promise, which the worker implements: a request in doubt is one
\* that was transmitted and is not settled.
Phase ==
  [r \in Requests |->
     CASE opState[r] = "NONE" -> "absent"
       [] opState[r] = "QUEUED" \/ (opState[r] \in Unsettled /\ sent[r] = 0) -> "waiting"
       [] opState[r] \in Unsettled /\ sent[r] # 0 -> "handed"
       [] OTHER -> "closed"]

Abstract == INSTANCE Submission WITH phase <- Phase

\* Every step of the worker, and every crash, is a step of the abstract promise.
ImplementsSubmission == Abstract!SubSpec

\* The worker changes the ledger by its transactions only.
ImplementsLedger == LedgerSpec

\* An accepted input leaves the queue, unless a person must act first: its queue is
\* paused, some outcome is in doubt, or the session is archived.
EventuallySubmitted ==
  \A r \in Requests :
    opState[r] = "QUEUED" ~> \/ opState[r] # "QUEUED"
                            \/ queue[BindingOf[r]] = "PAUSED"
                            \/ Uncertain

\* tests/test_reliability.py test_late_stop_cannot_be_undone_by_an_earlier_queued_continue:
\* a queue is open only through a /continue sent after every /stop.
StopIsNotUndone ==
  \A b \in Bindings : queue[b] = "OPEN" =>
    \A i \in DOMAIN inbox : ActionOf[inbox[i]] = "stop" /\ TargetOf[inbox[i]] = b => i < opener[b]

\* README.md: "only one task is submitted for execution at a time".
OneTaskAtATime ==
  \A r, s \in Requests :
    KindOf[r] = "input" /\ KindOf[s] = "input" /\ place[r] = "running" /\ place[s] = "running" => r = s

=============================================================================
