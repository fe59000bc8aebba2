------------------------------- MODULE Rooms -------------------------------
(***************************************************************************)
(* The private group of each session: the session_rooms table, Rooms.tick  *)
(* and Rooms.allowed of conversation/rooms.py, the group calls of          *)
(* adapters/lark/rooms.py, and Lark itself.  tick runs in the worker;      *)
(* allowed runs in the worker and in the task of every event a group       *)
(* sends, so that several verifications of one group may be under way.     *)
(* Coroutines interleave at an await and nowhere else.                     *)
(*                                                                         *)
(* A group is named by its session.  Lark answers a repeated creation of   *)
(* one uuid with the group it has already made.                            *)
(***************************************************************************)
EXTENDS Naturals, FiniteSets

CONSTANTS
  Groups,        \* the sessions that may get a group
  WithTask,      \* those whose form carries a first task
  Inbound,       \* tasks of group events, and of what the worker does between ticks
  MaxSurprises,  \* bound on failures, crashes, archives and changes of membership
  NoCheck        \* no verification under way

ASSUME RoomsAssumption ==
  /\ WithTask \subseteq Groups
  /\ "worker" \notin Inbound
  /\ MaxSurprises \in Nat
  /\ NoCheck \notin [of : Groups, result : {"asked", "passed", "failed"}]

VARIABLES
  status,     \* session_rooms.status, "NONE" while there is no row
  chat,       \* groups whose chat id is stored
  waiting,    \* groups whose retry_at is in the future
  firstTask,  \* groups whose first_task is still stored
  active,     \* sessions in state ACTIVE
  accepted,   \* the inbox holds the event of the first task
  pc,         \* where the worker is in tick
  row,        \* the status each group had when the loop's rows were read
  held,       \* the groups whose row, so read, has its retry_at in the future
  todo,       \* groups left in the loop
  current,    \* the group being handled, as a set of at most one
  verified,   \* groups verified within the last five seconds (in memory)
  check,      \* the verification each coroutine awaits
  existing,   \* groups that exist at Lark
  configured, \* those whose settings were locked
  intruded,   \* those whose members or permissions are not as required
  posts,      \* history: creations sent for each group
  doubt,      \* history: groups whose last creation has no answer
  passed,     \* history: groups that Lark once reported as safe
  released,   \* history: times the first task was queued
  surprises   \* surprises so far

tableVars  == <<status, chat, waiting, firstTask, active, accepted>>
workerVars == <<pc, row, held, todo, current>>
larkVars   == <<existing, configured, intruded, posts, doubt, passed>>
vars == <<tableVars, workerVars, verified, check, larkVars, released, surprises>>

Coroutines == Inbound \cup {"worker"}
Statuses == {"NONE", "QUEUED", "CREATING", "UNKNOWN", "CONFIGURING", "READY", "BLOCKED", "ERROR"}
Checks == [of : Groups, result : {"asked", "passed", "failed"}]

RoomsTypeOK ==
  /\ status \in [Groups -> Statuses]
  /\ {chat, waiting, firstTask, active, accepted} \subseteq SUBSET Groups
  /\ pc \in {"down", "idle", "rooms", "reconcile", "create", "answer", "configure", "verify",
             "firsts", "verifyFirst", "accept", "forget"}
  /\ row \in [Groups -> Statuses]
  /\ {held, todo, current, verified} \subseteq SUBSET Groups
  /\ Cardinality(current) <= 1
  /\ todo \cap current = {}
  /\ check \in [Coroutines -> Checks \cup {NoCheck}]
  /\ check["worker"] # NoCheck <=> pc \in {"verify", "verifyFirst"}
  /\ {existing, configured, intruded, doubt, passed} \subseteq SUBSET Groups
  /\ posts \in [Groups -> Nat]
  /\ released \in [Groups -> Nat]
  /\ surprises \in 0 .. MaxSurprises

Init ==
  /\ status = [g \in Groups |-> "NONE"]
  /\ chat = {}
  /\ waiting = {}
  /\ firstTask = {}
  /\ active = {}
  /\ accepted = {}
  /\ pc = "idle"
  /\ row = status
  /\ held = {}
  /\ todo = {}
  /\ current = {}
  /\ verified = {}
  /\ check = [c \in Coroutines |-> NoCheck]
  /\ existing = {}
  /\ configured = {}
  /\ intruded = {}
  /\ posts = [g \in Groups |-> 0]
  /\ doubt = {}
  /\ passed = {}
  /\ released = [g \in Groups |-> 0]
  /\ surprises = 0

Surprise == surprises < MaxSurprises /\ surprises' = surprises + 1

\* RoomStore.state: a new status for g, with retry_at in the future or in the past.
Store(g, new, later) ==
  /\ status' = [status EXCEPT ![g] = new]
  /\ waiting' = IF later THEN waiting \cup {g} ELSE waiting \ {g}

-----------------------------------------------------------------------------
(* Time, people and Lark. *)

RetryTime(g) ==
  /\ g \in waiting \cup held
  /\ waiting' = waiting \ {g}
  /\ held' = held \ {g}
  /\ UNCHANGED <<status, chat, firstTask, active, accepted, pc, row, todo, current, verified, check,
                 larkVars, released, surprises>>

VerificationAges(g) ==
  /\ g \in verified
  /\ verified' = verified \ {g}
  /\ UNCHANGED <<tableVars, workerVars, check, larkVars, released, surprises>>

Intrude(g) ==
  /\ g \in existing \ intruded
  /\ intruded' = intruded \cup {g}
  /\ Surprise
  /\ UNCHANGED <<tableVars, workerVars, verified, check, existing, configured, posts, doubt, passed, released>>

Restore(g) ==
  /\ g \in intruded
  /\ intruded' = intruded \ {g}
  /\ UNCHANGED <<tableVars, workerVars, verified, check, existing, configured, posts, doubt, passed,
                 released, surprises>>

\* What LarkRooms.verify asks of a group.
Safe(g) == g \in configured \ intruded

\* The worker awaits a call, or is between two ticks: other coroutines may run.
AtAwait == pc \notin {"down", "rooms", "firsts", "accept", "forget"}

-----------------------------------------------------------------------------
(* Rooms.allowed. *)

Trusted(g) == status[g] = "READY" /\ g \in verified
Refused(g) == status[g] = "BLOCKED" /\ g \in waiting

Ask(who, g) == check' = [check EXCEPT ![who] = [of |-> g, result |-> "asked"]]

\* An event of a group whose chat is known.
InboundEvent(who, g) ==
  /\ AtAwait
  /\ who \in Inbound
  /\ check[who] = NoCheck
  /\ g \in chat
  /\ ~Trusted(g)
  /\ ~Refused(g)
  /\ Ask(who, g)
  /\ UNCHANGED <<tableVars, workerVars, verified, larkVars, released, surprises>>

\* Lark answers from what the group is at that moment, or does not answer.
LarkVerifies(who) ==
  /\ check[who] # NoCheck
  /\ check[who].result = "asked"
  /\ LET g == check[who].of
     IN  \/ /\ check' = [check EXCEPT ![who].result = IF Safe(g) THEN "passed" ELSE "failed"]
            /\ passed' = IF Safe(g) THEN passed \cup {g} ELSE passed
            /\ UNCHANGED surprises
         \/ /\ check' = [check EXCEPT ![who].result = "failed"]
            /\ Surprise
            /\ UNCHANGED passed
  /\ UNCHANGED <<tableVars, workerVars, verified, existing, configured, intruded, posts, doubt, released>>

\* The end of allowed, after the answer.
Conclude(who) ==
  /\ check[who] # NoCheck
  /\ check[who].result # "asked"
  /\ check' = [check EXCEPT ![who] = NoCheck]
  /\ IF check[who].result = "passed"
     THEN Store(check[who].of, "READY", FALSE) /\ verified' = verified \cup {check[who].of}
     ELSE Store(check[who].of, "BLOCKED", TRUE) /\ verified' = verified \ {check[who].of}

InboundConcludes(who) ==
  /\ AtAwait
  /\ who \in Inbound
  /\ Conclude(who)
  /\ UNCHANGED <<chat, firstTask, active, accepted, workerVars, larkVars, released, surprises>>

-----------------------------------------------------------------------------
(* Commands of the owner. *)

\* accept_session with a form, or the `room` command for a session without a group.
Add(g) ==
  /\ AtAwait
  /\ status[g] = "NONE"
  /\ Store(g, "QUEUED", FALSE)
  /\ firstTask' = firstTask \cup ({g} \cap WithTask)
  /\ UNCHANGED <<chat, active, accepted, workerVars, verified, check, larkVars, released, surprises>>

\* The `room` command once a creation was refused.
TryAgain(g) ==
  /\ pc = "idle"
  /\ status[g] = "ERROR"
  /\ Store(g, "QUEUED", FALSE)
  /\ UNCHANGED <<chat, firstTask, active, accepted, workerVars, verified, check, larkVars, released, surprises>>

\* The session is created, or resumed; or archived.
SessionActive(g) ==
  /\ pc = "idle"
  /\ g \notin active
  /\ active' = active \cup {g}
  /\ UNCHANGED <<status, chat, waiting, firstTask, accepted, workerVars, verified, check, larkVars,
                 released, surprises>>

SessionArchived(g) ==
  /\ pc = "idle"
  /\ g \in active
  /\ active' = active \ {g}
  /\ Surprise
  /\ UNCHANGED <<status, chat, waiting, firstTask, accepted, workerVars, verified, check, larkVars, released>>

-----------------------------------------------------------------------------
(* Rooms.tick: the first loop. *)

Rows == {g \in Groups : status[g] # "NONE"}

\* The rows are read once, when the loop starts.
Loop(next) ==
  /\ pc' = next
  /\ row' = status
  /\ held' = waiting
  /\ todo' = Rows
  /\ current' = {}

BeginTick ==
  /\ pc = "idle"
  /\ Loop("rooms")
  /\ UNCHANGED <<tableVars, verified, check, larkVars, released, surprises>>

\* The group is done with, for this tick.
Next1 == pc' = "rooms" /\ current' = {} /\ UNCHANGED <<row, held, todo>>

\* The worker starts on g; next is the call it awaits.
Take(g, next) ==
  /\ todo' = todo \ {g}
  /\ current' = {g}
  /\ pc' = next
  /\ UNCHANGED <<row, held>>

\* The row read for g calls for work.
Due(g) == pc = "rooms" /\ g \in todo \ held

\* Fault: a blocked group is left to the events it sends.
PassOverFault(g) ==
  /\ pc = "rooms"
  /\ g \in todo
  /\ \/ g \in held
     \/ row[g] \in {"READY", "ERROR", "BLOCKED"}
     \/ g \notin active
  /\ todo' = todo \ {g}
  /\ UNCHANGED <<tableVars, pc, row, held, current, verified, check, larkVars, released, surprises>>

\* Nothing to do: no retry yet, in use, not to be worked on, or blocked and not to be asked.
PassOver(g) ==
  /\ pc = "rooms"
  /\ g \in todo
  /\ \/ g \in held
     \/ row[g] \in {"READY", "ERROR"}
     \/ row[g] # "BLOCKED" /\ g \notin active
     \/ row[g] = "BLOCKED" /\ (Trusted(g) \/ Refused(g))
  /\ todo' = todo \ {g}
  /\ UNCHANGED <<tableVars, pc, row, held, current, verified, check, larkVars, released, surprises>>

VerifyBlocked(g) ==
  /\ Due(g)
  /\ row[g] = "BLOCKED"
  /\ ~Trusted(g) /\ ~Refused(g)
  /\ Take(g, "verify")
  /\ Ask("worker", g)
  /\ UNCHANGED <<tableVars, verified, larkVars, released, surprises>>

LookUp(g) ==
  /\ Due(g)
  /\ g \in active
  /\ row[g] \in {"CREATING", "UNKNOWN"}
  /\ Take(g, "reconcile")
  /\ UNCHANGED <<tableVars, verified, check, larkVars, released, surprises>>

\* The session is busy or out of sight: the group waits.
NotYet(g) ==
  /\ Due(g)
  /\ g \in active
  /\ row[g] = "QUEUED"
  /\ todo' = todo \ {g}
  /\ Surprise
  /\ UNCHANGED <<tableVars, pc, row, held, current, verified, check, larkVars, released>>

BeginCreation(g) ==
  /\ Due(g)
  /\ g \in active
  /\ row[g] = "QUEUED"
  /\ Take(g, "create")
  /\ status' = [status EXCEPT ![g] = "CREATING"]
  /\ UNCHANGED <<chat, waiting, firstTask, active, accepted, verified, check, larkVars, released, surprises>>

GoOnConfiguring(g) ==
  /\ Due(g)
  /\ g \in active
  /\ row[g] = "CONFIGURING"
  /\ Take(g, "configure")
  /\ UNCHANGED <<tableVars, verified, check, larkVars, released, surprises>>

\* The chat id becomes known.
Known(g) ==
  /\ status' = [status EXCEPT ![g] = "CONFIGURING"]
  /\ chat' = chat \cup {g}
  /\ pc' = "configure"
  /\ UNCHANGED <<waiting, row, held, todo, current>>

\* What a failed creation becomes.
AfterCreation == [quota |-> "QUEUED", refused |-> "ERROR", unknown |-> "UNKNOWN"]

\* Fault: every explicit refusal for want of quota puts the group back in the queue.
FailsFault(g, kind) ==
  /\ Store(g, IF kind # "quota" /\ status[g] # "CREATING" THEN status[g] ELSE AfterCreation[kind], TRUE)
  /\ Next1

\* The handlers of RoomApiError and Exception: only a creation changes status.
Fails(g, kind) ==
  /\ Store(g, IF status[g] # "CREATING" THEN status[g] ELSE AfterCreation[kind], TRUE)
  /\ Next1

\* The look-up finds the group by its marker, finds none, or fails.
Reconcile(g) ==
  /\ pc = "reconcile"
  /\ g \in current
  /\ \/ g \in existing /\ Known(g) /\ UNCHANGED surprises
     \/ g \notin existing /\ Store(g, "UNKNOWN", TRUE) /\ Next1 /\ UNCHANGED <<chat, surprises>>
     \/ Surprise /\ (\E kind \in {"quota", "refused", "unknown"} : Fails(g, kind)) /\ UNCHANGED chat
  /\ UNCHANGED <<firstTask, active, accepted, verified, check, larkVars, released>>

\* The scopes are checked first: nothing was sent.
NotSent(g) ==
  /\ pc = "create"
  /\ g \in current
  /\ Surprise
  /\ \E kind \in {"quota", "refused"} : Fails(g, kind)
  /\ UNCHANGED <<chat, firstTask, active, accepted, verified, check, larkVars, released>>

Post(g) ==
  /\ pc = "create"
  /\ g \in current
  /\ posts' = [posts EXCEPT ![g] = @ + 1]
  /\ doubt' = doubt \cup {g}
  /\ \/ existing' = existing \cup {g} /\ UNCHANGED surprises
     \/ g \notin existing /\ Surprise /\ UNCHANGED existing
  /\ pc' = "answer"
  /\ UNCHANGED <<tableVars, row, held, todo, current, verified, check, configured, intruded, passed, released>>

Answer(g) ==
  /\ pc = "answer"
  /\ g \in current
  /\ \/ /\ g \in existing
        /\ Known(g)
        /\ doubt' = doubt \ {g}
        /\ UNCHANGED surprises
     \/ /\ g \notin existing
        /\ \E kind \in {"quota", "refused"} : Fails(g, kind)
        /\ doubt' = doubt \ {g}
        /\ UNCHANGED <<chat, surprises>>
     \/ Surprise /\ Fails(g, "unknown") /\ UNCHANGED <<chat, doubt>>
  /\ UNCHANGED <<firstTask, active, accepted, verified, check, existing, configured, intruded,
                 posts, passed, released>>

\* The call that locks the settings, then allowed.
Configure(g) ==
  /\ pc = "configure"
  /\ g \in current
  /\ configured' = configured \cup {g}
  /\ IF Trusted(g) \/ Refused(g)
     THEN Next1 /\ UNCHANGED check
     ELSE pc' = "verify" /\ Ask("worker", g) /\ UNCHANGED <<row, held, todo, current>>
  /\ UNCHANGED <<tableVars, verified, existing, intruded, posts, doubt, passed, released, surprises>>

ConfigureFails(g) ==
  /\ pc = "configure"
  /\ g \in current
  /\ Surprise
  /\ configured' \in {configured, configured \cup {g}}
  /\ \E kind \in {"quota", "refused", "unknown"} : Fails(g, kind)
  /\ UNCHANGED <<chat, firstTask, active, accepted, verified, check, existing, intruded,
                 posts, doubt, passed, released>>

Verified ==
  /\ pc = "verify"
  /\ Conclude("worker")
  /\ Next1
  /\ UNCHANGED <<chat, firstTask, active, accepted, larkVars, released, surprises>>

-----------------------------------------------------------------------------
(* Rooms.tick: the second loop releases the first tasks. *)

BeginFirsts ==
  /\ pc = "rooms"
  /\ todo = {}
  /\ Loop("firsts")
  /\ UNCHANGED <<tableVars, verified, check, larkVars, released, surprises>>

HasFirst(g) == row[g] = "READY" /\ g \in firstTask \cap active

NoFirst(g) ==
  /\ pc = "firsts"
  /\ g \in todo
  /\ HasFirst(g) => Refused(g)
  /\ todo' = todo \ {g}
  /\ UNCHANGED <<tableVars, pc, row, held, current, verified, check, larkVars, released, surprises>>

CheckFirst(g) ==
  /\ pc = "firsts"
  /\ g \in todo
  /\ HasFirst(g)
  /\ ~Refused(g)
  /\ IF Trusted(g) THEN Take(g, "accept") /\ UNCHANGED check
                   ELSE Take(g, "verifyFirst") /\ Ask("worker", g)
  /\ UNCHANGED <<tableVars, verified, larkVars, released, surprises>>

FirstVerified ==
  /\ pc = "verifyFirst"
  /\ Conclude("worker")
  /\ pc' = IF check["worker"].result = "passed" THEN "accept" ELSE "firsts"
  /\ current' = IF check["worker"].result = "passed" THEN current ELSE {}
  /\ UNCHANGED <<chat, firstTask, active, accepted, row, held, todo, larkVars, released, surprises>>

\* Fault: the task is queued under an event of its own each time.
AcceptFirstFault(g) ==
  /\ pc = "accept"
  /\ g \in current
  /\ accepted' = accepted \cup {g}
  /\ released' = [released EXCEPT ![g] = @ + 1]
  /\ pc' = "forget"
  /\ UNCHANGED <<status, chat, waiting, firstTask, active, row, held, todo, current, verified, check, larkVars, surprises>>

\* accept_input, under an event named after the session.
AcceptFirst(g) ==
  /\ pc = "accept"
  /\ g \in current
  /\ accepted' = accepted \cup {g}
  /\ released' = IF g \in accepted THEN released ELSE [released EXCEPT ![g] = @ + 1]
  /\ pc' = "forget"
  /\ UNCHANGED <<status, chat, waiting, firstTask, active, row, held, todo, current, verified, check, larkVars, surprises>>

\* Fault: the stored task is kept.
ForgetFirstFault(g) ==
  /\ pc = "forget"
  /\ g \in current
  /\ status' = [status EXCEPT ![g] = "READY"]
  /\ pc' = "firsts"
  /\ current' = {}
  /\ UNCHANGED <<chat, waiting, firstTask, active, accepted, row, held, todo, verified, check, larkVars, released, surprises>>

ForgetFirst(g) ==
  /\ pc = "forget"
  /\ g \in current
  /\ status' = [status EXCEPT ![g] = "READY"]
  /\ firstTask' = firstTask \ {g}
  /\ pc' = "firsts"
  /\ current' = {}
  /\ UNCHANGED <<chat, waiting, active, accepted, row, held, todo, verified, check, larkVars, released, surprises>>

EndTick ==
  /\ pc = "firsts"
  /\ todo = {}
  /\ pc' = "idle"
  /\ current' = {}
  /\ UNCHANGED <<tableVars, row, held, todo, verified, check, larkVars, released, surprises>>

-----------------------------------------------------------------------------
Crash ==
  /\ pc # "down"
  /\ Surprise
  /\ pc' = "down"
  /\ todo' = {}
  /\ current' = {}
  /\ verified' = {}
  /\ check' = [c \in Coroutines |-> NoCheck]
  /\ UNCHANGED <<tableVars, row, held, larkVars, released>>

\* recover_gateway leaves the groups as they are.
Restart ==
  /\ pc = "down"
  /\ pc' = "idle"
  /\ UNCHANGED <<tableVars, row, held, todo, current, verified, check, larkVars, released, surprises>>

Worker ==
  \/ BeginTick \/ Verified \/ BeginFirsts \/ FirstVerified \/ EndTick
  \/ \E g \in Groups :
       \/ PassOver(g) \/ VerifyBlocked(g) \/ LookUp(g) \/ BeginCreation(g) \/ GoOnConfiguring(g)
       \/ NotYet(g) \/ Reconcile(g) \/ NotSent(g) \/ Post(g) \/ Answer(g) \/ Configure(g) \/ ConfigureFails(g)
       \/ NoFirst(g) \/ CheckFirst(g) \/ AcceptFirst(g) \/ ForgetFirst(g)

Next ==
  \/ Worker \/ Crash \/ Restart
  \/ \E g \in Groups :
       \/ Add(g) \/ TryAgain(g) \/ SessionActive(g) \/ SessionArchived(g)
       \/ RetryTime(g) \/ VerificationAges(g) \/ Intrude(g) \/ Restore(g)
  \/ \E who \in Inbound :
       InboundConcludes(who) \/ \E g \in Groups : InboundEvent(who, g)
  \/ \E who \in Coroutines : LarkVerifies(who)

Spec == Init /\ [][Next]_vars

\* The worker goes on, calls return, time passes and the supervisor restarts the process.
Fairness ==
  /\ WF_vars(Worker)
  /\ WF_vars(Restart)
  /\ \A who \in Coroutines : WF_vars(LarkVerifies(who))
  /\ \A g \in Groups : WF_vars(RetryTime(g))

LiveSpec == Spec /\ Fairness

-----------------------------------------------------------------------------
\* A session whose group is known keeps it: no error, refusal, crash or late
\* verification leads back to creating another one.
KnownGroupIsKept ==
  \A g \in Groups : g \in chat <=> status[g] \in {"CONFIGURING", "READY", "BLOCKED"}

\* docs/en/user-guide.md: the first task starts only after the group is created and
\* verified; through crashes it is queued once and never lost.
FirstTaskOnce ==
  \A g \in Groups :
    /\ released[g] <= 1
    /\ released[g] = 1 => g \in passed
    /\ g \in WithTask \ firstTask /\ status[g] # "NONE" => released[g] = 1

\* A group that was asked for is taken into use, unless its creation was refused, its
\* outcome is unknown, the session is not active, the group is not as required, or it
\* was blocked before its settings were locked (tick configures no blocked group).
EventuallyReady ==
  \A g \in Groups :
    status[g] # "NONE" ~> \/ status[g] \in {"READY", "ERROR", "UNKNOWN"}
                          \/ g \notin active
                          \/ g \in intruded
                          \/ status[g] = "BLOCKED" /\ g \notin configured

\* The first task of a group in use does not stay behind.
FirstTaskReleased ==
  \A g \in Groups :
    g \in firstTask /\ status[g] = "READY" ~> g \notin firstTask \/ g \notin active \/ status[g] = "BLOCKED"

\* docs/en/architecture.md: "An uncertain creation is looked up, not repeated blindly."
NoBlindRepeat == [][\A g \in doubt : posts'[g] = posts[g]]_vars

=============================================================================
