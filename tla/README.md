# Verification of Unilark

Unilark connects one person's Lark account to the AGY agent runtime on their desktop: messages
in Lark become inputs of native AGY sessions, and progress, questions and answers come back as
cards. The gateway is one Python process with a SQLite database. Its code is about what may
*not* happen when calls fail, answers are lost and the process dies: an input must not be executed
twice, a doubt must not be passed over, an order must not be changed.

This directory models that code in TLA+, checks it with TLC and proves its central promises with
TLAPS. Everything below names the code by its path under `src/src/unilark/`.

## 1. Inventory of the system

| Component | State | Operations | What makes it correct |
|---|---|---|---|
| Submission ledger: `store/ledger.py`, `store/gateway.py` | tables `operations`, `bindings` | accept_input, claim, finish, requeue_unsent, cancel_queued, ambiguous_operations, pause, resume, recover, acknowledge | order of acceptance within a session; one submission per session; nothing handed over is handed over again |
| Worker: `Hub.run` and `tick` in `conversation/hub.py` | table `inbox` (commands), `views` in memory | reconcile_controls, requests, views, project, the scheduling loop | at most one transmission; a doubt pauses its queue and holds all submissions; stop, continue, archive and resume keep their meaning in any order |
| Inbound handler: `Hub.accept`, `Hub.action` | the tables above | runs in other tasks, at every await of the worker | duplicate and late events change nothing; a stop takes effect at once |
| AGY adapter: `adapters/sidecars/agy/client.py` | none | send, stop, view (two reads), create, decide, answer | failures are told apart: not sent, refused, unknown |
| Sessions: `accept_session`, `session_state` | `session_meta`, `selection`, `session_context` | `/new`, the creation form, `/attach`, archive, resume, recovery | one session per event, no repeated creation, nothing submitted to an unproven id |
| Conversation groups: `conversation/rooms.py`, `store/rooms.py`, `adapters/lark/rooms.py` | `session_rooms`, `verified` in memory | tick, allowed, create, configure, verify, reconcile | one group per session; input and output only through a verified group; first task once |
| Card outbox: `Hub.flush`, `put_card`, `delivery_*`, `adapters/lark/channel.py`, `quota.py` | `cards` | render, send, update, defer, block | no second card in doubt; an old revision's result does not settle the new one |
| Interactions: `interaction`, `consume`, `expire_permission`, answers | `interactions`, their rows in `inbox` | a pressed button, a quoted answer, expiry, resolve, answer, stop, reconciliation | one decision and one call for a prompt; done means over; what expires is denied |
| Turn projection: `conversation/turns.py` | `chat_turns`, `chat_layouts` | ensure, project, finish, unavailable | every turn is closed, with its own answer and the whole of it |
| Panels and forms: `store/panels.py`, `conversation/panels.py` | `ui_panels`, `ui_actions`, rows in `inbox` | open, render, consume, perform | a submitted form makes its session, and one; panels do not go dead |
| Upgrade: `lifecycle/releases.py`, `installer.py`, `lock.py`, `migration.py`, `service.py` | the link `current`, `install.json`, release directories, the schema of the database, systemd | upgrade, rollback, uninstall, and the way back | what is installed is whole and can open the database; nothing is switched under a gateway or over work; a stopped service runs again |
| Journal, pairing, transport, formatting, service wrappers | small or none | see `PROJECT.json` | - |

**How they interact.** The worker is one coroutine: reconcile commands in doubt, execute queued
commands, read a view of every session, let the groups advance, project the views onto the tables,
submit, deliver cards, sleep. Every `await` in it lets inbound tasks run: they write to the same
tables, synchronously between their own awaits. A press or an answer becomes a row of `inbox` that the worker
executes; panels leave rows of their own there for the hub. A transaction is atomic; a sequence of two is not,
for a crash may fall between them. AGY has no idempotent submission: an input carries a tag, and
the tag seen in a native history is the only evidence that it arrived. The command that upgrades is another process: it
meets the gateway only through the lock, the database and systemd.

**Hard behaviours.** Interleaving at awaits; rows read before an await and used after it; a view made
of two reads; answers lost after the call took effect; crashes between two transactions; events
delivered twice; retries after an unknown outcome; several verifications of one group in flight.
`PROJECT.json` lists each hazard at its line with the properties that cover it.

## 2. Modules

| Module | Models | Uses |
|---|---|---|
| `Ledger` | the transactions on `operations` and `bindings`, one operator each; alone, every caller may call any of them at any time | - |
| `Submission` | the abstract promise: an input waits, is handed over at most once, in order, while nothing else is in doubt, and is closed | - |
| `Effects` | the abstract promise: a call that must not be repeated is written down, made once, reported as done or refused only if that is true, and in doubt otherwise | - |
| `Hub` | the worker, the inbound handler, AGY, crash, recovery, operator | extends `Ledger`, refines `Submission` and `LedgerSpec` |
| `Rooms` | the group of each session: `Rooms.tick`, concurrent `Rooms.allowed`, Lark's groups and their members | - |
| `Sessions` | how a session comes to be: duplicate events, creation and attachment, doubt, recovery | refines `Effects` |
| `Outbox` | the delivery of cards: contents rewritten under way, answers lost, quota, crash, the operator's retry | refines `Effects` |
| `Interactions` | permission requests, questions and stop buttons of a session: presses, answers, expiry, calls, doubt | refines `Effects` |
| `Turns` | how a group shows turns: the table and its projection from torn views | - |
| `Panels` | panels, forms and their one-shot buttons, the rows they leave and their repetition after a crash | - |
| `Upgrade` | upgrade, rollback and uninstallation beside a service or a foreground gateway, failing or killed anywhere | - |
| `HubProofs`, `SessionsProofs`, `RoomsProofs`, `OutboxProofs`, `InteractionsProofs`, `TurnsProofs`, `PanelsProofs`, `UpgradeProofs` | theorems (those of `Ledger` and of the refinement of `Submission` are in `HubProofs`) | each extends its component |
| `MCHub`, `MCRooms`, `MCSessions`, `MCOutbox`, `MCInteractions`, `MCTurns`, `MCPanels`, `MCUpgrade` | constants for TLC | each extends its component |

### Effects

Three components call something that has no idempotency key, and each has its own table for it. `Effects` says once what all
of them promise: `phase` is what is written down of a call, `called` that it was made, `holds` that it is so at the other side.
A call is made once, between `Try` and its outcome; `Return` and `Refuse` need that it was not made, or without effect, `Confirm` that it
holds, and what is in doubt may only be confirmed or dismissed. Each component maps its state to it (`Promise`):

| Component | Thing | `phase` | `called` | `holds` |
|---|---|---|---|---|
| `Outbox` | the first message of a card | the card's state while its message is not known; done when it is | it was sent | it was sent |
| `Sessions` | the creation an event asks for | the state of the event's row | StartCascade was executed | the session has a history |
| `Interactions` | the decision of a prompt, the stop of a turn | the state of the one row for it | the call was sent | the prompt waits no more, the turn has ended |

### Ledger

`opState` is `operations.state`, `ordinal` its insertion order and `queue` `bindings.queue_state`.
`attempted` is a history of the requests ever claimed and not handed back unsent.
`LedgerSpec` lets the transactions occur in any order: what it satisfies does not depend on the
callers.

### Hub

`pc` is the place in `tick`. Code between two awaits is one step or a chain of steps whose `pc` is
not `AtAwait`: inbound actions are disabled there, while a crash is not, so that two transactions in a
row are two steps. `todo` holds the command rows read by `store.requests`, `left` the sessions still to
be viewed, `snap` the first read of a view: stale copies are explicit state. A view is abstracted to what the worker
asks of it: is the session idle, whose tags occur once, whose twice. `place` follows an input through
the wire and AGY; `desktop` is work the user starts outside the gateway. `Restart` is
`recover_gateway`, `Acknowledge` the operator's `recover acknowledge`, which needs the instance lock.

Sessions exist already (see `Sessions`), permissions and questions are those of `Interactions` (here they would only
add reasons to wait), and a group is READY or not (see `Rooms`).

### Rooms

One action per branch of the loop in `tick`. `row` and `held` are the rows read when the loop starts;
the session, and everything `allowed` looks at, is read when it is needed, as in the code. `check` is
the verification each coroutine has under way: it is asked, answered by Lark from what the group is
*then*, and concluded later, so that results may be applied in another order. `Inbound` also stands
for the verifications the worker makes in `requests` and `flush`, that is, between ticks.
Time appears as `RetryTime` (a `retry_at` passes) and `VerificationAges` (the five seconds of trust).
A group that Lark has made is returned again for the same uuid. `Intrude` and `Restore` change members
or permissions.

### Sessions

An event in `sent` may be received any number of times. The copies of
an event of the owner's chat are handled in one step each, because `accept` awaits nothing between `seen` and
`accept_session`; those of a group suspend (`Suspend`) at `await Rooms.allowed` and go on (`GoOn`) later, without
a second look at `seen`. The handler of `ValueError` at the end of `accept` is part of `AcceptAttach`:
it settles the row of the event whatever wrote it. The outcome of a command takes two transactions,
`Answer`/`View`/`LookedUp` and then `Settle`. The order of rows within a tick is left open. The pause of
the queue in `requests` is left to `Hub`.

### Outbox

A card's content is the revision that wrote it. `row` is what `dirty_cards` returned at the start of `flush`; while a call is
awaited, `PutCard` writes newer contents and `RetryDelivery` (which takes no lock) may run. `reply` is the `Delivery` that
`deliver` returns: the adapter's exceptions and error codes are the three outcomes succeeded, refused (nothing was done) and
in doubt. A send in doubt was made or not; an update in doubt was applied, not applied, or is still on its way (`late`) and may
arrive after a newer one. The model relies neither on Lark's de-duplication by `uuid` nor on the order of the rows. Groups
are open or closed (see `Rooms`).

### Interactions

An interaction is named by its fingerprint: the waiting step, or the anchor of the turn for a stop button. The row of a press
is named by its event, that of an expiry by its prompt. `flight` holds the calls on their way to AGY: a
call may arrive after its answer was given up. The worker looks at the session (`LookControl`), the client reads the
steps again (`RereadStep`) and then calls; a failure of the first read leaves the row for the next tick, a failure of
anything later is an unknown outcome, although the second read writes nothing. `ReconcileControl` only looks. An
interaction that is `CLOSED`, `CLAIMED` or `EXPIRED` never opens again.

### Turns

A turn is named by its request, or by the index of its user step when it began on the desktop; 0 is the turn whose user
step is out of sight. `ReadSnapshot` reads whether AGY is idle, `Project` reads the steps later and does what
`Turns.project` does in one go: `Started`, `WithPartial` and `WithPending` are the loops that make rows, `Closes` and `Answers`
how a row ends. What is written per row before the commit of its status may be left by a crash (`Project(TRUE, ...)`).
A view may leave out any of the user steps of the group (`omitted`), as the comment at `turns.py:167` says of some providers; the
other steps keep their indices, which are AGY's. `misread` is a history of the turns whose row rests on such a view or on a torn one:
they were closed by it, or its steps were taken for theirs.

`op` abstracts the ledger: `SUBMITTING` is also `UNKNOWN`. What AGY was handed starts when AGY is idle and asks nobody (`Land`): the
call may have been accepted meanwhile, or given up by the operator (`GiveUp`, `recover acknowledge`), in which case its turn
begins after its card was closed.

### Panels

The gateway runs with a group for each session (`runner.py:156`), and so does the model: the panels are those in the chat with the
application, the session has a group or asks for one (`room`, the button for it in `RoomOps`), and nothing is ever selected.
`live` holds the unused buttons of each panel and `digest` what it showed when it was last rendered. `todo` holds the rows that a tick
read and has not taken yet, `doing` the one at hand; `Foremost` is the order in which they are taken: stops first, then the older row. A press consumes its
button, leaves a row, and has the panel rendered again. `Perform` is the part of `perform` up to its first commit; the panel
that follows (`OpenDetail`) is a commit of its own. Crashes fall between, and a row in doubt that is a panel's is performed again
in `BeginTick`, unlike the hub's own stop and creation. What the hub does with a row is one step (`HubDone`): `Hub` and `Sessions` have its parts. A crash
between a creation and its panel loses the panel and the preferences of the form; a cancel
or an archive that was done before a crash is reported as refused (`panels.py:547`) when it is performed again. Only the newest panels are rendered
(`Limit`, 12 in the code): the used button of an older one never comes back.

### Upgrade

`pc` is the place in `releases.run`, in its handler (`failed`, `undo...`) and in its `finally` (`cleanup`). `LockedPcs` are the
places where it holds the instance lock. The gateway takes the same lock and sets the schema as soon as it opens the database;
systemd starts it whenever it is `wanted`, a user may start one in the foreground, which stopping the service does not end.
`attach`, `retry-delivery` and `acceptance verify` (`cli.py:133`, `maintenance.py:71`, `acceptance.py:158`) open the database for writing
*without* the lock: they look at the schema (`Open`) and later set it to their own (`Overwrite`), whatever the command does meanwhile and
whichever program is linked by then. `pair` and `recover` do it under the lock, as a gateway that ends at once. `memory` is the
command's copy of `install.json`, changed before the file. Releases are removed one by one, each in two steps (`Removes`), by a failed upgrade as by an uninstallation,
which unlinks `install.json` last. A stop that reports a failure, or is not waited for after 60 seconds, may have stopped the service or not
(`StopMisreported`). `Kill` ends the command anywhere, between two of these steps as well. Where the code leaves things half done, so does the model: a
command killed after `mkdir` leaves a directory that a later upgrade refuses; a failed write of `install.json` with an
inactive service leaves a record that does not name the current link, and later commands refuse to run; after an
automatic return `previous` is the candidate that failed; the answer of the last start (`releases.py:256`) is ignored.

## 3. Runs

| Run | Instance | Shows |
|---|---|---|
| `hub_sessions` | 2 sessions, 2 inputs of one and a steer of the other, steering supported or not, 1 surprise, fairness | `AtMostOnce`, `DoubtPausesQueue`, `InOrder`, `NeverResubmitted`, refinement of `Submission`, `EventuallySubmitted` |
| `hub_controls` | 1 session, 1 input, a stop, a continue, an archive and a resume, 1 surprise | `UnresolvedStopHoldsQueue`, `ArchivedIsQuiet`, refinement of `LedgerSpec` |
| `rooms` | 1 group with a first task, 2 inbound coroutines, 3 surprises, fairness | `KnownGroupIsKept`, `FirstTaskOnce`, `EventuallyReady`, `FirstTaskReleased` |
| `sessions` | 2 creations, one of them from a group, and an attachment, 3 session ids, 2 surprises, fairness | `ActiveIsProven`, `StartedOnce`, `OneSessionPerEvent`, refinement of `Effects`, `EventuallyAnswered`, `DoubtIsResolved` |
| `outbox` | 1 private card, 1 card of a group, 2 contents each, 1 retry before a card is blocked, 2 surprises, fairness | `OneMessage`, `DeliveredIsShown`, refinement of `Effects`, `EventuallyDelivered` |
| `interactions` | 1 question, the stop buttons of 2 turns, 2 presses, 1 surprise, fairness | `DecidedOnce`, refinement of `Effects`, `StopHitsItsTurn`, `DecisionsSettle`, `WaitingIsDecided` |
| `turns` | 1 input, 1 steer, 1 turn of the desktop, 4 new steps, 2 surprises, fairness | types; `AnswerIsWhole`, `UnsentUnlessDismissed`, `TurnsAreClosed` |
| `panels` | 2 presses of any buttons, 2 panels rendered, 1 surprise (a crash, a failed view or a failed group), fairness | types; `OneSessionPerForm`, `SubmittedIsCreated`, `ButtonsComeBack` |
| `upgrade` | 3 versions over 2 schemas, 3 commands, 3 surprises, fairness | `ProgramsAreWhole`, `CanRead`, `SwitchAtSafePoint`, `ServiceReturns` |
| `hub_stop_undone` | 1 input, a stop, a continue, no surprise | violation of `StopIsNotUndone` |
| `interactions_unanswered` | the instance of `interactions` | violation of `UnansweredIsDenied` |
| `turns_torn` | the instance of `turns`, no surprise | violation of `FinalAnswerArrives` |

The refinement of `Effects` tells more than `DoubtIsReported` of `Outbox`, `DoneIsOver` of `Interactions` and, since only the call makes a session,
`RefusedIsNotMade` of `Sessions`: these are no properties of a run but theorems (section 5).

**Bounds.** A *surprise* is a failed call, a crash, a task started on the desktop (in `Hub`), a duplicated turn, an
unconfirmed answer, an archive, a change of membership, a foreground gateway, a command without the lock, an input given up, a view without a user step: whatever nobody can promise not to happen. `MaxSurprises` bounds
their number in a behaviour, in every module. Most hazards are one surprise at the wrong moment; the
runs that need a retry after a failure of a retry have two or three. `MaxCopies = 2` in `Sessions` bounds the copies of an event suspended at once: the
second one is what can go wrong, a third repeats it. The groups of `Rooms` share only the worker's
loop, whence one group with several coroutines rather than two groups. The transmission of an input needs two requests of
a session (order), a second session with a request of its own (a doubt in one holds the other) and a steer (which overtakes), not more of each;
`MCHub.cfg` passes as well with a steer beside an input of its session (`r1`, `s1`, `q1`), too large to be had in one instance with the rest. `MaxRevision = 2` in `Outbox` is
a content and one that overtakes it; `MaxAttempts` is 8 in the code and 1 here, and occurs in one comparison.
In `Interactions` a permission goes through the same steps as a question, which may also be answered by a quotation; two turns are one and the one that
follows it. In `Turns`, five steps are the user step of the group's past and room for two turns, one of them with two steps (a tool and a
reply, or two replies) or each with a reply, or for a steer; two surprises are an input that is given up and a view or a crash that meets it, or two incomplete views. In `Panels`, two presses are a press and its repetition, or a button and another one that is in its way; `Limit = 2` makes
an older panel go out of sight. In `Upgrade`, three surprises are a command without the lock and a way back that fails, or a kill, a failure and a foreground gateway; three commands are an upgrade, one that fails or is killed, and one that finds what was
left; the second version migrates the schema of the first, which cannot read it, and the third keeps it.

**Deadlock** is checked in every run but `upgrade`: the worker's loop can always go on. An uninstalled program, or one whose
commands are used up while nothing is wanted, stops.

**Fairness.** `WF(Worker)`, `WF(Work)`: the event loop runs the worker, and each awaited call returns or times out
(`asyncio.timeout` in both transports). `WF(Restart)`, `WF(RecoverControls)`: the service manager restarts the process.
In `Hub`, AGY processes what it has received and a desktop task ends. In `Rooms`, Lark answers a
verification (or the timeout does) and time passes. In `Outbox`, time passes, the cooldown of the quota ends and the SDK
reconnects. In `Interactions`, time passes and a call that was sent arrives, unless it is lost, which is a surprise. In `Turns`, the agent ends a turn, and the loop
reads and projects. In `Upgrade`, the command runs on, and systemd starts what is wanted. Nothing is assumed of users, the operator, or surprises.
The liveness properties name what a person must do first (a paused queue, a session not active, a
creation refused, a decision in doubt) as an alternative; `ServiceReturns` names the cases in which the code gives up.

**Mutants.** The definitions named `...Fault` stand for plausible bugs: each property has one that breaks it.

## 4. Findings

Three places where the code does something else than a document or a test name says, each a run that
TLC ends with a counterexample, and quoted in `PROJECT.json`:

1. *A stop undone by an earlier continue* (`hub.py:506`). `requests` executes rows it read before an await;
   a stop that arrives during the await rejects the continue in the table, and the loop executes its
   copy. A stop pressed on a panel has the same effect.
2. *A prompt nobody denies* (`hub.py:599`). What has expired is denied by one call. The read that precedes the call counts as
   a part of it, so that a failed read leaves the denial in doubt, which is only ever looked at.
3. *A turn closed without its answer* (`client.py:345`). A view is idle by its first call and shows a turn that began before its
   second: the turn is closed before it is answered, and a closed turn is never opened again.

**Other promises the code does not keep.** The modules state these as definitions that no run checks. TLC finds each violated when
it is added to the configuration named:

| Definition | Add to | What happens |
|---|---|---|
| `OneTaskAtATime` of `Hub` | `MCHub.cfg`, as an invariant under `Spec` with `Requests = {r1, q1}` | a session's idleness and its history come from two calls (`client.py:345`): a task seen as accepted in an idle session still runs while another session's input is submitted |
| `NoBlindRepeat` of `Rooms` | `MCRooms.cfg`, as a property | a failed look-up of a group whose creation is uncertain is handled as a failed creation, and the group is created again (`rooms.py:108`, `116`) |
| `NoOrphan` of `Sessions` | `MCSessions.cfg`, as an invariant | two copies of a group's `/new` both pass `seen` (`hub.py:138`) and the second binds a session that nothing creates; a crash between the two transactions of a refusal (`hub.py:621`, `624`) has the same effect: every submission waits for that session |
| `DeferralsAreFree` of `Outbox` | `MCOutbox.cfg`, as a property | each deferral counts as an attempt (`gateway.py:439`): a card deferred through a long exhaustion of the quota is blocked by its first rate limit |
| `OldStopIsHarmless` of `Interactions` | `MCInteractions.cfg`, as a property | a turn that begins between the look at the session (`hub.py:516`) and the call (`client.py:239`) is ended by the stop meant for the one before, against `user-guide.md:142` |
| `RollbackCanRead` of `Upgrade` | `MCUpgrade.cfg`, as an invariant under `Spec` | a candidate that is still being started migrates the database after the schema was compared (`releases.py:247`), and the old program cannot open it, against `installation.md:248`; a command without the lock does the same, during the probe of a switch (`releases.py:168`) as well, or sets the schema back or forth after the switch to another program |
| `GivenUpIsUnsent` of `Turns` | `MCTurns.cfg`, as an invariant | an input given up in doubt has its card closed with "not submitted" (`turns.py:189`), although `gateway.py:606` and `user-guide.md:110` deny that dismissal proves it; AGY starts it later, and the closed card is never opened again |

And two that no definition states: a stop of the service that fails or times out (`releases.py:158`) may have stopped it, and since `stopped` is not
set, nothing starts it again (`ServiceReturns` speaks of the stops that the command knows of); a view without a user step lets `project`
give an open card of a waiting input the steps of a desktop turn, and close it with their answer (`turns.py:153`; `AnswerIsWhole` excepts `misread`).

## 5. Proofs

All theorems hold for every number of requests, sessions, commands, events, groups, cards, prompts,
turns, steps, panels, versions and surprises. They
assume only the named assumptions of the modules (`LedgerAssumption`, `HubAssumption`, `SessionsAssumption`, `RoomsAssumption`, `OutboxAssumption`,
`InteractionsAssumption`, `TurnsAssumption`, `PanelsAssumption`, `UpgradeAssumption`), which TLC evaluates in the runs.

- **`HubProofs`, the ledger**: `LedgerInv` = types, distinct ordinals, and one `SUBMITTING` request for a session. From it
  `SubmittedInOrder`, `OneAtATime`, `NoResubmission`.
- **`HubProofs`, the worker**: the invariant `HubInv`. `AtMostOnce` is not inductive: that nothing waiting was ever transmitted
  (`Transmitted`), that the input about to be sent is `SUBMITTING` and unsent (`Sending`), and that a view shows only what
  was transmitted (`ViewsTrue`, needed because project settles requests from views) are. With `DoubtPausesQueue`,
  `UnresolvedStopHoldsQueue` and `ArchivedIsQuiet`, which need each other (an archive relies on a pause, a resume on the
  archive), they are kept by every step (`HubInvStep`: one lemma per group of actions). Hence `TransmittedOnce`,
  `DoubtHolds`, `StopHolds` and `ArchiveIsQuiet`; `HubUsesLedger` shows that each step of the worker is a transaction of the ledger or leaves the tables
  alone, so that `HubKeepsOrder` follows from the ledger's theorem.
- **`HubProofs`, the refinement**: `HubImplementsSubmission`, step by step: a transmission is `Hand`, whose guard needs that at most one
  input is under way (`Alone`); a duplicate tag is `Reopen`.
- **`SessionsProofs`**: `StartedOnce` is not inductive: a step that sends must know that nothing was sent before. `SessionsInv`
  adds that a creation is bound to a session of its own, whatever duplicates of the event made (`Owned`), that the worker
  handles one row and what is left in `rows` is still queued (`Handled`), and that a creation queued or about to be sent was
  never started (`Unstarted`). `RefusedIsNotMade` and `ActiveIsProven` are kept along with them. Hence `NoCreationRepeated`,
  `RefusalsAreTrue`, `ActiveIsReal`, `OneSession`.
- **`RoomsProofs`**: tick decides from rows read before its awaits, while inbound verifications go on. `RoomsInv` says what a
  stale row still tells (`RowsTrue`): verifications touch the status of known groups only, so a row that says a group is to
  be created is true. With `Handled` (the status of the group at hand), `Proven` (a group in use was once reported as
  safe) and `Released` (the inbox tells whether the first task was queued), every step keeps it. Hence
  `OneGroupForASession`, `FirstTaskReleasedOnce`.

- **`OutboxProofs`**: `OneMessage` needs to know, when a card is sent, that it has no message yet. `OutboxInv` says that a
  message without a stored id belongs to a card in doubt or in flight (`Messages`, which gives `DoubtIsReported`), that the
  rows flush holds still tell whether the id is known, and are not older than what is recorded (`RowsTrue`), and that an answer
  that succeeded was shown (`Shown`, whence `DeliveredIsShown`). Hence `SentOnce`, `LostIsReported`,
  `DeliveriesAreTrue`.

- **`InteractionsProofs`**: that one call is made for a prompt rests on the rows, not on the calls: `InteractionsInv` says that an
  interaction has one row at most, and none before it is claimed or expired (`OneRow`), that the row being handled is
  `SUBMITTING` and no other row is (`Handled`), and that a queued row was never called (`CalledOnce`). A prompt with a row has been asked, and is over
  once its call has arrived (`Asked`); a stop in flight is for the turn that runs, unless one began after the worker looked (`Aimed`). Hence `OneDecision`,
  `DoneIsTrue`, `StopsAreAimed`.
- **`TurnsProofs`**: a turn that is closed is never projected again, so its answer is right only if the turn was over when it was
  closed, although the view it was closed from may be torn. `TurnsInv` says that requests are in user steps after the
  baseline (`History`); that what was refused or cancelled is not in the history, and nothing else but what was given up in doubt is called unsent
  (`GivenUp`); that an open turn is named by its step (`OpenIsNamed`); and, as long as no steer came late, that a closed one is over and was answered with all its replies
  (`ClosedIsWhole`). All but the first except the turns that were `misread`, and the next complete view of an open one takes it out again. A history that grows keeps the replies of a turn that is over (`RepliesStay`), and `Answers` are those replies
  once it is (`AnswersAreReplies`). One lemma per loop of `project` (`StartedOpened`, `PartialOpened`, `PendingOpened`) leads to
  `ProjectStep`; `Least` and `Most` rest on the well-founded order of the naturals. Hence `TurnsTyped`, `AnswersAreWhole`, `UnsentStaysUnsent`.
- **`PanelsProofs`**: `OneSessionPerForm` is not inductive: a row in doubt is performed again after a crash, and only the row of the hub
  that its first performance left tells that the session was made. `PanelsInv` adds that a panel was opened by one event
  (`OpenedOnce`), that one row submits a form, and nothing was made before the row of the hub exists (`OneSubmission`), that a
  form whose button works was not submitted (`FormIsOpen`), and that nothing was made without a submission (`UnsubmittedIsUnmade`); `AtHand`
  ties the rows that are not settled to the row the worker is at. Most steps only carry rows from one state to the
  next: `Carried` and one lemma cover them. Hence `PanelsTyped`, `FormsMakeOne`.
- **`UpgradeProofs`**: what cleaning up removes must be in no use, and what is installed must fit a database that gateways migrate
  meanwhile. `UpgradeInv` adds to the properties the types (`Flags`, `Counts`, `Programs`), that the command's target and origin are
  complete on disk when it uses them (`Whole`), that a target not in its copy of `install.json` is neither linked, nor running, nor to be gone back to
  (`Unused`), and what still holds of the comparisons (`Compared`): the schema is the one compared, or the history tells that a gateway or a
  command without the lock changed it (`overtaken`), until a gateway has opened it again. One lemma (`MoveStep`) covers the steps that touch
  no program. Hence `UpgradeTyped`, `WholePrograms`, `InstalledCanRead`, `SwitchesAreSafe`.

- **The refinements of `Effects`** (`OutboxImplementsEffects`, `SessionsImplementsEffects`, `InteractionsImplementsEffects`): the
  component's invariant, and what the mapping needs besides: that a card with a state other than its first was written (`Written`),
  how far the worker is with a creation and that only a call makes a session (`Progress`), that a stop button belongs to a turn that
  has begun and that a refused decision was not called (`Begun`). One lemma per group of actions leads to one action of `Effects` or
  to a stutter. From the refinement alone follows `Promise!ReportsAreTrue` of each component (`OutboxReportsAreTrue`,
  `SessionsReportsAreTrue`, `InteractionsReportsAreTrue`): what is reported as done holds, what is reported as refused was not
  called with effect, and what was called is never written down as still to be called.

The type invariants of `Interactions`, `Turns`, `Panels` and `Upgrade` are theorems; those of `Hub`, `Rooms`, `Sessions` and `Outbox` are
parts of their inductive invariants, as far as the proofs need them.

**Only model-checked:** all liveness (`EventuallySubmitted`, `EventuallyDelivered`, `EventuallyReady`, `FirstTaskReleased`, `EventuallyAnswered`,
`DoubtIsResolved`, `DecisionsSettle`, `WaitingIsDecided`, `TurnsAreClosed`, `SubmittedIsCreated`, `ButtonsComeBack`, `ServiceReturns`), which needs fairness and
ENABLED, out of the prover's reach. Every invariant and every action property that a passing run checks is a theorem.

## 6. Not modelled

Texts, cards' layout, redaction, Mermaid rendering and the desktop's service wrappers: formatting and I/O. Pairing and
set-up: run once, by hand, under the instance lock. The transports: their promise, that a call returns, fails or times out
and that events may be repeated or reordered, is what the models assume. One configured profile: the code skips
sessions of another one everywhere. The journal of observations, which only feeds status texts.

Of the components that are modelled in part:

- `Hub`: sessions exist already; the pause of the queue by an uncertain decision is that of an uncertain stop.
- `Sessions`, `Rooms`, `Outbox`: selection and titles; the routing of events and cards to a group; the splitting of a text into cards.
- `Interactions`: the check that a press comes from the card's message and its owner, and the parsing of an answer.
- `Turns`: the wording of the progress card, and the move of a group from an older layout. A steer that finds its turn
  over begins a turn that nobody shows; the properties of answers except it.
- `Panels`: the panels inside a group's own chat (the rows of one need the group verified, see `Rooms`), the panels for tasks, commands and settings, page numbers, and the expiry of a panel after a day.
- `Upgrade`: the first installation (it is the initial state), the checks of ownership and of the bundle, and systemd's limit on
  starts; an interrupt between the replacement of the link and the assignment that remembers it (`releases.py:196`). A service that systemd is still activating may count as inactive (`Begin`), and is then not stopped.

## 7. Status

All modules of the plan are written: `Ledger`, `Submission` and `Hub`; `Effects`; `Rooms` and `Sessions`; `Outbox`; `Interactions`, `Turns`,
`Panels` and `Upgrade`; proofs for all of them. Left for a continuation:

| Module | Content | Why |
|---|---|---|
| `Compose` | `Hub` with sessions that are created and in doubt | the hold of all submissions while a session is being made joins the two state spaces |
| `Turns` | several inputs at once | the history grows with each turn, and the instance with it |
