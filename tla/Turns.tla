-------------------------------- MODULE Turns --------------------------------
(***************************************************************************)
(* The turns of a session as its group shows them: the table chat_turns    *)
(* and Turns.project of conversation/turns.py, fed by views of the AGY     *)
(* history that are read in two calls, first whether it is idle, then its  *)
(* steps, some user steps of which may be left out.  A closed turn is      *)
(* never opened again.                                                     *)
(*                                                                         *)
(* A turn is named by its request or, begun on the desktop, by the index   *)
(* of its user step; 0 names the turn whose user step is out of sight.     *)
(***************************************************************************)
EXTENDS Naturals, Sequences, FiniteSets, SequencesExt

CONSTANTS
  Inputs,        \* requests that start a turn
  Ordinal,       \* the order they are accepted in
  MaxSteps,      \* bound on native steps
  MaxDesktop,    \* bound on turns begun on the desktop
  MaxSteers,     \* bound on steers
  MaxSurprises,  \* bound on dismissals, crashes and views that leave user steps out
  None

Ids == Inputs \cup 0 .. MaxSteps

ASSUME TurnsAssumption ==
  /\ MaxSteps \in Nat \ {0} /\ {MaxDesktop, MaxSteers, MaxSurprises} \subseteq Nat
  /\ (Inputs \cup {None}) \cap (0 .. MaxSteps) = {} /\ None \notin Inputs
  /\ Ordinal \in [Inputs -> Nat] /\ IsInjective(Ordinal)

VARIABLES
  steps,             \* AGY: the history
  running,           \* AGY: a turn runs
  baseline,          \* steps before the group was made
  op,                \* the ledger: states of the inputs; SUBMITTING is also UNKNOWN
  turns,             \* chat_turns
  answer,            \* the steps in the answer card of a turn
  snap,              \* the snapshot read: "none", "idle" or "busy"
  misread,           \* history: turns whose row rests on a view that was torn or left user steps out
  surprises

agy == <<steps, running>>
store == <<op, turns, answer>>
vars == <<agy, baseline, store, snap, misread, surprises>>

Steps == [kind : {"user", "steer", "tool", "assistant"}, req : Inputs \cup {None}, fresh : BOOLEAN]
Step(kind) == [kind |-> kind, req |-> None, fresh |-> FALSE]
UserStep(kind, r) == [kind |-> kind, req |-> r, fresh |-> ~running]

TurnsTypeOK ==
  /\ steps \in Seq(Steps) /\ Len(steps) <= MaxSteps
  /\ running \in BOOLEAN
  /\ baseline \in 0 .. MaxSteps
  /\ op \in [Inputs -> {"NONE", "QUEUED", "SUBMITTING", "ACCEPTED", "REJECTED", "DISMISSED"}]
  /\ turns \in [Ids -> [start : (0 .. MaxSteps) \cup {None}, status : {"NONE", "OPEN", "FINAL"}]]
  /\ answer \in [Ids -> SUBSET (1 .. MaxSteps)]
  /\ snap \in {"none", "idle", "busy"}
  /\ misread \subseteq Ids
  /\ surprises \in 0 .. MaxSurprises
  /\ \A t \in 1 .. baseline : turns[t].status = "NONE"  \* what the group's past held stays out

\* The group was made of a session that is idle and has a history.
Init ==
  /\ steps = <<[Step("user") EXCEPT !.fresh = TRUE]>>
  /\ running = FALSE
  /\ baseline = Len(steps)
  /\ op = [r \in Inputs |-> "NONE"]
  /\ turns = [t \in Ids |-> [start |-> None, status |-> "NONE"]]
  /\ answer = [t \in Ids |-> {}]
  /\ snap = "none"
  /\ misread = {}
  /\ surprises = 0

Surprise == surprises < MaxSurprises /\ surprises' = surprises + 1

-----------------------------------------------------------------------------
(* AGY, and what the hub does to the ledger. *)

Append1(step) == Len(steps) < MaxSteps /\ steps' = Append(steps, step)
KeepsStore == UNCHANGED <<baseline, store, snap, misread, surprises>>

Count(kind) == Cardinality({i \in DOMAIN steps : i > baseline /\ steps[i].kind = kind /\ steps[i].req = None})

DesktopTurn ==
  /\ ~running /\ Count("user") < MaxDesktop
  /\ Append1(UserStep("user", None))
  /\ running' = TRUE
  /\ KeepsStore

\* A step is in progress until the next one or the end of the turn.
BeginStep(kind) ==
  /\ running
  /\ Append1(Step(kind))
  /\ UNCHANGED running /\ KeepsStore

EndTurn ==
  /\ running /\ running' = FALSE
  /\ UNCHANGED steps /\ KeepsStore

Working == running /\ steps[Len(steps)].kind \in {"tool", "assistant"}

SetOp(r, s) ==
  /\ op' = [op EXCEPT ![r] = s]
  /\ UNCHANGED <<agy, baseline, turns, answer, misread>>

Queue(r) ==
  /\ op[r] = "NONE" /\ \A q \in Inputs : Ordinal[q] < Ordinal[r] => op[q] # "NONE"
  /\ SetOp(r, "QUEUED")
  /\ UNCHANGED <<snap, surprises>>

Cancel(r) ==
  /\ op[r] = "QUEUED"
  /\ SetOp(r, "REJECTED")
  /\ UNCHANGED <<snap, surprises>>

Submit(r) ==
  /\ op[r] = "QUEUED"
  /\ \A q \in Inputs : op[q] # "SUBMITTING"
  /\ SetOp(r, "SUBMITTING")
  /\ UNCHANGED <<snap, surprises>>

Begun(r) == \E i \in DOMAIN steps : steps[i].req = r

\* The call returns: the input is accepted, begun or not, or proven not to have been taken.
Return(r) ==
  /\ op[r] = "SUBMITTING"
  /\ \E s \in {"ACCEPTED"} \cup (IF Begun(r) THEN {} ELSE {"QUEUED", "REJECTED"}) : SetOp(r, s)
  /\ UNCHANGED <<snap, surprises>>

\* The operator gives up an input in doubt while the gateway is stopped.
GiveUp(r) ==
  /\ op[r] = "SUBMITTING"
  /\ SetOp(r, "DISMISSED")
  /\ snap' = "none"
  /\ Surprise

\* What AGY was handed starts when it is idle, whatever the ledger says of the call by then.
Land(r) ==
  /\ op[r] \in {"SUBMITTING", "ACCEPTED", "DISMISSED"}
  /\ ~Begun(r)
  /\ ~running /\ Append1(UserStep("user", r))
  /\ running' = TRUE
  /\ KeepsStore

\* A steer is for the turn that runs, but may find it over.
Steer ==
  /\ Count("steer") < MaxSteers
  /\ Append1(UserStep("steer", None))
  /\ running' = TRUE
  /\ KeepsStore

-----------------------------------------------------------------------------
(* The projection. *)

ReadSnapshot ==
  /\ snap = "none"
  /\ snap' = IF running THEN "busy" ELSE "idle"
  /\ UNCHANGED <<agy, baseline, store, misread, surprises>>

Least(S) == CHOOSE i \in S : \A j \in S : i <= j
Most(S) == CHOOSE i \in S : \A j \in S : i >= j

\* What begins a turn of the group.
UserSteps == {i \in baseline + 1 .. Len(steps) : steps[i].kind = "user"}

\* Fault: the past of the group is not left out.
StartsFault(omitted) == {i \in DOMAIN steps : steps[i].kind = "user"} \ omitted

\* Those that are in the view, which leaves out some.
Starts(omitted) == UserSteps \ omitted

\* The name of the turn a user step starts, after the baseline and not a steer.
IdOf(i) == IF steps[i].req = None THEN i ELSE steps[i].req

\* Finished replies after the last tool, among the steps after `start` and before `end`.
Answers(start, end) ==
  LET within == {i \in DOMAIN steps : start < i /\ i < end}
      lastTool == Most({start} \cup {i \in within : steps[i].kind = "tool"})
  IN  {i \in within : steps[i].kind = "assistant" /\ i > lastTool /\ (Working => i < Len(steps))}

\* Fault: a turn is not ended by the next.
EndOfFault(start, omitted) == Len(steps) + 1

EndOf(start, omitted) == Least({i \in Starts(omitted) : i > start} \cup {Len(steps) + 1})

\* ensure: a row is made once; its start follows the history while it is OPEN, and in the
\* fault is what it was made with.
EnsuredFault(row, start) ==
  IF row.status # "NONE" THEN row ELSE [start |-> start, status |-> "OPEN"]

Ensured(row, start) ==
  IF row.status = "FINAL" \/ (start = None /\ row.status = "OPEN") THEN row
  ELSE [start |-> start, status |-> "OPEN"]

InState(rows, s) == {t \in Ids : rows[t].status = s}

\* Each of the next three gives the set of tables that may result.
Own(t, omitted) == {i \in Starts(omitted) : IdOf(i) = t}

Started(omitted) ==
  {[t \in Ids |-> IF Own(t, omitted) = {} THEN turns[t] ELSE Ensured(turns[t], Least(Own(t, omitted)))]}

\* Without a user step in the view its steps belong to an open turn, or to one of their own,
\* which begins before the first of them.
WithPartial(rows, omitted) ==
  LET visible == (baseline + 1 .. Len(steps)) \ omitted
  IN  IF visible # {} /\ Starts(omitted) = {} /\ InState(rows, "FINAL") = {}
      THEN {[rows EXCEPT ![t] = Ensured(@, Least(visible) - 1)] :
              t \in IF InState(rows, "OPEN") = {} THEN {0} ELSE InState(rows, "OPEN")}
      ELSE {rows}

\* With no open turn, the first input that has none gets a card.
WithPending(rows) ==
  LET pending == {r \in Inputs : rows[r].status = "NONE" /\ op'[r] \in {"QUEUED", "SUBMITTING"}}
      first == {r \in pending : \A q \in pending : Ordinal[r] <= Ordinal[q]}
  IN  IF pending = {} \/ InState(rows, "OPEN") # {} THEN {rows}
      ELSE {[rows EXCEPT ![r] = Ensured(@, None)] : r \in first}

\* Fault: a turn without an answer is left as it is.
ClosesFault(row, t, idle, omitted) ==
  /\ row.status = "OPEN"
  /\ IF row.start = None
     THEN t \in Inputs /\ op'[t] \in {"REJECTED", "DISMISSED"}
     ELSE /\ EndOf(row.start, omitted) <= Len(steps) \/ idle
          /\ Answers(row.start, EndOf(row.start, omitted)) # {}

Closes(row, t, idle, omitted) ==
  /\ row.status = "OPEN"
  /\ IF row.start = None
     THEN t \in Inputs /\ op'[t] \in {"REJECTED", "DISMISSED"}
     ELSE EndOf(row.start, omitted) <= Len(steps) \/ idle

\* A row is closed although its turn runs, or by a view without a user step that matters to it.
ClosedTooSoon(row, t, omitted) ==
  IF row.start = None THEN \E i \in omitted : IdOf(i) = t
  ELSE \/ running /\ EndOf(row.start, omitted) > Len(steps)
       \/ \E i \in omitted : i > row.start

\* Turns.project after the hub marked what it sees as accepted.  A crash after a save and
\* before its commit of FINAL leaves the answer card without the status.
Project(crash, omitted) ==
  /\ snap # "none"
  /\ snap' = "none"
  /\ IF crash \/ omitted # {} THEN Surprise ELSE UNCHANGED surprises
  /\ op' = [r \in Inputs |->
              IF op[r] = "SUBMITTING" /\ \E i \in DOMAIN steps \ omitted : steps[i].req = r
              THEN "ACCEPTED" ELSE op[r]]
  /\ LET idle == snap = "idle" /\ ~Working
     IN  \E named \in Started(omitted) : \E rows \in UNION {WithPending(t) : t \in WithPartial(named, omitted)} :
           LET closing == {t \in Ids : Closes(rows[t], t, idle, omitted)}
               answered == {t \in closing : rows[t].start # None}
           IN  /\ turns' = IF crash THEN rows
                           ELSE [t \in Ids |-> IF t \in closing THEN [rows[t] EXCEPT !.status = "FINAL"]
                                               ELSE rows[t]]
               /\ answer' = [t \in Ids |-> IF t \in answered
                                           THEN Answers(rows[t].start, EndOf(rows[t].start, omitted))
                                           ELSE answer[t]]
               /\ misread' = {t \in misread : Own(t, omitted) = {} \/ turns[t].status = "FINAL"}
                             \cup {t \in Ids : rows[t].start \notin {None, named[t].start}}
                             \cup (IF crash THEN {} ELSE {t \in closing : ClosedTooSoon(rows[t], t, omitted)})
  /\ UNCHANGED <<agy, baseline>>

-----------------------------------------------------------------------------
Next ==
  \/ DesktopTurn \/ Steer \/ EndTurn \/ ReadSnapshot
  \/ \E kind \in {"tool", "assistant"} : BeginStep(kind)
  \/ \E r \in Inputs : Queue(r) \/ Cancel(r) \/ Submit(r) \/ Return(r) \/ GiveUp(r) \/ Land(r)
  \/ \E crash \in BOOLEAN, omitted \in SUBSET UserSteps : Project(crash, omitted)

Spec == Init /\ [][Next]_vars

\* The agent finishes what it does; the loop reads and projects; views are complete again.
LiveSpec == Spec /\ WF_vars(EndTurn) /\ WF_vars(ReadSnapshot) /\ WF_vars(Project(FALSE, {}))

-----------------------------------------------------------------------------
\* A steer found the turn it was meant for over, and began one that nobody shows.
SteerWasLate == \E i \in DOMAIN steps : steps[i].kind = "steer" /\ steps[i].fresh

\* The last replies of the turn that a user step starts: what the user waits for.
Replies(start) ==
  LET within == {i \in DOMAIN steps : start < i /\ \A j \in start + 1 .. i : steps[j].kind # "user"}
  IN  {i \in within : steps[i].kind = "assistant" /\ \A j \in within : j > i => steps[j].kind # "tool"}

\* The answer of a closed turn is the whole of it: the last replies of just that turn,
\* however requests, desktop turns, reads and crashes interleave, unless a view that was torn
\* closed it while it ran, or one that left user steps out closed it or guessed its start.
AnswerIsWhole ==
  \A t \in Ids \ misread :
    turns[t].status = "FINAL" /\ turns[t].start # None /\ ~SteerWasLate =>
      /\ answer[t] = Replies(turns[t].start)
      /\ t = IdOf(turns[t].start)

\* Without exception, as the README has it.
FinalAnswerArrives ==
  \A t \in Ids :
    turns[t].status = "FINAL" /\ turns[t].start # None /\ ~SteerWasLate /\ ~running =>
      answer[t] = Replies(turns[t].start)

CalledUnsent(r) == turns[r].status = "FINAL" /\ turns[r].start = None

\* A card says that its input was not submitted only while no turn of the input is in the
\* history (unless the view left it out), even where the operator gave it up just after it
\* began; and only an input that was given up in doubt may begin afterwards.
UnsentUnlessDismissed ==
  [][\A r \in Inputs \ misread' :
       CalledUnsent(r)' /\ Begun(r)' => CalledUnsent(r) /\ op[r] = "DISMISSED"]_vars

\* Without exception, as the card has it: the code does not give this.
GivenUpIsUnsent == \A r \in Inputs : CalledUnsent(r) => ~Begun(r)

\* Every turn that starts is closed again and again, and so is every card of an input that
\* was cancelled or refused.
TurnsAreClosed ==
  []<>(/\ \A i \in UserSteps : turns[IdOf(i)].status = "FINAL"
       /\ \A r \in Inputs : op[r] = "REJECTED" => turns[r].status # "OPEN")

=============================================================================
