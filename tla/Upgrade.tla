------------------------------- MODULE Upgrade -------------------------------
(***************************************************************************)
(* The commands that replace the installed program: releases.run of        *)
(* lifecycle/releases.py with installer.prepare, activate and atomic_json, *)
(* the lock of the state directory, the migration probe and systemd.       *)
(*                                                                         *)
(* On disk are the link `current`, the record install.json, the release    *)
(* directories and the database, whose schema every program that opens it  *)
(* for writing sets to its own, some of them without the lock.  The        *)
(* command remembers the rest and may be killed.                           *)
(***************************************************************************)
EXTENDS Naturals, FiniteSets

CONSTANTS
  Versions,
  FirstVersion,  \* installed at first
  FirstSchema,   \* schema of the database at first
  Lowest,        \* schema_min, schema_input_min and schema_max of a release
  InputLowest,
  Highest,
  MaxCommands,   \* bound on commands
  MaxSurprises,  \* bound on failures, kills, foreground gateways and commands without the lock
  None           \* no version

Accepts(v, s) == InputLowest[v] <= s /\ s <= Highest[v]

ASSUME UpgradeAssumption ==
  /\ FirstVersion \in Versions /\ None \notin Versions
  /\ FirstSchema \in Nat
  /\ Lowest \in [Versions -> Nat] /\ InputLowest \in [Versions -> Nat] /\ Highest \in [Versions -> Nat]
  /\ \A v \in Versions : InputLowest[v] <= Lowest[v] /\ Lowest[v] <= Highest[v]
  /\ Accepts(FirstVersion, FirstSchema)
  /\ MaxCommands \in Nat /\ MaxSurprises \in Nat

VARIABLES
  current,    \* the version the link points to
  record,     \* install.json
  present,    \* complete release directories
  partial,    \* release directories half made or half removed
  schema,     \* user_version of the database
  work,       \* the database holds queued or uncertain operations
  wanted,     \* the service is started: systemd runs `current`, again and again
  gateway,    \* the version that runs and holds the lock
  foreground, \* it was started by hand, and systemd does not know it
  opening,    \* the version of a command without the lock, about to write the schema it knows
  pc,         \* where the command is
  upgrading,  \* it is an upgrade, not a rollback
  selected,   \* its target
  origin,     \* the version it found
  wasActive, stopped, switched,
  memory,     \* its copy of install.json
  commands,   \* commands so far
  surprises,  \* surprises so far
  abandoned,  \* history: a command was killed, its last start failed, or a failed stop stopped the service
  overtaken   \* history: the schema was changed behind a comparison, and no gateway has opened it since

disk    == <<current, record, present, partial>>
service == <<schema, work, wanted, gateway, foreground, opening>>
command == <<upgrading, selected, origin, wasActive, stopped, switched, memory>>
history == <<commands, surprises, abandoned, overtaken>>
vars == <<disk, service, pc, command, history>>

Records == [version : Versions \cup {None}, previous : Versions \cup {None}, releases : SUBSET Versions]
LockedPcs == {"recheck", "probe", "activate", "write", "undoActivate", "undoWrite", "erase"}
Pcs == LockedPcs \cup {"idle", "prepare", "install", "compare", "stop", "lock", "start", "poll",
                       "failed", "undoStop", "undoLock", "undoStart", "cleanup", "dismantle"}

\* A program is compared with the schema and not yet switched to.
Chosen == {"activate", "undoStop", "undoLock", "undoActivate"}

UpgradeTypeOK ==
  /\ {current, gateway, opening} \subseteq Versions \cup {None}
  /\ foreground \in BOOLEAN /\ (foreground => gateway # None)
  /\ record \in Records /\ memory \in Records
  /\ present \subseteq Versions /\ partial \subseteq Versions \ present
  /\ schema \in Nat
  /\ work \in BOOLEAN /\ wanted \in BOOLEAN /\ upgrading \in BOOLEAN /\ wasActive \in BOOLEAN
  /\ stopped \in BOOLEAN /\ switched \in BOOLEAN /\ abandoned \in BOOLEAN /\ overtaken \in BOOLEAN
  /\ pc \in Pcs
  /\ pc \in LockedPcs => gateway = None
  /\ selected \in Versions /\ origin \in Versions \cup {None}
  /\ commands \in 0 .. MaxCommands /\ surprises \in 0 .. MaxSurprises

FirstRecord == [version |-> FirstVersion, previous |-> None, releases |-> {FirstVersion}]

Init ==
  /\ current = FirstVersion
  /\ record = FirstRecord
  /\ present = {FirstVersion} /\ partial = {}
  /\ schema = FirstSchema
  /\ work = FALSE
  /\ wanted \in BOOLEAN
  /\ gateway = None /\ foreground = FALSE /\ opening = None
  /\ pc = "idle"
  /\ upgrading = FALSE
  /\ selected = FirstVersion /\ origin = FirstVersion
  /\ wasActive = FALSE /\ stopped = FALSE /\ switched = FALSE
  /\ memory = FirstRecord
  /\ commands = 0 /\ surprises = 0
  /\ abandoned = FALSE /\ overtaken = FALSE

Counted(n) == surprises' = surprises + n /\ surprises' <= MaxSurprises
Keeps == UNCHANGED <<commands, abandoned, overtaken>>

\* One step of the command ends at `next`, or fails as a surprise.
Goes(next) == pc' = next /\ Counted(0)
Fails == pc' = "failed" /\ Counted(1)

-----------------------------------------------------------------------------
(* The gateway, as a service or in the foreground. *)

\* The lock, then GatewayStore, which migrates; a program that does not know the schema
\* ends at once.
GatewayStart(byHand) ==
  /\ gateway = None /\ pc \notin LockedPcs
  /\ current \in present /\ Accepts(current, schema)
  /\ IF byHand THEN Counted(1) ELSE wanted /\ Counted(0)
  /\ gateway' = current /\ foreground' = byHand
  /\ schema' = Highest[current]
  /\ overtaken' = (pc \in Chosen /\ (overtaken \/ schema' # schema))
  /\ UNCHANGED <<disk, work, wanted, opening, pc, command, commands, abandoned>>

GatewayExit ==
  /\ gateway # None
  /\ IF wanted /\ ~foreground THEN Counted(1) ELSE Counted(0)
  /\ gateway' = None /\ foreground' = FALSE
  /\ UNCHANGED <<disk, schema, work, wanted, opening, pc, command>> /\ Keeps

\* Operations are accepted and settled.
Work ==
  /\ gateway # None
  /\ work' = ~work
  /\ UNCHANGED <<disk, schema, wanted, gateway, foreground, opening, pc, command, history>>

\* attach, retry-delivery and acceptance open the database for writing without the lock:
\* the schema is looked at,
Open ==
  /\ opening = None
  /\ current \in present /\ Accepts(current, schema)
  /\ Counted(1)
  /\ opening' = current
  /\ UNCHANGED <<disk, schema, work, wanted, gateway, foreground, pc, command>> /\ Keeps

\* and overwritten, whatever it is by then.
Overwrite ==
  /\ opening # None
  /\ schema' = Highest[opening] /\ opening' = None
  /\ overtaken' = (overtaken \/ (schema' # schema /\ (pc \in Chosen \/ opening # current)))
  /\ UNCHANGED <<disk, work, wanted, gateway, foreground, pc, command, commands, surprises, abandoned>>

-----------------------------------------------------------------------------
(* The command, up to its try. *)

\* installation and the first safe_point let it pass.
Ready ==
  /\ pc = "idle" /\ commands < MaxCommands
  /\ current # None /\ current = record.version
  /\ ~work
  /\ commands' = commands + 1

\* A service between two attempts of systemd may not count as active.
Begin(v) ==
  /\ Ready
  /\ upgrading' \in IF v = record.previous THEN BOOLEAN ELSE {TRUE}
  /\ pc' = IF upgrading' THEN "prepare" ELSE "compare"
  /\ selected' = v
  /\ origin' = current
  /\ wasActive' \in {wanted, wanted /\ gateway # None /\ ~foreground}
  /\ stopped' = FALSE /\ switched' = FALSE
  /\ memory' = record
  /\ UNCHANGED <<disk, service, surprises, abandoned, overtaken>>

\* mkdir refuses a directory that exists.
Prepare ==
  /\ pc = "prepare"
  /\ IF selected \in present \cup partial
     THEN Goes("idle") /\ UNCHANGED partial
     ELSE Goes("install") /\ partial' = partial \cup {selected}
  /\ UNCHANGED <<current, record, present, service, command>> /\ Keeps

Install ==
  /\ pc = "install"
  /\ \/ Goes("compare") /\ present' = present \cup {selected}
     \/ pc' = "idle" /\ Counted(1) /\ UNCHANGED present
  /\ partial' = partial \ {selected}
  /\ UNCHANGED <<current, record, service, command>> /\ Keeps

-----------------------------------------------------------------------------
(* Inside its try. *)

\* compatible: an upgrade may also migrate.
Compatible(v, migrate) ==
  /\ (IF migrate THEN InputLowest[v] ELSE Lowest[v]) <= schema
  /\ schema <= Highest[v]

Compare ==
  /\ pc = "compare"
  /\ Goes(IF Compatible(selected, upgrading) THEN "stop" ELSE "failed")
  /\ UNCHANGED <<disk, service, command>> /\ Keeps

StopService ==
  /\ wanted' = FALSE
  /\ gateway' = IF foreground THEN gateway ELSE None
  /\ UNCHANGED <<foreground, abandoned>>

\* A call that fails or is not waited for may have stopped the service all the same, or may
\* stop it later.
StopMisreported ==
  /\ wanted' \in {wanted, FALSE}
  /\ gateway' \in IF wanted' \/ foreground THEN {gateway} ELSE {gateway, None}
  /\ abandoned' = (abandoned \/ wanted' # wanted)
  /\ UNCHANGED foreground

Stop ==
  /\ pc = "stop"
  /\ \/ wasActive /\ Goes("lock") /\ StopService /\ stopped' = TRUE
     \/ wasActive /\ Fails /\ StopMisreported /\ UNCHANGED stopped
     \/ ~wasActive /\ Goes("lock") /\ UNCHANGED <<wanted, gateway, foreground, stopped, abandoned>>
  /\ UNCHANGED <<disk, schema, work, opening, upgrading, selected, origin, wasActive, switched, memory,
                 commands, overtaken>>

Lock ==
  /\ pc = "lock"
  /\ Goes(IF gateway = None THEN "recheck" ELSE "failed")
  /\ UNCHANGED <<disk, service, command>> /\ Keeps

\* Fault: what arrived after the first look is not looked for.
RecheckFault ==
  /\ pc = "recheck"
  /\ (Goes("probe") \/ Fails)
  /\ UNCHANGED <<disk, service, command>> /\ Keeps

\* The second safe_point, which also fails when AGY is busy or does not answer.
Recheck ==
  /\ pc = "recheck"
  /\ (Goes(IF work THEN "failed" ELSE "probe") \/ Fails)
  /\ UNCHANGED <<disk, service, command>> /\ Keeps

\* The candidate opens and migrates a copy of the database.
Probe ==
  /\ pc = "probe"
  /\ \/ Goes(IF Accepts(selected, schema) THEN "activate" ELSE "failed")
     \/ Fails
  /\ UNCHANGED <<disk, service, command>> /\ Keeps

Activate ==
  /\ pc = "activate"
  /\ \/ Goes("write") /\ current' = selected /\ switched' = TRUE
     \/ Fails /\ UNCHANGED <<current, switched>>
  /\ UNCHANGED <<record, present, partial, service, upgrading, selected, origin, wasActive, stopped, memory>>
  /\ Keeps

\* The copy is changed before the file.
Write ==
  /\ pc = "write"
  /\ memory' = [version |-> selected, previous |-> origin, releases |-> memory.releases \cup {selected}]
  /\ \/ Goes("start") /\ record' = memory'
     \/ Fails /\ UNCHANGED record
  /\ UNCHANGED <<current, present, partial, service, upgrading, selected, origin, wasActive, stopped, switched>>
  /\ Keeps

Start ==
  /\ pc = "start"
  /\ \/ wasActive /\ Goes("poll") /\ wanted' = TRUE
     \/ wasActive /\ Fails /\ wanted' \in {wanted, TRUE}
     \/ ~wasActive /\ Goes("cleanup") /\ UNCHANGED wanted
  /\ UNCHANGED <<disk, schema, work, gateway, foreground, opening, command>> /\ Keeps

\* The doctor finds the candidate well, or twenty times not; or the user gives up.
Poll ==
  /\ pc = "poll"
  /\ \/ gateway = selected /\ Goes("cleanup")
     \/ Fails
  /\ UNCHANGED <<disk, service, command>> /\ Keeps

-----------------------------------------------------------------------------
(* Its handler and its finally. *)

\* Fault: the program is switched back whatever the schema.
FailedFault ==
  /\ pc = "failed"
  /\ IF switched /\ wasActive
     THEN Goes("undoStop")
     ELSE Goes(IF ~switched /\ stopped THEN "undoStart" ELSE "cleanup")
  /\ UNCHANGED <<disk, service, command>> /\ Keeps

\* Fault: a service that was only stopped is not started again.
FailedForgetsFault ==
  /\ pc = "failed"
  /\ Goes(IF switched /\ wasActive /\ Compatible(origin, FALSE) THEN "undoStop" ELSE "cleanup")
  /\ UNCHANGED <<disk, service, command>> /\ Keeps

Failed ==
  /\ pc = "failed"
  /\ IF switched /\ wasActive /\ Compatible(origin, FALSE)
     THEN Goes("undoStop")
     ELSE Goes(IF ~switched /\ stopped THEN "undoStart" ELSE "cleanup")
  /\ UNCHANGED <<disk, service, command>> /\ Keeps

UndoStop ==
  /\ pc = "undoStop"
  /\ \/ Goes("undoLock") /\ StopService
     \/ pc' = "cleanup" /\ Counted(1) /\ StopMisreported
  /\ UNCHANGED <<disk, schema, work, opening, command, commands, overtaken>>

UndoLock ==
  /\ pc = "undoLock"
  /\ Goes(IF gateway = None THEN "undoActivate" ELSE "cleanup")
  /\ UNCHANGED <<disk, service, command>> /\ Keeps

UndoActivate ==
  /\ pc = "undoActivate"
  /\ \/ Goes("undoWrite") /\ current' = origin
     \/ pc' = "cleanup" /\ Counted(1) /\ UNCHANGED current
  /\ UNCHANGED <<record, present, partial, service, command>> /\ Keeps

UndoWrite ==
  /\ pc = "undoWrite"
  /\ memory' = [memory EXCEPT !.version = origin, !.previous = selected]
  /\ \/ Goes("undoStart") /\ record' = memory'
     \/ pc' = "cleanup" /\ Counted(1) /\ UNCHANGED record
  /\ UNCHANGED <<current, present, partial, service, upgrading, selected, origin, wasActive, stopped, switched>>
  /\ Keeps

\* The answer of systemd is ignored.
UndoStart ==
  /\ pc = "undoStart"
  /\ pc' = "cleanup"
  /\ \/ Counted(0) /\ wanted' = TRUE /\ UNCHANGED abandoned
     \/ Counted(1) /\ abandoned' = TRUE /\ wanted' \in {wanted, TRUE}
  /\ UNCHANGED <<disk, schema, work, gateway, foreground, opening, command, commands, overtaken>>

\* rmtree of a release, one step before it is half gone and one after.
Removes(v) ==
  \/ v \in present /\ present' = present \ {v} /\ partial' = partial \cup {v}
  \/ v \in partial /\ partial' = partial \ {v} /\ UNCHANGED present

\* What is not among the given releases is removed; a removal that fails ends the command.
CleanupOf(releases) ==
  /\ pc = "cleanup"
  /\ IF upgrading /\ selected \in (present \cup partial) \ releases
     THEN \/ Goes("cleanup") /\ Removes(selected)
          \/ pc' = "idle" /\ Counted(1) /\ UNCHANGED <<present, partial>>
     ELSE Goes("idle") /\ UNCHANGED <<present, partial>>
  /\ UNCHANGED <<current, record, service, command>> /\ Keeps

\* Fault: what the file does not name is removed.
CleanupFault == CleanupOf(record.releases)

Cleanup == CleanupOf(memory.releases)

-----------------------------------------------------------------------------
(* uninstall. *)

\* The service is removed, or the command ends; without the lock nothing else is.
Uninstall ==
  /\ Ready
  /\ \/ pc' = "dismantle" /\ Counted(0) /\ StopService
     \/ pc' = "idle" /\ Counted(1) /\ StopMisreported
  /\ stopped' = FALSE
  /\ UNCHANGED <<disk, schema, work, opening, upgrading, selected, origin, wasActive, switched, memory, overtaken>>

Dismantle ==
  /\ pc = "dismantle"
  /\ IF gateway = None /\ record.releases \subseteq present
     THEN Goes("erase") /\ current' = None
     ELSE Goes("idle") /\ UNCHANGED current
  /\ UNCHANGED <<record, present, partial, service, command>> /\ Keeps

\* One recorded release after the other, and the record when none is left.
Erase ==
  /\ pc = "erase"
  /\ \/ /\ Goes("erase") /\ UNCHANGED record
        /\ \E v \in record.releases : record.releases \cap partial \subseteq {v} /\ Removes(v)
     \/ /\ record.releases \cap (present \cup partial) = {}
        /\ Goes("idle") /\ UNCHANGED <<present, partial>>
        /\ record' = [version |-> None, previous |-> None, releases |-> {}]
     \/ pc' = "idle" /\ Counted(1) /\ UNCHANGED <<record, present, partial>>
  /\ UNCHANGED <<current, service, command>> /\ Keeps

-----------------------------------------------------------------------------
Kill ==
  /\ pc # "idle"
  /\ pc' = "idle" /\ Counted(1)
  /\ abandoned' = TRUE
  /\ UNCHANGED <<disk, service, command, commands, overtaken>>

Command ==
  \/ Prepare \/ Install \/ Compare \/ Stop \/ Lock \/ Recheck \/ Probe \/ Activate \/ Write
  \/ Start \/ Poll \/ Failed \/ UndoStop \/ UndoLock \/ UndoActivate \/ UndoWrite \/ UndoStart
  \/ Cleanup \/ Dismantle \/ Erase

Next ==
  \/ Command \/ Kill \/ Uninstall
  \/ \E v \in Versions : Begin(v)
  \/ \E byHand \in BOOLEAN : GatewayStart(byHand)
  \/ GatewayExit \/ Work \/ Open \/ Overwrite

Spec == Init /\ [][Next]_vars

\* The command runs on, and systemd starts what is to run.
LiveSpec == Spec /\ WF_vars(Command) /\ WF_vars(GatewayStart(FALSE))

-----------------------------------------------------------------------------
\* The link and the running gateway are whole programs, and so is the version to go back to
\* while anything is installed, whichever steps fail and wherever a command is killed: what
\* a failed upgrade or an uninstallation removes is in no use.
ProgramsAreWhole ==
  /\ {current, gateway} \subseteq present \cup {None}
  /\ current # None => record.previous \in present \cup {None}

\* docs/en/installation.md: upgrades require "no queued/submitting/unknown operations" and
\* stop "the sole gateway": no program is replaced under a running gateway, nor activated
\* over work that arrived after the first look.
SwitchAtSafePoint ==
  [][current' \notin {current, None} => gateway = None /\ (pc = "activate" => ~work)]_vars

\* "Rollback is limited to compatible programs": the installed program can open the database,
\* unless the schema was changed after a program was compared with it and before the switch,
\* or by a command of another program that holds no lock, and no gateway has opened it since.
CanRead == current # None /\ ~overtaken => Accepts(current, schema)

\* The same without exception, which the code does not give.
RollbackCanRead == current # None => Accepts(current, schema)

\* A service that the command knows it stopped for a switch runs again, with the new or the old program,
\* if one thing failed at most and the last start is not refused (nobody looks at its answer),
\* nor the program of the way back overtaken, nor one that never opened the database.
ServiceReturns ==
  pc # "idle" /\ stopped ~>
    gateway # None \/ pc = "dismantle" \/ abandoned \/ overtaken \/ surprises > 1 \/ schema < Lowest[origin]

=============================================================================
