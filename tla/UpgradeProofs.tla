---------------------------- MODULE UpgradeProofs ----------------------------
(***************************************************************************)
(* The safety of module Upgrade: whatever fails and wherever a command is  *)
(* killed, what is in use is a whole program, programs are replaced at a   *)
(* safe point only, and the installed one can open the database unless it  *)
(* was overtaken.  The inductive invariant says what the command may still *)
(* count on: that its programs are there, that its new one is in no use    *)
(* until it is recorded, and that the schema is the one it compared, or    *)
(* that the history tells who changed it since.                            *)
(***************************************************************************)
EXTENDS Upgrade, TLAPS

AfterInstall == Pcs \ {"idle", "prepare", "install", "dismantle", "erase"}
Acting == AfterInstall \ {"cleanup"}
Undoing == {"undoStop", "undoLock", "undoActivate", "undoWrite"}

\* The types, in parts.
Flags ==
  /\ work \in BOOLEAN /\ wanted \in BOOLEAN /\ upgrading \in BOOLEAN /\ wasActive \in BOOLEAN
  /\ stopped \in BOOLEAN /\ switched \in BOOLEAN /\ abandoned \in BOOLEAN /\ overtaken \in BOOLEAN
  /\ foreground \in BOOLEAN /\ (foreground => gateway # None)

Counts == schema \in Nat /\ commands \in 0 .. MaxCommands /\ surprises \in 0 .. MaxSurprises

Programs ==
  /\ {current, gateway, opening} \subseteq Versions \cup {None}
  /\ record \in Records /\ memory \in Records
  /\ present \subseteq Versions /\ partial \subseteq Versions \ present
  /\ pc \in Pcs
  /\ pc \in LockedPcs => gateway = None
  /\ selected \in Versions /\ origin \in Versions \cup {None}

\* The programs of the command are whole; what is erased is not in use.
Whole ==
  /\ pc = "install" => selected \in partial
  /\ pc \in Acting => selected \in present
  /\ pc \in Acting \cup {"prepare", "install"} => origin \in present
  /\ pc \in AfterInstall \cup {"prepare", "install"} => current # None
  /\ pc = "erase" => current = None

\* What the cleanup of a failed upgrade removes is in no use.
Unused ==
  /\ pc \in AfterInstall \ {"write"} /\ upgrading /\ selected \notin memory.releases =>
       selected \notin {current, gateway, record.previous}
  /\ pc \in AfterInstall \ {"write"} /\ switched => selected \in memory.releases
  /\ pc \in {"prepare", "install"} => ~switched
  /\ pc \in Undoing => switched

\* From the comparison to the switch the schema stays the same or the history tells, and
\* there is no work under the lock.
Compared ==
  /\ pc \in {"probe", "activate"} => ~work
  /\ pc = "activate" => overtaken \/ Accepts(selected, schema)
  /\ pc \in {"undoStop", "undoLock", "undoActivate"} => overtaken \/ Accepts(origin, schema)
  /\ CanRead

\* The inductive invariant.
UpgradeInv ==
  /\ Flags
  /\ Counts
  /\ Programs
  /\ ProgramsAreWhole
  /\ Whole
  /\ Unused
  /\ Compared

LEMMA UpgradeInvInit == Init => UpgradeInv
<1> SUFFICES ASSUME Init PROVE UpgradeInv
  OBVIOUS
<1> USE UpgradeAssumption DEF Init
<1>1. FirstRecord \in Records /\ FirstRecord.previous = None
  BY DEF FirstRecord, Records
<1>2. Flags
  BY DEF Flags
<1>3. Counts
  BY DEF Counts
<1>4. Programs
  BY <1>1 DEF Programs, Pcs, LockedPcs
<1>5. ProgramsAreWhole /\ Whole /\ Unused /\ Compared
  BY <1>1 DEF ProgramsAreWhole, Whole, Unused, Compared, CanRead, AfterInstall, Acting, Undoing
<1> QED BY <1>2, <1>3, <1>4, <1>5 DEF UpgradeInv

\* A release can open the database it has migrated, and whatever it opens without migrating it.
LEMMA OpensOwnSchema ==
  ASSUME NEW v \in Versions, schema \in Nat
  PROVE  /\ Highest[v] \in Nat /\ Accepts(v, Highest[v])
         /\ Compatible(v, FALSE) => Accepts(v, schema)
BY UpgradeAssumption DEF Accepts, Compatible

\* A surprise at most.
LEMMA Counting ==
  ASSUME Counts, schema' \in Nat, NEW n \in {0, 1}, Counted(n), commands' = commands
  PROVE  Counts'
BY UpgradeAssumption DEF Counts, Counted

\* The command goes on, the service may be started or stopped, and no program is touched.
LEMMA MoveStep ==
  ASSUME UpgradeInv, Counts', pc' \in Pcs,
         UNCHANGED <<disk, schema, work, foreground, opening, upgrading, selected, origin, wasActive, switched, memory,
                     overtaken>>,
         foreground => gateway' = gateway,
         wanted' \in BOOLEAN, stopped' \in BOOLEAN, abandoned' \in BOOLEAN, gateway' \in {gateway, None},
         pc' \in LockedPcs => gateway' = None,
         pc' \notin {"prepare", "install", "erase"},
         pc' \in AfterInstall => pc \in AfterInstall \ {"write"},
         pc' \in Acting => pc \in Acting,
         pc' \in {"probe", "activate"} => ~work,
         pc' = "activate" => overtaken \/ Accepts(selected, schema),
         pc' \in {"undoStop", "undoLock", "undoActivate"} => overtaken \/ Accepts(origin, schema),
         pc' \in Undoing => switched
  PROVE  UpgradeInv'
<1> USE DEF UpgradeInv, disk
<1>1. Flags'
  BY DEF Flags
<1>2. Programs' /\ ProgramsAreWhole'
  BY DEF Programs, ProgramsAreWhole
<1>3. Whole'
  BY DEF Whole
<1>4. Unused'
  <2>1. selected # None
    BY UpgradeAssumption DEF Programs
  <2> QED BY <2>1 DEF Unused
<1>5. Compared'
  BY DEF Compared, CanRead, Accepts
<1> QED BY <1>1, <1>2, <1>3, <1>4, <1>5

\* The gateway runs what is installed, and not while a command holds the lock.
LEMMA GatewayStep ==
  ASSUME UpgradeInv, (\E byHand \in BOOLEAN : GatewayStart(byHand)) \/ GatewayExit \/ Work PROVE UpgradeInv'
<1> USE DEF UpgradeInv, disk, command, history, Keeps
<1>1. ASSUME NEW byHand \in BOOLEAN, GatewayStart(byHand) PROVE UpgradeInv'
  <2>1. /\ current \in Versions /\ pc \notin LockedPcs /\ current \in present
        /\ gateway' = current /\ foreground' \in BOOLEAN /\ current # None
        /\ UNCHANGED <<disk, work, wanted, opening, pc, command, commands, abandoned>> /\ schema' = Highest[current]
    BY <1>1, UpgradeAssumption DEF GatewayStart, Programs
  <2>2. schema' \in Nat /\ Accepts(current, schema')
    BY <2>1, OpensOwnSchema DEF Counts
  <2>3. Counts'
    BY <1>1, <2>1, <2>2, Counting DEF GatewayStart
  <2>4. overtaken' \in BOOLEAN /\ (pc \in Chosen => (overtaken => overtaken') /\ (schema' # schema => overtaken'))
    BY <1>1 DEF GatewayStart, Flags
  <2>5. Flags'
    BY <2>1, <2>4 DEF Flags
  <2>6. Programs' /\ ProgramsAreWhole' /\ Whole'
    BY <2>1 DEF Programs, ProgramsAreWhole, Whole
  <2>7. Unused'
    BY <2>1 DEF Unused
  <2>8. Compared'
    BY <2>1, <2>2, <2>4 DEF Compared, CanRead, LockedPcs, Chosen
  <2> QED BY <2>3, <2>5, <2>6, <2>7, <2>8
<1>2. CASE GatewayExit
  <2>1. /\ gateway' = None /\ foreground' = FALSE
        /\ UNCHANGED <<disk, schema, work, wanted, opening, pc, command, commands, abandoned, overtaken>>
    BY <1>2 DEF GatewayExit
  <2>2. Counts'
    BY <1>2, <2>1, Counting DEF GatewayExit, Counts
  <2>3. Flags'
    BY <2>1 DEF Flags
  <2>4. Programs'
    BY <2>1 DEF Programs
  <2>5. ProgramsAreWhole' /\ Whole'
    BY <2>1 DEF ProgramsAreWhole, Whole
  <2>6. Unused' /\ Compared'
    BY <2>1, UpgradeAssumption DEF Unused, Compared, CanRead, Accepts, Programs
  <2> QED BY <2>2, <2>3, <2>4, <2>5, <2>6
<1>3. CASE Work
  <2>1. pc \notin {"probe", "activate"} /\ work' \in BOOLEAN
        /\ UNCHANGED <<disk, schema, wanted, gateway, foreground, opening, pc, command, history>>
    BY <1>3 DEF Work, Programs, LockedPcs, Flags
  <2>2. Flags' /\ Counts' /\ Programs' /\ ProgramsAreWhole' /\ Whole'
    BY <2>1 DEF Flags, Counts, Programs, ProgramsAreWhole, Whole
  <2>3. Unused' /\ Compared'
    BY <2>1 DEF Unused, Compared, CanRead, Accepts
  <2> QED BY <2>2, <2>3
<1> QED BY <1>1, <1>2, <1>3

\* A command without the lock writes the schema its program knows; the history tells when
\* that is not the installed program or a switch is under way.
LEMMA UnlockedStep == ASSUME UpgradeInv, Open \/ Overwrite PROVE UpgradeInv'
<1> USE DEF UpgradeInv, disk, command, Keeps
<1>1. CASE Open
  <2>1. /\ opening' = current
        /\ UNCHANGED <<disk, schema, work, wanted, gateway, foreground, pc, command, commands, abandoned, overtaken>>
    BY <1>1 DEF Open
  <2>2. Counts'
    BY <1>1, <2>1, Counting DEF Open, Counts
  <2>3. Flags' /\ Programs' /\ ProgramsAreWhole' /\ Whole'
    BY <2>1 DEF Flags, Programs, ProgramsAreWhole, Whole
  <2>4. Unused' /\ Compared'
    BY <2>1 DEF Unused, Compared, CanRead, Accepts
  <2> QED BY <2>2, <2>3, <2>4
<1>2. CASE Overwrite
  <2>1. /\ opening \in Versions /\ opening' = None /\ schema' = Highest[opening]
        /\ UNCHANGED <<disk, work, wanted, gateway, foreground, pc, command, commands, surprises, abandoned>>
    BY <1>2 DEF Overwrite, Programs
  <2>2. schema' \in Nat /\ Accepts(opening, schema')
    BY <2>1, OpensOwnSchema DEF Counts
  <2>3. /\ overtaken' \in BOOLEAN /\ (overtaken => overtaken')
        /\ schema' = schema \/ overtaken' \/ (pc \notin Chosen /\ opening = current)
    BY <1>2 DEF Overwrite, Flags
  <2>4. Flags' /\ Counts'
    BY <2>1, <2>2, <2>3 DEF Flags, Counts
  <2>5. Programs' /\ ProgramsAreWhole' /\ Whole' /\ Unused'
    BY <2>1 DEF Programs, ProgramsAreWhole, Whole, Unused
  <2>6. CASE schema' = schema
    BY <2>1, <2>3, <2>4, <2>5, <2>6 DEF Compared, CanRead, Accepts
  <2>7. CASE overtaken'
    BY <2>1, <2>4, <2>5, <2>7 DEF Compared, CanRead
  <2>8. CASE pc \notin Chosen /\ opening = current
    BY <2>1, <2>2, <2>4, <2>5, <2>8 DEF Compared, CanRead, Chosen
  <2> QED BY <2>3, <2>6, <2>7, <2>8
<1> QED BY <1>1, <1>2

\* A command begins with programs that are whole; the new one is made beside them.
LEMMA BeginStep ==
  ASSUME UpgradeInv, (\E v \in Versions : Begin(v)) \/ Prepare \/ Install PROVE UpgradeInv'
<1> USE DEF UpgradeInv, disk, service, command, history, Keeps, Goes
<1>1. ASSUME NEW v \in Versions, Begin(v) PROVE UpgradeInv'
  <2>1. /\ upgrading' \in BOOLEAN /\ (~upgrading' => v = record.previous)
        /\ pc' = IF upgrading' THEN "prepare" ELSE "compare"
    BY <1>1 DEF Begin
  <2>2. /\ selected' = v /\ origin' = current /\ memory' = record
        /\ stopped' = FALSE /\ switched' = FALSE /\ wasActive' \in BOOLEAN
        /\ commands' \in 0 .. MaxCommands /\ current # None
        /\ UNCHANGED <<current, record, present, partial, schema, work, wanted, gateway, foreground, opening,
                       surprises, abandoned, overtaken>>
    BY <1>1, UpgradeAssumption DEF Begin, Ready, Flags, Counts
  <2>3. pc' \in {"prepare", "compare"} /\ pc' \in Pcs \ LockedPcs
    BY <2>1 DEF Pcs, LockedPcs
  <2>4. current \in present /\ (~upgrading' => v \in present)
    BY <2>1, <2>2, UpgradeAssumption DEF ProgramsAreWhole
  <2>5. Flags' /\ Counts'
    BY <2>1, <2>2 DEF Flags, Counts
  <2>6. Programs' /\ ProgramsAreWhole'
    BY <2>2, <2>3 DEF Programs, ProgramsAreWhole
  <2>7. Whole'
    BY <2>1, <2>2, <2>3, <2>4 DEF Whole, AfterInstall, Acting
  <2>8. Unused'
    BY <2>1, <2>2, <2>3 DEF Unused, AfterInstall, Acting, Undoing
  <2>9. Compared'
    BY <2>2, <2>3 DEF Compared, CanRead, Accepts
  <2> QED BY <2>5, <2>6, <2>7, <2>8, <2>9
<1>2. CASE Prepare
  <2>1. /\ pc = "prepare" /\ pc' \in {"idle", "install"} /\ pc' \in Pcs \ LockedPcs
        /\ partial' \subseteq Versions \ present /\ (pc' = "install" => selected \in partial')
        /\ UNCHANGED <<current, record, present, schema, work, wanted, gateway, foreground, opening,
                       command, commands, abandoned, overtaken>>
    BY <1>2 DEF Prepare, Programs, Pcs, LockedPcs
  <2>2. Counts'
    BY <1>2, <2>1, Counting DEF Prepare, Counts
  <2>3. Flags' /\ Programs' /\ ProgramsAreWhole'
    BY <2>1 DEF Flags, Programs, ProgramsAreWhole
  <2>4. Whole' /\ Unused' /\ Compared'
    BY <2>1 DEF Whole, Unused, Compared, CanRead, Accepts, AfterInstall, Acting, Undoing
  <2> QED BY <2>2, <2>3, <2>4
<1>3. CASE Install
  <2>1. /\ pc = "install" /\ pc' \in {"idle", "compare"} /\ pc' \in Pcs \ LockedPcs
        /\ present' \in {present, present \cup {selected}} /\ partial' = partial \ {selected}
        /\ pc' = "compare" => present' = present \cup {selected}
        /\ UNCHANGED <<current, record, schema, work, wanted, gateway, foreground, opening,
                       command, commands, abandoned, overtaken>>
    BY <1>3 DEF Install, Pcs, LockedPcs
  <2>2. Counts'
    BY <1>3, <2>1, Counting DEF Install, Counts
  <2>3. selected \in partial /\ selected \notin present /\ selected \in Versions /\ selected # None
    BY <2>1, UpgradeAssumption DEF Whole, Programs
  <2>4. selected \notin {current, gateway, record.previous}
    BY <2>1, <2>3 DEF ProgramsAreWhole, Whole
  <2>5. Flags' /\ Programs' /\ ProgramsAreWhole'
    BY <2>1, <2>3 DEF Flags, Programs, ProgramsAreWhole
  <2>6. Whole'
    BY <2>1, <2>3 DEF Whole, AfterInstall, Acting
  <2>7. ~switched \/ pc' = "idle"
    BY <2>1 DEF Unused
  <2>8. Unused' /\ Compared'
    BY <2>1, <2>4, <2>7 DEF Unused, Compared, CanRead, Accepts, AfterInstall, Acting, Undoing
  <2> QED BY <2>2, <2>5, <2>6, <2>8
<1> QED BY <1>1, <1>2, <1>3
\* Up to the switch: what is compared under the lock stays so.
LEMMA CompareStep ==
  ASSUME UpgradeInv, Compare \/ Stop \/ Lock \/ Recheck \/ Probe PROVE UpgradeInv'
<1> USE DEF UpgradeInv, disk, service, command, Keeps, Goes, Fails
<1>1. CASE Compare
  <2>1. pc = "compare" /\ pc' \in {"stop", "failed"}
        /\ UNCHANGED <<disk, service, command, commands, abandoned, overtaken>>
    BY <1>1 DEF Compare
  <2>2. Counts'
    BY <1>1, <2>1, Counting DEF Compare, Counts
  <2>3. wanted' \in BOOLEAN /\ stopped' \in BOOLEAN /\ abandoned' \in BOOLEAN
    BY <2>1 DEF Flags
  <2> QED BY <2>1, <2>2, <2>3, MoveStep DEF AfterInstall, Acting, Undoing, Pcs, LockedPcs
<1>2. CASE Stop
  <2>1. /\ pc = "stop" /\ pc' \in {"lock", "failed"} /\ gateway' \in {gateway, None}
        /\ foreground => gateway' = gateway
        /\ UNCHANGED <<disk, schema, work, foreground, opening, upgrading, selected, origin, wasActive, switched,
                       memory, commands, overtaken>>
    BY <1>2 DEF Stop, StopService, StopMisreported
  <2>2. Counts'
    BY <1>2, <2>1, Counting DEF Stop, Counts
  <2>3. wanted' \in BOOLEAN /\ stopped' \in BOOLEAN /\ abandoned' \in BOOLEAN
    BY <1>2 DEF Stop, StopService, StopMisreported, Flags
  <2> QED BY <2>1, <2>2, <2>3, MoveStep DEF AfterInstall, Acting, Undoing, Pcs, LockedPcs
<1>3. CASE Lock
  <2>1. pc = "lock" /\ pc' \in {"recheck", "failed"} /\ (pc' = "recheck" => gateway = None)
        /\ UNCHANGED <<disk, service, command, commands, abandoned, overtaken>>
    BY <1>3 DEF Lock
  <2>2. Counts'
    BY <1>3, <2>1, Counting DEF Lock, Counts
  <2>3. wanted' \in BOOLEAN /\ stopped' \in BOOLEAN /\ abandoned' \in BOOLEAN
    BY <2>1 DEF Flags
  <2> QED BY <2>1, <2>2, <2>3, MoveStep DEF AfterInstall, Acting, Undoing, Pcs, LockedPcs
<1>4. CASE Recheck
  <2>1. pc = "recheck" /\ pc' \in {"probe", "failed"} /\ (pc' = "probe" => ~work)
        /\ UNCHANGED <<disk, service, command, commands, abandoned, overtaken>>
    BY <1>4 DEF Recheck
  <2>2. Counts'
    BY <1>4, <2>1, Counting DEF Recheck, Counts
  <2>3. wanted' \in BOOLEAN /\ stopped' \in BOOLEAN /\ abandoned' \in BOOLEAN /\ gateway = None
    BY <2>1 DEF Flags, Programs, LockedPcs
  <2> QED BY <2>1, <2>2, <2>3, MoveStep DEF AfterInstall, Acting, Undoing, Pcs, LockedPcs
<1>5. CASE Probe
  <2>1. pc = "probe" /\ pc' \in {"activate", "failed"} /\ (pc' = "activate" => Accepts(selected, schema))
        /\ UNCHANGED <<disk, service, command, commands, abandoned, overtaken>>
    BY <1>5 DEF Probe
  <2>2. Counts'
    BY <1>5, <2>1, Counting DEF Probe, Counts
  <2>3. wanted' \in BOOLEAN /\ stopped' \in BOOLEAN /\ abandoned' \in BOOLEAN /\ gateway = None /\ ~work
    BY <2>1 DEF Flags, Programs, LockedPcs, Compared
  <2> QED BY <2>1, <2>2, <2>3, MoveStep DEF AfterInstall, Acting, Undoing, Pcs, LockedPcs
<1> QED BY <1>1, <1>2, <1>3, <1>4, <1>5

\* The switch, its record and the start of the new program.
LEMMA SwitchStep == ASSUME UpgradeInv, Activate \/ Write \/ Start \/ Poll PROVE UpgradeInv'
<1> USE DEF UpgradeInv, disk, service, command, Keeps, Goes, Fails
<1>1. CASE Activate
  <2>1. /\ pc = "activate" /\ pc' \in {"write", "failed"} /\ pc' \in Pcs /\ gateway = None
        /\ UNCHANGED <<record, present, partial, schema, work, wanted, gateway, foreground, opening, upgrading, selected, origin, wasActive,
                       stopped, memory, commands, abandoned, overtaken>>
        /\ IF pc' = "write" THEN current' = selected /\ switched' = TRUE ELSE UNCHANGED <<current, switched>>
    BY <1>1 DEF Activate, Programs, Pcs, LockedPcs
  <2>2. Counts'
    BY <1>1, <2>1, Counting DEF Activate, Counts
  <2>3. Flags'
    BY <2>1 DEF Flags
  <2>4. selected \in present /\ selected \in Versions /\ (overtaken \/ Accepts(selected, schema))
    BY <2>1 DEF Whole, AfterInstall, Acting, Programs, Compared, Pcs, LockedPcs
  <2>5. Programs'
    BY <2>1, <2>4 DEF Programs
  <2>6. current # None /\ current' # None /\ current' \in present
    BY <2>1, <2>4, UpgradeAssumption DEF Whole, ProgramsAreWhole, AfterInstall, Pcs, LockedPcs
  <2>7. ProgramsAreWhole'
    BY <2>1, <2>6 DEF ProgramsAreWhole
  <2>8. Whole'
    BY <2>1, <2>6 DEF Whole, AfterInstall, Acting, Pcs, LockedPcs
  <2>9. Unused'
    BY <2>1 DEF Unused, AfterInstall, Undoing, Pcs, LockedPcs
  <2>10. Compared'
    BY <2>1, <2>4 DEF Compared, CanRead, Accepts
  <2> QED BY <2>2, <2>3, <2>5, <2>7, <2>8, <2>9, <2>10
<1>2. CASE Write
  <2>1. origin \in Versions /\ origin \in present /\ selected \in Versions /\ pc = "write" /\ memory \in Records
    BY <1>2 DEF Write, Whole, Programs, AfterInstall, Acting, Pcs, LockedPcs
  <2>2. memory' \in Records /\ selected \in memory'.releases /\ memory'.previous = origin
    BY <1>2, <2>1 DEF Write, Records
  <2>3. /\ pc' \in {"start", "failed"} /\ pc' \in Pcs \ LockedPcs /\ (record' = record \/ record' = memory')
        /\ UNCHANGED <<current, present, partial, schema, work, wanted, gateway, foreground, opening, upgrading, selected, origin,
                       wasActive, stopped, switched, commands, abandoned, overtaken>>
    BY <1>2 DEF Write, Pcs, LockedPcs
  <2>4. Counts'
    BY <1>2, <2>3, Counting DEF Write, Counts
  <2>5. Flags' /\ Programs'
    BY <2>2, <2>3 DEF Flags, Programs
  <2>6. ProgramsAreWhole' /\ Whole'
    BY <2>1, <2>2, <2>3 DEF ProgramsAreWhole, Whole, AfterInstall, Acting, Pcs, LockedPcs
  <2>7. Unused' /\ Compared'
    BY <2>1, <2>2, <2>3 DEF Unused, Compared, CanRead, Accepts, Undoing
  <2> QED BY <2>4, <2>5, <2>6, <2>7
<1>3. CASE Start \/ Poll
  <2>1. /\ pc \in {"start", "poll"} /\ pc' \in {"poll", "cleanup", "failed"}
        /\ UNCHANGED <<disk, schema, work, gateway, foreground, opening, command, commands, abandoned, overtaken>>
    BY <1>3 DEF Start, Poll
  <2>2. Counts'
    BY <1>3, <2>1, Counting DEF Start, Poll, Counts
  <2>3. wanted' \in BOOLEAN /\ stopped' \in BOOLEAN /\ abandoned' \in BOOLEAN
    BY <1>3, <2>1 DEF Start, Poll, Flags
  <2> QED BY <2>1, <2>2, <2>3, MoveStep DEF AfterInstall, Acting, Undoing, Pcs, LockedPcs
<1> QED BY <1>1, <1>2, <1>3

\* The way back, chosen for a program that can open the database.
LEMMA UndoStep ==
  ASSUME UpgradeInv, Failed \/ UndoStop \/ UndoLock \/ UndoActivate \/ UndoWrite \/ UndoStart
  PROVE  UpgradeInv'
<1> USE DEF UpgradeInv, disk, service, command, Keeps, Goes
<1>1. CASE Failed
  <2>1. /\ pc = "failed" /\ pc' \in {"undoStop", "undoStart", "cleanup"}
        /\ pc' = "undoStop" => switched /\ Compatible(origin, FALSE)
        /\ UNCHANGED <<disk, service, command, commands, abandoned, overtaken>>
    BY <1>1 DEF Failed
  <2>2. Counts'
    BY <1>1, <2>1, Counting DEF Failed, Counts
  <2>3. wanted' \in BOOLEAN /\ stopped' \in BOOLEAN /\ abandoned' \in BOOLEAN
    BY <2>1 DEF Flags
  <2>4. origin \in Versions /\ schema \in Nat
    BY <2>1 DEF Whole, Programs, Counts, AfterInstall, Acting, Pcs, LockedPcs
  <2>5. pc' = "undoStop" => Accepts(origin, schema)
    BY <2>1, <2>4, OpensOwnSchema
  <2> QED BY <2>1, <2>2, <2>3, <2>5, MoveStep DEF AfterInstall, Acting, Undoing, Pcs, LockedPcs
<1>2. CASE UndoStop \/ UndoLock
  <2>1. /\ pc \in {"undoStop", "undoLock"} /\ pc' \in {"undoLock", "undoActivate", "cleanup"}
        /\ pc' = "undoActivate" => gateway' = None
        /\ gateway' \in {gateway, None} /\ (foreground => gateway' = gateway)
        /\ UNCHANGED <<disk, schema, work, foreground, opening, command, commands, overtaken>>
    BY <1>2 DEF UndoStop, UndoLock, StopService, StopMisreported
  <2>2. Counts'
    BY <1>2, <2>1, Counting DEF UndoStop, UndoLock, Counts
  <2>3. wanted' \in BOOLEAN /\ stopped' \in BOOLEAN /\ abandoned' \in BOOLEAN
    BY <1>2, <2>1 DEF UndoStop, UndoLock, StopService, StopMisreported, Flags
  <2>4. switched /\ (overtaken \/ Accepts(origin, schema))
    BY <2>1 DEF Unused, Undoing, Compared
  <2> QED BY <2>1, <2>2, <2>3, <2>4, MoveStep DEF AfterInstall, Acting, Undoing, Pcs, LockedPcs
<1>3. CASE UndoActivate
  <2>1. /\ pc = "undoActivate" /\ pc' \in {"undoWrite", "cleanup"} /\ pc' \in Pcs /\ gateway = None
        /\ current' \in {current, origin}
        /\ UNCHANGED <<record, present, partial, service, command, commands, abandoned, overtaken>>
    BY <1>3 DEF UndoActivate, Programs, Pcs, LockedPcs
  <2>2. Counts'
    BY <1>3, <2>1, Counting DEF UndoActivate, Counts
  <2>3. origin \in present /\ switched /\ selected \in memory.releases
    BY <2>1 DEF Whole, Unused, AfterInstall, Acting, Undoing, Pcs, LockedPcs
  <2>4. Flags' /\ Programs'
    BY <2>1, <2>3 DEF Flags, Programs
  <2>5. current # None /\ current' # None /\ current' \in present
    BY <2>1, <2>3, UpgradeAssumption DEF Whole, ProgramsAreWhole, Programs, AfterInstall, Pcs, LockedPcs
  <2>6. ProgramsAreWhole'
    BY <2>1, <2>5 DEF ProgramsAreWhole
  <2>7. Whole'
    BY <2>1, <2>5 DEF Whole, AfterInstall, Acting, Pcs, LockedPcs
  <2>8. Unused'
    BY <2>1, <2>3 DEF Unused, AfterInstall, Undoing, Pcs, LockedPcs
  <2>9. Compared'
    BY <2>1 DEF Compared, CanRead, Accepts
  <2> QED BY <2>2, <2>4, <2>6, <2>7, <2>8, <2>9
<1>4. CASE UndoWrite
  <2>1. pc = "undoWrite" /\ selected \in present /\ selected \in memory.releases /\ memory \in Records /\ switched
    BY <1>4 DEF UndoWrite, Whole, Unused, Programs, AfterInstall, Acting, Undoing, Pcs, LockedPcs
  <2>2. memory' \in Records /\ selected \in memory'.releases /\ memory'.previous = selected
    BY <1>4, <2>1 DEF UndoWrite, Records, Programs
  <2>3. /\ pc' \in {"undoStart", "cleanup"} /\ pc' \in Pcs \ LockedPcs /\ (record' = record \/ record' = memory')
        /\ UNCHANGED <<current, present, partial, schema, work, wanted, gateway, foreground, opening, upgrading, selected, origin,
                       wasActive, stopped, switched, commands, abandoned, overtaken>>
    BY <1>4 DEF UndoWrite, Pcs, LockedPcs
  <2>4. Counts'
    BY <1>4, <2>3, Counting DEF UndoWrite, Counts
  <2>5. Flags' /\ Programs'
    BY <2>2, <2>3 DEF Flags, Programs
  <2>6. ProgramsAreWhole' /\ Whole'
    BY <2>1, <2>2, <2>3 DEF ProgramsAreWhole, Whole, AfterInstall, Acting, Pcs, LockedPcs
  <2>7. Unused' /\ Compared'
    BY <2>1, <2>2, <2>3 DEF Unused, Compared, CanRead, Accepts, Undoing
  <2> QED BY <2>4, <2>5, <2>6, <2>7
<1>5. CASE UndoStart
  <2>1. /\ pc = "undoStart" /\ pc' = "cleanup"
        /\ UNCHANGED <<disk, schema, work, gateway, foreground, opening, command, commands, overtaken>>
    BY <1>5 DEF UndoStart
  <2>2. Counts'
    BY <1>5, <2>1, Counting DEF UndoStart, Counts
  <2>3. wanted' \in BOOLEAN /\ stopped' \in BOOLEAN /\ abandoned' \in BOOLEAN
    BY <1>5 DEF UndoStart, Flags
  <2> QED BY <2>1, <2>2, <2>3, MoveStep DEF AfterInstall, Acting, Undoing, Pcs, LockedPcs
<1> QED BY <1>1, <1>2, <1>3, <1>4, <1>5

\* The end of a command, however it comes; what is removed is in no use.
LEMMA EndStep ==
  ASSUME UpgradeInv, Cleanup \/ Uninstall \/ Dismantle \/ Erase \/ Kill PROVE UpgradeInv'
<1> USE DEF UpgradeInv, disk, service, command, Keeps, Goes
<1>1. CASE Cleanup
  <2>1. /\ pc = "cleanup" /\ pc' \in {"cleanup", "idle"} /\ pc' \in Pcs \ LockedPcs
        /\ \/ UNCHANGED <<present, partial>>
           \/ upgrading /\ selected \notin memory.releases /\ Removes(selected)
        /\ UNCHANGED <<current, record, service, command, commands, abandoned, overtaken>>
    BY <1>1 DEF Cleanup, CleanupOf, Pcs, LockedPcs
  <2>2. Counts'
    BY <1>1, <2>1, Counting DEF Cleanup, CleanupOf, Counts
  <2>3. present' \subseteq present /\ present' \subseteq Versions /\ partial' \subseteq Versions \ present'
        /\ present \ present' \subseteq IF upgrading /\ selected \notin memory.releases THEN {selected} ELSE {}
    BY <2>1 DEF Removes, Programs
  <2>4. Flags' /\ Programs'
    BY <2>1, <2>3 DEF Flags, Programs
  <2>5. ProgramsAreWhole'
    <3>1. upgrading /\ selected \notin memory.releases => selected \notin {current, gateway, record.previous}
      BY <2>1 DEF Unused, AfterInstall, Acting, Pcs, LockedPcs
    <3> QED BY <2>1, <2>3, <3>1 DEF ProgramsAreWhole
  <2>6. Whole' /\ Unused' /\ Compared'
    BY <2>1 DEF Whole, Unused, Compared, CanRead, Accepts, AfterInstall, Acting, Undoing, Pcs, LockedPcs
  <2> QED BY <2>2, <2>4, <2>5, <2>6
<1>2. CASE Uninstall
  <2>1. /\ pc = "idle" /\ pc' \in {"dismantle", "idle"} /\ pc' \in Pcs \ LockedPcs
        /\ gateway' \in {gateway, None} /\ (foreground => gateway' = gateway)
        /\ UNCHANGED <<disk, schema, work, foreground, opening, upgrading, selected, origin, wasActive, switched,
                       memory, overtaken>>
    BY <1>2 DEF Uninstall, Ready, StopService, StopMisreported, Pcs, LockedPcs
  <2>2. Counts'
    BY <1>2, <2>1, UpgradeAssumption DEF Uninstall, Ready, Counts, Counted
  <2>3. wanted' \in BOOLEAN /\ stopped' \in BOOLEAN /\ abandoned' \in BOOLEAN
    BY <1>2 DEF Uninstall, StopService, StopMisreported, Flags
  <2> QED BY <2>1, <2>2, <2>3, MoveStep DEF AfterInstall, Acting, Undoing, Pcs, LockedPcs
<1>3. CASE Dismantle
  <2>1. /\ pc = "dismantle" /\ pc' \in {"erase", "idle"} /\ pc' \in Pcs
        /\ IF pc' = "erase" THEN gateway = None /\ current' = None ELSE pc' \notin LockedPcs /\ current' = current
        /\ UNCHANGED <<record, present, partial, service, command, commands, abandoned, overtaken>>
    BY <1>3 DEF Dismantle, Pcs, LockedPcs
  <2>2. Counts'
    BY <1>3, <2>1, Counting DEF Dismantle, Counts
  <2>3. Flags' /\ Programs' /\ ProgramsAreWhole'
    BY <2>1 DEF Flags, Programs, ProgramsAreWhole
  <2>4. Whole' /\ Unused' /\ Compared'
    BY <2>1 DEF Whole, Unused, Compared, CanRead, Accepts, AfterInstall, Acting, Undoing
  <2> QED BY <2>2, <2>3, <2>4
<1>4. CASE Erase
  <2>1. /\ pc = "erase" /\ pc' \in {"erase", "idle"} /\ pc' \in Pcs /\ gateway = None /\ current = None
        /\ UNCHANGED <<current, service, command, commands, abandoned, overtaken>>
    BY <1>4 DEF Erase, Programs, Whole, Pcs, LockedPcs
  <2>2. Counts'
    BY <1>4, <2>1, Counting DEF Erase, Counts
  <2>3. present' \subseteq Versions /\ partial' \subseteq Versions \ present'
    <3>1. record \in Records
      BY DEF Programs
    <3>2. UNCHANGED <<present, partial>> \/ \E v \in record.releases : Removes(v)
      BY <1>4 DEF Erase
    <3> QED BY <3>1, <3>2 DEF Programs, Records, Removes
  <2>4. record' \in Records
    BY <1>4 DEF Erase, Records, Programs
  <2>5. Flags' /\ Programs' /\ ProgramsAreWhole'
    BY <2>1, <2>3, <2>4 DEF Flags, Programs, ProgramsAreWhole
  <2>6. Whole' /\ Unused' /\ Compared'
    BY <2>1 DEF Whole, Unused, Compared, CanRead, Accepts, AfterInstall, Acting, Undoing
  <2> QED BY <2>2, <2>5, <2>6
<1>5. CASE Kill
  <2>1. pc' = "idle" /\ UNCHANGED <<disk, service, command, commands, overtaken>> /\ abandoned' = TRUE
    BY <1>5 DEF Kill
  <2>2. Counts'
    BY <1>5, <2>1, Counting DEF Kill, Counts
  <2>3. wanted' \in BOOLEAN /\ stopped' \in BOOLEAN /\ abandoned' \in BOOLEAN
    BY <2>1 DEF Flags
  <2> QED BY <2>1, <2>2, <2>3, MoveStep DEF AfterInstall, Acting, Undoing, Pcs, LockedPcs
<1> QED BY <1>1, <1>2, <1>3, <1>4, <1>5

LEMMA UpgradeInvStep == UpgradeInv /\ [Next]_vars => UpgradeInv'
<1> SUFFICES ASSUME UpgradeInv, [Next]_vars PROVE UpgradeInv'
  OBVIOUS
<1>1. CASE UNCHANGED vars
  <2>1. UNCHANGED <<current, record, present, partial, schema, work, wanted, gateway, foreground, opening, pc, upgrading,
                    selected, origin, wasActive, stopped, switched, memory, commands, surprises, abandoned, overtaken>>
    BY <1>1 DEF vars, disk, service, command, history
  <2> QED BY <2>1 DEF UpgradeInv, Flags, Counts, Programs, ProgramsAreWhole, Whole, Unused, Compared, CanRead, Accepts
<1>2. CASE Command
  BY <1>2, BeginStep, CompareStep, SwitchStep, UndoStep, EndStep DEF Command
<1>3. CASE (\E byHand \in BOOLEAN : GatewayStart(byHand)) \/ GatewayExit \/ Work \/ Open \/ Overwrite
  BY <1>3, GatewayStep, UnlockedStep
<1>4. CASE Kill \/ Uninstall \/ \E v \in Versions : Begin(v)
  BY <1>4, BeginStep, EndStep
<1> QED BY <1>1, <1>2, <1>3, <1>4 DEF Next

\* The inductive invariant holds in every reachable state.
THEOREM UpgradeCorrect == Spec => []UpgradeInv
BY UpgradeInvInit, UpgradeInvStep, PTL DEF Spec

\* Every variable has its type, and no gateway runs while a command holds the lock.
THEOREM UpgradeTyped == Spec => []UpgradeTypeOK
<1>1. UpgradeInv => UpgradeTypeOK
  BY DEF UpgradeInv, Flags, Counts, Programs, UpgradeTypeOK
<1> QED BY <1>1, UpgradeCorrect, PTL

\* Whichever steps fail and wherever a command is killed, also between the releases that an
\* uninstallation removes, what is in use is a whole program.
THEOREM WholePrograms == Spec => []ProgramsAreWhole
<1>1. UpgradeInv => ProgramsAreWhole
  BY DEF UpgradeInv
<1> QED BY <1>1, UpgradeCorrect, PTL

\* The installed program can open the database, unless it was overtaken: the schema was
\* changed behind the comparison or by another program's command, and nothing opened it since.
THEOREM InstalledCanRead == Spec => []CanRead
<1>1. UpgradeInv => CanRead
  BY DEF UpgradeInv, Compared
<1> QED BY <1>1, UpgradeCorrect, PTL

\* No program is replaced under a gateway, nor activated over work.
THEOREM SwitchesAreSafe == Spec => SwitchAtSafePoint
<1>1. ASSUME UpgradeInv, [Next]_vars, current' \notin {current, None}
      PROVE  gateway = None /\ (pc = "activate" => ~work)
  <2>1. pc \in {"activate", "undoActivate"}
    <3>1. Activate \/ UndoActivate
      BY <1>1 DEF Next, Command, vars, disk, service, command, history, Begin, Prepare, Install, Compare, Stop, Lock,
                  Recheck, Probe, Write, Start, Poll, Failed, UndoStop, UndoLock, UndoWrite, UndoStart, Cleanup,
                  CleanupOf, Uninstall, Dismantle, Erase, Kill, GatewayStart, GatewayExit, Work, Open, Overwrite
    <3> QED BY <3>1 DEF Activate, UndoActivate
  <2> QED BY <1>1, <2>1 DEF UpgradeInv, Programs, Compared, LockedPcs
<1>2. UpgradeInv /\ [Next]_vars =>
        [current' \notin {current, None} => gateway = None /\ (pc = "activate" => ~work)]_vars
  BY <1>1
<1> QED BY <1>2, UpgradeCorrect, PTL DEF Spec, SwitchAtSafePoint

=============================================================================
