---------------------------- MODULE RoomsProofs ----------------------------
(***************************************************************************)
(* The safety of module Rooms: a session whose group is known is never     *)
(* given another, and the first task is queued once, for a group that Lark *)
(* reported as safe.  The inductive invariant says what the stale rows of  *)
(* tick's loops still tell of the groups that are left to handle: inbound  *)
(* verifications touch the status of known groups only.                    *)
(***************************************************************************)
EXTENDS Rooms, TLAPS

KnownStatuses == {"CONFIGURING", "READY", "BLOCKED"}
FirstLoop == {"rooms", "reconcile", "create", "answer", "configure", "verify"}
SecondLoop == {"firsts", "verifyFirst", "accept", "forget"}

\* The values of the variables the invariant speaks of.
Domains ==
  /\ status \in [Groups -> Statuses]
  /\ row \in [Groups -> Statuses]
  /\ check \in [Coroutines -> Checks \cup {NoCheck}]
  /\ released \in [Groups -> Nat]
  /\ {chat, firstTask, accepted, todo, current, passed} \subseteq SUBSET Groups

\* A group is in use only after Lark reported it as safe; whoever verifies one knows its chat.
Proven ==
  /\ \A g \in Groups : status[g] = "READY" => g \in passed
  /\ \A who \in Coroutines : check[who] # NoCheck =>
       check[who].of \in chat /\ (check[who].result = "passed" => check[who].of \in passed)

\* What the row of a group that is left to handle says of its present status.
RowsTrue ==
  /\ todo \cap current = {}
  /\ pc \in FirstLoop => \A g \in todo :
       IF row[g] \in KnownStatuses THEN g \in chat ELSE row[g] # "NONE" /\ status[g] = row[g]
  /\ pc \in SecondLoop => \A g \in todo : row[g] = "READY" => g \in chat

\* The group the worker is at.
Handled ==
  \A g \in current :
    /\ \A h \in current : h = g
    /\ pc = "reconcile" => status[g] \in {"CREATING", "UNKNOWN"}
    /\ pc \in {"create", "answer"} => status[g] = "CREATING"
    /\ pc \in {"configure", "verify"} => g \in chat
    /\ pc = "verifyFirst" => g \in chat \cap firstTask /\ check["worker"].of = g
    /\ pc = "accept" => g \in firstTask \cap passed /\ status[g] = "READY"
    /\ pc = "forget" => g \in accepted /\ status[g] = "READY"

\* The inbox tells whether the first task was queued.
Released ==
  /\ \A g \in Groups : released[g] = IF g \in accepted THEN 1 ELSE 0
  /\ accepted \subseteq passed
  /\ \A g \in WithTask : status[g] # "NONE" => g \in firstTask \cup accepted

\* The inductive invariant.
RoomsInv ==
  /\ Domains
  /\ KnownGroupIsKept
  /\ Proven
  /\ RowsTrue
  /\ Handled
  /\ Released

LEMMA RoomsInvInit == Init => RoomsInv
BY RoomsAssumption
DEF Init, RoomsInv, Domains, KnownGroupIsKept, Proven, RowsTrue, Handled, Released, Statuses, Coroutines,
    FirstLoop, SecondLoop, KnownStatuses

\* Time, people, Lark, and the sessions' states.
LEMMA EnvironmentStep ==
  ASSUME RoomsInv,
         \/ \E g \in Groups : \/ RetryTime(g) \/ VerificationAges(g) \/ Intrude(g) \/ Restore(g)
                              \/ SessionActive(g) \/ SessionArchived(g)
  PROVE  RoomsInv'
BY DEF RetryTime, VerificationAges, Intrude, Restore, SessionActive, SessionArchived, tableVars, workerVars, larkVars,
       RoomsInv, Domains, KnownGroupIsKept, Proven, RowsTrue, Handled, Released

\* A verification is asked for, and answered.
LEMMA AskStep ==
  ASSUME RoomsInv,
         \/ \E who \in Coroutines : LarkVerifies(who)
         \/ \E who \in Inbound, g \in Groups : InboundEvent(who, g)
  PROVE  RoomsInv'
<1> USE RoomsAssumption DEF RoomsInv
<1> DEFINE OnlyChecks ==
       /\ UNCHANGED <<tableVars, workerVars, released>>
       /\ passed \subseteq passed'
       /\ passed' \in SUBSET Groups
       /\ check' \in [Coroutines -> Checks \cup {NoCheck}]
       /\ check'["worker"] # NoCheck => check["worker"] # NoCheck /\ check'["worker"].of = check["worker"].of
       /\ check["worker"] # NoCheck => check'["worker"] # NoCheck
       /\ \A who \in Coroutines : check'[who] # NoCheck =>
            check'[who].of \in chat /\ (check'[who].result = "passed" => check'[who].of \in passed')
<1>1. OnlyChecks
  <2>1. ASSUME NEW who \in Coroutines, LarkVerifies(who) PROVE OnlyChecks
    <3> DEFINE g == check[who].of
    <3>1. PICK r \in {"passed", "failed"} : check' = [check EXCEPT ![who].result = r] /\ (r = "passed" => passed' = passed \cup {g})
      BY <2>1 DEF LarkVerifies
    <3>2. check[who] \in Checks /\ g \in chat /\ g \in Groups
      BY <2>1 DEF LarkVerifies, Domains, Proven, Checks
    <3>3. check'[who] = [of |-> g, result |-> r] /\ \A w \in Coroutines : w # who => check'[w] = check[w]
      BY <3>1, <3>2 DEF Domains, Checks
    <3>4. passed \subseteq passed' /\ passed' \in SUBSET Groups
      BY <2>1, <3>2 DEF LarkVerifies, Domains
    <3>5. check' \in [Coroutines -> Checks \cup {NoCheck}]
      BY <3>1, <3>2, <3>3 DEF Domains, Checks
    <3> HIDE DEF g
    <3>6. UNCHANGED <<tableVars, workerVars, released>>
      BY <2>1 DEF LarkVerifies
    <3> QED BY <3>1, <3>2, <3>3, <3>4, <3>5, <3>6 DEF Proven, g, Coroutines, Checks
  <2>2. ASSUME NEW who \in Inbound, NEW g \in Groups, InboundEvent(who, g) PROVE OnlyChecks
    BY <2>2 DEF InboundEvent, Ask, larkVars, Domains, Proven, Coroutines, Checks
  <2> QED BY <2>1, <2>2
<1>2. Domains' /\ KnownGroupIsKept' /\ Proven' /\ RowsTrue' /\ Released'
  BY <1>1 DEF Domains, KnownGroupIsKept, Proven, RowsTrue, Released, tableVars, workerVars
<1>3. Handled'
  BY <1>1 DEF Handled, tableVars, workerVars
<1> QED BY <1>2, <1>3

\* A verification ends, in the worker or elsewhere: the status of a known group.
LEMMA ConcludeKeeps ==
  ASSUME RoomsInv, NEW who \in Coroutines, Conclude(who),
         UNCHANGED <<chat, firstTask, accepted, row, todo, passed, released>>
  PROVE  /\ status' \in [Groups -> Statuses]
         /\ check' \in [Coroutines -> Checks \cup {NoCheck}]
         /\ \A w \in Coroutines : w # who => check'[w] = check[w]
         /\ KnownGroupIsKept' /\ Proven' /\ Released'
         /\ \A g \in Groups : status'[g] # status[g] => g \in chat
<1> DEFINE g == check[who].of
<1>1. g \in Groups /\ g \in chat /\ (check[who].result = "passed" => g \in passed)
  BY DEF RoomsInv, Domains, Proven, Conclude, Checks
<1>2. /\ check' = [check EXCEPT ![who] = NoCheck]
      /\ \/ check[who].result = "passed" /\ status' = [status EXCEPT ![g] = "READY"]
         \/ status' = [status EXCEPT ![g] = "BLOCKED"]
  BY DEF Conclude, Store
<1> HIDE DEF g
<1>3. /\ status' \in [Groups -> Statuses]
      /\ check' \in [Coroutines -> Checks \cup {NoCheck}]
      /\ \A w \in Coroutines : w # who => check'[w] = check[w]
      /\ check'[who] = NoCheck
      /\ \A h \in Groups : h # g => status'[h] = status[h]
      /\ status'[g] \in {"READY", "BLOCKED"} /\ (status'[g] = "READY" => g \in passed)
  BY <1>1, <1>2 DEF RoomsInv, Domains, Statuses
<1>4. KnownGroupIsKept' /\ Released'
  <2>1. \A h \in Groups : status[h] = "NONE" => status'[h] = status[h]
    BY <1>1, <1>3 DEF RoomsInv, KnownGroupIsKept
  <2>2. KnownGroupIsKept'
    BY <1>1, <1>3 DEF RoomsInv, KnownGroupIsKept
  <2>3. Released'
    <3>1. \A h \in WithTask : h \in Groups
      BY RoomsAssumption
    <3>2. accepted' = accepted /\ firstTask' = firstTask /\ passed' = passed /\ released' = released
      OBVIOUS
    <3> QED BY <2>1, <3>1, <3>2 DEF RoomsInv, Released
  <2> QED BY <2>2, <2>3
<1>5. Proven'
  BY <1>1, <1>3 DEF RoomsInv, Domains, Proven
<1> QED BY <1>1, <1>3, <1>4, <1>5

LEMMA ConcludeStep ==
  ASSUME RoomsInv, Verified \/ FirstVerified \/ \E who \in Inbound : InboundConcludes(who)
  PROVE  RoomsInv'
<1> USE RoomsAssumption DEF RoomsInv
<1>1. ASSUME NEW who \in Inbound, InboundConcludes(who) PROVE RoomsInv'
  <2>1. /\ Conclude(who) /\ UNCHANGED <<chat, firstTask, accepted, row, todo, current, pc, passed, released>>
        /\ who \in Coroutines /\ "worker" \in Coroutines /\ who # "worker"
        /\ AtAwait
    BY <1>1 DEF InboundConcludes, workerVars, larkVars, Coroutines
  <2>2. /\ status' \in [Groups -> Statuses]
        /\ check' \in [Coroutines -> Checks \cup {NoCheck}]
        /\ check'["worker"] = check["worker"]
        /\ KnownGroupIsKept' /\ Proven' /\ Released'
        /\ \A g \in Groups : status'[g] # status[g] => g \in chat
    BY <2>1, ConcludeKeeps
  <2>3. Domains' /\ RowsTrue' /\ Handled'
    BY <2>1, <2>2 DEF Domains, RowsTrue, Handled, KnownGroupIsKept, AtAwait, KnownStatuses
  <2> QED BY <2>2, <2>3
<1>2. CASE Verified \/ FirstVerified
  <2>1. /\ Conclude("worker") /\ UNCHANGED <<chat, firstTask, accepted, row, todo, passed, released>>
        /\ "worker" \in Coroutines
        /\ current' \in {current, {}}
        /\ \/ pc \in FirstLoop /\ pc' = "rooms" /\ current' = {}
           \/ /\ pc = "verifyFirst"
              /\ IF check["worker"].result = "passed" THEN pc' = "accept" ELSE pc' = "firsts" /\ current' = {}
    BY <1>2 DEF Verified, FirstVerified, Next1, larkVars, Coroutines, FirstLoop
  <2>2. /\ status' \in [Groups -> Statuses]
        /\ check' \in [Coroutines -> Checks \cup {NoCheck}]
        /\ KnownGroupIsKept' /\ Proven' /\ Released'
        /\ \A g \in Groups : status'[g] # status[g] => g \in chat
    BY <2>1, ConcludeKeeps
  <2>3. Domains' /\ RowsTrue'
    BY <2>1, <2>2 DEF Domains, RowsTrue, KnownGroupIsKept, KnownStatuses, FirstLoop, SecondLoop
  <2>4. ASSUME NEW g \in current, pc' = "accept", current' = current
        PROVE  g \in firstTask \cap passed /\ status'[g] = "READY"
    <3>1. /\ g = check["worker"].of /\ g \in firstTask /\ check["worker"] # NoCheck
          /\ check["worker"].result = "passed"
      BY <2>1, <2>4 DEF Handled, Conclude, FirstLoop
    <3>2. g \in Groups /\ g \in passed
      BY <3>1, <2>1 DEF Proven, Domains
    <3>3. status' = [status EXCEPT ![g] = "READY"]
      BY <2>1, <3>1 DEF Conclude, Store
    <3> QED BY <3>1, <3>2, <3>3 DEF Domains
  <2>5. Handled'
    BY <2>1, <2>4 DEF Handled, Domains
  <2> QED BY <2>2, <2>3, <2>5
<1> QED BY <1>1, <1>2

\* A group is asked for, or asked for again.
LEMMA AddStep ==
  ASSUME RoomsInv, NEW g \in Groups, Add(g) \/ TryAgain(g)
  PROVE  RoomsInv'
<1>1. /\ status' = [status EXCEPT ![g] = "QUEUED"]
      /\ \/ status[g] = "NONE" /\ firstTask' = firstTask \cup ({g} \cap WithTask)
         \/ pc = "idle" /\ status[g] = "ERROR" /\ UNCHANGED firstTask
      /\ UNCHANGED <<chat, accepted, workerVars, check, passed, released>>
  BY DEF Add, TryAgain, Store, larkVars
<1>2. g \notin chat
  BY <1>1 DEF RoomsInv, KnownGroupIsKept
<1> QED BY <1>1, <1>2
  DEF RoomsInv, Domains, Statuses, KnownGroupIsKept, Proven, RowsTrue, Handled, Released, workerVars, FirstLoop,
      SecondLoop, KnownStatuses

\* The loops, and what awaits nothing in them.
LEMMA LoopStep ==
  ASSUME RoomsInv,
         \/ BeginTick \/ BeginFirsts \/ EndTick
         \/ \E g \in Groups : \/ PassOver(g) \/ NoFirst(g) \/ NotYet(g) \/ LookUp(g) \/ GoOnConfiguring(g)
  PROVE  RoomsInv'
<1> USE DEF RoomsInv
<1>1. UNCHANGED <<tableVars, check, passed, released>>
  BY DEF BeginTick, BeginFirsts, EndTick, PassOver, NoFirst, NotYet, LookUp, GoOnConfiguring, larkVars
<1>2. Domains'
  BY <1>1 DEF BeginTick, BeginFirsts, EndTick, PassOver, NoFirst, NotYet, LookUp, GoOnConfiguring, Loop, Take, Rows,
              Domains, tableVars
<1>3. KnownGroupIsKept' /\ Proven' /\ Released'
  BY <1>1 DEF KnownGroupIsKept, Proven, Released, tableVars
<1>4. RowsTrue'
  BY <1>1 DEF BeginTick, BeginFirsts, EndTick, PassOver, NoFirst, NotYet, LookUp, GoOnConfiguring, Loop, Take, Rows,
              RowsTrue, FirstLoop, SecondLoop, KnownStatuses, KnownGroupIsKept, Domains, Due, tableVars
<1>5. Handled'
  BY <1>1 DEF BeginTick, BeginFirsts, EndTick, PassOver, NoFirst, NotYet, LookUp, GoOnConfiguring, Loop, Take,
              RowsTrue, FirstLoop, KnownStatuses, Handled, Due, tableVars
<1> QED BY <1>2, <1>3, <1>4, <1>5

\* The worker asks for a verification itself, or finds the group trusted.
LEMMA WorkerAsksStep ==
  ASSUME RoomsInv, NEW g \in Groups, VerifyBlocked(g) \/ CheckFirst(g) \/ Configure(g)
  PROVE  RoomsInv'
<1> USE RoomsAssumption DEF RoomsInv
<1>1. /\ UNCHANGED <<tableVars, passed, released, row>>
      /\ g \in chat
      /\ \/ check' = check
         \/ check' = [check EXCEPT !["worker"] = [of |-> g, result |-> "asked"]]
  BY DEF VerifyBlocked, CheckFirst, Configure, Ask, Take, Next1, RowsTrue, Handled, HasFirst, Due, FirstLoop, SecondLoop,
         KnownStatuses, larkVars
<1>2. /\ check' \in [Coroutines -> Checks \cup {NoCheck}]
      /\ \A who \in Coroutines : check'[who] = check[who] \/ check'[who] = [of |-> g, result |-> "asked"]
  BY <1>1 DEF Domains, Checks, Coroutines
<1>3. KnownGroupIsKept' /\ Proven' /\ Released'
  BY <1>1, <1>2 DEF KnownGroupIsKept, Proven, Released, tableVars
<1>4. Domains' /\ RowsTrue'
  BY <1>1, <1>2 DEF VerifyBlocked, CheckFirst, Configure, Take, Next1, Domains, RowsTrue, FirstLoop, SecondLoop, Due,
                    tableVars
<1>5. Handled'
  <2>1. CASE VerifyBlocked(g) \/ Configure(g)
    BY <1>1, <2>1 DEF VerifyBlocked, Configure, Take, Next1, Handled, tableVars
  <2>2. CASE CheckFirst(g)
    <3>1. check' # check => check'["worker"].of = g
      BY <1>1 DEF Domains, Coroutines
    <3>2. CASE Trusted(g)
      BY <1>1, <2>2, <3>2 DEF CheckFirst, Take, Handled, HasFirst, Trusted, Proven, tableVars
    <3>3. CASE ~Trusted(g)
      <4>1. check'["worker"].of = g
        BY <2>2, <3>3 DEF CheckFirst, Ask, Domains, Coroutines
      <4> QED BY <1>1, <2>2, <3>3, <4>1 DEF CheckFirst, Take, Handled, HasFirst, tableVars
    <3> QED BY <3>2, <3>3
  <2> QED BY <2>1, <2>2
<1> QED BY <1>3, <1>4, <1>5

\* A creation begins, is sent, is looked up, ends or fails.
LEMMA CreationStep ==
  ASSUME RoomsInv, NEW g \in Groups,
         BeginCreation(g) \/ Reconcile(g) \/ NotSent(g) \/ Post(g) \/ Answer(g) \/ ConfigureFails(g)
  PROVE  RoomsInv'
<1> USE DEF RoomsInv
<1>1. /\ UNCHANGED <<row, firstTask, accepted, check, passed, released>>
      /\ \/ UNCHANGED <<status, chat>> /\ pc' = "answer" /\ pc = "create"
         \/ /\ status' = [status EXCEPT ![g] = "CREATING"]
            /\ UNCHANGED chat
            /\ pc' = "create" /\ row[g] = "QUEUED" /\ pc = "rooms" /\ g \in todo
         \/ /\ status' = [status EXCEPT ![g] = "CONFIGURING"]
            /\ chat' = chat \cup {g}
            /\ pc' = "configure" /\ pc \in {"reconcile", "answer"}
         \/ /\ \E new \in {"QUEUED", "ERROR", "UNKNOWN"} :
                 status[g] \notin KnownStatuses /\ status' = [status EXCEPT ![g] = new]
            /\ UNCHANGED chat
            /\ pc' = "rooms"
         \/ UNCHANGED <<status, chat>> /\ pc' = "rooms"
  <2>1. CASE BeginCreation(g)
    BY <2>1 DEF BeginCreation, Take, Due, larkVars
  <2>2. CASE Post(g)
    BY <2>2 DEF Post, tableVars
  <2>3. ASSUME Known(g), pc \in {"reconcile", "answer"}
        PROVE  /\ status' = [status EXCEPT ![g] = "CONFIGURING"]
               /\ chat' = chat \cup {g}
               /\ pc' = "configure" /\ row' = row
    BY <2>3 DEF Known
  <2>4. ASSUME NEW kind \in {"quota", "refused", "unknown"}, Fails(g, kind)
        PROVE  /\ \/ status' = status
                  \/ \E new \in {"QUEUED", "ERROR", "UNKNOWN"} :
                       status[g] \notin KnownStatuses /\ status' = [status EXCEPT ![g] = new]
               /\ pc' = "rooms" /\ row' = row
    <3>1. pc' = "rooms" /\ row' = row
      BY <2>4 DEF Fails, Next1
    <3>2. CASE status[g] # "CREATING"
      <4>1. status' = [status EXCEPT ![g] = status[g]]
        BY <2>4, <3>2 DEF Fails, Store
      <4>2. status' = status
        BY <4>1 DEF Domains
      <4> QED BY <3>1, <4>2
    <3>3. CASE status[g] = "CREATING"
      <4>1. status' = [status EXCEPT ![g] = AfterCreation[kind]] /\ AfterCreation[kind] \in {"QUEUED", "ERROR", "UNKNOWN"}
        BY <2>4, <3>3 DEF Fails, Store, AfterCreation
      <4> QED BY <3>1, <3>3, <4>1 DEF KnownStatuses
    <3> QED BY <3>2, <3>3
  <2>5. CASE Reconcile(g)
    <3>1. pc = "reconcile" /\ g \in current /\ UNCHANGED <<firstTask, accepted, check, passed, released>>
      BY <2>5 DEF Reconcile, larkVars
    <3>2. \/ Known(g)
          \/ Store(g, "UNKNOWN", TRUE) /\ Next1 /\ UNCHANGED chat
          \/ (\E kind \in {"quota", "refused", "unknown"} : Fails(g, kind)) /\ UNCHANGED chat
      BY <2>5 DEF Reconcile
    <3>3. CASE Store(g, "UNKNOWN", TRUE) /\ Next1 /\ UNCHANGED chat
      BY <3>1, <3>3 DEF Store, Next1, Handled, KnownStatuses
    <3> QED BY <3>1, <3>2, <3>3, <2>3, <2>4
  <2>6. CASE Answer(g)
    <3>1. pc = "answer" /\ UNCHANGED <<firstTask, accepted, check, passed, released>>
      BY <2>6 DEF Answer
    <3>2. \/ Known(g)
          \/ (\E kind \in {"quota", "refused", "unknown"} : Fails(g, kind)) /\ UNCHANGED chat
      BY <2>6 DEF Answer
    <3> QED BY <3>1, <3>2, <2>3, <2>4
  <2>7. CASE NotSent(g) \/ ConfigureFails(g)
    <3>1. UNCHANGED <<firstTask, accepted, check, passed, released, chat>>
      BY <2>7 DEF NotSent, ConfigureFails, larkVars
    <3>2. \E kind \in {"quota", "refused", "unknown"} : Fails(g, kind)
      BY <2>7 DEF NotSent, ConfigureFails
    <3> QED BY <3>1, <3>2, <2>4
  <2> QED BY <2>1, <2>2, <2>5, <2>6, <2>7
<1>2. \/ /\ g \in todo /\ todo' = todo \ {g} /\ current' = {g} /\ pc = "rooms" /\ pc' = "create"
      \/ /\ g \in current /\ todo' = todo /\ pc \in {"reconcile", "create", "answer", "configure"}
         /\ current' = IF pc' = "rooms" THEN {} ELSE current
  BY DEF BeginCreation, Reconcile, NotSent, Post, Answer, ConfigureFails, Fails, Known, Next1, Take, Due
<1>3. g \notin todo' /\ status[g] # "NONE"
  BY <1>1, <1>2 DEF RowsTrue, Handled, FirstLoop, KnownStatuses, KnownGroupIsKept
<1>4. Domains'
  BY <1>1, <1>2 DEF Domains, Statuses
<1>5. KnownGroupIsKept'
  BY <1>1, <1>2 DEF KnownGroupIsKept, Domains, KnownStatuses, RowsTrue, FirstLoop, Handled
<1>6. Proven' /\ Released'
  <2>1. \A h \in Groups : status'[h] = status[h] \/ (h = g /\ status'[h] \notin {"READY", "NONE"})
    BY <1>1 DEF Domains
  <2>2. Proven'
    BY <1>1, <2>1 DEF Proven
  <2>3. Released'
    BY <1>1, <1>3, <2>1, RoomsAssumption DEF Released
  <2> QED BY <2>2, <2>3
<1>7. RowsTrue'
  BY <1>1, <1>2, <1>3 DEF RowsTrue, FirstLoop, SecondLoop, KnownStatuses, Domains
<1>8. Handled'
  BY <1>1, <1>2 DEF Handled, Domains, RowsTrue, FirstLoop, KnownStatuses
<1> QED BY <1>4, <1>5, <1>6, <1>7, <1>8

\* The first task is queued, then forgotten.
LEMMA FirstStep ==
  ASSUME RoomsInv, NEW g \in Groups, AcceptFirst(g) \/ ForgetFirst(g)
  PROVE  RoomsInv'
<1> USE DEF RoomsInv
<1>1. CASE AcceptFirst(g)
  BY <1>1 DEF AcceptFirst, larkVars, Domains, KnownGroupIsKept, Proven, RowsTrue, Handled, Released, SecondLoop, FirstLoop
<1>2. CASE ForgetFirst(g)
  BY <1>2 DEF ForgetFirst, larkVars, Domains, Statuses, KnownGroupIsKept, Proven, RowsTrue, Handled, Released, SecondLoop,
              FirstLoop
<1> QED BY <1>1, <1>2

LEMMA CrashStep == ASSUME RoomsInv, Crash \/ Restart PROVE RoomsInv'
BY DEF Crash, Restart, tableVars, larkVars, RoomsInv, Domains, KnownGroupIsKept, Proven, RowsTrue, Handled, Released,
       FirstLoop, SecondLoop

LEMMA RoomsInvStep == RoomsInv /\ [Next]_vars => RoomsInv'
<1> SUFFICES ASSUME RoomsInv, [Next]_vars PROVE RoomsInv'
  OBVIOUS
<1>1. CASE UNCHANGED vars
  BY <1>1 DEF vars, tableVars, workerVars, larkVars, RoomsInv, Domains, KnownGroupIsKept, Proven, RowsTrue, Handled,
              Released
<1>2. CASE Worker
  BY <1>2, LoopStep, ConcludeStep, WorkerAsksStep, CreationStep, FirstStep DEF Worker
<1>3. CASE Crash \/ Restart
  BY <1>3, CrashStep
<1>4. ASSUME NEW g \in Groups,
             \/ Add(g) \/ TryAgain(g) \/ SessionActive(g) \/ SessionArchived(g)
             \/ RetryTime(g) \/ VerificationAges(g) \/ Intrude(g) \/ Restore(g)
      PROVE  RoomsInv'
  BY <1>4, AddStep, EnvironmentStep
<1>5. ASSUME NEW who \in Inbound, InboundConcludes(who) \/ \E g \in Groups : InboundEvent(who, g)
      PROVE  RoomsInv'
  BY <1>5, ConcludeStep, AskStep
<1>6. ASSUME NEW who \in Coroutines, LarkVerifies(who) PROVE RoomsInv'
  BY <1>6, AskStep
<1> QED BY <1>1, <1>2, <1>3, <1>4, <1>5, <1>6 DEF Next

\* The inductive invariant holds in every reachable state.
THEOREM RoomsCorrect == Spec => []RoomsInv
BY RoomsInvInit, RoomsInvStep, PTL DEF Spec

\* A session whose group is known never gets another one.
THEOREM OneGroupForASession == Spec => []KnownGroupIsKept
<1>1. RoomsInv => KnownGroupIsKept
  BY DEF RoomsInv
<1> QED BY <1>1, RoomsCorrect, PTL

\* The first task is queued once, for a verified group, and never lost.
THEOREM FirstTaskReleasedOnce == Spec => []FirstTaskOnce
<1>1. RoomsInv => FirstTaskOnce
  BY RoomsAssumption DEF RoomsInv, Released, FirstTaskOnce
<1> QED BY <1>1, RoomsCorrect, PTL

=============================================================================
