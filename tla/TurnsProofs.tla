---------------------------- MODULE TurnsProofs ----------------------------
(***************************************************************************)
(* What a group is shown of its turns is true, for histories and requests  *)
(* of any number: a closed turn has its own last replies and all of them,  *)
(* and an input called unsent was not sent, unless a view misled the code  *)
(* or the operator gave up a call that AGY still had.                      *)
(***************************************************************************)
EXTENDS Turns, WellFoundedInduction, TLAPS

RowsOfTurns == [start : (0 .. MaxSteps) \cup {None}, status : {"NONE", "OPEN", "FINAL"}]

\* The history begins before the group; requests are named by user steps after that.
History ==
  /\ baseline \in DOMAIN steps
  /\ running => Len(steps) > baseline
  /\ \A i \in DOMAIN steps : steps[i].req # None => i > baseline /\ steps[i].kind = "user"

\* A row with a start is that of the turn the step starts.
Named(t, row) == row.start \in UserSteps /\ t = IdOf(row.start)

\* Nothing is added to a turn that is over.
Over(start) == (\E j \in UserSteps : j > start) \/ ~running

OpenIsNamed ==
  \A t \in Ids \ misread : turns[t].status # "FINAL" /\ turns[t].start # None => Named(t, turns[t])

ClosedIsWhole ==
  \A t \in Ids \ misread : turns[t].status = "FINAL" /\ turns[t].start # None =>
    /\ Named(t, turns[t])
    /\ Over(turns[t].start)
    /\ answer[t] = Replies(turns[t].start)

\* The call of a closed card without a turn is settled; unless it was given up in doubt,
\* no turn of it begins.
GivenUp ==
  \A r \in Inputs \ misread : CalledUnsent(r) =>
    op[r] = "DISMISSED" \/ (op[r] = "REJECTED" /\ ~Begun(r))

\* The inductive invariant.
TurnsInv ==
  /\ TurnsTypeOK
  /\ History
  /\ OpenIsNamed /\ GivenUp
  /\ ~SteerWasLate => ClosedIsWhole

-----------------------------------------------------------------------------
(* Least and greatest elements. *)

LEMMA LeastIsLeast ==
  ASSUME NEW S \in SUBSET Nat, S # {}
  PROVE  Least(S) \in S /\ \A j \in S : Least(S) <= j
<1> DEFINE R == OpToRel(<, Nat)
<1>1. PICK m \in S : \A j \in S : <<j, m>> \notin R
  <2>1. IsWellFoundedOn(R, Nat)
    BY NatLessThanWellFounded
  <2> HIDE DEF R
  <2> QED BY <2>1, WFMin, Zenon
<1>2. \A i, j \in Nat : <<i, j>> \in R <=> i < j
  BY DEF OpToRel
<1>3. \A j \in S : m <= j
  <2> HIDE DEF R
  <2>1. \A j \in S : j \in Nat /\ m \in Nat /\ ~(j < m)
    BY <1>1, <1>2
  <2> QED BY <2>1
<1> QED BY <1>3 DEF Least

LEMMA MostIsMost ==
  ASSUME NEW n \in Nat, NEW S \in SUBSET (0 .. n), S # {}
  PROVE  Most(S) \in S /\ \A j \in S : Most(S) >= j
<1> DEFINE T == {n - i : i \in S}
<1>1. T \in SUBSET Nat /\ T # {}
  <2>1. PICK i \in S : TRUE
    OBVIOUS
  <2>2. n - i \in T
    BY <2>1
  <2>3. \A j \in S : n - j \in Nat
    OBVIOUS
  <2> QED BY <2>2, <2>3
<1>2. PICK m \in T : \A j \in T : m <= j
  BY <1>1, LeastIsLeast
<1>3. PICK i \in S : m = n - i
  BY <1>2
<1>4. \A j \in S : n - i <= n - j
  BY <1>2, <1>3
<1>5. \A j \in S : i >= j
  BY <1>4
<1> QED BY <1>5 DEF Most
-----------------------------------------------------------------------------
(* The history grows. *)

LEMMA Grown ==
  ASSUME TurnsTypeOK, NEW e \in Steps, Append1(e)
  PROVE  /\ steps' \in Seq(Steps) /\ Len(steps') <= MaxSteps
         /\ Len(steps) \in Nat /\ Len(steps') = Len(steps) + 1
         /\ DOMAIN steps = 1 .. Len(steps) /\ DOMAIN steps' = 1 .. Len(steps) + 1
         /\ \A i \in DOMAIN steps : steps'[i] = steps[i]
         /\ steps'[Len(steps) + 1] = e
BY TurnsAssumption DEF TurnsTypeOK, Append1

\* The replies of a turn that is over are final: what is added is of another turn.
LEMMA RepliesStay ==
  ASSUME TurnsTypeOK, NEW e \in Steps, Append1(e), NEW start \in UserSteps, UNCHANGED baseline,
         e.kind = "user" \/ \E j \in UserSteps : j > start
  PROVE  Replies(start)' = Replies(start)
<1>1. PICK j \in DOMAIN steps' : j > start /\ steps'[j].kind = "user"
  BY Grown DEF UserSteps, TurnsTypeOK
<1>2. \A i \in DOMAIN steps' : (\A k \in start + 1 .. i : steps'[k].kind # "user") => i < j
  BY <1>1, Grown DEF UserSteps, TurnsTypeOK
<1>3. start \in Nat /\ \A i \in DOMAIN steps : \A k \in start + 1 .. i : k \in DOMAIN steps
  BY Grown DEF UserSteps, TurnsTypeOK
<1>4. \A i : (i \in DOMAIN steps' /\ start < i /\ \A k \in start + 1 .. i : steps'[k].kind # "user")
             <=> (i \in DOMAIN steps /\ start < i /\ \A k \in start + 1 .. i : steps[k].kind # "user")
  BY <1>1, <1>2, <1>3, Grown
<1> QED BY <1>4, Grown DEF Replies

\* A step that begins or continues a turn, or a steer that came too late.
LEMMA GrowStep ==
  ASSUME TurnsInv, NEW e \in Steps, Append1(e), running' = TRUE, UNCHANGED <<baseline, store, misread>>,
         e.req # None => e.kind = "user" /\ op[e.req] # "REJECTED",
         e.kind = "user" \/ running \/ (e.kind = "steer" /\ e.fresh)
  PROVE  History' /\ OpenIsNamed' /\ GivenUp' /\ (~SteerWasLate => ClosedIsWhole)'
<1> USE DEF TurnsInv, store
<1>1. History'
  <2>1. baseline \in Nat /\ baseline \in DOMAIN steps /\ baseline' = baseline
    BY DEF History, TurnsTypeOK
  <2>2. \A i \in DOMAIN steps' : i \in DOMAIN steps \/ (i = Len(steps) + 1 /\ i > baseline)
    BY <2>1, Grown
  <2>3. \A i \in DOMAIN steps' : steps'[i].req # None => i > baseline /\ steps'[i].kind = "user"
    BY <2>2, Grown DEF History
  <2> QED BY <2>1, <2>3, Grown DEF History
<1>2. GivenUp'
  <2> SUFFICES ASSUME NEW r \in Inputs \ misread, CalledUnsent(r)
               PROVE  op[r] = "DISMISSED" \/ (op[r] = "REJECTED" /\ ~Begun(r)')
    BY DEF GivenUp, CalledUnsent
  <2>1. op[r] = "DISMISSED" \/ (op[r] = "REJECTED" /\ \A i \in DOMAIN steps : steps[i].req # r)
    BY DEF GivenUp, Begun
  <2>2. op[r] = "REJECTED" => e.req # r
    BY TurnsAssumption
  <2> QED BY <2>1, <2>2, Grown DEF Begun
<1>3. UserSteps' = UserSteps \cup IF e.kind = "user" THEN {Len(steps) + 1} ELSE {}
  BY Grown DEF UserSteps, TurnsTypeOK, History
<1>4. \A t \in Ids : Named(t, turns[t]) => Named(t, turns[t])'
  <2>1. \A i \in UserSteps : i \in DOMAIN steps
    BY Grown DEF UserSteps, TurnsTypeOK
  <2>2. \A i \in UserSteps : IdOf(i)' = IdOf(i)
    BY <2>1, Grown DEF IdOf
  <2> QED BY <1>3, <2>2 DEF Named
<1>5. OpenIsNamed'
  BY <1>4 DEF OpenIsNamed
<1>6. ASSUME ~SteerWasLate' PROVE ClosedIsWhole'
  <2>1. ~SteerWasLate /\ ~(e.kind = "steer" /\ e.fresh)
    BY <1>6, Grown DEF SteerWasLate
  <2> SUFFICES ASSUME NEW t \in Ids \ misread, turns[t].status = "FINAL" /\ turns[t].start # None
               PROVE  /\ Named(t, turns[t])'
                      /\ Over(turns[t].start)'
                      /\ answer[t] = Replies(turns[t].start)'
    BY DEF ClosedIsWhole
  <2>2. Named(t, turns[t]) /\ Over(turns[t].start) /\ answer[t] = Replies(turns[t].start)
    BY <2>1 DEF ClosedIsWhole
  <2>3. turns[t].start \in UserSteps
    BY <2>2 DEF Named
  <2>4. e.kind = "user" \/ \E j \in UserSteps : j > turns[t].start
    BY <2>1, <2>2 DEF Over
  <2>5. \E j \in UserSteps' : j > turns[t].start
    BY <1>3, <2>3, <2>4, Grown DEF UserSteps
  <2>6. Replies(turns[t].start)' = Replies(turns[t].start)
    BY <2>3, <2>4, RepliesStay
  <2> QED BY <1>4, <2>2, <2>5, <2>6 DEF Over
<1> QED BY <1>1, <1>2, <1>5, <1>6
-----------------------------------------------------------------------------
(* The projection. *)

LEMMA Lengths ==
  ASSUME TurnsTypeOK
  PROVE  /\ Len(steps) \in Nat /\ Len(steps) <= MaxSteps
         /\ DOMAIN steps = 1 .. Len(steps) /\ baseline \in Nat
         /\ UserSteps \subseteq DOMAIN steps
         /\ \A i \in UserSteps : i > baseline /\ steps[i].kind = "user"
         /\ \A i \in DOMAIN steps : i > baseline /\ steps[i].kind = "user" => i \in UserSteps
         /\ \A i \in DOMAIN steps : i \in 0 .. MaxSteps
BY TurnsAssumption DEF TurnsTypeOK, UserSteps

\* A turn ends at the next user step that is in the view, or with the history.
LEMMA EndIsNext ==
  ASSUME TurnsTypeOK, NEW omitted, NEW start \in Nat
  PROVE  /\ EndOf(start, omitted) \in Nat
         /\ \/ EndOf(start, omitted) = Len(steps) + 1
            \/ EndOf(start, omitted) \in Starts(omitted) /\ EndOf(start, omitted) > start
         /\ EndOf(start, omitted) <= Len(steps) + 1
         /\ \A j \in Starts(omitted) : j > start => EndOf(start, omitted) <= j
<1> DEFINE ends == {i \in Starts(omitted) : i > start} \cup {Len(steps) + 1}
<1>1. ends \in SUBSET Nat /\ ends # {}
  BY Lengths DEF Starts
<1>2. Least(ends) \in ends /\ \A j \in ends : Least(ends) <= j
  BY <1>1, LeastIsLeast
<1>3. \A j \in Starts(omitted) : j <= Len(steps)
  BY Lengths DEF Starts
<1> QED BY <1>1, <1>2, <1>3, Lengths DEF EndOf

LEMMA AnswersAreSteps == \A start, end : Answers(start, end) \subseteq DOMAIN steps
BY DEF Answers

\* What the projection takes for the answer of a turn that is over is all the user waits for,
\* when the view leaves out no user step that comes later.
LEMMA AnswersAreReplies ==
  ASSUME TurnsTypeOK, NEW start \in UserSteps, Over(start),
         NEW omitted \in SUBSET UserSteps, \A i \in omitted : ~(i > start)
  PROVE  Answers(start, EndOf(start, omitted)) = Replies(start)
<1> DEFINE end == EndOf(start, omitted)
           within == {i \in DOMAIN steps : start < i /\ i < end}
           tools == {start} \cup {i \in within : steps[i].kind = "tool"}
           shown == {i \in DOMAIN steps : start < i /\ \A j \in start + 1 .. i : steps[j].kind # "user"}
<1>1. start \in Nat /\ start \in DOMAIN steps
  BY Lengths
<1>2. /\ end \in Nat /\ end <= Len(steps) + 1
      /\ end = Len(steps) + 1 \/ (end \in UserSteps /\ end > start)
      /\ \A j \in UserSteps : j > start => end <= j
  <2>1. \A j \in UserSteps : j > start => j \in Starts(omitted)
    BY DEF Starts
  <2>2. Starts(omitted) \subseteq UserSteps
    BY DEF Starts
  <2> QED BY <1>1, <2>1, <2>2, EndIsNext
<1> HIDE DEF end
<1>3. within = shown
  <2>1. ASSUME NEW i \in DOMAIN steps, start < i, i < end PROVE \A j \in start + 1 .. i : steps[j].kind # "user"
    <3> SUFFICES ASSUME NEW j \in start + 1 .. i, steps[j].kind = "user" PROVE FALSE
      OBVIOUS
    <3>1. j \in DOMAIN steps /\ j > baseline /\ j > start
      BY <2>1, <1>1, Lengths
    <3>2. j \in UserSteps
      BY <3>1, Lengths
    <3> QED BY <3>1, <3>2, <2>1, <1>2, Lengths
  <2>2. ASSUME NEW i \in DOMAIN steps, start < i, ~(i < end) PROVE \E j \in start + 1 .. i : steps[j].kind = "user"
    <3>1. end \in UserSteps /\ end > start
      BY <2>2, <1>2, Lengths
    <3>2. end \in start + 1 .. i /\ steps[end].kind = "user"
      BY <3>1, <2>2, <1>1, <1>2, Lengths
    <3> QED BY <3>2
  <2> QED BY <2>1, <2>2
<1>4. Most(tools) \in tools /\ \A j \in tools : Most(tools) >= j
  <2>1. tools \in SUBSET (0 .. Len(steps)) /\ tools # {}
    BY <1>1, Lengths
  <2> HIDE DEF tools
  <2> QED BY <2>1, MostIsMost, Lengths
<1>5. \A i \in within : i > Most(tools) /\ steps[i].kind = "assistant"
                          <=> steps[i].kind = "assistant" /\ \A j \in within : j > i => steps[j].kind # "tool"
  BY <1>1, <1>4, Lengths
<1>6. \A i \in within : Working => i < Len(steps)
  BY <1>1, <1>2, Lengths DEF Over, Working
<1>7. Answers(start, end) = {i \in within : steps[i].kind = "assistant" /\ i > Most(tools) /\ (Working => i < Len(steps))}
  BY DEF Answers
<1>8. Replies(start) = {i \in shown : steps[i].kind = "assistant" /\ \A j \in shown : j > i => steps[j].kind # "tool"}
  BY DEF Replies
<1> HIDE DEF within, shown, tools
<1> QED BY <1>3, <1>5, <1>6, <1>7, <1>8 DEF end

\* What holds of the table through the three loops that open rows: closed rows and the past
\* stay, and an input whose row has no start has no user step in the view.
Opened(rows, omitted) ==
  /\ rows \in [Ids -> RowsOfTurns]
  /\ \A t \in Ids : turns[t].status = "FINAL" \/ rows[t].status = "FINAL" => rows[t] = turns[t]
  /\ \A t \in 1 .. baseline : rows[t].status = "NONE"
  /\ \A r \in Inputs :
       rows[r].status = "NONE" \/ (rows[r].status = "OPEN" /\ rows[r].start = None) =>
         Own(r, omitted) = {}

LEMMA IdsAre == /\ Inputs \subseteq Ids /\ 0 \in Ids
                /\ Inputs \cap (0 .. MaxSteps) = {} /\ None \notin 0 .. MaxSteps
                /\ None \notin Inputs
BY TurnsAssumption DEF Ids

\* The first loop also names its rows, but those that an earlier view misled.
LEMMA StartedOpened ==
  ASSUME TurnsInv, NEW omitted \in SUBSET UserSteps, NEW rows \in Started(omitted)
  PROVE  /\ Opened(rows, omitted)
         /\ \A t \in Ids :
              /\ t \in misread => Own(t, omitted) # {} /\ turns[t].status # "FINAL"
              /\ rows[t].status # "FINAL" /\ rows[t].start # None
              => Named(t, rows[t])
<1> DEFINE own(t) == Own(t, omitted)
<1> USE DEF TurnsInv
<1>0. \A t : own(t) = {i \in UserSteps \ omitted : IdOf(i) = t}
  BY DEF Own, Starts
<1> HIDE DEF own
<1>1. \A t \in Ids : rows[t] = IF own(t) = {} THEN turns[t] ELSE Ensured(turns[t], Least(own(t)))
  BY DEF Started, own
<1>2. turns \in [Ids -> RowsOfTurns] /\ baseline <= Len(steps) /\ baseline \in Nat
  BY Lengths DEF TurnsTypeOK, RowsOfTurns, History
<1>3. \A t \in Ids : own(t) # {} => Least(own(t)) \in own(t) /\ Least(own(t)) \in 0 .. MaxSteps
  <2> SUFFICES ASSUME NEW t \in Ids, own(t) # {} PROVE Least(own(t)) \in own(t) /\ Least(own(t)) \in 0 .. MaxSteps
    OBVIOUS
  <2>1. own(t) \in SUBSET Nat
    BY <1>0, Lengths
  <2>2. Least(own(t)) \in own(t)
    BY <2>1, LeastIsLeast
  <2> QED BY <1>0, <2>2, Lengths
<1>4. \A t \in Ids : Ensured(turns[t], Least(own(t))) =
          IF turns[t].status = "FINAL" \/ (Least(own(t)) = None /\ turns[t].status = "OPEN") THEN turns[t]
          ELSE [start |-> Least(own(t)), status |-> "OPEN"]
  BY DEF Ensured
<1>5. \A t \in Ids : \/ own(t) = {} /\ rows[t] = turns[t]
                     \/ turns[t].status = "FINAL" /\ rows[t] = turns[t]
                     \/ /\ turns[t].status # "FINAL"
                        /\ rows[t] = [start |-> Least(own(t)), status |-> "OPEN"]
                        /\ rows[t].start \in own(t) /\ rows[t].start \in 0 .. MaxSteps
  BY <1>1, <1>3, <1>4, IdsAre
<1>6. rows \in [Ids -> RowsOfTurns]
  <2>1. rows = [t \in Ids |-> rows[t]]
    BY DEF Started
  <2>2. \A t \in Ids : rows[t] \in RowsOfTurns
    <3> SUFFICES ASSUME NEW t \in Ids PROVE rows[t] \in RowsOfTurns
      OBVIOUS
    <3>1. turns[t] \in RowsOfTurns
      BY <1>2
    <3>2. \A i \in 0 .. MaxSteps : [start |-> i, status |-> "OPEN"] \in RowsOfTurns
      BY DEF RowsOfTurns
    <3>3. CASE rows[t] = turns[t]
      BY <3>1, <3>3
    <3>4. CASE rows[t] = [start |-> Least(own(t)), status |-> "OPEN"] /\ rows[t].start \in 0 .. MaxSteps
      BY <3>2, <3>4
    <3> QED BY <1>5, <3>3, <3>4
  <2> QED BY <2>1, <2>2
<1>7. \A t \in 1 .. baseline : rows[t].status = "NONE"
  <2> SUFFICES ASSUME NEW t \in 1 .. baseline PROVE rows[t].status = "NONE"
    OBVIOUS
  <2>1. t \in Ids /\ t \notin Inputs /\ turns[t].status = "NONE"
    BY <1>2, Lengths, IdsAre DEF Ids, TurnsTypeOK
  <2>2. \A i \in UserSteps : IdOf(i) # t
    <3>1. \A i \in UserSteps : i > baseline /\ steps[i].req \in Inputs \cup {None}
      <4>1. \A i \in DOMAIN steps : steps[i] \in Steps
        BY Lengths DEF TurnsTypeOK
      <4>2. \A i \in DOMAIN steps : steps[i].req \in Inputs \cup {None}
        BY <4>1 DEF Steps
      <4> QED BY <4>2, Lengths
    <3> QED BY <2>1, <3>1, <1>2 DEF IdOf
  <2> QED BY <1>0, <2>1, <2>2, <1>5
<1>8. ASSUME NEW t \in Ids, t \in misread => own(t) # {} /\ turns[t].status # "FINAL",
             rows[t].status # "FINAL", rows[t].start # None
      PROVE  Named(t, rows[t])
  <2>1. CASE own(t) = {}
    BY <1>5, <1>8, <2>1 DEF OpenIsNamed, Named
  <2>2. CASE own(t) # {}
    <3>1. turns[t].status # "FINAL"
      BY <1>5, <1>8
    <3>2. rows[t].start \in own(t)
      BY <1>1, <1>5, <2>2, <3>1
    <3> QED BY <1>0, <3>2 DEF Named
  <2> QED BY <2>1, <2>2
<1>9. ASSUME NEW r \in Inputs, rows[r].status = "NONE" \/ (rows[r].status = "OPEN" /\ rows[r].start = None),
             own(r) # {}
      PROVE  FALSE
  <2>1. r \in Ids /\ rows[r].status # "FINAL"
    BY <1>9, IdsAre
  <2>2. rows[r].status = "OPEN" /\ rows[r].start # None
    <3>1. rows[r] = [start |-> Least(own(r)), status |-> "OPEN"] /\ rows[r].start \in 0 .. MaxSteps
      BY <1>5, <1>9, <1>1, <1>3, <1>4, <2>1, IdsAre
    <3> QED BY <3>1, IdsAre
  <2> QED BY <1>9, <2>2
<1>10. Opened(rows, omitted)
  BY <1>5, <1>6, <1>7, <1>9 DEF Opened, own
<1> QED BY <1>8, <1>10 DEF own

LEMMA PartialOpened ==
  ASSUME TurnsInv, NEW omitted \in SUBSET UserSteps, NEW table, Opened(table, omitted),
         NEW rows \in WithPartial(table, omitted)
  PROVE  Opened(rows, omitted)
<1> USE DEF TurnsInv
<1> DEFINE visible == (baseline + 1 .. Len(steps)) \ omitted
           guess == Least(visible) - 1
<1>1. CASE rows = table
  BY <1>1
<1>2. CASE rows # table
  <2>1. visible # {} /\ InState(table, "FINAL") = {}
    BY <1>2 DEF WithPartial
  <2>2. guess \in 0 .. MaxSteps /\ guess # None
    <3>1. visible \in SUBSET Nat /\ \A i \in visible : i > baseline /\ i <= Len(steps)
      BY Lengths
    <3>2. Least(visible) \in visible
      BY <2>1, <3>1, LeastIsLeast
    <3>3. \A i \in visible : i - 1 \in 0 .. MaxSteps
      BY Lengths, TurnsAssumption
    <3> HIDE DEF visible
    <3>4. guess \in 0 .. MaxSteps
      BY <3>2, <3>3
    <3> QED BY <3>4, IdsAre
  <2>3. PICK t \in InState(table, "OPEN") \cup {0} : rows = [table EXCEPT ![t] = Ensured(@, guess)]
    BY <1>2 DEF WithPartial
  <2> HIDE DEF guess
  <2>4. t \in Ids /\ t \notin 1 .. baseline
    BY <2>3, IdsAre, Lengths DEF InState, Opened
  <2>5. \A u \in Ids : table[u].status # "FINAL"
    BY <2>1 DEF InState
  <2>6. Ensured(table[t], guess) = [start |-> guess, status |-> "OPEN"]
    BY <2>2, <2>4, <2>5 DEF Ensured
  <2>7. rows \in [Ids -> RowsOfTurns]
    BY <2>2, <2>3, <2>4, <2>6 DEF Opened, RowsOfTurns
  <2>8. \A u \in Ids : rows[u] = IF u = t THEN [start |-> guess, status |-> "OPEN"] ELSE table[u]
    BY <2>3, <2>6 DEF Opened
  <2>9. \A u \in Ids : turns[u].status # "FINAL" /\ rows[u].status # "FINAL"
    BY <2>5, <2>8 DEF Opened
  <2>10. \A u \in 1 .. baseline : rows[u].status = "NONE"
    <3>1. 1 .. baseline \subseteq Ids
      BY TurnsAssumption DEF Ids, TurnsTypeOK
    <3> QED BY <2>4, <2>8, <3>1 DEF Opened
  <2>11. \A r \in Inputs :
           rows[r].status = "NONE" \/ (rows[r].status = "OPEN" /\ rows[r].start = None) =>
             Own(r, omitted) = {}
    BY <2>2, <2>8, IdsAre DEF Opened
  <2> QED BY <2>7, <2>9, <2>10, <2>11 DEF Opened
<1> QED BY <1>1, <1>2

LEMMA PendingOpened ==
  ASSUME TurnsInv, NEW omitted, NEW table, Opened(table, omitted), NEW rows \in WithPending(table)
  PROVE  Opened(rows, omitted)
<1>1. CASE rows = table
  BY <1>1
<1>2. CASE rows # table
  <2>1. PICK r \in Inputs : table[r].status = "NONE" /\ rows = [table EXCEPT ![r] = Ensured(@, None)]
    BY <1>2 DEF WithPending
  <2>2. Ensured(table[r], None) = [start |-> None, status |-> "OPEN"] /\ r \in Ids
    BY <2>1, IdsAre DEF Ensured
  <2>3. \A u \in Ids : rows[u] = IF u = r THEN [start |-> None, status |-> "OPEN"] ELSE table[u]
    BY <2>1, <2>2 DEF Opened
  <2>4. rows \in [Ids -> RowsOfTurns]
    BY <2>1, <2>2 DEF Opened, RowsOfTurns
  <2>5. r \notin 1 .. baseline /\ 1 .. baseline \subseteq Ids
    BY IdsAre, Lengths, TurnsAssumption DEF TurnsInv, TurnsTypeOK, Ids
  <2> QED BY <2>1, <2>2, <2>3, <2>4, <2>5, IdsAre DEF Opened
<1> QED BY <1>1, <1>2
\* A projection closes what is over, with its answer, and forgets nothing.
LEMMA ProjectStep ==
  ASSUME TurnsInv, NEW crash \in BOOLEAN, NEW omitted \in SUBSET UserSteps, Project(crash, omitted)
  PROVE  TurnsInv' /\ \A r \in Inputs \ misread' : CalledUnsent(r)' => CalledUnsent(r) \/ ~Begun(r)'
<1> DEFINE idle == snap = "idle" /\ ~Working
           guessed(named, rows) == {t \in Ids : rows[t].start \notin {None, named[t].start}}
           still == {t \in misread : Own(t, omitted) = {} \/ turns[t].status = "FINAL"}
<1> USE DEF TurnsInv
<1> DEFINE IsResult(named, rows) ==
        LET closing == {t \in Ids : Closes(rows[t], t, idle, omitted)}
            answered == {t \in closing : rows[t].start # None}
        IN  /\ turns' = IF crash THEN rows
                        ELSE [t \in Ids |-> IF t \in closing THEN [rows[t] EXCEPT !.status = "FINAL"]
                                            ELSE rows[t]]
            /\ answer' = [t \in Ids |-> IF t \in answered
                                        THEN Answers(rows[t].start, EndOf(rows[t].start, omitted))
                                        ELSE answer[t]]
            /\ misread' = still \cup guessed(named, rows)
                          \cup (IF crash THEN {} ELSE {t \in closing : ClosedTooSoon(rows[t], t, omitted)})
<1>0. PICK named \in Started(omitted) :
        \E rows \in UNION {WithPending(t) : t \in WithPartial(named, omitted)} : IsResult(named, rows)
  BY DEF Project
<1>1. PICK rows \in UNION {WithPending(t) : t \in WithPartial(named, omitted)} : IsResult(named, rows)
  BY <1>0
<1> DEFINE closing == {t \in Ids : Closes(rows[t], t, idle, omitted)}
           answered == {t \in closing : rows[t].start # None}
<1>2. Opened(rows, omitted)
  BY <1>1, StartedOpened, PartialOpened, PendingOpened
<1>3. /\ UNCHANGED <<steps, running, baseline>> /\ snap' = "none"
      /\ op' = [r \in Inputs |-> IF op[r] = "SUBMITTING" /\ \E i \in DOMAIN steps \ omitted : steps[i].req = r
                                 THEN "ACCEPTED" ELSE op[r]]
      /\ surprises' \in 0 .. MaxSurprises
  BY TurnsAssumption DEF Project, agy, Surprise, TurnsTypeOK
<1>4. rows \in [Ids -> RowsOfTurns] /\ \A t \in closing : t \in Ids /\ rows[t].status = "OPEN"
  BY <1>2 DEF Opened, Closes
<1>5. \A t \in Ids : turns'[t] = IF ~crash /\ t \in closing THEN [start |-> rows[t].start, status |-> "FINAL"]
                                ELSE rows[t]
  <2>1. \A row \in RowsOfTurns : [row EXCEPT !.status = "FINAL"] = [start |-> row.start, status |-> "FINAL"]
    BY DEF RowsOfTurns
  <2> QED BY <1>1, <1>4, <2>1
<1>6. \A t \in Ids : /\ turns'[t].start = rows[t].start
                     /\ turns'[t].status = IF ~crash /\ t \in closing THEN "FINAL" ELSE rows[t].status
  <2> SUFFICES ASSUME NEW t \in Ids
               PROVE  /\ turns'[t].start = rows[t].start
                     /\ turns'[t].status = IF ~crash /\ t \in closing THEN "FINAL" ELSE rows[t].status
    OBVIOUS
  <2>1. CASE ~crash /\ t \in closing
    <3>1. turns'[t] = [start |-> rows[t].start, status |-> "FINAL"]
      BY <1>5, <2>1
    <3>2. turns'[t].start = rows[t].start /\ turns'[t].status = "FINAL"
      BY <3>1
    <3> QED BY <2>1, <3>2
  <2>2. CASE ~(~crash /\ t \in closing)
    BY <1>5, <2>2
  <2> QED BY <2>1, <2>2
<1>7. /\ \A t \in Ids : answer'[t] = IF t \in answered THEN Answers(rows[t].start, EndOf(rows[t].start, omitted))
                                  ELSE answer[t]
      /\ answer' = [t \in Ids |-> answer'[t]]
  BY <1>1
<1>8. /\ still \cup guessed(named, rows) \subseteq misread'
      /\ \A t \in closing : ~crash /\ ClosedTooSoon(rows[t], t, omitted) => t \in misread'
      /\ misread' \subseteq Ids
  BY <1>1 DEF TurnsTypeOK
<1>9. \A t \in Ids \ misread' : rows[t].status # "FINAL" /\ rows[t].start # None => Named(t, rows[t])
  <2> SUFFICES ASSUME NEW t \in Ids \ misread', rows[t].status # "FINAL", rows[t].start # None
               PROVE  Named(t, rows[t])
    OBVIOUS
  <2>1. t \in misread => Own(t, omitted) # {} /\ turns[t].status # "FINAL"
    BY <1>8
  <2>2. rows[t].start = named[t].start
    BY <1>8
  <2>3. named[t].status # "FINAL"
    BY <1>2, StartedOpened DEF Opened
  <2>4. Named(t, named[t])
    BY <2>1, <2>2, <2>3, StartedOpened
  <2> QED BY <2>2, <2>4 DEF Named
<1> HIDE DEF closing, idle, still, guessed
<1>10. TurnsTypeOK'
  <2>1. turns' \in [Ids -> RowsOfTurns]
    <3>1. \A t \in Ids : turns'[t] \in RowsOfTurns
      <4>1. \A row \in RowsOfTurns : [start |-> row.start, status |-> "FINAL"] \in RowsOfTurns
        BY DEF RowsOfTurns
      <4>2. \A t \in Ids : rows[t] \in RowsOfTurns
        BY <1>4
      <4> QED BY <1>5, <4>1, <4>2
    <3>2. turns' = [t \in Ids |-> turns'[t]]
      BY <1>1, <1>4
    <3> QED BY <3>1, <3>2
  <2>2. answer' \in [Ids -> SUBSET (1 .. MaxSteps)]
    <3>1. \A t \in Ids : answer'[t] \in SUBSET (1 .. MaxSteps)
      BY <1>7, AnswersAreSteps, Lengths DEF TurnsTypeOK
    <3> QED BY <1>7, <3>1
  <2>3. \A t \in 1 .. baseline' : turns'[t].status = "NONE"
    <3>1. \A t \in 1 .. baseline : t \in Ids /\ rows[t].status = "NONE"
      BY <1>2, TurnsAssumption DEF Opened, Ids, TurnsTypeOK
    <3> QED BY <1>3, <1>4, <1>5, <3>1
  <2>4. op' \in [Inputs -> {"NONE", "QUEUED", "SUBMITTING", "ACCEPTED", "REJECTED", "DISMISSED"}]
    BY <1>3 DEF TurnsTypeOK
  <2> QED BY <1>3, <1>8, <2>1, <2>2, <2>3, <2>4 DEF TurnsTypeOK, RowsOfTurns
<1>11. History'
  BY <1>3 DEF History
<1>12. \A t \in Ids : turns[t].status = "FINAL" => rows[t] = turns[t] /\ turns'[t] = turns[t] /\ t \notin closing
  BY <1>2, <1>4, <1>5 DEF Opened
<1>13. \A t \in Ids \ misread' : turns[t].status = "FINAL" => t \notin misread
  BY <1>8 DEF still
\* A card is called unsent by a view that shows no step of its input.
<1>14. ASSUME NEW r \in Inputs \ misread', CalledUnsent(r)', ~CalledUnsent(r)
       PROVE  op'[r] \in {"REJECTED", "DISMISSED"} /\ ~Begun(r)'
  <2>1. r \in Ids /\ turns'[r].status = "FINAL" /\ turns'[r].start = None
    BY <1>14, IdsAre DEF CalledUnsent
  <2>2. turns[r].status # "FINAL"
    BY <1>12, <1>14, <2>1 DEF CalledUnsent
  <2>3. ~crash /\ r \in closing
    BY <1>2, <1>6, <2>1, <2>2 DEF Opened
  <2>4. rows[r].status = "OPEN" /\ rows[r].start = None
    BY <1>4, <1>6, <2>1, <2>3
  <2>5. op'[r] \in {"REJECTED", "DISMISSED"}
    BY <2>3, <2>4 DEF closing, Closes
  <2>6. \A i \in UserSteps : IdOf(i) # r
    <3>1. \A i \in omitted : IdOf(i) # r
      BY <1>8, <2>3, <2>4 DEF ClosedTooSoon
    <3>2. Own(r, omitted) = {}
      BY <1>2, <2>4 DEF Opened
    <3> QED BY <3>1, <3>2 DEF Own, Starts
  <2>7. \A i \in DOMAIN steps : steps[i].req # r
    <3> SUFFICES ASSUME NEW i \in DOMAIN steps, steps[i].req = r PROVE FALSE
      OBVIOUS
    <3>1. i \in UserSteps
      BY IdsAre, Lengths DEF History
    <3>2. IdOf(i) = r
      BY IdsAre DEF IdOf
    <3> QED BY <2>6, <3>1, <3>2
  <2> QED BY <1>3, <2>5, <2>7 DEF Begun
<1>15. GivenUp'
  <2> SUFFICES ASSUME NEW r \in Inputs \ misread', CalledUnsent(r)'
               PROVE  op'[r] = "DISMISSED" \/ (op'[r] = "REJECTED" /\ ~Begun(r)')
    BY DEF GivenUp
  <2>1. CASE CalledUnsent(r)
    <3>1. r \notin misread
      BY <1>13, <2>1, IdsAre DEF CalledUnsent
    <3>2. Begun(r)' = Begun(r)
      BY <1>3 DEF Begun
    <3> QED BY <1>3, <2>1, <3>1, <3>2 DEF GivenUp
  <2>2. CASE ~CalledUnsent(r)
    BY <1>14, <2>2
  <2> QED BY <2>1, <2>2
<1>16. UserSteps' = UserSteps /\ (\A i : IdOf(i)' = IdOf(i)) /\ \A start : Replies(start)' = Replies(start)
  BY <1>3 DEF UserSteps, IdOf, Replies
<1>17. OpenIsNamed'
  <2> SUFFICES ASSUME NEW t \in Ids \ misread', turns'[t].status # "FINAL", turns'[t].start # None
               PROVE  Named(t, turns[t])'
    BY DEF OpenIsNamed
  <2>1. turns'[t].start = rows[t].start /\ rows[t].status # "FINAL"
    BY <1>6
  <2> QED BY <1>9, <1>16, <2>1 DEF Named
<1>18. ASSUME ~SteerWasLate' PROVE ClosedIsWhole'
  <2>1. ~SteerWasLate
    BY <1>3, <1>18 DEF SteerWasLate
  <2> SUFFICES ASSUME NEW t \in Ids \ misread', turns'[t].status = "FINAL", turns'[t].start # None
               PROVE  /\ Named(t, turns[t])'
                      /\ Over(turns[t].start)'
                      /\ answer'[t] = Replies(turns[t].start)'
    BY DEF ClosedIsWhole
  <2>2. CASE turns[t].status = "FINAL"
    <3>1. turns'[t] = turns[t] /\ t \notin misread /\ answer'[t] = answer[t]
      BY <1>7, <1>12, <1>13, <2>2
    <3>2. Named(t, turns[t]) /\ Over(turns[t].start) /\ answer[t] = Replies(turns[t].start)
      BY <2>1, <2>2, <3>1 DEF ClosedIsWhole
    <3> QED BY <1>3, <1>16, <3>1, <3>2 DEF Named, Over
  <2>3. CASE turns[t].status # "FINAL"
    <3> DEFINE start == rows[t].start
    <3>1. turns'[t].start = start /\ start # None
      BY <1>6
    <3>2. ~crash /\ t \in closing /\ t \in answered
      BY <1>2, <1>6, <2>3, <3>1 DEF Opened
    <3>3. rows[t].status = "OPEN"
      BY <1>4, <3>2
    <3>4. Named(t, rows[t]) /\ start \in UserSteps /\ start \in Nat
      BY <1>9, <3>1, <3>3, Lengths DEF Named
    <3>5. ~(running /\ EndOf(start, omitted) > Len(steps)) /\ \A i \in omitted : ~(i > start)
      BY <1>8, <3>1, <3>2 DEF ClosedTooSoon
    <3>6. answer'[t] = Answers(start, EndOf(start, omitted))
      BY <1>7, <3>2
    <3> HIDE DEF start
    <3>7. EndOf(start, omitted) <= Len(steps) => EndOf(start, omitted) \in UserSteps /\ EndOf(start, omitted) > start
      BY <3>4, EndIsNext, Lengths DEF Starts
    <3>8. EndOf(start, omitted) > Len(steps) \/ EndOf(start, omitted) <= Len(steps)
      BY <3>4, EndIsNext, Lengths
    <3>9. Over(start)
      BY <3>5, <3>7, <3>8 DEF Over
    <3>10. answer'[t] = Replies(start)
      BY <3>4, <3>5, <3>6, <3>9, AnswersAreReplies
    <3> QED BY <1>3, <1>16, <3>1, <3>4, <3>9, <3>10 DEF Named, Over, start
  <2> QED BY <2>2, <2>3
<1> QED BY <1>10, <1>11, <1>14, <1>15, <1>17, <1>18
-----------------------------------------------------------------------------
(* Every step. *)

LEMMA StepsAre ==
  /\ \A kind \in {"tool", "assistant"} : Step(kind) \in Steps /\ Step(kind).req = None
  /\ \A kind \in {"user", "steer"}, r \in Inputs \cup {None} : running \in BOOLEAN =>
       /\ UserStep(kind, r) \in Steps
       /\ UserStep(kind, r).kind = kind /\ UserStep(kind, r).req = r /\ UserStep(kind, r).fresh = ~running
BY DEF Step, UserStep, Steps

\* AGY's own steps, a steer, and an input that arrives.
LEMMA AgyStep ==
  ASSUME TurnsInv,
         \/ DesktopTurn \/ Steer \/ (\E kind \in {"tool", "assistant"} : BeginStep(kind))
         \/ \E r \in Inputs : Land(r)
  PROVE  TurnsInv'
<1> USE DEF KeepsStore, store
<1>0. running \in BOOLEAN
  BY DEF TurnsInv, TurnsTypeOK
<1> DEFINE IsNext(e) ==
       /\ Append1(e) /\ running' = TRUE /\ UNCHANGED <<baseline, store, misread, snap, surprises>>
       /\ e.req # None => e.kind = "user" /\ op[e.req] # "REJECTED"
       /\ e.kind = "user" \/ running \/ (e.kind = "steer" /\ e.fresh)
<1>1. PICK e \in Steps : IsNext(e)
  <2>1. CASE DesktopTurn
    <3>1. IsNext(UserStep("user", None))
      BY <1>0, <2>1, StepsAre DEF DesktopTurn
    <3> QED BY <1>0, <3>1, StepsAre
  <2>2. CASE Steer
    <3>1. IsNext(UserStep("steer", None))
      BY <1>0, <2>2, StepsAre DEF Steer
    <3> QED BY <1>0, <3>1, StepsAre
  <2>3. CASE \E kind \in {"tool", "assistant"} : BeginStep(kind)
    <3>1. PICK kind \in {"tool", "assistant"} : BeginStep(kind)
      BY <2>3
    <3>2. IsNext(Step(kind))
      BY <1>0, <3>1, StepsAre DEF BeginStep
    <3> QED BY <3>2, StepsAre
  <2>4. CASE \E r \in Inputs : Land(r)
    <3>1. PICK r \in Inputs : Land(r)
      BY <2>4
    <3>2. IsNext(UserStep("user", r))
      BY <1>0, <3>1, StepsAre DEF Land
    <3> QED BY <1>0, <3>2, StepsAre
  <2> QED BY <2>1, <2>2, <2>3, <2>4
<1>2. History' /\ OpenIsNamed' /\ GivenUp' /\ (~SteerWasLate => ClosedIsWhole)'
  BY <1>1, GrowStep
<1>3. TurnsTypeOK'
  BY <1>1, Grown DEF TurnsInv, TurnsTypeOK
<1> QED BY <1>2, <1>3 DEF TurnsInv

\* The ledger moves, the snapshot is read, or a turn ends: the table stays.
LEMMA QuietStep ==
  ASSUME TurnsInv,
         \/ EndTurn \/ ReadSnapshot \/ UNCHANGED vars
         \/ \E r \in Inputs : Queue(r) \/ Cancel(r) \/ Submit(r) \/ Return(r) \/ GiveUp(r)
  PROVE  TurnsInv' /\ UNCHANGED <<steps, turns>>
<1> USE DEF TurnsInv
<1> DEFINE States == {"NONE", "QUEUED", "SUBMITTING", "ACCEPTED", "REJECTED", "DISMISSED"}
<1>1. /\ UNCHANGED <<steps, baseline, turns, answer, misread>>
      /\ running' \in BOOLEAN /\ (running' => running)
      /\ \A r \in Inputs : op[r] \in {"REJECTED", "DISMISSED"} => op'[r] = op[r]
      /\ op' \in [Inputs -> States]
      /\ snap' \in {"none", "idle", "busy"}
      /\ surprises' \in 0 .. MaxSurprises
  <2>1. CASE EndTurn
    BY <2>1 DEF EndTurn, KeepsStore, store, TurnsTypeOK
  <2>2. CASE ReadSnapshot
    BY <2>2 DEF ReadSnapshot, agy, store, TurnsTypeOK
  <2>3. CASE UNCHANGED vars
    BY <2>3 DEF vars, agy, store, TurnsTypeOK
  <2>4. CASE \E r \in Inputs : Queue(r) \/ Cancel(r) \/ Submit(r) \/ Return(r) \/ GiveUp(r)
    <3>1. PICK r \in Inputs : Queue(r) \/ Cancel(r) \/ Submit(r) \/ Return(r) \/ GiveUp(r)
      BY <2>4
    <3>2. /\ \E s \in States : op[r] \in {"NONE", "QUEUED", "SUBMITTING"} /\ SetOp(r, s)
          /\ snap' \in {snap, "none"} /\ surprises' \in 0 .. MaxSurprises
      BY <3>1, TurnsAssumption DEF Queue, Cancel, Submit, Return, GiveUp, Surprise, TurnsTypeOK
    <3> QED BY <3>2 DEF SetOp, agy, TurnsTypeOK
  <2> QED BY <2>1, <2>2, <2>3, <2>4
<1>2. TurnsTypeOK'
  BY <1>1 DEF TurnsTypeOK
<1>3. History' /\ GivenUp'
  BY <1>1 DEF History, GivenUp, CalledUnsent, Begun
<1>4. SteerWasLate' = SteerWasLate
  BY <1>1 DEF SteerWasLate
<1>5. OpenIsNamed'
  BY <1>1 DEF OpenIsNamed, Named, UserSteps, IdOf
<1>6. ClosedIsWhole => ClosedIsWhole'
  <2>1. \A start : Over(start) => Over(start)'
    BY <1>1 DEF Over, UserSteps
  <2>2. \A start : Replies(start)' = Replies(start)
    BY <1>1 DEF Replies
  <2> QED BY <1>1, <2>1, <2>2 DEF ClosedIsWhole, Named, UserSteps, IdOf
<1> QED BY <1>1, <1>2, <1>3, <1>4, <1>5, <1>6

LEMMA TurnsInvInit == Init => TurnsInv
<1> SUFFICES ASSUME Init PROVE TurnsInv
  OBVIOUS
<1> DEFINE first == [Step("user") EXCEPT !.fresh = TRUE]
<1>1. first \in Steps /\ first.kind = "user" /\ first.req = None
  BY DEF Step, Steps
<1>2. steps = <<first>>
  BY DEF Init
<1> HIDE DEF first
<1>3. steps \in Seq(Steps) /\ Len(steps) = 1 /\ DOMAIN steps = {1} /\ steps[1] = first
  BY <1>1, <1>2
<1>4. /\ running = FALSE /\ baseline = 1 /\ snap = "none" /\ misread = {} /\ surprises = 0
      /\ op = [r \in Inputs |-> "NONE"] /\ answer = [t \in Ids |-> {}]
      /\ turns = [t \in Ids |-> [start |-> None, status |-> "NONE"]]
  BY <1>3 DEF Init
<1>5. \A t \in Ids : turns[t].status = "NONE"
  BY <1>4
<1>6. MaxSteps \in Nat /\ MaxSteps >= 1 /\ MaxSurprises \in Nat
  BY TurnsAssumption
<1>7. TurnsTypeOK
  <2>1. turns \in [Ids -> [start : (0 .. MaxSteps) \cup {None}, status : {"NONE", "OPEN", "FINAL"}]]
    BY <1>4
  <2>2. \A t \in 1 .. baseline : turns[t].status = "NONE"
    BY <1>4, <1>5, <1>6 DEF Ids
  <2>3. baseline \in 0 .. MaxSteps /\ surprises \in 0 .. MaxSurprises /\ Len(steps) <= MaxSteps
    BY <1>3, <1>4, <1>6
  <2> QED BY <1>3, <1>4, <2>1, <2>2, <2>3 DEF TurnsTypeOK
<1>8. History
  BY <1>1, <1>3, <1>4 DEF History
<1>9. OpenIsNamed /\ ClosedIsWhole /\ GivenUp
  BY <1>4, <1>5, IdsAre DEF OpenIsNamed, ClosedIsWhole, GivenUp, CalledUnsent
<1> QED BY <1>7, <1>8, <1>9 DEF TurnsInv

LEMMA TurnsInvStep == TurnsInv /\ [Next]_vars => TurnsInv'
BY AgyStep, QuietStep, ProjectStep DEF Next

\* The inductive invariant of the history, its projections and the ledger they read.
THEOREM TurnsCorrect == Spec => []TurnsInv
BY TurnsInvInit, TurnsInvStep, PTL DEF Spec

\* Every variable has its type, and what the history held before the group stays out of it.
THEOREM TurnsTyped == Spec => []TurnsTypeOK
<1>1. TurnsInv => TurnsTypeOK
  BY DEF TurnsInv
<1> QED BY <1>1, TurnsCorrect, PTL

\* A turn that is closed shows its own last replies and all of them, however requests, desktop
\* turns, reads and crashes of Turns.project interleave, unless a torn view closed it while it
\* ran, or a view without a user step closed it or guessed its start.
THEOREM AnswersAreWhole == Spec => []AnswerIsWhole
<1>1. TurnsInv => AnswerIsWhole
  BY DEF TurnsInv, AnswerIsWhole, ClosedIsWhole, Named
<1> QED BY <1>1, TurnsCorrect, PTL

\* A card says that its input was not submitted (turns.py:188) only while no turn of it is in
\* the history, however calls, cancellations, dismissals and views interleave; and a turn begins
\* under such a card only for an input that the operator gave up in doubt.
THEOREM UnsentStaysUnsent == Spec => UnsentUnlessDismissed
<1> DEFINE Kept == \A r \in Inputs \ misread' :
                     CalledUnsent(r)' /\ Begun(r)' => CalledUnsent(r) /\ op[r] = "DISMISSED"
<1>1. TurnsInv /\ [Next]_vars => Kept
  <2> SUFFICES ASSUME TurnsInv, [Next]_vars, NEW r \in Inputs \ misread', CalledUnsent(r)', Begun(r)'
               PROVE  CalledUnsent(r) /\ op[r] = "DISMISSED"
    OBVIOUS
  <2>1. CASE \E crash \in BOOLEAN, omitted \in SUBSET UserSteps : Project(crash, omitted)
    <3>1. CalledUnsent(r)
      BY <2>1, ProjectStep
    <3>2. steps' = steps /\ (turns[r].status = "FINAL" => (r \in misread => r \in misread'))
      BY <2>1, IdsAre DEF Project, agy, TurnsInv, TurnsTypeOK
    <3> QED BY <3>1, <3>2 DEF TurnsInv, GivenUp, CalledUnsent, Begun
  <2>2. CASE ~\E crash \in BOOLEAN, omitted \in SUBSET UserSteps : Project(crash, omitted)
    <3>1. UNCHANGED <<turns, op, misread>> \/ UNCHANGED <<steps, turns, misread>>
      BY <2>2, QuietStep DEF Next, DesktopTurn, Steer, BeginStep, Land, KeepsStore, store,
           EndTurn, ReadSnapshot, Queue, Cancel, Submit, Return, GiveUp, SetOp, vars
    <3>2. GivenUp /\ GivenUp'
      BY TurnsInvStep DEF TurnsInv
    <3> QED BY <3>1, <3>2 DEF GivenUp, CalledUnsent, Begun
  <2> QED BY <2>1, <2>2
<1> QED BY <1>1, TurnsCorrect, PTL DEF Spec, UnsentUnlessDismissed

=============================================================================
