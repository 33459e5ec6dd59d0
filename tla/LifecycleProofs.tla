--------------------------- MODULE LifecycleProofs ---------------------------
(***************************************************************************)
(* What holds of Lifecycle for any users, requests, answers of the         *)
(* mothership and thresholds, with any number of overlapping requests.     *)
(***************************************************************************)
EXTENDS Lifecycle, FiniteSetTheorems, TLAPS

-----------------------------------------------------------------------------
(* Stages.                                                                 *)

Statuses == Stages \union {NoStatus}

LEMMA StageCases ==
  Stages = {"visitor", "loyalist", "applicant", "franchisee_self_use", "franchisee_active"}
<1>1. 1 .. 5 = {1, 2, 3, 4, 5}
  OBVIOUS
<1> QED
  BY <1>1 DEF Stages, STATES

LEMMA RankOfStages ==
  /\ Rank(NoStatus) = 1 /\ Rank("visitor") = 1 /\ Rank("loyalist") = 2
  /\ Rank("applicant") = 3 /\ Rank("franchisee_self_use") = 4 /\ Rank("franchisee_active") = 5
<1>1. NoStatus \notin
        {"visitor", "loyalist", "applicant", "franchisee_self_use", "franchisee_active"}
  BY DEF NoStatus
<1>2. 1 .. 5 = {1, 2, 3, 4, 5}
  OBVIOUS
<1> QED
  BY <1>1, <1>2 DEF Rank, STATES

LEMMA StageRank ==
  ASSUME NEW s \in Statuses
  PROVE  /\ Rank(s) \in 1 .. 5
         /\ s # NoStatus => STATES[Rank(s)] = s
  BY RankOfStages, StageCases DEF Statuses, STATES

-----------------------------------------------------------------------------
(* Rows and their order.                                                   *)

Latest(t, R) == t \in R /\ \A s \in R \ {t} : Later(t, s)

StatusIn(R) ==
  IF R = {} THEN NoStatus ELSE (CHOOSE t \in R : \A s \in R \ {t} : Later(t, s)).to

LEMMA CurrentStatusIn ==
  ASSUME NEW u
  PROVE  CurrentStatus(u) = StatusIn(RowsOf(u)) /\ CurrentStatus(u)' = StatusIn(RowsOf(u)')
  BY DEF CurrentStatus, StatusIn

LEMMA LaterOrder ==
  ASSUME NEW t \in Transition, NEW s \in Transition
  PROVE  /\ ~(Later(t, s) /\ Later(s, t))
         /\ t.id # s.id => Later(t, s) \/ Later(s, t)
         /\ \A r \in Transition : Later(t, s) /\ Later(s, r) => Later(t, r)
  BY DEF Transition, Later

\* The latest row is the one get_current_status finds.
LEMMA StatusOfLatest ==
  ASSUME NEW R, R \subseteq Transition, NEW t, Latest(t, R)
  PROVE  StatusIn(R) = t.to
<1> DEFINE c == CHOOSE x \in R : \A s \in R \ {x} : Later(x, s)
<1>1. c \in R /\ \A s \in R \ {c} : Later(c, s)
  BY DEF Latest
<1>2. c = t
  BY <1>1, LaterOrder DEF Latest
<1> QED
  BY <1>2 DEF StatusIn, Latest

\* Rows with different ids have a latest one, one more row or not.
LEMMA LatestOfMore ==
  ASSUME NEW R, R \subseteq Transition, NEW r \in Transition, \A s \in R : s.id # r.id,
         R = {} \/ \E t : Latest(t, R)
  PROVE  \E t : Latest(t, R \union {r})
<1>1. CASE R = {}
  BY <1>1 DEF Latest
<1>2. ASSUME NEW t, Latest(t, R) PROVE \E x : Latest(x, R \union {r})
  <2>1. t \in Transition /\ t \in R /\ \A s \in R \ {t} : Later(t, s)
    BY <1>2 DEF Latest
  <2>2. CASE Later(t, r)
    <3>1. Latest(t, R \union {r})
      BY <2>1, <2>2 DEF Latest
    <3> QED
      BY <3>1
  <2>3. CASE Later(r, t)
    <3>1. \A s \in R : Later(r, s)
      BY <2>1, <2>3, LaterOrder
    <3>2. Latest(r, R \union {r})
      BY <3>1 DEF Latest
    <3> QED
      BY <3>2
  <2> QED
    BY <2>1, <2>2, <2>3, LaterOrder
<1> QED
  BY <1>1, <1>2

LEMMA StatusInType ==
  ASSUME NEW R, R \subseteq Transition, R = {} \/ \E t : Latest(t, R)
  PROVE  StatusIn(R) \in Statuses
<1>1. CASE R = {}
  BY <1>1 DEF StatusIn, Statuses
<1>2. ASSUME NEW t, Latest(t, R) PROVE StatusIn(R) \in Statuses
  <2>1. t \in Transition /\ StatusIn(R) = t.to
    BY <1>2, StatusOfLatest DEF Latest
  <2> QED
    BY <2>1 DEF Transition, Statuses
<1> QED
  BY <1>1, <1>2

-----------------------------------------------------------------------------
(* Open transactions.                                                      *)

EvaluatingTxn ==
  [phase : {"evaluating", "asking again"}, user : Users, event : EventRequests,
   status : Statuses, days : SUBSET Int]
OverridingTxn ==
  [phase : {"overriding"}, user : Users, to : Stages, status : Statuses]
StampedEvent == [phase : {"stamped"}, event : EventRequests, row : Stamp]
StampedOverride == [phase : {"stamped"}, row : Stamp]
FlushedEvent == [phase : {"flushed"}, event : EventRequests, row : Transition]
FlushedOverride == [phase : {"flushed"}, row : Transition]
FlushedNothing == [phase : {"flushed"}, event : EventRequests]

TxnType ==
  {Idle} \union EvaluatingTxn \union OverridingTxn \union StampedEvent \union StampedOverride
    \union FlushedEvent \union FlushedOverride \union FlushedNothing

\* The transaction has inserted a row that it has not committed.
HasRow(t) == t.phase = "flushed" /\ "row" \in DOMAIN t

\* The phase tells what a transaction holds.
LEMMA Phases ==
  ASSUME NEW t \in TxnType
  PROVE  /\ t.phase \in {"evaluating", "asking again"} => t \in EvaluatingTxn
         /\ t.phase = "overriding" => t \in OverridingTxn
         /\ t.phase = "stamped" => t \in StampedEvent \union StampedOverride
         /\ t.phase = "flushed" => t \in FlushedEvent \union FlushedOverride \union FlushedNothing
         /\ HasRow(t) => t \in FlushedEvent \union FlushedOverride
<1>1. CASE t = Idle
  BY <1>1 DEF Idle, HasRow
<1>2. CASE t \in EvaluatingTxn
  BY <1>2 DEF EvaluatingTxn, HasRow
<1>3. CASE t \in OverridingTxn
  BY <1>3 DEF OverridingTxn, HasRow
<1>4. CASE t \in StampedEvent \union StampedOverride
  BY <1>4 DEF StampedEvent, StampedOverride, HasRow
<1>5. CASE t \in FlushedEvent \union FlushedOverride
  BY <1>5 DEF FlushedEvent, FlushedOverride, HasRow
<1>6. CASE t \in FlushedNothing
  BY <1>6 DEF FlushedNothing, HasRow
<1> QED
  BY <1>1, <1>2, <1>3, <1>4, <1>5, <1>6 DEF TxnType

LEMMA RowType ==
  ASSUME NEW t \in TxnType, HasRow(t)
  PROVE  t.row \in Transition
<1>1. t \in FlushedEvent \union FlushedOverride
  BY Phases
<1> QED
  BY <1>1 DEF FlushedEvent, FlushedOverride

-----------------------------------------------------------------------------
(* Types, ids and the latest row, with any number of requests.             *)

Types ==
  /\ events \subseteq EventRequests
  /\ transitions \subseteq Transition
  /\ nextId \in 1 .. MaxTransitions + 1
  /\ clock \in 1 .. MaxClock
  /\ notices \in [Users -> 0 .. MaxTransitions]
  /\ txn \in [Workers -> TxnType]
  /\ vouched \subseteq Users

\* Ids are given once, to committed rows and to those that are not.
IdsOK ==
  /\ \A t \in transitions : t.id < nextId
  /\ \A s, t \in transitions : s.id = t.id => s = t
  /\ \A w \in Workers : HasRow(txn[w]) =>
       /\ txn[w].row.id < nextId
       /\ \A t \in transitions : t.id # txn[w].row.id
       /\ \A v \in Workers \ {w} : HasRow(txn[v]) => txn[v].row.id # txn[w].row.id

Inv ==
  /\ Types
  /\ \A u \in Users : notices[u] < nextId
  /\ IdsOK
  /\ \A u \in Users : RowsOf(u) = {} \/ \E t : Latest(t, RowsOf(u))

LEMMA StatusType ==
  ASSUME Inv, NEW u \in Users
  PROVE  CurrentStatus(u) \in Statuses
<1>1. RowsOf(u) \subseteq Transition
  BY DEF Inv, Types, RowsOf
<1> QED
  BY <1>1, StatusInType, CurrentStatusIn DEF Inv

LEMMA InitInv == Init => Inv
<1> SUFFICES ASSUME Init PROVE Inv
  OBVIOUS
<1>1. Types
  <2>1. nextId \in 1 .. MaxTransitions + 1 /\ clock \in 1 .. MaxClock
    BY BoundsAssumption DEF Init
  <2>2. notices \in [Users -> 0 .. MaxTransitions]
    BY BoundsAssumption DEF Init
  <2>3. txn \in [Workers -> TxnType]
    BY DEF Init, TxnType
  <2> QED
    BY <2>1, <2>2, <2>3 DEF Init, Types
<1>2. \A w \in Workers : ~HasRow(txn[w])
  BY DEF Init, HasRow, Idle
<1>3. \A u \in Users : RowsOf(u) = {}
  BY DEF Init, RowsOf
<1>4. \A u \in Users : notices[u] < nextId
  BY DEF Init
<1> QED
  BY <1>1, <1>2, <1>3, <1>4 DEF Init, Inv, IdsOK

\* The transaction of one worker moves on and inserts nothing.
LEMMA TxnInv ==
  ASSUME Inv, NEW w \in Workers, NEW t \in TxnType, ~HasRow(t),
         txn' = [txn EXCEPT ![w] = t],
         UNCHANGED <<events, transitions, nextId, notices>>,
         clock' \in 1 .. MaxClock, vouched' \subseteq Users
  PROVE  Inv'
<1>1. txn'[w] = t /\ \A v \in Workers \ {w} : txn'[v] = txn[v]
  BY DEF Inv, Types
<1>2. Types'
  BY DEF Inv, Types
<1>3. IdsOK'
  BY <1>1 DEF Inv, IdsOK
<1>4. \A u \in Users : RowsOf(u)' = RowsOf(u)
  BY DEF RowsOf
<1> QED
  BY <1>2, <1>3, <1>4 DEF Inv

LEMMA DeepDaysType ==
  ASSUME NEW rows, rows \subseteq EventRequests, NEW u
  PROVE  DeepDays(rows, u) \subseteq Int
  BY RequestsAssumption DEF DeepDays

\* What a request starts with.
LEMMA BegunEvent ==
  ASSUME Inv, NEW e \in EventRequests
  PROVE  [phase |-> "evaluating", user |-> e.user, event |-> e,
          status |-> CurrentStatus(e.user), days |-> DeepDays(events \union {e}, e.user)]
            \in EvaluatingTxn
<1>1. e.user \in Users
  BY RequestsAssumption
<1>2. events \union {e} \subseteq EventRequests
  BY DEF Inv, Types
<1>3. DeepDays(events \union {e}, e.user) \in SUBSET Int
  BY <1>2, DeepDaysType
<1>4. CurrentStatus(e.user) \in Statuses
  BY <1>1, StatusType
<1> HIDE DEF Inv
<1> QED
  BY <1>1, <1>3, <1>4 DEF EvaluatingTxn

LEMMA BegunOverride ==
  ASSUME Inv, NEW o \in Overrides
  PROVE  [phase |-> "overriding", user |-> o.user, to |-> o.to,
          status |-> CurrentStatus(o.user)] \in OverridingTxn
<1>1. o.user \in Users /\ o.to \in Stages
  BY RequestsAssumption
<1>2. CurrentStatus(o.user) \in Statuses
  BY <1>1, StatusType
<1> QED
  BY <1>1, <1>2 DEF OverridingTxn

LEMMA NotFlushed ==
  ASSUME NEW t, t.phase # "flushed" \/ t \in FlushedNothing
  PROVE  ~HasRow(t)
  BY DEF HasRow, FlushedNothing

LEMMA BeginInv ==
  ASSUME Inv, NEW w \in Workers, Begin(w)
  PROVE  Inv'
<1>1. clock' \in 1 .. MaxClock /\ vouched' \subseteq Users
  BY DEF Begin, BeginEvent, BeginOverride, Inv, Types
<1>2. ASSUME NEW e \in EventRequests, BeginEvent(w, e) PROVE Inv'
  <2> DEFINE t == [phase |-> "evaluating", user |-> e.user, event |-> e,
                   status |-> CurrentStatus(e.user),
                   days |-> DeepDays(events \union {e}, e.user)]
  <2>1. t \in EvaluatingTxn /\ t.phase = "evaluating"
    BY BegunEvent
  <2>2. txn' = [txn EXCEPT ![w] = t] /\ UNCHANGED <<events, transitions, nextId, notices>>
    BY <1>2 DEF BeginEvent
  <2> HIDE DEF t
  <2>3. t \in TxnType /\ ~HasRow(t)
    BY <2>1, NotFlushed DEF TxnType
  <2> QED
    BY <1>1, <2>2, <2>3, TxnInv
<1>3. ASSUME NEW o \in Overrides, BeginOverride(w, o) PROVE Inv'
  <2> DEFINE t == [phase |-> "overriding", user |-> o.user, to |-> o.to,
                   status |-> CurrentStatus(o.user)]
  <2>1. t \in OverridingTxn /\ t.phase = "overriding"
    BY BegunOverride
  <2>2. txn' = [txn EXCEPT ![w] = t] /\ UNCHANGED <<events, transitions, nextId, notices>>
    BY <1>3 DEF BeginOverride
  <2> HIDE DEF t
  <2>3. t \in TxnType /\ ~HasRow(t)
    BY <2>1, NotFlushed DEF TxnType
  <2> QED
    BY <1>1, <2>2, <2>3, TxnInv
<1> QED
  BY <1>2, <1>3 DEF Begin

\* What the rules make of a transaction.
Decided(t, to) ==
  IF to = NoStatus THEN [phase |-> "flushed", event |-> t.event]
  ELSE [phase |-> "stamped", event |-> t.event, row |-> Stamped(t, to, FALSE)]

LEMMA TargetType ==
  ASSUME NEW t, NEW monthly
  PROVE  Target(t, monthly) \in Statuses
  BY StageCases DEF Target, Statuses

LEMMA StampedType ==
  ASSUME Inv, NEW t, t.user \in Users, t.status \in Statuses,
         NEW to \in Stages, NEW manual \in BOOLEAN
  PROVE  Stamped(t, to, manual) \in Stamp
<1>1. clock \in 1 .. MaxClock
  BY DEF Inv, Types
<1> QED
  BY <1>1 DEF Stamped, Stamp, Statuses

LEMMA DecidedType ==
  ASSUME Inv, NEW t \in EvaluatingTxn, NEW to \in Statuses
  PROVE  /\ Decided(t, to) \in TxnType /\ ~HasRow(Decided(t, to))
         /\ Decided(t, to) \in FlushedNothing \union StampedEvent
<1>1. t.event \in EventRequests /\ t.user \in Users /\ t.status \in Statuses
  BY DEF EvaluatingTxn
<1>2. CASE to = NoStatus
  <2>1. Decided(t, to) \in FlushedNothing
    BY <1>1, <1>2 DEF Decided, FlushedNothing
  <2> QED
    BY <2>1, NotFlushed DEF TxnType
<1>3. CASE to # NoStatus
  <2>1. Stamped(t, to, FALSE) \in Stamp
    BY <1>1, <1>3, StampedType DEF Statuses
  <2>2. Decided(t, to) \in StampedEvent
    BY <1>1, <1>3, <2>1 DEF Decided, StampedEvent
  <2>3. Decided(t, to).phase = "stamped"
    BY <2>2 DEF StampedEvent
  <2> QED
    BY <2>2, <2>3, NotFlushed DEF TxnType
<1> QED
  BY <1>2, <1>3

\* An evaluation asks again, or decides; a vouching answer is remembered.
LEMMA Evaluations ==
  ASSUME Inv, NEW w \in Workers, Evaluate(w)
  PROVE  /\ txn[w] \in EvaluatingTxn /\ UNCHANGED <<events, transitions, nextId, clock, notices>>
         /\ \/ /\ txn' = [txn EXCEPT ![w] = [txn[w] EXCEPT !.phase = "asking again"]]
               /\ UNCHANGED vouched
            \/ /\ ~AsksMothership(txn[w])
               /\ txn' = [txn EXCEPT ![w] = Decided(txn[w], Target(txn[w], Zeros))]
               /\ UNCHANGED vouched
            \/ \E answer \in Answers :
               /\ AsksMothership(txn[w])
               /\ txn' = [txn EXCEPT ![w] =
                            Decided(txn[w], Target(txn[w], MonthlyPurchases(answer)))]
               /\ vouched' = IF Vouches(answer) THEN vouched \union {txn[w].user} ELSE vouched
<1>1. txn[w].phase \in {"evaluating", "asking again"}
      /\ UNCHANGED <<events, transitions, nextId, clock, notices>>
  BY DEF Evaluate, AskAgain, EvaluateAlone, EvaluateAnswered
<1>2. txn[w] \in EvaluatingTxn
  BY <1>1, Phases DEF Inv, Types
<1>3. CASE AskAgain(w)
  BY <1>1, <1>2, <1>3 DEF AskAgain
<1>4. CASE EvaluateAlone(w)
  BY <1>1, <1>2, <1>4 DEF EvaluateAlone, Decide, Decided
<1>5. CASE EvaluateAnswered(w)
  BY <1>1, <1>2, <1>5 DEF EvaluateAnswered, Decide, Decided
<1> QED
  BY <1>3, <1>4, <1>5 DEF Evaluate

LEMMA EvaluateInv ==
  ASSUME Inv, NEW w \in Workers, Evaluate(w)
  PROVE  Inv'
<1> DEFINE t == txn[w]
<1>1. t \in EvaluatingTxn /\ UNCHANGED <<events, transitions, nextId, clock, notices>>
  BY Evaluations
<1>2. clock' \in 1 .. MaxClock
  BY <1>1 DEF Inv, Types
<1>3. vouched' \subseteq Users
  BY <1>1, Evaluations DEF Inv, Types, EvaluatingTxn
<1>4. CASE txn' = [txn EXCEPT ![w] = [t EXCEPT !.phase = "asking again"]]
  <2> DEFINE n == [t EXCEPT !.phase = "asking again"]
  <2>1. n \in EvaluatingTxn /\ n.phase = "asking again"
    BY <1>1 DEF EvaluatingTxn
  <2> HIDE DEF n
  <2>2. n \in TxnType /\ ~HasRow(n)
    BY <2>1, NotFlushed DEF TxnType
  <2>3. txn' = [txn EXCEPT ![w] = n]
    BY <1>4 DEF n
  <2> QED
    BY <1>1, <1>2, <1>3, <2>2, <2>3, TxnInv
<1>5. ASSUME NEW to \in Statuses, txn' = [txn EXCEPT ![w] = Decided(t, to)] PROVE Inv'
  <2>1. Decided(t, to) \in TxnType /\ ~HasRow(Decided(t, to))
    BY <1>1, DecidedType
  <2> QED
    BY <1>1, <1>2, <1>3, <1>5, <2>1, TxnInv
<1> QED
  BY <1>4, <1>5, TargetType, Evaluations

LEMMA OverrideInv ==
  ASSUME Inv, NEW w \in Workers, Override(w)
  PROVE  Inv'
<1> DEFINE t == txn[w]
           n == [phase |-> "stamped", row |-> Stamped(t, t.to, TRUE)]
<1>1. t \in OverridingTxn
  BY Phases DEF Override, Inv, Types
<1>2. Stamped(t, t.to, TRUE) \in Stamp
  BY <1>1, StampedType DEF OverridingTxn
<1>3. n \in StampedOverride /\ n.phase = "stamped"
  BY <1>2 DEF StampedOverride
<1>4. /\ txn' = [txn EXCEPT ![w] = n]
      /\ UNCHANGED <<events, transitions, nextId, clock, notices, vouched>>
  BY DEF Override
<1> HIDE DEF n
<1>5. n \in TxnType /\ ~HasRow(n)
  BY <1>3, NotFlushed DEF TxnType
<1> QED
  BY <1>4, <1>5, TxnInv DEF Inv, Types

LEMMA RollbackInv ==
  ASSUME Inv, NEW w \in Workers, Rollback(w)
  PROVE  Inv'
<1>1. Idle \in TxnType /\ ~HasRow(Idle)
  BY DEF TxnType, HasRow, Idle
<1> QED
  BY <1>1, TxnInv DEF Rollback, Inv, Types

\* What a flush makes of a transaction.
Inserted(t, id) == [t EXCEPT !.phase = "flushed", !.row = WithId(t.row, id)]

LEMMA InsertedType ==
  ASSUME NEW t \in StampedEvent \union StampedOverride, NEW id \in 1 .. MaxTransitions
  PROVE  LET n == Inserted(t, id)
         IN  /\ n \in FlushedEvent \union FlushedOverride
             /\ t \in StampedEvent => n \in FlushedEvent /\ n.event = t.event
             /\ t \in StampedOverride => n \in FlushedOverride
             /\ HasRow(n) /\ n.row = WithId(t.row, id)
<1> DEFINE n == Inserted(t, id)
           row == WithId(t.row, id)
<1>1. row \in Transition
  <2>1. t.row \in Stamp
    BY DEF StampedEvent, StampedOverride
  <2> QED
    BY <2>1 DEF Stamp, Transition, WithId
<1>2. n = [t EXCEPT !.phase = "flushed", !.row = row]
  BY DEF Inserted
<1> HIDE DEF row, n
<1>3. CASE t \in StampedEvent
  <2>1. n \in FlushedEvent /\ n.event = t.event /\ n.row = row /\ n.phase = "flushed"
    BY <1>1, <1>2, <1>3 DEF StampedEvent, FlushedEvent
  <2>2. HasRow(n) /\ t \notin StampedOverride
    BY <1>3, <2>1 DEF HasRow, FlushedEvent, StampedEvent, StampedOverride
  <2> QED
    BY <2>1, <2>2 DEF row, n
<1>4. CASE t \in StampedOverride
  <2>1. n \in FlushedOverride /\ n.row = row /\ n.phase = "flushed"
    BY <1>1, <1>2, <1>4 DEF StampedOverride, FlushedOverride
  <2>2. HasRow(n) /\ t \notin StampedEvent
    BY <1>4, <2>1 DEF HasRow, FlushedOverride, StampedEvent, StampedOverride
  <2> QED
    BY <2>1, <2>2 DEF row, n
<1> QED
  BY <1>3, <1>4

LEMMA Insertion ==
  ASSUME Inv, NEW w \in Workers, Insert(w)
  PROVE  /\ txn[w] \in StampedEvent \union StampedOverride /\ nextId \in 1 .. MaxTransitions
         /\ txn[w].row \in Stamp /\ txn[w].row.user \in Users
         /\ txn' = [txn EXCEPT ![w] = Inserted(txn[w], nextId)]
         /\ txn'[w] = Inserted(txn[w], nextId)
         /\ \A v \in Workers \ {w} : txn'[v] = txn[v]
         /\ UNCHANGED <<events, transitions, clock, vouched>> /\ nextId' = nextId + 1
         /\ notices' = [notices EXCEPT ![txn[w].row.user] = @ + 1]
<1>1. txn[w].phase = "stamped"
  BY DEF Insert
<1>2. txn[w] \in StampedEvent \union StampedOverride
  BY <1>1, Phases DEF Inv, Types
<1>3. nextId \in 1 .. MaxTransitions
  BY BoundsAssumption DEF Insert, Inv, Types
<1>4. txn' = [txn EXCEPT ![w] = Inserted(txn[w], nextId)]
  BY DEF Insert, Inserted
<1>5. txn[w].row \in Stamp
  BY <1>2 DEF StampedEvent, StampedOverride
<1>6. txn[w].row.user \in Users
  BY <1>5 DEF Stamp
<1> QED
  BY <1>2, <1>3, <1>4, <1>5, <1>6 DEF Insert, Inv, Types

LEMMA InsertInv ==
  ASSUME Inv, NEW w \in Workers, Insert(w)
  PROVE  Inv'
<1> DEFINE t == txn[w]
           n == Inserted(t, nextId)
<1>1. /\ t \in StampedEvent \union StampedOverride /\ nextId \in 1 .. MaxTransitions
      /\ t.row.user \in Users
      /\ txn' = [txn EXCEPT ![w] = n] /\ txn'[w] = n
      /\ \A v \in Workers \ {w} : txn'[v] = txn[v]
      /\ UNCHANGED <<events, transitions, clock, vouched>> /\ nextId' = nextId + 1
      /\ notices' = [notices EXCEPT ![t.row.user] = @ + 1]
  BY Insertion
<1>2. n \in FlushedEvent \union FlushedOverride /\ n.row = WithId(t.row, nextId)
  BY <1>1, InsertedType
<1>3. n \in TxnType /\ n.row.id = nextId
  BY <1>2 DEF TxnType, WithId
<1>4. nextId' \in 1 .. MaxTransitions + 1 /\ nextId \in Nat
  BY <1>1, BoundsAssumption
<1>5. notices' \in [Users -> 0 .. MaxTransitions] /\ \A u \in Users : notices'[u] < nextId'
  BY <1>1, BoundsAssumption DEF Inv, Types
<1> HIDE DEF n
<1>6. Types'
  BY <1>1, <1>3, <1>4, <1>5 DEF Inv, Types
<1>7. IdsOK'
  <2>1. \A s \in transitions : s.id \in Nat
    BY DEF Inv, Types, Transition
  <2>2. \A v \in Workers : HasRow(txn[v]) => txn[v].row.id \in Nat
    BY RowType DEF Inv, Types, Transition
  <2>3. \A v \in Workers \ {w} : HasRow(txn'[v]) => txn'[v].row.id < nextId
    BY <1>1 DEF Inv, IdsOK
  <2> QED
    BY <1>1, <1>3, <1>4, <2>1, <2>2, <2>3 DEF Inv, IdsOK
<1>8. \A u \in Users : RowsOf(u)' = RowsOf(u)
  BY <1>1 DEF RowsOf
<1> QED
  BY <1>5, <1>6, <1>7, <1>8 DEF Inv

\* What a commit makes visible.
EventOf(t) == IF "event" \in DOMAIN t THEN {t.event} ELSE {}
RowOf(t) == IF HasRow(t) THEN {t.row} ELSE {}

LEMMA Commits ==
  ASSUME Inv, NEW w \in Workers, Commit(w)
  PROVE  /\ txn[w] \in FlushedEvent \union FlushedOverride \union FlushedNothing
         /\ events' = events \union EventOf(txn[w])
         /\ transitions' = transitions \union RowOf(txn[w])
         /\ EventOf(txn[w]) \subseteq EventRequests
         /\ \/ RowOf(txn[w]) = {}
            \/ HasRow(txn[w]) /\ RowOf(txn[w]) = {txn[w].row} /\ txn[w].row \in Transition
         /\ txn' = [txn EXCEPT ![w] = Idle] /\ UNCHANGED <<nextId, clock, notices, vouched>>
<1>1. txn[w].phase = "flushed"
  BY DEF Commit
<1>2. txn[w] \in FlushedEvent \union FlushedOverride \union FlushedNothing
  BY <1>1, Phases DEF Inv, Types
<1>3. EventOf(txn[w]) \subseteq EventRequests
  BY <1>2 DEF EventOf, FlushedEvent, FlushedOverride, FlushedNothing
<1>4. HasRow(txn[w]) => txn[w].row \in Transition
  BY RowType DEF Inv, Types
<1> QED
  BY <1>1, <1>2, <1>3, <1>4 DEF Commit, EventOf, RowOf, HasRow

LEMMA CommitInv ==
  ASSUME Inv, NEW w \in Workers, Commit(w)
  PROVE  Inv'
<1> DEFINE t == txn[w]
<1>1. /\ events' = events \union EventOf(t)
      /\ transitions' = transitions \union RowOf(t)
      /\ EventOf(t) \subseteq EventRequests
      /\ \/ RowOf(t) = {}
         \/ HasRow(t) /\ RowOf(t) = {t.row} /\ t.row \in Transition
      /\ txn' = [txn EXCEPT ![w] = Idle] /\ UNCHANGED <<nextId, clock, notices, vouched>>
  BY Commits
<1>2. Idle \in TxnType /\ ~HasRow(Idle)
  BY DEF TxnType, HasRow, Idle
<1>3. txn'[w] = Idle /\ \A v \in Workers \ {w} : txn'[v] = txn[v]
  BY <1>1 DEF Inv, Types
<1>4. Types'
  BY <1>1, <1>2 DEF Inv, Types
<1>5. IdsOK'
  BY <1>1, <1>2, <1>3 DEF Inv, IdsOK
<1>6. ASSUME NEW u \in Users PROVE RowsOf(u)' = {} \/ \E x : Latest(x, RowsOf(u)')
  <2>1. RowsOf(u) \subseteq Transition /\ (RowsOf(u) = {} \/ \E x : Latest(x, RowsOf(u)))
    BY DEF Inv, Types, RowsOf
  <2>2. CASE RowsOf(u)' = RowsOf(u)
    BY <2>1, <2>2
  <2>3. CASE RowsOf(u)' # RowsOf(u)
    <3>1. HasRow(t) /\ t.row \in Transition /\ RowsOf(u)' = RowsOf(u) \union {t.row}
      BY <1>1, <2>3 DEF RowsOf
    <3>2. \A s \in RowsOf(u) : s.id # t.row.id
      BY <3>1 DEF Inv, IdsOK, RowsOf
    <3> QED
      BY <2>1, <3>1, <3>2, LatestOfMore
  <2> QED
    BY <2>2, <2>3
<1> QED
  BY <1>1, <1>4, <1>5, <1>6 DEF Inv

LEMMA TickInv ==
  ASSUME Inv, Tick \/ UNCHANGED vars
  PROVE  Inv'
<1>1. UNCHANGED <<events, transitions, nextId, notices, txn, vouched>> /\ clock' \in 1 .. MaxClock
  BY BoundsAssumption DEF Tick, vars, Inv, Types
<1>2. \A u \in Users : RowsOf(u)' = RowsOf(u)
  BY <1>1 DEF RowsOf
<1>3. IdsOK'
  BY <1>1 DEF Inv, IdsOK
<1> QED
  BY <1>1, <1>2, <1>3 DEF Inv, Types

LEMMA NextInv == Inv /\ [Next]_vars => Inv'
<1> SUFFICES ASSUME Inv, [Next]_vars PROVE Inv'
  OBVIOUS
<1>1. ASSUME NEW w \in Workers, Work(w) PROVE Inv'
  BY <1>1, EvaluateInv, OverrideInv, InsertInv, CommitInv, RollbackInv DEF Work
<1> QED
  BY <1>1, BeginInv, TickInv DEF Next

\* The tables, the ids and the notices keep their types, with any number of
\* overlapping requests.
THEOREM Typing == Spec => []TypeOK
<1>1. Inv => TypeOK
  BY DEF Inv, Types, TypeOK
<1> QED
  BY <1>1, InitInv, NextInv, PTL DEF Spec

-----------------------------------------------------------------------------
(* Every stage is earned, with any number of requests.                     *)

\* User u has what stage i asks for, or was lifted to it or beyond.
Earned(u, i) ==
  \/ Evidence(u, STATES[i])
  \/ \E s \in transitions : s.user = u /\ s.manual /\ Rank(s.to) >= i

\* Days on which rows has an engagement.deep event of u.
DeepIn(rows, u) == {f.day : f \in {g \in rows : g.user = u /\ g.type = DEEP}}

\* The event of t, with the events that are stored, is what the rule for stage
\* `to' asks for.
Backed(t, u, to) ==
  /\ t.event.user = u
  /\ CASE to = "loyalist" ->
            \/ t.event.type = "subscription.premium_active"
            \/ Streak(DeepIn(events \union {t.event}, u), t.event.day)
       [] to = "applicant" ->
            t.event.type \in {"franchise.cta_click", "mothership.consultation_submitted"}
       [] to = "franchisee_self_use" ->
            t.event.type = "mothership.first_order" /\ t.event.amount >= FIRST_ORDER_THRESHOLD
       [] to = "franchisee_active" ->
            t.event.type = "academy.operator_portal_click" \/ u \in vouched
       [] OTHER -> FALSE

\* What an open transaction may rely on.
ReadOK(t) ==
  /\ t.event.user = t.user
  /\ t.days \subseteq DeepIn(events \union {t.event}, t.user)
  /\ \A i \in 1 .. Rank(t.status) : Earned(t.user, i)

\* A row of a rule goes up one stage, from one that is earned, for its event.
RuleRow(t) ==
  /\ "event" \in DOMAIN t
  /\ Rank(t.row.to) = Rank(t.row.from) + 1
  /\ \A i \in 1 .. Rank(t.row.from) : Earned(t.row.user, i)
  /\ Backed(t, t.row.user, t.row.to)

TxnEarned(t) ==
  /\ t.phase \in {"evaluating", "asking again"} => ReadOK(t)
  /\ t.phase = "stamped" \/ HasRow(t) => t.row.manual \/ RuleRow(t)

EarnInv ==
  /\ StageEarned
  /\ \A w \in Workers, t \in TxnType : txn[w] = t => TxnEarned(t)

\* Nothing that was stored, vouched for or overridden is taken back.
More == events \subseteq events' /\ transitions \subseteq transitions' /\ vouched \subseteq vouched'

LEMMA StreakMonotone ==
  ASSUME NEW A, NEW B, A \subseteq B, NEW today, Streak(A, today)
  PROVE  Streak(B, today)
  BY DEF Streak

LEMMA DeepInMonotone ==
  ASSUME NEW R, NEW S, R \subseteq S, NEW u
  PROVE  DeepIn(R, u) \subseteq DeepIn(S, u)
  BY DEF DeepIn

LEMMA EvidenceStays ==
  ASSUME More, NEW u, NEW stage \in Stages, Evidence(u, stage)
  PROVE  Evidence(u, stage)'
<1>1. DeepIn(events, u) \subseteq DeepIn(events', u)
  BY DeepInMonotone DEF More
<1>2. CASE stage = "loyalist"
  <2>1. CASE \E e \in events : e.user = u /\ e.type \in {"subscription.premium_active"}
    BY <1>2, <2>1 DEF Evidence, More
  <2>2. ASSUME NEW e \in events, Streak(DeepIn(events, u), e.day) PROVE Evidence(u, stage)'
    <3>1. Streak(DeepIn(events', u), e.day) /\ e \in events'
      BY <1>1, <2>2, StreakMonotone DEF More
    <3> QED
      BY <1>2, <3>1 DEF Evidence, DeepIn
  <2> QED
    BY <1>2, <2>1, <2>2 DEF Evidence, DeepIn
<1>3. CASE stage # "loyalist"
  BY <1>3, StageCases DEF Evidence, More
<1> QED
  BY <1>2, <1>3

LEMMA StageOf ==
  ASSUME NEW i \in 1 .. 5
  PROVE  STATES[i] \in Stages
  BY DEF Stages

LEMMA EarnedStays ==
  ASSUME More, NEW u, NEW i \in 1 .. 5, Earned(u, i)
  PROVE  Earned(u, i)'
  BY EvidenceStays, StageOf DEF Earned, More

LEMMA RanksEarnedStay ==
  ASSUME More, NEW u, NEW s \in Statuses, \A i \in 1 .. Rank(s) : Earned(u, i)
  PROVE  \A i \in 1 .. Rank(s) : Earned(u, i)'
  BY StageRank, EarnedStays

LEMMA BackedStays ==
  ASSUME More, NEW t, NEW u, NEW to, Backed(t, u, to)
  PROVE  Backed(t, u, to)'
<1>1. DeepIn(events \union {t.event}, u) \subseteq DeepIn(events' \union {t.event}, u)
  BY DeepInMonotone DEF More
<1>2. CASE to = "loyalist"
  BY <1>1, <1>2, StreakMonotone DEF Backed
<1>3. CASE to # "loyalist"
  BY <1>3 DEF Backed, More
<1> QED
  BY <1>2, <1>3

LEMMA TxnEarnedStays ==
  ASSUME More, NEW t \in TxnType, TxnEarned(t)
  PROVE  TxnEarned(t)'
<1>1. ASSUME t.phase \in {"evaluating", "asking again"} PROVE ReadOK(t)'
  <2>1. ReadOK(t)
    BY <1>1 DEF TxnEarned
  <2>2. DeepIn(events \union {t.event}, t.user) \subseteq DeepIn(events' \union {t.event}, t.user)
    BY DeepInMonotone DEF More
  <2>3. t.status \in Statuses
    BY <1>1, Phases DEF EvaluatingTxn
  <2> QED
    BY <2>1, <2>2, <2>3, RanksEarnedStay DEF ReadOK
<1>2. ASSUME t.phase = "stamped" \/ HasRow(t), RuleRow(t) PROVE RuleRow(t)'
  <2>1. t.row.from \in Statuses
    BY <1>2, Phases
       DEF StampedEvent, StampedOverride, FlushedEvent, FlushedOverride, Stamp, Transition, Statuses
  <2> QED
    BY <1>2, <2>1, RanksEarnedStay, BackedStays DEF RuleRow
<1>3. HasRow(t)' = HasRow(t)
  BY DEF HasRow
<1> QED
  BY <1>1, <1>2, <1>3 DEF TxnEarned

\* One transaction moves on to t.
LEMMA TxnEarn ==
  ASSUME Inv, EarnInv, More, NEW w \in Workers, NEW t, txn' = [txn EXCEPT ![w] = t],
         TxnEarned(t)', UNCHANGED transitions
  PROVE  EarnInv'
<1>1. txn'[w] = t /\ \A v \in Workers \ {w} : txn'[v] = txn[v]
  BY DEF Inv, Types
<1>2. ASSUME NEW v \in Workers, NEW x \in TxnType, txn'[v] = x PROVE TxnEarned(x)'
  <2>1. CASE v = w
    BY <1>1, <1>2, <2>1
  <2>2. CASE v # w
    <3>1. TxnEarned(x)
      BY <1>1, <1>2, <2>2 DEF EarnInv
    <3> QED
      BY <3>1, TxnEarnedStays
  <2> QED
    BY <2>1, <2>2
<1>3. StageEarned'
  <2>1. \A s \in transitions : \A i \in 1 .. Rank(s.to) : Earned(s.user, i)
    BY DEF EarnInv, StageEarned, Earned
  <2>2. \A s \in transitions : s.to \in Statuses
    BY DEF Inv, Types, Transition, Statuses
  <2>3. \A s \in transitions : \A i \in 1 .. Rank(s.to) : Earned(s.user, i)'
    BY <2>1, <2>2, RanksEarnedStay
  <2> QED
    BY <2>3 DEF StageEarned, Earned
<1> QED
  BY <1>2, <1>3 DEF EarnInv

\* What is earned stays earned while no row is committed.
LEMMA StagesStayEarned ==
  ASSUME Inv, EarnInv, More
  PROVE  \A s \in transitions : \A i \in 1 .. Rank(s.to) : Earned(s.user, i)'
<1>1. \A s \in transitions : \A i \in 1 .. Rank(s.to) : Earned(s.user, i)
  BY DEF EarnInv, StageEarned, Earned
<1>2. \A s \in transitions : s.to \in Statuses
  BY DEF Inv, Types, Transition, Statuses
<1> QED
  BY <1>1, <1>2, RanksEarnedStay

\* A transaction that is as it should be now replaces that of w.
LEMMA TxnEarnNow ==
  ASSUME Inv, EarnInv, NEW w \in Workers, NEW t \in TxnType, TxnEarned(t),
         txn' = [txn EXCEPT ![w] = t], UNCHANGED <<events, transitions, vouched>>
  PROVE  EarnInv'
<1>1. More
  BY DEF More
<1>2. TxnEarned(t)'
  BY <1>1, TxnEarnedStays
<1> QED
  BY <1>1, <1>2, TxnEarn

LEMMA LatestStatus ==
  ASSUME Inv, NEW u \in Users, RowsOf(u) # {}
  PROVE  \E t \in RowsOf(u) : CurrentStatus(u) = t.to /\ Latest(t, RowsOf(u))
<1>1. PICK t : Latest(t, RowsOf(u))
  BY DEF Inv
<1>2. RowsOf(u) \subseteq Transition
  BY DEF Inv, Types, RowsOf
<1>3. CurrentStatus(u) = t.to
  BY <1>1, <1>2, StatusOfLatest, CurrentStatusIn
<1> QED
  BY <1>1, <1>3 DEF Latest

LEMMA NoRowsNoStatus ==
  ASSUME NEW u, RowsOf(u) = {}
  PROVE  CurrentStatus(u) = NoStatus
  BY DEF CurrentStatus

LEMMA StatusEarned ==
  ASSUME Inv, EarnInv, NEW u \in Users
  PROVE  \A i \in 1 .. Rank(CurrentStatus(u)) : Earned(u, i)
<1>1. CASE RowsOf(u) = {}
  <2>1. Rank(CurrentStatus(u)) = 1
    BY <1>1, NoRowsNoStatus, RankOfStages
  <2>2. Earned(u, 1)
    BY DEF Earned, Evidence, STATES
  <2> QED
    BY <2>1, <2>2
<1>2. CASE RowsOf(u) # {}
  <2>1. PICK t \in RowsOf(u) : CurrentStatus(u) = t.to
    BY <1>2, LatestStatus
  <2>2. t \in transitions /\ t.user = u
    BY DEF RowsOf
  <2> QED
    BY <2>1, <2>2 DEF EarnInv, StageEarned, Earned
<1> QED
  BY <1>1, <1>2

LEMMA BeginEarn ==
  ASSUME Inv, EarnInv, NEW w \in Workers, Begin(w)
  PROVE  EarnInv'
<1>1. ASSUME NEW e \in EventRequests, BeginEvent(w, e) PROVE EarnInv'
  <2> DEFINE D == DeepDays(events \union {e}, e.user)
             t == [phase |-> "evaluating", user |-> e.user, event |-> e,
                   status |-> CurrentStatus(e.user), days |-> D]
  <2>1. t \in EvaluatingTxn
    BY BegunEvent
  <2>2. e.user \in Users
    BY RequestsAssumption
  <2>3. D \subseteq DeepIn(events \union {e}, e.user)
    BY DEF DeepDays, DeepIn
  <2>4. \A i \in 1 .. Rank(CurrentStatus(e.user)) : Earned(e.user, i)
    BY <2>2, StatusEarned
  <2>5. ReadOK(t)
    <3> HIDE DEF D
    <3> QED
      BY <2>3, <2>4 DEF ReadOK
  <2>6. t.phase = "evaluating"
    OBVIOUS
  <2>7. txn' = [txn EXCEPT ![w] = t] /\ UNCHANGED <<events, transitions, vouched>>
    BY <1>1 DEF BeginEvent
  <2> HIDE DEF t
  <2>8. TxnEarned(t)
    BY <2>5, <2>6 DEF TxnEarned, HasRow
  <2> QED
    BY <2>1, <2>7, <2>8, TxnEarnNow DEF TxnType
<1>2. ASSUME NEW o \in Overrides, BeginOverride(w, o) PROVE EarnInv'
  <2> DEFINE t == [phase |-> "overriding", user |-> o.user, to |-> o.to,
                   status |-> CurrentStatus(o.user)]
  <2>1. t \in OverridingTxn /\ t.phase = "overriding"
    BY BegunOverride
  <2>2. txn' = [txn EXCEPT ![w] = t] /\ UNCHANGED <<events, transitions, vouched>>
    BY <1>2 DEF BeginOverride
  <2> HIDE DEF t
  <2>3. TxnEarned(t)
    BY <2>1 DEF TxnEarned, HasRow
  <2> QED
    BY <2>1, <2>2, <2>3, TxnEarnNow DEF TxnType
<1> QED
  BY <1>1, <1>2 DEF Begin

\* No fallback of the client is taken for purchases (mothership.py:213-260):
\* months that suffice were listed by an answer that vouches for the user.
LEMMA ZerosDoNotBuy == ~Buying(Zeros)
<1>1. 1 \in 1 .. REQUIRED_MONTHS
  BY MonthsAssumption
<1>2. Zeros[1] = 0
  BY <1>1 DEF Zeros
<1> QED
  BY <1>1, <1>2, MonthsAssumption DEF Buying

LEMMA BuyingVouches ==
  ASSUME NEW answer \in Answers, Buying(MonthlyPurchases(answer))
  PROVE  Vouches(answer)
<1>1. answer.months \in Seq(Nat)
  BY RequestsAssumption
<1>2. answer.kind = "200"
  BY ZerosDoNotBuy DEF MonthlyPurchases
<1>3. \A i \in 1 .. REQUIRED_MONTHS :
        (IF i <= Len(answer.months) THEN answer.months[i] ELSE 0) > MONTHLY_THRESHOLD
  BY <1>2 DEF Buying, MonthlyPurchases
<1>4. \A i \in 1 .. REQUIRED_MONTHS :
        i <= Len(answer.months) /\ answer.months[i] > MONTHLY_THRESHOLD
  BY <1>3, MonthsAssumption
<1>5. Len(answer.months) >= REQUIRED_MONTHS
  BY <1>1, <1>4, MonthsAssumption
<1> QED
  BY <1>2, <1>4, <1>5 DEF Vouches

\* A rule that fires goes up one stage and has its event.
LEMMA Fired ==
  ASSUME NEW t \in EvaluatingTxn, ReadOK(t), NEW monthly, Target(t, monthly) # NoStatus,
         More, Buying(monthly) => t.user \in vouched'
  PROVE  /\ Rank(Target(t, monthly)) = Rank(t.status) + 1
         /\ Backed(t, t.user, Target(t, monthly))'
<1> DEFINE to == Target(t, monthly)
<1>1. t.event.user = t.user /\ t.days \subseteq DeepIn(events' \union {t.event}, t.user)
  BY DeepInMonotone DEF ReadOK, More
<1>2. \/ VisitorToLoyalist(t) /\ to = "loyalist"
      \/ LoyalistToApplicant(t) /\ to = "applicant"
      \/ ApplicantToSelfUse(t) /\ to = "franchisee_self_use"
      \/ SelfUseToActive(t, monthly) /\ to = "franchisee_active"
  BY DEF Target
<1> HIDE DEF to
<1>3. CASE VisitorToLoyalist(t) /\ to = "loyalist"
  <2>1. Rank(to) = Rank(t.status) + 1
    BY <1>3, RankOfStages DEF VisitorToLoyalist
  <2>2. \/ t.event.type = "subscription.premium_active"
        \/ Streak(DeepIn(events' \union {t.event}, t.user), t.event.day)
    BY <1>1, <1>3, StreakMonotone DEF VisitorToLoyalist
  <2> QED
    BY <1>1, <1>3, <2>1, <2>2 DEF Backed, to
<1>4. CASE LoyalistToApplicant(t) /\ to = "applicant"
  BY <1>1, <1>4, RankOfStages DEF Backed, to, LoyalistToApplicant
<1>5. CASE ApplicantToSelfUse(t) /\ to = "franchisee_self_use"
  BY <1>1, <1>5, RankOfStages DEF Backed, to, ApplicantToSelfUse
<1>6. CASE SelfUseToActive(t, monthly) /\ to = "franchisee_active"
  BY <1>1, <1>6, RankOfStages DEF Backed, to, SelfUseToActive
<1> QED
  BY <1>2, <1>3, <1>4, <1>5, <1>6 DEF to

LEMMA DecidedEarned ==
  ASSUME Inv, NEW t \in EvaluatingTxn, ReadOK(t), NEW monthly,
         More, Buying(monthly) => t.user \in vouched',
         NEW n, n = Decided(t, Target(t, monthly))
  PROVE  TxnEarned(n)'
<1> DEFINE to == Target(t, monthly)
<1>1. CASE to = NoStatus
  <2>1. n \in FlushedNothing
    BY <1>1 DEF Decided, FlushedNothing, EvaluatingTxn
  <2>2. ~("row" \in DOMAIN n) /\ n.phase = "flushed"
    BY <2>1 DEF FlushedNothing
  <2> QED
    BY <2>2 DEF TxnEarned, HasRow
<1>2. CASE to # NoStatus
  <2>1. n = [phase |-> "stamped", event |-> t.event, row |-> Stamped(t, to, FALSE)]
    BY <1>2 DEF Decided
  <2>2. Rank(to) = Rank(t.status) + 1 /\ Backed(t, t.user, to)'
    BY <1>2, Fired
  <2>3. /\ n.row.user = t.user /\ n.row.from = t.status /\ n.row.to = to
        /\ "event" \in DOMAIN n /\ n.event = t.event /\ n.phase = "stamped"
    BY <2>1 DEF Stamped
  <2>4. \A i \in 1 .. Rank(t.status) : Earned(t.user, i)'
    BY RanksEarnedStay DEF ReadOK, EvaluatingTxn
  <2> HIDE DEF to
  <2>5. Backed(n, t.user, to)'
    BY <2>2, <2>3 DEF Backed
  <2>6. RuleRow(n)'
    BY <2>2, <2>3, <2>4, <2>5 DEF RuleRow
  <2> QED
    BY <2>3, <2>6 DEF TxnEarned
<1> QED
  BY <1>1, <1>2

LEMMA EvaluateEarn ==
  ASSUME Inv, EarnInv, NEW w \in Workers, Evaluate(w)
  PROVE  EarnInv'
<1> DEFINE t == txn[w]
<1>1. t \in EvaluatingTxn /\ UNCHANGED <<events, transitions, nextId, clock, notices>>
  BY Evaluations
<1>2. t.phase \in {"evaluating", "asking again"} /\ t \in TxnType
  BY <1>1 DEF EvaluatingTxn, TxnType
<1>3. TxnEarned(t) /\ ReadOK(t)
  <2>1. TxnEarned(t)
    BY <1>2 DEF EarnInv
  <2> QED
    BY <1>2, <2>1 DEF TxnEarned
<1>4. CASE txn' = [txn EXCEPT ![w] = [t EXCEPT !.phase = "asking again"]] /\ UNCHANGED vouched
  <2> DEFINE n == [t EXCEPT !.phase = "asking again"]
  <2>1. n \in EvaluatingTxn /\ n.phase = "asking again"
        /\ n.user = t.user /\ n.event = t.event /\ n.days = t.days /\ n.status = t.status
    BY <1>1 DEF EvaluatingTxn
  <2> HIDE DEF n
  <2>2. TxnEarned(n)
    BY <1>3, <2>1 DEF TxnEarned, ReadOK, HasRow
  <2>3. txn' = [txn EXCEPT ![w] = n]
    BY <1>4 DEF n
  <2> QED
    BY <1>1, <1>4, <2>1, <2>2, <2>3, TxnEarnNow DEF TxnType
<1>5. ASSUME NEW monthly, More, Buying(monthly) => t.user \in vouched',
             txn' = [txn EXCEPT ![w] = Decided(t, Target(t, monthly))]
      PROVE  EarnInv'
  <2>1. \A r \in EvaluatingTxn : \A n :
          r = t /\ n = Decided(r, Target(r, monthly)) => TxnEarned(n)'
    BY <1>3, <1>5, DecidedEarned
  <2>2. \A n : n = Decided(t, Target(t, monthly)) => TxnEarned(n)'
    BY <1>1, <2>1
  <2>3. PICK n : n = Decided(t, Target(t, monthly))
    OBVIOUS
  <2> QED
    BY <1>1, <1>5, <2>2, <2>3, TxnEarn
<1>6. CASE /\ txn' = [txn EXCEPT ![w] = Decided(t, Target(t, Zeros))]
           /\ UNCHANGED vouched
  <2>1. More
    BY <1>1, <1>6 DEF More
  <2> QED
    BY <1>5, <1>6, <2>1, ZerosDoNotBuy
<1>7. ASSUME NEW answer \in Answers,
             txn' = [txn EXCEPT ![w] = Decided(t, Target(t, MonthlyPurchases(answer)))],
             vouched' = IF Vouches(answer) THEN vouched \union {t.user} ELSE vouched
      PROVE  EarnInv'
  <2>1. More
    BY <1>1, <1>7 DEF More
  <2>2. Buying(MonthlyPurchases(answer)) => t.user \in vouched'
    BY <1>7, BuyingVouches
  <2> QED
    BY <1>5, <1>7, <2>1, <2>2
<1> QED
  BY <1>4, <1>6, <1>7, Evaluations

LEMMA OverrideEarn ==
  ASSUME Inv, EarnInv, NEW w \in Workers, Override(w)
  PROVE  EarnInv'
<1> DEFINE t == txn[w]
           row == Stamped(t, t.to, TRUE)
           n == [phase |-> "stamped", row |-> row]
<1>1. t \in OverridingTxn
  BY Phases DEF Override, Inv, Types
<1>2. row \in Stamp
  BY <1>1, StampedType DEF OverridingTxn
<1>3. row.manual = TRUE
  BY DEF Stamped
<1>4. txn' = [txn EXCEPT ![w] = n] /\ UNCHANGED <<events, transitions, vouched>>
  BY DEF Override
<1> HIDE DEF row
<1>5. n \in StampedOverride /\ n.phase = "stamped" /\ n.row = row
  BY <1>2 DEF StampedOverride
<1> HIDE DEF n
<1>6. TxnEarned(n)
  BY <1>3, <1>5 DEF TxnEarned
<1> QED
  BY <1>4, <1>5, <1>6, TxnEarnNow DEF TxnType

LEMMA InsertEarn ==
  ASSUME Inv, EarnInv, NEW w \in Workers, Insert(w)
  PROVE  EarnInv'
<1> DEFINE t == txn[w]
           n == Inserted(t, nextId)
<1>1. /\ t \in StampedEvent \union StampedOverride /\ nextId \in 1 .. MaxTransitions
      /\ txn' = [txn EXCEPT ![w] = n] /\ UNCHANGED <<events, transitions, vouched>>
  BY Insertion
<1>2. /\ n \in FlushedEvent \union FlushedOverride
      /\ t \in StampedEvent => n \in FlushedEvent /\ n.event = t.event
      /\ t \in StampedOverride => n \in FlushedOverride
      /\ n.row = WithId(t.row, nextId)
  BY <1>1, InsertedType
<1>3. n.row.user = t.row.user /\ n.row.from = t.row.from /\ n.row.to = t.row.to
      /\ n.row.manual = t.row.manual
  BY <1>2 DEF WithId
<1>4. t.row.manual \/ RuleRow(t)
  <2>1. t \in TxnType /\ t.phase = "stamped"
    BY <1>1 DEF TxnType, StampedEvent, StampedOverride
  <2> QED
    BY <2>1 DEF EarnInv, TxnEarned
<1> HIDE DEF n
<1>5. CASE t.row.manual
  BY <1>1, <1>2, <1>3, <1>5, TxnEarnNow
     DEF TxnEarned, TxnType, FlushedEvent, FlushedOverride
<1>6. CASE RuleRow(t)
  <2>1. t \in StampedEvent
    BY <1>1, <1>6 DEF RuleRow, StampedOverride
  <2>2. n \in FlushedEvent /\ n.event = t.event /\ n.phase = "flushed" /\ "event" \in DOMAIN n
    BY <1>2, <2>1 DEF FlushedEvent
  <2>3. RuleRow(n)
    BY <1>3, <1>6, <2>2 DEF RuleRow, Backed
  <2>4. TxnEarned(n)
    BY <2>2, <2>3 DEF TxnEarned
  <2> QED
    BY <1>1, <1>2, <2>4, TxnEarnNow DEF TxnType
<1> QED
  BY <1>4, <1>5, <1>6

\* The event that is committed with the row of a rule is the evidence.
LEMMA BackedIsEvidence ==
  ASSUME NEW t, NEW u, NEW to \in Stages, Backed(t, u, to), t.event \in events', More
  PROVE  Evidence(u, to)'
<1>1. DeepIn(events \union {t.event}, u) \subseteq DeepIn(events', u)
  BY DeepInMonotone DEF More
<1>2. CASE to = "loyalist"
  <2>1. CASE t.event.type = "subscription.premium_active"
    BY <1>2, <2>1 DEF Backed, Evidence
  <2>2. CASE Streak(DeepIn(events \union {t.event}, u), t.event.day)
    <3>1. Streak(DeepIn(events', u), t.event.day)
      BY <1>1, <2>2, StreakMonotone
    <3> QED
      BY <1>2, <3>1 DEF Evidence, DeepIn
  <2> QED
    BY <1>2, <2>1, <2>2 DEF Backed
<1>3. CASE to = "applicant"
  BY <1>3 DEF Backed, Evidence
<1>4. CASE to = "franchisee_self_use"
  BY <1>4 DEF Backed, Evidence
<1>5. CASE to = "franchisee_active"
  BY <1>5 DEF Backed, Evidence, More
<1>6. CASE to = "visitor"
  BY <1>6 DEF Evidence
<1> QED
  BY <1>2, <1>3, <1>4, <1>5, <1>6, StageCases

\* The row that is committed is earned.
LEMMA RowEarned ==
  ASSUME Inv, EarnInv, NEW w \in Workers, Commit(w), NEW t, t = txn[w], HasRow(t)
  PROVE  \A i \in 1 .. Rank(t.row.to) : Earned(t.row.user, i)'
<1> DEFINE row == t.row
<1>1. t \in TxnType /\ row \in Transition
  BY RowType DEF Inv, Types
<1>2. More /\ row \in transitions'
  BY Commits DEF More, RowOf
<1>3. row.manual \/ RuleRow(t)
  BY <1>1 DEF EarnInv, TxnEarned
<1>4. row.to \in Stages /\ row.from \in Statuses
  BY <1>1 DEF Transition, Statuses
<1>5. CASE row.manual
  <2>1. row.to \in Statuses
    BY <1>4 DEF Statuses
  <2>2. \A i \in 1 .. Rank(row.to) : i \in 1 .. 5 /\ Rank(row.to) >= i
    BY <2>1, StageRank
  <2> QED
    BY <1>2, <1>5, <2>2 DEF Earned
<1>6. CASE RuleRow(t)
  <2>1. t.event \in events'
    BY <1>6, Commits DEF RuleRow, EventOf
  <2>2. Evidence(row.user, row.to)'
    BY <1>2, <1>4, <1>6, <2>1, BackedIsEvidence DEF RuleRow
  <2>3. Earned(row.user, Rank(row.to))'
    <3>1. STATES[Rank(row.to)] = row.to
      BY <1>4, StageRank, StageCases DEF Statuses, NoStatus
    <3> QED
      BY <2>2, <3>1 DEF Earned
  <2>4. \A i \in 1 .. Rank(row.from) : Earned(row.user, i)'
    BY <1>2, <1>4, <1>6, RanksEarnedStay DEF RuleRow
  <2>5. Rank(row.to) = Rank(row.from) + 1 /\ Rank(row.from) \in 1 .. 5
    BY <1>4, <1>6, StageRank DEF RuleRow
  <2> QED
    BY <2>3, <2>4, <2>5
<1> QED
  BY <1>3, <1>5, <1>6

LEMMA CommitEarn ==
  ASSUME Inv, EarnInv, NEW w \in Workers, Commit(w)
  PROVE  EarnInv'
<1> DEFINE t == txn[w]
<1>1. /\ transitions' = transitions \union RowOf(t)
      /\ txn' = [txn EXCEPT ![w] = Idle]
      /\ More
  BY Commits DEF More
<1>2. \A s \in transitions : \A i \in 1 .. Rank(s.to) : Earned(s.user, i)'
  BY <1>1, StagesStayEarned
<1>3. \A s \in RowOf(t) : \A i \in 1 .. Rank(s.to) : Earned(s.user, i)'
  <2>1. \A r : r = t /\ HasRow(r) => \A i \in 1 .. Rank(r.row.to) : Earned(r.row.user, i)'
    BY RowEarned
  <2> QED
    BY <2>1 DEF RowOf
<1>4. StageEarned'
  BY <1>1, <1>2, <1>3 DEF StageEarned, Earned
<1>5. ASSUME NEW v \in Workers, NEW x \in TxnType, txn'[v] = x PROVE TxnEarned(x)'
  <2>1. CASE v = w
    <3>1. x = Idle
      BY <1>1, <1>5, <2>1 DEF Inv, Types
    <3> QED
      BY <3>1 DEF TxnEarned, HasRow, Idle
  <2>2. CASE v # w
    <3>1. TxnEarned(x)
      BY <1>1, <1>5, <2>2 DEF EarnInv, Inv, Types
    <3> QED
      BY <1>1, <3>1, TxnEarnedStays
  <2> QED
    BY <2>1, <2>2
<1> QED
  BY <1>4, <1>5 DEF EarnInv

LEMMA IdleEarned == TxnEarned(Idle) /\ Idle \in TxnType
  BY DEF TxnEarned, HasRow, Idle, TxnType

LEMMA RollbackEarn ==
  ASSUME Inv, EarnInv, NEW w \in Workers, Rollback(w)
  PROVE  EarnInv'
  BY IdleEarned, TxnEarnNow DEF Rollback

LEMMA TickEarn ==
  ASSUME Inv, EarnInv, UNCHANGED <<events, transitions, txn, vouched>>
  PROVE  EarnInv'
<1>1. More
  BY DEF More
<1>2. StageEarned'
  BY <1>1, StagesStayEarned DEF StageEarned, Earned
<1> QED
  BY <1>1, <1>2, TxnEarnedStays DEF EarnInv

LEMMA InitEarn == Init => EarnInv
<1> SUFFICES ASSUME Init PROVE EarnInv
  OBVIOUS
<1> QED
  BY IdleEarned DEF Init, EarnInv, StageEarned

LEMMA NextEarn == Inv /\ EarnInv /\ [Next]_vars => EarnInv'
<1> SUFFICES ASSUME Inv, EarnInv, [Next]_vars PROVE EarnInv'
  OBVIOUS
<1>1. ASSUME NEW w \in Workers, Work(w) PROVE EarnInv'
  BY <1>1, EvaluateEarn, OverrideEarn, InsertEarn, CommitEarn, RollbackEarn DEF Work
<1>2. Tick \/ UNCHANGED vars => UNCHANGED <<events, transitions, txn, vouched>>
  BY DEF Tick, vars
<1> QED
  BY <1>1, <1>2, BeginEarn, TickEarn DEF Next

\* No stage is skipped (lifecycle.py:75-228), for any streak, thresholds and
\* answers and with any number of overlapping requests: who stands on a stage
\* has stored what it and every stage below it ask for, or an override took her
\* there.
THEOREM StagesEarned == Spec => []StageEarned
<1>1. EarnInv => StageEarned
  BY DEF EarnInv
<1>2. Spec => []Inv
  BY InitInv, NextInv, PTL DEF Spec
<1> QED
  BY <1>1, <1>2, InitEarn, NextEarn, PTL DEF Spec

=============================================================================
