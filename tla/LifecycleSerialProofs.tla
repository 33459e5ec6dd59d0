------------------------ MODULE LifecycleSerialProofs ------------------------
(***************************************************************************)
(* What holds of Lifecycle besides, for any users, requests, answers and   *)
(* thresholds, when requests come one at a time: the history of a user is  *)
(* one chain, the funnel agrees with get_current_status, rules never       *)
(* regress, and the whole implements Journey.                              *)
(***************************************************************************)
EXTENDS LifecycleProofs

\* No two requests overlap.
OneAtATime == \A v, w \in Workers : v = w

\* What was read is still so, and a row about to be committed is the latest.
TxnSerial(t) ==
  /\ t.phase \in {"evaluating", "asking again", "overriding"} => t.status = CurrentStatus(t.user)
  /\ t.phase = "stamped" \/ HasRow(t) =>
       /\ t.row.from = CurrentStatus(t.row.user)
       /\ t.row.at <= clock
       /\ \A s \in transitions : s.at <= t.row.at
       /\ "event" \in DOMAIN t => ~t.row.manual
  /\ HasRow(t) => \A s \in transitions : s.id < t.row.id

SerialInv ==
  /\ \A s \in transitions : s.at <= clock
  /\ \A s, t \in transitions : s.id < t.id => s.at <= t.at
  /\ HistoryIsChain
  /\ \A w \in Workers, t \in TxnType : txn[w] = t => TxnSerial(t)

LEMMA StatusStays ==
  ASSUME UNCHANGED transitions, NEW u
  PROVE  CurrentStatus(u)' = CurrentStatus(u) /\ RowsOf(u)' = RowsOf(u)
  BY DEF CurrentStatus, RowsOf

LEMMA TxnSerialStays ==
  ASSUME Inv, UNCHANGED transitions, clock' \in Int, clock <= clock',
         NEW t \in TxnType, TxnSerial(t)
  PROVE  TxnSerial(t)'
<1>1. t.phase = "stamped" \/ HasRow(t) => t.row.at \in Int
  <2>1. t.phase = "stamped" => t.row \in Stamp
    BY Phases DEF StampedEvent, StampedOverride
  <2>2. HasRow(t) => t.row \in Transition
    BY RowType
  <2> QED
    BY <2>1, <2>2 DEF Stamp, Transition
<1>2. clock \in Int
  BY DEF Inv, Types
<1>3. HasRow(t)' = HasRow(t)
  BY DEF HasRow
<1>4. t.phase = "stamped" \/ HasRow(t) => (t.row.at <= clock => t.row.at <= clock')
  BY <1>1, <1>2
<1> QED
  BY <1>3, <1>4, StatusStays DEF TxnSerial

LEMMA TablesStaySerial ==
  ASSUME Inv, SerialInv, UNCHANGED transitions, clock' \in Int, clock <= clock'
  PROVE  /\ \A s \in transitions' : s.at <= clock'
         /\ \A s, t \in transitions' : s.id < t.id => s.at <= t.at
         /\ HistoryIsChain'
<1>1. \A s \in transitions : s.at \in Int /\ s.at <= clock
  BY DEF SerialInv, Inv, Types, Transition
<1>2. clock \in Int
  BY DEF Inv, Types
<1>3. HistoryIsChain'
  BY DEF SerialInv, HistoryIsChain, RowsOf
<1> QED
  BY <1>1, <1>2, <1>3 DEF SerialInv

\* The transaction becomes t, and nothing is committed.
LEMMA QuietSerial ==
  ASSUME OneAtATime, Inv, SerialInv, UNCHANGED transitions, clock' \in Int, clock <= clock',
         NEW w \in Workers, NEW t \in TxnType, TxnSerial(t), txn' = [txn EXCEPT ![w] = t]
  PROVE  SerialInv'
<1>1. \A v \in Workers : txn'[v] = t
  BY DEF OneAtATime, Inv, Types
<1>2. TxnSerial(t)'
  BY TxnSerialStays
<1> QED
  BY <1>1, <1>2, TablesStaySerial DEF SerialInv

LEMMA BeginSerial ==
  ASSUME OneAtATime, Inv, SerialInv, NEW w \in Workers, Begin(w)
  PROVE  SerialInv'
<1>1. UNCHANGED <<transitions, clock>>
  BY DEF Begin, BeginEvent, BeginOverride
<1>2. clock' \in Int /\ clock <= clock'
  BY <1>1 DEF Inv, Types
<1>3. ASSUME NEW e \in EventRequests, BeginEvent(w, e) PROVE SerialInv'
  <2> DEFINE t == [phase |-> "evaluating", user |-> e.user, event |-> e,
                   status |-> CurrentStatus(e.user),
                   days |-> DeepDays(events \union {e}, e.user)]
  <2>1. t \in EvaluatingTxn
    BY BegunEvent
  <2>2. t.phase = "evaluating" /\ t.status = CurrentStatus(t.user)
    OBVIOUS
  <2>3. txn' = [txn EXCEPT ![w] = t]
    BY <1>3 DEF BeginEvent
  <2> HIDE DEF t
  <2>4. TxnSerial(t)
    BY <2>2 DEF TxnSerial, HasRow
  <2> QED
    BY <1>1, <1>2, <2>1, <2>3, <2>4, QuietSerial DEF TxnType
<1>4. ASSUME NEW o \in Overrides, BeginOverride(w, o) PROVE SerialInv'
  <2> DEFINE t == [phase |-> "overriding", user |-> o.user, to |-> o.to,
                   status |-> CurrentStatus(o.user)]
  <2>1. t \in OverridingTxn
    BY BegunOverride
  <2>2. t.phase = "overriding" /\ t.status = CurrentStatus(t.user)
    OBVIOUS
  <2>3. txn' = [txn EXCEPT ![w] = t]
    BY <1>4 DEF BeginOverride
  <2> HIDE DEF t
  <2>4. TxnSerial(t)
    BY <2>2 DEF TxnSerial, HasRow
  <2> QED
    BY <1>1, <1>2, <2>1, <2>3, <2>4, QuietSerial DEF TxnType
<1> QED
  BY <1>3, <1>4 DEF Begin

\* A row stamped now starts from where the user is and is not older than any.
LEMMA StampedSerial ==
  ASSUME Inv, SerialInv, NEW t, NEW to, NEW manual
  PROVE  /\ Stamped(t, to, manual).user = t.user
         /\ Stamped(t, to, manual).from = t.status
         /\ Stamped(t, to, manual).at <= clock
         /\ Stamped(t, to, manual).manual = manual
         /\ \A s \in transitions : s.at <= Stamped(t, to, manual).at
<1>1. Stamped(t, to, manual).at = clock
  BY DEF Stamped
<1>2. clock \in Int
  BY DEF Inv, Types
<1> QED
  BY <1>1, <1>2 DEF SerialInv, Stamped

LEMMA DecidedSerial ==
  ASSUME Inv, SerialInv, NEW t \in EvaluatingTxn, TxnSerial(t), NEW to \in Statuses
  PROVE  TxnSerial(Decided(t, to))
<1> DEFINE n == Decided(t, to)
<1>1. CASE n \in FlushedNothing
  BY <1>1 DEF FlushedNothing, TxnSerial, HasRow
<1>2. CASE n \in StampedEvent
  <2>1. to # NoStatus
    BY <1>2 DEF Decided, StampedEvent
  <2>2. n.row = Stamped(t, to, FALSE)
    BY <2>1 DEF Decided
  <2>3. t.status = CurrentStatus(t.user)
    BY DEF TxnSerial, EvaluatingTxn
  <2>4. n.phase = "stamped"
    BY <1>2 DEF StampedEvent
  <2> DEFINE row == Stamped(t, to, FALSE)
  <2>5. row.user = t.user /\ row.from = t.status /\ row.manual = FALSE
    BY DEF Stamped
  <2>6. row.at <= clock /\ \A s \in transitions : s.at <= row.at
    BY StampedSerial
  <2> HIDE DEF n, row
  <2>7. n.row = row
    BY <2>2 DEF row
  <2>8. TxnSerial(n)
    BY <2>3, <2>4, <2>5, <2>6, <2>7 DEF TxnSerial, HasRow
  <2> QED
    BY <2>8 DEF n
<1> QED
  BY <1>1, <1>2, DecidedType

LEMMA EvaluateSerial ==
  ASSUME OneAtATime, Inv, SerialInv, NEW w \in Workers, Evaluate(w)
  PROVE  SerialInv'
<1> DEFINE t == txn[w]
<1>1. t \in EvaluatingTxn /\ UNCHANGED <<transitions, clock>>
  BY Evaluations
<1>2. clock' \in Int /\ clock <= clock'
  BY <1>1 DEF Inv, Types
<1>3. TxnSerial(t)
  BY <1>1 DEF SerialInv, TxnType
<1>4. CASE txn' = [txn EXCEPT ![w] = [t EXCEPT !.phase = "asking again"]]
  <2> DEFINE n == [t EXCEPT !.phase = "asking again"]
  <2>1. n \in EvaluatingTxn /\ n.phase = "asking again" /\ n.user = t.user /\ n.status = t.status
    BY <1>1 DEF EvaluatingTxn
  <2>2. txn' = [txn EXCEPT ![w] = n]
    BY <1>4
  <2>3. t.status = CurrentStatus(t.user)
    BY <1>1, <1>3 DEF TxnSerial, EvaluatingTxn
  <2> HIDE DEF n
  <2>4. TxnSerial(n)
    BY <2>1, <2>3 DEF TxnSerial, HasRow
  <2> QED
    BY <1>1, <1>2, <2>1, <2>2, <2>4, QuietSerial DEF TxnType
<1>5. ASSUME NEW to \in Statuses, txn' = [txn EXCEPT ![w] = Decided(t, to)] PROVE SerialInv'
  <2>1. Decided(t, to) \in TxnType /\ TxnSerial(Decided(t, to))
    BY <1>1, <1>3, DecidedType, DecidedSerial
  <2> QED
    BY <1>1, <1>2, <1>5, <2>1, QuietSerial
<1> QED
  BY <1>4, <1>5, TargetType, Evaluations

LEMMA OverrideSerial ==
  ASSUME OneAtATime, Inv, SerialInv, NEW w \in Workers, Override(w)
  PROVE  SerialInv'
<1> DEFINE t == txn[w]
           row == Stamped(t, t.to, TRUE)
           n == [phase |-> "stamped", row |-> row]
<1>1. t \in OverridingTxn /\ UNCHANGED <<transitions, clock>>
  BY Phases DEF Override, Inv, Types
<1>2. clock' \in Int /\ clock <= clock'
  BY <1>1 DEF Inv, Types
<1>3. t.status = CurrentStatus(t.user)
  BY <1>1 DEF SerialInv, TxnSerial, OverridingTxn, TxnType
<1>4. row \in Stamp
  BY <1>1, StampedType DEF OverridingTxn
<1>5. /\ row.from = CurrentStatus(row.user) /\ row.at <= clock
      /\ \A s \in transitions : s.at <= row.at
  <2>1. row.user = t.user /\ row.from = t.status
    BY DEF Stamped
  <2>2. row.at <= clock /\ \A s \in transitions : s.at <= row.at
    BY StampedSerial
  <2> QED
    BY <1>3, <2>1, <2>2
<1>6. txn' = [txn EXCEPT ![w] = n]
  BY DEF Override
<1> HIDE DEF row
<1>7. n \in StampedOverride /\ n.phase = "stamped" /\ n.row = row
  BY <1>4 DEF StampedOverride
<1> HIDE DEF n
<1>8. TxnSerial(n)
  BY <1>5, <1>7 DEF TxnSerial, HasRow, StampedOverride
<1> QED
  BY <1>1, <1>2, <1>6, <1>7, <1>8, QuietSerial DEF TxnType

LEMMA InsertSerial ==
  ASSUME OneAtATime, Inv, SerialInv, NEW w \in Workers, Insert(w)
  PROVE  SerialInv'
<1> DEFINE t == txn[w]
           n == Inserted(t, nextId)
<1>1. /\ t \in StampedEvent \union StampedOverride /\ nextId \in 1 .. MaxTransitions
      /\ txn' = [txn EXCEPT ![w] = n] /\ UNCHANGED <<transitions, clock>>
  BY Insertion
<1>2. /\ n \in FlushedEvent \union FlushedOverride
      /\ t \in StampedOverride => n \in FlushedOverride
      /\ n.row = WithId(t.row, nextId)
  BY <1>1, InsertedType
<1>3. clock' \in Int /\ clock <= clock'
  BY <1>1 DEF Inv, Types
<1>4. TxnSerial(t) /\ t.phase = "stamped"
  BY <1>1 DEF SerialInv, TxnType, StampedEvent, StampedOverride
<1>5. n.row.user = t.row.user /\ n.row.from = t.row.from /\ n.row.at = t.row.at
      /\ n.row.manual = t.row.manual /\ n.row.id = nextId
  BY <1>2 DEF WithId
<1>6. \A s \in transitions : s.id < nextId
  BY DEF Inv, IdsOK
<1>7. "event" \in DOMAIN n => "event" \in DOMAIN t
  BY <1>1, <1>2 DEF FlushedOverride, StampedEvent
<1> HIDE DEF n
<1>8. n.phase = "flushed"
  BY <1>2 DEF FlushedEvent, FlushedOverride
<1>9. TxnSerial(n)
  BY <1>4, <1>5, <1>6, <1>7, <1>8 DEF TxnSerial
<1> QED
  BY <1>1, <1>2, <1>3, <1>9, QuietSerial DEF TxnType

\* The row that is committed is the latest, by id as by time.
LEMMA CommittedRow ==
  ASSUME Inv, SerialInv, NEW w \in Workers, Commit(w), NEW t, t = txn[w], HasRow(t),
         NEW r, r = t.row
  PROVE  /\ r \in Transition /\ t \in TxnType /\ TxnSerial(t)
         /\ transitions' = transitions \union {r}
         /\ \A s \in transitions : Later(r, s) /\ s.id < r.id /\ s.at <= r.at
         /\ r.from = CurrentStatus(r.user) /\ r.at <= clock
         /\ RowsOf(r.user)' = RowsOf(r.user) \union {r}
         /\ CurrentStatus(r.user)' = r.to
         /\ \A u : u # r.user =>
              RowsOf(u)' = RowsOf(u) /\ CurrentStatus(u)' = CurrentStatus(u)
<1>1. transitions' = transitions \union {r} /\ r \in Transition
  BY Commits DEF RowOf
<1>2. t \in TxnType /\ TxnSerial(t)
  BY DEF Inv, Types, SerialInv
<1>3. \A s \in transitions : Later(r, s) /\ s.id < r.id /\ s.at <= r.at
  <2>1. \A s \in transitions : s.id < r.id /\ s.at <= r.at /\ s \in Transition
    BY <1>2 DEF TxnSerial, Inv, Types
  <2> QED
    BY <1>1, <2>1 DEF Later, Transition
<1>4. r.from = CurrentStatus(r.user) /\ r.at <= clock
  BY <1>2 DEF TxnSerial
<1>5. RowsOf(r.user)' = RowsOf(r.user) \union {r}
  BY <1>1 DEF RowsOf
<1>6. CurrentStatus(r.user)' = r.to
  <2>1. RowsOf(r.user) \subseteq transitions /\ transitions \subseteq Transition
    BY DEF RowsOf, Inv, Types
  <2>2. Latest(r, RowsOf(r.user) \union {r})
    BY <1>3, <2>1 DEF Latest
  <2>3. StatusIn(RowsOf(r.user) \union {r}) = r.to
    BY <1>1, <2>1, <2>2, StatusOfLatest
  <2> QED
    BY <1>5, <2>3, CurrentStatusIn
<1>7. ASSUME NEW u, u # r.user
      PROVE  RowsOf(u)' = RowsOf(u) /\ CurrentStatus(u)' = CurrentStatus(u)
  <2>1. RowsOf(u)' = RowsOf(u)
    BY <1>1, <1>7 DEF RowsOf
  <2> QED
    BY <2>1, CurrentStatusIn
<1> QED
  BY <1>1, <1>2, <1>3, <1>4, <1>5, <1>6, <1>7

LEMMA ChainGrows ==
  ASSUME Inv, SerialInv, NEW r \in Transition, transitions' = transitions \union {r},
         \A s \in transitions : Later(r, s), r.from = CurrentStatus(r.user), r.user \in Users
  PROVE  HistoryIsChain'
<1> DEFINE Before(t) == {s \in RowsOf(t.user) : Later(t, s)}
<1>1. \A s \in transitions : ~Later(s, r) /\ s # r
  <2>1. \A s \in transitions : s \in Transition /\ Later(r, s)
    BY DEF Inv, Types
  <2> QED
    BY <2>1, LaterOrder
<1>2. ~Later(r, r)
  BY LaterOrder
<1>3. ASSUME NEW t \in transitions
      PROVE  {s \in RowsOf(t.user)' : Later(t, s)} = Before(t)
  BY <1>1 DEF RowsOf
<1>4. {s \in RowsOf(r.user)' : Later(r, s)} = RowsOf(r.user)
  BY <1>2 DEF RowsOf
<1>5. IF RowsOf(r.user) = {} THEN r.from = NoStatus
      ELSE \E s \in RowsOf(r.user) : s.to = r.from /\ \A q \in RowsOf(r.user) \ {s} : Later(s, q)
  BY LatestStatus, NoRowsNoStatus DEF Latest
<1>6. ASSUME NEW t \in transitions
      PROVE  IF Before(t) = {} THEN t.from = NoStatus
             ELSE \E s \in Before(t) : s.to = t.from /\ \A q \in Before(t) \ {s} : Later(s, q)
  BY DEF SerialInv, HistoryIsChain
<1> HIDE DEF Before
<1>7. ASSUME NEW t \in transitions'
      PROVE  LET before == {s \in RowsOf(t.user)' : Later(t, s)}
             IN  IF before = {} THEN t.from = NoStatus
                 ELSE \E s \in before : s.to = t.from /\ \A q \in before \ {s} : Later(s, q)
  <2>1. CASE t \in transitions
    BY <1>3, <1>6, <2>1
  <2>2. CASE t = r
    BY <1>4, <1>5, <2>2
  <2> QED
    BY <2>1, <2>2
<1> QED
  BY <1>7 DEF HistoryIsChain, RowsOf, Later

LEMMA CommitSerial ==
  ASSUME OneAtATime, Inv, SerialInv, NEW w \in Workers, Commit(w)
  PROVE  SerialInv'
<1>1. /\ UNCHANGED clock /\ clock \in Int /\ clock' \in Int /\ clock <= clock'
      /\ txn' = [txn EXCEPT ![w] = Idle]
  BY DEF Commit, Inv, Types
<1>2. TxnSerial(Idle) /\ TxnSerial(Idle)' /\ Idle \in TxnType
  BY DEF TxnSerial, HasRow, Idle, TxnType
<1>3. CASE HasRow(txn[w])
  <2>1. PICK t, r : t = txn[w] /\ r = t.row
    OBVIOUS
  <2>2. /\ r \in Transition /\ transitions' = transitions \union {r}
        /\ \A s \in transitions : Later(r, s) /\ s.id < r.id /\ s.at <= r.at
        /\ r.from = CurrentStatus(r.user) /\ r.at <= clock
    BY <1>3, <2>1, CommittedRow
  <2>3. HistoryIsChain'
    BY <2>2, ChainGrows DEF Transition
  <2>4. \A s \in transitions : s.id \in Int /\ s.at \in Int /\ r.id \in Int /\ r.at \in Int
    BY <2>2 DEF Inv, Types, Transition
  <2>5. \A s \in transitions' : s.at <= clock'
    BY <1>1, <2>2 DEF SerialInv
  <2>6. \A s, t2 \in transitions' : s.id < t2.id => s.at <= t2.at
    BY <2>2, <2>4 DEF SerialInv, Transition
  <2>7. \A v \in Workers : txn'[v] = Idle
    BY <1>1 DEF OneAtATime, Inv, Types
  <2> QED
    BY <1>2, <2>3, <2>5, <2>6, <2>7 DEF SerialInv
<1>4. CASE ~HasRow(txn[w])
  <2>1. UNCHANGED transitions
    BY <1>4, Commits DEF RowOf
  <2> QED
    BY <1>1, <1>2, <2>1, QuietSerial
<1> QED
  BY <1>3, <1>4

LEMMA RollbackSerial ==
  ASSUME OneAtATime, Inv, SerialInv, NEW w \in Workers, Rollback(w)
  PROVE  SerialInv'
<1>1. /\ UNCHANGED transitions /\ clock' \in Int /\ clock <= clock'
      /\ txn' = [txn EXCEPT ![w] = Idle]
  BY DEF Rollback, Inv, Types
<1>2. TxnSerial(Idle) /\ Idle \in TxnType
  BY DEF TxnSerial, HasRow, Idle, TxnType
<1> QED
  BY <1>1, <1>2, QuietSerial

LEMMA TickSerial ==
  ASSUME Inv, SerialInv, Tick \/ UNCHANGED vars
  PROVE  SerialInv'
<1>1. UNCHANGED <<transitions, txn>> /\ clock' \in Int /\ clock <= clock'
  BY DEF Tick, vars, Inv, Types
<1> QED
  BY <1>1, TablesStaySerial, TxnSerialStays DEF SerialInv

LEMMA InitSerial == Init => SerialInv
<1> SUFFICES ASSUME Init PROVE SerialInv
  OBVIOUS
<1>1. TxnSerial(Idle)
  BY DEF TxnSerial, HasRow, Idle
<1> QED
  BY <1>1 DEF Init, SerialInv, HistoryIsChain

LEMMA NextSerial ==
  ASSUME OneAtATime
  PROVE  Inv /\ SerialInv /\ [Next]_vars => SerialInv'
<1> SUFFICES ASSUME Inv, SerialInv, [Next]_vars PROVE SerialInv'
  OBVIOUS
<1>1. ASSUME NEW w \in Workers, Work(w) PROVE SerialInv'
  BY <1>1, EvaluateSerial, OverrideSerial, InsertSerial, CommitSerial, RollbackSerial DEF Work
<1> QED
  BY <1>1, BeginSerial, TickSerial DEF Next

LEMMA SerialHolds ==
  ASSUME OneAtATime
  PROVE  Spec => [](Inv /\ EarnInv /\ SerialInv)
<1>1. Inv /\ SerialInv /\ [Next]_vars => SerialInv'
  BY NextSerial
<1> QED
  BY <1>1, InitInv, NextInv, InitEarn, NextEarn, InitSerial, PTL DEF Spec

\* Requests that come one at a time leave every user with a history that is one
\* chain (get_lifecycle_history), overrides and rolled back requests included.
THEOREM HistoriesChain ==
  ASSUME OneAtATime
  PROVE  Spec => []HistoryIsChain
<1>1. Inv /\ EarnInv /\ SerialInv => HistoryIsChain
  BY DEF SerialInv
<1> QED
  BY <1>1, SerialHolds, PTL

\* The row with the highest id is then the latest.
LEMMA HighestIsLatest ==
  ASSUME Inv, SerialInv, NEW u \in Users
  PROVE  FunnelStatus(u) = CurrentStatus(u)
<1> DEFINE R == RowsOf(u)
<1>1. CASE R = {}
  BY <1>1 DEF FunnelStatus, CurrentStatus
<1>2. CASE R # {}
  <2>1. PICK t \in R : CurrentStatus(u) = t.to /\ Latest(t, R)
    BY <1>2, LatestStatus
  <2>2. R \subseteq transitions /\ R \subseteq Transition
    BY DEF RowsOf, Inv, Types
  <2>3. \A s \in R : t.id >= s.id
    BY <2>1, <2>2 DEF Latest, Later, SerialInv, Transition
  <2>4. \A c \in R : (\A s \in R : c.id >= s.id) => c = t
    BY <2>1, <2>2, <2>3 DEF Inv, IdsOK, Transition
  <2>5. (CHOOSE c \in R : \A s \in R : c.id >= s.id) = t
    BY <2>3, <2>4
  <2> QED
    BY <1>2, <2>1, <2>5 DEF FunnelStatus
<1> QED
  BY <1>1, <1>2

\* The funnel, which goes by id alone (routes.py:212), counts every user where
\* get_current_status says she is, when requests come one at a time.
THEOREM FunnelsAgree ==
  ASSUME OneAtATime
  PROVE  Spec => []FunnelAgrees
<1>1. Inv /\ EarnInv /\ SerialInv => FunnelAgrees
  BY HighestIsLatest DEF FunnelAgrees
<1> QED
  BY <1>1, SerialHolds, PTL

-----------------------------------------------------------------------------
(* Rules never take a user back.                                           *)

LEMMA RowsGrowByCommit ==
  ASSUME Inv, [Next]_vars
  PROVE  UNCHANGED transitions \/ \E w \in Workers : Commit(w) /\ HasRow(txn[w])
<1>1. ASSUME NEW w \in Workers, Begin(w) PROVE UNCHANGED transitions
  BY <1>1 DEF Begin, BeginEvent, BeginOverride
<1>2. ASSUME NEW w \in Workers, Work(w), ~Commit(w) PROVE UNCHANGED transitions
  BY <1>2, Evaluations DEF Work, Override, Insert, Rollback
<1>3. ASSUME NEW w \in Workers, Commit(w), ~HasRow(txn[w]) PROVE UNCHANGED transitions
  BY <1>3, Commits DEF RowOf
<1>4. Tick \/ UNCHANGED vars => UNCHANGED transitions
  BY DEF Tick, vars
<1> QED
  BY <1>1, <1>2, <1>3, <1>4 DEF Next

LEMMA NeverBack ==
  ASSUME Inv, EarnInv, SerialInv, [Next]_vars, NEW u \in Users,
         \A t \in transitions' \ transitions : ~t.manual
  PROVE  Rank(CurrentStatus(u)') >= Rank(CurrentStatus(u))
<1>1. CurrentStatus(u) \in Statuses /\ Rank(CurrentStatus(u)) \in 1 .. 5
  BY StatusType, StageRank
<1>2. CASE CurrentStatus(u)' = CurrentStatus(u)
  BY <1>1, <1>2
<1>3. CASE CurrentStatus(u)' # CurrentStatus(u)
  <2>1. PICK w \in Workers : Commit(w) /\ HasRow(txn[w])
    BY <1>3, RowsGrowByCommit, StatusStays
  <2>2. PICK t, r : t = txn[w] /\ r = t.row
    OBVIOUS
  <2>3. /\ t \in TxnType /\ r \in Transition /\ transitions' = transitions \union {r}
        /\ \A s \in transitions : s.id < r.id
        /\ r.from = CurrentStatus(r.user) /\ CurrentStatus(r.user)' = r.to
        /\ r.user # u => CurrentStatus(u)' = CurrentStatus(u)
    BY <2>1, <2>2, CommittedRow
  <2>4. r \in transitions' \ transitions
    BY <2>3 DEF Transition
  <2>5. RuleRow(t)
    BY <2>1, <2>2, <2>3, <2>4 DEF EarnInv, TxnEarned
  <2>6. r.user = u /\ Rank(r.to) = Rank(r.from) + 1
    BY <1>3, <2>2, <2>3, <2>5 DEF RuleRow
  <2> QED
    BY <1>1, <2>3, <2>6
<1> QED
  BY <1>2, <1>3

\* "Won't regress" (lifecycle.py:85-86): when requests come one at a time, only
\* an override takes a user to an earlier stage.
THEOREM RulesClimb ==
  ASSUME OneAtATime
  PROVE  Spec => RulesNeverRegress
<1>1. Inv /\ EarnInv /\ SerialInv /\ [Next]_vars =>
        [\A u \in Users : (\A t \in transitions' \ transitions : ~t.manual) =>
           Rank(CurrentStatus(u)') >= Rank(CurrentStatus(u))]_vars
  BY NeverBack
<1> QED
  BY <1>1, SerialHolds, PTL DEF Spec, RulesNeverRegress

-----------------------------------------------------------------------------
(* Requests that come one at a time implement Journey.                     *)

Manual(u) == {t \in RowsOf(u) : t.manual}

LEMMA StreakEndsToday ==
  ASSUME NEW days, NEW day \in Int, Streak(days, day)
  PROVE  day \in days
<1>1. 0 \in 0 .. VISITOR_LOYALIST_CONTINUOUS_DAYS - 1 /\ day - 0 = day
  BY BoundsAssumption
<1> QED
  BY <1>1 DEF Streak

\* What one user stores is evidence for nobody else: a streak ends on a day of
\* its own.
LEMMA OthersEvidence ==
  ASSUME Inv, Inv', More, NEW u, NEW v, v # u, \A e \in events' \ events : e.user = u,
         vouched' \subseteq vouched \union {u}, NEW stage \in Stages, Evidence(v, stage)'
  PROVE  Evidence(v, stage)
<1>1. \A e \in events' : e.user = v => e \in events
  OBVIOUS
<1>2. DeepIn(events', v) = DeepIn(events, v)
  BY <1>1 DEF DeepIn, More
<1>3. CASE stage = "loyalist"
  <2>1. CASE \E e \in events' : e.user = v /\ e.type \in {"subscription.premium_active"}
    BY <1>1, <1>3, <2>1 DEF Evidence
  <2>2. ASSUME NEW e \in events', Streak(DeepIn(events', v), e.day) PROVE Evidence(v, stage)
    <3>1. e.day \in Int
      BY RequestsAssumption DEF Inv, Types
    <3>2. e.day \in DeepIn(events, v)
      BY <1>2, <2>2, <3>1, StreakEndsToday
    <3>3. PICK f \in events : f.day = e.day
      BY <3>2 DEF DeepIn
    <3>4. Streak(DeepIn(events, v), f.day)
      BY <1>2, <2>2, <3>3
    <3> QED
      BY <1>3, <3>4 DEF Evidence, DeepIn
  <2> QED
    BY <1>3, <2>1, <2>2 DEF Evidence, DeepIn
<1>4. CASE stage # "loyalist"
  BY <1>1, <1>4, StageCases DEF Evidence
<1> QED
  BY <1>3, <1>4

\* What is stored for u earns u more stages, or none.
LEMMA EarnOne ==
  ASSUME Inv, Inv', More, NEW u \in Users, \A e \in events' \ events : e.user = u,
         vouched' \subseteq vouched \union {u}
  PROVE  Promise!Earn(u)
<1> DEFINE Of(v) == {i \in 1 .. 5 : Evidence(v, STATES[i])}
           earned == [v \in Users |-> Of(v)]
<1>1. \A v \in Users : Of(v) \subseteq Of(v)'
  BY EvidenceStays, StageOf
<1>2. \A v \in Users \ {u} : Of(v)' = Of(v)
  BY <1>1, OthersEvidence, StageOf
<1>3. PICK more : more = Of(u)'
  OBVIOUS
<1>4. more \in SUBSET (1 .. 5) /\ Of(u)' = Of(u) \union more
  BY <1>1, <1>3
<1> HIDE DEF Of
<1>5. earned' = [earned EXCEPT ![u] = @ \union more]
  BY <1>2, <1>4
<1> QED
  BY <1>4, <1>5 DEF Promise!Earn, Of

LEMMA EarnNothing ==
  ASSUME UNCHANGED <<events, vouched>>
  PROVE  \A u : {i \in 1 .. 5 : Evidence(u, STATES[i])}' = {i \in 1 .. 5 : Evidence(u, STATES[i])}
  BY DEF Evidence

LEMMA InitJourney == Init => Promise!JourneyInit
<1> SUFFICES ASSUME Init PROVE Promise!JourneyInit
  OBVIOUS
<1>1. \A u : RowsOf(u) = {}
  BY DEF Init, RowsOf
<1>2. \A u : Rank(CurrentStatus(u)) = 1
  BY <1>1, NoRowsNoStatus, RankOfStages
<1>3. \A u : {i \in 1 .. 5 : Evidence(u, STATES[i])} = {1}
  <2>1. \A i \in 1 .. 5 : i = 1 <=> STATES[i] = "visitor"
    BY DEF STATES
  <2>2. \A u : \A stage \in Stages : Evidence(u, stage) <=> stage = "visitor"
    BY StageCases DEF Init, Evidence
  <2> QED
    BY <2>1, <2>2, StageOf
<1>4. \A u : Cardinality({t \in RowsOf(u) : t.manual}) = 0
  <2>1. \A u : {t \in RowsOf(u) : t.manual} = {}
    BY <1>1
  <2> QED
    BY <2>1, FS_EmptySet
<1> QED
  BY <1>2, <1>3, <1>4 DEF Promise!JourneyInit

LEMMA StillJourney ==
  ASSUME UNCHANGED <<events, transitions, vouched>>
  PROVE  UNCHANGED Promise!jvars
<1>1. \A u : CurrentStatus(u)' = CurrentStatus(u) /\ RowsOf(u)' = RowsOf(u)
  BY StatusStays
<1> QED
  BY <1>1, EarnNothing DEF Promise!jvars

LEMMA StoreJourney ==
  ASSUME Inv, Inv', More, UNCHANGED transitions, NEW u \in Users,
         \A e \in events' \ events : e.user = u, vouched' \subseteq vouched \union {u}
  PROVE  Promise!JourneyNext
<1>1. \A v : CurrentStatus(v)' = CurrentStatus(v) /\ RowsOf(v)' = RowsOf(v)
  BY StatusStays
<1>2. Promise!Store(u)
  BY <1>1, EarnOne DEF Promise!Store
<1> QED
  BY <1>2 DEF Promise!JourneyNext

LEMMA EvaluateJourney ==
  ASSUME Inv, Inv', NEW w \in Workers, Evaluate(w)
  PROVE  Promise!JourneyNext
<1> DEFINE u == txn[w].user
<1>1. u \in Users /\ UNCHANGED <<events, transitions>>
  BY Evaluations DEF EvaluatingTxn
<1>2. vouched \subseteq vouched' /\ vouched' \subseteq vouched \union {u}
  BY Evaluations
<1> HIDE DEF u
<1> QED
  BY <1>1, <1>2, StoreJourney DEF More

\* Whom a transaction that is about to commit is for.
LEMMA CommitStores ==
  ASSUME Inv, NEW w \in Workers, Commit(w), NEW t, t = txn[w]
  PROVE  /\ "event" \in DOMAIN t => \A e \in events' \ events : e.user = t.event.user
         /\ "event" \notin DOMAIN t => UNCHANGED events
         /\ "event" \in DOMAIN t => t.event.user \in Users
         /\ UNCHANGED vouched /\ More
<1>1. EventOf(t) \subseteq EventRequests /\ events' = events \union EventOf(t)
  BY Commits
<1>2. UNCHANGED vouched /\ More
  BY Commits DEF More
<1> QED
  BY <1>1, <1>2, RequestsAssumption DEF EventOf

\* The row is not there yet, so that an override is counted once.
LEMMA ManualRows ==
  ASSUME Inv, SerialInv, IsFiniteSet(transitions), NEW r \in Transition,
         \A s \in transitions : s.id < r.id, RowsOf(r.user)' = RowsOf(r.user) \union {r}
  PROVE  /\ r.manual => Cardinality({t \in RowsOf(r.user) : t.manual})' =
                           Cardinality({t \in RowsOf(r.user) : t.manual}) + 1
         /\ ~r.manual => Cardinality({t \in RowsOf(r.user) : t.manual})' =
                           Cardinality({t \in RowsOf(r.user) : t.manual})
<1> DEFINE M == {t \in RowsOf(r.user) : t.manual}
<1>1. IsFiniteSet(M)
  BY FS_Subset DEF RowsOf
<1>2. r \notin M
  BY DEF RowsOf, Transition
<1>3. CASE r.manual
  <2>1. M' = M \union {r}
    BY <1>3
  <2>2. Cardinality(M \union {r}) = Cardinality(M) + 1
    <3> HIDE DEF M
    <3> QED
      BY <1>1, <1>2, FS_AddElement
  <2> QED
    BY <1>3, <2>1, <2>2
<1>4. CASE ~r.manual
  <2>1. M' = M
    BY <1>4
  <2> QED
    BY <1>4, <2>1
<1> QED
  BY <1>3, <1>4

LEMMA CommitJourney ==
  ASSUME Inv, Inv', EarnInv, SerialInv, IsFiniteSet(transitions),
         NEW w \in Workers, Commit(w)
  PROVE  Promise!JourneyNext \/ UNCHANGED Promise!jvars
<1>1. PICK t : t = txn[w]
  OBVIOUS
<1>2. UNCHANGED vouched /\ More
  BY <1>1, CommitStores
<1>3. CASE ~HasRow(t)
  <2>1. UNCHANGED transitions
    BY <1>1, <1>3, Commits DEF RowOf
  <2>2. CASE "event" \in DOMAIN t
    BY <1>1, <1>2, <2>1, <2>2, CommitStores, StoreJourney
  <2>3. CASE "event" \notin DOMAIN t
    BY <1>1, <1>2, <2>1, <2>3, CommitStores, StillJourney
  <2> QED
    BY <2>2, <2>3
<1>4. CASE HasRow(t)
  <2>1. PICK r : r = t.row
    OBVIOUS
  <2> DEFINE u == r.user
  <2>2. /\ t \in TxnType /\ r \in Transition /\ TxnSerial(t)
        /\ \A s \in transitions : s.id < r.id
        /\ r.from = CurrentStatus(r.user) /\ CurrentStatus(r.user)' = r.to
        /\ RowsOf(r.user)' = RowsOf(r.user) \union {r}
        /\ \A v : v # r.user =>
              RowsOf(v)' = RowsOf(v) /\ CurrentStatus(v)' = CurrentStatus(v)
    BY <1>1, <1>4, <2>1, CommittedRow
  <2>3. u \in Users /\ r.to \in Stages /\ r.from \in Statuses
    BY <2>2 DEF Transition, Statuses
  <2>4. r.manual \/ RuleRow(t)
    BY <1>1, <1>4, <2>1, <2>2 DEF EarnInv, TxnEarned
  <2> DEFINE count == [v \in Users |-> Cardinality({s \in RowsOf(v) : s.manual})]
             stage == [v \in Users |-> Rank(CurrentStatus(v))]
  <2>5. stage' = [stage EXCEPT ![u] = Rank(r.to)]
    BY <2>2
  <2>6. /\ r.manual => Cardinality({s \in RowsOf(u) : s.manual})' =
                         Cardinality({s \in RowsOf(u) : s.manual}) + 1
        /\ ~r.manual => Cardinality({s \in RowsOf(u) : s.manual})' =
                          Cardinality({s \in RowsOf(u) : s.manual})
    BY <2>2, ManualRows
  <2>7. \A v \in Users : v # u => Cardinality({s \in RowsOf(v) : s.manual})' =
                                   Cardinality({s \in RowsOf(v) : s.manual})
    BY <2>2
  <2>8. CASE r.manual
    <3>1. "event" \notin DOMAIN t
      BY <1>4, <2>1, <2>2, <2>8 DEF TxnSerial
    <3>2. UNCHANGED events
      BY <1>1, <3>1, CommitStores
    <3>3. count' = [count EXCEPT ![u] = @ + 1]
      BY <2>6, <2>7, <2>8
    <3>4. Rank(r.to) \in 1 .. 5
      BY <2>3, StageRank DEF Statuses
    <3>5. Promise!Lift(u)
      BY <1>2, <2>5, <3>2, <3>3, <3>4, EarnNothing DEF Promise!Lift
    <3> QED
      BY <2>3, <3>5 DEF Promise!JourneyNext
  <2>9. CASE ~r.manual
    <3>1. /\ "event" \in DOMAIN t /\ t.event.user = u
          /\ Rank(r.to) = Rank(r.from) + 1 /\ Backed(t, u, r.to)
      BY <2>1, <2>4, <2>9 DEF RuleRow, Backed
    <3>2. Promise!Earn(u)
      BY <1>1, <1>2, <2>3, <3>1, CommitStores, EarnOne
    <3>3. t.event \in events'
      BY <1>1, <3>1, Commits DEF EventOf
    <3>4. Evidence(u, r.to)'
      BY <1>2, <2>3, <3>1, <3>3, BackedIsEvidence
    <3>5. STATES[Rank(r.to)] = r.to /\ Rank(r.to) \in 1 .. 5
      BY <2>3, StageRank, StageCases DEF Statuses, NoStatus
    <3>6. count' = count
      BY <2>6, <2>7, <2>9
    <3>7. stage' = [stage EXCEPT ![u] = @ + 1] /\ stage[u] + 1 = Rank(r.to)
      BY <2>2, <2>3, <2>5, <3>1
    <3>8. stage[u] + 1 \in [v \in Users |-> {i \in 1 .. 5 : Evidence(v, STATES[i])}]'[u]
      BY <2>3, <3>4, <3>5, <3>7
    <3>9. Promise!Climb(u)
      BY <3>2, <3>6, <3>7, <3>8 DEF Promise!Climb
    <3> QED
      BY <2>3, <3>9 DEF Promise!JourneyNext
  <2> QED
    BY <2>8, <2>9
<1> QED
  BY <1>3, <1>4

LEMMA NextJourney ==
  ASSUME Inv, Inv', EarnInv, SerialInv, IsFiniteSet(transitions), [Next]_vars
  PROVE  [Promise!JourneyNext]_(Promise!jvars)
<1>1. ASSUME NEW w \in Workers, Begin(w)
      PROVE  UNCHANGED <<events, transitions, vouched>>
  BY <1>1 DEF Begin, BeginEvent, BeginOverride
<1>2. ASSUME NEW w \in Workers, Override(w) \/ Insert(w) \/ Rollback(w)
      PROVE  UNCHANGED <<events, transitions, vouched>>
  BY <1>2 DEF Override, Insert, Rollback
<1>3. Tick \/ UNCHANGED vars => UNCHANGED <<events, transitions, vouched>>
  BY DEF Tick, vars
<1> QED
  BY <1>1, <1>2, <1>3, StillJourney, EvaluateJourney, CommitJourney DEF Next, Work

LEMMA NextFinite ==
  ASSUME Inv, IsFiniteSet(transitions), [Next]_vars
  PROVE  IsFiniteSet(transitions)'
<1>1. ASSUME NEW w \in Workers, Commit(w), HasRow(txn[w]) PROVE IsFiniteSet(transitions')
  <2>1. transitions' = transitions \union {txn[w].row}
    BY <1>1, Commits DEF RowOf
  <2> QED
    BY <2>1, FS_AddElement
<1> QED
  BY <1>1, RowsGrowByCommit

\* Requests that come one at a time are the journey of ADR-008 at the head of
\* lifecycle.py: a rule takes a user up by exactly one stage, only when what it
\* asks for is stored; all else is an override, counted.
THEOREM TakesTheJourney ==
  ASSUME OneAtATime
  PROVE  Spec => ImplementsJourney
<1> DEFINE Fin == IsFiniteSet(transitions)
<1>1. Init => Fin
  BY FS_EmptySet DEF Init
<1>2. Inv /\ Fin /\ [Next]_vars => Fin'
  BY NextFinite
<1>3. Inv /\ Inv' /\ EarnInv /\ SerialInv /\ Fin /\ [Next]_vars =>
        [Promise!JourneyNext]_(Promise!jvars)
  BY NextJourney
<1> HIDE DEF Fin
<1>4. Spec => Promise!JourneySpec
  BY <1>1, <1>2, <1>3, SerialHolds, InitJourney, PTL DEF Spec, Promise!JourneySpec
<1> QED
  BY <1>4 DEF ImplementsJourney

=============================================================================
