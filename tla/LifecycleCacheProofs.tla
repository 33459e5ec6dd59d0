------------------------ MODULE LifecycleCacheProofs ------------------------
(***************************************************************************)
(* Why an App may serve a stage its user has left, for any users, requests *)
(* and answers and with any number of overlapping requests.                *)
(***************************************************************************)
EXTENDS LifecycleCache, LifecycleProofs

\* What excuses a stale entry of u.
Cause(u) == notices[u] > 0 \/ lost[u] \/ early[u]

\* A row that is about to be committed will make a current entry stale, so the
\* cause must be there as soon as it is flushed; an answer on its way will be
\* an entry.
CauseInv ==
  /\ cache \in [Users -> Stages \union {NoEntry}]
  /\ answer \in [Users -> Stages \union {NoEntry}]
  /\ lost \in [Users -> BOOLEAN] /\ early \in [Users -> BOOLEAN]
  /\ \A u \in Users :
       /\ Flushed(u) => Cause(u)
       /\ cache[u] \notin {NoEntry, Served(u)} => Cause(u)
       /\ answer[u] \notin {NoEntry, Served(u)} => Cause(u)

LEMMA ServedType ==
  ASSUME Inv, NEW u \in Users
  PROVE  Served(u) \in Stages
  BY StatusType, StageCases DEF Served, Statuses

LEMMA SameServed ==
  ASSUME UNCHANGED transitions, NEW u
  PROVE  Served(u)' = Served(u)
  BY DEF Served, CurrentStatus, RowsOf

LEMMA FlushedHasRow ==
  ASSUME NEW u
  PROVE  /\ Flushed(u) <=> \E w \in Workers : HasRow(txn[w]) /\ txn[w].row.user = u
         /\ Flushed(u)' <=> \E w \in Workers : HasRow(txn'[w]) /\ txn'[w].row.user = u
  BY DEF Flushed, HasRow

\* The lifecycle moves on, the App and the webhooks do not.
LEMMA LifecycleCause ==
  ASSUME CauseInv, UNCHANGED <<cache, answer, lost, early>>,
         \A u \in Users : Cause(u) => Cause(u)',
         \A u \in Users : Flushed(u)' => Flushed(u) \/ Cause(u)',
         \A u \in Users : Served(u)' # Served(u) => Flushed(u)
  PROVE  CauseInv'
  BY DEF CauseInv

LEMMA CommittedServed ==
  ASSUME Inv, NEW w \in Workers, Commit(w), NEW u \in Users, Served(u)' # Served(u)
  PROVE  Flushed(u)
<1>1. RowsOf(u)' # RowsOf(u)
  BY CurrentStatusIn DEF Served
<1>2. HasRow(txn[w]) /\ transitions' = transitions \union {txn[w].row}
  BY <1>1, Commits DEF RowOf, RowsOf
<1>3. txn[w].row.user = u
  BY <1>1, <1>2 DEF RowsOf
<1> QED
  BY <1>2, <1>3, FlushedHasRow

\* The invalidation is scheduled with the flush of the row it announces.
LEMMA InsertCause ==
  ASSUME Inv, CauseInv, NEW w \in Workers, Insert(w), UNCHANGED <<cache, answer, lost, early>>
  PROVE  CauseInv'
<1>1. PICK t, n : t = txn[w] /\ n = Inserted(txn[w], nextId)
  OBVIOUS
<1>2. /\ t.row.user \in Users /\ n.row = WithId(t.row, nextId)
      /\ txn'[w] = n /\ \A v \in Workers \ {w} : txn'[v] = txn[v]
      /\ UNCHANGED transitions /\ notices' = [notices EXCEPT ![t.row.user] = @ + 1]
  BY <1>1, Insertion, InsertedType
<1>3. notices' \in [Users -> Nat] /\ notices \in [Users -> Nat] /\ notices'[t.row.user] > 0
      /\ \A u \in Users : notices[u] > 0 => notices'[u] > 0
  BY <1>2 DEF Inv, Types
<1>4. n.row.user = t.row.user
  BY <1>2 DEF WithId
<1>5. ASSUME NEW u \in Users, Flushed(u)' PROVE Flushed(u) \/ Cause(u)'
  <2>1. PICK v \in Workers : HasRow(txn'[v]) /\ txn'[v].row.user = u
    BY <1>5, FlushedHasRow
  <2>2. CASE v = w
    BY <1>2, <1>3, <1>4, <2>1, <2>2 DEF Cause
  <2>3. CASE v # w
    BY <1>2, <2>1, <2>3, FlushedHasRow
  <2> QED
    BY <2>2, <2>3
<1>6. \A u \in Users : Cause(u) => Cause(u)'
  BY <1>3 DEF Cause
<1> QED
  BY <1>2, <1>5, <1>6, SameServed, LifecycleCause

\* No other step flushes a row.
LEMMA OtherTxn ==
  ASSUME Inv, NEW w \in Workers, Begin(w) \/ Work(w), ~Insert(w)
  PROVE  \A v \in Workers : HasRow(txn'[v]) => txn'[v] = txn[v]
<1>1. ASSUME NEW t, txn' = [txn EXCEPT ![w] = t], ~HasRow(t)
      PROVE  \A v \in Workers : HasRow(txn'[v]) => txn'[v] = txn[v]
  BY <1>1 DEF Inv, Types
<1>2. ~HasRow(Idle)
  BY DEF HasRow, Idle
<1>3. CASE Begin(w)
  <2>1. ASSUME NEW t, t.phase \in {"evaluating", "overriding"} PROVE ~HasRow(t)
    BY <2>1 DEF HasRow
  <2>2. \E t : txn' = [txn EXCEPT ![w] = t] /\ t.phase \in {"evaluating", "overriding"}
    <3>1. ASSUME NEW e \in EventRequests, BeginEvent(w, e)
          PROVE  \E t : txn' = [txn EXCEPT ![w] = t] /\ t.phase = "evaluating"
      <4> DEFINE t == [phase |-> "evaluating", user |-> e.user, event |-> e,
                       status |-> CurrentStatus(e.user),
                       days |-> DeepDays(events \union {e}, e.user)]
      <4>1. txn' = [txn EXCEPT ![w] = t] /\ t.phase = "evaluating"
        BY <3>1 DEF BeginEvent
      <4> HIDE DEF t
      <4> QED
        BY <4>1
    <3>2. ASSUME NEW o \in Overrides, BeginOverride(w, o)
          PROVE  \E t : txn' = [txn EXCEPT ![w] = t] /\ t.phase = "overriding"
      <4> DEFINE t == [phase |-> "overriding", user |-> o.user, to |-> o.to,
                       status |-> CurrentStatus(o.user)]
      <4>1. txn' = [txn EXCEPT ![w] = t] /\ t.phase = "overriding"
        BY <3>2 DEF BeginOverride
      <4> HIDE DEF t
      <4> QED
        BY <4>1
    <3> QED
      BY <1>3, <3>1, <3>2 DEF Begin
  <2> QED
    BY <1>1, <2>1, <2>2
<1>4. CASE Evaluate(w)
  <2> DEFINE t == txn[w]
  <2>1. t \in EvaluatingTxn
    BY <1>4, Evaluations
  <2>2. ~HasRow([t EXCEPT !.phase = "asking again"])
    BY <2>1 DEF HasRow, EvaluatingTxn
  <2>3. \A to \in Statuses : ~HasRow(Decided(t, to))
    BY <2>1, DecidedType
  <2>4. \/ txn' = [txn EXCEPT ![w] = [t EXCEPT !.phase = "asking again"]]
        \/ \E to \in Statuses : txn' = [txn EXCEPT ![w] = Decided(t, to)]
    BY <1>4, Evaluations, TargetType
  <2> HIDE DEF t
  <2> QED
    BY <1>1, <2>2, <2>3, <2>4
<1>5. CASE Override(w)
  <2> DEFINE n == [phase |-> "stamped", row |-> Stamped(txn[w], txn[w].to, TRUE)]
  <2>1. txn' = [txn EXCEPT ![w] = n] /\ n.phase = "stamped"
    BY <1>5 DEF Override
  <2> HIDE DEF n
  <2> QED
    BY <1>1, <2>1 DEF HasRow
<1>6. CASE Commit(w) \/ Rollback(w)
  BY <1>1, <1>2, <1>6 DEF Commit, Rollback
<1> QED
  BY <1>3, <1>4, <1>5, <1>6 DEF Work

LEMMA NoticesKept ==
  ASSUME Inv, NEW w \in Workers, Begin(w) \/ Work(w), ~Insert(w)
  PROVE  UNCHANGED notices /\ (UNCHANGED transitions \/ Commit(w))
  BY Evaluations DEF Begin, BeginEvent, BeginOverride, Work, Override, Commit, Rollback

LEMMA WorkCause ==
  ASSUME Inv, CauseInv, UNCHANGED <<cache, answer, lost, early>>,
         NEW w \in Workers, Begin(w) \/ Work(w)
  PROVE  CauseInv'
<1>1. CASE Insert(w)
  BY <1>1, InsertCause
<1>2. CASE ~Insert(w)
  <2>1. \A u \in Users : Flushed(u)' => Flushed(u)
    BY <1>2, OtherTxn, FlushedHasRow
  <2>2. \A u \in Users : Cause(u) => Cause(u)'
    BY <1>2, NoticesKept DEF Cause
  <2>3. \A u \in Users : Served(u)' # Served(u) => Flushed(u)
    BY <1>2, NoticesKept, SameServed, CommittedServed
  <2> QED
    BY <2>1, <2>2, <2>3, LifecycleCause
<1> QED
  BY <1>1, <1>2

LEMMA TickCause ==
  ASSUME CauseInv, UNCHANGED <<transitions, txn, notices, cache, answer, lost, early>>
  PROVE  CauseInv'
<1>1. \A u \in Users : Flushed(u)' => Flushed(u)
  BY FlushedHasRow
<1>2. \A u \in Users : Cause(u) => Cause(u)'
  BY DEF Cause
<1> QED
  BY <1>1, <1>2, SameServed, LifecycleCause

\* What the App does with its cache.
AppStep(u) == Fetch(u) \/ Fill(u) \/ Expire(u) \/ Invalidate(u) \/ LoseInvalidate(u)

LEMMA AppSteps ==
  ASSUME NEW u, AppStep(u)
  PROVE  UNCHANGED <<events, transitions, nextId, clock, txn, vouched>>
  BY DEF AppStep, Fetch, Fill, Expire, Invalidate, LoseInvalidate, TakeNotice, vars

LEMMA AppInv ==
  ASSUME Inv, NEW u \in Users, AppStep(u)
  PROVE  Inv'
<1>1. UNCHANGED <<events, transitions, nextId, clock, txn, vouched>>
  BY AppSteps
<1>2. UNCHANGED notices \/ (notices[u] > 0 /\ notices' = [notices EXCEPT ![u] = @ - 1])
  BY DEF AppStep, Fetch, Fill, Expire, Invalidate, LoseInvalidate, TakeNotice, vars
<1>3. notices' \in [Users -> 0 .. MaxTransitions] /\ \A v \in Users : notices'[v] < nextId
  BY <1>2, BoundsAssumption DEF Inv, Types
<1>4. IdsOK'
  BY <1>1 DEF Inv, IdsOK
<1>5. \A v \in Users : RowsOf(v)' = RowsOf(v)
  BY <1>1 DEF RowsOf
<1> QED
  BY <1>1, <1>3, <1>4, <1>5 DEF Inv, Types

LEMMA AppCause ==
  ASSUME Inv, CauseInv, NEW u \in Users, AppStep(u)
  PROVE  CauseInv'
<1>1. UNCHANGED <<transitions, txn>>
  BY AppSteps
<1>2. \A v \in Users : Served(v)' = Served(v) /\ (Flushed(v)' <=> Flushed(v))
  BY <1>1, SameServed, FlushedHasRow
<1>3. Served(u) \in Stages
  BY ServedType
<1>4. CASE Fetch(u)
  BY <1>2, <1>3, <1>4 DEF CauseInv, Cause, Fetch, vars
<1>5. CASE Fill(u)
  BY <1>2, <1>5 DEF CauseInv, Cause, Fill, vars
<1>6. CASE Expire(u)
  BY <1>2, <1>6 DEF CauseInv, Cause, Expire, vars
<1>7. CASE Invalidate(u)
  <2>1. Flushed(u) \in BOOLEAN
    BY DEF Flushed
  <2>2. /\ cache' = [cache EXCEPT ![u] = NoEntry] /\ answer' = [answer EXCEPT ![u] = NoEntry]
        /\ lost' = [lost EXCEPT ![u] = FALSE] /\ early' = [early EXCEPT ![u] = Flushed(u)]
        /\ notices' = [notices EXCEPT ![u] = @ - 1]
    BY <1>7 DEF Invalidate, TakeNotice
  <2>3. \A v \in Users \ {u} : Cause(v)' <=> Cause(v)
    BY <2>2 DEF Cause, CauseInv, Inv, Types
  <2>4. early'[u] = Flushed(u)
    BY <2>2 DEF CauseInv
  <2>5. Flushed(u) => Cause(u)'
    BY <2>4 DEF Cause
  <2>6. /\ cache' \in [Users -> Stages \union {NoEntry}]
        /\ answer' \in [Users -> Stages \union {NoEntry}]
        /\ lost' \in [Users -> BOOLEAN] /\ early' \in [Users -> BOOLEAN]
        /\ cache'[u] = NoEntry /\ answer'[u] = NoEntry
        /\ \A v \in Users \ {u} : cache'[v] = cache[v] /\ answer'[v] = answer[v]
    <3> HIDE DEF Flushed
    <3> QED
      BY <2>1, <2>2 DEF CauseInv
  <2> QED
    BY <1>2, <2>3, <2>5, <2>6 DEF CauseInv
<1>8. CASE LoseInvalidate(u)
  <2>1. /\ lost' = [lost EXCEPT ![u] = TRUE] /\ UNCHANGED <<cache, answer, early>>
        /\ notices' = [notices EXCEPT ![u] = @ - 1]
    BY <1>8 DEF LoseInvalidate, TakeNotice
  <2>2. \A v \in Users : Cause(v) => Cause(v)'
    BY <2>1 DEF Cause, CauseInv, Inv, Types
  <2>3. lost' \in [Users -> BOOLEAN]
    BY <2>1 DEF CauseInv
  <2> QED
    BY <1>2, <2>1, <2>2, <2>3 DEF CauseInv
<1> QED
  BY <1>4, <1>5, <1>6, <1>7, <1>8 DEF AppStep

LEMMA CacheSteps ==
  ASSUME [CacheNext]_cvars
  PROVE  \/ [Next]_vars /\ UNCHANGED <<cache, answer, lost, early>>
         \/ \E u \in Users : AppStep(u)
  BY DEF CacheNext, cvars, Next, AppStep

LEMMA CacheNextInv == Inv /\ [CacheNext]_cvars => Inv'
  BY CacheSteps, NextInv, AppInv

LEMMA CacheNextEarn == Inv /\ EarnInv /\ [CacheNext]_cvars => EarnInv'
  BY CacheSteps, NextEarn, AppSteps, TickEarn

LEMMA CacheNextCause == Inv /\ CauseInv /\ [CacheNext]_cvars => CauseInv'
<1> SUFFICES ASSUME Inv, CauseInv, [CacheNext]_cvars PROVE CauseInv'
  OBVIOUS
<1>1. Tick \/ UNCHANGED vars => UNCHANGED <<transitions, txn, notices>>
  BY DEF Tick, vars
<1> QED
  BY <1>1, CacheSteps, AppCause, WorkCause, TickCause DEF Next

LEMMA CacheInitCause == CacheInit => CauseInv
<1> SUFFICES ASSUME CacheInit PROVE CauseInv
  OBVIOUS
<1>1. \A u \in Users : ~Flushed(u)
  BY FlushedHasRow DEF CacheInit, Init, HasRow, Idle
<1> QED
  BY <1>1 DEF CacheInit, CauseInv

LEMMA CacheHolds == CacheSpec => [](Inv /\ EarnInv /\ CauseInv)
<1>1. CacheInit => Init
  BY DEF CacheInit
<1> QED
  BY <1>1, InitInv, InitEarn, CacheInitCause, CacheNextInv, CacheNextEarn, CacheNextCause, PTL
     DEF CacheSpec

\* The lifecycle keeps its types while the webhooks consume its notices.
THEOREM CacheTyping == CacheSpec => []TypeOK
<1>1. Inv /\ EarnInv /\ CauseInv => TypeOK
  BY DEF Inv, Types, TypeOK
<1> QED
  BY <1>1, CacheHolds, PTL

\* "Losing an invalidate at most delays freshness" (cache_invalidator.py:133): an
\* App serves a stage the user has left only while an invalidation is under way,
\* after one was lost, or after one overtook its commit.
THEOREM StaleIsExcused == CacheSpec => []StaleForCause
<1>1. Inv /\ EarnInv /\ CauseInv => StaleForCause
  BY DEF CauseInv, Cause, StaleForCause, Agrees
<1> QED
  BY <1>1, CacheHolds, PTL

=============================================================================
