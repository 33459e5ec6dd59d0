----------------------------- MODULE Lifecycle -----------------------------
(***************************************************************************)
(* The lifecycle state machine of the conversion module                    *)
(* (src/app/conversion/lifecycle.py, service.py, routes.py).  An event is  *)
(* stored and the rules are run in one transaction; an admin override is   *)
(* another.  A user's status is not a column: it is the to_status of her   *)
(* latest row in lifecycle_transitions, read at the start of the           *)
(* transaction, possibly seconds before the new row is inserted (the rule  *)
(* for franchisee_active waits for an HTTP answer).  Nothing is locked and *)
(* rows are only inserted, so no two transactions ever conflict.           *)
(*                                                                         *)
(* A transaction goes through Begin (the event is flushed, the status and  *)
(* the days are read), Evaluate or Override (a row is stamped with the     *)
(* clock), Insert (the row is flushed: it gets its id, and the cache       *)
(* invalidation is scheduled) and Commit (others see it).  AskAgain comes  *)
(* before Evaluate when the mothership fails the first attempt.  One clock *)
(* unit stands for the second of transitioned_at and for the day of        *)
(* occurred_at alike: only the order of the former matters.                *)
(***************************************************************************)
EXTENDS MothershipClient, Integers, FiniteSets

CONSTANTS
  Users,
  Workers,                            \* concurrent requests
  EventRequests,                      \* what Apps and the mothership may post
  Overrides,                          \* what admins may post: [user, to]
  Answers,                            \* what the mothership may answer
  VISITOR_LOYALIST_CONTINUOUS_DAYS,
  LookbackSlack,                      \* the 7 days beyond the streak
  FIRST_ORDER_THRESHOLD,              \* FRANCHISEE_SELF_USE_FIRST_ORDER_THRESHOLD
  MaxClock, MaxTransitions            \* bounds of the model

STATES ==
  <<"visitor", "loyalist", "applicant", "franchisee_self_use", "franchisee_active">>

Stages == {STATES[i] : i \in 1 .. 5}

NoStatus == "no transition yet"     \* None
NoAmount == -1                      \* missing, or nothing Decimal can read
NaN == -2                           \* Decimal("NaN"), which cannot be compared

DEEP == "engagement.deep"
EventTypes ==
  {DEEP, "subscription.premium_active", "franchise.cta_view", "franchise.cta_click",
   "mothership.consultation_submitted", "mothership.first_order",
   "academy.operator_portal_click", "app.opened"}

ASSUME RequestsAssumption ==
  /\ EventRequests \subseteq [user : Users, type : EventTypes, day : Nat, amount : Nat \union {NoAmount, NaN}]
  /\ Overrides \subseteq [user : Users, to : Stages]
  /\ Answers \subseteq [kind : STRING, months : Seq(Nat)]
ASSUME BoundsAssumption ==
  /\ VISITOR_LOYALIST_CONTINUOUS_DAYS \in Nat \ {0}
  /\ LookbackSlack \in Nat /\ FIRST_ORDER_THRESHOLD \in Nat
  /\ MaxClock \in Nat \ {0} /\ MaxTransitions \in Nat

VARIABLES
  events,        \* conversion_events; a row that was posted twice counts once
  transitions,   \* lifecycle_transitions, committed
  nextId,        \* its AUTO_INCREMENT
  clock,
  notices,       \* by user: invalidations scheduled; LifecycleCache delivers them
  txn,           \* by worker: Idle or the open transaction
  vouched        \* users for whom the mothership listed months that suffice

vars == <<events, transitions, nextId, clock, notices, txn, vouched>>

Idle == [phase |-> "idle"]

-----------------------------------------------------------------------------
(* Reading the tables.                                                     *)

RowsOf(u) == {t \in transitions : t.user = u}

Later(t, s) == t.at > s.at \/ (t.at = s.at /\ t.id > s.id)

\* Mutant of CurrentStatus: the oldest row.
OldestStatus(u) ==
  IF RowsOf(u) = {} THEN NoStatus
  ELSE (CHOOSE t \in RowsOf(u) : \A s \in RowsOf(u) \ {t} : Later(s, t)).to

\* get_current_status: by transitioned_at, ties by id.
CurrentStatus(u) ==
  IF RowsOf(u) = {} THEN NoStatus
  ELSE (CHOOSE t \in RowsOf(u) : \A s \in RowsOf(u) \ {t} : Later(t, s)).to

\* Mutant of FunnelStatus: min(id).
FunnelOfOldest(u) ==
  IF RowsOf(u) = {} THEN NoStatus
  ELSE (CHOOSE t \in RowsOf(u) : \A s \in RowsOf(u) : t.id <= s.id).to

\* funnel_metrics: by id alone.  A user with no row is not counted.
FunnelStatus(u) ==
  IF RowsOf(u) = {} THEN NoStatus
  ELSE (CHOOSE t \in RowsOf(u) : \A s \in RowsOf(u) : t.id >= s.id).to

Rank(status) == IF status = NoStatus THEN 1 ELSE CHOOSE i \in 1 .. 5 : STATES[i] = status

\* The days of engagement.deep events in the lookback window, in a set of rows.
DeepDays(rows, u) ==
  {e.day : e \in {f \in rows :
     /\ f.user = u /\ f.type = DEEP
     /\ f.day >= clock - (VISITOR_LOYALIST_CONTINUOUS_DAYS + LookbackSlack)}}

Streak(days, today) == \A i \in 0 .. VISITOR_LOYALIST_CONTINUOUS_DAYS - 1 : today - i \in days

-----------------------------------------------------------------------------
(* The rules.  The status of the transaction decides which one can fire.   *)

\* Mutant of VisitorToLoyalist: any status will do.
AnyToLoyalist(t) ==
  \/ t.event.type = "subscription.premium_active"
  \/ t.event.type = DEEP /\ Streak(t.days, t.event.day)

VisitorToLoyalist(t) ==
  /\ t.status \in {NoStatus, "visitor"}
  /\ \/ t.event.type = "subscription.premium_active"
     \/ t.event.type = DEEP /\ Streak(t.days, t.event.day)

LoyalistToApplicant(t) ==
  /\ t.status = "loyalist"
  /\ t.event.type \in {"franchise.cta_click", "mothership.consultation_submitted"}

\* Mutant of ApplicantToSelfUse: any status will do.
AnyToSelfUse(t) ==
  /\ t.event.type = "mothership.first_order"
  /\ t.event.amount # NoAmount /\ t.event.amount >= FIRST_ORDER_THRESHOLD

ApplicantToSelfUse(t) ==
  /\ t.status = "applicant"
  /\ t.event.type = "mothership.first_order"
  /\ t.event.amount # NoAmount /\ t.event.amount >= FIRST_ORDER_THRESHOLD

\* The portal click, or the months the mothership reported.
SelfUseToActive(t, monthly) ==
  /\ t.status = "franchisee_self_use"
  /\ t.event.type = "academy.operator_portal_click" \/ Buying(monthly)

\* The rule reaches its path (a).
AsksMothership(t) ==
  /\ t.status = "franchisee_self_use"
  /\ t.event.type # "academy.operator_portal_click"

\* Comparing NaN with the threshold raises InvalidOperation.
Raises(t) ==
  t.status = "applicant" /\ t.event.type = "mothership.first_order" /\ t.event.amount = NaN

\* Mutant of Target: the name the stage had in ADR-003.
OldTarget(t, monthly) ==
  CASE VisitorToLoyalist(t) -> "loyalist"
    [] LoyalistToApplicant(t) -> "applicant"
    [] ApplicantToSelfUse(t) \/ SelfUseToActive(t, monthly) -> "franchisee"
    [] OTHER -> NoStatus

\* The status the rules lead to, or NoStatus.
Target(t, monthly) ==
  CASE VisitorToLoyalist(t) -> "loyalist"
    [] LoyalistToApplicant(t) -> "applicant"
    [] ApplicantToSelfUse(t) -> "franchisee_self_use"
    [] SelfUseToActive(t, monthly) -> "franchisee_active"
    [] OTHER -> NoStatus

-----------------------------------------------------------------------------
(* A request.                                                              *)

\* POST /events and /internal/events: the transaction sees its own event.
BeginEvent(w, e) ==
  /\ txn[w] = Idle
  /\ txn' = [txn EXCEPT ![w] =
       [phase |-> "evaluating", user |-> e.user, event |-> e,
        status |-> CurrentStatus(e.user), days |-> DeepDays(events \union {e}, e.user)]]
  /\ UNCHANGED <<events, transitions, nextId, clock, notices, vouched>>

\* force_transition, from any of its three routes.  Any stage may follow any.
BeginOverride(w, o) ==
  /\ txn[w] = Idle
  /\ txn' = [txn EXCEPT ![w] =
       [phase |-> "overriding", user |-> o.user, to |-> o.to,
        status |-> CurrentStatus(o.user)]]
  /\ UNCHANGED <<events, transitions, nextId, clock, notices, vouched>>

\* The columns of the new row but for its id.
Stamped(t, to, manual) ==
  [user |-> t.user, from |-> t.status, to |-> to, at |-> clock, manual |-> manual]

\* The rules are through: nothing to do, or a row to insert.
Decide(w, monthly) ==
  LET t  == txn[w]
      to == Target(t, monthly)
  IN  txn' = [txn EXCEPT ![w] =
        IF to = NoStatus
          THEN [phase |-> "flushed", event |-> t.event]
          ELSE [phase |-> "stamped", event |-> t.event, row |-> Stamped(t, to, FALSE)]]

\* The first attempt timed out or was answered with a 5xx: there is a second.
AskAgain(w) ==
  /\ txn[w].phase = "evaluating" /\ AsksMothership(txn[w])
  /\ \E answer \in Answers : Retriable(answer)
  /\ txn' = [txn EXCEPT ![w].phase = "asking again"]
  /\ UNCHANGED <<events, transitions, nextId, clock, notices, vouched>>

EvaluateAlone(w) ==
  /\ txn[w].phase = "evaluating"
  /\ ~AsksMothership(txn[w]) /\ ~Raises(txn[w])
  /\ Decide(w, Zeros)
  /\ UNCHANGED <<events, transitions, nextId, clock, notices, vouched>>

EvaluateAnswered(w) ==
  /\ txn[w].phase \in {"evaluating", "asking again"} /\ AsksMothership(txn[w])
  /\ \E answer \in Answers :
       /\ txn[w].phase = "evaluating" => ~Retriable(answer)
       /\ Decide(w, MonthlyPurchases(answer))
       /\ vouched' = IF Vouches(answer) THEN vouched \union {txn[w].user} ELSE vouched
  /\ UNCHANGED <<events, transitions, nextId, clock, notices>>

Evaluate(w) == AskAgain(w) \/ EvaluateAlone(w) \/ EvaluateAnswered(w)

Override(w) ==
  /\ txn[w].phase = "overriding"
  /\ txn' = [txn EXCEPT ![w] =
       [phase |-> "stamped", row |-> Stamped(txn[w], txn[w].to, TRUE)]]
  /\ UNCHANGED <<events, transitions, nextId, clock, notices, vouched>>

WithId(row, id) ==
  [id |-> id, user |-> row.user, from |-> row.from, to |-> row.to, at |-> row.at,
   manual |-> row.manual]

\* Mutant of Insert: an override schedules no invalidation.
InsertOverrideSilently(w) ==
  /\ txn[w].phase = "stamped"
  /\ nextId <= MaxTransitions
  /\ nextId' = nextId + 1
  /\ txn' = [txn EXCEPT ![w] =
       [@ EXCEPT !.phase = "flushed", !.row = WithId(txn[w].row, nextId)]]
  /\ notices' = [notices EXCEPT ![txn[w].row.user] = @ + IF txn[w].row.manual THEN 0 ELSE 1]
  /\ UNCHANGED <<events, transitions, clock, vouched>>

\* The flush, and schedule_invalidate right after it.
Insert(w) ==
  /\ txn[w].phase = "stamped"
  /\ nextId <= MaxTransitions
  /\ nextId' = nextId + 1
  /\ txn' = [txn EXCEPT ![w] =
       [@ EXCEPT !.phase = "flushed", !.row = WithId(txn[w].row, nextId)]]
  /\ notices' = [notices EXCEPT ![txn[w].row.user] = @ + 1]
  /\ UNCHANGED <<events, transitions, clock, vouched>>

Commit(w) ==
  /\ txn[w].phase = "flushed"
  /\ events' = events \union (IF "event" \in DOMAIN txn[w] THEN {txn[w].event} ELSE {})
  /\ transitions' = transitions \union (IF "row" \in DOMAIN txn[w] THEN {txn[w].row} ELSE {})
  /\ txn' = [txn EXCEPT ![w] = Idle]
  /\ UNCHANGED <<nextId, clock, notices, vouched>>

\* An exception (an amount or a list of months that cannot be compared or read
\* among them), a lost connection or a killed process.
Rollback(w) ==
  /\ txn[w] # Idle
  /\ txn' = [txn EXCEPT ![w] = Idle]
  /\ UNCHANGED <<events, transitions, nextId, clock, notices, vouched>>

-----------------------------------------------------------------------------

Tick ==
  /\ clock < MaxClock
  /\ clock' = clock + 1
  /\ UNCHANGED <<events, transitions, nextId, notices, txn, vouched>>

Init ==
  /\ events = {}
  /\ transitions = {}
  /\ nextId = 1
  /\ clock = 1
  /\ notices = [u \in Users |-> 0]
  /\ txn = [w \in Workers |-> Idle]
  /\ vouched = {}

\* A request makes progress.
Work(w) == Evaluate(w) \/ Override(w) \/ Insert(w) \/ Commit(w) \/ Rollback(w)

Begin(w) ==
  \/ \E e \in EventRequests : BeginEvent(w, e)
  \/ \E o \in Overrides : BeginOverride(w, o)

Next ==
  \/ \E w \in Workers : Begin(w) \/ Work(w)
  \/ Tick

Spec == Init /\ [][Next]_vars

-----------------------------------------------------------------------------
(* What the lifecycle promises.                                            *)

Stamp == [user : Users, from : Stages \union {NoStatus}, to : Stages, at : 1 .. MaxClock,
          manual : BOOLEAN]
Transition == [id : 1 .. MaxTransitions, user : Users, from : Stages \union {NoStatus},
               to : Stages, at : 1 .. MaxClock, manual : BOOLEAN]

TypeOK ==
  /\ events \subseteq EventRequests
  /\ transitions \subseteq Transition
  /\ nextId \in 1 .. MaxTransitions + 1
  /\ clock \in 1 .. MaxClock
  /\ notices \in [Users -> 0 .. MaxTransitions]
  /\ DOMAIN txn = Workers
  /\ vouched \subseteq Users

\* The event that takes a user to a stage, by the table of ADR-008 at the head
\* of lifecycle.py, whatever else she did.
Evidence(u, stage) ==
  LET of(types) == \E e \in events : e.user = u /\ e.type \in types
  IN  CASE stage = "visitor" -> TRUE
        [] stage = "loyalist" ->
             \/ of({"subscription.premium_active"})
             \/ \E e \in events :
                  Streak({f.day : f \in {g \in events : g.user = u /\ g.type = DEEP}}, e.day)
        [] stage = "applicant" ->
             of({"franchise.cta_click", "mothership.consultation_submitted"})
        [] stage = "franchisee_self_use" ->
             \E e \in events : /\ e.user = u /\ e.type = "mothership.first_order"
                               /\ e.amount >= FIRST_ORDER_THRESHOLD
        [] stage = "franchisee_active" ->
             of({"academy.operator_portal_click"}) \/ u \in vouched

\* No stage is skipped (lifecycle.py:75-228): whatever handlers overlap, a user
\* who stands on a stage has stored events for it and for every stage below it,
\* except those an override has lifted her over.  The last stage takes the click
\* or months the mothership really listed: no timeout, error or short list of
\* mothership.py:213-260 fires the rule.
StageEarned ==
  \A t \in transitions : \A i \in 1 .. Rank(t.to) :
    \/ Evidence(t.user, STATES[i])
    \/ \E s \in transitions : s.user = t.user /\ s.manual /\ Rank(s.to) >= i

\* The history of a user is one chain (get_lifecycle_history, service.py:89-101):
\* read in its order, every row starts from the stage the row before it led to.
HistoryIsChain ==
  \A t \in transitions :
    LET before == {s \in RowsOf(t.user) : Later(t, s)}
    IN  IF before = {} THEN t.from = NoStatus
        ELSE \E s \in before : s.to = t.from /\ \A q \in before \ {s} : Later(s, q)

\* "A user that's already past loyalist won't regress" (lifecycle.py:85-86):
\* a commit that is not an override never takes a user to an earlier stage.
RulesNeverRegress ==
  [][\A u \in Users :
       (\A t \in transitions' \ transitions : ~t.manual) =>
         Rank(CurrentStatus(u)') >= Rank(CurrentStatus(u))]_vars

\* "Lifecycle stage counts (current status per uuid)" (routes.py:212): the
\* funnel counts every user where get_current_status says she is.
FunnelAgrees == \A u \in Users : FunnelStatus(u) = CurrentStatus(u)

\* Seen without rows, ids, clock, attempts and rolled back requests, requests
\* that come one at a time are the journey that module Journey describes
\* (lifecycle.py:262-303 "First match wins"): a rule takes a user up by exactly
\* one stage, and only when what ADR-008 asks for it is stored.
Promise == INSTANCE Journey WITH
  Travellers <- Users,
  Top <- 5,
  stage <- [u \in Users |-> Rank(CurrentStatus(u))],
  earned <- [u \in Users |-> {i \in 1 .. 5 : Evidence(u, STATES[i])}],
  overrides <- [u \in Users |-> Cardinality({t \in RowsOf(u) : t.manual})]

ImplementsJourney == Promise!JourneySpec

=============================================================================
