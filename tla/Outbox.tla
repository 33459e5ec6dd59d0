------------------------------- MODULE Outbox -------------------------------
(***************************************************************************)
(* The gamification outbox and its dispatchers                             *)
(* (src/app/gamification/outbox.py, outbox_worker.py, and the dispatch     *)
(* route).  A dispatcher opens one transaction per batch: it selects the   *)
(* pending rows that are due, POSTs them one after the other, keeps the    *)
(* new columns in memory, and flushes and commits them all at the end.     *)
(* The worker process runs this in a loop; POST /outbox/dispatch runs it   *)
(* too, whenever somebody calls it.  Whatever interrupts a batch rolls     *)
(* back every row of it, those already delivered included.                 *)
(*                                                                         *)
(* An event gets one row per consumer.  Row ids follow the order of the    *)
(* events and, within an event, of the consumers.  XpLedger shows that the *)
(* events of one user are committed in the order of their ids; those of    *)
(* different users need not be.                                            *)
(***************************************************************************)
EXTENDS Database, Naturals, Sequences, FiniteSets

CONSTANTS
  NumEvents,     \* the events, numbered in the order of their outbox ids
  UserOf,        \* the user of an event
  NumConsumers,  \* the consumers of gamification_consumer_names
  Worker,        \* the outbox_worker process
  Routes,        \* concurrent calls of POST /outbox/dispatch
  Limit,         \* batch size: POLL_BATCH_SIZE, or the route's limit
  MAX_RETRIES,
  Breakable,     \* the consumers whose URL may turn out not to be one
  MaxFaults      \* bound on crashes, signals and configuration changes

Events == 1 .. NumEvents
Consumers == 1 .. NumConsumers
Rows == Events \X Consumers
Dispatchers == {Worker} \union Routes

ASSUME SizeAssumption ==
  /\ NumEvents \in Nat /\ NumConsumers \in Nat
  /\ Limit \in Nat \ {0}
  /\ MAX_RETRIES \in Nat \ {0}
  /\ MaxFaults \in Nat
ASSUME BreakableAssumption == Breakable \subseteq Consumers
ASSUME DispatcherAssumption == Worker \notin Routes

VARIABLES
  outbox,       \* gamification_outbox_events: the row of an event and consumer
  batch,        \* by dispatcher: the open transaction, or Closed
  loop,         \* where the worker's loop is
  exiting,      \* _should_exit
  configured,   \* consumers that have a URL and a secret in the environment
  broken,       \* consumers whose URL is set and is not a URL
  faults,       \* crashes, signals and configuration changes so far
  delivered,    \* how often a consumer processed an event: 0, 1, or 2 for more
  troubled      \* rows with a POST that failed, whose answer was lost, or whose
                \* batch was rolled back

vars == <<outbox, batch, loop, exiting, configured, broken, faults, delivered, troubled>>

\* last_error.  "network" stands for a 5xx answer too: both are retried.
Errors == {"none", "network", "http 4", "consumer_not_configured"}

OutboxRow ==
  [status : {"pending", "sent", "dead_letter"}, retry_count : 0 .. MAX_RETRIES,
   last_error : Errors, due : BOOLEAN]

ASSUME NoRowAssumption == NoRow \notin OutboxRow

Closed == [rows |-> {}, todo |-> {}, read |-> <<>>, edited |-> <<>>]

-----------------------------------------------------------------------------
(* Enqueue, in the transaction of the event: see XpLedger.                 *)

NewRow ==
  [status |-> "pending", retry_count |-> 0, last_error |-> "none", due |-> TRUE]

Enqueue(e) ==
  /\ \A c \in Consumers : outbox[<<e, c>>] = NoRow
  /\ \A f \in Events : f < e /\ UserOf[f] = UserOf[e] =>
       \A c \in Consumers : outbox[<<f, c>>] # NoRow
  /\ outbox' = [r \in Rows |-> IF r[1] = e THEN NewRow ELSE outbox[r]]
  /\ UNCHANGED <<batch, loop, exiting, configured, broken, faults, delivered, troubled>>

-----------------------------------------------------------------------------
(* One batch.                                                              *)

Before(q, r) == q[1] < r[1] \/ (q[1] = r[1] /\ q[2] < r[2])

\* Mutant of IsDue: the status is not looked at.
DueWhateverStatus(r) == outbox[r] # NoRow /\ outbox[r].due

IsDue(r) == outbox[r] # NoRow /\ outbox[r].status = "pending" /\ outbox[r].due

\* Mutant of DueRows: ORDER BY id DESC.
NewestDueRows ==
  {r \in Rows : IsDue(r) /\ Cardinality({q \in Rows : IsDue(q) /\ Before(r, q)}) < Limit}

\* The first Limit of the due rows, by id.
DueRows ==
  {r \in Rows : IsDue(r) /\ Cardinality({q \in Rows : IsDue(q) /\ Before(q, r)}) < Limit}

\* The worker polls only in its loop, and not once it was told to exit.
MayPoll(d) == d = Worker => loop = "polling" /\ ~exiting

Poll(d) ==
  /\ MayPoll(d)
  /\ batch[d] = Closed
  /\ DueRows # {}
  /\ LET read == [r \in DueRows |-> outbox[r]]
     IN  batch' = [batch EXCEPT ![d] =
                     [rows |-> DueRows, todo |-> DueRows, read |-> read, edited |-> read]]
  /\ UNCHANGED <<outbox, loop, exiting, configured, broken, faults, delivered, troubled>>

\* Nothing is due: the worker goes to sleep for IDLE_SECONDS.
PollNothing ==
  /\ MayPoll(Worker)
  /\ batch[Worker] = Closed
  /\ DueRows = {}
  /\ loop' = "idle"
  /\ UNCHANGED <<outbox, batch, exiting, configured, broken, faults, delivered, troubled>>

\* The row of the batch that is next to be sent.
IsNext(d, r) == r \in batch[d].todo /\ \A q \in batch[d].todo : q = r \/ Before(r, q)

\* The ORM object of row r becomes `new'; nothing is flushed yet.
Edit(d, r, new) ==
  batch' = [batch EXCEPT ![d].todo = @ \ {r}, ![d].edited = [@ EXCEPT ![r] = new]]

\* Mutants of Failed: one attempt too many or too few; a row that is given up
\* is marked as sent.
OneTooMany(row, error) ==
  LET n == row.retry_count + 1
  IN  IF error \in {"consumer_not_configured", "http 4"} \/ n > MAX_RETRIES
        THEN [row EXCEPT !.status = "dead_letter", !.retry_count = n, !.last_error = error]
        ELSE [row EXCEPT !.retry_count = n, !.last_error = error, !.due = FALSE]

OneTooFew(row, error) ==
  LET n == row.retry_count + 1
  IN  IF error \in {"consumer_not_configured", "http 4"} \/ n >= MAX_RETRIES - 1
        THEN [row EXCEPT !.status = "dead_letter", !.retry_count = n, !.last_error = error]
        ELSE [row EXCEPT !.retry_count = n, !.last_error = error, !.due = FALSE]

GivenUpAsSent(row, error) ==
  [OneTooMany(row, error) EXCEPT !.status = IF @ = "dead_letter" THEN "sent" ELSE @]

\* The columns after a failed attempt.  How long the row waits for the next one
\* is left out: BackoffElapses comes some time.
Failed(row, error) ==
  LET n == row.retry_count + 1
  IN  IF error \in {"consumer_not_configured", "http 4"} \/ n >= MAX_RETRIES
        THEN [row EXCEPT !.status = "dead_letter", !.retry_count = n, !.last_error = error]
        ELSE [row EXCEPT !.retry_count = n, !.last_error = error, !.due = FALSE]

\* httpx takes the consumer's URL and sends the request.
Postable(c) == c \in configured \ broken

\* The consumer processes the event.
Process(r) == delivered' = [delivered EXCEPT ![r] = IF @ < 2 THEN @ + 1 ELSE 2]

\* Mutant of PostAccepted: the row is not marked.
PostNotMarked(d, r) ==
  /\ IsNext(d, r)
  /\ Postable(r[2])
  /\ Process(r)
  /\ Edit(d, r, [batch[d].read[r] EXCEPT !.last_error = "none"])
  /\ UNCHANGED <<outbox, loop, exiting, configured, broken, faults, troubled>>

\* The consumer answers 2xx.
PostAccepted(d, r) ==
  /\ IsNext(d, r)
  /\ Postable(r[2])
  /\ Process(r)
  /\ Edit(d, r, [batch[d].read[r] EXCEPT !.status = "sent", !.last_error = "none"])
  /\ UNCHANGED <<outbox, loop, exiting, configured, broken, faults, troubled>>

\* The consumer processes the event and the answer is lost: a timeout.
PostAnswerLost(d, r) ==
  /\ IsNext(d, r)
  /\ Postable(r[2])
  /\ Process(r)
  /\ Edit(d, r, Failed(batch[d].read[r], "network"))
  /\ troubled' = troubled \union {r}
  /\ UNCHANGED <<outbox, loop, exiting, configured, broken, faults>>

\* The consumer cannot be reached, fails, refuses the event, or has lost its
\* configuration; it has not processed the event.
PostFailed(d, r) ==
  /\ IsNext(d, r)
  /\ \E error \in Errors \ {"none"} :
       /\ error = "consumer_not_configured" <=> r[2] \notin configured
       /\ r[2] \in configured => Postable(r[2])
       /\ Edit(d, r, Failed(batch[d].read[r], error))
  /\ troubled' = troubled \union {r}
  /\ UNCHANGED <<outbox, loop, exiting, configured, broken, faults, delivered>>

Accepted(d) == \A r \in batch[d].rows :
  CanStore(outbox[r], batch[d].read[r], batch[d].edited[r])

Close(d) == batch' = [batch EXCEPT ![d] = Closed]

\* A batch that did something is followed by the next poll at once.
CommitBatch(d) ==
  /\ batch[d].rows # {} /\ batch[d].todo = {}
  /\ Accepted(d)
  /\ outbox' = [r \in Rows |->
       IF r \in batch[d].rows
         THEN Stored(outbox[r], batch[d].read[r], batch[d].edited[r])
         ELSE outbox[r]]
  /\ Close(d)
  /\ UNCHANGED <<loop, exiting, configured, broken, faults, delivered, troubled>>

\* The rows of the batch that were sent and are about to be forgotten.
Undone(d) == batch[d].rows \ batch[d].todo

RollbackBatch(d) ==
  /\ batch[d].rows # {}
  /\ Close(d)
  /\ troubled' = troubled \union Undone(d)

\* The database refuses the UPDATE of a row that another dispatcher changed.
\* The worker catches the exception and sleeps ERROR_BACKOFF_SECONDS.
RefuseBatch(d) ==
  /\ batch[d].todo = {} /\ ~Accepted(d)
  /\ RollbackBatch(d)
  /\ loop' = IF d = Worker THEN "backing_off" ELSE loop
  /\ UNCHANGED <<outbox, exiting, configured, broken, faults, delivered>>

\* client.post raises InvalidURL, which is neither of the two exceptions that
\* count as an attempt: it ends the batch, and every later one with this row.
PostRaises(d) ==
  /\ \E r \in batch[d].todo : IsNext(d, r) /\ r[2] \in configured \intersect broken
  /\ RollbackBatch(d)
  /\ loop' = IF d = Worker THEN "backing_off" ELSE loop
  /\ UNCHANGED <<outbox, exiting, configured, broken, faults, delivered>>

\* Any other exception, in the middle of the batch.
BreakBatch(d) ==
  /\ faults < MaxFaults
  /\ RollbackBatch(d)
  /\ loop' = IF d = Worker THEN "backing_off" ELSE loop
  /\ faults' = faults + 1
  /\ UNCHANGED <<outbox, exiting, configured, broken, delivered>>

-----------------------------------------------------------------------------
(* The worker's loop.                                                      *)

\* Mutant of Wake: the loop does not go on after an exception.
WakeFromIdle ==
  /\ loop = "idle"
  /\ loop' = "polling"
  /\ UNCHANGED <<outbox, batch, exiting, configured, broken, faults, delivered, troubled>>

\* _sleep_or_exit returns: the time is up, or shutdown was requested.
Wake ==
  /\ loop \in {"idle", "backing_off"}
  /\ loop' = "polling"
  /\ UNCHANGED <<outbox, batch, exiting, configured, broken, faults, delivered, troubled>>

\* SIGTERM or SIGINT.
Signal ==
  /\ faults < MaxFaults
  /\ loop # "stopped" /\ ~exiting
  /\ exiting' = TRUE
  /\ faults' = faults + 1
  /\ UNCHANGED <<outbox, batch, loop, configured, broken, delivered, troubled>>

\* The loop condition is looked at between batches.
Stop ==
  /\ exiting /\ loop = "polling" /\ batch[Worker] = Closed
  /\ loop' = "stopped"
  /\ UNCHANGED <<outbox, batch, exiting, configured, broken, faults, delivered, troubled>>

\* The worker process dies; its connection goes and its transaction with it.
Crash ==
  /\ faults < MaxFaults
  /\ loop # "stopped"
  /\ loop' = "stopped"
  /\ Close(Worker)
  /\ troubled' = troubled \union Undone(Worker)
  /\ faults' = faults + 1
  /\ UNCHANGED <<outbox, exiting, configured, broken, delivered>>

\* systemd starts the unit again.
Restart ==
  /\ loop = "stopped"
  /\ loop' = "polling" /\ exiting' = FALSE
  /\ UNCHANGED <<outbox, batch, configured, broken, faults, delivered, troubled>>

-----------------------------------------------------------------------------
(* The environment.                                                        *)

\* next_retry_at has passed.
BackoffElapses(r) ==
  /\ outbox[r] # NoRow /\ outbox[r].status = "pending" /\ ~outbox[r].due
  /\ outbox' = [outbox EXCEPT ![r].due = TRUE]
  /\ UNCHANGED <<batch, loop, exiting, configured, broken, faults, delivered, troubled>>

Deconfigure(c) ==
  /\ faults < MaxFaults
  /\ c \in configured
  /\ configured' = configured \ {c}
  /\ faults' = faults + 1
  /\ UNCHANGED <<outbox, batch, loop, exiting, broken, delivered, troubled>>

\* The URL in the environment is replaced by one that httpx cannot parse.
Misconfigure(c) ==
  /\ faults < MaxFaults
  /\ c \in Breakable \ broken
  /\ broken' = broken \union {c}
  /\ faults' = faults + 1
  /\ UNCHANGED <<outbox, batch, loop, exiting, configured, delivered, troubled>>

-----------------------------------------------------------------------------

Init ==
  /\ outbox = [r \in Rows |-> NoRow]
  /\ batch = [d \in Dispatchers |-> Closed]
  /\ loop = "polling"
  /\ exiting = FALSE
  /\ configured = Consumers
  /\ broken = {}
  /\ faults = 0
  /\ delivered = [r \in Rows |-> 0]
  /\ troubled = {}

Send(d) ==
  \E r \in batch[d].todo : PostAccepted(d, r) \/ PostAnswerLost(d, r) \/ PostFailed(d, r)

Dispatch(d) ==
  Poll(d) \/ Send(d) \/ PostRaises(d) \/ CommitBatch(d) \/ RefuseBatch(d) \/ BreakBatch(d)

Next ==
  \/ \E e \in Events : Enqueue(e)
  \/ \E d \in Dispatchers : Dispatch(d)
  \/ PollNothing \/ Wake \/ Signal \/ Stop \/ Crash \/ Restart
  \/ \E r \in Rows : BackoffElapses(r)
  \/ \E c \in Consumers : Deconfigure(c) \/ Misconfigure(c)

\* The worker's loop runs, a POST answers or times out, systemd restarts the
\* worker, and time passes.  Nothing obliges anyone to call the route, but a
\* call that was made runs to its end.
Fairness ==
  /\ \A d \in Dispatchers : WF_vars(Send(d) \/ PostRaises(d) \/ CommitBatch(d) \/ RefuseBatch(d))
  /\ WF_vars(Poll(Worker) \/ PollNothing \/ Wake \/ Stop \/ Restart)
  /\ \A r \in Rows : WF_vars(BackoffElapses(r))

Spec == Init /\ [][Next]_vars

FairSpec == Spec /\ Fairness

-----------------------------------------------------------------------------
(* What the outbox promises.                                               *)

TypeOK ==
  /\ outbox \in [Rows -> OutboxRow \union {NoRow}]
  /\ DOMAIN batch = Dispatchers
  /\ \A d \in Dispatchers :
       /\ batch[d].todo \subseteq batch[d].rows /\ batch[d].rows \subseteq Rows
       /\ DOMAIN batch[d].read = batch[d].rows /\ DOMAIN batch[d].edited = batch[d].rows
       /\ \A r \in batch[d].rows : batch[d].read[r] \in OutboxRow /\ batch[d].edited[r] \in OutboxRow
  /\ loop \in {"polling", "idle", "backing_off", "stopped"}
  /\ exiting \in BOOLEAN
  /\ configured \subseteq Consumers /\ broken \subseteq Breakable
  /\ faults \in 0 .. MaxFaults
  /\ delivered \in [Rows -> 0 .. 2]
  /\ troubled \subseteq Rows

Status(r) == IF outbox[r] = NoRow THEN "absent" ELSE outbox[r].status

\* At least once (models.py:266-272, outbox.py:164-169): a row says "sent" only
\* if its consumer has processed the event, whatever was rolled back, refused
\* or sent twice on the way.
SentWasProcessed == \A r \in Rows : Status(r) = "sent" => delivered[r] > 0

\* Nothing is given up early (outbox.py:170-185): a dead letter was refused by
\* its consumer, has none, or failed MAX_RETRIES times; a row that was sent had
\* attempts left.
GivenUpForCause ==
  \A r \in Rows :
    /\ Status(r) = "dead_letter" =>
         \/ outbox[r].last_error \in {"http 4", "consumer_not_configured"}
         \/ outbox[r].retry_count >= MAX_RETRIES
    /\ Status(r) \in {"pending", "sent"} => outbox[r].retry_count < MAX_RETRIES

\* With the worker as the only dispatcher (outbox_worker.py:21-23) an event is
\* processed twice by a consumer only after something went wrong with it: an
\* answer that was lost or a batch that was rolled back.
RepeatNeedsTrouble == \A r \in Rows : delivered[r] > 1 => r \in troubled

\* Row r waits for nothing but its turn.
Untroubled(r) == Status(r) # "absent" /\ delivered[r] = 0 /\ r \notin troubled

\* A consumer gets the events of one user in their order (outbox.py:153), so
\* that the last level it heard of is the latest, as long as none of them had a
\* failed attempt: an event is overtaken only by a retry.
OnlyRetriesAreOvertaken ==
  \A e, f \in Events, c \in Consumers :
    e < f /\ UserOf[e] = UserOf[f] /\ delivered[<<f, c>>] > 0 => ~Untroubled(<<e, c>>)

\* A settled row is never touched again (outbox.py:147-188): a dispatcher that
\* read it as pending cannot turn a sent row into a dead letter or a dead
\* letter into a sent one.
SettledStays ==
  [][\A r \in Rows : Status(r) \in {"sent", "dead_letter"} => outbox'[r] = outbox[r]]_vars

\* Seen without its batches, retries and restarts, the outbox with the worker as
\* its only dispatcher is the at-least-once delivery that module Delivery
\* describes: what is rolled back was pending, and what is settled stays so.
Promise == INSTANCE Delivery WITH
  Items <- Rows,
  state <- [r \in Rows |-> Status(r)],
  processed <- [r \in Rows |-> delivered[r] > 0]

ImplementsDelivery == Promise!Spec

\* Every event reaches the end of its life at every consumer (outbox_worker.py
\* 60-93; "5+ retries -> dead_letter", outbox.py:10): the worker's loop, its
\* restarts and the backoff leave no row pending for ever, rolled back batches
\* and refused commits notwithstanding.
EventuallySettled ==
  \A r \in Rows : Status(r) = "pending" ~> Status(r) \in {"sent", "dead_letter"}

=============================================================================
