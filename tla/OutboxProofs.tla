---------------------------- MODULE OutboxProofs ----------------------------
(***************************************************************************)
(* What holds of Outbox for any events, users, consumers, batch size and   *)
(* number of attempts.                                                     *)
(***************************************************************************)
EXTENDS Outbox, FiniteSetTheorems, TLAPS

-----------------------------------------------------------------------------
(* One row.                                                                *)

\* A row is a dead letter for a reason; before that it has attempts left.
Justified(row) ==
  /\ row.status = "dead_letter" =>
       \/ row.last_error \in {"http 4", "consumer_not_configured"}
       \/ row.retry_count >= MAX_RETRIES
  /\ row.status \in {"pending", "sent"} => row.retry_count < MAX_RETRIES

Attemptable(row) ==
  row \in OutboxRow /\ row.status = "pending" /\ row.retry_count < MAX_RETRIES

Marked(row) == [row EXCEPT !.status = "sent", !.last_error = "none"]

\* A failed attempt leaves a row that is pending with attempts left, or a dead
\* letter with its reason.
LEMMA FailedRow ==
  ASSUME NEW row, Attemptable(row), NEW error \in Errors \ {"none"}
  PROVE  /\ Failed(row, error) \in OutboxRow
         /\ Justified(Failed(row, error))
         /\ Failed(row, error).status # "sent"
<1> DEFINE n == row.retry_count + 1
           new == Failed(row, error)
<1>1. row \in OutboxRow /\ row.retry_count < MAX_RETRIES /\ row.status = "pending"
  BY DEF Attemptable
<1>2. n \in 0 .. MAX_RETRIES /\ n \in Nat
  <2>1. row.retry_count \in 0 .. MAX_RETRIES
    BY <1>1 DEF OutboxRow
  <2> QED
    BY <1>1, <2>1, SizeAssumption
<1> HIDE DEF n
<1>3. CASE error \in {"consumer_not_configured", "http 4"} \/ n >= MAX_RETRIES
  <2>1. new = [row EXCEPT !.status = "dead_letter", !.retry_count = n, !.last_error = error]
    BY <1>3 DEF Failed, n
  <2>2. new \in OutboxRow /\ new.status = "dead_letter" /\ new.retry_count = n
        /\ new.last_error = error
    BY <1>1, <1>2, <2>1 DEF OutboxRow
  <2> QED
    BY <1>2, <1>3, <2>2, SizeAssumption DEF Justified
<1>4. CASE ~(error \in {"consumer_not_configured", "http 4"} \/ n >= MAX_RETRIES)
  <2>1. new = [row EXCEPT !.retry_count = n, !.last_error = error, !.due = FALSE]
    BY <1>4 DEF Failed, n
  <2>2. new \in OutboxRow /\ new.status = "pending" /\ new.retry_count = n
    BY <1>1, <1>2, <2>1 DEF OutboxRow
  <2>3. ~(n >= MAX_RETRIES)
    BY <1>4
  <2>4. n < MAX_RETRIES
    BY <1>2, <2>3, SizeAssumption
  <2> QED
    BY <2>2, <2>4 DEF Justified
<1> QED
  BY <1>3, <1>4

LEMMA MarkedRow ==
  ASSUME NEW row, Attemptable(row)
  PROVE  Marked(row) \in OutboxRow /\ Justified(Marked(row)) /\ Marked(row).status = "sent"
  BY SizeAssumption DEF Attemptable, OutboxRow, Errors, Marked, Justified

LEMMA NewRowType ==
  NewRow \in OutboxRow /\ NewRow # NoRow /\ Attemptable(NewRow) /\ Justified(NewRow)
<1>1. NewRow \in OutboxRow
  BY SizeAssumption DEF NewRow, OutboxRow, Errors
<1>2. NewRow # NoRow
  BY <1>1, NoRowAssumption
<1>3. NewRow.status = "pending" /\ NewRow.retry_count = 0 /\ 0 < MAX_RETRIES
  BY SizeAssumption DEF NewRow
<1> QED
  BY <1>1, <1>2, <1>3 DEF Attemptable, Justified

\* What an UPDATE makes of a row that was pending when it was read: each column
\* is the new one or the one that is there, and a status that is still pending
\* was pending on both sides.
LEMMA StoredRow ==
  ASSUME NEW now \in OutboxRow, NEW read, Attemptable(read), NEW new \in OutboxRow
  PROVE  /\ Stored(now, read, new) \in OutboxRow
         /\ Stored(now, read, new).status \in {now.status, new.status}
         /\ Stored(now, read, new).retry_count \in {now.retry_count, new.retry_count}
         /\ Stored(now, read, new).status = "pending" =>
              now.status = "pending" /\ new.status = "pending"
  BY NoRowAssumption DEF Stored, Written, OutboxRow, Attemptable

\* If nobody changed the row in between, it is the one computed.
LEMMA StoredOnRead ==
  ASSUME NEW read, Attemptable(read), NEW new \in OutboxRow
  PROVE  Stored(read, read, new) = new
  BY NoRowAssumption DEF Stored, Written, OutboxRow, Attemptable

\* If the first updater wins, the row is the one computed, or untouched because
\* nothing was to be changed.
LEMMA StoredExactly ==
  ASSUME FirstUpdaterWins, NEW now \in OutboxRow, NEW read, Attemptable(read),
         NEW new \in OutboxRow, CanStore(now, read, new)
  PROVE  \/ now = read /\ Stored(now, read, new) = new
         \/ Stored(now, read, new) = now
<1>1. CASE read = new
  BY <1>1, NoRowAssumption DEF Stored, Written, OutboxRow, Attemptable
<1>2. CASE read # new
  <2>1. now = read
    BY <1>2, NoRowAssumption DEF CanStore, Attemptable
  <2> QED
    BY <2>1, StoredOnRead
<1> QED
  BY <1>1, <1>2

-----------------------------------------------------------------------------
(* One batch: what holds of b while it is open, o is the table and n says  *)
(* how often each consumer processed each event.                           *)

\* The rows a dispatcher keeps in memory.
Snapshots == UNION {[S -> OutboxRow] : S \in SUBSET Rows}

IsBatch(b) ==
  /\ b \in [rows : SUBSET Rows, todo : SUBSET Rows, read : Snapshots, edited : Snapshots]
  /\ b.todo \subseteq b.rows
  /\ b.read \in [b.rows -> OutboxRow] /\ b.edited \in [b.rows -> OutboxRow]

Sound(b, o, n) ==
  /\ IsBatch(b)
  /\ \A r \in b.rows :
       /\ o[r] # NoRow
       /\ Attemptable(b.read[r])
       /\ Justified(b.edited[r])
       /\ b.edited[r].status = "sent" => n[r] > 0
       /\ r \in b.todo => b.edited[r] = b.read[r]

LEMMA ClosedIsSound ==
  ASSUME NEW o, NEW n
  PROVE  Sound(Closed, o, n)
<1>1. <<>> \in [{} -> OutboxRow]
  OBVIOUS
<1>2. <<>> \in Snapshots
  BY <1>1 DEF Snapshots
<1> QED
  BY <1>1, <1>2 DEF Sound, IsBatch, Closed

\* Rows that stay and events that were processed keep a batch sound.
LEMMA SoundStays ==
  ASSUME NEW b, NEW o, NEW n, NEW p, NEW m, Sound(b, o, n),
         \A r \in Rows : (o[r] # NoRow => p[r] # NoRow) /\ (n[r] > 0 => m[r] > 0)
  PROVE  Sound(b, p, m)
  BY DEF Sound, IsBatch

Edited(b, r, new) == [b EXCEPT !.todo = @ \ {r}, !.edited = [@ EXCEPT ![r] = new]]

LEMMA EditedBatch ==
  ASSUME NEW b, IsBatch(b), NEW r \in b.todo, NEW new \in OutboxRow
  PROVE  LET c == Edited(b, r, new)
         IN  /\ IsBatch(c)
             /\ c.rows = b.rows /\ c.read = b.read /\ c.todo = b.todo \ {r}
             /\ c.edited[r] = new
             /\ \A q \in b.rows \ {r} : c.edited[q] = b.edited[q]
<1> DEFINE c == Edited(b, r, new)
           e == [b.edited EXCEPT ![r] = new]
           t == b.todo \ {r}
<1>1. e \in [b.rows -> OutboxRow] /\ e \in Snapshots /\ e[r] = new
      /\ \A q \in b.rows \ {r} : e[q] = b.edited[q]
  BY DEF IsBatch, Snapshots
<1>2. t \in SUBSET Rows /\ t \subseteq b.rows
  BY DEF IsBatch
<1>3. c = [b EXCEPT !.todo = t, !.edited = e]
  BY DEF Edited
<1>4. /\ c \in [rows : SUBSET Rows, todo : SUBSET Rows, read : Snapshots, edited : Snapshots]
      /\ c.rows = b.rows /\ c.read = b.read /\ c.todo = t /\ c.edited = e
  <2> HIDE DEF t, e, c
  <2> QED
    BY <1>1, <1>2, <1>3 DEF IsBatch
<1>5. IsBatch(c)
  BY <1>1, <1>2, <1>4 DEF IsBatch
<1> QED
  BY <1>1, <1>4, <1>5

LEMMA EditedIsSound ==
  ASSUME NEW b, NEW o, NEW n, Sound(b, o, n), NEW r \in b.todo, NEW new \in OutboxRow,
         Justified(new), new.status = "sent" => n[r] > 0
  PROVE  Sound(Edited(b, r, new), o, n)
<1> DEFINE c == Edited(b, r, new)
<1>1. /\ IsBatch(c) /\ c.rows = b.rows /\ c.read = b.read /\ c.todo = b.todo \ {r}
      /\ c.edited[r] = new /\ \A q \in b.rows \ {r} : c.edited[q] = b.edited[q]
  BY EditedBatch DEF Sound
<1> HIDE DEF c
<1> SUFFICES Sound(c, o, n)
  BY DEF c
<1> QED
  BY <1>1 DEF Sound

-----------------------------------------------------------------------------
(* On any database, with any number of dispatchers.                        *)

Types ==
  /\ outbox \in [Rows -> OutboxRow \union {NoRow}]
  /\ batch = [d \in Dispatchers |-> batch[d]]
  /\ loop \in {"polling", "idle", "backing_off", "stopped"}
  /\ exiting \in BOOLEAN
  /\ configured \subseteq Consumers /\ broken \subseteq Breakable
  /\ faults \in 0 .. MaxFaults
  /\ delivered \in [Rows -> 0 .. 2]
  /\ troubled \subseteq Rows

\* A row the outbox may hold, when its consumer has processed it n times.
Held(row, n) ==
  row # NoRow =>
    /\ row \in OutboxRow
    /\ row.status = "pending" => row.retry_count < MAX_RETRIES
    /\ row.status = "sent" => n > 0

Inv ==
  /\ Types
  /\ \A r \in Rows : Held(outbox[r], delivered[r])
  /\ \A d \in Dispatchers : Sound(batch[d], outbox, delivered)

\* What a step does to the parts that others rely on: rows stay, and what was
\* processed stays processed.
Grown ==
  \A r \in Rows : /\ outbox[r] # NoRow => outbox'[r] # NoRow
                  /\ delivered[r] > 0 => delivered'[r] > 0

\* One dispatcher moves on, or none: the other batches stay sound.
LEMMA OthersStaySound ==
  ASSUME Inv, Types', Grown, NEW d \in Dispatchers,
         \A c \in Dispatchers \ {d} : batch'[c] = batch[c],
         Sound(batch'[d], outbox', delivered')
  PROVE  \A c \in Dispatchers : Sound(batch'[c], outbox', delivered')
<1> SUFFICES ASSUME NEW c \in Dispatchers, c # d
             PROVE  Sound(batch'[c], outbox', delivered')
  OBVIOUS
<1>1. Sound(batch[c], outbox, delivered)
  BY DEF Inv
<1>2. Sound(batch[c], outbox', delivered')
  BY <1>1, SoundStays DEF Grown
<1> QED
  BY <1>2

LEMMA AllStaySound ==
  ASSUME Inv, Grown, UNCHANGED batch
  PROVE  \A c \in Dispatchers : Sound(batch'[c], outbox', delivered')
<1> SUFFICES ASSUME NEW c \in Dispatchers
             PROVE  Sound(batch'[c], outbox', delivered')
  OBVIOUS
<1>1. Sound(batch[c], outbox, delivered)
  BY DEF Inv
<1>2. Sound(batch[c], outbox', delivered')
  BY <1>1, SoundStays DEF Grown
<1> QED
  BY <1>2

LEMMA InitInv == Init => Inv
<1> SUFFICES ASSUME Init PROVE Inv
  OBVIOUS
<1>1. Types
  <2>1. outbox \in [Rows -> OutboxRow \union {NoRow}] /\ delivered \in [Rows -> 0 .. 2]
    BY DEF Init
  <2>2. batch = [d \in Dispatchers |-> batch[d]]
    BY DEF Init
  <2>3. faults \in 0 .. MaxFaults
    BY SizeAssumption DEF Init
  <2> QED
    BY <2>1, <2>2, <2>3 DEF Init, Types
<1>2. \A d \in Dispatchers : Sound(batch[d], outbox, delivered)
  BY ClosedIsSound DEF Init
<1> QED
  BY <1>1, <1>2 DEF Init, Inv, Held

LEMMA EnqueueInv ==
  ASSUME Inv, NEW e \in Events, Enqueue(e)
  PROVE  Inv'
<1>1. outbox' = [r \in Rows |-> IF r[1] = e THEN NewRow ELSE outbox[r]]
  BY DEF Enqueue
<1>2. Types'
  BY <1>1, NewRowType DEF Inv, Types, Enqueue
<1>3. Grown
  BY <1>1, NewRowType DEF Grown, Enqueue
<1>4. \A r \in Rows : Held(outbox'[r], delivered'[r])
  BY <1>1, NewRowType DEF Inv, Held, Enqueue, Attemptable
<1> QED
  BY <1>2, <1>3, <1>4, AllStaySound DEF Inv, Enqueue

LEMMA PollInv ==
  ASSUME Inv, NEW d \in Dispatchers, Poll(d)
  PROVE  Inv'
<1> DEFINE read == [r \in DueRows |-> outbox[r]]
           b == [rows |-> DueRows, todo |-> DueRows, read |-> read, edited |-> read]
<1>1. batch' = [batch EXCEPT ![d] = b]
  BY DEF Poll
<1>2. /\ Types' /\ batch'[d] = b /\ \A c \in Dispatchers \ {d} : batch'[c] = batch[c]
  BY <1>1 DEF Inv, Types, Poll
<1>3. Grown
  BY DEF Grown, Poll
<1>4. \A r \in DueRows : r \in Rows /\ Attemptable(outbox[r]) /\ outbox[r] # NoRow
  BY DEF DueRows, IsDue, Inv, Held, Attemptable
<1>5. DueRows \in SUBSET Rows /\ read \in [DueRows -> OutboxRow]
  BY <1>4 DEF Attemptable
<1>6. read \in Snapshots
  BY <1>5 DEF Snapshots
<1>7. \A r \in DueRows : read[r] = outbox[r] /\ Justified(read[r]) /\ read[r].status # "sent"
  BY <1>4 DEF Attemptable, Justified
<1>8. Sound(b, outbox, delivered)
  <2> HIDE DEF read
  <2> QED
    BY <1>4, <1>5, <1>6, <1>7 DEF Sound, IsBatch
<1>9. Sound(batch'[d], outbox', delivered')
  BY <1>2, <1>8 DEF Poll
<1>10. \A r \in Rows : Held(outbox'[r], delivered'[r])
  BY DEF Inv, Poll
<1> QED
  BY <1>2, <1>3, <1>9, <1>10, OthersStaySound DEF Inv

\* An attempt on row r: its ORM object is `new'.
Attempt(d, r, new) ==
  /\ Edit(d, r, new)
  /\ UNCHANGED <<outbox, loop, exiting, configured, broken, faults>>
  /\ delivered' = delivered \/ Process(r)
  /\ troubled' \subseteq Rows

\* Whatever the answer was, the row is edited into one that is justified.
LEMMA SendAttempts ==
  ASSUME Inv, NEW d \in Dispatchers, Send(d)
  PROVE  \E r \in batch[d].todo, new \in OutboxRow :
           /\ r \in Rows /\ r \in batch[d].rows /\ IsNext(d, r)
           /\ Attempt(d, r, new)
           /\ Justified(new)
           /\ new.status = "sent" => new = Marked(batch[d].read[r]) /\ Process(r)
           /\ new.status # "sent" => troubled' = troubled \union {r}
           /\ new.status = "sent" => troubled' = troubled
<1>1. PICK r \in batch[d].todo : PostAccepted(d, r) \/ PostAnswerLost(d, r) \/ PostFailed(d, r)
  BY DEF Send
<1>2. r \in Rows /\ r \in batch[d].rows /\ Attemptable(batch[d].read[r])
  BY DEF Inv, Sound, IsBatch
<1>3. troubled \subseteq Rows
  BY DEF Inv, Types
<1> DEFINE row == batch[d].read[r]
<1>4. CASE PostAccepted(d, r)
  <2>1. Attempt(d, r, Marked(row)) /\ Process(r) /\ IsNext(d, r) /\ troubled' = troubled
    BY <1>3, <1>4 DEF PostAccepted, Attempt, Marked
  <2> QED
    BY <1>2, <2>1, MarkedRow
<1>5. CASE PostAnswerLost(d, r)
  <2>1. /\ Attempt(d, r, Failed(row, "network")) /\ IsNext(d, r)
        /\ troubled' = troubled \union {r}
    BY <1>2, <1>3, <1>5 DEF PostAnswerLost, Attempt
  <2>2. "network" \in Errors \ {"none"}
    BY DEF Errors
  <2> QED
    BY <1>2, <2>1, <2>2, FailedRow
<1>6. CASE PostFailed(d, r)
  <2>1. PICK error \in Errors \ {"none"} : Edit(d, r, Failed(row, error))
    BY <1>6 DEF PostFailed
  <2>2. /\ Attempt(d, r, Failed(row, error)) /\ IsNext(d, r)
        /\ troubled' = troubled \union {r}
    BY <1>2, <1>3, <1>6, <2>1 DEF PostFailed, Attempt
  <2> QED
    BY <1>2, <2>1, <2>2, FailedRow
<1> QED
  BY <1>1, <1>4, <1>5, <1>6

LEMMA ProcessTypes ==
  ASSUME Inv, NEW r \in Rows, delivered' = delivered \/ Process(r)
  PROVE  /\ delivered' \in [Rows -> 0 .. 2]
         /\ \A q \in Rows : delivered[q] > 0 => delivered'[q] > 0
         /\ Process(r) => delivered'[r] > 0
<1>1. delivered \in [Rows -> 0 .. 2]
  BY DEF Inv, Types
<1> QED
  BY <1>1 DEF Process

LEMMA AttemptBatch ==
  ASSUME Types, NEW d \in Dispatchers, NEW r, NEW new, Edit(d, r, new)
  PROVE  /\ batch'[d] = Edited(batch[d], r, new)
         /\ \A c \in Dispatchers \ {d} : batch'[c] = batch[c]
         /\ batch' = [c \in Dispatchers |-> batch'[c]]
  BY DEF Types, Edit, Edited

LEMMA SendInv ==
  ASSUME Inv, NEW d \in Dispatchers, Send(d)
  PROVE  Inv'
<1>1. PICK r \in batch[d].todo, new \in OutboxRow :
        /\ r \in Rows /\ r \in batch[d].rows
        /\ Attempt(d, r, new)
        /\ Justified(new)
        /\ new.status = "sent" => Process(r)
  BY SendAttempts
<1>2. /\ delivered' \in [Rows -> 0 .. 2]
      /\ \A q \in Rows : delivered[q] > 0 => delivered'[q] > 0
      /\ Process(r) => delivered'[r] > 0
  BY <1>1, ProcessTypes DEF Attempt
<1>3. /\ batch'[d] = Edited(batch[d], r, new)
      /\ \A c \in Dispatchers \ {d} : batch'[c] = batch[c]
      /\ batch' = [c \in Dispatchers |-> batch'[c]]
  BY <1>1, AttemptBatch DEF Attempt, Inv
<1>4. Types'
  BY <1>1, <1>2, <1>3 DEF Attempt, Inv, Types
<1>5. Grown
  BY <1>1, <1>2 DEF Grown, Attempt
<1>6. Sound(batch[d], outbox', delivered')
  BY <1>5, SoundStays DEF Inv, Grown
<1>7. Sound(batch'[d], outbox', delivered')
  BY <1>1, <1>2, <1>3, <1>6, EditedIsSound
<1>8. \A q \in Rows : Held(outbox'[q], delivered'[q])
  BY <1>1, <1>2 DEF Inv, Held, Attempt
<1> QED
  BY <1>3, <1>4, <1>5, <1>7, <1>8, OthersStaySound DEF Inv

\* A batch that is rolled back leaves the table as it was.
LEMMA CloseInv ==
  ASSUME Inv, NEW d \in Dispatchers, Close(d), UNCHANGED <<outbox, delivered>>, Types'
  PROVE  Inv'
<1>1. batch'[d] = Closed /\ \A c \in Dispatchers \ {d} : batch'[c] = batch[c]
  BY DEF Inv, Types, Close
<1>2. Grown
  BY DEF Grown
<1>3. Sound(batch'[d], outbox', delivered')
  BY <1>1, ClosedIsSound
<1>4. \A q \in Rows : Held(outbox'[q], delivered'[q])
  BY DEF Inv
<1> QED
  BY <1>1, <1>2, <1>3, <1>4, OthersStaySound DEF Inv

LEMMA ClosedTypes ==
  ASSUME Inv, NEW d \in Dispatchers, Close(d)
  PROVE  batch' = [c \in Dispatchers |-> batch'[c]] /\ Undone(d) \subseteq Rows
<1>1. batch' = [c \in Dispatchers |-> batch'[c]]
  BY DEF Inv, Types, Close
<1>2. batch[d].rows \subseteq Rows
  BY DEF Inv, Sound, IsBatch
<1> QED
  BY <1>1, <1>2 DEF Undone

LEMMA RollbackInv ==
  ASSUME Inv, NEW d \in Dispatchers, PostRaises(d) \/ RefuseBatch(d) \/ BreakBatch(d)
  PROVE  Inv'
<1>1. Close(d) /\ troubled' = troubled \union Undone(d) /\ UNCHANGED <<outbox, delivered>>
  BY DEF PostRaises, RefuseBatch, BreakBatch, RollbackBatch
<1>2. batch' = [c \in Dispatchers |-> batch'[c]] /\ Undone(d) \subseteq Rows
  BY <1>1, ClosedTypes
<1>3. loop' \in {loop, "backing_off"} /\ faults' \in 0 .. MaxFaults
      /\ UNCHANGED <<exiting, configured, broken>>
  BY SizeAssumption DEF PostRaises, RefuseBatch, BreakBatch, Inv, Types
<1>4. Types'
  BY <1>1, <1>2, <1>3 DEF Inv, Types
<1> QED
  BY <1>1, <1>4, CloseInv

LEMMA CrashInv ==
  ASSUME Inv, Crash
  PROVE  Inv'
<1>1. Worker \in Dispatchers
  BY DEF Dispatchers
<1>2. Close(Worker) /\ UNCHANGED <<outbox, delivered>>
  BY DEF Crash
<1>3. batch' = [c \in Dispatchers |-> batch'[c]] /\ Undone(Worker) \subseteq Rows
  BY <1>1, <1>2, ClosedTypes
<1>4. Types'
  BY <1>3, SizeAssumption DEF Crash, Inv, Types
<1> QED
  BY <1>1, <1>2, <1>4, CloseInv

\* What a commit writes.
LEMMA CommittedRow ==
  ASSUME Inv, NEW d \in Dispatchers, CommitBatch(d), NEW r \in batch[d].rows
  PROVE  /\ r \in Rows /\ outbox[r] \in OutboxRow
         /\ Attemptable(batch[d].read[r])
         /\ batch[d].edited[r] \in OutboxRow /\ Justified(batch[d].edited[r])
         /\ batch[d].edited[r].status = "sent" => delivered[r] > 0
         /\ CanStore(outbox[r], batch[d].read[r], batch[d].edited[r])
         /\ outbox'[r] = Stored(outbox[r], batch[d].read[r], batch[d].edited[r])
<1>1. r \in Rows /\ outbox[r] # NoRow
  BY DEF Inv, Sound, IsBatch
<1>2. outbox[r] \in OutboxRow
  BY <1>1 DEF Inv, Held
<1>3. outbox' = [q \in Rows |->
        IF q \in batch[d].rows
          THEN Stored(outbox[q], batch[d].read[q], batch[d].edited[q])
          ELSE outbox[q]]
  BY DEF CommitBatch
<1>4. CanStore(outbox[r], batch[d].read[r], batch[d].edited[r])
  BY DEF CommitBatch, Accepted
<1> QED
  BY <1>1, <1>2, <1>3, <1>4 DEF Inv, Sound, IsBatch

LEMMA OtherRow ==
  ASSUME NEW d \in Dispatchers, CommitBatch(d), NEW r \in Rows \ batch[d].rows
  PROVE  outbox'[r] = outbox[r]
  BY DEF CommitBatch

LEMMA CommitInv ==
  ASSUME Inv, NEW d \in Dispatchers, CommitBatch(d)
  PROVE  Inv'
<1>1. Close(d) /\ UNCHANGED <<loop, exiting, configured, broken, faults, delivered, troubled>>
  BY DEF CommitBatch
<1>2. /\ batch'[d] = Closed /\ \A c \in Dispatchers \ {d} : batch'[c] = batch[c]
      /\ batch' = [c \in Dispatchers |-> batch'[c]]
  BY <1>1, ClosedTypes DEF Inv, Types, Close
<1>3. ASSUME NEW r \in batch[d].rows
      PROVE  outbox'[r] \in OutboxRow /\ Held(outbox'[r], delivered[r])
  <2> DEFINE now == outbox[r]
             read == batch[d].read[r]
             new == batch[d].edited[r]
             then == Stored(now, read, new)
  <2>1. /\ r \in Rows /\ now \in OutboxRow /\ Attemptable(read) /\ new \in OutboxRow
        /\ Justified(new)
        /\ new.status = "sent" => delivered[r] > 0
        /\ outbox'[r] = then
    BY CommittedRow
  <2>2. /\ then \in OutboxRow
        /\ then.status \in {now.status, new.status}
        /\ then.retry_count \in {now.retry_count, new.retry_count}
        /\ then.status = "pending" => now.status = "pending" /\ new.status = "pending"
    BY <2>1, StoredRow
  <2>3. now # NoRow /\ Held(now, delivered[r])
    BY <2>1, NoRowAssumption DEF Inv
  <2> HIDE DEF now, read, new, then
  <2>4. then.status = "pending" => then.retry_count < MAX_RETRIES
    BY <2>1, <2>2, <2>3 DEF Held, Justified
  <2>5. then.status = "sent" => delivered[r] > 0
    BY <2>1, <2>2, <2>3 DEF Held
  <2> QED
    BY <2>1, <2>2, <2>4, <2>5 DEF Held
<1>4. \A r \in Rows : Held(outbox'[r], delivered'[r])
  BY <1>1, <1>3, OtherRow DEF Inv
<1>5. Types'
  <2>1. \A r \in Rows : outbox'[r] \in OutboxRow \union {NoRow}
    BY <1>3, OtherRow DEF Inv, Types
  <2>2. outbox' = [r \in Rows |-> outbox'[r]]
    BY DEF CommitBatch
  <2> QED
    BY <1>1, <1>2, <2>1, <2>2 DEF Inv, Types
<1>6. Grown
  BY <1>1, <1>3, OtherRow, NoRowAssumption DEF Grown
<1>7. Sound(batch'[d], outbox', delivered')
  BY <1>2, ClosedIsSound
<1> QED
  BY <1>2, <1>4, <1>5, <1>6, <1>7, OthersStaySound DEF Inv

LEMMA BackoffInv ==
  ASSUME Inv, NEW r \in Rows, BackoffElapses(r)
  PROVE  Inv'
<1>1. outbox' = [outbox EXCEPT ![r] = [@ EXCEPT !.due = TRUE]]
  BY DEF BackoffElapses
<1> DEFINE new == [outbox[r] EXCEPT !.due = TRUE]
<1>2. outbox[r] \in OutboxRow /\ outbox[r] # NoRow
  BY DEF BackoffElapses, Inv, Types
<1>3. /\ new \in OutboxRow /\ new.status = outbox[r].status
      /\ new.retry_count = outbox[r].retry_count
  BY <1>2 DEF OutboxRow
<1>4. outbox'[r] = new /\ \A q \in Rows \ {r} : outbox'[q] = outbox[q]
  BY <1>1 DEF Inv, Types
<1>5. Types'
  BY <1>1, <1>3 DEF Inv, Types, BackoffElapses
<1>6. Grown
  BY <1>3, <1>4, NoRowAssumption DEF Grown, BackoffElapses
<1>7. \A q \in Rows : Held(outbox'[q], delivered'[q])
  <2> HIDE DEF new
  <2> QED
    BY <1>2, <1>3, <1>4 DEF Inv, Held, BackoffElapses
<1> QED
  BY <1>5, <1>6, <1>7, AllStaySound DEF Inv, BackoffElapses

\* The steps that touch neither the table nor a batch.
LEMMA QuietInv ==
  ASSUME Inv, UNCHANGED <<outbox, batch, delivered, troubled>>,
         \/ PollNothing \/ Wake \/ Signal \/ Stop \/ Restart
         \/ \E c \in Consumers : Deconfigure(c) \/ Misconfigure(c)
         \/ UNCHANGED vars
  PROVE  Inv'
<1>1. Types'
  <2>1. Types
    BY DEF Inv
  <2>2. CASE PollNothing \/ Wake \/ Stop \/ Restart
    BY <2>1, <2>2 DEF Types, PollNothing, Wake, Stop, Restart
  <2>3. CASE Signal
    BY <2>1, <2>3, SizeAssumption DEF Types, Signal
  <2>4. CASE \E c \in Consumers : Deconfigure(c) \/ Misconfigure(c)
    BY <2>1, <2>4, SizeAssumption DEF Types, Deconfigure, Misconfigure
  <2>5. CASE UNCHANGED vars
    BY <2>1, <2>5 DEF Types, vars
  <2> QED
    BY <2>2, <2>3, <2>4, <2>5
<1>2. Grown
  BY DEF Grown
<1> QED
  BY <1>1, <1>2, AllStaySound DEF Inv

LEMMA NextInv == Inv /\ [Next]_vars => Inv'
<1> SUFFICES ASSUME Inv, [Next]_vars PROVE Inv'
  OBVIOUS
<1>1. CASE \E e \in Events : Enqueue(e)
  BY <1>1, EnqueueInv
<1>2. ASSUME NEW d \in Dispatchers, Dispatch(d) PROVE Inv'
  BY <1>2, PollInv, SendInv, RollbackInv, CommitInv DEF Dispatch
<1>3. CASE Crash
  BY <1>3, CrashInv
<1>4. CASE \E r \in Rows : BackoffElapses(r)
  BY <1>4, BackoffInv
<1>5. CASE \/ PollNothing \/ Wake \/ Signal \/ Stop \/ Restart
           \/ \E c \in Consumers : Deconfigure(c) \/ Misconfigure(c)
           \/ UNCHANGED vars
  <2>1. UNCHANGED <<outbox, batch, delivered, troubled>>
    BY <1>5 DEF PollNothing, Wake, Signal, Stop, Restart, Deconfigure, Misconfigure, vars
  <2> QED
    BY <1>5, <2>1, QuietInv
<1> QED
  BY <1>1, <1>2, <1>3, <1>4, <1>5 DEF Next

\* The batch of d is undone.
RolledBack(d) ==
  /\ Close(d) /\ UNCHANGED <<outbox, delivered>>
  /\ troubled' = troubled \union Undone(d)

\* The actions, by what they do to the outbox and its batches.
LEMMA DispatcherSteps ==
  ASSUME [Next]_vars
  PROVE  \/ \E e \in Events : Enqueue(e)
         \/ \E d \in Dispatchers : Poll(d) \/ Send(d) \/ CommitBatch(d) \/ RolledBack(d)
         \/ \E r \in Rows : BackoffElapses(r)
         \/ UNCHANGED <<outbox, batch, delivered, troubled>>
<1>1. ASSUME NEW d \in Dispatchers, Dispatch(d)
      PROVE  Poll(d) \/ Send(d) \/ CommitBatch(d) \/ RolledBack(d)
  BY <1>1 DEF Dispatch, PostRaises, RefuseBatch, BreakBatch, RollbackBatch, RolledBack
<1>2. Crash => RolledBack(Worker) /\ Worker \in Dispatchers
  BY DEF Crash, RolledBack, Dispatchers
<1> QED
  BY <1>1, <1>2 DEF Next, PollNothing, Wake, Signal, Stop, Restart, Deconfigure, Misconfigure,
                    vars

LEMMA InvTypeOK == Inv => TypeOK
<1> SUFFICES ASSUME Inv PROVE TypeOK
  OBVIOUS
<1>1. DOMAIN batch = Dispatchers
  BY DEF Inv, Types
<1>2. ASSUME NEW d \in Dispatchers
      PROVE  /\ batch[d].todo \subseteq batch[d].rows /\ batch[d].rows \subseteq Rows
             /\ DOMAIN batch[d].read = batch[d].rows /\ DOMAIN batch[d].edited = batch[d].rows
             /\ \A r \in batch[d].rows :
                  batch[d].read[r] \in OutboxRow /\ batch[d].edited[r] \in OutboxRow
  <2>1. IsBatch(batch[d])
    BY DEF Inv, Sound
  <2> QED
    BY <2>1 DEF IsBatch
<1> QED
  BY <1>1, <1>2 DEF Inv, Types, TypeOK

\* The outbox, the open batches and the worker's loop keep their types: no
\* attempt is counted beyond MAX_RETRIES (outbox.py:147-188), whatever batches
\* overlap and whatever columns their UPDATEs mix.
THEOREM Typing == Spec => []TypeOK
<1>1. Spec => []Inv
  BY InitInv, NextInv, PTL DEF Spec
<1> QED
  BY <1>1, InvTypeOK, PTL

\* At least once (models.py:266-272, outbox.py:164-169), on every database and
\* with any number of dispatchers: a row that says "sent" was processed.
THEOREM SentRowsProcessed == Spec => []SentWasProcessed
<1>1. Inv => SentWasProcessed
  BY DEF Inv, Types, Held, SentWasProcessed, Status
<1>2. Spec => []Inv
  BY InitInv, NextInv, PTL DEF Spec
<1> QED
  BY <1>1, <1>2, PTL

-----------------------------------------------------------------------------
(* On a database that refuses the second updater, with any number of       *)
(* dispatchers.                                                            *)

\* Only an event, a commit and the time change the table.
LEMMA Writers ==
  ASSUME [Next]_vars
  PROVE  \/ \E e \in Events : Enqueue(e)
         \/ \E d \in Dispatchers : CommitBatch(d)
         \/ \E r \in Rows : BackoffElapses(r)
         \/ outbox' = outbox
<1>1. ASSUME NEW d \in Dispatchers, Dispatch(d), ~CommitBatch(d) PROVE outbox' = outbox
  BY <1>1 DEF Dispatch, Poll, Send, PostAccepted, PostAnswerLost, PostFailed, PostRaises,
              RefuseBatch, BreakBatch
<1> QED
  BY <1>1 DEF Next, PollNothing, Wake, Signal, Stop, Crash, Restart, Deconfigure, Misconfigure,
              vars

\* A row that is there changes only while it is pending, and stays justified.
RowStep(r) ==
  LET then == outbox'[r]
  IN  /\ outbox[r].status = "pending" \/ then = outbox[r]
      /\ Justified(outbox[r]) => Justified(then)

LEMMA BackoffRow ==
  ASSUME Inv, NEW r \in Rows, outbox[r] # NoRow, NEW q \in Rows, BackoffElapses(q)
  PROVE  RowStep(r)
<1>1. outbox' = [outbox EXCEPT ![q] = [@ EXCEPT !.due = TRUE]]
      /\ outbox[q] \in OutboxRow /\ outbox[q].status = "pending"
  BY DEF BackoffElapses, Inv, Held
<1>2. CASE r # q
  BY <1>1, <1>2 DEF Inv, Types, RowStep
<1>3. CASE r = q
  <2> DEFINE new == [outbox[q] EXCEPT !.due = TRUE]
  <2>1. outbox'[r] = new
    BY <1>1, <1>3 DEF Inv, Types
  <2>2. /\ new.status = outbox[q].status /\ new.retry_count = outbox[q].retry_count
        /\ new.last_error = outbox[q].last_error
    BY <1>1 DEF OutboxRow
  <2> HIDE DEF new
  <2> QED
    BY <1>1, <1>3, <2>1, <2>2 DEF RowStep, Justified
<1> QED
  BY <1>2, <1>3

LEMMA CommitRow ==
  ASSUME FirstUpdaterWins, Inv, NEW r \in Rows, outbox[r] # NoRow,
         NEW d \in Dispatchers, CommitBatch(d)
  PROVE  RowStep(r)
<1>1. CASE r \notin batch[d].rows
  BY <1>1, OtherRow DEF RowStep
<1>2. CASE r \in batch[d].rows
  <2> DEFINE now == outbox[r]
             read == batch[d].read[r]
             new == batch[d].edited[r]
  <2>1. /\ now \in OutboxRow /\ Attemptable(read) /\ new \in OutboxRow /\ Justified(new)
        /\ CanStore(now, read, new)
        /\ outbox'[r] = Stored(now, read, new)
    BY <1>2, CommittedRow
  <2>2. \/ now = read /\ outbox'[r] = new
        \/ outbox'[r] = now
    BY <2>1, StoredExactly
  <2>3. CASE now = read /\ outbox'[r] = new
    BY <2>1, <2>3 DEF RowStep, Attemptable
  <2>4. CASE outbox'[r] = now
    BY <2>4 DEF RowStep
  <2> QED
    BY <2>2, <2>3, <2>4
<1> QED
  BY <1>1, <1>2

LEMMA RowSteps ==
  ASSUME FirstUpdaterWins, Inv, [Next]_vars, NEW r \in Rows, outbox[r] # NoRow
  PROVE  RowStep(r)
<1>1. ASSUME NEW e \in Events, Enqueue(e) PROVE outbox'[r] = outbox[r]
  <2>1. r = <<r[1], r[2]>> /\ r[2] \in Consumers
    BY DEF Rows
  <2>2. r[1] # e
    BY <1>1, <2>1 DEF Enqueue
  <2> QED
    BY <1>1, <2>2 DEF Enqueue
<1>2. outbox'[r] = outbox[r] => RowStep(r)
  BY DEF RowStep
<1> QED
  BY <1>1, <1>2, BackoffRow, CommitRow, Writers

\* A new row is as Enqueue makes it.
LEMMA RowBorn ==
  ASSUME Inv, [Next]_vars, NEW r \in Rows, outbox[r] = NoRow, outbox'[r] # NoRow
  PROVE  outbox'[r] = NewRow
<1>1. ASSUME NEW d \in Dispatchers, CommitBatch(d) PROVE outbox'[r] = outbox[r]
  <2>1. r \notin batch[d].rows
    BY DEF Inv, Sound
  <2> QED
    BY <1>1, <2>1, OtherRow
<1>2. ASSUME NEW q \in Rows, BackoffElapses(q) PROVE outbox'[r] = outbox[r]
  BY <1>2 DEF BackoffElapses, Inv, Types
<1>3. ASSUME NEW e \in Events, Enqueue(e) PROVE outbox'[r] \in {NewRow, outbox[r]}
  BY <1>3 DEF Enqueue
<1> QED
  BY <1>1, <1>2, <1>3, Writers

AllJustified == \A r \in Rows : outbox[r] # NoRow => Justified(outbox[r])

LEMMA NextJustified ==
  ASSUME FirstUpdaterWins
  PROVE  Inv /\ AllJustified /\ [Next]_vars => AllJustified'
<1> SUFFICES ASSUME Inv, AllJustified, [Next]_vars, NEW r \in Rows, outbox'[r] # NoRow
             PROVE  Justified(outbox'[r])
  BY DEF AllJustified
<1>1. CASE outbox[r] = NoRow
  BY <1>1, RowBorn, NewRowType
<1>2. CASE outbox[r] # NoRow
  BY <1>2, RowSteps DEF RowStep, AllJustified
<1> QED
  BY <1>1, <1>2

\* Nothing is given up early (outbox.py:170-185), with any number of dispatchers
\* and any MAX_RETRIES: a dead letter was refused by its consumer, has none, or
\* failed MAX_RETRIES times, and what is pending or sent had attempts left.
THEOREM GivenUpRightly ==
  ASSUME FirstUpdaterWins
  PROVE  Spec => []GivenUpForCause
<1>1. Init => AllJustified
  BY DEF Init, AllJustified
<1>2. AllJustified => GivenUpForCause
  BY DEF AllJustified, Justified, GivenUpForCause, Status
<1>3. Spec => []Inv
  BY InitInv, NextInv, PTL DEF Spec
<1>4. Inv /\ AllJustified /\ [Next]_vars => AllJustified'
  BY NextJustified
<1> QED
  BY <1>1, <1>2, <1>3, <1>4, PTL DEF Spec

\* A settled row is never touched again (outbox.py:147-188): of two dispatchers
\* that read it as pending, the one that commits second is refused.
THEOREM SettledRowsStay ==
  ASSUME FirstUpdaterWins
  PROVE  Spec => SettledStays
<1> DEFINE Stays == \A r \in Rows :
             Status(r) \in {"sent", "dead_letter"} => outbox'[r] = outbox[r]
<1>1. Inv /\ [Next]_vars => Stays
  <2> SUFFICES ASSUME Inv, [Next]_vars, NEW r \in Rows,
                      Status(r) \in {"sent", "dead_letter"}
               PROVE  outbox'[r] = outbox[r]
    OBVIOUS
  <2>1. outbox[r] # NoRow /\ outbox[r].status \in {"sent", "dead_letter"}
    BY DEF Status
  <2>2. RowStep(r)
    BY <2>1, RowSteps
  <2> QED
    BY <2>1, <2>2 DEF RowStep
<1>2. Spec => []Inv
  BY InitInv, NextInv, PTL DEF Spec
<1>3. Spec => [][Stays]_vars
  <2> HIDE DEF Stays
  <2> QED
    BY <1>1, <1>2, PTL DEF Spec
<1> QED
  BY <1>3 DEF SettledStays

-----------------------------------------------------------------------------
(* With the worker as the only dispatcher, on any database.                *)

Batch == batch[Worker]

\* Row r was delivered in the open batch, and its mark is not stored yet.
Unstored(r) == r \in Batch.rows \ Batch.todo /\ Batch.edited[r].status = "sent"

\* Nobody changes the rows of the open batch; what was processed is marked, is
\* about to be, or had trouble.
OnceInv ==
  /\ \A r \in Batch.rows : outbox[r] = Batch.read[r] /\ outbox[r].due
  /\ \A r \in Rows : delivered[r] > 0 => r \in troubled \/ Status(r) = "sent" \/ Unstored(r)
  /\ RepeatNeedsTrouble

LEMMA OnlyWorker ==
  ASSUME Routes = {}
  PROVE  Dispatchers = {Worker}
  BY DEF Dispatchers

LEMMA BatchRows ==
  ASSUME Inv
  PROVE  /\ IsBatch(Batch) /\ Batch.rows \subseteq Rows /\ Batch.todo \subseteq Batch.rows
         /\ \A r \in Batch.rows : /\ outbox[r] # NoRow
                                  /\ Attemptable(Batch.read[r])
                                  /\ r \in Batch.todo => Batch.edited[r] = Batch.read[r]
  BY DEF Inv, Sound, IsBatch, Batch, Dispatchers

\* A row of the open batch is still pending in the table.
LEMMA BatchPending ==
  ASSUME Inv, OnceInv, NEW r \in Batch.rows
  PROVE  Status(r) = "pending" /\ outbox[r] \in OutboxRow
  BY BatchRows DEF OnceInv, Attemptable, Status

\* Events and time: the rows of the batch and the sent ones stay.
LEMMA TableOnce ==
  ASSUME Inv, OnceInv, UNCHANGED <<batch, delivered, troubled>>,
         \A r \in Batch.rows : outbox'[r] = outbox[r],
         \A r \in Rows : Status(r) = "sent" => Status(r)' = "sent"
  PROVE  OnceInv'
<1>1. UNCHANGED Batch
  BY DEF Batch
<1>2. \A r \in Rows : Unstored(r) => Unstored(r)'
  BY <1>1 DEF Unstored
<1> QED
  BY <1>1, <1>2 DEF OnceInv, RepeatNeedsTrouble

LEMMA EnqueueOnce ==
  ASSUME Inv, OnceInv, NEW e \in Events, Enqueue(e)
  PROVE  OnceInv'
<1>1. ASSUME NEW r \in Rows, outbox[r] # NoRow PROVE outbox'[r] = outbox[r]
  <2>1. r = <<r[1], r[2]>> /\ r[2] \in Consumers
    BY DEF Rows
  <2>2. r[1] # e
    BY <1>1, <2>1 DEF Enqueue
  <2> QED
    BY <2>2 DEF Enqueue
<1>2. \A r \in Batch.rows : outbox'[r] = outbox[r]
  BY <1>1, BatchRows
<1>3. \A r \in Rows : Status(r) = "sent" => Status(r)' = "sent"
  BY <1>1 DEF Status
<1> QED
  BY <1>2, <1>3, TableOnce DEF Enqueue

\* Time changes nothing but `due'.
LEMMA BackoffStatus ==
  ASSUME Inv, NEW q \in Rows, BackoffElapses(q)
  PROVE  /\ \A r \in Rows : Status(r)' = Status(r)
         /\ \A r \in Rows \ {q} : outbox'[r] = outbox[r]
         /\ ~outbox[q].due /\ outbox'[q].due
<1>1. outbox' = [outbox EXCEPT ![q] = [@ EXCEPT !.due = TRUE]]
      /\ outbox[q] \in OutboxRow /\ outbox[q] # NoRow /\ ~outbox[q].due
  BY DEF BackoffElapses, Inv, Held
<1> DEFINE new == [outbox[q] EXCEPT !.due = TRUE]
<1>2. outbox'[q] = new /\ \A r \in Rows \ {q} : outbox'[r] = outbox[r]
  BY <1>1 DEF Inv, Types
<1>3. new \in OutboxRow /\ new.status = outbox[q].status /\ new.due
  BY <1>1 DEF OutboxRow
<1> HIDE DEF new
<1>4. Status(q)' = Status(q)
  BY <1>1, <1>2, <1>3, NoRowAssumption DEF Status
<1> QED
  BY <1>1, <1>2, <1>3, <1>4 DEF Status

LEMMA BackoffOnce ==
  ASSUME Inv, OnceInv, NEW q \in Rows, BackoffElapses(q)
  PROVE  OnceInv'
<1>1. q \notin Batch.rows
  BY BackoffStatus DEF OnceInv
<1>2. \A r \in Batch.rows : outbox'[r] = outbox[r]
  BY <1>1, BackoffStatus, BatchRows
<1> QED
  BY <1>2, BackoffStatus, TableOnce DEF BackoffElapses

LEMMA PollOnce ==
  ASSUME Inv, OnceInv, Poll(Worker)
  PROVE  OnceInv'
<1> DEFINE read == [r \in DueRows |-> outbox[r]]
           b == [rows |-> DueRows, todo |-> DueRows, read |-> read, edited |-> read]
<1>1. Batch' = b /\ Batch = Closed /\ UNCHANGED <<outbox, delivered, troubled>>
  BY DEF Poll, Batch, Inv, Types, Dispatchers
<1>2. \A r \in DueRows : r \in Rows /\ outbox[r].due
  BY DEF DueRows, IsDue
<1>3. \A r \in Batch'.rows : outbox'[r] = Batch'.read[r] /\ outbox'[r].due
  BY <1>1, <1>2
<1>4. \A r \in Rows : ~Unstored(r)
  BY <1>1 DEF Unstored, Closed
<1>5. \A r \in Rows : Status(r)' = Status(r)
  BY <1>1 DEF Status
<1> QED
  BY <1>1, <1>3, <1>4, <1>5 DEF OnceInv, RepeatNeedsTrouble

\* Nobody has processed a row that is still to be sent, unless it had trouble.
LEMMA TodoUnprocessed ==
  ASSUME Inv, OnceInv, NEW r \in Batch.todo, delivered[r] > 0
  PROVE  r \in troubled
<1>1. r \in Batch.rows /\ r \in Rows
  BY BatchRows
<1>2. Status(r) = "pending"
  BY <1>1, BatchPending
<1> QED
  BY <1>1, <1>2 DEF OnceInv, Unstored

\* An attempt on row r, seen from the batch.
LEMMA Attempted ==
  ASSUME Inv, NEW r \in Batch.todo, NEW new \in OutboxRow, Attempt(Worker, r, new)
  PROVE  /\ Batch'.rows = Batch.rows /\ Batch'.read = Batch.read
         /\ Batch'.todo = Batch.todo \ {r} /\ Batch'.edited[r] = new
         /\ \A q \in Batch.rows \ {r} : Batch'.edited[q] = Batch.edited[q]
         /\ UNCHANGED outbox
         /\ \A q \in Rows : Status(q)' = Status(q)
<1>1. Batch' = Edited(Batch, r, new)
  BY AttemptBatch DEF Attempt, Inv, Batch, Dispatchers
<1>2. UNCHANGED outbox
  BY DEF Attempt
<1> QED
  BY <1>1, <1>2, EditedBatch, BatchRows DEF Status

\* What one step processes.
LEMMA ProcessedByOne ==
  ASSUME Inv, NEW r \in Rows, delivered' = delivered \/ Process(r)
  PROVE  /\ \A q \in Rows \ {r} : delivered'[q] = delivered[q]
         /\ delivered'[r] > 1 => delivered[r] > 0
<1>1. delivered \in [Rows -> 0 .. 2]
  BY DEF Inv, Types
<1> QED
  BY <1>1 DEF Process

LEMMA SendOnce ==
  ASSUME Inv, OnceInv, Send(Worker)
  PROVE  OnceInv'
<1>1. PICK r \in Batch.todo, new \in OutboxRow :
        /\ r \in Rows /\ r \in Batch.rows
        /\ Attempt(Worker, r, new)
        /\ new.status # "sent" => troubled' = troubled \union {r}
        /\ new.status = "sent" => troubled' = troubled
  BY SendAttempts DEF Batch, Dispatchers
<1>2. /\ Batch'.rows = Batch.rows /\ Batch'.read = Batch.read
      /\ Batch'.todo = Batch.todo \ {r} /\ Batch'.edited[r] = new
      /\ \A q \in Batch.rows \ {r} : Batch'.edited[q] = Batch.edited[q]
      /\ UNCHANGED outbox
      /\ \A q \in Rows : Status(q)' = Status(q)
  BY <1>1, Attempted
<1>3. /\ \A q \in Rows \ {r} : delivered'[q] = delivered[q]
      /\ delivered'[r] > 1 => delivered[r] > 0
  BY <1>1, ProcessedByOne DEF Attempt
<1>4. troubled \subseteq troubled'
  BY <1>1
<1>5. \A q \in Batch'.rows : outbox'[q] = Batch'.read[q] /\ outbox'[q].due
  BY <1>2 DEF OnceInv
<1>6. ASSUME NEW q \in Rows, delivered'[q] > 0
      PROVE  q \in troubled' \/ Status(q)' = "sent" \/ Unstored(q)'
  <2>1. CASE q = r
    BY <1>1, <1>2, <2>1 DEF Unstored
  <2>2. CASE q # r
    BY <1>2, <1>3, <1>4, <1>6, <2>2 DEF OnceInv, Unstored
  <2> QED
    BY <2>1, <2>2
<1>7. ASSUME NEW q \in Rows, delivered'[q] > 1
      PROVE  q \in troubled'
  <2>1. CASE q = r
    BY <1>1, <1>3, <1>4, <1>7, <2>1, TodoUnprocessed
  <2>2. CASE q # r
    BY <1>3, <1>4, <1>7, <2>2 DEF OnceInv, RepeatNeedsTrouble
  <2> QED
    BY <2>1, <2>2
<1> QED
  BY <1>5, <1>6, <1>7 DEF OnceInv, RepeatNeedsTrouble

LEMMA UndoneOnce ==
  ASSUME Inv, OnceInv, RolledBack(Worker)
  PROVE  OnceInv'
<1>1. Batch' = Closed
  BY DEF RolledBack, Close, Batch, Inv, Types, Dispatchers
<1>2. \A r \in Rows : Unstored(r) => r \in troubled'
  BY DEF Unstored, RolledBack, Undone, Batch
<1>3. \A r \in Rows : Status(r)' = Status(r)
  BY DEF RolledBack, Status
<1> QED
  BY <1>1, <1>2, <1>3 DEF OnceInv, RepeatNeedsTrouble, RolledBack, Closed

LEMMA CommitsExactly ==
  ASSUME Inv, OnceInv, CommitBatch(Worker), NEW r \in Batch.rows
  PROVE  outbox'[r] = Batch.edited[r] /\ Batch.edited[r] \in OutboxRow
<1>1. /\ Attemptable(Batch.read[r]) /\ Batch.edited[r] \in OutboxRow
      /\ outbox'[r] = Stored(outbox[r], Batch.read[r], Batch.edited[r])
  BY CommittedRow DEF Batch, Dispatchers
<1>2. outbox[r] = Batch.read[r]
  BY DEF OnceInv
<1> QED
  BY <1>1, <1>2, StoredOnRead

LEMMA CommitOnce ==
  ASSUME Inv, OnceInv, CommitBatch(Worker)
  PROVE  OnceInv'
<1>1. Batch' = Closed /\ UNCHANGED <<delivered, troubled>>
  BY DEF CommitBatch, Close, Batch, Inv, Types, Dispatchers
<1>2. ASSUME NEW r \in Rows, Unstored(r) PROVE Status(r)' = "sent"
  BY <1>2, CommitsExactly, NoRowAssumption DEF Unstored, Status
<1>3. ASSUME NEW r \in Rows, Status(r) = "sent" PROVE Status(r)' = "sent"
  <2>1. r \notin Batch.rows
    BY <1>3, BatchPending
  <2>2. outbox'[r] = outbox[r]
    BY <2>1, OtherRow DEF Batch, Dispatchers
  <2> QED
    BY <1>3, <2>2 DEF Status
<1> QED
  BY <1>1, <1>2, <1>3 DEF OnceInv, RepeatNeedsTrouble, Closed

\* The actions, when the worker is the only one who dispatches.
LEMMA WorkerSteps ==
  ASSUME Routes = {}, [Next]_vars
  PROVE  \/ \E e \in Events : Enqueue(e)
         \/ Poll(Worker) \/ Send(Worker) \/ CommitBatch(Worker) \/ RolledBack(Worker)
         \/ \E r \in Rows : BackoffElapses(r)
         \/ UNCHANGED <<outbox, batch, delivered, troubled>>
  BY DispatcherSteps, OnlyWorker

LEMMA InitOnce == Init => OnceInv
<1> SUFFICES ASSUME Init PROVE OnceInv
  OBVIOUS
<1>1. Batch.rows = {}
  BY DEF Init, Batch, Closed, Dispatchers
<1> QED
  BY <1>1 DEF Init, OnceInv, RepeatNeedsTrouble

LEMMA NextOnce ==
  ASSUME Routes = {}
  PROVE  Inv /\ OnceInv /\ [Next]_vars => OnceInv'
<1> SUFFICES ASSUME Inv, OnceInv, [Next]_vars PROVE OnceInv'
  OBVIOUS
<1>1. CASE UNCHANGED <<outbox, batch, delivered, troubled>>
  BY <1>1, TableOnce DEF Status
<1> QED
  BY <1>1, WorkerSteps, EnqueueOnce, PollOnce, SendOnce, CommitOnce, UndoneOnce, BackoffOnce

\* With the worker as the only dispatcher (outbox_worker.py:21-23), on any
\* database: a consumer processes an event twice only after an answer was lost
\* or a batch was rolled back.
THEOREM RepeatsHadTrouble ==
  ASSUME Routes = {}
  PROVE  Spec => []RepeatNeedsTrouble
<1>1. Inv /\ OnceInv /\ [Next]_vars => OnceInv'
  BY NextOnce
<1>2. OnceInv => RepeatNeedsTrouble
  BY DEF OnceInv
<1>3. Spec => []Inv
  BY InitInv, NextInv, PTL DEF Spec
<1> QED
  BY <1>1, <1>2, <1>3, InitOnce, PTL DEF Spec

-----------------------------------------------------------------------------
(* The outbox with one dispatcher implements Delivery: an event is an      *)
(* Accept, a POST that is processed a Deliver, a commit a Settle; nothing  *)
(* else shows.                                                             *)

Seen == [r \in Rows |-> Status(r)]
Done == [r \in Rows |-> delivered[r] > 0]

LEMMA InitDelivery == Init => Promise!Init
<1> SUFFICES ASSUME Init PROVE Promise!Init
  OBVIOUS
<1>1. \A r \in Rows : Status(r) = "absent"
  BY DEF Init, Status
<1>2. \A r \in Rows : (delivered[r] > 0) = FALSE
  BY DEF Init
<1> QED
  BY <1>1, <1>2 DEF Promise!Init

LEMMA EnqueueAccepts ==
  ASSUME Inv, NEW e \in Events, Enqueue(e)
  PROVE  Promise!Next
<1> DEFINE S == {r \in Rows : r[1] = e}
<1>1. ASSUME NEW r \in S PROVE Status(r) = "absent" /\ Status(r)' = "pending"
  <2>1. r = <<e, r[2]>> /\ r[2] \in Consumers
    BY DEF Rows
  <2>2. outbox[r] = NoRow /\ outbox'[r] = NewRow
    BY <2>1 DEF Enqueue, Rows
  <2> QED
    BY <2>2, NewRowType DEF Status, Attemptable
<1>2. ASSUME NEW r \in Rows \ S PROVE Status(r)' = Status(r)
  BY DEF Enqueue, Status
<1>3. Promise!Accept(S)
  <2> HIDE DEF S
  <2>1. S \subseteq Rows
    BY DEF S
  <2>2. UNCHANGED Done
    BY DEF Enqueue, Done
  <2>3. Seen' = [r \in Rows |-> IF r \in S THEN "pending" ELSE Seen[r]]
    BY <1>1, <1>2 DEF Seen
  <2>4. \A r \in S : Seen[r] = "absent"
    BY <1>1, <2>1 DEF Seen
  <2> QED
    BY <2>2, <2>3, <2>4 DEF Promise!Accept, Seen, Done
<1>4. S \in SUBSET Rows
  OBVIOUS
<1> QED
  BY <1>3, <1>4 DEF Promise!Next

LEMMA SendDelivers ==
  ASSUME Inv, OnceInv, Send(Worker)
  PROVE  Promise!Next \/ UNCHANGED Promise!vars
<1>1. PICK r \in Batch.todo, new \in OutboxRow :
        r \in Rows /\ r \in Batch.rows /\ Attempt(Worker, r, new)
  BY SendAttempts DEF Batch, Dispatchers
<1>2. \A q \in Rows : Status(q)' = Status(q)
  BY <1>1, Attempted
<1>3. UNCHANGED Seen
  BY <1>2 DEF Seen
<1>4. CASE delivered' = delivered
  <2>1. UNCHANGED Done
    BY <1>4 DEF Done
  <2> QED
    BY <1>3, <2>1 DEF Promise!vars, Seen, Done
<1>5. CASE Process(r)
  <2>1. Status(r) = "pending"
    BY <1>1, BatchPending
  <2>2. delivered'[r] > 0 /\ \A q \in Rows \ {r} : delivered'[q] = delivered[q]
    BY <1>1, <1>5, ProcessTypes, ProcessedByOne
  <2>3. Done' = [Done EXCEPT ![r] = TRUE]
    BY <1>1, <2>2 DEF Done
  <2>4. Seen[r] = "pending"
    BY <1>1, <2>1 DEF Seen
  <2>5. Promise!Deliver(r)
    BY <1>3, <2>3, <2>4 DEF Promise!Deliver, Seen, Done
  <2> QED
    BY <1>1, <2>5 DEF Promise!Next
<1> QED
  BY <1>1, <1>4, <1>5 DEF Attempt

LEMMA CommitSettles ==
  ASSUME Inv, OnceInv, CommitBatch(Worker)
  PROVE  Promise!Next
<1>1. Types'
  BY CommitInv DEF Inv, Dispatchers
<1>2. ASSUME NEW r \in Rows, Status(r)' # Status(r)
      PROVE  /\ Status(r) = "pending"
             /\ Status(r)' = "dead_letter" \/ (Status(r)' = "sent" /\ delivered[r] > 0)
  <2>1. r \in Batch.rows
    BY <1>2, OtherRow DEF Batch, Dispatchers, Status
  <2>2. outbox'[r] = Batch.edited[r] /\ Batch.edited[r] \in OutboxRow
        /\ (Batch.edited[r].status = "sent" => delivered[r] > 0)
    BY <2>1, CommitsExactly, CommittedRow DEF Batch, Dispatchers
  <2>3. Status(r) = "pending"
    BY <2>1, BatchPending
  <2>4. Status(r)' = Batch.edited[r].status
    BY <2>2, NoRowAssumption DEF Status
  <2>5. Status(r)' \in {"sent", "dead_letter"}
    BY <1>2, <2>2, <2>3, <2>4 DEF OutboxRow
  <2> QED
    BY <2>2, <2>3, <2>4, <2>5
<1>3. Seen' \in [Rows -> {"absent", "pending", "sent", "dead_letter"}]
  <2>1. \A r \in Rows : Status(r)' \in {"absent", "pending", "sent", "dead_letter"}
    BY <1>1 DEF Types, Status, OutboxRow
  <2> QED
    BY <2>1 DEF Seen
<1>4. UNCHANGED Done
  BY DEF CommitBatch, Done
<1>5. \A r \in Rows : Seen'[r] # Seen[r] =>
        /\ Seen[r] = "pending"
        /\ Seen'[r] = "dead_letter" \/ (Seen'[r] = "sent" /\ Done[r])
  BY <1>2 DEF Seen, Done
<1>6. Promise!Settle
  BY <1>3, <1>4, <1>5 DEF Promise!Settle, Seen, Done
<1> QED
  BY <1>6 DEF Promise!Next

LEMMA NextDelivery ==
  ASSUME Routes = {}
  PROVE  Inv /\ OnceInv /\ [Next]_vars => [Promise!Next]_(Promise!vars)
<1> SUFFICES ASSUME Inv, OnceInv, [Next]_vars
             PROVE  Promise!Next \/ UNCHANGED Promise!vars
  OBVIOUS
<1>1. ASSUME \A r \in Rows : Status(r)' = Status(r), delivered' = delivered
      PROVE  UNCHANGED Promise!vars
  <2>1. UNCHANGED Seen /\ UNCHANGED Done
    BY <1>1 DEF Seen, Done
  <2> QED
    BY <2>1 DEF Promise!vars, Seen, Done
<1>2. CASE Poll(Worker) \/ RolledBack(Worker) \/ UNCHANGED <<outbox, batch, delivered, troubled>>
  BY <1>1, <1>2 DEF Poll, RolledBack, Status
<1>3. ASSUME NEW r \in Rows, BackoffElapses(r) PROVE UNCHANGED Promise!vars
  BY <1>1, <1>3, BackoffStatus DEF BackoffElapses
<1> QED
  BY <1>2, <1>3, WorkerSteps, EnqueueAccepts, SendDelivers, CommitSettles

\* Seen without its batches, retries and restarts, the outbox with the worker as
\* its only dispatcher is an at-least-once delivery (outbox.py:147-188,
\* outbox_worker.py:60-93), whatever the database does to overlapping UPDATEs:
\* module Delivery says which steps are left.
THEOREM DeliversAtLeastOnce ==
  ASSUME Routes = {}
  PROVE  Spec => ImplementsDelivery
<1>1. Inv /\ OnceInv /\ [Next]_vars => OnceInv'
  BY NextOnce
<1>2. Inv /\ OnceInv /\ [Next]_vars => [Promise!Next]_(Promise!vars)
  BY NextDelivery
<1>3. Spec => []Inv
  BY InitInv, NextInv, PTL DEF Spec
<1>4. Spec => Promise!Spec
  BY <1>1, <1>2, <1>3, InitOnce, InitDelivery, PTL DEF Spec, Promise!Spec
<1> QED
  BY <1>4 DEF ImplementsDelivery

-----------------------------------------------------------------------------
(* The order of one user's events, on any database, with any number of    *)
(* dispatchers.                                                            *)

\* e precedes f for the consumers of their user.
Precedes(e, f) == e < f /\ UserOf[e] = UserOf[f]

\* A batch has not come to the untroubled rows it took, and took them all up to
\* the latest of each user.
InOrder(b) ==
  /\ \A r \in Rows : Untroubled(r) /\ r \in b.rows => r \in b.todo
  /\ \A e, f \in Events, c \in Consumers :
       Precedes(e, f) /\ <<f, c>> \in b.rows /\ Untroubled(<<e, c>>) => <<e, c>> \in b.rows

\* An untroubled row waits, due, for its turn.
OrderInv ==
  /\ \A e, f \in Events, c \in Consumers :
       Precedes(e, f) /\ outbox[<<f, c>>] # NoRow => outbox[<<e, c>>] # NoRow
  /\ \A r \in Rows : delivered[r] > 0 => outbox[r] # NoRow
  /\ \A r \in Rows : Untroubled(r) => outbox[r].status = "pending" /\ outbox[r].due
  /\ \A d \in Dispatchers : InOrder(batch[d])
  /\ OnlyRetriesAreOvertaken

LEMMA RowPair ==
  ASSUME NEW e \in Events, NEW c \in Consumers
  PROVE  <<e, c>> \in Rows /\ <<e, c>>[1] = e /\ <<e, c>>[2] = c
  BY DEF Rows

LEMMA RowsFinite == IsFiniteSet(Rows)
<1>1. IsFiniteSet(Events) /\ IsFiniteSet(Consumers)
  BY FS_Interval, SizeAssumption DEF Events, Consumers
<1> QED
  BY <1>1, FS_Product DEF Rows

LEMMA BeforeTransitive ==
  ASSUME NEW p \in Rows, NEW q \in Rows, NEW r \in Rows, Before(p, q), Before(q, r)
  PROVE  Before(p, r)
<1>1. /\ p[1] \in Int /\ q[1] \in Int /\ r[1] \in Int
      /\ p[2] \in Int /\ q[2] \in Int /\ r[2] \in Int
  BY DEF Rows, Events, Consumers
<1> QED
  BY <1>1 DEF Before

\* The batch is a prefix of what is due: it takes no row and leaves an earlier
\* one that is due.
LEMMA DueRowsPrefix ==
  ASSUME NEW r \in DueRows, NEW q \in Rows, IsDue(q), Before(q, r)
  PROVE  q \in DueRows
<1> DEFINE Q == {p \in Rows : IsDue(p) /\ Before(p, q)}
           R == {p \in Rows : IsDue(p) /\ Before(p, r)}
<1>1. r \in Rows /\ Cardinality(R) < Limit
  BY DEF DueRows
<1>2. Q \subseteq R
  BY <1>1, BeforeTransitive
<1>3. IsFiniteSet(R)
  BY RowsFinite, FS_Subset
<1>4. IsFiniteSet(Q) /\ Cardinality(Q) <= Cardinality(R)
  <2> HIDE DEF Q, R
  <2> QED
    BY <1>2, <1>3, FS_Subset
<1>5. Cardinality(Q) \in Nat /\ Cardinality(R) \in Nat
  <2> HIDE DEF Q, R
  <2> QED
    BY <1>3, <1>4, FS_CardinalityType
<1>6. Cardinality(Q) < Limit
  <2> HIDE DEF Q, R
  <2> QED
    BY <1>1, <1>4, <1>5, SizeAssumption
<1> QED
  BY <1>6 DEF DueRows

\* Trouble and what was processed stay: a row that is untroubled after a step
\* was so before it, if it was there.
LEMMA UntroubledBefore ==
  ASSUME Inv, Types', Grown, troubled \subseteq troubled',
         NEW r \in Rows, outbox[r] # NoRow, Untroubled(r)'
  PROVE  Untroubled(r)
<1>1. delivered[r] \in 0 .. 2 /\ delivered'[r] = 0 /\ r \notin troubled'
  BY DEF Inv, Types, Untroubled
<1>2. delivered[r] = 0
  BY <1>1 DEF Grown
<1>3. Status(r) # "absent"
  BY DEF Inv, Types, Status, OutboxRow
<1> QED
  BY <1>1, <1>2, <1>3 DEF Untroubled

LEMMA UntroubledPresent ==
  ASSUME NEW r \in Rows, Untroubled(r)
  PROVE  outbox[r] # NoRow
  BY DEF Untroubled, Status

LEMMA BatchThere ==
  ASSUME Inv, NEW d \in Dispatchers, NEW r \in batch[d].rows
  PROVE  r \in Rows /\ outbox[r] # NoRow
  BY DEF Inv, Sound, IsBatch

\* No row that was there becomes untroubled, nor one that a later row of its
\* user was there with.
LEMMA EarlierUntroubled ==
  ASSUME Inv, OrderInv, Types', Grown, troubled \subseteq troubled',
         NEW e \in Events, NEW f \in Events, NEW c \in Consumers, Precedes(e, f),
         outbox[<<f, c>>] # NoRow, Untroubled(<<e, c>>)'
  PROVE  Untroubled(<<e, c>>)
<1>1. outbox[<<e, c>>] # NoRow
  BY DEF OrderInv
<1> QED
  BY <1>1, RowPair, UntroubledBefore

LEMMA StaysInOrder ==
  ASSUME Inv, OrderInv, Types', Grown, troubled \subseteq troubled',
         NEW d \in Dispatchers, UNCHANGED batch[d]
  PROVE  InOrder(batch[d])'
<1>1. ASSUME NEW r \in Rows, Untroubled(r)', r \in batch[d].rows PROVE r \in batch[d].todo
  <2>1. Untroubled(r)
    BY <1>1, BatchThere, UntroubledBefore
  <2> QED
    BY <1>1, <2>1 DEF OrderInv, InOrder
<1>2. ASSUME NEW e \in Events, NEW f \in Events, NEW c \in Consumers, Precedes(e, f),
             <<f, c>> \in batch[d].rows, Untroubled(<<e, c>>)'
      PROVE  <<e, c>> \in batch[d].rows
  <2>1. Untroubled(<<e, c>>)
    BY <1>2, BatchThere, EarlierUntroubled
  <2> QED
    BY <1>2, <2>1 DEF OrderInv, InOrder
<1> QED
  BY <1>1, <1>2 DEF InOrder

\* What a step has to respect: the rows of a user come in their order, the new
\* ones are due, whoever changes a batch leaves it in order, and what is
\* processed overtakes no untroubled row.
LEMMA StepOrder ==
  ASSUME Inv, OrderInv, Types', Grown, troubled \subseteq troubled',
         \A e, f \in Events, c \in Consumers :
           Precedes(e, f) /\ outbox'[<<f, c>>] # NoRow => outbox'[<<e, c>>] # NoRow,
         \A r \in Rows : Untroubled(r)' => outbox'[r].status = "pending" /\ outbox'[r].due,
         \A d \in Dispatchers : batch'[d] = batch[d] \/ InOrder(batch[d])',
         \A r \in Rows : delivered'[r] > 0 => outbox'[r] # NoRow,
         \A e, f \in Events, c \in Consumers :
           Precedes(e, f) /\ delivered'[<<f, c>>] > 0 =>
             delivered[<<f, c>>] > 0 \/ ~Untroubled(<<e, c>>)'
  PROVE  OrderInv'
<1>1. \A d \in Dispatchers : InOrder(batch[d])'
  BY StaysInOrder
<1>2. ASSUME NEW e \in Events, NEW f \in Events, NEW c \in Consumers, Precedes(e, f),
             delivered'[<<f, c>>] > 0, Untroubled(<<e, c>>)'
      PROVE  FALSE
  <2>1. delivered[<<f, c>>] > 0
    BY <1>2
  <2>2. outbox[<<f, c>>] # NoRow
    BY <2>1, RowPair DEF OrderInv
  <2>3. Untroubled(<<e, c>>)
    BY <1>2, <2>2, EarlierUntroubled
  <2> QED
    BY <1>2, <2>1, <2>3 DEF OrderInv, OnlyRetriesAreOvertaken, Precedes
<1>3. OnlyRetriesAreOvertaken'
  BY <1>2 DEF OnlyRetriesAreOvertaken, Precedes
<1> QED
  BY <1>1, <1>3 DEF OrderInv

\* The same for a step that processes nothing and changes the rows of no user
\* that were untroubled.
LEMMA QuietOrder ==
  ASSUME Inv, OrderInv, Types', Grown, UNCHANGED delivered, troubled \subseteq troubled',
         \A r \in Rows : outbox[r] = NoRow => outbox'[r] = NoRow,
         \A r \in Rows : Untroubled(r)' => outbox'[r] = outbox[r],
         \A d \in Dispatchers : batch'[d] = batch[d] \/ InOrder(batch[d])'
  PROVE  OrderInv'
<1>1. ASSUME NEW r \in Rows, Untroubled(r)' PROVE Untroubled(r)
  <2>1. outbox'[r] # NoRow
    BY <1>1 DEF Untroubled, Status
  <2> QED
    BY <1>1, <2>1, UntroubledBefore
<1>2. \A r \in Rows : Untroubled(r)' => outbox'[r].status = "pending" /\ outbox'[r].due
  BY <1>1 DEF OrderInv
<1>3. \A e, f \in Events, c \in Consumers :
        Precedes(e, f) /\ outbox'[<<f, c>>] # NoRow => outbox'[<<e, c>>] # NoRow
  BY RowPair DEF OrderInv, Grown
<1>4. \A r \in Rows : delivered'[r] > 0 => outbox'[r] # NoRow
  BY DEF OrderInv, Grown
<1> QED
  BY <1>2, <1>3, <1>4, StepOrder

LEMMA EnqueueOrder ==
  ASSUME Inv, OrderInv, NEW n \in Events, Enqueue(n)
  PROVE  OrderInv'
<1>1. Types' /\ Grown
  <2>1. Types'
    BY EnqueueInv DEF Inv
  <2> QED
    BY <2>1, NewRowType DEF Enqueue, Grown
<1>2. /\ outbox' = [r \in Rows |-> IF r[1] = n THEN NewRow ELSE outbox[r]]
      /\ UNCHANGED <<batch, delivered, troubled>>
  BY DEF Enqueue
<1>3. ASSUME NEW e \in Events, NEW f \in Events, NEW c \in Consumers, Precedes(e, f),
             outbox'[<<f, c>>] # NoRow
      PROVE  outbox'[<<e, c>>] # NoRow
  <2>1. outbox[<<e, c>>] # NoRow
    <3>1. CASE f = n
      BY <1>3, <3>1 DEF Enqueue, Precedes
    <3>2. CASE f # n
      BY <1>2, <1>3, <3>2, RowPair DEF OrderInv
    <3> QED
      BY <3>1, <3>2
  <2> QED
    BY <1>1, <2>1, RowPair DEF Grown
<1>4. ASSUME NEW r \in Rows, Untroubled(r)'
      PROVE  outbox'[r].status = "pending" /\ outbox'[r].due
  <2>1. CASE outbox[r] = NoRow
    <3>1. outbox'[r] # NoRow
      BY <1>4 DEF Untroubled, Status
    <3>2. outbox'[r] = NewRow
      BY <1>2, <2>1, <3>1
    <3> QED
      BY <3>2 DEF NewRow
  <2>2. CASE outbox[r] # NoRow
    <3>1. Untroubled(r)
      BY <1>1, <1>2, <1>4, <2>2, UntroubledBefore
    <3>2. outbox'[r] = outbox[r]
      <4>1. r = <<r[1], r[2]>> /\ r[2] \in Consumers
        BY DEF Rows
      <4>2. r[1] # n
        BY <2>2, <4>1 DEF Enqueue
      <4> QED
        BY <1>2, <4>2
    <3> QED
      BY <3>1, <3>2 DEF OrderInv
  <2> QED
    BY <2>1, <2>2
<1>5. \A r \in Rows : delivered'[r] > 0 => outbox'[r] # NoRow
  BY <1>1, <1>2 DEF OrderInv, Grown
<1> QED
  BY <1>1, <1>2, <1>3, <1>4, <1>5, StepOrder

LEMMA BackoffOrder ==
  ASSUME Inv, OrderInv, NEW q \in Rows, BackoffElapses(q)
  PROVE  OrderInv'
<1>1. Types' /\ UNCHANGED <<batch, delivered, troubled>>
  BY BackoffInv DEF Inv, BackoffElapses
<1>2. \A r \in Rows \ {q} : outbox'[r] = outbox[r]
  BY BackoffStatus
<1>3. outbox[q] # NoRow /\ ~outbox[q].due /\ outbox'[q] # NoRow
  <2>1. Status(q)' = Status(q) /\ outbox[q] # NoRow /\ outbox[q].status = "pending"
    BY BackoffStatus DEF BackoffElapses
  <2>2. Status(q)' = "pending"
    BY <2>1 DEF Status
  <2>3. outbox'[q] # NoRow
    BY <2>2 DEF Status
  <2> QED
    BY <2>1, <2>3, BackoffStatus
<1>4. Grown
  BY <1>1, <1>2, <1>3 DEF Grown
<1>5. ASSUME NEW r \in Rows, Untroubled(r)' PROVE outbox'[r] = outbox[r]
  <2>1. r = q => Untroubled(q)
    BY <1>1, <1>3, <1>4, <1>5, UntroubledBefore
  <2>2. ~Untroubled(q)
    BY <1>3 DEF OrderInv
  <2> QED
    BY <1>2, <2>1, <2>2
<1>6. \A r \in Rows : outbox[r] = NoRow => outbox'[r] = NoRow
  BY <1>2, <1>3
<1> QED
  BY <1>1, <1>4, <1>5, <1>6, QuietOrder

LEMMA PollOrder ==
  ASSUME Inv, OrderInv, NEW d \in Dispatchers, Poll(d)
  PROVE  OrderInv'
<1>1. /\ batch'[d].rows = DueRows /\ batch'[d].todo = DueRows
      /\ \A g \in Dispatchers \ {d} : batch'[g] = batch[g]
      /\ UNCHANGED <<outbox, delivered, troubled>>
  BY DEF Poll, Inv, Types
<1>2. Types' /\ Grown
  <2>1. Types'
    BY PollInv DEF Inv
  <2> QED
    BY <1>1, <2>1 DEF Grown
<1>3. \A r \in Rows : Untroubled(r)' = Untroubled(r)
  BY <1>1 DEF Untroubled, Status
<1>4. ASSUME NEW e \in Events, NEW f \in Events, NEW c \in Consumers, Precedes(e, f),
             <<f, c>> \in DueRows, Untroubled(<<e, c>>)
      PROVE  <<e, c>> \in DueRows
  <2>1. IsDue(<<e, c>>)
    BY <1>4, RowPair, UntroubledPresent DEF OrderInv, IsDue
  <2>2. Before(<<e, c>>, <<f, c>>)
    BY <1>4, RowPair DEF Before, Precedes
  <2> QED
    BY <1>4, <2>1, <2>2, RowPair, DueRowsPrefix
<1>5. InOrder(batch[d])'
  BY <1>1, <1>3, <1>4, RowPair DEF InOrder
<1> QED
  BY <1>1, <1>2, <1>5, QuietOrder

LEMMA SendOrder ==
  ASSUME Inv, OrderInv, NEW d \in Dispatchers, Send(d)
  PROVE  OrderInv'
<1>1. PICK r \in batch[d].todo, new \in OutboxRow :
        /\ r \in Rows /\ r \in batch[d].rows /\ IsNext(d, r)
        /\ Attempt(d, r, new)
        /\ new.status = "sent" => Process(r)
        /\ new.status # "sent" => troubled' = troubled \union {r}
        /\ new.status = "sent" => troubled' = troubled
  BY SendAttempts
<1>2. /\ batch'[d].rows = batch[d].rows /\ batch'[d].todo = batch[d].todo \ {r}
      /\ \A g \in Dispatchers \ {d} : batch'[g] = batch[g]
      /\ UNCHANGED outbox
  <2>1. /\ batch'[d] = Edited(batch[d], r, new)
        /\ \A g \in Dispatchers \ {d} : batch'[g] = batch[g]
    BY <1>1, AttemptBatch DEF Attempt, Inv
  <2>2. IsBatch(batch[d])
    BY DEF Inv, Sound
  <2> QED
    BY <1>1, <2>1, <2>2, EditedBatch DEF Attempt
<1>3. /\ \A q \in Rows : delivered[q] > 0 => delivered'[q] > 0
      /\ \A q \in Rows \ {r} : delivered'[q] = delivered[q]
      /\ Process(r) => delivered'[r] > 0
  BY <1>1, ProcessTypes, ProcessedByOne DEF Attempt
<1>4. Types' /\ Grown /\ troubled \subseteq troubled'
  <2>1. Types'
    BY SendInv DEF Inv
  <2> QED
    BY <1>1, <1>2, <1>3, <2>1 DEF Grown
<1>5. ~Untroubled(r)'
  <2>1. delivered'[r] > 0 => delivered'[r] # 0
    OBVIOUS
  <2> QED
    BY <1>1, <1>3, <2>1 DEF Untroubled
<1>6. ASSUME NEW q \in Rows, Untroubled(q)' PROVE Untroubled(q) /\ q # r
  <2>1. outbox[q] # NoRow
    BY <1>2, <1>6 DEF Untroubled, Status
  <2> QED
    BY <1>4, <1>5, <1>6, <2>1, UntroubledBefore
<1>7. InOrder(batch[d])'
  <2>1. \A q \in Rows : Untroubled(q)' /\ q \in batch'[d].rows => q \in batch'[d].todo
    BY <1>2, <1>6 DEF OrderInv, InOrder
  <2>2. \A e, f \in Events, c \in Consumers :
          Precedes(e, f) /\ <<f, c>> \in batch'[d].rows /\ Untroubled(<<e, c>>)' =>
            <<e, c>> \in batch'[d].rows
    BY <1>2, <1>6, RowPair DEF OrderInv, InOrder
  <2> QED
    BY <2>1, <2>2 DEF InOrder
<1>8. ASSUME NEW e \in Events, NEW f \in Events, NEW c \in Consumers, Precedes(e, f),
             delivered'[<<f, c>>] > 0, Untroubled(<<e, c>>)'
      PROVE  delivered[<<f, c>>] > 0
  <2>1. Untroubled(<<e, c>>)
    BY <1>6, <1>8, RowPair
  <2>2. <<f, c>> # r
    <3>1. SUFFICES ASSUME <<f, c>> = r PROVE FALSE
      OBVIOUS
    <3>2. <<e, c>> \in batch[d].todo
      BY <1>1, <1>8, <2>1, <3>1, RowPair DEF OrderInv, InOrder
    <3>3. <<e, c>> = r \/ Before(r, <<e, c>>)
      BY <1>1, <3>2 DEF IsNext
    <3>4. e < f /\ e \in Int /\ f \in Int
      BY <1>8 DEF Precedes, Events
    <3> QED
      BY <3>1, <3>3, <3>4, RowPair DEF Before
  <2> QED
    BY <1>3, <1>8, <2>2, RowPair
<1>9. \A q \in Rows : delivered'[q] > 0 => outbox'[q] # NoRow
  BY <1>1, <1>2, <1>3, BatchThere DEF OrderInv
<1>10. \A q \in Rows : Untroubled(q)' => outbox'[q].status = "pending" /\ outbox'[q].due
  BY <1>2, <1>6 DEF OrderInv
<1>11. \A e, f \in Events, c \in Consumers :
         Precedes(e, f) /\ outbox'[<<f, c>>] # NoRow => outbox'[<<e, c>>] # NoRow
  BY <1>2 DEF OrderInv
<1> QED
  BY <1>2, <1>4, <1>7, <1>8, <1>9, <1>10, <1>11, StepOrder

LEMMA ClosedInOrder ==
  ASSUME Inv, NEW d \in Dispatchers, Close(d)
  PROVE  InOrder(batch[d])' /\ \A g \in Dispatchers \ {d} : batch'[g] = batch[g]
<1>1. batch'[d] = Closed /\ \A g \in Dispatchers \ {d} : batch'[g] = batch[g]
  BY DEF Close, Inv, Types
<1> QED
  BY <1>1 DEF InOrder, Closed

LEMMA UndoneOrder ==
  ASSUME Inv, OrderInv, NEW d \in Dispatchers, RolledBack(d), Types'
  PROVE  OrderInv'
<1>1. Close(d) /\ UNCHANGED <<outbox, delivered>> /\ troubled \subseteq troubled'
  BY DEF RolledBack
<1>2. Grown
  BY <1>1 DEF Grown
<1> QED
  BY <1>1, <1>2, ClosedInOrder, QuietOrder

\* A batch that is stored has come to all its rows: none is untroubled.
LEMMA CommitOrder ==
  ASSUME Inv, OrderInv, NEW d \in Dispatchers, CommitBatch(d)
  PROVE  OrderInv'
<1>1. Types'
  BY CommitInv DEF Inv
<1>2. /\ Close(d) /\ UNCHANGED <<delivered, troubled>> /\ batch[d].todo = {}
  BY DEF CommitBatch
<1>3. \A r \in Rows \ batch[d].rows : outbox'[r] = outbox[r]
  BY OtherRow
<1>4. ASSUME NEW r \in batch[d].rows PROVE outbox'[r] # NoRow /\ outbox[r] # NoRow
  <2>1. outbox[r] \in OutboxRow /\ Attemptable(batch[d].read[r])
        /\ batch[d].edited[r] \in OutboxRow
        /\ outbox'[r] = Stored(outbox[r], batch[d].read[r], batch[d].edited[r])
    BY CommittedRow
  <2>2. outbox'[r] \in OutboxRow
    BY <2>1, StoredRow
  <2> QED
    BY <2>1, <2>2, NoRowAssumption
<1>5. Grown
  BY <1>2, <1>3, <1>4 DEF Grown
<1>6. \A r \in Rows : outbox[r] = NoRow => outbox'[r] = NoRow
  BY <1>3, <1>4
<1>7. ASSUME NEW r \in Rows, Untroubled(r)' PROVE outbox'[r] = outbox[r]
  <2>1. outbox[r] # NoRow
    BY <1>6, <1>7 DEF Untroubled, Status
  <2>2. Untroubled(r)
    BY <1>1, <1>2, <1>5, <1>7, <2>1, UntroubledBefore
  <2> QED
    BY <1>2, <1>3, <2>2 DEF OrderInv, InOrder
<1> QED
  BY <1>1, <1>2, <1>5, <1>6, <1>7, ClosedInOrder, QuietOrder

LEMMA InitOrder == Init => OrderInv
<1> SUFFICES ASSUME Init PROVE OrderInv
  OBVIOUS
<1>1. \A r \in Rows : outbox[r] = NoRow /\ ~(delivered[r] > 0) /\ ~Untroubled(r)
  BY DEF Init, Untroubled, Status
<1>2. \A d \in Dispatchers : InOrder(batch[d])
  BY DEF Init, InOrder, Closed
<1> QED
  BY <1>1, <1>2, RowPair DEF OrderInv, OnlyRetriesAreOvertaken

LEMMA NextOrder == Inv /\ OrderInv /\ [Next]_vars => OrderInv'
<1> SUFFICES ASSUME Inv, OrderInv, [Next]_vars PROVE OrderInv'
  OBVIOUS
<1>1. Types'
  BY NextInv DEF Inv
<1>2. CASE UNCHANGED <<outbox, batch, delivered, troubled>>
  <2>1. Grown
    BY <1>2 DEF Grown
  <2> QED
    BY <1>1, <1>2, <2>1, QuietOrder
<1> QED
  BY <1>1, <1>2, DispatcherSteps, EnqueueOrder, PollOrder, SendOrder, CommitOrder,
     UndoneOrder, BackoffOrder

\* A consumer gets the events of one user in their order (outbox.py:153), for any
\* batch size, any number of dispatchers and whatever the database does: an event
\* that had no trouble is overtaken by no later one of its user.
THEOREM OnlyRetriesOvertaken == Spec => []OnlyRetriesAreOvertaken
<1>1. OrderInv => OnlyRetriesAreOvertaken
  BY DEF OrderInv
<1>2. Spec => []Inv
  BY InitInv, NextInv, PTL DEF Spec
<1> QED
  BY <1>1, <1>2, InitOrder, NextOrder, PTL DEF Spec

=============================================================================
