# Formal models of pandora-core-conversion

TLA+ models of the service's own logic, TLC configurations that check them on
small instances, and TLAPS proofs for every instance. Source paths are relative
to the repository; `service.py` alone means `app/gamification/service.py`.

## 1. The system

A FastAPI service and one worker process over one SQL database, serving the Apps
of the group. There are two modules that share nothing but the process:

| part | state | operations | modelled in |
|---|---|---|---|
| gamification ledger (`gamification/service.py`, `routes.py`) | `xp_ledger_entries`, `user_progression`, `user_achievements`, `gamification_user_outfits`, the two catalog tables | ingest an event, award an achievement, grant an outfit, bootstrap users, seed the catalogs | `XpLedger` |
| level curve and catalogs (`catalog.py`) | none | level of a total, next level, name, outfits up to a level | `LevelCurve`, constants of `XpLedger` |
| group streak (`group_streak_service.py`) | `group_user_daily_streaks` | bump, inside ingest | `GroupStreak`, in `XpLedger` |
| outbox (`outbox.py`) | `gamification_outbox_events` | enqueue (inside ingest and award), dispatch a batch | `Outbox` |
| outbox worker (`outbox_worker.py`) | its loop, the shutdown flag | poll, sleep, back off, stop | `Outbox` |
| lifecycle (`conversion/lifecycle.py`, `service.py`, `routes.py`) | `conversion_events`, `lifecycle_transitions` | store an event and run the rules, override, history, funnel | `Lifecycle` |
| cache invalidator (`conversion/cache_invalidator.py`) | tasks on the event loop | schedule, post | `LifecycleCache` |
| group-streak read cache (`gamification/routes.py:44-59`, `484-541`) | a dict per process | read through, invalidate | `GroupStreakCache` |
| mothership client (`conversion/mothership.py`) | none | GET with one retry and fallbacks | `MothershipClient`, in `Lifecycle` |
| JWT verifier (`auth/jwt_verifier.py`) | the public key and its age | refresh, verify | `KeyCache` (not the verification) |
| mascot manifest, catalog updates (`service.py:611-803`) | the manifest and the two catalog tables | seed, upsert | `CatalogSeeds` |
| days of timestamps (`service.py:45-71`, `group_streak_service.py:41-44`, `lifecycle.py:97-134`) | what a column keeps of `occurred_at` | the day of an event | `DayWindow`, `EngagementDays` |
| schemas, settings, session, migrations, health, `internal.py` | none of their own | | no: declarations and wiring |

**Interaction.** A handler runs in one database transaction (`session.begin()`).
Handlers share nothing but the tables: there is no lock, no version column and no
`FOR UPDATE` anywhere. Ingest calls the streak service and the outbox in its own
transaction. The worker (or a call of the dispatch route) takes outbox rows and
POSTs them to the Apps. The lifecycle reads its own table, may wait for an HTTP
answer of the mothership, inserts a row, and schedules a webhook that is sent
while the transaction is still open.

**What is hard.** Everything that happens between a handler's reads and its
commit; the order in which Apps send events; the batch of the dispatcher, which
is one transaction around many POSTs; retries by clients, by the outbox and by
nobody (the invalidator). `PROJECT.json` lists these hazards line by line.

**What makes each part correct.**

- ledger: a user's total is what her ledger rows add up to, level and anchor fit
  the total, caps and lifetime limits hold, achievements and outfits are granted,
  booked and announced together;
- streak: the counters stand for logins on consecutive days;
- outbox: at least once, nothing given up early, settled rows stay settled, every
  row is settled in the end, and order is lost only through retries;
- lifecycle: no stage without its events, no way back without an override,
  history, status and funnel agree;
- invalidator: a consumer's cache is wrong only for a reason one can name;
- mothership client: no fallback, padding or short answer counts as purchases;
- streak read cache, key cache: what is served is no older than the TTL says;
- seeds: rows are whole, and no placeholder covers an uploaded asset;
- days: the cap counts by the day the streak counts by; a loyalist has not stayed away,
  and a visitor who comes daily becomes one.

## 2. Modules

```
Database ── GroupStreak ── XpLedger ── MCXpLedger        (TLC)
   │                          └─────── XpLedgerProofs ── XpLedgerRaces ── XpLedgerOutbox   (TLAPS)
   └── Outbox ── MCOutbox      Outbox INSTANCEs Delivery (its promise)
          └───── OutboxProofs                            (TLAPS)
MothershipClient ── Lifecycle ── LifecycleCache ── MCLifecycleCache
                        │              └────────── LifecycleCacheProofs     (TLAPS)
                        ├─────── LifecycleProofs ─── LifecycleSerialProofs  (TLAPS)
                        └─────── MCLifecycle   Lifecycle INSTANCEs Journey (its promise)
Clock, GroupStreak ── GroupStreakCache ─┐
Clock ── KeyCache ──────────────────────┼─ MCParts       (TLC)
Database ── CatalogSeeds ───────────────┼─ PartsProofs   (TLAPS)
LevelCurve ─────────────────────────────┤
DayWindow ── EngagementDays ────────────┘
```

`MCParts` runs the six parts that interact with nothing else one after the other:
a behaviour picks a part and leaves the variables of the others alone. It is one run
in place of six and says nothing about the parts together.

### Database
`CanStore` and `Stored` say when a transaction that read a row may store a new
version of it, and what the row is then. The ORM updates the columns that changed,
by primary key. `FirstUpdaterWins` is a constant because the code does not settle
it: `alembic/env.py` and the defaults of `config.py` are for MariaDB, whose
repeatable read refuses an UPDATE of a row changed since the snapshot from 11.6.2
on; older MariaDB and MySQL let it through, and so does the READ COMMITTED of the
PostgreSQL that `docker-compose.yml` starts. The passing runs and most theorems
assume `TRUE`; the run `XpLostUpdate` shows what `FALSE` does.

### XpLedger, GroupStreak
A handler is two steps: `Begin` takes the snapshot of its transaction; one action
per endpoint and outcome computes from that snapshot and commits against the
tables as they are then. `Rollback` is every exception, refused UPDATE, duplicate
key and lost connection. Correspondence:

| action | code |
|---|---|
| `IngestDuplicate`, `IngestNew` | `ingest_event_internal`, service.py:184-301, with `ResolveXpDelta` (104-134), `BumpStreak` (237-243), `ApplyXp` (245-295) |
| `AwardUnknown`, `AwardAgain`, `AwardNew` | `award_achievement`, 321-435 |
| `GrantNothing`, `GrantOutfit` | `grant_outfit_manual`, 509-536 |
| `BootstrapLedger` | `bootstrap_user_ledger`, 547-608, for a whole request (routes.py:440-454) |
| `SeedCatalog` | the inserts of the seeds, 722-803 |

Abstracted: a timestamp is its UTC+8 day (the streak's and the cap's day are the
same, both use a fixed offset of 8 hours); names, metadata and `last_seen_app` are
left out; of an outbox row only type, user and the values a mirror uses remain, and
the consumers are one (see `Outbox`). A bootstrap batch names a user once. A manual
grant is recorded as "manual", the default; the API accepts any string, "level_up"
included, which `WardrobeFollowsLevel` would then see. An award with an unknown
code is decided by the catalog rows of the snapshot, not by the Python catalog.

### LevelCurve
The interpolated table and the functions of `catalog.py` as operators, and a walk
of one variable over every total so that TLC evaluates the properties on each.
`StepsAreWhole` is why the rounding of the source may be left out.

### Outbox, Delivery
One action per step of a dispatcher: `Poll` (the SELECT), `PostAccepted`,
`PostAnswerLost`, `PostFailed` (one POST and the edit of the ORM object),
`CommitBatch`, `RefuseBatch`, `BreakBatch`; the worker's loop as `PollNothing`,
`Wake`, `Signal`, `Stop`, `Crash`, `Restart`. Edits stay in `batch` until the
commit, as they do in the session. `due` stands for `next_retry_at <= now`; how long
a row waits is left out. `PostRaises` is the one exception of `client.post` that the
code does not count as an attempt: a consumer in `broken` has a URL that httpx cannot
parse. Which consumers may get one is the constant `Breakable`. `delivered` and
`troubled` are history, read by properties only. `Delivery` is what the outbox promises, in three actions; with
one dispatcher `Outbox` implements it (`ImplementsDelivery`, checked and proved).

### Lifecycle, LifecycleCache
A request goes through `BeginEvent` or `BeginOverride` (status and days are read),
`Evaluate` or `Override` (the row is stamped with the clock), `Insert` (the flush:
it draws the id and schedules the invalidation) and `Commit`. The steps are apart
because other requests run between them, and because id, timestamp and commit can
come in three different orders. An amount is a number, missing, or NaN, which raises
(`Raises`): such an event can only be rolled back.
With one request at a time `Lifecycle` implements `Journey` (`ImplementsJourney`,
checked and proved): rules take a user up by one stage, and only to one whose events are stored.
`LifecycleCache` adds one consumer App, outside the repository and modelled as
careful as it can be, the webhook, and a TTL that may strike at any time.

### MothershipClient
The rule for `franchisee_active` asks the mothership inside the transaction.
`Answers` is what one attempt may come back with; after a timeout or a 5xx there is a
second (`AskAgain`), after that zeros. `MonthlyPurchases` is padding, cutting and
every fallback. `vouched` is history: the users of whom an answer really listed
enough months above the threshold; `StageEarned` wants that, or the portal click, of
everyone on the last stage.

### GroupStreakCache
One user, several processes, a read in three steps (`Miss`, `Select`, `Fill`) and an
ingest in two (`CommitLogin`, `Drop`), because other requests of the event loop run
at each `await`. `CommitUnheard` is a commit after which nothing is dropped: the
answer of COMMIT was lost, or another process ingested the event. The bump itself is
`Bumped` of `GroupStreak`; here it is one step, its races are in `XpLedger`. The
versions in `changedAt`, `told` and `overtaken` are history.

### KeyCache
One process, several requests. `Ask`, `PlatformAnswers`, `Install` are apart since
two refreshes may be under way and come back in either order; nothing compares their
keys. A token is good if the key at hand is the one it was signed with: signatures
and claims are left out. `Latency` bounds how long an answer of the platform may be
under way (the client's timeouts of 5 s make it small beside a TTL of an hour).

### CatalogSeeds
The four admin writes: each reads the rows it names, edits them column by column, and
flushes once (`CommitSeeding`), through `Database`. A batch may name a combination
twice; with autoflush off such an insert is made twice and refused. `CatalogOf` gives
two releases of the service that disagree, as in a rolling deploy. The tables have
disjoint keys and are one function; name, description, unlock condition and metadata
behave as the two columns that are kept.

### DayWindow
An event has a time in UTC and the offset its sender wrote it with. `Column` is what a
`DateTime(timezone=True)` column keeps: the digits (MariaDB, SQLite) or the instant
(PostgreSQL). The cap's window compares the column; the streak reads the request.
`CapPerTaipeiDay` names the condition under which their days agree. Elsewhere in the
project an event has *the* day, which is right when every App sends UTC.

### EngagementDays
The rule that makes a visitor a loyalist, with days as in `DayWindow`: `Engage` stores
an event and walks backwards through the days of the stored ones (`Streak`), from the
*sender's* day of the trigger through days of the *column*. Events come in any order and
again. Everything else of the rule, the cut-off of the lookback included, is in
`Lifecycle`, where an event has one day.

## 3. Runs

Every property of a passing run has a mutant in `PROJECT.json`: an operator next to
the one it replaces, marked *Mutant*, which no specification uses.

| run | bounds | what it shows |
|---|---|---|
| `XpScores` | 1 user, 2 handlers, 5 meals, 3 logins | caps, clipping and diminishing hold under races and retries, and a day's events earn neither more nor, below the cap, less than the rules give that many; the streak is backed by the ledger |
| `XpRewards` | 2 users, 2 handlers, 9 requests | total, level, lifetime limits, announced levels, outfits, badges and ledger agree |
| `OutboxOne` | 3 events of 2 users, batch of 2, 2 attempts, 2 faults, a consumer that may break | one dispatcher: repeats, order, refinement of `Delivery` |
| `OutboxRace` | 2 events, worker and one route call at a time, 1 fault | two dispatchers: at least once, no early surrender, eventual settlement |
| `LifecycleSerial` | 1 user, 1 request at a time, 5 rows, 5 answers of the mothership | chain, funnel, direction and evidence when nothing overlaps; refinement of `Journey` |
| `LifecycleRace` | 1 user, 2 requests, 3 rows, one App | no stage without its events; why a cached stage can be stale |
| `Parts` | totals to 30050, 50 past the top; 2 requests per cache, 5 time units; 2 seeders, 3 batches, 2 releases; 3 events, 9 hours, 3 offsets; a streak of 2 days | the level functions agree with their definitions; both caches keep their window; rows stay whole; a Taipei day keeps its cap under the stated condition; who comes daily is promoted, and who stays away for two days is not |

Runs that end in a counterexample, each against a sentence of the repository:

| run | the sentence | what the code does |
|---|---|---|
| `XpLostUpdate` | service.py:359 "so progression and outbox stay coherent" | without `FirstUpdaterWins` an update of the total is lost |
| `XpLateLogin` | group_streak_service.py:16-17 on re-published events | a late login resets the streak and moves its date back |
| `LifecycleRegress` | lifecycle.py:85-86 "won't regress" | an override is undone by a rule that read the status before it |
| `OutboxPoison` | outbox.py:10 "5+ retries → dead_letter" | a row whose consumer URL cannot be parsed is polled for ever, and rows of its batch that were sent are sent again each time |
| `DayOffsets` | service.py:46 "of the UTC+8 day containing occurred_at" | with offsets and a column that keeps digits, a day scores past its cap |

For caps a column of instants is right and one of digits wrong (`DayOffsets`); for
the streak of engagements it is the other way round (below), so apart from "every App
sends UTC" no database makes both right.

Other differences between text and code, seen while modelling and not given a run:
the first retry comes after 5 minutes, since the count is incremented before it
indexes the table whose first entry is one minute (outbox.py:8 and 37-38 against 100
and 171); the invalidation leaves before the commit (conversion/routes.py:181
"immediately"), which `StaleForCause` counts as a cause; "the next read ... reflects
the new bump immediately" (gamification/routes.py:99-101) has the exception that
`BehindOnlyIfOvertaken` states; the months are not sorted (mothership.py:188), and
`"months": null` raises TypeError, which its handler does not catch; the "distinct
calendar days ... ending on the trigger event's day" (lifecycle.py:80-83) are two
calendars' when the column keeps instants: a visitor in Taipei who comes every morning
before eight starts each walk on a day the table does not have yet, and is never
promoted, which `DailyVisitsPromote` states and `DailyVisitsCount` proves.

**Why the bounds are enough.** Every conflict in this code is between two
transactions over one user's rows, so two workers and one user (two where a key or
a batch is shared) exhaust the pairs; a third worker only adds pairs. Requests may
be repeated without limit: the ledger's keys make the state space finite. Four
capped events reach "free, reduced, clipped, exhausted"; the rewards cross several
levels at once and both gates. Rows of overlapping requests may carry ids and
timestamps in opposite orders, so `HistoryIsChain`, `FunnelAgrees` and
`RulesNeverRegress` hold one request at a time only; `LifecycleRegress` is the
overlap at its worst. Two attempts in place of five reach retry
and surrender. In the caches a TTL of 2, a day of 3 and a latency of 1 in a clock of
5 let entries expire, cross a midnight and be refreshed; the time bounds themselves
are proved for all values. Nine hours around the midnights of UTC, Taipei and New York, three days
in a row, reach every order of the day boundaries and the promotion that is a day late. A streak of
2 days with slack 1 stands for 14 with slack 7: the rule is the same loop.
`TotalBound`, `MaxFaults`, `MaxClock`, `MaxTransitions`, `MaxTime`, `MaxVersions`,
`MaxRotations` and `MaxEvents` are the only bounds in guards. Workers are symmetric in the runs that declare it, none of which checks
liveness.

**Deadlock** is checked in the `Xp` and `Outbox` runs. The parts and the lifecycle
runs stop at their bounds and say `CHECK_DEADLOCK FALSE`.

**Fairness** is assumed in `OutboxRace` and `OutboxPoison` only: a batch that was begun goes on (each
POST has a timeout), the worker's loop and systemd's restart go on, and time passes.
Nothing obliges anybody to call the dispatch route. Faults are finitely many; a
consumer may fail for ever, which ends in a dead letter, unless its URL is broken: that
is `OutboxPoison`, with the same fairness.

## 4. Proofs

Every invariant, action property and refinement that a passing run checks is also a
theorem, for all values of the constants. What remains with TLC alone is liveness.
The column *needs* names what a theorem needs beyond the assumptions of the modules:
*refusing* is `FirstUpdaterWins`, the database that refuses the second updater;
*one dispatcher* is `Routes = {}`, the worker and no call of the dispatch route; *one
request at a time* is `OneAtATime`. The last column says what TLC finds on the
instance of the property's own run (`OutboxRace` for the outbox, `LifecycleRegress` for
the lifecycle) when it is not given what the theorem needs: a violation, or none
there; a name is that of a run of the project which is that experiment.

| module | theorem | states | needs | without it |
|---|---|---|---|---|
| `XpLedgerProofs` | `Typing` | `[]TypeOK` | | |
| | `LevelsMatch` | `[]LevelMatchesXp` | refusing | not on that instance |
| `XpLedgerRaces` | `TotalsFollow` | `TotalFollowsLedger` | refusing | violated: `XpLostUpdate` |
| | `LifetimesOnce` | `[]LifetimeOnce` | refusing | violated |
| | `DailyCapsRespected` | `[]DailyCapRespected` | refusing | violated |
| | `DaysPayTheirEvents` | `[]DayPaysItsEvents` | refusing | violated |
| | `StreaksBacked` | `[]StreakBacked` | refusing | not on that instance |
| `XpLedgerOutbox` | `BadgesOnce` | `[]BadgesBooked` | | |
| | `WardrobesFollow` | `[]WardrobeFollowsLevel` | | |
| | `MirrorsFollow` | `[]MirrorsCanFollow` | refusing | violated |
| `OutboxProofs` | `Typing` | `[]TypeOK` | | |
| | `SentRowsProcessed` | `[]SentWasProcessed` | | |
| | `GivenUpRightly` | `[]GivenUpForCause` | refusing | violated |
| | `SettledRowsStay` | `SettledStays` | refusing | violated |
| | `RepeatsHadTrouble` | `[]RepeatNeedsTrouble` | one dispatcher | violated |
| | `DeliversAtLeastOnce` | `ImplementsDelivery` | one dispatcher | violated |
| | `OnlyRetriesOvertaken` | `[]OnlyRetriesAreOvertaken` | | |
| `LifecycleProofs` | `Typing` | `[]TypeOK` | | |
| | `StagesEarned` | `[]StageEarned` | | |
| `LifecycleSerialProofs` | `HistoriesChain` | `[]HistoryIsChain` | one request at a time | violated |
| | `FunnelsAgree` | `[]FunnelAgrees` | one request at a time | violated |
| | `RulesClimb` | `RulesNeverRegress` | one request at a time | violated: `LifecycleRegress` |
| | `TakesTheJourney` | `ImplementsJourney` | one request at a time | violated |
| `LifecycleCacheProofs` | `CacheTyping` | `[]TypeOK`, with the cache | | |
| | `StaleIsExcused` | `[]StaleForCause` | | |
| `PartsProofs` | `StreakAges` | `[]FreshWithinWindow` | | |
| | `BehindIfOvertaken` | `[]BehindOnlyIfOvertaken` | | |
| | `FlagsAge` | `[]TodayWithinWindow` | | |
| | `KeyAges` | `[]KeyWithinWindow` | | |
| | `CapHoldsByTaipeiDay` | `[]CapPerTaipeiDay` | (states its condition) | violated: `DayOffsets` |
| | `TwoDayGapsReset` | `[]TwoDayGapResets` | (states its condition) | |
| | `DailyVisitsCount` | `DailyVisitsPromote` | | |
| | `CatalogIsACurve` | the real table meets `CurveAssumption` | | |
| | `LevelsCounted` | `[]LevelCountsThresholds` | | |
| | `NextLevelExact` | `[]NextLevelIsExact` | | |
| | `OneLevelAtATime` | `OnePointOneLevel` | | |
| | `RowsStayWhole` | `[]RowsAreWhole` | refusing | violated |
| | `UploadsKept` | `SeedsKeepUploads` | refusing | violated |

**Assumptions on constants**, all named in the modules and evaluated by TLC on the
runs: rules, rewards and gates have the types of the catalog, where every event is worth at least
1 XP, diminished ones too, no outfit is gated by
level 1, thresholds rise from 0 (`CatalogIsACurve` proves the last two of the real
table and gates); requests and batch items have the fields of their schemas; a row of
a catalog is a function of its columns; `NoRow` is no row; the clock of `Lifecycle`
has at least one tick.

### The ledger

1. `TypeInv` is `TypeOK` made inductive: the tables *and every open snapshot* are
   well typed, ledgers are finite. Each action has a lemma; `ReachedFinite` and
   `LevelForMonotone` bound the level.
2. `LevelForMonotone` says a total that grows does not lose a level. With it,
   `StoreEffect` and `ApplyXpEffect` say what a commit leaves in the progression:
   under `FirstUpdaterWins` a row that changed since the snapshot refuses the
   commit, so `Stored` is the new row itself. `LevelsMatch` follows.
3. The properties about *stale reads* need more: a handler decides on its snapshot,
   the properties speak of the table at the commit. `SnapInv` is the missing link.
   For every open transaction: the ledger it sees is part of the ledger now; and if
   the progression of a user has not changed since the snapshot, no row of hers that
   earned XP was added in between. It is inductive because every row that earns XP
   comes with a change of the progression (`TotalsFollow` is the same fact seen from
   the total), and because a total never returns to an old value.
4. A commit that earns XP writes the progression, hence found it unchanged, hence
   (by `SnapInv`) its sums and look-ups are true at the commit (`IngestedWithinCap`).
   `LifetimesOnce` and `DailyCapsRespected` follow by adding one row: the first by
   contradiction, the second by `SumOfOneMore`, where a sum is the number of XP
   points (`Points`) so that the facts on cardinalities apply.
   `DaysPayTheirEvents` needs the *count* to be true as well, and a row that earns
   nothing leaves the progression alone, so two handlers may add such rows without
   meeting. `PaidInv` is why this does no harm: below the cap there are no such rows
   (`NothingOnlyWhenFull`), so the count is current as long as it matters
   (`CountCurrent`), and the row pays what one event more is worth (`WorthOfOneMore`).
5. `StreaksBacked`: a bump that is accepted works on the row as it is
   (`BumpStreakEffect`), and `BumpedBacked` carries the runs of days over.
6. `XpLedgerOutbox` relates the outbox to the tables. `BadgeInv` is `BadgesBooked`
   with sets in place of their sizes; it needs no help from the database but the
   primary key of `user_achievements`, which a second award meets at its commit.
   `WardrobeInv` adds to its property that a snapshot's wardrobes are part of the
   present ones and that nobody sees less of the catalog than was seeded at the
   start (`SeenStays`): what a handler skips as owned *is* owned, and what it inserts
   is nobody's yet, or the key of `gamification_user_outfits` refuses the commit.
   Neither speaks of totals, so both hold on either kind of database.
7. `MirrorInv`: no announced level is above the level the row has now. With (2), a
   commit that announces a level found the row as it read it, so what it announces is
   above everything announced before.

### The outbox

`Inv` says of every row in the table (`Held`) and of every open batch (`Sound`) that
a pending row has attempts left and that a row marked as sent, or edited to be,
was processed by its consumer. A batch is sound whatever the others commit, since
what was processed stays processed (`Grown`, `OthersStaySound`): at least once needs
neither the database nor the number of dispatchers. `RowStep` looks at one row over
one step: it changes only while it is pending, for which a commit of a row that
somebody else has settled must be refused.

With one dispatcher, `OnceInv` says that nobody changes the rows of the open batch
and that a processed row is marked, or its mark waits in the batch, or it had
trouble. It is all that `DeliversAtLeastOnce` needs: `Enqueue`, the first time a
consumer accepts a row, and a commit are the steps of `Delivery`, every other step
leaves its variables alone.

`OrderInv` is about pairs of rows of one user: a later row is there only with the
earlier; and every open batch that took a later row took the earlier one too, if it is
untroubled, and comes to it first (`InOrder`). The batch being the first `Limit` due
rows by id is what establishes it (`DueRowsPrefix`). It survives any number of
dispatchers, as a row that somebody else sends or undoes is untroubled no more, and
any database, as a batch that is stored has come to all its rows: the order of the
events does not rest on the worker being alone, though their number does.

### The lifecycle

`EarnInv` says of every stored row what `StageEarned` says, and of every open request
that the stages up to the status it *read* are earned (`ReadOK`) and that the row it
is about to insert goes up by one from such a stage for its own event (`RuleRow`).
Stored events, rows and vouchers are never taken back (`More`), so what was true at
the read is true at the commit, however the requests overlap.

The four properties of `LifecycleSerialProofs` are false when requests overlap
(`LifecycleRegress`). One at a time, `SerialInv` holds: what an open request read is
still so, ids and timestamps rise together, and the row about to be stored is later
than all. `HistoryIsChain` is a conjunct, for it needs itself; `RulesClimb`,
`FunnelsAgree` and the steps of `Journey` follow.

`CauseInv` puts the cause of a stale entry where it arises: a row that is flushed and
not committed already has its notice scheduled, lost, or too early; and an answer on
its way to the consumer is an entry that may still be stored.

### The parts

The caches need one invariant each. A property speaks of an entry at the time it is
served; the invariant speaks of everything that can become an entry. `CacheInv` says
of each read under way and of each entry that its version was the last one until
some time after the read *started* (`LastedTo`), which a later commit can only
confirm (`BumpEffect`), and that a version older than one the process has been told
of is marked as overtaken: true when it is selected, and again after each `Drop`,
which marks the reads it overtakes. `TodayInv` adds the time at which a flag was
worked out, which lies between the start of the read and now; that a flag of another
day is then no older than the TTL after midnight is arithmetic (`DayOver`). `KeyInv`
says the same of keys, with the time the platform answered in place of the start, and
loses one `Latency` at `Install`.

`DayInv` counts the scored rows of every Taipei day, under the condition of the
property; `WindowIsTaipeiDay` says that the window of an event is its day.

`EngagementInv` says of the event that promoted a user that the stored events still
make up its streak (`StreakGrows`: none is ever taken away). From there `TwoDayGapsReset`
is about calendars: with offsets from -16 to +8 the sender's day, the column's and
Taipei's differ by one at most, in one direction. `DailyVisitsCount` needs no invariant:
the walk meets exactly the days that the daily visits left in the column, or asks
for the one that none of them can have left.

Two definitions are recursions: the loop of `level_for_xp` and the fold of an upsert.
They are proved without induction (`Least`, `Greatest`). A closed form is shown to
satisfy the recursive equation, so a function that does exists; and any function that
does agrees with the closed form, since a place where they differ, the greatest (or a
set of the least size), would have one beyond it. For the level the closed form is
the top threshold reached, for an upsert the last item of each combination
(`UpsertedLasts`). `SeedsInv` then says of every open transaction that it would
change a row only to an item or a release, or from nothing to a placeholder;
`StoredWhole` that what is stored is that row and no mixture.

### Only model-checked

`EventuallySettled`: liveness under fairness is out of the prover's reach, as is
`ENABLED`. The violation runs are counterexamples, not theorems. No module declares a
`RECURSIVE` operator.

## 5. Not modelled

- Signatures, claims and internal authentication: cryptography and comparisons, no
  state. `franchise_training_progress` and `franchise_applications`: no code touches
  them. `get_order_summary` of the mothership client: it has no caller.
- Formatting and wording of responses and logs; reads without effects, except those
  that are compared with each other or cached.
- Schemas, settings, wiring, migrations: declarations. What they allow, default or
  constrain is in the requests, constants and guards of the models.
- A promotion that two overlapping deep-engagement events miss (lifecycle.py:110) is
  a behaviour of `Lifecycle`; nothing in the code repairs it and nothing promises it,
  so no property speaks of it.
- A failed refresh of the key fails its request although an old key is at hand
  (`FetchFails`): the old key is past its TTL, and the code says nothing of grace.

Assumed of what is outside the repository: an answer of the platform is under way for
a bounded time; a column of MariaDB or SQLite keeps digits and one of PostgreSQL
instants; InnoDB's snapshot isolation where `FirstUpdaterWins` holds.

## 6. Plan

1. Refinement: `XpLedger` as an account per user that only ever adds.
2. Consumers of the outbox that apply what they get, so that lost order shows in a
   mirror, and what `OnlyRetriesAreOvertaken` and `MirrorsCanFollow` give together.
3. What remains of the serial properties of the lifecycle when requests overlap but
   their rows are committed in the order of their ids.

## 7. Running

```
tlc -config XpRewards.cfg MCXpLedger.tla      # any run: its cfg and its module
tlapm XpLedgerProofs.tla
tlapm XpLedgerRaces.tla
tlapm XpLedgerOutbox.tla
tlapm OutboxProofs.tla
tlapm LifecycleProofs.tla
tlapm LifecycleSerialProofs.tla
tlapm LifecycleCacheProofs.tla
tlapm PartsProofs.tla
```
