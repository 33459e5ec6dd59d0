------------------------------ MODULE XpLedger ------------------------------
(***************************************************************************)
(* The gamification service of pandora-core-conversion                     *)
(* (src/app/gamification/service.py): the XP ledger, the progression       *)
(* snapshot computed from it, the wardrobe, the achievements, the group    *)
(* streak and the outbox rows written beside them.                         *)
(*                                                                         *)
(* Every handler is one database transaction: it reads the snapshot the    *)
(* transaction opened with, computes in Python, writes and commits.  Other *)
(* transactions commit in between, so a handler is two steps here: Begin   *)
(* takes the snapshot, and one action per operation and outcome commits.   *)
(* A commit is possible only if the database accepts it: an INSERT must    *)
(* not meet an existing key, and module Database says when an UPDATE of a  *)
(* row that was read earlier is accepted and what it leaves in the row.    *)
(* A transaction the database refuses, or that dies with its process or    *)
(* connection, leaves nothing behind: Rollback.                            *)
(***************************************************************************)
EXTENDS GroupStreak, Sequences, FiniteSets, FiniteSetsExt

CONSTANTS
  Users,             \* pandora_user_uuid
  Workers,           \* concurrent request handlers, each with its own session
  Requests,          \* the requests clients send, again and again if they like
  Rule,              \* EVENT_CATALOG: event_kind -> EventRule
  XpReward,          \* xp_reward of the achievement codes (ACHIEVEMENT_CATALOG)
  Gate,              \* OUTFIT_CATALOG: code -> unlock level, NoLimit if not level-tier
  MaxLevel,          \* MAX_LEVEL
  Threshold,         \* LEVEL_XP_TABLE
  Seeded,            \* catalog codes already in the tables when the run starts
  Idle               \* a worker between requests

NoLimit == -1

LevelUp == "level_up"   \* value of UserOutfit.awarded_via

\* The event_kind column: an event of the catalog, an achievement, a migration.
EventKind(k) == <<"event", k>>
AchievementKind(c) == <<"achievement", c>>
Bootstrap == <<"migration", "bootstrap">>

\* The idempotency_key column: the client's, or the one bootstrap makes up.
ClientKey(k) == <<"client", k>>
BootstrapKey(u) == <<"migration", u>>   \* the App stands in the column beside it

\* Every kind of the catalog is worth something, a diminished one too.
EventRule == [app : STRING, xp : Nat \ {0}, cap : Nat \union {NoLimit}, lifetime : BOOLEAN,
              after : Nat \union {NoLimit}, reduced : (Nat \ {0}) \union {NoLimit},
              login : BOOLEAN]

Kinds == DOMAIN Rule
Codes == DOMAIN XpReward
Outfits == DOMAIN Gate

ASSUME RuleAssumption == \A k \in Kinds : Rule[k] \in EventRule
ASSUME RewardAssumption == \A c \in Codes : XpReward[c] \in Nat
\* A user begins on level 1; no outfit of the catalog is gated by it.
ASSUME GateAssumption == \A o \in Outfits : Gate[o] \in (Nat \ {0, 1}) \union {NoLimit}
ASSUME CurveAssumption ==
  /\ MaxLevel \in Nat \ {0}
  /\ Threshold \in [1 .. MaxLevel -> Nat]
  /\ Threshold[1] = 0
  /\ \A l \in 2 .. MaxLevel : Threshold[l - 1] < Threshold[l]
ASSUME SeededAssumption == Seeded \subseteq Codes \union Outfits

\* What a request carries, by the endpoint it is sent to.  A bootstrap request
\* is a batch: xp maps each user of the batch to the XP she brings along.
IsRequest(r) ==
  \/ /\ r.op = "ingest"
     /\ r.user \in Users /\ r.kind \in STRING /\ r.app \in STRING
     /\ r.key \in STRING /\ r.day \in Nat
  \/ /\ r.op = "award"
     /\ r.user \in Users /\ r.code \in STRING /\ r.app \in STRING
     /\ r.key \in STRING /\ r.day \in Nat
  \/ /\ r.op = "grant"
     /\ r.user \in Users /\ r.outfit \in STRING
  \/ /\ r.op = "bootstrap"
     /\ r.app \in STRING /\ DOMAIN r.xp \subseteq Users /\ IsFiniteSet(DOMAIN r.xp)
     /\ \A u \in DOMAIN r.xp : r.xp[u] \in Nat
  \/ /\ r.op = "seed"
     /\ r.codes \in SUBSET (Codes \union Outfits)

ASSUME RequestAssumption == \A r \in Requests : IsRequest(r)

VARIABLES
  ledger,              \* xp_ledger_entries: rows, never updated or deleted
  progression,         \* user_progression, by user
  streak,              \* group_user_daily_streaks, by user
  userOutfits,         \* gamification_user_outfits: who owns which outfit, and through what
  userAchievements,    \* user_achievements: <<user, code>>
  catalogRows,         \* codes present in the achievement and outfit tables
  outbox,              \* gamification_outbox_events, in the order of their ids
  txn                  \* by worker: Idle, or the open transaction

tables == <<ledger, progression, streak, userOutfits, userAchievements, catalogRows>>
vars == <<tables, outbox, txn>>

Progression == [total : Nat, level : 1 .. MaxLevel, anchor : Nat]

ASSUME NoRowAssumption == NoRow \notin Progression \union StreakRow

-----------------------------------------------------------------------------
(* Queries on the ledger.  L is the ledger a transaction sees.             *)

\* The XP points of a set of rows, one element per point: SUM(xp_delta) is
\* their number.
Points(rows) == UNION {{e} \X (1 .. e.xp) : e \in rows}
SumXp(rows) == Cardinality(Points(rows))

KeyUsed(L, app, key) == \E e \in L : e.app = app /\ e.key = key

OnDay(L, u, k, d) == {e \in L : e.user = u /\ e.kind = k /\ e.day = d}

\* SUM(xp_delta) over the UTC+8 day.
EarnedOn(L, u, k, d) == SumXp(OnDay(L, u, k, d))

\* COUNT(id) over the UTC+8 day.
OccurrencesOn(L, u, k, d) == Cardinality(OnDay(L, u, k, d))

LifetimeSeen(L, u, k) == \E e \in L : e.user = u /\ e.kind = k /\ e.xp > 0

\* Mutant of BaseXp: the count is taken to include the new event.
DiminishedLate(L, r) ==
  LET rule == Rule[r.kind]
  IN  IF /\ rule.after # NoLimit
         /\ rule.reduced # NoLimit
         /\ OccurrencesOn(L, r.user, EventKind(r.kind), r.day) > rule.after
        THEN rule.reduced
        ELSE rule.xp

\* What the rule is worth before the daily cap.
BaseXp(L, r) ==
  LET rule == Rule[r.kind]
  IN  IF /\ rule.after # NoLimit
         /\ rule.reduced # NoLimit
         /\ OccurrencesOn(L, r.user, EventKind(r.kind), r.day) >= rule.after
        THEN rule.reduced
        ELSE rule.xp

\* Mutants of ResolveXpDelta: the last event of the day is not clipped to what
\* the cap has left; lifetime is ignored.
NotClipped(L, r) ==
  LET rule == Rule[r.kind]
  IN  IF rule.lifetime /\ LifetimeSeen(L, r.user, EventKind(r.kind)) THEN 0
      ELSE IF rule.cap # NoLimit /\ EarnedOn(L, r.user, EventKind(r.kind), r.day) >= rule.cap
        THEN 0
      ELSE BaseXp(L, r)

LifetimeIgnored(L, r) ==
  LET left == Rule[r.kind].cap - EarnedOn(L, r.user, EventKind(r.kind), r.day)
  IN  IF Rule[r.kind].cap = NoLimit THEN BaseXp(L, r) ELSE Max({0, Min({BaseXp(L, r), left})})

\* The XP an event awards once caps and diminishing returns are applied.
ResolveXpDelta(L, r) ==
  LET rule == Rule[r.kind]
      left == rule.cap - EarnedOn(L, r.user, EventKind(r.kind), r.day)
  IN  IF rule.lifetime /\ LifetimeSeen(L, r.user, EventKind(r.kind)) THEN 0
      ELSE IF rule.cap = NoLimit THEN BaseXp(L, r)
      ELSE IF left <= 0 THEN 0
      ELSE IF BaseXp(L, r) <= left THEN BaseXp(L, r)
      ELSE left

-----------------------------------------------------------------------------
(* The progression row.                                                    *)

\* level_for_xp: how many thresholds a total has reached (see LevelCurve).
LevelFor(xp) == Cardinality({l \in 1 .. MaxLevel : Threshold[l] <= xp})

Baseline == [total |-> 0, level |-> 1, anchor |-> Threshold[1]]

\* Mutants of Applied: the anchor stays behind; a level-up stores the anchor as
\* the total.
AnchorLeftBehind(p, xp) ==
  LET t == p.total + xp
      l == LevelFor(t)
  IN  IF l > p.level THEN [p EXCEPT !.total = t, !.level = l] ELSE [p EXCEPT !.total = t]

SnappedToAnchor(p, xp) ==
  LET t == p.total + xp
      l == LevelFor(t)
  IN  IF l > p.level THEN [total |-> Threshold[l], level |-> l, anchor |-> Threshold[l]]
      ELSE [p EXCEPT !.total = t]

\* _apply_xp_to_progression: the level is written only when it rises.
Applied(p, xp) ==
  LET t == p.total + xp
      l == LevelFor(t)
  IN  IF xp = 0 THEN p
      ELSE IF l > p.level THEN [total |-> t, level |-> l, anchor |-> Threshold[l]]
      ELSE [p EXCEPT !.total = t]

\* The row bootstrap_user_ledger writes over a pristine progression.
Restored(xp) == [total |-> xp, level |-> LevelFor(xp), anchor |-> Threshold[LevelFor(xp)]]

\* The row a transaction works on: the one it read, or the one it inserts.
Loaded(row) == IF row = NoRow THEN Baseline ELSE row

-----------------------------------------------------------------------------
(* Transactions.                                                           *)

Tables ==
  [ledger |-> ledger, progression |-> progression, streak |-> streak,
   userOutfits |-> userOutfits, userAchievements |-> userAchievements,
   catalogRows |-> catalogRows]

\* An unknown kind, or one of another App, is a 422 before any query.
Accepts(r) == r.op = "ingest" => r.kind \in Kinds /\ Rule[r.kind].app = r.app

Begin(w) ==
  /\ txn[w] = Idle
  /\ \E r \in Requests :
       /\ Accepts(r)
       /\ txn' = [txn EXCEPT ![w] = [req |-> r, snap |-> Tables]]
  /\ UNCHANGED <<tables, outbox>>

\* Nothing a refused or interrupted transaction wrote survives it.
Rollback(w) ==
  /\ txn[w] # Idle
  /\ txn' = [txn EXCEPT ![w] = Idle]
  /\ UNCHANGED <<tables, outbox>>

\* The open transaction of a worker that runs operation op.
Running(w, op) == txn[w] # Idle /\ txn[w].req.op = op

Commit(w) == txn' = [txn EXCEPT ![w] = Idle]

\* _get_or_create_progression when nothing else is written to the row.
GetOrCreate(s, u) ==
  /\ CanInsert(progression[u], s.progression[u])
  /\ progression' = IF s.progression[u] = NoRow
                      THEN [progression EXCEPT ![u] = Baseline]
                      ELSE progression

\* Mutant of Unlocked: the outfits of that very level.
UnlockedAt(s, u, level) ==
  {o \in Outfits : /\ Gate[o] = level
                   /\ o \in s.catalogRows
                   /\ \A g \in s.userOutfits : ~(g.user = u /\ g.code = o)}

\* _grant_level_unlocked_outfits: level outfits up to the level, in the catalog
\* table and not owned, in the eyes of the transaction.
Unlocked(s, u, level) ==
  {o \in Outfits : /\ Gate[o] # NoLimit /\ Gate[o] <= level
                   /\ o \in s.catalogRows
                   /\ \A g \in s.userOutfits : ~(g.user = u /\ g.code = o)}

LevelUpEvents(u, p, codes) ==
  <<[type |-> "level_up", user |-> u, level |-> p.level, total |-> p.total]>>
    \o IF codes = {} THEN <<>>
       ELSE <<[type |-> "outfit_unlocked", user |-> u, codes |-> codes]>>

\* The common tail of ingest and award: apply xp to the progression of u; on a
\* level-up grant the outfits and enqueue the events, then the events of `more'.
ApplyXp(s, u, xp, more) ==
  LET read  == s.progression[u]
      new   == Applied(Loaded(read), xp)
      rises == new.level > Loaded(read).level
      codes == IF rises THEN Unlocked(s, u, new.level) ELSE {}
  IN  /\ CanStore(progression[u], read, new)
      /\ progression' = [progression EXCEPT ![u] = Stored(@, read, new)]
      /\ \A g \in userOutfits : ~(g.user = u /\ g.code \in codes)
      /\ userOutfits' = userOutfits
           \union {[user |-> u, code |-> o, via |-> LevelUp] : o \in codes}
      /\ outbox' = outbox \o (IF rises THEN LevelUpEvents(u, new, codes) ELSE <<>>) \o more

\* Mutant of InsertLedger: ON CONFLICT DO NOTHING.
InsertOrIgnore(row) ==
  ledger' = IF KeyUsed(ledger, row.app, row.key) THEN ledger ELSE ledger \union {row}

\* INSERT into the ledger under UNIQUE (source_app, idempotency_key).
InsertLedger(row) ==
  /\ ~KeyUsed(ledger, row.app, row.key)
  /\ ledger' = ledger \union {row}

-----------------------------------------------------------------------------
(* POST /internal/gamification/events                                      *)

BumpStreak(s, r) ==
  LET read == s.streak[r.user]
      new  == Bumped(read, r.day)
  IN  IF Rule[r.kind].login
        THEN /\ CanStore(streak[r.user], read, new)
             /\ streak' = [streak EXCEPT ![r.user] = Stored(@, read, new)]
        ELSE streak' = streak

\* The key was seen: only the progression row may have to be created.
IngestDuplicate(w) ==
  LET r == txn[w].req
      s == txn[w].snap
  IN  /\ Running(w, "ingest")
      /\ KeyUsed(s.ledger, r.app, ClientKey(r.key))
      /\ GetOrCreate(s, r.user)
      /\ Commit(w)
      /\ UNCHANGED <<ledger, streak, userOutfits, userAchievements, catalogRows, outbox>>

IngestRow(s, r) ==
  [user |-> r.user, app |-> r.app, kind |-> EventKind(r.kind), key |-> ClientKey(r.key),
   day |-> r.day, xp |-> ResolveXpDelta(s.ledger, r)]

IngestNew(w) ==
  LET r   == txn[w].req
      s   == txn[w].snap
      row == IngestRow(s, r)
  IN  /\ Running(w, "ingest")
      /\ ~KeyUsed(s.ledger, r.app, ClientKey(r.key))
      /\ InsertLedger(row)
      /\ BumpStreak(s, r)
      /\ ApplyXp(s, r.user, row.xp, <<>>)
      /\ Commit(w)
      /\ UNCHANGED <<userAchievements, catalogRows>>

-----------------------------------------------------------------------------
(* POST /internal/gamification/achievements/award                          *)

\* 404: the code is not in the achievement table.
AwardUnknown(w) ==
  /\ Running(w, "award")
  /\ txn[w].req.code \notin txn[w].snap.catalogRows \intersect Codes
  /\ Commit(w)
  /\ UNCHANGED <<tables, outbox>>

AwardAgain(w) ==
  LET r == txn[w].req
      s == txn[w].snap
  IN  /\ Running(w, "award")
      /\ r.code \in s.catalogRows \intersect Codes
      /\ <<r.user, r.code>> \in s.userAchievements
      /\ GetOrCreate(s, r.user)
      /\ Commit(w)
      /\ UNCHANGED <<ledger, streak, userOutfits, userAchievements, catalogRows, outbox>>

AwardRow(r) ==
  [user |-> r.user, app |-> r.app, kind |-> AchievementKind(r.code),
   key |-> ClientKey(r.key), day |-> r.day, xp |-> XpReward[r.code]]

\* Mutant of AwardedEvent: the arguments are swapped.
AwardedEventSwapped(r) ==
  [type |-> "achievement_awarded", user |-> r.code, code |-> r.user]

AwardedEvent(r) ==
  [type |-> "achievement_awarded", user |-> r.user, code |-> r.code]

\* The idempotency key is not looked up: a key that is taken fails the INSERT.
AwardNew(w) ==
  LET r == txn[w].req
      s == txn[w].snap
  IN  /\ Running(w, "award")
      /\ r.code \in s.catalogRows \intersect Codes
      /\ <<r.user, r.code>> \notin s.userAchievements \union userAchievements
      /\ userAchievements' = userAchievements \union {<<r.user, r.code>>}
      /\ IF XpReward[r.code] > 0 THEN InsertLedger(AwardRow(r)) ELSE ledger' = ledger
      /\ ApplyXp(s, r.user, XpReward[r.code], <<AwardedEvent(r)>>)
      /\ Commit(w)
      /\ UNCHANGED <<streak, catalogRows>>

-----------------------------------------------------------------------------
(* POST /internal/gamification/users/{uuid}/outfits/grant                  *)

\* 404 or already owned: nothing is written.
GrantNothing(w) ==
  LET r == txn[w].req
      s == txn[w].snap
  IN  /\ Running(w, "grant")
      /\ \/ r.outfit \notin s.catalogRows \intersect Outfits
         \/ \E g \in s.userOutfits : g.user = r.user /\ g.code = r.outfit
      /\ Commit(w)
      /\ UNCHANGED <<tables, outbox>>

GrantOutfit(w) ==
  LET r == txn[w].req
      s == txn[w].snap
  IN  /\ Running(w, "grant")
      /\ r.outfit \in s.catalogRows \intersect Outfits
      /\ \A g \in s.userOutfits \union userOutfits : ~(g.user = r.user /\ g.code = r.outfit)
      /\ userOutfits' = userOutfits
           \union {[user |-> r.user, code |-> r.outfit, via |-> "manual"]}
      /\ Commit(w)
      /\ UNCHANGED <<ledger, progression, streak, userAchievements, catalogRows, outbox>>

-----------------------------------------------------------------------------
(* POST /internal/gamification/migration/bootstrap-ledger                  *)

BootstrapRow(r, u) ==
  [user |-> u, app |-> r.app, kind |-> Bootstrap, key |-> BootstrapKey(u), day |-> 0,
   xp |-> r.xp[u]]

\* Mutant of Bootstrapped: a progression that has XP is overwritten.
RestoredAnyway(s, r, u, fresh) ==
  IF u \in fresh /\ r.xp[u] > 0 THEN Restored(r.xp[u]) ELSE Loaded(s.progression[u])

\* The progression of u after her entry of the batch, fresh or a repeat.
Bootstrapped(s, r, u, fresh) ==
  LET row == Loaded(s.progression[u])
  IN  IF u \in fresh /\ r.xp[u] > 0 /\ row.total = 0 THEN Restored(r.xp[u]) ELSE row

\* The whole batch is one transaction.  An entry over a progression that has XP
\* already is written to the ledger and changes nothing else.
BootstrapLedger(w) ==
  LET r     == txn[w].req
      s     == txn[w].snap
      batch == DOMAIN r.xp
      fresh == {u \in batch : ~KeyUsed(s.ledger, r.app, BootstrapKey(u))}
      New(u) == Bootstrapped(s, r, u, fresh)
  IN  /\ Running(w, "bootstrap")
      /\ \A u \in fresh : ~KeyUsed(ledger, r.app, BootstrapKey(u))
      /\ \A u \in batch : CanStore(progression[u], s.progression[u], New(u))
      /\ ledger' = ledger \union {BootstrapRow(r, u) : u \in fresh}
      /\ progression' = [u \in Users |->
           IF u \in batch THEN Stored(progression[u], s.progression[u], New(u))
                          ELSE progression[u]]
      /\ Commit(w)
      /\ UNCHANGED <<streak, userOutfits, userAchievements, catalogRows, outbox>>

-----------------------------------------------------------------------------
(* POST /internal/gamification/achievements/seed and /outfits/seed         *)

\* The rows missing from the snapshot are inserted, under their primary key.
SeedCatalog(w) ==
  LET missing == txn[w].req.codes \ txn[w].snap.catalogRows
  IN  /\ Running(w, "seed")
      /\ missing \intersect catalogRows = {}
      /\ catalogRows' = catalogRows \union missing
      /\ Commit(w)
      /\ UNCHANGED <<ledger, progression, streak, userOutfits, userAchievements, outbox>>

-----------------------------------------------------------------------------

Init ==
  /\ ledger = {}
  /\ progression = [u \in Users |-> NoRow]
  /\ streak = [u \in Users |-> NoRow]
  /\ userOutfits = {}
  /\ userAchievements = {}
  /\ catalogRows = Seeded
  /\ outbox = <<>>
  /\ txn = [w \in Workers |-> Idle]

Step(w) ==
  \/ Begin(w)
  \/ Rollback(w)
  \/ IngestDuplicate(w)
  \/ IngestNew(w)
  \/ AwardUnknown(w)
  \/ AwardAgain(w)
  \/ AwardNew(w)
  \/ GrantNothing(w)
  \/ GrantOutfit(w)
  \/ BootstrapLedger(w)
  \/ SeedCatalog(w)

Next == \E w \in Workers : Step(w)

Spec == Init /\ [][Next]_vars

-----------------------------------------------------------------------------
(* What the service promises.                                              *)

LedgerRow ==
  [user : Users, app : STRING,
   kind : ({"event", "achievement"} \X STRING) \union {Bootstrap},
   key : ({"client"} \X STRING) \union ({"migration"} \X Users),
   day : Nat, xp : Nat]

OwnedOutfit == [user : Users, code : Outfits, via : {LevelUp, "manual"}]

OutboxEvent ==
  [type : {"level_up"}, user : Users, level : 1 .. MaxLevel, total : Nat]
    \union [type : {"outfit_unlocked"}, user : Users, codes : SUBSET Outfits]
    \union [type : {"achievement_awarded"}, user : Users, code : Codes]

Snapshot ==
  [ledger : SUBSET LedgerRow,
   progression : [Users -> Progression \union {NoRow}],
   streak : [Users -> StreakRow \union {NoRow}],
   userOutfits : SUBSET OwnedOutfit,
   userAchievements : SUBSET (Users \X Codes),
   catalogRows : SUBSET (Codes \union Outfits)]

TypeOK ==
  /\ Tables \in Snapshot
  /\ outbox \in Seq(OutboxEvent)
  /\ txn \in [Workers -> [req : Requests, snap : Snapshot] \union {Idle}]

\* The columns of a progression row agree (service.py:158-181 computes them
\* together): the level is the one its total has earned and the anchor is that
\* level's threshold, whatever was committed while a request was computing.
LevelMatchesXp ==
  \A u \in Users :
    progression[u] # NoRow =>
      /\ progression[u].level = LevelFor(progression[u].total)
      /\ progression[u].anchor = Threshold[progression[u].level]

\* A kind never earns a user more than its daily_cap_xp in one UTC+8 day
\* (catalog.py:122), however many handlers score that kind at once.
DailyCapRespected ==
  \A u \in Users, k \in Kinds :
    Rule[k].cap # NoLimit =>
      \A d \in {e.day : e \in ledger} : EarnedOn(ledger, u, EventKind(k), d) <= Rule[k].cap

\* What n events of a kind are worth in a day, before the cap.
DayWorth(rule, n) ==
  IF rule.after = NoLimit \/ rule.reduced = NoLimit \/ n <= rule.after
    THEN rule.xp * n
    ELSE rule.xp * rule.after + rule.reduced * (n - rule.after)

\* A day pays for its events what they would earn one after another: the first
\* `after' in full and the others reduced (catalog.py:124-125), however stale the
\* COUNT and the SUM of each handler were (service.py:74-95, 120-134), and it
\* falls behind that only where it has reached the cap.  Duplicates count once,
\* and rows that the cap left with nothing count all the same.
DayPaysItsEvents ==
  \A u \in Users, k \in Kinds :
    ~Rule[k].lifetime =>
      \A d \in {e.day : e \in ledger} :
        LET earned == EarnedOn(ledger, u, EventKind(k), d)
            worth  == DayWorth(Rule[k], OccurrencesOn(ledger, u, EventKind(k), d))
        IN  /\ earned <= worth
            /\ earned < worth => Rule[k].cap # NoLimit /\ earned >= Rule[k].cap

\* A lifetime_unique kind scores once per user (catalog.py:123), also when two
\* events of that kind are handled side by side under different keys.
LifetimeOnce ==
  \A e, f \in ledger :
    (/\ e.user = f.user /\ e.kind = f.kind /\ e.xp > 0 /\ f.xp > 0
     /\ \E k \in Kinds : Rule[k].lifetime /\ e.kind = EventKind(k)) => e = f

\* The days on which the ledger holds a login event of u.
LoginDays(u) ==
  {e.day : e \in {f \in ledger : /\ f.user = u
                                 /\ \E k \in Kinds : Rule[k].login /\ f.kind = EventKind(k)}}

\* The group streak is honest (group_streak_service.py:58-133): current_streak
\* and longest_streak count consecutive Taipei days that each have a login in
\* the ledger, in whatever order the events of the Apps came in.
StreakBacked ==
  \A u \in Users : streak[u] # NoRow => Backed(streak[u], LoginDays(u))

LevelUps(u) == {i \in DOMAIN outbox : outbox[i].type = "level_up" /\ outbox[i].user = u}

AnnouncedLevel(u) == Max({1} \union {outbox[i].level : i \in LevelUps(u)})

\* An App that mirrors level_up events in their order (service.py:257-276) sees
\* levels that only rise, each with the total that earned it, and ends at the
\* user's level, unless that level is what a bootstrap restored silently.
MirrorsCanFollow ==
  \A u \in Users :
    /\ \A i, j \in LevelUps(u) : i < j => outbox[i].level < outbox[j].level
    /\ \A i \in LevelUps(u) : outbox[i].level = LevelFor(outbox[i].total)
    /\ progression[u] # NoRow =>
         \/ progression[u].level = AnnouncedLevel(u)
         \/ \E e \in ledger : /\ e.user = u /\ e.kind = Bootstrap
                              /\ progression[u].level = LevelFor(e.xp)

Unlocks(u) == {i \in DOMAIN outbox : outbox[i].type = "outfit_unlocked" /\ outbox[i].user = u}

\* Wardrobe, outbox and level agree (service.py:438-479): every outfit owned
\* through a level-up was announced once and no other was, and a user owns each
\* level outfit, seeded from the start, of the last level announced.
WardrobeFollowsLevel ==
  \A u \in Users :
    /\ {g.code : g \in {h \in userOutfits : h.user = u /\ h.via = LevelUp}}
         = UNION {outbox[i].codes : i \in Unlocks(u)}
    /\ \A i, j \in Unlocks(u) : i # j => outbox[i].codes \intersect outbox[j].codes = {}
    /\ \A o \in Seeded \intersect Outfits :
         Gate[o] # NoLimit /\ Gate[o] <= AnnouncedLevel(u) =>
           \E g \in userOutfits : g.user = u /\ g.code = o

\* "So progression and outbox stay coherent" (service.py:359): an achievement
\* is granted, announced and, if it is worth XP, booked in the ledger together
\* and exactly once, under retries, races and keys already used for an event.
BadgesBooked ==
  \A u \in Users, c \in Codes :
    LET granted == <<u, c>> \in userAchievements
    IN  /\ Cardinality({i \in DOMAIN outbox : outbox[i] = AwardedEvent([user |-> u, code |-> c])})
             = (IF granted THEN 1 ELSE 0)
        /\ Cardinality({e \in ledger : e.user = u /\ e.kind = AchievementKind(c)})
             = (IF granted /\ XpReward[c] > 0 THEN 1 ELSE 0)

NewRows(u) == {e \in ledger' \ ledger : e.user = u}

TotalOf(row) == Loaded(row).total

\* The ledger is the truth of the total (service.py:184-301, 321-435, 547-608):
\* a commit that adds a row to the ledger of a user adds its XP to her total,
\* and nothing else moves a total.  The one exception is a bootstrap row written
\* over a progression that has XP, kept for the record only.
TotalFollowsLedger ==
  [][\A u \in Users :
       IF \E e \in NewRows(u) : e.kind # Bootstrap \/ TotalOf(progression[u]) = 0
         THEN \E e \in NewRows(u) : TotalOf(progression'[u]) = TotalOf(progression[u]) + e.xp
         ELSE TotalOf(progression'[u]) = TotalOf(progression[u])]_vars

\* group_streak_service.py:16-17: "Re-publishing yesterday's event today (clock
\* skew) does NOT double-count because last_login_date already moved forward",
\* that is, a login dated before last_login_date leaves the row alone.
LateLoginIgnored ==
  [][\A u \in Users :
       streak[u] # NoRow =>
         streak'[u] = streak[u] \/ streak'[u].last > streak[u].last]_vars

=============================================================================
