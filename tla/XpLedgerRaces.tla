--------------------------- MODULE XpLedgerRaces ---------------------------
(***************************************************************************)
(* The promises of XpLedger that concurrent handlers could break, proved   *)
(* for a database that refuses the UPDATE of a row changed since it was    *)
(* read.  The argument is the same for all of them: every commit that adds *)
(* XP to the ledger of a user also changes her progression row, so a       *)
(* handler that computed from a ledger that has earned more since then     *)
(* also holds a stale progression row, and its own commit is refused.      *)
(* SnapInv makes that precise.                                             *)
(***************************************************************************)
EXTENDS XpLedgerProofs

Scores(e) == e.kind # Bootstrap /\ e.xp > 0

\* What has happened since a transaction took its snapshot.
Since(s) ==
  /\ s.ledger \subseteq ledger
  /\ \A u \in Users : TotalOf(s.progression[u]) <= TotalOf(progression[u])
  /\ \A e \in ledger \ s.ledger :
       Scores(e) => TotalOf(s.progression[e.user]) < TotalOf(progression[e.user])

SnapInv == \A w \in Workers : txn[w] # Idle => Since(txn[w].snap)

LEMMA TotalType ==
  ASSUME TypeInv, NEW u \in Users
  PROVE  /\ TotalOf(progression[u]) \in Nat
         /\ Loaded(progression[u]) \in Progression
         /\ TotalOf(Loaded(progression[u])) = TotalOf(progression[u])
<1>1. progression[u] \in Progression \union {NoRow}
  BY DEF TypeInv, TablesOK
<1>2. Loaded(progression[u]) \in Progression
  BY <1>1, BaselineAgrees DEF Loaded
<1> QED
  BY <1>2, NoRowAssumption DEF TotalOf, Loaded, Progression

-----------------------------------------------------------------------------
(* Which rows a step adds to the ledger.                                   *)

\* A row that is added by an ingest, by an award, or by a bootstrap.
Ingested(w, e) == /\ IngestNew(w) /\ ledger' = ledger \union {e}
                  /\ e = IngestRow(txn[w].snap, txn[w].req)
Awarded(w, e) == /\ AwardNew(w) /\ ledger' = ledger \union {e}
                 /\ e = AwardRow(txn[w].req) /\ e.xp > 0
Migrated(w, e) == /\ BootstrapLedger(w)
                  /\ e = BootstrapRow(txn[w].req, e.user)
                  /\ e.user \in DOMAIN txn[w].req.xp
                  /\ ~KeyUsed(txn[w].snap.ledger, txn[w].req.app, BootstrapKey(e.user))

LEMMA StepRows ==
  ASSUME NEW w \in Workers, Step(w)
  PROVE  /\ ledger \subseteq ledger'
         /\ \A e \in ledger' \ ledger : Ingested(w, e) \/ Awarded(w, e) \/ Migrated(w, e)
<1>1. CASE IngestNew(w)
  BY <1>1 DEF IngestNew, InsertLedger, Ingested
<1>2. CASE AwardNew(w)
  <2>1. CASE XpReward[txn[w].req.code] > 0
    BY <1>2, <2>1 DEF AwardNew, InsertLedger, Awarded, AwardRow
  <2>2. CASE ~(XpReward[txn[w].req.code] > 0)
    BY <1>2, <2>2 DEF AwardNew
  <2> QED
    BY <2>1, <2>2
<1>3. CASE BootstrapLedger(w)
  BY <1>3 DEF BootstrapLedger, Migrated, BootstrapRow
<1>4. CASE \/ Begin(w) \/ Rollback(w) \/ IngestDuplicate(w) \/ AwardUnknown(w)
           \/ AwardAgain(w) \/ GrantNothing(w) \/ GrantOutfit(w) \/ SeedCatalog(w)
  BY <1>4 DEF Begin, Rollback, IngestDuplicate, AwardUnknown, AwardAgain, GrantNothing,
              GrantOutfit, SeedCatalog, tables
<1> QED
  BY <1>1, <1>2, <1>3, <1>4 DEF Step

LEMMA KindsDiffer ==
  /\ \A k, c : EventKind(k) # AchievementKind(c)
  /\ \A k : EventKind(k) # Bootstrap /\ AchievementKind(k) # Bootstrap
  /\ \A k, l : EventKind(k) = EventKind(l) => k = l
  BY DEF EventKind, AchievementKind, Bootstrap

-----------------------------------------------------------------------------
(* What a step makes of the totals.                                        *)

\* The XP of the new rows of u reaches her total.
Reaches(u) ==
  LET counts(e) == e.kind # Bootstrap \/ TotalOf(progression[u]) = 0
  IN  /\ \A e \in NewRows(u) : counts(e) =>
           TotalOf(progression'[u]) = TotalOf(progression[u]) + e.xp
      /\ (\A e \in NewRows(u) : ~counts(e)) =>
           TotalOf(progression'[u]) = TotalOf(progression[u])

LEMMA IngestReaches ==
  ASSUME FirstUpdaterWins, TypeInv, NEW w \in Workers, IngestNew(w), NEW u \in Users
  PROVE  /\ Reaches(u)
         /\ LET row == IngestRow(txn[w].snap, txn[w].req)
            IN  row.xp > 0 => progression[row.user] = txn[w].snap.progression[row.user]
<1> DEFINE s == txn[w].snap
           r == txn[w].req
           row == IngestRow(s, r)
<1>1. row \in LedgerRow /\ r.user \in Users /\ row.user = r.user /\ row.kind = EventKind(r.kind)
  BY IngestRowType DEF IngestNew, IngestRow
<1>2. row.xp \in Nat
  BY <1>1 DEF LedgerRow
<1>3. /\ txn[w] # Idle /\ ApplyXp(s, r.user, row.xp, <<>>)
      /\ ledger' = ledger \union {row} /\ row \notin ledger
  BY DEF IngestNew, Running, InsertLedger, KeyUsed
<1> HIDE DEF row
<1>4. /\ progression'[r.user] = Applied(Loaded(progression[r.user]), row.xp)
      /\ \A v \in Users \ {r.user} : progression'[v] = progression[v]
      /\ row.xp > 0 => progression[r.user] = s.progression[r.user]
  BY <1>1, <1>2, <1>3, ApplyXpEffect
<1>5. CASE u = r.user
  <2>1. NewRows(u) = {row}
    BY <1>1, <1>3, <1>5 DEF NewRows
  <2>2. /\ Applied(Loaded(progression[u]), row.xp) \in Progression
        /\ Applied(Loaded(progression[u]), row.xp).total = Loaded(progression[u]).total + row.xp
    BY <1>2, TotalType, AppliedType
  <2>3. TotalOf(progression'[u]) = TotalOf(progression[u]) + row.xp
    BY <1>4, <1>5, <2>2, NoRowAssumption DEF TotalOf, Loaded
  <2>4. row.kind # Bootstrap
    BY <1>1, KindsDiffer
  <2> QED
    BY <1>1, <1>4, <2>1, <2>3, <2>4 DEF Reaches, row
<1>6. CASE u # r.user
  <2>1. NewRows(u) = {}
    BY <1>1, <1>3, <1>6 DEF NewRows
  <2> QED
    BY <1>1, <1>4, <1>6, <2>1 DEF Reaches, row
<1> QED
  BY <1>5, <1>6

LEMMA AwardReaches ==
  ASSUME FirstUpdaterWins, TypeInv, NEW w \in Workers, AwardNew(w), NEW u \in Users
  PROVE  Reaches(u)
<1> DEFINE s == txn[w].snap
           r == txn[w].req
           xp == XpReward[r.code]
           row == AwardRow(r)
<1>1. /\ txn[w] # Idle /\ r.user \in Users /\ r.code \in Codes
      /\ ApplyXp(s, r.user, xp, <<AwardedEvent(r)>>)
      /\ IF xp > 0 THEN InsertLedger(row) ELSE ledger' = ledger
  BY RequestType DEF AwardNew, Running, IsRequest
<1>2. xp \in Nat
  BY <1>1, RewardAssumption
<1>3. row.user = r.user /\ row.xp = xp /\ row.kind # Bootstrap
  BY KindsDiffer DEF AwardRow
<1>4. IF xp > 0 THEN ledger' = ledger \union {row} /\ row \notin ledger ELSE ledger' = ledger
  BY <1>1 DEF InsertLedger, KeyUsed
<1> HIDE DEF row, xp
<1>5. /\ progression'[r.user] = Applied(Loaded(progression[r.user]), xp)
      /\ \A v \in Users \ {r.user} : progression'[v] = progression[v]
  BY <1>1, <1>2, ApplyXpEffect
<1>6. CASE u = r.user
  <2>1. NewRows(u) = IF xp > 0 THEN {row} ELSE {}
    BY <1>3, <1>4, <1>6 DEF NewRows
  <2>2. /\ Applied(Loaded(progression[u]), xp) \in Progression
        /\ Applied(Loaded(progression[u]), xp).total = Loaded(progression[u]).total + xp
    BY <1>2, TotalType, AppliedType
  <2>3. TotalOf(progression'[u]) = TotalOf(progression[u]) + xp
    BY <1>5, <1>6, <2>2, NoRowAssumption DEF TotalOf, Loaded
  <2>4. TotalOf(progression[u]) \in Nat
    BY TotalType
  <2> QED
    BY <1>2, <1>3, <2>1, <2>3, <2>4 DEF Reaches
<1>7. CASE u # r.user
  <2>1. NewRows(u) = {}
    BY <1>3, <1>4, <1>7 DEF NewRows
  <2> QED
    BY <1>5, <1>7, <2>1 DEF Reaches
<1> QED
  BY <1>6, <1>7

LEMMA BootstrapReaches ==
  ASSUME FirstUpdaterWins, TypeInv, SnapInv, NEW w \in Workers, BootstrapLedger(w),
         NEW u \in Users
  PROVE  Reaches(u)
<1> DEFINE s == txn[w].snap
           r == txn[w].req
           fresh == u \in DOMAIN r.xp /\ ~KeyUsed(s.ledger, r.app, BootstrapKey(u))
           row == BootstrapRow(r, u)
<1>1. \/ /\ progression'[u] \in {progression[u], Loaded(progression[u])}
         /\ fresh => r.xp[u] = 0 \/ TotalOf(s.progression[u]) # 0
      \/ /\ fresh /\ r.xp[u] \in Nat /\ r.xp[u] > 0
         /\ TotalOf(progression[u]) = 0
         /\ progression[u] = s.progression[u]
         /\ progression'[u] = Restored(r.xp[u])
  BY BootstrapEffect
<1>2. NewRows(u) = IF fresh THEN {row} ELSE {}
  BY DEF BootstrapLedger, NewRows, BootstrapRow, KeyUsed
<1>3. row.kind = Bootstrap /\ row.xp = r.xp[u]
  BY DEF BootstrapRow
<1>4. /\ TotalOf(progression[u]) \in Nat
      /\ TotalOf(Loaded(progression[u])) = TotalOf(progression[u])
      /\ TotalOf(s.progression[u]) \in Nat
  BY TotalType, LoadedType DEF BootstrapLedger, Running, TotalOf, Progression
<1>5. TotalOf(s.progression[u]) <= TotalOf(progression[u])
  BY DEF SnapInv, Since, BootstrapLedger, Running
<1> HIDE DEF row
<1>6. CASE progression'[u] \in {progression[u], Loaded(progression[u])}
           /\ (fresh => r.xp[u] = 0 \/ TotalOf(s.progression[u]) # 0)
  BY <1>2, <1>3, <1>4, <1>5, <1>6 DEF Reaches
<1>7. CASE /\ fresh /\ r.xp[u] \in Nat /\ TotalOf(progression[u]) = 0
           /\ progression'[u] = Restored(r.xp[u])
  <2>1. TotalOf(progression'[u]) = r.xp[u]
    BY <1>7, RestoredAgrees, NoRowAssumption DEF TotalOf, Loaded
  <2> QED
    BY <1>2, <1>3, <1>7, <2>1 DEF Reaches
<1> QED
  BY <1>1, <1>6, <1>7

LEMMA StepReaches ==
  ASSUME FirstUpdaterWins, TypeInv, SnapInv, NEW w \in Workers, Step(w), NEW u \in Users
  PROVE  Reaches(u)
<1>1. CASE IngestNew(w)
  BY <1>1, IngestReaches
<1>2. CASE AwardNew(w)
  BY <1>2, AwardReaches
<1>3. CASE BootstrapLedger(w)
  BY <1>3, BootstrapReaches
<1>4. CASE IngestDuplicate(w) \/ AwardAgain(w)
  <2>1. txn[w] # Idle /\ txn[w].req.user \in Users /\ GetOrCreate(txn[w].snap, txn[w].req.user)
    BY <1>4, RequestType DEF IngestDuplicate, AwardAgain, Running, IsRequest
  <2>2. progression' = [progression EXCEPT ![txn[w].req.user] = Loaded(progression[txn[w].req.user])]
    BY <2>1, GetOrCreateEffect
  <2>3. progression'[u] \in {progression[u], Loaded(progression[u])}
    BY <2>1, <2>2 DEF TypeInv, TablesOK
  <2>4. NewRows(u) = {}
    BY <1>4 DEF IngestDuplicate, AwardAgain, NewRows
  <2> QED
    BY <2>3, <2>4, TotalType DEF Reaches
<1>5. CASE \/ Begin(w) \/ Rollback(w) \/ AwardUnknown(w) \/ GrantNothing(w)
           \/ GrantOutfit(w) \/ SeedCatalog(w)
  <2>1. ledger' = ledger /\ progression' = progression
    BY <1>5 DEF Begin, Rollback, AwardUnknown, GrantNothing, GrantOutfit, SeedCatalog, tables
  <2> QED
    BY <2>1 DEF Reaches, NewRows
<1> QED
  BY <1>1, <1>2, <1>3, <1>4, <1>5 DEF Step

-----------------------------------------------------------------------------
(* The invariant.                                                          *)

LEMMA LedgerTypes ==
  ASSUME TypeInv, NEW e \in ledger
  PROVE  e.user \in Users /\ e.xp \in Nat
  BY DEF TypeInv, TablesOK, IsLedger, LedgerRow

LEMMA StepKeepsSince ==
  ASSUME FirstUpdaterWins, TypeInv, TypeInv', SnapInv, NEW w \in Workers, Step(w),
         NEW s, Since(s), \A u \in Users : TotalOf(s.progression[u]) \in Nat
  PROVE  Since(s)'
<1>1. ledger \subseteq ledger'
  BY StepRows
<1>2. ASSUME NEW u \in Users
      PROVE  /\ TotalOf(progression[u]) <= TotalOf(progression'[u])
             /\ \A e \in NewRows(u) : Scores(e) =>
                  TotalOf(progression[u]) < TotalOf(progression'[u])
  <2>1. Reaches(u)
    BY StepReaches
  <2>2. \A e \in NewRows(u) : e.xp \in Nat
    BY DEF NewRows, TypeInv, TablesOK, IsLedger, LedgerRow
  <2>3. TotalOf(progression[u]) \in Nat
    BY TotalType
  <2> QED
    BY <2>1, <2>2, <2>3 DEF Reaches, Scores
<1>3. ASSUME NEW u \in Users
      PROVE  TotalOf(progression[u]) \in Nat /\ TotalOf(progression'[u]) \in Nat
  <2>1. progression'[u] \in Progression \union {NoRow}
    BY DEF TypeInv, TablesOK
  <2> QED
    BY <2>1, TotalType, BaselineAgrees DEF TotalOf, Loaded, Progression
<1>4. \A u \in Users : TotalOf(s.progression[u]) <= TotalOf(progression'[u])
  BY <1>2, <1>3 DEF Since
<1>5. ASSUME NEW e \in ledger' \ s.ledger, Scores(e)
      PROVE  TotalOf(s.progression[e.user]) < TotalOf(progression'[e.user])
  <2>1. e.user \in Users
    BY DEF TypeInv, TablesOK, IsLedger, LedgerRow
  <2>2. CASE e \in ledger
    BY <1>2, <1>3, <1>5, <2>1, <2>2 DEF Since
  <2>3. CASE e \notin ledger
    <3>1. e \in NewRows(e.user)
      BY <2>3 DEF NewRows
    <3> QED
      BY <1>2, <1>3, <1>5, <2>1, <3>1 DEF Since
  <2> QED
    BY <2>2, <2>3
<1>6. s.ledger \subseteq ledger'
  BY <1>1 DEF Since
<1>7. \A u \in Users : TotalOf(progression[u])' = TotalOf(progression'[u])
  BY DEF TotalOf, Loaded, Baseline
<1>8. \A e \in ledger' : e.user \in Users
  BY DEF TypeInv, TablesOK, IsLedger, LedgerRow
<1> QED
  BY <1>4, <1>5, <1>6, <1>7, <1>8 DEF Since, Scores, TotalOf, Loaded

LEMMA StepKeepsSnapInv ==
  ASSUME FirstUpdaterWins, TypeInv, TypeInv', SnapInv, NEW w \in Workers, Step(w)
  PROVE  SnapInv'
<1> SUFFICES ASSUME NEW v \in Workers, txn'[v] # Idle PROVE Since(txn[v].snap)'
  BY DEF SnapInv
<1>1. CASE txn'[v] = txn[v]
  <2>1. Since(txn[v].snap) /\ \A u \in Users : TotalOf(txn[v].snap.progression[u]) \in Nat
    BY <1>1, LoadedType DEF SnapInv, TotalOf, Progression
  <2> DEFINE s == txn[v].snap
  <2>2. s' = s
    BY <1>1
  <2> HIDE DEF s
  <2>3. \A old : old = s => Since(old)'
    BY <2>1, StepKeepsSince DEF s
  <2> QED
    BY <1>1, <2>2, <2>3 DEF s, Since
<1>2. CASE txn'[v] # txn[v]
  <2>1. v = w /\ Begin(w)
    BY <1>2 DEF TypeInv, Step, Begin, Rollback, IngestDuplicate, IngestNew, AwardUnknown,
                AwardAgain, AwardNew, GrantNothing, GrantOutfit, BootstrapLedger,
                SeedCatalog, Commit
  <2>2. txn'[v].snap = Tables /\ UNCHANGED tables
    BY <2>1 DEF TypeInv, Begin
  <2>3. /\ txn'[v].snap.ledger = ledger' /\ txn'[v].snap.progression = progression'
    BY <2>2 DEF Tables, tables
  <2>4. \A u \in Users : TotalOf(progression'[u]) \in Nat
    BY <2>2, TotalType DEF tables
  <2> QED
    BY <2>3, <2>4 DEF Since, TotalOf, Loaded, Baseline
<1> QED
  BY <1>1, <1>2

THEOREM SpecSnapInv ==
  ASSUME FirstUpdaterWins
  PROVE  Spec => [](TypeInv /\ SnapInv)
<1>1. Init => SnapInv
  BY DEF Init, SnapInv
<1>2. ASSUME TypeInv, SnapInv, TypeInv', [Next]_vars PROVE SnapInv'
  <2>1. CASE UNCHANGED vars
    BY <1>2, <2>1 DEF vars, tables, SnapInv, Since, TotalOf, Loaded, Baseline
  <2>2. ASSUME NEW w \in Workers, Step(w) PROVE SnapInv'
    BY <1>2, <2>2, StepKeepsSnapInv
  <2> QED
    BY <1>2, <2>1, <2>2 DEF Next
<1> QED
  BY <1>1, <1>2, SpecTypeInv, PTL DEF Spec

-----------------------------------------------------------------------------
(* What follows.                                                           *)

\* No update is lost: the ledger and the total move together.
THEOREM TotalsFollow ==
  ASSUME FirstUpdaterWins
  PROVE  Spec => TotalFollowsLedger
<1> DEFINE Booked(u) ==
      IF \E e \in NewRows(u) : e.kind # Bootstrap \/ TotalOf(progression[u]) = 0
        THEN \E e \in NewRows(u) : TotalOf(progression'[u]) = TotalOf(progression[u]) + e.xp
        ELSE TotalOf(progression'[u]) = TotalOf(progression[u])
<1>1. ASSUME TypeInv, SnapInv, [Next]_vars PROVE [\A u \in Users : Booked(u)]_vars
  <2> SUFFICES ASSUME NEW w \in Workers, Step(w), NEW u \in Users PROVE Booked(u)
    BY <1>1 DEF Next
  <2>1. Reaches(u)
    BY <1>1, StepReaches
  <2> QED
    BY <2>1 DEF Reaches
<1> QED
  BY <1>1, SpecSnapInv, PTL DEF Spec, TotalFollowsLedger

\* A handler that scores has seen every row of that user and kind that scored.
LEMMA ScoresSeen ==
  ASSUME FirstUpdaterWins, TypeInv, SnapInv, NEW w \in Workers, NEW e, Ingested(w, e), e.xp > 0,
         NEW f \in ledger, f.user = e.user, f.kind = e.kind, f.xp > 0
  PROVE  f \in txn[w].snap.ledger
<1> DEFINE s == txn[w].snap
<1>1. e.user \in Users
  BY IngestRowType DEF Ingested, IngestNew, IngestRow
<1>2. progression[e.user] = s.progression[e.user]
  BY <1>1, IngestReaches DEF Ingested
<1>3. f.kind # Bootstrap
  BY KindsDiffer DEF Ingested, IngestRow
<1>4. TotalOf(progression[e.user]) \in Nat
  BY <1>1, TotalType
<1>5. Since(s)
  BY DEF SnapInv, Ingested, IngestNew, Running
<1> QED
  BY <1>2, <1>3, <1>4, <1>5 DEF Since, Scores

\* So the sum and the question it asked are answered as the ledger would now.
LEMMA QueriesCurrent ==
  ASSUME FirstUpdaterWins, TypeInv, SnapInv, NEW w \in Workers, NEW e, Ingested(w, e), e.xp > 0
  PROVE  /\ EarnedOn(txn[w].snap.ledger, e.user, e.kind, e.day) = EarnedOn(ledger, e.user, e.kind, e.day)
         /\ LifetimeSeen(ledger, e.user, e.kind) => LifetimeSeen(txn[w].snap.ledger, e.user, e.kind)
<1> DEFINE s == txn[w].snap
           old == OnDay(s.ledger, e.user, e.kind, e.day)
           now == OnDay(ledger, e.user, e.kind, e.day)
<1>1. s.ledger \subseteq ledger
  BY DEF SnapInv, Since, Ingested, IngestNew, Running
<1>2. \A f \in ledger : f.user = e.user /\ f.kind = e.kind /\ f.xp > 0 => f \in s.ledger
  BY ScoresSeen
<1>3. \A f \in ledger : f.xp \in Nat
  BY LedgerTypes
<1>4. old \subseteq now /\ \A f \in now \ old : 1 .. f.xp = {}
  BY <1>1, <1>2, <1>3 DEF OnDay
<1>5. Points(old) = Points(now)
  <2> HIDE DEF old, now
  <2>1. \A p : p \in Points(old) <=> \E f \in old : p \in {f} \X (1 .. f.xp)
    BY DEF Points
  <2>2. \A p : p \in Points(now) <=> \E f \in now : p \in {f} \X (1 .. f.xp)
    BY DEF Points
  <2>3. \A f \in now \ old : {f} \X (1 .. f.xp) = {}
    BY <1>4
  <2> QED
    BY <1>4, <2>1, <2>2, <2>3
<1> QED
  BY <1>1, <1>2, <1>5 DEF EarnedOn, SumXp, LifetimeSeen

\* What the new row may earn, by the ledger as it is at the commit.
LEMMA IngestedWithinCap ==
  ASSUME FirstUpdaterWins, TypeInv, SnapInv, NEW w \in Workers, NEW e, Ingested(w, e), e.xp > 0,
         NEW k \in Kinds, e.kind = EventKind(k)
  PROVE  /\ Rule[k].cap # NoLimit => e.xp <= Rule[k].cap - EarnedOn(ledger, e.user, e.kind, e.day)
         /\ Rule[k].lifetime => ~LifetimeSeen(ledger, e.user, e.kind)
<1> DEFINE r == txn[w].req
           L == txn[w].snap.ledger
           E == EarnedOn(L, r.user, EventKind(r.kind), r.day)
<1>1. /\ e.user = r.user /\ e.kind = EventKind(r.kind) /\ e.day = r.day
      /\ e.xp = ResolveXpDelta(L, r) /\ r.kind \in Kinds /\ IsLedger(L)
  BY RequestType DEF Ingested, IngestNew, Running, IngestRow
<1>2. k = r.kind
  BY <1>1, KindsDiffer
<1>3. /\ EarnedOn(ledger, e.user, e.kind, e.day) = E
      /\ LifetimeSeen(ledger, e.user, e.kind) => LifetimeSeen(L, r.user, EventKind(r.kind))
  BY <1>1, QueriesCurrent
<1>4. E \in Nat /\ Rule[k] \in EventRule /\ BaseXp(L, r) \in Nat
  BY <1>1, <1>2, QueriesType, RuleAssumption DEF BaseXp, EventRule, NoLimit
<1> HIDE DEF E
<1>5. Rule[k].lifetime => ~LifetimeSeen(L, r.user, EventKind(r.kind))
  BY <1>1, <1>2 DEF ResolveXpDelta
<1>6. Rule[k].cap # NoLimit => e.xp <= Rule[k].cap - E
  BY <1>1, <1>2, <1>4 DEF ResolveXpDelta, EventRule, NoLimit, E
<1> QED
  BY <1>3, <1>5, <1>6

\* Which step adds a row of an event of the catalog.
LEMMA EventRowIngested ==
  ASSUME NEW w \in Workers, Step(w), NEW e \in ledger' \ ledger, NEW k, e.kind = EventKind(k)
  PROVE  Ingested(w, e)
<1>1. ~Awarded(w, e) /\ ~Migrated(w, e)
  BY KindsDiffer DEF Awarded, AwardRow, Migrated, BootstrapRow
<1> QED
  BY <1>1, StepRows

\* A lifetime_unique kind scores once per user, however many handlers race.
THEOREM LifetimesOnce ==
  ASSUME FirstUpdaterWins
  PROVE  Spec => []LifetimeOnce
<1>1. Init => LifetimeOnce
  BY DEF Init, LifetimeOnce
<1>2. ASSUME TypeInv, SnapInv, LifetimeOnce, [Next]_vars PROVE LifetimeOnce'
  <2>1. CASE UNCHANGED vars
    BY <1>2, <2>1 DEF vars, tables, LifetimeOnce
  <2>2. ASSUME NEW w \in Workers, Step(w),
               NEW e \in ledger', NEW f \in ledger', NEW k \in Kinds, Rule[k].lifetime,
               e.kind = EventKind(k), f.kind = EventKind(k), e.user = f.user,
               e.xp > 0, f.xp > 0
        PROVE  e = f
    <3>1. CASE e \in ledger /\ f \in ledger
      BY <1>2, <2>2, <3>1 DEF LifetimeOnce
    <3>2. ASSUME NEW new \in ledger' \ ledger, NEW old \in ledger,
                 new.kind = EventKind(k), old.kind = EventKind(k), new.user = old.user,
                 new.xp > 0, old.xp > 0
          PROVE  FALSE
      <4>1. ~LifetimeSeen(ledger, new.user, new.kind)
        BY <1>2, <2>2, <3>2, EventRowIngested, IngestedWithinCap
      <4> QED
        BY <3>2, <4>1 DEF LifetimeSeen
    <3>3. CASE e \notin ledger /\ f \notin ledger
      BY <2>2, <3>3, EventRowIngested DEF Ingested
    <3> QED
      BY <2>2, <3>1, <3>2, <3>3
  <2> QED
    BY <1>2, <2>1, <2>2 DEF Next, LifetimeOnce
<1> QED
  BY <1>1, <1>2, SpecSnapInv, PTL DEF Spec

-----------------------------------------------------------------------------
(* The daily cap.  The invariant speaks of every day, with rows or without. *)

CapInv ==
  \A u \in Users, k \in Kinds, d \in Nat :
    Rule[k].cap # NoLimit => EarnedOn(ledger, u, EventKind(k), d) <= Rule[k].cap

LEMMA SumOfEmpty == SumXp({}) = 0
<1>1. Points({}) = {}
  BY DEF Points
<1> QED
  BY <1>1, FS_EmptySet DEF SumXp

LEMMA PointsOfOne ==
  ASSUME NEW e, e.xp \in Nat
  PROVE  IsFiniteSet({e} \X (1 .. e.xp)) /\ Cardinality({e} \X (1 .. e.xp)) = e.xp
<1>1. IsFiniteSet({e}) /\ Cardinality({e}) = 1
  BY FS_Singleton
<1>2. e.xp \in Int
  OBVIOUS
<1>3. IsFiniteSet(1 .. e.xp) /\ Cardinality(1 .. e.xp) = e.xp
  BY <1>2, FS_Interval
<1> QED
  BY <1>1, <1>2, <1>3, FS_Product

\* One new row adds its XP to a sum, and one to a count.
LEMMA SumOfNewRow ==
  ASSUME NEW rows, IsFiniteSet(rows), \A f \in rows : f.xp \in Nat,
         NEW e, e \notin rows, e.xp \in Nat
  PROVE  /\ SumXp(rows \union {e}) = SumXp(rows) + e.xp
         /\ Cardinality(rows \union {e}) = Cardinality(rows) + 1
<1> DEFINE P == Points(rows)
           Q == {e} \X (1 .. e.xp)
<1>1. Points(rows \union {e}) = P \union Q
  BY DEF Points
<1>2. IsFiniteSet(P) /\ Cardinality(P) \in Nat
  BY PointsFinite DEF SumXp
<1>3. IsFiniteSet(Q) /\ Cardinality(Q) = e.xp
  BY PointsOfOne
<1>4. P \cap Q = {}
  BY DEF Points
<1>5. SumXp(rows) = Cardinality(P) /\ SumXp(rows \union {e}) = Cardinality(P \union Q)
  BY <1>1 DEF SumXp
<1> HIDE DEF P, Q
<1>6. Cardinality(P \union Q) = Cardinality(P) + Cardinality(Q) - Cardinality(P \cap Q)
  BY <1>2, <1>3, FS_Union
<1>7. Cardinality(P \cap Q) = 0
  BY <1>4, FS_EmptySet
<1>8. Cardinality(rows \union {e}) = Cardinality(rows) + 1
  BY FS_AddElement, Zenon
<1>9. SumXp(rows \union {e}) = SumXp(rows) + e.xp
  BY <1>2, <1>3, <1>5, <1>6, <1>7
<1> QED
  BY <1>8, <1>9

\* One more row adds at most its XP to a sum.
LEMMA SumOfOneMore ==
  ASSUME NEW rows, IsFiniteSet(rows), \A f \in rows : f.xp \in Nat, NEW e, e.xp \in Nat
  PROVE  SumXp(rows \union {e}) <= SumXp(rows) + e.xp
<1>1. SumXp(rows) \in Nat
  BY PointsFinite
<1>2. CASE e \in rows
  <2>1. rows \union {e} = rows
    BY <1>2
  <2>2. SumXp(rows) <= SumXp(rows) + e.xp
    BY <1>1
  <2> QED
    BY <2>1, <2>2
<1>3. CASE e \notin rows
  <2>1. SumXp(rows \union {e}) = SumXp(rows) + e.xp
    BY <1>3, SumOfNewRow
  <2> QED
    BY <1>1, <2>1
<1> QED
  BY <1>2, <1>3

LEMMA StepKeepsCap ==
  ASSUME FirstUpdaterWins, TypeInv, TypeInv', SnapInv, CapInv, NEW w \in Workers, Step(w)
  PROVE  CapInv'
<1> SUFFICES ASSUME NEW u \in Users, NEW k \in Kinds, NEW d \in Nat, Rule[k].cap # NoLimit
             PROVE  EarnedOn(ledger', u, EventKind(k), d) <= Rule[k].cap
  BY DEF CapInv, EarnedOn, SumXp, Points, OnDay
<1> DEFINE old == OnDay(ledger, u, EventKind(k), d)
           now == OnDay(ledger', u, EventKind(k), d)
<1>1. ledger \subseteq ledger' /\ SumXp(old) <= Rule[k].cap
  BY StepRows DEF CapInv, EarnedOn
<1>2. CASE now = old
  BY <1>1, <1>2 DEF EarnedOn
<1>3. CASE now # old
  <2>1. PICK e \in ledger' \ ledger : e.user = u /\ e.kind = EventKind(k) /\ e.day = d
    BY <1>1, <1>3 DEF OnDay
  <2>2. Ingested(w, e)
    BY <2>1, EventRowIngested
  <2>3. now = old \union {e}
    BY <2>1, <2>2 DEF Ingested, OnDay
  <2>4. IsLedger(ledger) /\ e.xp \in Nat
    BY <2>1 DEF TypeInv, TablesOK, IsLedger, LedgerRow
  <2>5. IsFiniteSet(old) /\ \A f \in old : f.xp \in Nat
    <3>1. old \in SUBSET ledger
      BY DEF OnDay
    <3> QED
      BY <2>4, <3>1, FS_Subset DEF IsLedger, LedgerRow
  <2>6. SumXp(old) \in Nat /\ SumXp(now) <= SumXp(old) + e.xp
    BY <2>3, <2>4, <2>5, PointsFinite, SumOfOneMore
  <2>7. SumXp(now) \in Nat
    <3>1. IsFiniteSet(now) /\ \A f \in now : f.xp \in Nat
      BY <2>3, <2>4, <2>5, FS_AddElement
    <3> QED
      BY <3>1, PointsFinite
  <2>8. Rule[k].cap \in Nat
    BY RuleAssumption DEF EventRule
  <2>9. CASE e.xp = 0
    BY <1>1, <2>6, <2>7, <2>8, <2>9 DEF EarnedOn
  <2>10. CASE e.xp > 0
    <3>1. e.xp <= Rule[k].cap - SumXp(old)
      BY <2>1, <2>2, <2>10, IngestedWithinCap DEF EarnedOn
    <3> QED
      BY <2>4, <2>6, <2>7, <2>8, <3>1 DEF EarnedOn
  <2> QED
    BY <2>4, <2>9, <2>10
<1> QED
  BY <1>2, <1>3

\* No kind earns a user more than its daily cap, however many handlers race.
THEOREM DailyCapsRespected ==
  ASSUME FirstUpdaterWins
  PROVE  Spec => []DailyCapRespected
<1>1. Init => CapInv
  <2> SUFFICES ASSUME Init PROVE CapInv
    OBVIOUS
  <2>1. \A u, k, d : OnDay(ledger, u, k, d) = {}
    BY DEF Init, OnDay
  <2> QED
    BY <2>1, SumOfEmpty, RuleAssumption DEF CapInv, EarnedOn, EventRule
<1>2. ASSUME TypeInv, TypeInv', SnapInv, CapInv, [Next]_vars PROVE CapInv'
  <2>1. CASE UNCHANGED vars
    BY <1>2, <2>1 DEF vars, tables, CapInv, EarnedOn, OnDay, SumXp, Points
  <2>2. ASSUME NEW w \in Workers, Step(w) PROVE CapInv'
    BY <1>2, <2>2, StepKeepsCap
  <2> QED
    BY <1>2, <2>1, <2>2 DEF Next
<1>3. TypeInv /\ CapInv => DailyCapRespected
  BY DEF TypeInv, TablesOK, IsLedger, LedgerRow, CapInv, DailyCapRespected
<1> QED
  BY <1>1, <1>2, <1>3, SpecSnapInv, PTL DEF Spec

-----------------------------------------------------------------------------
(* What a day pays for its events.  A row that earns nothing is one that    *)
(* the cap left with nothing; so until the cap is reached every row of the  *)
(* day has moved the total, and a handler whose commit is accepted has      *)
(* counted them all.                                                        *)

\* Whether the rows of a day have earned the cap of kind k.
Full(k, rows) == Rule[k].cap # NoLimit /\ SumXp(rows) >= Rule[k].cap

Paid(k, rows) ==
  /\ SumXp(rows) <= DayWorth(Rule[k], Cardinality(rows))
  /\ SumXp(rows) < DayWorth(Rule[k], Cardinality(rows)) => Full(k, rows)
  /\ \A e \in rows : e.xp = 0 => Full(k, rows)

PaidInv ==
  \A u \in Users, k \in Kinds, d \in Nat :
    ~Rule[k].lifetime => Paid(k, OnDay(ledger, u, EventKind(k), d))

\* What the rule gives the event that comes after n others.
NextWorth(rule, n) ==
  IF rule.after # NoLimit /\ rule.reduced # NoLimit /\ n >= rule.after
    THEN rule.reduced ELSE rule.xp

LEMMA WorthOfOneMore ==
  ASSUME NEW rule \in EventRule, NEW n \in Nat
  PROVE  /\ DayWorth(rule, n) \in Nat /\ NextWorth(rule, n) \in Nat \ {0}
         /\ DayWorth(rule, n + 1) = DayWorth(rule, n) + NextWorth(rule, n)
<1> DEFINE x == rule.xp
           a == rule.after
           r == rule.reduced
<1>1. /\ x \in Nat \ {0} /\ (a # NoLimit => a \in Nat) /\ (r # NoLimit => r \in Nat \ {0})
  BY DEF EventRule
<1> HIDE DEF x, a, r
<1>2. x * n \in Nat /\ x * (n + 1) = x * n + x
  BY <1>1
<1>3. CASE a = NoLimit \/ r = NoLimit
  BY <1>1, <1>2, <1>3 DEF DayWorth, NextWorth, x, a, r
<1>4. CASE a # NoLimit /\ r # NoLimit /\ n < a
  <2>1. n <= a /\ n + 1 <= a /\ ~(n >= a)
    BY <1>1, <1>4
  <2> QED
    BY <1>1, <1>2, <1>4, <2>1 DEF DayWorth, NextWorth, x, a, r
<1>5. CASE a # NoLimit /\ r # NoLimit /\ n = a
  <2>1. n <= a /\ ~(n + 1 <= a) /\ n >= a /\ (n + 1) - a = 1 /\ r * 1 = r
    BY <1>1, <1>5
  <2>2. DayWorth(rule, n) = x * a /\ NextWorth(rule, n) = r
    BY <1>5, <2>1 DEF DayWorth, NextWorth, x, a, r
  <2>3. DayWorth(rule, n + 1) = x * a + r * ((n + 1) - a)
    BY <1>5, <2>1 DEF DayWorth, x, a, r
  <2> QED
    BY <1>1, <1>2, <1>5, <2>1, <2>2, <2>3
<1>6. CASE a # NoLimit /\ r # NoLimit /\ n > a
  <2>1. /\ ~(n <= a) /\ ~(n + 1 <= a) /\ n >= a
        /\ n - a \in Nat /\ (n + 1) - a = (n - a) + 1
    BY <1>1, <1>6
  <2>2. /\ DayWorth(rule, n) = x * a + r * (n - a) /\ NextWorth(rule, n) = r
        /\ DayWorth(rule, n + 1) = x * a + r * ((n + 1) - a)
    BY <1>6, <2>1 DEF DayWorth, NextWorth, x, a, r
  <2>3. \A m \in Nat : r * m \in Nat /\ r * (m + 1) = r * m + r
    BY <1>1, <1>6
  <2>4. x * a \in Nat
    BY <1>1, <1>6
  <2>5. r * (n - a) \in Nat /\ r * ((n + 1) - a) = r * (n - a) + r
    BY <2>1, <2>3
  <2> QED
    BY <1>1, <1>6, <2>2, <2>4, <2>5
<1> QED
  BY <1>1, <1>3, <1>4, <1>5, <1>6

\* A row that earns nothing found its day full.
LEMMA NothingOnlyWhenFull ==
  ASSUME TypeInv, SnapInv, NEW w \in Workers, NEW e, Ingested(w, e), e.xp = 0,
         ~Rule[txn[w].req.kind].lifetime
  PROVE  Full(txn[w].req.kind, OnDay(ledger, e.user, e.kind, e.day))
<1> DEFINE r == txn[w].req
           L == txn[w].snap.ledger
           k == r.kind
           old == OnDay(L, e.user, e.kind, e.day)
           now == OnDay(ledger, e.user, e.kind, e.day)
<1>1. /\ e.user = r.user /\ e.kind = EventKind(k) /\ e.day = r.day
      /\ e.xp = ResolveXpDelta(L, r) /\ k \in Kinds /\ IsLedger(L)
  BY RequestType DEF Ingested, IngestNew, Running, IngestRow
<1>2. /\ Rule[k].cap # NoLimit => Rule[k].cap \in Nat
      /\ BaseXp(L, r) \in Nat \ {0}
  BY <1>1, RuleAssumption DEF BaseXp, EventRule, NoLimit
<1>3. L \subseteq ledger /\ IsLedger(ledger)
  BY DEF SnapInv, Since, Ingested, IngestNew, Running, TypeInv, TablesOK
<1>4. SumXp(old) \in Nat /\ SumXp(now) \in Nat /\ SumXp(old) <= SumXp(now)
  <2>1. old \subseteq now /\ now \in SUBSET ledger
    BY <1>3 DEF OnDay
  <2>2. IsFiniteSet(now) /\ IsFiniteSet(old) /\ \A f \in now : f.xp \in Nat
    BY <1>3, <2>1, FS_Subset DEF IsLedger, LedgerRow
  <2>3. Points(old) \subseteq Points(now)
    BY <2>1 DEF Points
  <2>4. IsFiniteSet(Points(now)) /\ SumXp(now) \in Nat /\ SumXp(old) \in Nat
    BY <2>1, <2>2, PointsFinite
  <2> QED
    BY <2>3, <2>4, FS_Subset DEF SumXp
<1>5. EarnedOn(L, r.user, EventKind(k), r.day) = SumXp(old)
  BY <1>1 DEF EarnedOn
<1> HIDE DEF old, now
<1>6. Rule[k].cap # NoLimit /\ SumXp(old) >= Rule[k].cap
  BY <1>1, <1>2, <1>4, <1>5 DEF ResolveXpDelta
<1> QED
  BY <1>2, <1>4, <1>6 DEF Full, now

\* A row that earns something found room, and counted every row of its day.
LEMMA CountCurrent ==
  ASSUME FirstUpdaterWins, TypeInv, SnapInv, NEW w \in Workers, NEW e, Ingested(w, e), e.xp > 0,
         Paid(txn[w].req.kind, OnDay(ledger, e.user, e.kind, e.day))
  PROVE  LET k   == txn[w].req.kind
             now == OnDay(ledger, e.user, e.kind, e.day)
         IN  /\ ~Full(k, now)
             /\ OnDay(txn[w].snap.ledger, e.user, e.kind, e.day) = now
<1> DEFINE r == txn[w].req
           L == txn[w].snap.ledger
           k == r.kind
           now == OnDay(ledger, e.user, e.kind, e.day)
<1>1. /\ e.user = r.user /\ e.kind = EventKind(k) /\ e.day = r.day
      /\ e.xp = ResolveXpDelta(L, r) /\ k \in Kinds /\ IsLedger(L)
  BY RequestType DEF Ingested, IngestNew, Running, IngestRow
<1>2. L \subseteq ledger /\ \A f \in ledger : f.xp \in Nat
  BY LedgerTypes DEF SnapInv, Since, Ingested, IngestNew, Running
<1>3. EarnedOn(L, e.user, e.kind, e.day) = SumXp(now)
  BY QueriesCurrent DEF EarnedOn
<1>4. SumXp(now) \in Nat
  BY <1>1, <1>3, QueriesType
<1>5. ~Full(k, now)
  <2> SUFFICES ASSUME Full(k, now) PROVE FALSE
    OBVIOUS
  <2>1. Rule[k].cap # NoLimit /\ Rule[k].cap \in Nat /\ SumXp(now) >= Rule[k].cap
    BY <1>1, RuleAssumption DEF Full, EventRule
  <2>2. Rule[k].cap - SumXp(now) <= 0
    BY <1>4, <2>1
  <2> HIDE DEF now
  <2>3. ResolveXpDelta(L, r) = 0
    BY <1>1, <1>3, <2>1, <2>2 DEF ResolveXpDelta
  <2> QED
    BY <1>1, <2>3
<1>6. \A f \in now : f.xp > 0
  BY <1>2, <1>5 DEF Paid, OnDay
<1>7. now = OnDay(L, e.user, e.kind, e.day)
  <2>1. \A f \in ledger : f.user = e.user /\ f.kind = e.kind /\ f.xp > 0 => f \in L
    BY ScoresSeen
  <2> QED
    BY <1>2, <1>6, <2>1 DEF OnDay
<1> QED
  BY <1>5, <1>7

LEMMA StepKeepsPaid ==
  ASSUME FirstUpdaterWins, TypeInv, TypeInv', SnapInv, PaidInv, NEW w \in Workers, Step(w)
  PROVE  PaidInv'
<1> SUFFICES ASSUME NEW u \in Users, NEW k \in Kinds, NEW d \in Nat, ~Rule[k].lifetime
             PROVE  Paid(k, OnDay(ledger', u, EventKind(k), d))
  BY DEF PaidInv, Paid, Full, SumXp, Points, OnDay
<1> DEFINE old == OnDay(ledger, u, EventKind(k), d)
           now == OnDay(ledger', u, EventKind(k), d)
           n == Cardinality(old)
<1>1. ledger \subseteq ledger' /\ Paid(k, old)
  BY StepRows DEF PaidInv
<1>2. CASE now = old
  BY <1>1, <1>2
<1>3. CASE now # old
  <2>1. PICK e \in ledger' \ ledger : e.user = u /\ e.kind = EventKind(k) /\ e.day = d
    BY <1>1, <1>3 DEF OnDay
  <2>2. Ingested(w, e)
    BY <2>1, EventRowIngested
  <2> DEFINE r == txn[w].req
             L == txn[w].snap.ledger
  <2>3. /\ r.user = u /\ r.kind = k /\ r.day = d /\ e.xp = ResolveXpDelta(L, r)
    BY <2>1, <2>2, KindsDiffer DEF Ingested, IngestRow
  <2>4. now = old \union {e} /\ e \notin old
    BY <2>1, <2>2 DEF Ingested, OnDay
  <2>5. IsLedger(ledger) /\ e.xp \in Nat
    BY <2>1 DEF TypeInv, TablesOK, IsLedger, LedgerRow
  <2>6. IsFiniteSet(old) /\ \A f \in old : f.xp \in Nat
    <3>1. old \in SUBSET ledger
      BY DEF OnDay
    <3> QED
      BY <2>5, <3>1, FS_Subset DEF IsLedger, LedgerRow
  <2>7. SumXp(old) \in Nat /\ n \in Nat
    BY <2>6, PointsFinite, FS_CardinalityType
  <2>8. /\ SumXp(now) = SumXp(old) + e.xp
        /\ Cardinality(now) = n + 1
    BY <2>4, <2>5, <2>6, SumOfNewRow
  <2>9. /\ DayWorth(Rule[k], n) \in Nat /\ NextWorth(Rule[k], n) \in Nat \ {0}
        /\ DayWorth(Rule[k], n + 1) = DayWorth(Rule[k], n) + NextWorth(Rule[k], n)
    BY <2>7, RuleAssumption, WorthOfOneMore
  <2>10. Rule[k].cap # NoLimit => Rule[k].cap \in Nat
    BY RuleAssumption DEF EventRule
  <2>11. CASE e.xp = 0
    <3>1. Full(k, old)
      BY <2>1, <2>2, <2>3, <2>11, NothingOnlyWhenFull
    <3>2. SumXp(now) = SumXp(old)
      BY <2>7, <2>8, <2>11
    <3>3. Full(k, now)
      BY <3>1, <3>2 DEF Full
    <3>4. SumXp(now) <= DayWorth(Rule[k], n + 1)
      BY <1>1, <2>7, <2>9, <3>2 DEF Paid
    <3> QED
      BY <2>8, <3>3, <3>4 DEF Paid
  <2>12. CASE e.xp > 0
    <3>1. ~Full(k, old) /\ OnDay(L, u, EventKind(k), d) = old
      BY <1>1, <2>1, <2>2, <2>3, <2>12, CountCurrent
    <3>2. SumXp(old) = DayWorth(Rule[k], n)
      BY <1>1, <2>7, <2>9, <3>1 DEF Paid
    <3>3. /\ EarnedOn(L, r.user, EventKind(r.kind), r.day) = SumXp(old)
          /\ BaseXp(L, r) = NextWorth(Rule[k], n)
      BY <2>3, <3>1 DEF EarnedOn, BaseXp, OccurrencesOn, NextWorth
    <3> HIDE DEF old, now, n
    <3>4. \/ e.xp = NextWorth(Rule[k], n)
          \/ /\ Rule[k].cap # NoLimit
             /\ e.xp = Rule[k].cap - SumXp(old)
             /\ e.xp <= NextWorth(Rule[k], n)
      BY <2>3, <2>7, <2>9, <2>10, <2>12, <3>3 DEF ResolveXpDelta
    <3>5. \A f \in now : f.xp # 0
      BY <1>1, <2>4, <2>12, <3>1 DEF Paid
    <3>6. CASE e.xp = NextWorth(Rule[k], n)
      <4>1. SumXp(now) = DayWorth(Rule[k], Cardinality(now)) /\ SumXp(now) \in Nat
        BY <2>8, <2>9, <3>2, <3>6
      <4>2. \A f \in now : f.xp = 0 => Full(k, now)
        BY <3>5
      <4> QED
        BY <4>1, <4>2 DEF Paid, now
    <3>7. CASE /\ Rule[k].cap # NoLimit
               /\ e.xp = Rule[k].cap - SumXp(old)
               /\ e.xp <= NextWorth(Rule[k], n)
      <4>1. SumXp(now) = Rule[k].cap
        BY <2>7, <2>8, <2>10, <3>7
      <4>2. Full(k, now)
        BY <2>10, <3>7, <4>1 DEF Full
      <4>3. SumXp(now) <= DayWorth(Rule[k], Cardinality(now))
        BY <2>5, <2>7, <2>8, <2>9, <3>2, <3>7
      <4> QED
        BY <4>2, <4>3 DEF Paid, now
    <3> QED
      BY <3>4, <3>6, <3>7
  <2> QED
    BY <2>5, <2>11, <2>12
<1> QED
  BY <1>2, <1>3

\* Handlers that race never pay an event of a day in full that the rules reduce,
\* nor the other way round, and withhold nothing before the cap is reached.
THEOREM DaysPayTheirEvents ==
  ASSUME FirstUpdaterWins
  PROVE  Spec => []DayPaysItsEvents
<1>1. Init => PaidInv
  <2> SUFFICES ASSUME Init, NEW k \in Kinds PROVE Paid(k, {})
    BY DEF Init, PaidInv, OnDay
  <2>1. Rule[k] \in EventRule /\ Rule[k].xp * 0 = 0
    BY RuleAssumption DEF EventRule
  <2>2. DayWorth(Rule[k], 0) = 0
    <3>1. CASE Rule[k].after = NoLimit
      BY <2>1, <3>1 DEF DayWorth
    <3>2. CASE Rule[k].after # NoLimit
      <4>1. 0 <= Rule[k].after
        BY <2>1, <3>2 DEF EventRule
      <4> QED
        BY <2>1, <4>1 DEF DayWorth
    <3> QED
      BY <3>1, <3>2
  <2> QED
    BY <2>2, SumOfEmpty, FS_EmptySet DEF Paid
<1>2. ASSUME TypeInv, TypeInv', SnapInv, PaidInv, [Next]_vars PROVE PaidInv'
  <2>1. CASE UNCHANGED vars
    BY <1>2, <2>1 DEF vars, tables, PaidInv, Paid, Full, OnDay, SumXp, Points
  <2>2. ASSUME NEW w \in Workers, Step(w) PROVE PaidInv'
    BY <1>2, <2>2, StepKeepsPaid
  <2> QED
    BY <1>2, <2>1, <2>2 DEF Next
<1>3. TypeInv /\ PaidInv => DayPaysItsEvents
  <2> SUFFICES ASSUME TypeInv, PaidInv, NEW u \in Users, NEW k \in Kinds, ~Rule[k].lifetime,
                      NEW e \in ledger
               PROVE  LET rows == OnDay(ledger, u, EventKind(k), e.day)
                      IN  /\ SumXp(rows) <= DayWorth(Rule[k], Cardinality(rows))
                          /\ SumXp(rows) < DayWorth(Rule[k], Cardinality(rows)) =>
                               Rule[k].cap # NoLimit /\ SumXp(rows) >= Rule[k].cap
    BY DEF DayPaysItsEvents, EarnedOn, OccurrencesOn
  <2>1. e.day \in Nat
    BY DEF TypeInv, TablesOK, IsLedger, LedgerRow
  <2> QED
    BY <2>1 DEF PaidInv, Paid, Full
<1> QED
  BY <1>1, <1>2, <1>3, SpecSnapInv, PTL DEF Spec

-----------------------------------------------------------------------------
(* The streak.                                                             *)

\* A bump on a day with a login keeps the row backed.
LEMMA BumpedBacked ==
  ASSUME NEW row \in StreakRow \union {NoRow}, NEW days, NEW today \in Nat,
         row # NoRow => Backed(row, days)
  PROVE  Backed(Bumped(row, today), days \union {today})
<1> DEFINE D == days \union {today}
           c == CurrentAfter(row, today)
<1>1. CASE row = NoRow
  <2>1. Bumped(row, today) = [current |-> 1, longest |-> 1, last |-> today]
    BY <1>1 DEF Bumped, FirstLogin
  <2>2. RunOf(1, today, D)
    <3> SUFFICES ASSUME NEW i \in 0 .. 1 - 1 PROVE today - i \in D
      BY DEF RunOf
    <3>1. i = 0
      OBVIOUS
    <3> QED
      BY <3>1
  <2> QED
    BY <2>1, <2>2 DEF Backed
<1>2. CASE row # NoRow
  <2>1. row \in StreakRow /\ row.current \in Nat \ {0} /\ row.longest \in Nat \ {0} /\ row.last \in Nat
    BY <1>2 DEF StreakRow
  <2>2. c \in Nat \ {0}
    BY <2>1 DEF CurrentAfter
  <2>3. RunOf(c, today, D)
    <3> SUFFICES ASSUME NEW i \in 0 .. c - 1 PROVE today - i \in D
      BY DEF RunOf
    <3>1. CASE row.last = today
      BY <1>2, <2>1, <3>1 DEF CurrentAfter, Backed, RunOf
    <3>2. CASE row.last # today /\ row.last = today - 1
      <4>1. c = row.current + 1
        BY <3>2 DEF CurrentAfter
      <4>2. CASE i = 0
        BY <4>2
      <4>3. CASE i # 0
        <5>1. i - 1 \in 0 .. row.current - 1 /\ row.last - (i - 1) = today - i
          BY <2>1, <3>2, <4>1, <4>3
        <5> QED
          BY <1>2, <5>1 DEF Backed, RunOf
      <4> QED
        BY <4>2, <4>3
    <3>3. CASE row.last # today /\ row.last # today - 1
      BY <3>3 DEF CurrentAfter
    <3> QED
      BY <3>1, <3>2, <3>3
  <2>4. \E d \in days : RunOf(row.longest, d, D)
    BY <1>2 DEF Backed, RunOf
  <2>5. Bumped(row, today) = [current |-> c, longest |-> IF c > row.longest THEN c ELSE row.longest,
                              last |-> today]
    BY <1>2 DEF Bumped
  <2> HIDE DEF c, D
  <2>6. today \in D /\ days \subseteq D
    BY DEF D
  <2> QED
    BY <2>1, <2>2, <2>3, <2>4, <2>5, <2>6 DEF Backed, D
<1> QED
  BY <1>1, <1>2

LEMMA BumpStreakEffect ==
  ASSUME FirstUpdaterWins, TypeInv, NEW w \in Workers, txn[w] # Idle,
         txn[w].req.user \in Users, txn[w].req.day \in Nat, BumpStreak(txn[w].snap, txn[w].req)
  PROVE  LET u == txn[w].req.user
         IN  /\ \A v \in Users \ {u} : streak'[v] = streak[v]
             /\ \/ streak'[u] = streak[u]
                \/ Rule[txn[w].req.kind].login /\ streak'[u] = Bumped(streak[u], txn[w].req.day)
<1> DEFINE u == txn[w].req.user
           read == txn[w].snap.streak[u]
           now == streak[u]
           new == Bumped(read, txn[w].req.day)
<1>1. CASE ~Rule[txn[w].req.kind].login
  BY <1>1 DEF BumpStreak
<1>2. CASE Rule[txn[w].req.kind].login
  <2>1. /\ CanStore(now, read, new)
        /\ streak'[u] = Stored(now, read, new)
        /\ \A v \in Users \ {u} : streak'[v] = streak[v]
    BY <1>2 DEF BumpStreak, TypeInv, TablesOK
  <2>2. new \in StreakRow /\ (read # NoRow => now \in StreakRow)
    BY LoadedType, BumpedType
  <2>3. CASE read = NoRow
    BY <1>2, <2>1, <2>3 DEF CanStore, CanInsert, Stored
  <2>4. CASE read # NoRow /\ read = new
    <3>1. Stored(now, read, new) = now
      BY <2>2, <2>4 DEF Stored, Written, StreakRow
    <3> QED
      BY <2>1, <3>1
  <2>5. CASE read # NoRow /\ read # new
    <3>1. now = read
      BY <2>1, <2>5 DEF CanStore
    <3>2. Stored(now, read, new) = new
      BY <2>2, <2>5, <3>1 DEF Stored, Written, StreakRow
    <3> QED
      BY <1>2, <2>1, <3>1, <3>2
  <2> QED
    BY <2>3, <2>4, <2>5
<1> QED
  BY <1>1, <1>2

LEMMA BackedGrows ==
  ASSUME NEW row, NEW D, NEW E, D \subseteq E, Backed(row, D)
  PROVE  Backed(row, E)
  BY DEF Backed, RunOf

LEMMA StepKeepsStreak ==
  ASSUME FirstUpdaterWins, TypeInv, NEW w \in Workers, Step(w), NEW u \in Users,
         streak[u] # NoRow => Backed(streak[u], LoginDays(u)), streak'[u] # NoRow
  PROVE  Backed(streak'[u], LoginDays(u)')
<1>1. LoginDays(u) \subseteq LoginDays(u)'
  BY StepRows DEF LoginDays
<1>2. CASE streak'[u] = streak[u]
  BY <1>1, <1>2, BackedGrows
<1>3. CASE streak'[u] # streak[u]
  <2> DEFINE r == txn[w].req
             row == IngestRow(txn[w].snap, r)
  <2>1. IngestNew(w)
    BY <1>3 DEF Step, Begin, Rollback, IngestDuplicate, AwardUnknown, AwardAgain, AwardNew,
                GrantNothing, GrantOutfit, BootstrapLedger, SeedCatalog, tables
  <2>2. /\ BumpStreak(txn[w].snap, r) /\ txn[w] # Idle /\ row \in ledger'
        /\ r.user \in Users /\ r.day \in Nat /\ r.kind \in Kinds
    BY <2>1, IngestRowType, RequestType DEF IngestNew, Running, InsertLedger
  <2>3. u = r.user /\ Rule[r.kind].login /\ streak'[u] = Bumped(streak[u], r.day)
    BY <1>3, <2>2, BumpStreakEffect
  <2>4. r.day \in LoginDays(u)'
    <3>1. row.user = u /\ row.kind = EventKind(r.kind) /\ row.day = r.day
      BY <2>3 DEF IngestRow
    <3> HIDE DEF row
    <3> QED
      BY <2>2, <2>3, <3>1 DEF LoginDays
  <2>5. streak[u] \in StreakRow \union {NoRow}
    BY DEF TypeInv, TablesOK
  <2>6. Backed(streak'[u], LoginDays(u) \union {r.day})
    BY <2>2, <2>3, <2>5, BumpedBacked
  <2>7. LoginDays(u) \union {r.day} \subseteq LoginDays(u)'
    BY <1>1, <2>4
  <2> QED
    BY <2>6, <2>7, BackedGrows
<1> QED
  BY <1>2, <1>3

\* Streak counters count days that were logged in on, in whatever order the
\* events came and however their handlers overlapped.
THEOREM StreaksBacked ==
  ASSUME FirstUpdaterWins
  PROVE  Spec => []StreakBacked
<1>1. Init => StreakBacked
  BY DEF Init, StreakBacked
<1>2. ASSUME TypeInv, StreakBacked, [Next]_vars PROVE StreakBacked'
  <2>1. CASE UNCHANGED vars
    BY <1>2, <2>1 DEF vars, tables, StreakBacked, LoginDays
  <2>2. ASSUME NEW w \in Workers, Step(w) PROVE StreakBacked'
    BY <1>2, <2>2, StepKeepsStreak DEF StreakBacked
  <2> QED
    BY <1>2, <2>1, <2>2 DEF Next
<1> QED
  BY <1>1, <1>2, SpecTypeInv, PTL DEF Spec

=============================================================================
