--------------------------- MODULE XpLedgerProofs ---------------------------
(***************************************************************************)
(* What holds of XpLedger for any users, workers, requests, catalog and    *)
(* curve.                                                                  *)
(***************************************************************************)
EXTENDS XpLedger, FiniteSetTheorems, SequenceTheorems, TLAPS

-----------------------------------------------------------------------------
(* The curve.                                                              *)

LEMMA ReachedFinite ==
  ASSUME NEW xp \in Nat
  PROVE  /\ IsFiniteSet({l \in 1 .. MaxLevel : Threshold[l] <= xp})
         /\ LevelFor(xp) \in Nat /\ LevelFor(xp) <= MaxLevel
<1>1. IsFiniteSet(1 .. MaxLevel) /\ Cardinality(1 .. MaxLevel) = MaxLevel
  BY FS_Interval, CurveAssumption
<1>2. {l \in 1 .. MaxLevel : Threshold[l] <= xp} \in SUBSET (1 .. MaxLevel)
  OBVIOUS
<1> QED
  BY <1>1, <1>2, FS_Subset, FS_CardinalityType DEF LevelFor

\* A user has always reached level 1, and never more than the last level.
LEMMA LevelForType ==
  ASSUME NEW xp \in Nat
  PROVE  LevelFor(xp) \in 1 .. MaxLevel
<1> DEFINE S == {l \in 1 .. MaxLevel : Threshold[l] <= xp}
<1>1. 1 \in S
  BY CurveAssumption
<1>2. Cardinality(S) # 0
  BY <1>1, ReachedFinite, FS_EmptySet
<1>3. LevelFor(xp) # 0
  BY <1>2 DEF LevelFor
<1>4. LevelFor(xp) \in Nat /\ LevelFor(xp) <= MaxLevel
  BY ReachedFinite
<1> QED
  BY <1>3, <1>4, CurveAssumption

\* More XP never means a lower level.
LEMMA LevelForMonotone ==
  ASSUME NEW a \in Nat, NEW b \in Nat, a <= b
  PROVE  LevelFor(a) <= LevelFor(b)
<1> DEFINE A == {l \in 1 .. MaxLevel : Threshold[l] <= a}
           B == {l \in 1 .. MaxLevel : Threshold[l] <= b}
<1>1. A \in SUBSET B
  BY CurveAssumption
<1>2. IsFiniteSet(B)
  BY ReachedFinite
<1> QED
  BY <1>1, <1>2, FS_Subset DEF LevelFor

LEMMA LevelForZero == LevelFor(0) = 1
<1> DEFINE S == {l \in 1 .. MaxLevel : Threshold[l] <= 0}
<1>1. \A l \in 2 .. MaxLevel : Threshold[l] > 0
  BY CurveAssumption
<1>2. S = {1}
  BY <1>1, CurveAssumption
<1> QED
  BY <1>2, FS_Singleton DEF LevelFor

-----------------------------------------------------------------------------
(* Progression rows.                                                       *)

Agree(row) == row.level = LevelFor(row.total) /\ row.anchor = Threshold[row.level]

LEMMA BaselineAgrees == Baseline \in Progression /\ Agree(Baseline) /\ Baseline.total = 0
  BY LevelForZero, CurveAssumption DEF Baseline, Progression, Agree

LEMMA AppliedType ==
  ASSUME NEW p \in Progression, NEW xp \in Nat
  PROVE  Applied(p, xp) \in Progression /\ Applied(p, xp).total = p.total + xp
<1>1. p.total + xp \in Nat
  BY DEF Progression
<1>2. LevelFor(p.total + xp) \in 1 .. MaxLevel
  BY <1>1, LevelForType
<1> QED
  BY <1>1, <1>2, CurveAssumption DEF Applied, Progression

\* Writing the level only when it rises is enough.
LEMMA AppliedAgrees ==
  ASSUME NEW p \in Progression, NEW xp \in Nat, Agree(p)
  PROVE  Agree(Applied(p, xp))
<1>1. p.total \in Nat /\ p.total + xp \in Nat /\ p.total <= p.total + xp
  BY DEF Progression
<1>2. LevelFor(p.total) <= LevelFor(p.total + xp)
  BY <1>1, LevelForMonotone
<1>3. LevelFor(p.total) \in Nat /\ LevelFor(p.total + xp) \in Nat
  BY <1>1, ReachedFinite
<1> QED
  BY <1>2, <1>3 DEF Applied, Progression, Agree

LEMMA RestoredAgrees ==
  ASSUME NEW xp \in Nat
  PROVE  Restored(xp) \in Progression /\ Agree(Restored(xp)) /\ Restored(xp).total = xp
  BY LevelForType, CurveAssumption DEF Restored, Progression, Agree

-----------------------------------------------------------------------------
(* What an accepted UPDATE leaves behind.                                  *)

\* Whatever columns an UPDATE mixes, a row stays a row.
LEMMA StoredProgression ==
  ASSUME NEW now, NEW read, NEW new \in Progression,
         read # NoRow => now \in Progression
  PROVE  Stored(now, read, new) \in Progression
  BY DEF Stored, Written, Progression

LEMMA StoredStreak ==
  ASSUME NEW now, NEW read, NEW new \in StreakRow,
         read # NoRow => now \in StreakRow
  PROVE  Stored(now, read, new) \in StreakRow
  BY DEF Stored, Written, StreakRow

\* If the first updater wins, the row is the one computed, or untouched
\* because nothing was to be changed.
LEMMA StoredExactly ==
  ASSUME FirstUpdaterWins, NEW D, NEW V, NEW new \in [D -> V],
         NEW now, NEW read, read # NoRow => now \in [D -> V],
         CanStore(now, read, new)
  PROVE  \/ Stored(now, read, new) = new
         \/ read = new /\ Stored(now, read, new) = now
  BY DEF Stored, Written, CanStore

-----------------------------------------------------------------------------
(* Sums over the ledger.                                                   *)

LEMMA PointsFinite ==
  ASSUME NEW rows, IsFiniteSet(rows), \A e \in rows : e.xp \in Nat
  PROVE  IsFiniteSet(Points(rows)) /\ SumXp(rows) \in Nat
<1> DEFINE P(e) == {e} \X (1 .. e.xp)
           T == {P(e) : e \in rows}
           f == [e \in rows |-> P(e)]
<1>1. f \in Surjection(rows, T)
  BY DEF Surjection
<1>2. IsFiniteSet(T)
  <2> HIDE DEF T, f
  <2> QED
    BY <1>1, FS_Surjection
<1>3. ASSUME NEW e \in rows PROVE IsFiniteSet(P(e))
  <2>1. IsFiniteSet({e})
    BY FS_Singleton
  <2>2. e.xp \in Int
    OBVIOUS
  <2>3. IsFiniteSet(1 .. e.xp)
    BY <2>2, FS_Interval
  <2> QED
    BY <2>1, <2>3, FS_Product
<1>4. IsFiniteSet(UNION T)
  <2>1. \A S \in T : IsFiniteSet(S)
    BY <1>3
  <2> HIDE DEF T
  <2> QED
    BY <1>2, <2>1, FS_UNION
<1> QED
  BY <1>4, FS_CardinalityType DEF Points, SumXp

IsLedger(L) == L \subseteq LedgerRow /\ IsFiniteSet(L)

LEMMA QueriesType ==
  ASSUME NEW L, IsLedger(L), NEW u, NEW k, NEW d
  PROVE  EarnedOn(L, u, k, d) \in Nat /\ OccurrencesOn(L, u, k, d) \in Nat
<1>1. OnDay(L, u, k, d) \in SUBSET L
  BY DEF OnDay
<1>2. IsFiniteSet(OnDay(L, u, k, d))
  BY <1>1, FS_Subset DEF IsLedger
<1>3. \A e \in OnDay(L, u, k, d) : e.xp \in Nat
  BY <1>1 DEF IsLedger, LedgerRow
<1> QED
  BY <1>2, <1>3, PointsFinite, FS_CardinalityType DEF EarnedOn, OccurrencesOn

LEMMA XpDeltaType ==
  ASSUME NEW L, IsLedger(L), NEW r, r.kind \in Kinds
  PROVE  ResolveXpDelta(L, r) \in Nat
<1> DEFINE E == EarnedOn(L, r.user, EventKind(r.kind), r.day)
           O == OccurrencesOn(L, r.user, EventKind(r.kind), r.day)
<1>1. E \in Nat /\ O \in Nat
  BY QueriesType
<1>2. Rule[r.kind] \in EventRule
  BY RuleAssumption
<1>3. BaseXp(L, r) \in Nat
  BY <1>2 DEF BaseXp, EventRule, NoLimit
<1> HIDE DEF E, O
<1> QED
  BY <1>1, <1>2, <1>3 DEF ResolveXpDelta, EventRule, NoLimit, E

-----------------------------------------------------------------------------
(* Types.                                                                  *)

\* A row that a transaction has read is still there.
RowsStay(s) ==
  \A u \in Users : /\ s.progression[u] # NoRow => progression[u] # NoRow
                   /\ s.streak[u] # NoRow => streak[u] # NoRow

Open(w) == /\ txn[w].req \in Requests /\ Accepts(txn[w].req)
           /\ txn[w].snap \in Snapshot /\ IsLedger(txn[w].snap.ledger)
           /\ RowsStay(txn[w].snap)

TablesOK ==
  /\ IsLedger(ledger)
  /\ progression \in [Users -> Progression \union {NoRow}]
  /\ streak \in [Users -> StreakRow \union {NoRow}]
  /\ userOutfits \subseteq OwnedOutfit
  /\ userAchievements \subseteq Users \X Codes
  /\ catalogRows \subseteq Codes \union Outfits
  /\ outbox \in Seq(OutboxEvent)

TypeInv ==
  /\ TablesOK
  /\ txn \in [Workers -> [req : Requests, snap : Snapshot] \union {Idle}]
  /\ \A w \in Workers : txn[w] # Idle => Open(w)

\* No step deletes a row.
Grown ==
  \A u \in Users : /\ progression[u] # NoRow => progression'[u] # NoRow
                   /\ streak[u] # NoRow => streak'[u] # NoRow

LEMMA TablesSnapshot == TablesOK => Tables \in Snapshot
  BY DEF TablesOK, Tables, Snapshot, IsLedger

LEMMA TypeInvImpliesTypeOK == TypeInv => TypeOK
  BY TablesSnapshot DEF TypeInv, TypeOK, TablesOK

LEMMA CommitKeepsTypes ==
  ASSUME TypeInv, NEW w \in Workers, Commit(w), TablesOK', Grown
  PROVE  TypeInv'
<1>1. txn' \in [Workers -> [req : Requests, snap : Snapshot] \union {Idle}]
  BY DEF TypeInv, Commit
<1>2. ASSUME NEW v \in Workers, txn'[v] # Idle PROVE Open(v)'
  <2>1. txn'[v] = txn[v] /\ Open(v)
    BY <1>2 DEF TypeInv, Commit
  <2>2. RowsStay(txn[v].snap) /\ Accepts(txn[v].req) /\ IsLedger(txn[v].snap.ledger)
    BY <2>1 DEF Open
  <2>3. RowsStay(txn[v].snap)'
    BY <2>1, <2>2 DEF RowsStay, Grown
  <2>4. Accepts(txn[v].req)' /\ IsLedger(txn[v].snap.ledger)'
    BY <2>1, <2>2
  <2> QED
    BY <2>1, <2>3, <2>4 DEF Open
<1> QED
  BY <1>1, <1>2 DEF TypeInv

LEMMA LoadedType ==
  ASSUME TypeInv, NEW w \in Workers, txn[w] # Idle, NEW u \in Users
  PROVE  /\ txn[w].snap.progression[u] \in Progression \union {NoRow}
         /\ Loaded(txn[w].snap.progression[u]) \in Progression
         /\ txn[w].snap.progression[u] # NoRow => progression[u] \in Progression
         /\ txn[w].snap.streak[u] \in StreakRow \union {NoRow}
         /\ txn[w].snap.streak[u] # NoRow => streak[u] \in StreakRow
<1>1. Open(w) /\ TablesOK
  BY DEF TypeInv
<1>2. /\ txn[w].snap.progression \in [Users -> Progression \union {NoRow}]
      /\ txn[w].snap.streak \in [Users -> StreakRow \union {NoRow}]
  BY <1>1 DEF Open, Snapshot
<1>3. /\ txn[w].snap.progression[u] # NoRow => progression[u] # NoRow
      /\ txn[w].snap.streak[u] # NoRow => streak[u] # NoRow
  BY <1>1 DEF Open, RowsStay
<1>4. /\ progression[u] \in Progression \union {NoRow}
      /\ streak[u] \in StreakRow \union {NoRow}
  BY <1>1 DEF TablesOK
<1> QED
  BY <1>2, <1>3, <1>4, BaselineAgrees DEF Loaded

LEMMA GetOrCreateTypes ==
  ASSUME TypeInv, NEW w \in Workers, txn[w] # Idle, NEW u \in Users,
         GetOrCreate(txn[w].snap, u)
  PROVE  /\ progression' \in [Users -> Progression \union {NoRow}]
         /\ \A v \in Users : progression[v] # NoRow => progression'[v] # NoRow
  BY BaselineAgrees, NoRowAssumption DEF TypeInv, TablesOK, GetOrCreate

LEMMA BumpedType ==
  ASSUME NEW row \in StreakRow \union {NoRow}, NEW today \in Nat
  PROVE  Bumped(row, today) \in StreakRow
  BY DEF Bumped, FirstLogin, CurrentAfter, StreakRow

LEMMA BumpStreakTypes ==
  ASSUME TypeInv, NEW w \in Workers, txn[w] # Idle, txn[w].req.user \in Users,
         txn[w].req.day \in Nat, BumpStreak(txn[w].snap, txn[w].req)
  PROVE  /\ streak' \in [Users -> StreakRow \union {NoRow}]
         /\ \A v \in Users : streak[v] # NoRow => streak'[v] # NoRow
<1> DEFINE u == txn[w].req.user
           read == txn[w].snap.streak[u]
           new == Bumped(read, txn[w].req.day)
<1>1. new \in StreakRow
  BY LoadedType, BumpedType
<1>2. Stored(streak[u], read, new) \in StreakRow
  BY <1>1, LoadedType, StoredStreak
<1>3. streak' \in {streak, [streak EXCEPT ![u] = Stored(streak[u], read, new)]}
  BY DEF BumpStreak
<1>4. streak \in [Users -> StreakRow \union {NoRow}]
  BY DEF TypeInv, TablesOK
<1> HIDE DEF u, read, new
<1>5. u \in Users
  BY DEF u
<1> QED
  BY <1>2, <1>3, <1>4, <1>5, NoRowAssumption

LEMMA LevelUpEventsType ==
  ASSUME NEW u \in Users, NEW p \in Progression, NEW codes \in SUBSET Outfits
  PROVE  LevelUpEvents(u, p, codes) \in Seq(OutboxEvent)
<1> DEFINE up == [type |-> "level_up", user |-> u, level |-> p.level, total |-> p.total]
           unlocked == [type |-> "outfit_unlocked", user |-> u, codes |-> codes]
<1>1. up \in OutboxEvent /\ unlocked \in OutboxEvent
  BY DEF OutboxEvent, Progression
<1>2. LevelUpEvents(u, p, codes) = <<up>> \o (IF codes = {} THEN <<>> ELSE <<unlocked>>)
  BY DEF LevelUpEvents
<1> HIDE DEF up, unlocked
<1>3. <<up>> \in Seq(OutboxEvent) /\ (IF codes = {} THEN <<>> ELSE <<unlocked>>) \in Seq(OutboxEvent)
  BY <1>1
<1> QED
  BY <1>2, <1>3, ConcatProperties

LEMMA ApplyXpTypes ==
  ASSUME TypeInv, NEW w \in Workers, txn[w] # Idle, NEW u \in Users, NEW xp \in Nat,
         NEW more \in Seq(OutboxEvent), ApplyXp(txn[w].snap, u, xp, more)
  PROVE  /\ progression' \in [Users -> Progression \union {NoRow}]
         /\ \A v \in Users : progression[v] # NoRow => progression'[v] # NoRow
         /\ userOutfits' \subseteq OwnedOutfit
         /\ outbox' \in Seq(OutboxEvent)
<1> DEFINE s == txn[w].snap
           read == s.progression[u]
           new == Applied(Loaded(read), xp)
           rises == new.level > Loaded(read).level
           codes == IF rises THEN Unlocked(s, u, new.level) ELSE {}
           events == IF rises THEN LevelUpEvents(u, new, codes) ELSE <<>>
<1>1. new \in Progression
  BY LoadedType, AppliedType
<1>2. Stored(progression[u], read, new) \in Progression
  BY <1>1, LoadedType, StoredProgression
<1>3. codes \in SUBSET Outfits
  BY DEF Unlocked
<1>4. events \in Seq(OutboxEvent)
  BY <1>1, <1>3, LevelUpEventsType
<1>5. /\ progression' = [progression EXCEPT ![u] = Stored(progression[u], read, new)]
      /\ userOutfits' = userOutfits
           \union {[user |-> u, code |-> o, via |-> LevelUp] : o \in codes}
      /\ outbox' = outbox \o events \o more
  BY DEF ApplyXp
<1>6. /\ progression \in [Users -> Progression \union {NoRow}]
      /\ userOutfits \subseteq OwnedOutfit
      /\ outbox \in Seq(OutboxEvent)
  BY DEF TypeInv, TablesOK
<1> HIDE DEF s, read, new, rises, codes, events
<1>7. outbox' \in Seq(OutboxEvent)
  BY <1>4, <1>5, <1>6, ConcatProperties
<1>8. userOutfits' \subseteq OwnedOutfit
  BY <1>3, <1>5, <1>6 DEF OwnedOutfit
<1> QED
  BY <1>2, <1>5, <1>6, <1>7, <1>8, NoRowAssumption

\* What a handler may take for granted about its request.
LEMMA RequestType ==
  ASSUME TypeInv, NEW w \in Workers, txn[w] # Idle
  PROVE  /\ IsRequest(txn[w].req)
         /\ txn[w].req.op = "ingest" => txn[w].req.kind \in Kinds
         /\ IsLedger(txn[w].snap.ledger)
  BY RequestAssumption DEF TypeInv, Open, Accepts

\* Rows of the ledger.
LEMMA AddedRow ==
  ASSUME TablesOK, NEW row \in LedgerRow, InsertLedger(row)
  PROVE  IsLedger(ledger')
  BY FS_AddElement DEF TablesOK, IsLedger, InsertLedger

LEMMA BeginTypes ==
  ASSUME TypeInv, NEW w \in Workers, Begin(w)
  PROVE  TypeInv'
<1> PICK r \in Requests :
      Accepts(r) /\ txn' = [txn EXCEPT ![w] = [req |-> r, snap |-> Tables]]
  BY DEF Begin
<1>1. UNCHANGED <<tables, outbox>>
  BY DEF Begin
<1>2. TablesOK' /\ TablesOK
  BY <1>1 DEF TypeInv, TablesOK, tables, IsLedger
<1>3. Tables \in Snapshot
  BY <1>2, TablesSnapshot
<1>4. txn' \in [Workers -> [req : Requests, snap : Snapshot] \union {Idle}]
  BY <1>3 DEF TypeInv
<1>5. ASSUME NEW v \in Workers, txn'[v] # Idle PROVE Open(v)'
  <2>1. CASE v # w
    <3>1. txn'[v] = txn[v] /\ Open(v)
      BY <1>5, <2>1 DEF TypeInv
    <3> QED
      BY <3>1, <1>1 DEF Open, RowsStay, Accepts, IsLedger, tables
  <2>2. CASE v = w
    <3>1. txn'[v] = [req |-> r, snap |-> Tables]
      BY <2>2 DEF TypeInv
    <3>2. IsLedger(txn'[v].snap.ledger)
      BY <1>2, <3>1 DEF TablesOK, Tables
    <3>3. RowsStay(txn[v].snap)'
      BY <1>1, <3>1 DEF RowsStay, Tables, tables
    <3>4. Accepts(txn[v].req)'
      BY <3>1 DEF Accepts
    <3> QED
      BY <1>3, <3>1, <3>2, <3>3, <3>4 DEF Open
  <2> QED
    BY <2>1, <2>2
<1> QED
  BY <1>2, <1>4, <1>5 DEF TypeInv

\* Steps that leave the tables alone.
LEMMA QuietTypes ==
  ASSUME TypeInv, NEW w \in Workers, Commit(w), UNCHANGED <<tables, outbox>>
  PROVE  TypeInv'
<1>1. TablesOK' /\ Grown
  BY DEF TypeInv, TablesOK, tables, IsLedger, Grown
<1> QED
  BY <1>1, CommitKeepsTypes

LEMMA DuplicateTypes ==
  ASSUME TypeInv, NEW w \in Workers, IngestDuplicate(w) \/ AwardAgain(w)
  PROVE  TypeInv'
<1>1. txn[w] # Idle /\ txn[w].req.user \in Users
  BY RequestType DEF IngestDuplicate, AwardAgain, Running, IsRequest
<1>2. GetOrCreate(txn[w].snap, txn[w].req.user) /\ Commit(w)
  BY DEF IngestDuplicate, AwardAgain
<1>3. UNCHANGED <<ledger, streak, userOutfits, userAchievements, catalogRows, outbox>>
  BY DEF IngestDuplicate, AwardAgain
<1>4. /\ progression' \in [Users -> Progression \union {NoRow}]
      /\ \A v \in Users : progression[v] # NoRow => progression'[v] # NoRow
  BY <1>1, <1>2, GetOrCreateTypes
<1>5. TablesOK' /\ Grown
  BY <1>3, <1>4 DEF TypeInv, TablesOK, IsLedger, Grown
<1> QED
  BY <1>2, <1>5, CommitKeepsTypes

LEMMA IngestRowType ==
  ASSUME TypeInv, NEW w \in Workers, Running(w, "ingest")
  PROVE  /\ IngestRow(txn[w].snap, txn[w].req) \in LedgerRow
         /\ txn[w].req.user \in Users /\ txn[w].req.day \in Nat
<1> DEFINE r == txn[w].req
<1>1. /\ r.user \in Users /\ r.kind \in STRING /\ r.app \in STRING
      /\ r.key \in STRING /\ r.day \in Nat /\ r.kind \in Kinds
      /\ IsLedger(txn[w].snap.ledger)
  BY RequestType DEF Running, IsRequest
<1>2. ResolveXpDelta(txn[w].snap.ledger, r) \in Nat
  BY <1>1, XpDeltaType
<1> QED
  BY <1>1, <1>2 DEF IngestRow, LedgerRow, EventKind, ClientKey

LEMMA IngestTypes ==
  ASSUME TypeInv, NEW w \in Workers, IngestNew(w)
  PROVE  TypeInv'
<1> DEFINE r == txn[w].req
           s == txn[w].snap
           row == IngestRow(s, r)
<1>1. /\ InsertLedger(row) /\ BumpStreak(s, r) /\ ApplyXp(s, r.user, row.xp, <<>>)
      /\ Commit(w) /\ UNCHANGED <<userAchievements, catalogRows>>
      /\ Running(w, "ingest")
  BY DEF IngestNew
<1>2. row \in LedgerRow /\ r.user \in Users /\ r.day \in Nat /\ txn[w] # Idle
  BY <1>1, IngestRowType DEF Running
<1>3. IsLedger(ledger')
  BY <1>1, <1>2, AddedRow DEF TypeInv
<1>4. /\ streak' \in [Users -> StreakRow \union {NoRow}]
      /\ \A v \in Users : streak[v] # NoRow => streak'[v] # NoRow
  BY <1>1, <1>2, BumpStreakTypes
<1>5. row.xp \in Nat /\ <<>> \in Seq(OutboxEvent)
  BY <1>2 DEF LedgerRow
<1>6. /\ progression' \in [Users -> Progression \union {NoRow}]
      /\ \A v \in Users : progression[v] # NoRow => progression'[v] # NoRow
      /\ userOutfits' \subseteq OwnedOutfit
      /\ outbox' \in Seq(OutboxEvent)
  BY <1>1, <1>2, <1>5, ApplyXpTypes
<1>7. TablesOK' /\ Grown
  BY <1>1, <1>3, <1>4, <1>6 DEF TypeInv, TablesOK, Grown
<1> QED
  BY <1>1, <1>7, CommitKeepsTypes

LEMMA AwardTypes ==
  ASSUME TypeInv, NEW w \in Workers, AwardNew(w)
  PROVE  TypeInv'
<1> DEFINE r == txn[w].req
           s == txn[w].snap
<1>1. /\ ApplyXp(s, r.user, XpReward[r.code], <<AwardedEvent(r)>>)
      /\ IF XpReward[r.code] > 0 THEN InsertLedger(AwardRow(r)) ELSE ledger' = ledger
      /\ userAchievements' = userAchievements \union {<<r.user, r.code>>}
      /\ r.code \in Codes
      /\ Commit(w) /\ UNCHANGED <<streak, catalogRows>>
      /\ Running(w, "award")
  BY DEF AwardNew
<1>2. /\ r.user \in Users /\ r.code \in STRING /\ r.app \in STRING
      /\ r.key \in STRING /\ r.day \in Nat /\ txn[w] # Idle
  BY <1>1, RequestType DEF Running, IsRequest
<1>3. XpReward[r.code] \in Nat
  BY <1>1, RewardAssumption
<1>4. AwardRow(r) \in LedgerRow
  BY <1>2, <1>3 DEF AwardRow, LedgerRow, AchievementKind, ClientKey
<1>5. IsLedger(ledger')
  BY <1>1, <1>4, AddedRow DEF TypeInv, TablesOK
<1>6. <<AwardedEvent(r)>> \in Seq(OutboxEvent)
  <2>1. AwardedEvent(r) \in OutboxEvent
    BY <1>1, <1>2 DEF AwardedEvent, OutboxEvent
  <2> QED
    BY <2>1
<1>7. /\ progression' \in [Users -> Progression \union {NoRow}]
      /\ \A v \in Users : progression[v] # NoRow => progression'[v] # NoRow
      /\ userOutfits' \subseteq OwnedOutfit
      /\ outbox' \in Seq(OutboxEvent)
  BY <1>1, <1>2, <1>3, <1>6, ApplyXpTypes
<1>8. userAchievements' \subseteq Users \X Codes
  BY <1>1, <1>2 DEF TypeInv, TablesOK
<1>9. TablesOK' /\ Grown
  BY <1>1, <1>5, <1>7, <1>8 DEF TypeInv, TablesOK, Grown
<1> QED
  BY <1>1, <1>9, CommitKeepsTypes

LEMMA GrantTypes ==
  ASSUME TypeInv, NEW w \in Workers, GrantOutfit(w)
  PROVE  TypeInv'
<1>1. txn[w].req.user \in Users /\ txn[w].req.outfit \in Outfits
  BY RequestType DEF GrantOutfit, Running, IsRequest
<1>2. userOutfits' \subseteq OwnedOutfit
  BY <1>1 DEF GrantOutfit, TypeInv, TablesOK, OwnedOutfit
<1>3. TablesOK' /\ Grown /\ Commit(w)
  BY <1>2 DEF GrantOutfit, TypeInv, TablesOK, IsLedger, Grown
<1> QED
  BY <1>3, CommitKeepsTypes

LEMMA SeedTypes ==
  ASSUME TypeInv, NEW w \in Workers, SeedCatalog(w)
  PROVE  TypeInv'
<1>1. txn[w].req.codes \in SUBSET (Codes \union Outfits)
  BY RequestType DEF SeedCatalog, Running, IsRequest
<1>2. TablesOK' /\ Grown /\ Commit(w)
  BY <1>1 DEF SeedCatalog, TypeInv, TablesOK, IsLedger, Grown
<1> QED
  BY <1>2, CommitKeepsTypes

LEMMA BootstrapTypes ==
  ASSUME TypeInv, NEW w \in Workers, BootstrapLedger(w)
  PROVE  TypeInv'
<1> DEFINE r == txn[w].req
           s == txn[w].snap
           batch == DOMAIN r.xp
           fresh == {u \in batch : ~KeyUsed(s.ledger, r.app, BootstrapKey(u))}
           New(u) == Bootstrapped(s, r, u, fresh)
           rows == {BootstrapRow(r, u) : u \in fresh}
<1>1. /\ ledger' = ledger \union rows
      /\ progression' = [u \in Users |->
           IF u \in batch THEN Stored(progression[u], s.progression[u], New(u))
                          ELSE progression[u]]
      /\ Commit(w) /\ txn[w] # Idle
      /\ UNCHANGED <<streak, userOutfits, userAchievements, catalogRows, outbox>>
  BY DEF BootstrapLedger, Running
<1>2. /\ r.app \in STRING /\ batch \subseteq Users /\ IsFiniteSet(batch)
      /\ \A u \in batch : r.xp[u] \in Nat
  BY RequestType DEF BootstrapLedger, Running, IsRequest
<1>3. rows \subseteq LedgerRow
  <2>1. ASSUME NEW u \in batch PROVE BootstrapRow(r, u) \in LedgerRow
    <3>1. u \in Users /\ r.xp[u] \in Nat /\ r.app \in STRING
      BY <1>2
    <3>2. BootstrapKey(u) \in {"migration"} \X Users
      BY <3>1 DEF BootstrapKey
    <3> QED
      BY <3>1, <3>2 DEF BootstrapRow, LedgerRow
  <2> QED
    BY <2>1
<1>4. IsFiniteSet(rows)
  <2> DEFINE f == [u \in fresh |-> BootstrapRow(r, u)]
  <2>1. fresh \in SUBSET batch
    OBVIOUS
  <2>2. IsFiniteSet(fresh)
    <3> HIDE DEF batch, fresh
    <3> QED
      BY <1>2, <2>1, FS_Subset
  <2>3. f \in Surjection(fresh, rows)
    BY DEF Surjection
  <2> HIDE DEF f, rows, fresh
  <2> QED
    BY <2>2, <2>3, FS_Surjection
<1>5. IsLedger(ledger')
  <2>1. ledger \subseteq LedgerRow /\ IsFiniteSet(ledger)
    BY DEF TypeInv, TablesOK, IsLedger
  <2> HIDE DEF rows
  <2> QED
    BY <1>1, <1>3, <1>4, <2>1, FS_Union DEF IsLedger
<1>6. ASSUME NEW u \in batch
      PROVE  Stored(progression[u], s.progression[u], New(u)) \in Progression
  <2>1. New(u) \in Progression
    BY <1>1, <1>2, LoadedType, RestoredAgrees DEF Bootstrapped
  <2> QED
    BY <1>1, <1>2, <2>1, LoadedType, StoredProgression
<1>7. /\ progression' \in [Users -> Progression \union {NoRow}]
      /\ \A u \in Users : progression[u] # NoRow => progression'[u] # NoRow
  <2>1. progression \in [Users -> Progression \union {NoRow}]
    BY DEF TypeInv, TablesOK
  <2> HIDE DEF New, batch
  <2> QED
    BY <1>1, <1>6, <2>1, NoRowAssumption
<1>8. TablesOK' /\ Grown
  BY <1>1, <1>5, <1>7 DEF TypeInv, TablesOK, Grown
<1> QED
  BY <1>1, <1>8, CommitKeepsTypes

LEMMA InitTypes == Init => TypeInv
<1> SUFFICES ASSUME Init PROVE TypeInv
  OBVIOUS
<1>1. TablesOK
  BY SeededAssumption, FS_EmptySet DEF Init, TablesOK, IsLedger
<1>2. \A w \in Workers : txn[w] = Idle
  BY DEF Init
<1> QED
  BY <1>1, <1>2 DEF Init, TypeInv

LEMMA NextTypes == TypeInv /\ [Next]_vars => TypeInv'
<1> SUFFICES ASSUME TypeInv, [Next]_vars PROVE TypeInv'
  OBVIOUS
<1>1. ASSUME NEW w \in Workers, Step(w) PROVE TypeInv'
  <2>1. CASE Begin(w)
    BY <2>1, BeginTypes
  <2>2. CASE Rollback(w)
    BY <2>2, QuietTypes DEF Rollback, Commit
  <2>3. CASE IngestDuplicate(w) \/ AwardAgain(w)
    BY <2>3, DuplicateTypes
  <2>4. CASE IngestNew(w)
    BY <2>4, IngestTypes
  <2>5. CASE AwardUnknown(w)
    BY <2>5, QuietTypes DEF AwardUnknown
  <2>6. CASE AwardNew(w)
    BY <2>6, AwardTypes
  <2>7. CASE GrantNothing(w)
    BY <2>7, QuietTypes DEF GrantNothing
  <2>8. CASE GrantOutfit(w)
    BY <2>8, GrantTypes
  <2>9. CASE BootstrapLedger(w)
    BY <2>9, BootstrapTypes
  <2>10. CASE SeedCatalog(w)
    BY <2>10, SeedTypes
  <2> QED
    BY <1>1, <2>1, <2>2, <2>3, <2>4, <2>5, <2>6, <2>7, <2>8, <2>9, <2>10 DEF Step
<1>2. CASE UNCHANGED vars
  BY <1>2 DEF vars, tables, TypeInv, TablesOK, IsLedger, Open, RowsStay, Accepts
<1> QED
  BY <1>1, <1>2 DEF Next

THEOREM SpecTypeInv == Spec => []TypeInv
  BY InitTypes, NextTypes, PTL DEF Spec

\* The columns keep their types and the tables their keys: a transaction that
\* stores a row computed from an old one never makes a row of another shape, on
\* either kind of database, and every XP delta is a natural number.
THEOREM Typing == Spec => []TypeOK
  BY SpecTypeInv, TypeInvImpliesTypeOK, PTL

-----------------------------------------------------------------------------
(* If the first updater wins, a commit works on the row as it is, although *)
(* the transaction computed from the row as it was.                        *)

LEMMA StoreEffect ==
  ASSUME FirstUpdaterWins, TypeInv, NEW w \in Workers, txn[w] # Idle, NEW u \in Users,
         NEW new \in Progression, CanStore(progression[u], txn[w].snap.progression[u], new)
  PROVE  LET read == txn[w].snap.progression[u]
             now == progression[u]
         IN  \/ now = read /\ Stored(now, read, new) = new
             \/ read = new /\ now \in Progression /\ Stored(now, read, new) = now
<1> DEFINE read == txn[w].snap.progression[u]
           now == progression[u]
<1>1. read # NoRow => now \in Progression
  BY LoadedType
<1>2. CASE read = NoRow
  BY <1>2 DEF CanStore, CanInsert, Stored
<1>3. CASE read # NoRow /\ read = new
  BY <1>1, <1>3 DEF Stored, Written, Progression
<1>4. CASE read # NoRow /\ read # new
  <2>1. now = read
    BY <1>4 DEF CanStore
  <2> QED
    BY <1>1, <1>4, <2>1 DEF Stored, Written, Progression
<1> QED
  BY <1>2, <1>3, <1>4

LEMMA AppliedZero ==
  ASSUME NEW p PROVE Applied(p, 0) = p
  BY DEF Applied

LEMMA AppliedChanges ==
  ASSUME NEW p \in Progression, NEW xp \in Nat, xp > 0
  PROVE  Applied(p, xp) # p
<1>1. Applied(p, xp).total = p.total + xp /\ p.total \in Nat
  BY AppliedType DEF Progression
<1> QED
  BY <1>1

LEMMA ApplyXpEffect ==
  ASSUME FirstUpdaterWins, TypeInv, NEW w \in Workers, txn[w] # Idle, NEW u \in Users,
         NEW xp \in Nat, NEW more, ApplyXp(txn[w].snap, u, xp, more)
  PROVE  /\ progression'[u] = Applied(Loaded(progression[u]), xp)
         /\ \A v \in Users \ {u} : progression'[v] = progression[v]
         /\ xp > 0 => progression[u] = txn[w].snap.progression[u]
<1> DEFINE read == txn[w].snap.progression[u]
           now == progression[u]
           new == Applied(Loaded(read), xp)
<1>1. /\ CanStore(now, read, new)
      /\ progression'[u] = Stored(now, read, new)
      /\ \A v \in Users \ {u} : progression'[v] = progression[v]
  BY DEF ApplyXp, TypeInv, TablesOK
<1>2. Loaded(read) \in Progression /\ new \in Progression
  BY LoadedType, AppliedType
<1>3. \/ now = read /\ Stored(now, read, new) = new
      \/ read = new /\ now \in Progression /\ Stored(now, read, new) = now
  BY <1>1, <1>2, StoreEffect
<1>4. CASE now = read /\ Stored(now, read, new) = new
  BY <1>1, <1>4
<1>5. CASE read = new /\ now \in Progression /\ Stored(now, read, new) = now
  <2>1. Loaded(read) = read /\ Loaded(now) = now
    BY <1>2, <1>5, NoRowAssumption DEF Loaded
  <2>2. xp = 0
    BY <1>2, <1>5, <2>1, AppliedChanges
  <2>3. Applied(Loaded(now), xp) = now
    BY <2>1, <2>2, AppliedZero
  <2> QED
    BY <1>1, <1>5, <2>2, <2>3
<1> QED
  BY <1>3, <1>4, <1>5

LEMMA GetOrCreateEffect ==
  ASSUME TypeInv, NEW w \in Workers, txn[w] # Idle, NEW u \in Users,
         GetOrCreate(txn[w].snap, u)
  PROVE  progression' = [progression EXCEPT ![u] = Loaded(progression[u])]
<1>1. txn[w].snap.progression[u] # NoRow => progression[u] # NoRow
  BY LoadedType, NoRowAssumption
<1>2. progression \in [Users -> Progression \union {NoRow}]
  BY DEF TypeInv, TablesOK
<1> QED
  BY <1>1, <1>2 DEF GetOrCreate, CanInsert, Loaded

\* A bootstrap restores the row of a user who had no XP, or leaves it alone.
LEMMA BootstrapEffect ==
  ASSUME FirstUpdaterWins, TypeInv, NEW w \in Workers, BootstrapLedger(w), NEW u \in Users
  PROVE  LET r == txn[w].req
             s == txn[w].snap
             fresh == u \in DOMAIN r.xp /\ ~KeyUsed(s.ledger, r.app, BootstrapKey(u))
         IN  \/ /\ progression'[u] \in {progression[u], Loaded(progression[u])}
                /\ fresh => r.xp[u] = 0 \/ TotalOf(s.progression[u]) # 0
             \/ /\ fresh /\ r.xp[u] \in Nat /\ r.xp[u] > 0
                /\ TotalOf(progression[u]) = 0
                /\ progression[u] = s.progression[u]
                /\ progression'[u] = Restored(r.xp[u])
<1> DEFINE r == txn[w].req
           s == txn[w].snap
           batch == DOMAIN r.xp
           fresh == {v \in batch : ~KeyUsed(s.ledger, r.app, BootstrapKey(v))}
           read == s.progression[u]
           now == progression[u]
           new == Bootstrapped(s, r, u, fresh)
<1>1. /\ txn[w] # Idle
      /\ u \in batch => /\ CanStore(now, read, new)
                        /\ progression'[u] = Stored(now, read, new)
      /\ u \notin batch => progression'[u] = now
  BY DEF BootstrapLedger, Running
<1>2. \A v \in batch : r.xp[v] \in Nat
  BY RequestType DEF BootstrapLedger, Running, IsRequest
<1>3. CASE u \notin batch
  BY <1>1, <1>3
<1>4. CASE u \in batch /\ u \in fresh /\ r.xp[u] > 0 /\ TotalOf(read) = 0
  <2>1. new = Restored(r.xp[u])
    BY <1>4 DEF Bootstrapped, TotalOf
  <2>2. new \in Progression /\ new.total = r.xp[u]
    BY <1>2, <1>4, <2>1, RestoredAgrees
  <2>3. \/ now = read /\ Stored(now, read, new) = new
        \/ read = new /\ now \in Progression /\ Stored(now, read, new) = now
    BY <1>1, <1>4, <2>2, StoreEffect
  <2>4. read # new
    BY <1>2, <1>4, <2>2, NoRowAssumption DEF TotalOf, Loaded
  <2> QED
    BY <1>1, <1>2, <1>4, <2>1, <2>3, <2>4
<1>5. CASE u \in batch /\ ~(u \in fresh /\ r.xp[u] > 0 /\ TotalOf(read) = 0)
  <2>1. new = Loaded(read)
    BY <1>5 DEF Bootstrapped, TotalOf
  <2>2. new \in Progression
    BY <1>1, <2>1, LoadedType
  <2>3. \/ now = read /\ Stored(now, read, new) = new
        \/ read = new /\ now \in Progression /\ Stored(now, read, new) = now
    BY <1>1, <1>5, <2>2, StoreEffect
  <2>4. progression'[u] \in {now, Loaded(now)}
    BY <1>1, <1>5, <2>1, <2>3
  <2> QED
    BY <1>2, <1>5, <2>4
<1> QED
  BY <1>3, <1>4, <1>5

-----------------------------------------------------------------------------
(* Levels.                                                                 *)

\* What a commit makes of the row of a user, whatever the operation.
Follows(old, new) ==
  \/ new \in {old, Loaded(old)}
  \/ \E xp \in Nat : new \in {Applied(Loaded(old), xp), Restored(xp)}

LEMMA StepFollows ==
  ASSUME FirstUpdaterWins, TypeInv, NEW w \in Workers, Step(w), NEW u \in Users
  PROVE  Follows(progression[u], progression'[u])
<1>1. progression \in [Users -> Progression \union {NoRow}]
  BY DEF TypeInv, TablesOK
<1>2. ASSUME NEW v \in Users, NEW xp \in Nat,
             progression'[v] = Applied(Loaded(progression[v]), xp),
             \A o \in Users \ {v} : progression'[o] = progression[o]
      PROVE  Follows(progression[u], progression'[u])
  BY <1>1, <1>2 DEF Follows
<1>3. CASE IngestDuplicate(w) \/ AwardAgain(w)
  <2>1. txn[w] # Idle /\ txn[w].req.user \in Users /\ GetOrCreate(txn[w].snap, txn[w].req.user)
    BY <1>3, RequestType DEF IngestDuplicate, AwardAgain, Running, IsRequest
  <2>2. progression' = [progression EXCEPT ![txn[w].req.user] = Loaded(progression[txn[w].req.user])]
    BY <2>1, GetOrCreateEffect
  <2> QED
    BY <1>1, <2>1, <2>2 DEF Follows
<1>4. CASE IngestNew(w)
  <2> DEFINE row == IngestRow(txn[w].snap, txn[w].req)
  <2>1. row \in LedgerRow /\ txn[w].req.user \in Users
    BY <1>4, IngestRowType DEF IngestNew
  <2>2. row.xp \in Nat
    BY <2>1 DEF LedgerRow
  <2>3. txn[w] # Idle /\ ApplyXp(txn[w].snap, txn[w].req.user, row.xp, <<>>)
    BY <1>4 DEF IngestNew, Running
  <2> DEFINE v == txn[w].req.user
  <2>4. /\ progression'[v] = Applied(Loaded(progression[v]), row.xp)
        /\ \A o \in Users \ {v} : progression'[o] = progression[o]
    BY <2>1, <2>2, <2>3, ApplyXpEffect
  <2> HIDE DEF row, v
  <2> QED
    BY <1>2, <2>1, <2>2, <2>4 DEF v
<1>5. CASE AwardNew(w)
  <2>1. txn[w] # Idle /\ txn[w].req.user \in Users /\ XpReward[txn[w].req.code] \in Nat
    BY <1>5, RequestType, RewardAssumption DEF AwardNew, Running, IsRequest
  <2>2. ApplyXp(txn[w].snap, txn[w].req.user, XpReward[txn[w].req.code], <<AwardedEvent(txn[w].req)>>)
    BY <1>5 DEF AwardNew
  <2> DEFINE v == txn[w].req.user
             xp == XpReward[txn[w].req.code]
  <2>3. /\ progression'[v] = Applied(Loaded(progression[v]), xp)
        /\ \A o \in Users \ {v} : progression'[o] = progression[o]
    BY <2>1, <2>2, ApplyXpEffect
  <2>4. v \in Users /\ xp \in Nat
    BY <2>1
  <2> HIDE DEF v, xp
  <2> QED
    BY <1>2, <2>3, <2>4
<1>6. CASE BootstrapLedger(w)
  BY <1>6, BootstrapEffect DEF Follows
<1>7. CASE \/ Begin(w) \/ Rollback(w) \/ AwardUnknown(w) \/ GrantNothing(w)
           \/ GrantOutfit(w) \/ SeedCatalog(w)
  <2>1. progression' = progression
    BY <1>7 DEF Begin, Rollback, AwardUnknown, GrantNothing, GrantOutfit, SeedCatalog, tables
  <2> QED
    BY <2>1 DEF Follows
<1> QED
  BY <1>3, <1>4, <1>5, <1>6, <1>7 DEF Step

LEMMA FollowsAgrees ==
  ASSUME NEW old \in Progression \union {NoRow}, old # NoRow => Agree(old),
         NEW new, Follows(old, new), new # NoRow
  PROVE  Agree(new)
<1>1. Loaded(old) \in Progression /\ Agree(Loaded(old))
  BY BaselineAgrees DEF Loaded
<1> QED
  BY <1>1, AppliedAgrees, RestoredAgrees DEF Follows

\* The columns of a progression row agree for any number of users, handlers and
\* requests and any curve, provided the database refuses an UPDATE of a row that
\* was changed since it was read.
THEOREM LevelsMatch ==
  ASSUME FirstUpdaterWins
  PROVE  Spec => []LevelMatchesXp
<1>1. Init => LevelMatchesXp
  BY DEF Init, LevelMatchesXp
<1>2. ASSUME TypeInv, LevelMatchesXp, [Next]_vars PROVE LevelMatchesXp'
  <2>1. CASE UNCHANGED vars
    BY <1>2, <2>1 DEF vars, tables, LevelMatchesXp
  <2>2. ASSUME NEW w \in Workers, Step(w), NEW u \in Users, progression'[u] # NoRow
        PROVE  Agree(progression'[u])
    <3>1. progression[u] \in Progression \union {NoRow}
      BY <1>2 DEF TypeInv, TablesOK
    <3>2. progression[u] # NoRow => Agree(progression[u])
      BY <1>2 DEF LevelMatchesXp, Agree
    <3>3. Follows(progression[u], progression'[u])
      BY <1>2, <2>2, StepFollows
    <3> QED
      BY <2>2, <3>1, <3>2, <3>3, FollowsAgrees
  <2> QED
    BY <1>2, <2>1, <2>2 DEF Next, LevelMatchesXp, Agree
<1> QED
  BY <1>1, <1>2, SpecTypeInv, PTL DEF Spec

=============================================================================
