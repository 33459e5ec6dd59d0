---------------------------- MODULE XpLedgerOutbox ----------------------------
(***************************************************************************)
(* The promises of XpLedger that tie the outbox to the tables: what is     *)
(* announced was done, once, and what is done was announced.  A handler    *)
(* writes both in one transaction from one snapshot; what has to be shown  *)
(* is that the tables it commits to leave no room for doing it twice.      *)
(***************************************************************************)
EXTENDS XpLedgerRaces

-----------------------------------------------------------------------------
(* What a commit appends to the outbox.                                    *)

\* The places of a sequence that hold one of the events of S.
Places(o, S) == {i \in DOMAIN o : o[i] \in S}

\* The places of S in o, moved to the end of another sequence.
Shifted(n, P) == {n + i : i \in P}

LEMMA PlacesOfConcat ==
  ASSUME NEW a \in Seq(OutboxEvent), NEW b \in Seq(OutboxEvent), NEW S
  PROVE  /\ Places(a \o b, S) = Places(a, S) \union Shifted(Len(a), Places(b, S))
         /\ \A i \in DOMAIN a : (a \o b)[i] = a[i]
         /\ \A i \in DOMAIN b : (a \o b)[Len(a) + i] = b[i]
         /\ a \o b \in Seq(OutboxEvent) /\ Len(a \o b) = Len(a) + Len(b)
<1> DEFINE c == a \o b
           m == Len(a)
           n == Len(b)
<1>1. /\ c \in Seq(OutboxEvent) /\ Len(c) = m + n
      /\ \A i \in 1 .. m + n : c[i] = IF i <= m THEN a[i] ELSE b[i - m]
  BY ConcatProperties
<1>2. m \in Nat /\ n \in Nat /\ DOMAIN a = 1 .. m /\ DOMAIN b = 1 .. n
  OBVIOUS
<1>3. DOMAIN c = 1 .. m + n
  BY <1>1
<1> HIDE DEF c, m, n
<1>4. \A i \in 1 .. m : c[i] = a[i]
  BY <1>1, <1>2
<1>5. ASSUME NEW i \in 1 .. n PROVE c[m + i] = b[i]
  <2>1. m + i \in 1 .. m + n /\ ~(m + i <= m) /\ (m + i) - m = i
    BY <1>2
  <2> QED
    BY <1>1, <2>1
<1>6. ASSUME NEW k \in Places(c, S)
      PROVE  k \in Places(a, S) \union Shifted(m, Places(b, S))
  <2>1. k \in 1 .. m + n /\ c[k] \in S
    BY <1>3 DEF Places
  <2>2. CASE k <= m
    <3>1. k \in 1 .. m
      BY <2>1, <2>2, <1>2
    <3> QED
      BY <1>2, <1>4, <2>1, <3>1 DEF Places
  <2>3. CASE ~(k <= m)
    <3>1. k - m \in 1 .. n /\ k = m + (k - m)
      BY <2>1, <2>3, <1>2
    <3>2. b[k - m] = c[k]
      BY <1>1, <2>1, <2>3
    <3> QED
      BY <1>2, <2>1, <3>1, <3>2 DEF Places, Shifted
  <2> QED
    BY <2>2, <2>3
<1>7. ASSUME NEW k \in Places(a, S) PROVE k \in Places(c, S)
  <2>1. k \in 1 .. m /\ a[k] \in S
    BY <1>2 DEF Places
  <2>2. k \in 1 .. m + n
    BY <1>2, <2>1
  <2> QED
    BY <1>3, <1>4, <2>1, <2>2 DEF Places
<1>8. ASSUME NEW i \in Places(b, S) PROVE m + i \in Places(c, S)
  <2>1. i \in 1 .. n /\ b[i] \in S
    BY <1>2 DEF Places
  <2>2. m + i \in 1 .. m + n
    BY <1>2, <2>1
  <2> QED
    BY <1>3, <1>5, <2>1, <2>2 DEF Places
<1>9. Places(c, S) = Places(a, S) \union Shifted(m, Places(b, S))
  BY <1>6, <1>7, <1>8 DEF Shifted
<1> QED
  BY <1>1, <1>2, <1>4, <1>5, <1>9 DEF c, m, n

LEMMA PlacesOfOne ==
  ASSUME NEW e, NEW S
  PROVE  /\ e \in S => Places(<<e>>, S) = {1}
         /\ e \notin S => Places(<<e>>, S) = {}
         /\ Places(<<>>, S) = {}
  BY DEF Places

\* The three kinds of events, by the user they are about.
Ups(u) == {e \in OutboxEvent : e.type = "level_up" /\ e.user = u}
Unlockings(u) == {e \in OutboxEvent : e.type = "outfit_unlocked" /\ e.user = u}
Awards(u, c) == {AwardedEvent([user |-> u, code |-> c])}

Announced(u, c) == {i \in DOMAIN outbox : outbox[i] = AwardedEvent([user |-> u, code |-> c])}

LEMMA PlacesInOutbox ==
  ASSUME outbox \in Seq(OutboxEvent), NEW u, NEW c
  PROVE  /\ LevelUps(u) = Places(outbox, Ups(u))
         /\ Unlocks(u) = Places(outbox, Unlockings(u))
         /\ Announced(u, c) = Places(outbox, Awards(u, c))
  BY DEF LevelUps, Unlocks, Announced, Places, Ups, Unlockings, Awards

LEMMA PlacesOfLevelUp ==
  ASSUME NEW u \in Users, NEW p \in Progression, NEW codes \in SUBSET Outfits,
         NEW v, NEW c, NEW ev, ev = LevelUpEvents(u, p, codes)
  PROVE  /\ Places(ev, Ups(v)) = IF v = u THEN {1} ELSE {}
         /\ Places(ev, Unlockings(v)) = IF v = u /\ codes # {} THEN {2} ELSE {}
         /\ Places(ev, Awards(v, c)) = {}
         /\ 1 \in DOMAIN ev /\ ev[1].level = p.level /\ ev[1].total = p.total
         /\ codes # {} => 2 \in DOMAIN ev /\ ev[2].codes = codes
<1> DEFINE up == [type |-> "level_up", user |-> u, level |-> p.level, total |-> p.total]
           un == [type |-> "outfit_unlocked", user |-> u, codes |-> codes]
<1>1. up \in OutboxEvent /\ un \in OutboxEvent
  BY DEF OutboxEvent, Progression
<1>2. ev = <<up>> \o (IF codes = {} THEN <<>> ELSE <<un>>)
  BY DEF LevelUpEvents
<1>3. /\ up \in Ups(v) <=> v = u
      /\ un \notin Ups(v)
      /\ un \in Unlockings(v) <=> v = u
      /\ up \notin Unlockings(v)
      /\ up \notin Awards(v, c) /\ un \notin Awards(v, c)
  <2>1. up.type = "level_up" /\ up.user = u /\ un.type = "outfit_unlocked" /\ un.user = u
    OBVIOUS
  <2>2. \A e \in Awards(v, c) : e.type = "achievement_awarded"
    BY DEF Awards, AwardedEvent
  <2> HIDE DEF up, un
  <2> QED
    BY <1>1, <2>1, <2>2 DEF Ups, Unlockings
<1>4. up.level = p.level /\ up.total = p.total /\ un.codes = codes
  OBVIOUS
<1> HIDE DEF up, un
<1>5. CASE codes = {}
  <2>1. ev = <<up>>
    BY <1>1, <1>2, <1>5, ConcatEmptySeq
  <2> QED
    BY <1>3, <1>4, <1>5, <2>1, PlacesOfOne
<1>6. CASE codes # {}
  <2>1. ev = <<up>> \o <<un>>
    BY <1>2, <1>6
  <2>2. /\ <<up>> \in Seq(OutboxEvent) /\ <<un>> \in Seq(OutboxEvent)
        /\ Len(<<up>>) = 1 /\ Len(<<un>>) = 1
        /\ \A i \in 1 .. 1 : <<up>>[i] = up /\ <<un>>[i] = un
    BY <1>1
  <2>3. Len(ev) = 2 /\ ev \in Seq(OutboxEvent) /\ ev[1] = up /\ ev[2] = un
    BY <2>1, <2>2, ConcatProperties
  <2>4. DOMAIN ev = {1, 2}
    BY <2>3
  <2> QED
    BY <1>3, <1>4, <1>6, <2>3, <2>4 DEF Places
<1> QED
  BY <1>5, <1>6

\* What ApplyXp makes of the outbox, in places: at most a level_up right behind
\* what was there, an outfit_unlocked behind that, then the awards.
LEMMA ApplyXpAppends ==
  ASSUME TypeInv, NEW w \in Workers, txn[w] # Idle, NEW u \in Users, NEW xp \in Nat,
         NEW more \in Seq(OutboxEvent), \A i \in DOMAIN more : more[i].type = "achievement_awarded",
         ApplyXp(txn[w].snap, u, xp, more)
  PROVE  LET read  == txn[w].snap.progression[u]
             new   == Applied(Loaded(read), xp)
             rises == new.level > Loaded(read).level
             codes == IF rises THEN Unlocked(txn[w].snap, u, new.level) ELSE {}
             n     == Len(outbox)
         IN  /\ new \in Progression /\ Loaded(read) \in Progression
             /\ \A i \in DOMAIN outbox : outbox'[i] = outbox[i]
             /\ \A v : LevelUps(v)' = LevelUps(v) \union (IF v = u /\ rises THEN {n + 1} ELSE {})
             /\ rises => outbox'[n + 1].level = new.level /\ outbox'[n + 1].total = new.total
             /\ \A v : Unlocks(v)' = Unlocks(v) \union (IF v = u /\ codes # {} THEN {n + 2} ELSE {})
             /\ codes # {} => outbox'[n + 2].codes = codes
             /\ \E m \in Nat : \A v, c :
                  Announced(v, c)' = Announced(v, c) \union Shifted(m, Places(more, Awards(v, c)))
<1> DEFINE s == txn[w].snap
           read == s.progression[u]
           new == Applied(Loaded(read), xp)
           rises == new.level > Loaded(read).level
           codes == IF rises THEN Unlocked(s, u, new.level) ELSE {}
           n == Len(outbox)
           ev == IF rises THEN LevelUpEvents(u, new, codes) ELSE <<>>
           mid == outbox \o ev
<1>1. new \in Progression /\ Loaded(read) \in Progression
  BY LoadedType, AppliedType
<1>2. codes \in SUBSET Outfits
  BY DEF Unlocked
<1>3. outbox' = mid \o more /\ outbox \in Seq(OutboxEvent) /\ outbox' \in Seq(OutboxEvent)
  BY ApplyXpTypes DEF ApplyXp, TypeInv, TablesOK
<1>4. ev \in Seq(OutboxEvent)
  BY <1>1, <1>2, LevelUpEventsType
<1>5. codes # {} => rises
  OBVIOUS
<1> HIDE DEF new, codes
<1>6. ASSUME NEW v, NEW c
      PROVE  /\ Places(ev, Ups(v)) = IF v = u /\ rises THEN {1} ELSE {}
             /\ Places(ev, Unlockings(v)) = IF v = u /\ codes # {} THEN {2} ELSE {}
             /\ Places(ev, Awards(v, c)) = {}
             /\ rises => 1 \in DOMAIN ev /\ ev[1].level = new.level /\ ev[1].total = new.total
             /\ codes # {} => 2 \in DOMAIN ev /\ ev[2].codes = codes
  <2>1. CASE rises
    <3>1. ev = LevelUpEvents(u, new, codes)
      BY <2>1
    <3>2. new \in Progression
      BY <1>1
    <3> HIDE DEF ev, rises, read, s, mid, n
    <3>3. /\ Places(ev, Ups(v)) = IF v = u THEN {1} ELSE {}
          /\ Places(ev, Unlockings(v)) = IF v = u /\ codes # {} THEN {2} ELSE {}
          /\ Places(ev, Awards(v, c)) = {}
          /\ 1 \in DOMAIN ev /\ ev[1].level = new.level /\ ev[1].total = new.total
          /\ codes # {} => 2 \in DOMAIN ev /\ ev[2].codes = codes
      BY <1>2, <3>1, <3>2, PlacesOfLevelUp, Z3
    <3> QED
      BY <2>1, <3>3
  <2>2. CASE ~rises
    BY <1>5, <2>2, PlacesOfOne
  <2> QED
    BY <2>1, <2>2
<1> HIDE DEF rises, ev
<1>7. ASSUME NEW S
      PROVE  /\ Places(mid, S) = Places(outbox, S) \union Shifted(n, Places(ev, S))
             /\ Places(outbox', S) = Places(mid, S) \union Shifted(Len(mid), Places(more, S))
             /\ mid \in Seq(OutboxEvent) /\ Len(mid) = n + Len(ev)
             /\ \A i \in DOMAIN outbox : mid[i] = outbox[i]
             /\ \A i \in DOMAIN ev : mid[n + i] = ev[i]
             /\ \A i \in DOMAIN mid : outbox'[i] = mid[i]
  <2>1. /\ Places(mid, S) = Places(outbox, S) \union Shifted(n, Places(ev, S))
        /\ mid \in Seq(OutboxEvent) /\ Len(mid) = n + Len(ev)
        /\ \A i \in DOMAIN outbox : mid[i] = outbox[i]
        /\ \A i \in DOMAIN ev : mid[n + i] = ev[i]
    BY <1>3, <1>4, PlacesOfConcat
  <2> HIDE DEF mid
  <2>2. /\ Places(mid \o more, S) = Places(mid, S) \union Shifted(Len(mid), Places(more, S))
        /\ \A i \in DOMAIN mid : (mid \o more)[i] = mid[i]
    BY <2>1, PlacesOfConcat
  <2> QED
    BY <1>3, <2>1, <2>2
<1>8. n \in Nat /\ Len(ev) \in Nat /\ DOMAIN outbox = 1 .. n /\ DOMAIN ev = 1 .. Len(ev)
  BY <1>3, <1>4
<1>9. mid \in Seq(OutboxEvent) /\ Len(mid) = n + Len(ev) /\ DOMAIN mid = 1 .. n + Len(ev)
  BY <1>7
<1> HIDE DEF mid, n
<1>10. \A i \in DOMAIN outbox : outbox'[i] = outbox[i]
  BY <1>7, <1>8, <1>9
<1>11. \A i \in DOMAIN ev : outbox'[n + i] = ev[i]
  <2> TAKE i \in DOMAIN ev
  <2>1. n + i \in DOMAIN mid
    BY <1>8, <1>9
  <2> QED
    BY <1>7, <2>1
<1>12. ASSUME NEW v
       PROVE  /\ Places(more, Ups(v)) = {} /\ Places(more, Unlockings(v)) = {}
  BY DEF Places, Ups, Unlockings
<1>13. \A m : Shifted(m, {}) = {} /\ Shifted(n, {1}) = {n + 1} /\ Shifted(n, {2}) = {n + 2}
  BY DEF Shifted
<1>14. ASSUME NEW v, NEW c
       PROVE  /\ LevelUps(v)' = Places(outbox', Ups(v))
              /\ Unlocks(v)' = Places(outbox', Unlockings(v))
              /\ Announced(v, c)' = Places(outbox', Awards(v, c))
  BY <1>3 DEF LevelUps, Unlocks, Announced, Places, Ups, Unlockings, Awards
<1>15. \A v : LevelUps(v)' = LevelUps(v) \union (IF v = u /\ rises THEN {n + 1} ELSE {})
  <2> TAKE v
  <2>1. LevelUps(v)' = (Places(outbox, Ups(v)) \union Shifted(n, Places(ev, Ups(v)))) \union {}
    <3>1. Places(outbox', Ups(v)) = Places(mid, Ups(v)) \union Shifted(Len(mid), {})
      BY <1>7, <1>12
    <3>2. Places(mid, Ups(v)) = Places(outbox, Ups(v)) \union Shifted(n, Places(ev, Ups(v)))
      BY <1>7
    <3> QED
      BY <1>13, <1>14, <3>1, <3>2
  <2> QED
    BY <1>3, <1>6, <1>13, <2>1, PlacesInOutbox
<1>16. \A v : Unlocks(v)' = Unlocks(v) \union (IF v = u /\ codes # {} THEN {n + 2} ELSE {})
  <2> TAKE v
  <2>1. Unlocks(v)' = (Places(outbox, Unlockings(v)) \union Shifted(n, Places(ev, Unlockings(v))))
                        \union {}
    <3>1. Places(outbox', Unlockings(v)) = Places(mid, Unlockings(v)) \union Shifted(Len(mid), {})
      BY <1>7, <1>12
    <3>2. Places(mid, Unlockings(v))
            = Places(outbox, Unlockings(v)) \union Shifted(n, Places(ev, Unlockings(v)))
      BY <1>7
    <3> QED
      BY <1>13, <1>14, <3>1, <3>2
  <2> QED
    BY <1>3, <1>6, <1>13, <2>1, PlacesInOutbox
<1>17. \A v, c : Announced(v, c)'
                   = Announced(v, c) \union Shifted(Len(mid), Places(more, Awards(v, c)))
  <2> TAKE v, c
  <2>1. Announced(v, c)' = (Places(outbox, Awards(v, c)) \union Shifted(n, Places(ev, Awards(v, c))))
                             \union Shifted(Len(mid), Places(more, Awards(v, c)))
    BY <1>7, <1>14
  <2> QED
    BY <1>3, <1>6, <1>13, <2>1, PlacesInOutbox
<1>18. Len(mid) \in Nat
  BY <1>8, <1>9
<1>19. /\ rises => outbox'[n + 1].level = new.level /\ outbox'[n + 1].total = new.total
       /\ codes # {} => outbox'[n + 2].codes = codes
  BY <1>6, <1>11
<1> QED
  BY <1>1, <1>10, <1>15, <1>16, <1>17, <1>18, <1>19 DEF new, rises, codes, n

-----------------------------------------------------------------------------
(* Badges.                                                                 *)

BookedRows(u, c) == {e \in ledger : e.user = u /\ e.kind = AchievementKind(c)}

IsOne(S) == \E x : S = {x}

\* BadgesBooked with sets in place of their sizes.
BadgeInv ==
  \A u \in Users, c \in Codes :
    IF <<u, c>> \in userAchievements
      THEN /\ IsOne(Announced(u, c))
           /\ IF XpReward[c] > 0 THEN IsOne(BookedRows(u, c)) ELSE BookedRows(u, c) = {}
      ELSE Announced(u, c) = {} /\ BookedRows(u, c) = {}

LEMMA BadgeInvCounts == BadgeInv => BadgesBooked
<1> SUFFICES ASSUME BadgeInv, NEW u \in Users, NEW c \in Codes
             PROVE  LET granted == <<u, c>> \in userAchievements
                    IN  /\ Cardinality(Announced(u, c)) = (IF granted THEN 1 ELSE 0)
                        /\ Cardinality(BookedRows(u, c))
                             = (IF granted /\ XpReward[c] > 0 THEN 1 ELSE 0)
  BY DEF BadgesBooked, Announced, BookedRows
<1>1. \A S : IsOne(S) => Cardinality(S) = 1
  BY FS_Singleton DEF IsOne
<1>2. Cardinality({}) = 0
  BY FS_EmptySet
<1> QED
  BY <1>1, <1>2 DEF BadgeInv

LEMMA ApplyXpAnnounces ==
  ASSUME TypeInv, NEW w \in Workers, txn[w] # Idle, NEW u \in Users, NEW xp \in Nat,
         NEW more \in Seq(OutboxEvent), \A i \in DOMAIN more : more[i].type = "achievement_awarded",
         ApplyXp(txn[w].snap, u, xp, more)
  PROVE  \E m \in Nat : \A v, c :
           Announced(v, c)' = Announced(v, c) \union Shifted(m, Places(more, Awards(v, c)))
  BY ApplyXpAppends

\* An achievement that the transaction may insert is new, and is announced and
\* booked with it.
LEMMA AwardKeepsBadges ==
  ASSUME TypeInv, BadgeInv, NEW w \in Workers, AwardNew(w)
  PROVE  BadgeInv'
<1> DEFINE r == txn[w].req
           s == txn[w].snap
           xp == XpReward[r.code]
<1>1. /\ txn[w] # Idle /\ r.user \in Users /\ r.code \in Codes
      /\ <<r.user, r.code>> \notin userAchievements
      /\ userAchievements' = userAchievements \union {<<r.user, r.code>>}
      /\ ApplyXp(s, r.user, xp, <<AwardedEvent(r)>>)
      /\ IF xp > 0 THEN ledger' = ledger \union {AwardRow(r)} ELSE ledger' = ledger
  <2>1. txn[w] # Idle /\ r.op = "award" /\ r.code \in Codes
    BY DEF AwardNew, Running
  <2>2. r.user \in Users
    BY <2>1, RequestType DEF IsRequest
  <2>3. /\ <<r.user, r.code>> \notin userAchievements
        /\ userAchievements' = userAchievements \union {<<r.user, r.code>>}
    BY DEF AwardNew
  <2>4. ApplyXp(s, r.user, xp, <<AwardedEvent(r)>>)
    BY DEF AwardNew
  <2>5. IF xp > 0 THEN ledger' = ledger \union {AwardRow(r)} ELSE ledger' = ledger
    BY DEF AwardNew, InsertLedger
  <2> QED
    BY <2>1, <2>2, <2>3, <2>4, <2>5
<1>2. xp \in Nat
  BY <1>1, RewardAssumption
<1>3. /\ <<AwardedEvent(r)>> \in Seq(OutboxEvent)
      /\ \A i \in DOMAIN <<AwardedEvent(r)>> : <<AwardedEvent(r)>>[i].type = "achievement_awarded"
  <2>1. AwardedEvent(r) \in OutboxEvent /\ AwardedEvent(r).type = "achievement_awarded"
    BY <1>1 DEF AwardedEvent, OutboxEvent
  <2>2. \A e : e \in OutboxEvent /\ e.type = "achievement_awarded" =>
          /\ <<e>> \in Seq(OutboxEvent)
          /\ \A i \in DOMAIN <<e>> : <<e>>[i].type = "achievement_awarded"
    OBVIOUS
  <2> QED
    BY <2>1, <2>2
<1>4. PICK m \in Nat : \A u, c : Announced(u, c)'
        = Announced(u, c) \union Shifted(m, Places(<<AwardedEvent(r)>>, Awards(u, c)))
  <2>1. PICK v \in Users, x \in Nat, more \in Seq(OutboxEvent) :
          v = r.user /\ x = xp /\ more = <<AwardedEvent(r)>>
    BY <1>1, <1>2, <1>3
  <2>2. /\ \A i \in DOMAIN more : more[i].type = "achievement_awarded"
        /\ txn[w] # Idle /\ ApplyXp(s, v, x, more)
    BY <1>1, <1>3, <2>1
  <2>3. \E m \in Nat : \A u, c :
          Announced(u, c)' = Announced(u, c) \union Shifted(m, Places(more, Awards(u, c)))
    BY <2>2, ApplyXpAnnounces
  <2> QED
    BY <2>1, <2>3
<1> SUFFICES ASSUME NEW u \in Users, NEW c \in Codes
             PROVE  IF <<u, c>> \in userAchievements'
                      THEN /\ IsOne(Announced(u, c)')
                           /\ IF XpReward[c] > 0 THEN IsOne(BookedRows(u, c)')
                                                 ELSE BookedRows(u, c)' = {}
                      ELSE Announced(u, c)' = {} /\ BookedRows(u, c)' = {}
  BY DEF BadgeInv, IsOne
<1>5. AwardRow(r).user = r.user /\ AwardRow(r).kind = AchievementKind(r.code)
  BY DEF AwardRow
<1>6. AwardedEvent(r) \in Awards(u, c) <=> u = r.user /\ c = r.code
  <2>1. AwardedEvent(r).user = r.user /\ AwardedEvent(r).code = r.code
    BY DEF AwardedEvent
  <2>2. /\ AwardedEvent([user |-> u, code |-> c]).user = u
        /\ AwardedEvent([user |-> u, code |-> c]).code = c
    BY DEF AwardedEvent
  <2>3. u = r.user /\ c = r.code => AwardedEvent([user |-> u, code |-> c]) = AwardedEvent(r)
    BY DEF AwardedEvent
  <2> QED
    BY <2>1, <2>2, <2>3 DEF Awards
<1>7. CASE u = r.user /\ c = r.code
  <2>1. Announced(u, c) = {} /\ BookedRows(u, c) = {}
    BY <1>1, <1>7 DEF BadgeInv
  <2>2. Announced(u, c)' = {m + 1}
    <3>1. Places(<<AwardedEvent(r)>>, Awards(u, c)) = {1}
      BY <1>6, <1>7, PlacesOfOne
    <3> QED
      BY <1>4, <2>1, <3>1 DEF Shifted
  <2>3. BookedRows(u, c)' = IF xp > 0 THEN {AwardRow(r)} ELSE {}
    BY <1>1, <1>5, <1>7, <2>1 DEF BookedRows
  <2> QED
    BY <1>1, <1>7, <2>2, <2>3 DEF IsOne
<1>8. CASE ~(u = r.user /\ c = r.code)
  <2>1. Announced(u, c)' = Announced(u, c)
    <3>1. Places(<<AwardedEvent(r)>>, Awards(u, c)) = {}
      BY <1>6, <1>8, PlacesOfOne
    <3> QED
      BY <1>4, <3>1 DEF Shifted
  <2>2. BookedRows(u, c)' = BookedRows(u, c)
    <3>1. AchievementKind(c) = AchievementKind(r.code) <=> c = r.code
      BY DEF AchievementKind
    <3> QED
      BY <1>1, <1>5, <1>8, <3>1 DEF BookedRows
  <2>3. <<u, c>> \in userAchievements' <=> <<u, c>> \in userAchievements
    BY <1>1, <1>8
  <2> QED
    BY <2>1, <2>2, <2>3 DEF BadgeInv
<1> QED
  BY <1>7, <1>8

\* Everything else leaves badges, their events and their rows alone.
LEMMA OthersKeepBadges ==
  ASSUME TypeInv, BadgeInv, NEW w \in Workers, Step(w), ~AwardNew(w)
  PROVE  BadgeInv'
<1>1. userAchievements' = userAchievements
  BY DEF Step, Begin, Rollback, IngestDuplicate, IngestNew, AwardUnknown, AwardAgain,
         GrantNothing, GrantOutfit, BootstrapLedger, SeedCatalog, tables
<1>2. \A u, c : BookedRows(u, c)' = BookedRows(u, c)
  <2>1. ASSUME NEW e \in ledger' \ ledger, NEW c PROVE e.kind # AchievementKind(c)
    <3>1. Ingested(w, e) \/ Migrated(w, e)
      BY <2>1, StepRows DEF Awarded
    <3> QED
      BY <3>1, KindsDiffer DEF Ingested, Migrated, IngestRow, BootstrapRow
  <2> QED
    BY <2>1, StepRows DEF BookedRows
<1>3. \A u, c : Announced(u, c)' = Announced(u, c)
  <2>1. CASE IngestNew(w)
    <3> DEFINE s == txn[w].snap
               r == txn[w].req
               xp == IngestRow(s, r).xp
    <3>1. txn[w] # Idle /\ ApplyXp(s, r.user, xp, <<>>)
      BY <2>1 DEF IngestNew, Running
    <3>2. r.user \in Users /\ xp \in Nat
      BY <2>1, IngestRowType DEF IngestNew, LedgerRow
    <3>3. PICK v \in Users, x \in Nat, none \in Seq(OutboxEvent) :
            v = r.user /\ x = xp /\ none = <<>>
      <4>1. <<>> \in Seq(OutboxEvent)
        OBVIOUS
      <4> QED
        BY <3>2, <4>1
    <3>4. \A i \in DOMAIN none : none[i].type = "achievement_awarded"
      BY <3>3
    <3> HIDE DEF xp
    <3>5. txn[w] # Idle /\ ApplyXp(s, v, x, none) /\ none \in Seq(OutboxEvent)
      BY <3>1, <3>3
    <3>6. \E m \in Nat : \A u, c : Announced(u, c)'
            = Announced(u, c) \union Shifted(m, Places(none, Awards(u, c)))
      BY <3>4, <3>5, ApplyXpAnnounces
    <3>7. \A S : Places(none, S) = {}
      BY <3>3 DEF Places
    <3>8. \A m : Shifted(m, {}) = {}
      BY DEF Shifted
    <3> QED
      BY <3>6, <3>7, <3>8
  <2>2. CASE ~IngestNew(w)
    BY <2>2 DEF Step, Begin, Rollback, IngestDuplicate, AwardUnknown, AwardAgain,
                GrantNothing, GrantOutfit, BootstrapLedger, SeedCatalog, Announced
  <2> QED
    BY <2>1, <2>2
<1> QED
  BY <1>1, <1>2, <1>3 DEF BadgeInv, IsOne

\* An achievement is granted, announced and booked together and exactly once,
\* for any number of racing handlers and any keys, on either kind of database:
\* the primary key of user_achievements alone refuses the second one.
THEOREM BadgesOnce == Spec => []BadgesBooked
<1>1. Init => BadgeInv
  BY DEF Init, BadgeInv, Announced, BookedRows
<1>2. ASSUME TypeInv, BadgeInv, [Next]_vars PROVE BadgeInv'
  <2>1. CASE UNCHANGED vars
    BY <1>2, <2>1 DEF vars, tables, BadgeInv, Announced, BookedRows, IsOne
  <2>2. ASSUME NEW w \in Workers, Step(w) PROVE BadgeInv'
    BY <1>2, <2>2, AwardKeepsBadges, OthersKeepBadges
  <2> QED
    BY <1>2, <2>1, <2>2 DEF Next
<1> QED
  BY <1>1, <1>2, BadgeInvCounts, SpecTypeInv, PTL DEF Spec

-----------------------------------------------------------------------------
(* Steps, as the mirrors and the wardrobe of one user see them.            *)

\* The step of w adds xp to the progression of u.
Applies(w, u, xp) ==
  /\ txn[w] # Idle
  /\ \E more \in Seq(OutboxEvent) :
       /\ \A i \in DOMAIN more : more[i].type = "achievement_awarded"
       /\ ApplyXp(txn[w].snap, u, xp, more)

Risen(w, u, xp) == Applied(Loaded(txn[w].snap.progression[u]), xp)

Rises(w, u, xp) == Risen(w, u, xp).level > Loaded(txn[w].snap.progression[u]).level

ViaLevel(u) == {g.code : g \in {h \in userOutfits : h.user = u /\ h.via = LevelUp}}

\* Nothing is announced to the mirrors of u.
Silent(u) ==
  /\ \A i \in DOMAIN outbox : outbox'[i] = outbox[i]
  /\ LevelUps(u)' = LevelUps(u) /\ Unlocks(u)' = Unlocks(u)
  /\ userOutfits \subseteq userOutfits' /\ ViaLevel(u)' = ViaLevel(u)

LEMMA StepApplies ==
  ASSUME TypeInv, NEW w \in Workers, Step(w)
  PROVE  \/ \E u \in Users, xp \in Nat : Applies(w, u, xp)
         \/ ~IngestNew(w) /\ ~AwardNew(w) /\ \A u : Silent(u)
<1>1. CASE IngestNew(w)
  <2> DEFINE xp == IngestRow(txn[w].snap, txn[w].req).xp
  <2>1. txn[w] # Idle /\ ApplyXp(txn[w].snap, txn[w].req.user, xp, <<>>)
    BY <1>1 DEF IngestNew, Running
  <2>2. txn[w].req.user \in Users /\ xp \in Nat
    BY <1>1, IngestRowType DEF IngestNew, LedgerRow
  <2>3. <<>> \in Seq(OutboxEvent) /\ \A i \in DOMAIN <<>> : <<>>[i].type = "achievement_awarded"
    OBVIOUS
  <2> HIDE DEF xp
  <2> QED
    BY <2>1, <2>2, <2>3 DEF Applies
<1>2. CASE AwardNew(w)
  <2> DEFINE xp == XpReward[txn[w].req.code]
             more == <<AwardedEvent(txn[w].req)>>
  <2>1. /\ txn[w] # Idle /\ ApplyXp(txn[w].snap, txn[w].req.user, xp, more)
        /\ txn[w].req.user \in Users /\ xp \in Nat /\ txn[w].req.code \in Codes
    BY <1>2, RequestType, RewardAssumption DEF AwardNew, Running, IsRequest
  <2>2. more \in Seq(OutboxEvent) /\ \A i \in DOMAIN more : more[i].type = "achievement_awarded"
    BY <2>1 DEF AwardedEvent, OutboxEvent
  <2> HIDE DEF xp, more
  <2> QED
    BY <2>1, <2>2 DEF Applies
<1>3. CASE ~IngestNew(w) /\ ~AwardNew(w) /\ GrantOutfit(w)
  <2> DEFINE g == [user |-> txn[w].req.user, code |-> txn[w].req.outfit, via |-> "manual"]
  <2>1. outbox' = outbox /\ userOutfits' = userOutfits \union {g}
    BY <1>3 DEF GrantOutfit
  <2>2. g.via # LevelUp
    BY DEF LevelUp
  <2> HIDE DEF g
  <2> QED
    BY <1>3, <2>1, <2>2 DEF Silent, LevelUps, Unlocks, ViaLevel
<1>4. CASE ~IngestNew(w) /\ ~AwardNew(w) /\ ~GrantOutfit(w)
  <2>1. outbox' = outbox /\ userOutfits' = userOutfits
    BY <1>4 DEF Step, Begin, Rollback, IngestDuplicate, AwardUnknown, AwardAgain, GrantNothing,
                BootstrapLedger, SeedCatalog, tables
  <2> QED
    BY <1>4, <2>1 DEF Silent, LevelUps, Unlocks, ViaLevel
<1> QED
  BY <1>1, <1>2, <1>3, <1>4

LEMMA RisenType ==
  ASSUME TypeInv, NEW w \in Workers, txn[w] # Idle, NEW u \in Users, NEW xp \in Nat
  PROVE  /\ Risen(w, u, xp) \in Progression /\ Loaded(txn[w].snap.progression[u]) \in Progression
         /\ ~Rises(w, u, xp) => Risen(w, u, xp).level = Loaded(txn[w].snap.progression[u]).level
<1>1. /\ Risen(w, u, xp) \in Progression /\ Loaded(txn[w].snap.progression[u]) \in Progression
  BY LoadedType, AppliedType DEF Risen
<1> QED
  BY <1>1 DEF Risen, Rises, Applied

\* Xp that does not lift u, or lifts somebody else.
LEMMA AppliesSilently ==
  ASSUME TypeInv, NEW w \in Workers, NEW u \in Users, NEW xp \in Nat, Applies(w, u, xp),
         NEW v, v # u \/ ~Rises(w, u, xp)
  PROVE  Silent(v)
<1> PICK more \in Seq(OutboxEvent) :
      /\ \A i \in DOMAIN more : more[i].type = "achievement_awarded"
      /\ ApplyXp(txn[w].snap, u, xp, more)
  BY DEF Applies
<1> DEFINE codes == IF Rises(w, u, xp) THEN Unlocked(txn[w].snap, u, Risen(w, u, xp).level) ELSE {}
<1>1. txn[w] # Idle
  BY DEF Applies
<1>2. \A i \in DOMAIN outbox : outbox'[i] = outbox[i]
  BY <1>1, ApplyXpAppends
<1>3. LevelUps(v)' = LevelUps(v)
  <2>1. LevelUps(v)' = LevelUps(v) \union
          (IF v = u /\ Rises(w, u, xp) THEN {Len(outbox) + 1} ELSE {})
    BY <1>1, ApplyXpAppends DEF Rises, Risen
  <2> QED
    BY <2>1
<1>4. Unlocks(v)' = Unlocks(v)
  <2>1. Unlocks(v)' = Unlocks(v) \union (IF v = u /\ codes # {} THEN {Len(outbox) + 2} ELSE {})
    BY <1>1, ApplyXpAppends DEF Rises, Risen
  <2> QED
    BY <2>1
<1>5. userOutfits' = userOutfits \union {[user |-> u, code |-> o, via |-> LevelUp] : o \in codes}
  BY DEF ApplyXp, Rises, Risen
<1>6. ViaLevel(v)' = ViaLevel(v)
  <2>1. \A g \in userOutfits' \ userOutfits : g.user # v
    BY <1>5
  <2>2. userOutfits \subseteq userOutfits'
    BY <1>5
  <2> QED
    BY <2>1, <2>2 DEF ViaLevel
<1> QED
  BY <1>2, <1>3, <1>4, <1>5, <1>6 DEF Silent

\* Xp that lifts u: one level_up, the outfits it unlocks, and their event.
LEMMA AppliesRising ==
  ASSUME TypeInv, NEW w \in Workers, NEW u \in Users, NEW xp \in Nat, Applies(w, u, xp),
         Rises(w, u, xp)
  PROVE  LET new   == Risen(w, u, xp)
             codes == Unlocked(txn[w].snap, u, new.level)
             n     == Len(outbox)
         IN  /\ \A i \in DOMAIN outbox : outbox'[i] = outbox[i]
             /\ LevelUps(u)' = LevelUps(u) \union {n + 1}
             /\ outbox'[n + 1].level = new.level /\ outbox'[n + 1].total = new.total
             /\ Unlocks(u)' = Unlocks(u) \union (IF codes # {} THEN {n + 2} ELSE {})
             /\ codes # {} => outbox'[n + 2].codes = codes
             /\ \A g \in userOutfits : ~(g.user = u /\ g.code \in codes)
             /\ userOutfits' = userOutfits
                  \union {[user |-> u, code |-> o, via |-> LevelUp] : o \in codes}
<1> PICK more \in Seq(OutboxEvent) :
      /\ \A i \in DOMAIN more : more[i].type = "achievement_awarded"
      /\ ApplyXp(txn[w].snap, u, xp, more)
  BY DEF Applies
<1> DEFINE new == Risen(w, u, xp)
           codes == Unlocked(txn[w].snap, u, new.level)
           n == Len(outbox)
<1>1. txn[w] # Idle
  BY DEF Applies
<1>2. \A i \in DOMAIN outbox : outbox'[i] = outbox[i]
  BY <1>1, ApplyXpAppends
<1>3. /\ LevelUps(u)' = LevelUps(u) \union {n + 1}
      /\ outbox'[n + 1].level = new.level /\ outbox'[n + 1].total = new.total
  BY <1>1, ApplyXpAppends DEF Rises, Risen
<1>4. Unlocks(u)' = Unlocks(u) \union (IF codes # {} THEN {n + 2} ELSE {})
  <2> DEFINE granted == IF Rises(w, u, xp) THEN codes ELSE {}
  <2>1. \A v : Unlocks(v)' = Unlocks(v) \union
                               (IF v = u /\ granted # {} THEN {Len(outbox) + 2} ELSE {})
    BY <1>1, ApplyXpAppends DEF Rises, Risen
  <2>2. granted = codes
    OBVIOUS
  <2> HIDE DEF granted, codes
  <2> QED
    BY <2>1, <2>2
<1>6. codes # {} => outbox'[n + 2].codes = codes
  BY <1>1, ApplyXpAppends DEF Rises, Risen
<1>5. /\ \A g \in userOutfits : ~(g.user = u /\ g.code \in codes)
      /\ userOutfits' = userOutfits
           \union {[user |-> u, code |-> o, via |-> LevelUp] : o \in codes}
  BY DEF ApplyXp, Rises, Risen
<1> QED
  BY <1>2, <1>3, <1>4, <1>5, <1>6

-----------------------------------------------------------------------------
(* The last level announced.                                               *)

Levels(u) == {1} \union {outbox[i].level : i \in LevelUps(u)}

HasTop(u) == \E m \in Levels(u) : \A l \in Levels(u) : m >= l

TopInv == \A u \in Users : HasTop(u)

LEMMA AnnouncedIsTop ==
  ASSUME NEW u, HasTop(u)
  PROVE  AnnouncedLevel(u) \in Levels(u) /\ \A l \in Levels(u) : AnnouncedLevel(u) >= l
<1>1. AnnouncedLevel(u) = CHOOSE m \in Levels(u) : \A l \in Levels(u) : m >= l
  BY DEF AnnouncedLevel, Levels, Max
<1> QED
  BY <1>1 DEF HasTop

LEMMA PlacesBound ==
  ASSUME TypeInv, NEW u
  PROVE  /\ Len(outbox) \in Nat
         /\ \A i \in LevelUps(u) : /\ i \in DOMAIN outbox /\ i \in Nat /\ i <= Len(outbox)
                                   /\ outbox[i].level \in 1 .. MaxLevel
         /\ \A i \in Unlocks(u) : i \in DOMAIN outbox /\ i \in Nat /\ i <= Len(outbox)
<1>1. outbox \in Seq(OutboxEvent)
  BY DEF TypeInv, TablesOK
<1>2. Len(outbox) \in Nat /\ DOMAIN outbox = 1 .. Len(outbox)
  BY <1>1
<1>3. \A i \in DOMAIN outbox : outbox[i] \in OutboxEvent
  BY <1>1
<1>4. \A e \in OutboxEvent : e.type = "level_up" => e.level \in 1 .. MaxLevel
  BY DEF OutboxEvent
<1> QED
  BY <1>2, <1>3, <1>4 DEF LevelUps, Unlocks

LEMMA LevelsType ==
  ASSUME TypeInv, NEW u
  PROVE  Levels(u) \subseteq 1 .. MaxLevel /\ Levels(u) \subseteq Nat
  BY PlacesBound, CurveAssumption DEF Levels

LEMMA SilentLevels ==
  ASSUME TypeInv, NEW u, Silent(u)
  PROVE  Levels(u)' = Levels(u)
  BY PlacesBound DEF Silent, Levels

LEMMA RisingLevels ==
  ASSUME TypeInv, NEW w \in Workers, NEW u \in Users, NEW xp \in Nat, Applies(w, u, xp),
         Rises(w, u, xp)
  PROVE  Levels(u)' = Levels(u) \union {Risen(w, u, xp).level}
<1> DEFINE n == Len(outbox)
           l == Risen(w, u, xp).level
<1>1. /\ \A i \in DOMAIN outbox : outbox'[i] = outbox[i]
      /\ LevelUps(u)' = LevelUps(u) \union {n + 1}
      /\ outbox'[n + 1].level = l
  BY AppliesRising
<1> HIDE DEF n, l
<1>2. \A i \in LevelUps(u) : outbox'[i] = outbox[i]
  BY <1>1, PlacesBound
<1> QED
  BY <1>1, <1>2 DEF Levels, l

LEMMA StepKeepsTop ==
  ASSUME TypeInv, TopInv, NEW w \in Workers, Step(w), NEW v \in Users
  PROVE  HasTop(v)'
<1>1. HasTop(v)
  BY DEF TopInv
<1>2. CASE Silent(v)
  <2>1. Levels(v)' = Levels(v)
    BY <1>2, SilentLevels
  <2> QED
    BY <1>1, <2>1 DEF HasTop
<1>3. ASSUME NEW xp \in Nat, Applies(w, v, xp), Rises(w, v, xp)
      PROVE  HasTop(v)'
  <2> DEFINE l == Risen(w, v, xp).level
  <2>1. Levels(v)' = Levels(v) \union {l}
    BY <1>3, RisingLevels
  <2>2. l \in Nat
    BY <1>3, RisenType DEF Applies, Progression
  <2>3. Levels(v) \subseteq Nat
    BY LevelsType
  <2>4. PICK m \in Levels(v) : \A k \in Levels(v) : m >= k
    BY <1>1 DEF HasTop
  <2> HIDE DEF l
  <2>5. CASE m >= l
    BY <2>1, <2>4, <2>5 DEF HasTop
  <2>6. CASE ~(m >= l)
    <3>1. \A k \in Levels(v)' : l >= k
      BY <2>1, <2>2, <2>3, <2>4, <2>6
    <3> QED
      BY <2>1, <3>1 DEF HasTop
  <2> QED
    BY <2>5, <2>6
<1> QED
  BY <1>2, <1>3, StepApplies, AppliesSilently

THEOREM SpecTopInv == Spec => [](TypeInv /\ TopInv)
<1>1. Init => TopInv
  <2> SUFFICES ASSUME Init, NEW u \in Users PROVE HasTop(u)
    BY DEF TopInv
  <2>1. Levels(u) = {1}
    BY DEF Init, Levels, LevelUps
  <2> QED
    BY <2>1 DEF HasTop
<1>2. ASSUME TypeInv, TopInv, [Next]_vars PROVE TopInv'
  <2>1. CASE UNCHANGED vars
    BY <1>2, <2>1 DEF vars, TopInv, HasTop, Levels, LevelUps
  <2>2. ASSUME NEW w \in Workers, Step(w) PROVE TopInv'
    BY <1>2, <2>2, StepKeepsTop DEF TopInv
  <2> QED
    BY <1>2, <2>1, <2>2 DEF Next
<1> QED
  BY <1>1, <1>2, SpecTypeInv, PTL DEF Spec

-----------------------------------------------------------------------------
(* The wardrobe.                                                           *)

\* What a transaction saw of the catalog and of the wardrobes is still there,
\* and nobody sees less of the catalog than was seeded before the start.
SeenStays ==
  /\ Seeded \subseteq catalogRows
  /\ \A w \in Workers : txn[w] # Idle => /\ Seeded \subseteq txn[w].snap.catalogRows
                                         /\ txn[w].snap.userOutfits \subseteq userOutfits

Owns(u, o) == \E g \in userOutfits : g.user = u /\ g.code = o

\* Every level that was announced brought its outfits.
Dressed(u) ==
  \A i \in LevelUps(u), o \in Seeded \intersect Outfits :
    Gate[o] # NoLimit /\ Gate[o] <= outbox[i].level => Owns(u, o)

WardrobeOf(u) ==
  /\ ViaLevel(u) = UNION {outbox[i].codes : i \in Unlocks(u)}
  /\ \A i, j \in Unlocks(u) : i # j => outbox[i].codes \intersect outbox[j].codes = {}
  /\ Dressed(u)

WardrobeInv == SeenStays /\ \A u \in Users : WardrobeOf(u)

\* The first outfits are gated by more than the level everybody begins with.
LEMMA WardrobeInvImplies ==
  ASSUME TypeInv, TopInv, WardrobeInv
  PROVE  WardrobeFollowsLevel
<1> SUFFICES ASSUME NEW u \in Users, NEW o \in Seeded \intersect Outfits,
                    Gate[o] # NoLimit, Gate[o] <= AnnouncedLevel(u)
             PROVE  Owns(u, o)
  BY DEF WardrobeFollowsLevel, WardrobeInv, WardrobeOf, ViaLevel, Owns
<1>1. AnnouncedLevel(u) \in Levels(u)
  BY AnnouncedIsTop DEF TopInv
<1>2. Gate[o] \in Nat \ {0, 1}
  BY GateAssumption
<1>3. AnnouncedLevel(u) # 1
  BY <1>2
<1>4. PICK i \in LevelUps(u) : AnnouncedLevel(u) = outbox[i].level
  BY <1>1, <1>3 DEF Levels
<1> QED
  BY <1>4 DEF WardrobeInv, WardrobeOf, Dressed

LEMMA StepKeepsSeen ==
  ASSUME TypeInv, SeenStays, NEW w \in Workers, Step(w)
  PROVE  SeenStays'
<1>1. userOutfits \subseteq userOutfits'
  BY StepApplies, AppliesSilently, AppliesRising DEF Silent
<1>2. catalogRows \subseteq catalogRows'
  BY DEF Step, Begin, Rollback, IngestDuplicate, IngestNew, AwardUnknown, AwardAgain, AwardNew,
         GrantNothing, GrantOutfit, BootstrapLedger, SeedCatalog, tables
<1>3. ASSUME NEW v \in Workers, txn'[v] # Idle
      PROVE  /\ Seeded \subseteq txn'[v].snap.catalogRows
             /\ txn'[v].snap.userOutfits \subseteq userOutfits'
  <2>1. CASE txn'[v] = txn[v]
    BY <1>1, <1>3, <2>1 DEF SeenStays
  <2>2. CASE txn'[v] # txn[v]
    <3>1. v = w /\ Begin(w)
      BY <2>2, <1>3 DEF TypeInv, Step, Begin, Rollback, IngestDuplicate, IngestNew, AwardUnknown,
                  AwardAgain, AwardNew, GrantNothing, GrantOutfit, BootstrapLedger,
                  SeedCatalog, Commit
    <3>2. txn'[v].snap = Tables /\ UNCHANGED tables
      BY <3>1 DEF TypeInv, Begin
    <3>3. txn'[v].snap.catalogRows = catalogRows /\ txn'[v].snap.userOutfits = userOutfits
      BY <3>2 DEF Tables
    <3> QED
      BY <1>1, <3>3 DEF SeenStays
  <2> QED
    BY <2>1, <2>2
<1> QED
  BY <1>2, <1>3 DEF SeenStays

LEMMA SilentWardrobe ==
  ASSUME TypeInv, NEW u, WardrobeOf(u), Silent(u)
  PROVE  WardrobeOf(u)'
<1>1. /\ \A i \in LevelUps(u) : outbox'[i] = outbox[i]
      /\ \A i \in Unlocks(u) : outbox'[i] = outbox[i]
      /\ LevelUps(u)' = LevelUps(u) /\ Unlocks(u)' = Unlocks(u)
      /\ userOutfits \subseteq userOutfits' /\ ViaLevel(u)' = ViaLevel(u)
  BY PlacesBound DEF Silent
<1>2. (UNION {outbox[i].codes : i \in Unlocks(u)})' = UNION {outbox[i].codes : i \in Unlocks(u)}
  BY <1>1
<1>3. Dressed(u)'
  BY <1>1 DEF WardrobeOf, Dressed, Owns
<1> QED
  BY <1>1, <1>2, <1>3 DEF WardrobeOf

\* The outfits a level-up grants are not owned by u, hence never announced; all
\* others of that level she owns already, in the eyes of the transaction and
\* therefore still.
LEMMA RisingWardrobe ==
  ASSUME TypeInv, SeenStays, NEW w \in Workers, NEW u \in Users, NEW xp \in Nat,
         Applies(w, u, xp), Rises(w, u, xp), WardrobeOf(u)
  PROVE  WardrobeOf(u)'
<1> DEFINE new == Risen(w, u, xp)
           codes == Unlocked(txn[w].snap, u, new.level)
           n == Len(outbox)
           owned == {[user |-> u, code |-> o, via |-> LevelUp] : o \in codes}
<1>1. /\ \A i \in DOMAIN outbox : outbox'[i] = outbox[i]
      /\ LevelUps(u)' = LevelUps(u) \union {n + 1}
      /\ outbox'[n + 1].level = new.level
      /\ Unlocks(u)' = Unlocks(u) \union (IF codes # {} THEN {n + 2} ELSE {})
      /\ codes # {} => outbox'[n + 2].codes = codes
      /\ \A g \in userOutfits : ~(g.user = u /\ g.code \in codes)
      /\ userOutfits' = userOutfits \union owned
  BY AppliesRising
<1>2. \A o \in Seeded \intersect Outfits : Gate[o] # NoLimit /\ Gate[o] <= new.level =>
        o \in codes \/ Owns(u, o)
  BY DEF Applies, SeenStays, Unlocked, Owns
<1>3. /\ \A g \in owned : g.user = u /\ g.via = LevelUp /\ g.code \in codes
      /\ \A o \in codes : \E g \in owned : g.user = u /\ g.via = LevelUp /\ g.code = o
  <2> HIDE DEF codes
  <2>1. \A g \in owned : g.user = u /\ g.via = LevelUp /\ g.code \in codes
    OBVIOUS
  <2>2. ASSUME NEW o \in codes PROVE \E g \in owned : g.user = u /\ g.via = LevelUp /\ g.code = o
    <3>1. [user |-> u, code |-> o, via |-> LevelUp] \in owned
      OBVIOUS
    <3> QED
      BY <3>1
  <2> QED
    BY <2>1, <2>2
<1> HIDE DEF new, codes, n, owned
<1>4. /\ \A i \in LevelUps(u) \union Unlocks(u) : outbox'[i] = outbox[i]
      /\ n + 1 \notin LevelUps(u) /\ n + 2 \notin Unlocks(u)
  BY <1>1, PlacesBound DEF n
<1>5. ViaLevel(u)' = ViaLevel(u) \union codes
  BY <1>1, <1>3 DEF ViaLevel
<1>6. (UNION {outbox[i].codes : i \in Unlocks(u)})'
        = (UNION {outbox[i].codes : i \in Unlocks(u)}) \union codes
  <2>1. CASE codes = {}
    BY <1>1, <1>4, <2>1
  <2>2. CASE codes # {}
    BY <1>1, <1>4, <2>2
  <2> QED
    BY <2>1, <2>2
<1>7. ViaLevel(u) \intersect codes = {}
  BY <1>1 DEF ViaLevel
<1>8. \A i \in Unlocks(u) : outbox[i].codes \intersect codes = {}
  BY <1>7 DEF WardrobeOf
<1>9. ASSUME NEW i \in Unlocks(u)', NEW j \in Unlocks(u)', i # j
      PROVE  outbox'[i].codes \intersect outbox'[j].codes = {}
  <2>1. CASE i \in Unlocks(u) /\ j \in Unlocks(u)
    BY <1>4, <1>9, <2>1 DEF WardrobeOf
  <2>2. CASE i \in Unlocks(u) /\ j \notin Unlocks(u)
    <3>1. j = n + 2 /\ codes # {}
      BY <1>1, <2>2
    <3> QED
      BY <1>1, <1>4, <1>8, <2>2, <3>1
  <2>3. CASE i \notin Unlocks(u) /\ j \in Unlocks(u)
    <3>1. i = n + 2 /\ codes # {}
      BY <1>1, <2>3
    <3> QED
      BY <1>1, <1>4, <1>8, <2>3, <3>1
  <2>4. CASE i \notin Unlocks(u) /\ j \notin Unlocks(u)
    BY <1>1, <1>9, <2>4
  <2> QED
    BY <2>1, <2>2, <2>3, <2>4
<1>10. ASSUME NEW i \in LevelUps(u)', NEW o \in Seeded \intersect Outfits,
              Gate[o] # NoLimit, Gate[o] <= outbox'[i].level
       PROVE  Owns(u, o)'
  <2>1. Owns(u, o) => Owns(u, o)'
    BY <1>1 DEF Owns
  <2>2. o \in codes => Owns(u, o)'
    BY <1>1, <1>3 DEF Owns
  <2>3. CASE i \in LevelUps(u)
    <3>1. outbox'[i] = outbox[i]
      BY <1>4, <2>3
    <3> QED
      BY <1>10, <2>1, <2>3, <3>1 DEF WardrobeOf, Dressed
  <2>4. CASE i \notin LevelUps(u)
    <3>1. i = n + 1
      BY <1>1, <2>4
    <3> QED
      BY <1>1, <1>2, <1>10, <2>1, <2>2, <3>1
  <2> QED
    BY <2>3, <2>4
<1>11. Dressed(u)'
  BY <1>10 DEF Dressed
<1> QED
  BY <1>5, <1>6, <1>9, <1>11 DEF WardrobeOf

\* What a user owns through her level was announced once, nothing else was, and
\* the outfits of the last level announced are hers, for any catalog gated above
\* level 1, any number of racing handlers and on either kind of database.
THEOREM WardrobesFollow == Spec => []WardrobeFollowsLevel
<1>1. Init => WardrobeInv
  BY DEF Init, WardrobeInv, SeenStays, WardrobeOf, ViaLevel, Unlocks, Dressed, LevelUps
<1>2. ASSUME TypeInv, WardrobeInv, [Next]_vars PROVE WardrobeInv'
  <2>1. CASE UNCHANGED vars
    BY <1>2, <2>1 DEF vars, tables, WardrobeInv, SeenStays, WardrobeOf, ViaLevel, Unlocks,
                      Dressed, LevelUps, Owns
  <2>2. ASSUME NEW w \in Workers, Step(w) PROVE WardrobeInv'
    <3>1. SeenStays'
      BY <1>2, <2>2, StepKeepsSeen DEF WardrobeInv
    <3>2. ASSUME NEW v \in Users PROVE WardrobeOf(v)'
      BY <1>2, <2>2, StepApplies, AppliesSilently, SilentWardrobe, RisingWardrobe
         DEF WardrobeInv
    <3> QED
      BY <3>1, <3>2 DEF WardrobeInv
  <2> QED
    BY <1>2, <2>1, <2>2 DEF Next
<1> QED
  BY <1>1, <1>2, WardrobeInvImplies, SpecTopInv, PTL DEF Spec

-----------------------------------------------------------------------------
(* Mirrors.                                                                *)

LevelOf(row) == Loaded(row).level

LEMMA LevelOfType ==
  ASSUME TypeInv, LevelMatchesXp, NEW u \in Users
  PROVE  /\ Loaded(progression[u]) \in Progression /\ Agree(Loaded(progression[u]))
         /\ LevelOf(progression[u]) \in Nat /\ LevelOf(progression[u]) >= 1
<1>1. progression[u] \in Progression \union {NoRow}
  BY DEF TypeInv, TablesOK
<1>2. Loaded(progression[u]) \in Progression /\ Agree(Loaded(progression[u]))
  BY <1>1, BaselineAgrees DEF Loaded, LevelMatchesXp, Agree
<1> QED
  BY <1>2, CurveAssumption DEF LevelOf, Progression

\* A level-up is computed from the row as it is.
LEMMA RisingFromNow ==
  ASSUME FirstUpdaterWins, TypeInv, NEW w \in Workers, NEW u \in Users, NEW xp \in Nat,
         Applies(w, u, xp)
  PROVE  /\ \A v \in Users \ {u} : progression'[v] = progression[v]
         /\ Rises(w, u, xp) => /\ progression[u] = txn[w].snap.progression[u]
                               /\ progression'[u] = Risen(w, u, xp)
         /\ ~Rises(w, u, xp) => LevelOf(progression'[u]) = LevelOf(progression[u])
<1> PICK more \in Seq(OutboxEvent) : ApplyXp(txn[w].snap, u, xp, more)
  BY DEF Applies
<1>1. txn[w] # Idle
  BY DEF Applies
<1>2. /\ progression'[u] = Applied(Loaded(progression[u]), xp)
      /\ \A v \in Users \ {u} : progression'[v] = progression[v]
      /\ xp > 0 => progression[u] = txn[w].snap.progression[u]
  BY <1>1, ApplyXpEffect
<1>3. Loaded(progression[u]) \in Progression /\ progression'[u] \in Progression
  BY <1>2, TotalType, AppliedType
<1>4. Loaded(progression'[u]) = progression'[u]
  BY <1>3, NoRowAssumption DEF Loaded
<1>5. CASE xp = 0
  <2>1. ~Rises(w, u, xp)
    <3>1. Risen(w, u, xp) = Loaded(txn[w].snap.progression[u])
      BY <1>5, AppliedZero DEF Risen
    <3>2. Loaded(txn[w].snap.progression[u]).level \in Nat
      <4>1. Loaded(txn[w].snap.progression[u]) \in Progression
        BY <1>1, LoadedType
      <4> QED
        BY <4>1, CurveAssumption DEF Progression
    <3> QED
      BY <3>1, <3>2 DEF Rises
  <2>2. progression'[u] = Loaded(progression[u])
    BY <1>2, <1>5, AppliedZero
  <2> QED
    BY <1>2, <1>4, <2>1, <2>2 DEF LevelOf
<1>6. CASE xp # 0
  <2>1. progression[u] = txn[w].snap.progression[u]
    BY <1>2, <1>6
  <2>2. progression'[u] = Risen(w, u, xp)
    BY <1>2, <2>1 DEF Risen
  <2>3. ~Rises(w, u, xp) => Risen(w, u, xp).level = LevelOf(progression[u])
    BY <1>1, <2>1, RisenType DEF LevelOf
  <2> QED
    BY <1>2, <1>4, <2>1, <2>2, <2>3 DEF LevelOf
<1> QED
  BY <1>5, <1>6

\* What becomes of the level of v: it rises and is announced, it stays, or a
\* bootstrap restores it where there was no XP.
RestoredBy(v, e) ==
  /\ e.user = v /\ e.kind = Bootstrap /\ e.xp \in Nat
  /\ TotalOf(progression[v]) = 0 /\ progression'[v] = Restored(e.xp)

LEMMA StepLevel ==
  ASSUME FirstUpdaterWins, TypeInv, NEW w \in Workers, Step(w), NEW v \in Users
  PROVE  \/ \E xp \in Nat : Applies(w, v, xp) /\ Rises(w, v, xp)
         \/ /\ Silent(v)
            /\ \/ LevelOf(progression'[v]) = LevelOf(progression[v])
               \/ \E e \in ledger' : RestoredBy(v, e)
<1>1. ASSUME NEW u \in Users, NEW xp \in Nat, Applies(w, u, xp), v # u \/ ~Rises(w, u, xp)
      PROVE  Silent(v) /\ LevelOf(progression'[v]) = LevelOf(progression[v])
  <2>1. Silent(v)
    BY <1>1, AppliesSilently
  <2>2. progression'[v] = progression[v] \/ LevelOf(progression'[v]) = LevelOf(progression[v])
    BY <1>1, RisingFromNow
  <2> QED
    BY <2>1, <2>2
<1>2. CASE ~IngestNew(w) /\ ~AwardNew(w) /\ Silent(v)
  <2>1. CASE IngestDuplicate(w) \/ AwardAgain(w)
    <3> DEFINE u == txn[w].req.user
    <3>1. txn[w] # Idle /\ u \in Users /\ GetOrCreate(txn[w].snap, u)
      BY <2>1, RequestType DEF IngestDuplicate, AwardAgain, Running, IsRequest
    <3>2. progression' = [progression EXCEPT ![u] = Loaded(progression[u])]
      BY <3>1, GetOrCreateEffect
    <3>3. progression'[v] \in {progression[v], Loaded(progression[v])}
      BY <3>1, <3>2 DEF TypeInv, TablesOK
    <3>4. LevelOf(Loaded(progression[v])) = LevelOf(progression[v])
      BY TotalType, NoRowAssumption DEF LevelOf, Loaded
    <3> QED
      BY <1>2, <3>3, <3>4
  <2>2. CASE BootstrapLedger(w)
    <3> DEFINE r == txn[w].req
               row == BootstrapRow(r, v)
    <3>1. \/ progression'[v] \in {progression[v], Loaded(progression[v])}
          \/ /\ v \in DOMAIN r.xp
             /\ ~KeyUsed(txn[w].snap.ledger, r.app, BootstrapKey(v))
             /\ r.xp[v] \in Nat /\ TotalOf(progression[v]) = 0
             /\ progression'[v] = Restored(r.xp[v])
      BY <2>2, BootstrapEffect
    <3>2. LevelOf(Loaded(progression[v])) = LevelOf(progression[v])
      BY TotalType, NoRowAssumption DEF LevelOf, Loaded
    <3>3. v \in DOMAIN r.xp /\ ~KeyUsed(txn[w].snap.ledger, r.app, BootstrapKey(v))
            => row \in ledger'
      BY <2>2 DEF BootstrapLedger
    <3>4. row.user = v /\ row.kind = Bootstrap /\ row.xp = r.xp[v]
      BY DEF BootstrapRow
    <3> HIDE DEF row
    <3> QED
      BY <1>2, <3>1, <3>2, <3>3, <3>4 DEF RestoredBy
  <2>3. CASE ~IngestDuplicate(w) /\ ~AwardAgain(w) /\ ~BootstrapLedger(w)
    <3>1. progression' = progression
      BY <1>2, <2>3 DEF Step, Begin, Rollback, AwardUnknown, GrantNothing, GrantOutfit,
                        SeedCatalog, tables
    <3> QED
      BY <1>2, <3>1
  <2> QED
    BY <2>1, <2>2, <2>3
<1> QED
  BY <1>1, <1>2, StepApplies

\* MirrorsCanFollow, and what it needs of the step before: nothing announced is
\* above the level the row has now.
MirrorOf(u) ==
  /\ \A i, j \in LevelUps(u) : i < j => outbox[i].level < outbox[j].level
  /\ \A i \in LevelUps(u) : outbox[i].level = LevelFor(outbox[i].total)
  /\ \A l \in Levels(u) : LevelOf(progression[u]) >= l
  /\ \/ LevelOf(progression[u]) \in Levels(u)
     \/ \E e \in ledger : /\ e.user = u /\ e.kind = Bootstrap
                          /\ LevelOf(progression[u]) = LevelFor(e.xp)

MirrorInv == \A u \in Users : MirrorOf(u)

LEMMA MirrorInvImplies ==
  ASSUME TypeInv, TopInv, LevelMatchesXp, MirrorInv
  PROVE  MirrorsCanFollow
<1> SUFFICES ASSUME NEW u \in Users, progression[u] # NoRow
             PROVE  \/ progression[u].level = AnnouncedLevel(u)
                    \/ \E e \in ledger : /\ e.user = u /\ e.kind = Bootstrap
                                         /\ progression[u].level = LevelFor(e.xp)
  BY DEF MirrorsCanFollow, MirrorInv, MirrorOf
<1>1. LevelOf(progression[u]) = progression[u].level
  BY DEF LevelOf, Loaded
<1>2. MirrorOf(u)
  BY DEF MirrorInv
<1>3. CASE LevelOf(progression[u]) \in Levels(u)
  <2>1. AnnouncedLevel(u) \in Levels(u) /\ AnnouncedLevel(u) >= LevelOf(progression[u])
    BY <1>3, AnnouncedIsTop DEF TopInv
  <2>2. LevelOf(progression[u]) >= AnnouncedLevel(u)
    BY <1>2, <2>1 DEF MirrorOf
  <2>3. LevelOf(progression[u]) \in Nat /\ AnnouncedLevel(u) \in Nat
    BY <2>1, LevelOfType, LevelsType
  <2> QED
    BY <1>1, <2>1, <2>2, <2>3
<1> QED
  BY <1>1, <1>2, <1>3 DEF MirrorOf

LEMMA SilentMirror ==
  ASSUME TypeInv, NEW u, MirrorOf(u), Silent(u), ledger \subseteq ledger',
         LevelOf(progression'[u]) = LevelOf(progression[u])
  PROVE  MirrorOf(u)'
<1>1. /\ \A i \in LevelUps(u) : outbox'[i] = outbox[i]
      /\ LevelUps(u)' = LevelUps(u)
  BY PlacesBound DEF Silent
<1>2. Levels(u)' = Levels(u)
  BY SilentLevels
<1>3. LevelOf(progression[u])' = LevelOf(progression'[u])
  BY DEF LevelOf, Loaded, Baseline
<1>4. \A xp : LevelFor(xp)' = LevelFor(xp)
  BY DEF LevelFor
<1> QED
  BY <1>1, <1>2, <1>3, <1>4 DEF MirrorOf, LevelFor

\* Without XP the level was 1, so nothing was announced and nothing is undone.
LEMMA RestoredMirror ==
  ASSUME TypeInv, LevelMatchesXp, NEW u \in Users, MirrorOf(u), Silent(u),
         ledger \subseteq ledger', NEW e \in ledger', RestoredBy(u, e)
  PROVE  MirrorOf(u)'
<1>1. /\ \A i \in LevelUps(u) : outbox'[i] = outbox[i]
      /\ LevelUps(u)' = LevelUps(u)
  BY PlacesBound DEF Silent
<1>2. Levels(u)' = Levels(u)
  BY SilentLevels
<1>3. LevelOf(progression[u]) = 1
  <2>1. Agree(Loaded(progression[u])) /\ Loaded(progression[u]).total = 0
    BY LevelOfType DEF RestoredBy, TotalOf
  <2> QED
    BY <2>1, LevelForZero DEF Agree, LevelOf
<1>4. LevelOf(progression'[u]) = LevelFor(e.xp) /\ LevelFor(e.xp) \in Nat /\ LevelFor(e.xp) >= 1
  <2>1. progression'[u] \in Progression /\ progression'[u].level = LevelFor(e.xp)
    BY RestoredAgrees DEF RestoredBy, Restored
  <2> QED
    BY <2>1, NoRowAssumption, CurveAssumption DEF LevelOf, Loaded, Progression
<1>5. \A l \in Levels(u) : LevelOf(progression'[u]) >= l
  <2> SUFFICES ASSUME NEW l \in Levels(u) PROVE LevelOf(progression'[u]) >= l
    OBVIOUS
  <2>1. l \in Nat /\ 1 >= l
    BY <1>3, LevelsType DEF MirrorOf
  <2> QED
    BY <1>4, <2>1
<1>6. LevelOf(progression[u])' = LevelOf(progression'[u])
  BY DEF LevelOf, Loaded, Baseline
<1>7. \A xp : LevelFor(xp)' = LevelFor(xp)
  BY DEF LevelFor
<1>8. /\ e \in ledger' /\ e.user = u /\ e.kind = Bootstrap
      /\ LevelOf(progression[u])' = LevelFor(e.xp)
  BY <1>4, <1>6 DEF RestoredBy
<1> QED
  BY <1>1, <1>2, <1>5, <1>6, <1>7, <1>8 DEF MirrorOf

LEMMA RisingMirror ==
  ASSUME FirstUpdaterWins, TypeInv, LevelMatchesXp, NEW w \in Workers, NEW u \in Users,
         NEW xp \in Nat, Applies(w, u, xp), Rises(w, u, xp), MirrorOf(u)
  PROVE  MirrorOf(u)'
<1> DEFINE new == Risen(w, u, xp)
           n == Len(outbox)
<1>1. /\ \A i \in DOMAIN outbox : outbox'[i] = outbox[i]
      /\ LevelUps(u)' = LevelUps(u) \union {n + 1}
      /\ outbox'[n + 1].level = new.level /\ outbox'[n + 1].total = new.total
  BY AppliesRising
<1>2. /\ \A i \in LevelUps(u) : /\ outbox'[i] = outbox[i] /\ i \in Nat /\ i <= n
                                /\ outbox[i].level \in Levels(u)
      /\ n \in Nat
  BY <1>1, PlacesBound DEF Levels
<1>3. Levels(u)' = Levels(u) \union {new.level}
  BY RisingLevels
<1>4. progression[u] = txn[w].snap.progression[u] /\ progression'[u] = new
  BY RisingFromNow
<1>5. Agree(new) /\ new \in Progression
  BY <1>4, LevelOfType, AppliedAgrees, AppliedType DEF Risen
<1>6. new.level > LevelOf(progression[u])
  BY <1>4 DEF Rises, LevelOf
<1>7. LevelOf(progression'[u]) = new.level
  BY <1>4, <1>5, NoRowAssumption DEF LevelOf, Loaded
<1>8. new.level \in Nat /\ LevelOf(progression[u]) \in Nat /\ Levels(u) \subseteq Nat
  BY <1>5, LevelOfType, LevelsType, CurveAssumption DEF Progression
<1>9. new.level = LevelFor(new.total)
  BY <1>5 DEF Agree
<1> HIDE DEF new, n
<1>10. \A l \in Levels(u) : new.level > l
  <2> SUFFICES ASSUME NEW l \in Levels(u) PROVE new.level > l
    OBVIOUS
  <2>1. LevelOf(progression[u]) >= l /\ l \in Nat
    BY <1>8 DEF MirrorOf
  <2> QED
    BY <1>6, <1>8, <2>1
<1>11. \A l \in Levels(u)' : LevelOf(progression'[u]) >= l
  BY <1>3, <1>7, <1>8, <1>10
<1>12. ASSUME NEW i \in LevelUps(u)', NEW j \in LevelUps(u)', i < j
       PROVE  outbox'[i].level < outbox'[j].level
  <2>1. CASE j \in LevelUps(u)
    <3>1. i # n + 1
      BY <1>2, <1>12, <2>1
    <3>2. i \in LevelUps(u)
      BY <1>1, <3>1
    <3> QED
      BY <1>2, <1>12, <2>1, <3>2 DEF MirrorOf
  <2>2. CASE j \notin LevelUps(u)
    <3>1. j = n + 1
      BY <1>1, <2>2
    <3>2. i # n + 1
      BY <1>2, <1>12, <3>1
    <3>3. i \in LevelUps(u)
      BY <1>1, <3>2
    <3>4. outbox'[i].level \in Levels(u)
      BY <1>2, <3>3
    <3> QED
      BY <1>1, <1>8, <1>10, <3>1, <3>4
  <2> QED
    BY <2>1, <2>2
<1>13. ASSUME NEW i \in LevelUps(u)'
       PROVE  outbox'[i].level = LevelFor(outbox'[i].total)
  <2>1. CASE i \in LevelUps(u)
    BY <1>2, <2>1 DEF MirrorOf
  <2>2. CASE i = n + 1
    BY <1>1, <1>9, <2>2
  <2> QED
    BY <1>1, <2>1, <2>2
<1>14. LevelOf(progression'[u]) \in Levels(u)'
  BY <1>3, <1>7
<1>15. LevelOf(progression[u])' = LevelOf(progression'[u])
  BY DEF LevelOf, Loaded, Baseline
<1> QED
  BY <1>11, <1>12, <1>13, <1>14, <1>15 DEF MirrorOf, LevelFor

\* An App that mirrors the level_up events of a user in their order sees levels
\* that only rise, each with the total that earned it, and ends at her level,
\* unless a bootstrap restored that silently: with any number of handlers, on a
\* database that refuses the UPDATE of a row changed since it was read.
THEOREM MirrorsFollow ==
  ASSUME FirstUpdaterWins
  PROVE  Spec => []MirrorsCanFollow
<1>1. Init => MirrorInv
  <2> SUFFICES ASSUME Init, NEW u \in Users PROVE MirrorOf(u)
    BY DEF MirrorInv
  <2>1. LevelUps(u) = {} /\ LevelOf(progression[u]) = 1
    BY DEF Init, LevelUps, LevelOf, Loaded, Baseline
  <2>2. Levels(u) = {1}
    BY <2>1 DEF Levels
  <2> QED
    BY <2>1, <2>2 DEF MirrorOf
<1>2. ASSUME TypeInv, LevelMatchesXp, MirrorInv, [Next]_vars PROVE MirrorInv'
  <2>1. CASE UNCHANGED vars
    BY <1>2, <2>1 DEF vars, tables, MirrorInv, MirrorOf, Levels, LevelUps, LevelOf, Loaded,
                      Baseline, LevelFor
  <2>2. ASSUME NEW w \in Workers, Step(w), NEW u \in Users PROVE MirrorOf(u)'
    <3>1. ledger \subseteq ledger' /\ MirrorOf(u)
      BY <1>2, <2>2, StepRows DEF MirrorInv
    <3> QED
      BY <1>2, <2>2, <3>1, StepLevel, SilentMirror, RestoredMirror, RisingMirror
  <2> QED
    BY <1>2, <2>1, <2>2 DEF Next, MirrorInv
<1> QED
  BY <1>1, <1>2, MirrorInvImplies, SpecTopInv, LevelsMatch, PTL DEF Spec

=============================================================================
