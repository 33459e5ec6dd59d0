---------------------------- MODULE PartsProofs ----------------------------
(***************************************************************************)
(* The parts that MCParts runs, proved for every value of their constants: *)
(* how old may be what the two caches serve, for any number of processes   *)
(* and requests, any TTLs and any run of the clock; the cap of a day, for  *)
(* any timestamps; which days of engagement make a loyalist; the level of  *)
(* every total of XP; and what overlapping seeds and uploads leave in the  *)
(* catalogs.                                                               *)
(***************************************************************************)
EXTENDS GroupStreakCache, KeyCache, EngagementDays, LevelCurve, CatalogSeeds,
        FiniteSetTheorems, WellFoundedInduction, TLAPS

-----------------------------------------------------------------------------
(* The public key.                                                         *)

Answered == [phase : {"answered"}, key : Nat, at : Nat]

KeyTypes ==
  /\ now \in Nat /\ fetchedAt \in Nat
  /\ rotatedAt \in Seq(Nat)
  /\ pem \in Nat \union {NoKey}
  /\ fetch \in [Verifiers -> {NoFetch, [phase |-> "asked"]} \union Answered]

\* A key that was the platform's at time t or later is no key of the future.
Known(k, t) == k <= CurrentKey /\ InUseSince(k, t)

\* What is under way was the platform's key when it left and has not been under
\* way for too long; what is held was its key one Latency before it arrived.
KeyInv ==
  /\ KeyTypes
  /\ \A v \in Verifiers : fetch[v] \in Answered =>
       /\ Known(fetch[v].key, fetch[v].at)
       /\ fetch[v].at <= now /\ now - fetch[v].at <= Latency
  /\ pem # NoKey => Known(pem, fetchedAt - Latency)
  /\ fetchedAt <= now

LEMMA NotAnswered ==
  /\ NoFetch \notin Answered /\ [phase |-> "asked"] \notin Answered
  /\ \A f \in {NoFetch, [phase |-> "asked"]} \union Answered :
       /\ f \in Answered <=> f.phase = "answered"
       /\ f = NoFetch <=> f.phase = "none"
       /\ f = [phase |-> "asked"] <=> f.phase = "asked"
BY DEF NoFetch, Answered

\* A rotation does not make a key less known, nor does the time it is asked for
\* when that moves back.
LEMMA KnownSurvives ==
  ASSUME KeyTypes, Rotate, NEW k \in Nat, NEW t \in Int, t <= now, Known(k, t)
  PROVE  Known(k, t)'
<1>1. rotatedAt' = Append(rotatedAt, now) /\ rotatedAt \in Seq(Nat) /\ now \in Nat
  BY DEF Rotate, KeyTypes
<1>2. /\ Len(rotatedAt') = Len(rotatedAt) + 1
      /\ rotatedAt'[Len(rotatedAt) + 1] = now
      /\ \A i \in 1 .. Len(rotatedAt) : rotatedAt'[i] = rotatedAt[i]
  BY <1>1
<1>3. Len(rotatedAt) \in Nat
  BY <1>1
<1> QED
  BY <1>2, <1>3 DEF Known, InUseSince, CurrentKey

LEMMA KnownEarlier ==
  ASSUME KeyTypes, NEW k \in Nat, NEW t \in Int, NEW s \in Int, s <= t, Known(k, t)
  PROVE  Known(k, s)
<1>1. k # CurrentKey => rotatedAt[k + 1] \in Nat
  BY DEF KeyTypes, Known, CurrentKey
<1> QED
  BY <1>1 DEF Known, InUseSince

LEMMA KeyInitInv == KeyCacheInit => KeyInv
BY NotAnswered DEF KeyCacheInit, ClockInit, KeyInv, KeyTypes, NoKey

LEMMA KeyNextInv == KeyInv /\ [KeyCacheNext]_keyVars => KeyInv'
<1> SUFFICES ASSUME KeyInv, [KeyCacheNext]_keyVars PROVE KeyInv'
  OBVIOUS
<1> USE KeyAssumption
<1>1. CASE UNCHANGED keyVars
  BY <1>1 DEF keyVars, KeyInv, KeyTypes, Known, InUseSince, CurrentKey
<1>2. CASE Rotate
  <2>1. KeyTypes'
    BY <1>2 DEF Rotate, KeyInv, KeyTypes
  <2>2. /\ UNCHANGED <<now, pem, fetchedAt, fetch>> /\ KeyTypes
    BY <1>2 DEF Rotate, KeyInv
  <2>3. ASSUME NEW v \in Verifiers, fetch[v] \in Answered
        PROVE  Known(fetch[v].key, fetch[v].at)'
    <3>1. Known(fetch[v].key, fetch[v].at) /\ fetch[v].at <= now
      BY <2>3 DEF KeyInv
    <3>2. fetch[v].key \in Nat /\ fetch[v].at \in Nat
      BY <2>3 DEF Answered
    <3>3. ASSUME NEW c, NEW d, c = fetch[v].key, d = fetch[v].at PROVE Known(c, d)'
      BY <3>1, <3>2, <3>3, <2>2, <1>2, KnownSurvives
    <3> QED
      BY <2>2, <3>3
  <2>4. ASSUME pem # NoKey PROVE Known(pem, fetchedAt - Latency)'
    <3>1. /\ pem \in Nat /\ fetchedAt - Latency \in Int /\ fetchedAt - Latency <= now
          /\ Known(pem, fetchedAt - Latency)
      BY <2>4 DEF KeyInv, KeyTypes
    <3>2. ASSUME NEW c, NEW d, c = pem, d = fetchedAt - Latency PROVE Known(c, d)'
      BY <3>1, <3>2, <2>2, <1>2, KnownSurvives
    <3> QED
      BY <2>2, <3>2
  <2> QED
    BY <2>1, <2>2, <2>3, <2>4 DEF KeyInv
<1>3. CASE ForgetKey
  BY <1>3, NotAnswered DEF ForgetKey, KeyInv, KeyTypes
<1>4. CASE KeyTick
  <2>1. now' = now + 1 /\ UNCHANGED <<rotatedAt, pem, fetchedAt, fetch>>
    BY <1>4 DEF KeyTick, Tick
  <2>2. \A v \in Verifiers : fetch[v] \in Answered => now - fetch[v].at < Latency
    BY <1>4, NotAnswered DEF KeyTick, Answered
  <2>3. \A k, t : Known(k, t)' <=> Known(k, t)
    BY <2>1 DEF Known, InUseSince, CurrentKey
  <2> QED
    BY <2>1, <2>2, <2>3 DEF KeyInv, KeyTypes, Answered, Known, InUseSince, CurrentKey
<1>5. ASSUME NEW v \in Verifiers, Ask(v) \/ FetchFails(v) PROVE KeyInv'
  BY <1>5, NotAnswered DEF Ask, FetchFails, KeyInv, KeyTypes, Known, InUseSince, CurrentKey
<1>6. ASSUME NEW v \in Verifiers, PlatformAnswers(v) PROVE KeyInv'
  <2> DEFINE f == [phase |-> "answered", key |-> CurrentKey, at |-> now]
  <2>1. f \in Answered /\ Known(f.key, f.at)
    BY DEF KeyInv, KeyTypes, Answered, Known, InUseSince, CurrentKey
  <2>2. fetch' = [fetch EXCEPT ![v] = f] /\ UNCHANGED <<now, rotatedAt, pem, fetchedAt>>
    BY <1>6 DEF PlatformAnswers
  <2>3. f.at = now
    OBVIOUS
  <2> HIDE DEF f
  <2> QED
    BY <2>1, <2>2, <2>3 DEF KeyInv, KeyTypes, Known, InUseSince, CurrentKey
<1>7. ASSUME NEW v \in Verifiers, Install(v) PROVE KeyInv'
  <2>1. fetch[v] \in Answered
    BY <1>7, NotAnswered DEF Install, KeyInv, KeyTypes
  <2>2. /\ fetch[v].key \in Nat /\ fetch[v].at \in Nat /\ now \in Nat
        /\ Known(fetch[v].key, fetch[v].at) /\ now - Latency <= fetch[v].at
    BY <2>1 DEF KeyInv, KeyTypes, Answered
  <2>3. Known(fetch[v].key, now - Latency)
    BY <2>2, KnownEarlier DEF KeyInv
  <2>4. /\ pem' = fetch[v].key /\ fetchedAt' = now
        /\ fetch' = [fetch EXCEPT ![v] = NoFetch] /\ UNCHANGED <<now, rotatedAt>>
    BY <1>7 DEF Install
  <2> QED
    BY <2>2, <2>3, <2>4, NotAnswered DEF KeyInv, KeyTypes, Known, InUseSince, CurrentKey
<1> QED
  BY <1>1, <1>2, <1>3, <1>4, <1>5, <1>6, <1>7 DEF KeyCacheNext

\* A key that the platform has replaced passes no token for longer than the TTL
\* and the time an answer is under way, however many requests refresh it at once
\* and in whatever order the answers come.
THEOREM KeyAges == KeyCacheSpec => []KeyWithinWindow
<1>1. KeyInv => KeyWithinWindow
  <2> SUFFICES ASSUME KeyInv, Fresh PROVE InUseSince(pem, now - KEY_TTL - Latency)
    BY DEF KeyWithinWindow
  <2>1. /\ pem \in Nat /\ fetchedAt \in Nat /\ now \in Nat /\ now - fetchedAt <= KEY_TTL
        /\ Known(pem, fetchedAt - Latency)
    BY DEF Fresh, KeyInv, KeyTypes
  <2>2. now - KEY_TTL - Latency <= fetchedAt - Latency
    BY <2>1, KeyAssumption
  <2> QED
    BY <2>1, <2>2, KnownEarlier, KeyAssumption DEF Known, KeyInv
<1> QED
  BY <1>1, KeyInitInv, KeyNextInv, PTL DEF KeyCacheSpec

-----------------------------------------------------------------------------
(* The read cache of the group streak.                                     *)

StreakRows == StreakRow \union {NoRow}

Reading == [phase : {"reading"}, start : Nat]
Read == [phase : {"read"}, start : Nat, row : StreakRows, version : Nat, overtaken : BOOLEAN]
Committed == [phase : {"committed"}, version : Nat, bumped : BOOLEAN]
EntryRecord ==
  [expires : Int, row : StreakRows, today : BOOLEAN, version : Nat, overtaken : BOOLEAN]

CacheTypes ==
  /\ now \in Nat
  /\ streak \in StreakRows
  /\ changedAt \in Seq(Nat)
  /\ cache \in [Processes -> {NoEntry} \union EntryRecord]
  /\ request \in [Handlers -> {Waiting} \union Reading \union Read \union Committed]
  /\ told \in [Processes -> Nat]

\* Version v of the row was the last one until some time from t on.
LastedTo(v, t) == v <= Version /\ (v = Version \/ changedAt[v + 1] >= t)

\* Something that was read, from time `start' on and for process p, says whether
\* the process has been told better in the meantime.
Honest(v, start, overtaken, p) ==
  /\ start <= now
  /\ LastedTo(v, start)
  /\ v < told[p] => overtaken

CacheInv ==
  /\ CacheTypes
  /\ \A p \in Processes : told[p] <= Version
  /\ \A h \in Handlers :
       /\ request[h] \in Reading => request[h].start <= now
       /\ request[h] \in Read =>
            Honest(request[h].version, request[h].start, request[h].overtaken, ProcessOf[h])
       /\ request[h] \in Committed => request[h].version <= Version
  /\ \A p \in Processes : cache[p] \in EntryRecord =>
       Honest(cache[p].version, cache[p].expires - CACHE_TTL, cache[p].overtaken, p)

LEMMA RequestPhases ==
  \A r \in {Waiting} \union Reading \union Read \union Committed :
    /\ r = Waiting <=> r.phase = "waiting"
    /\ r \in Reading <=> r.phase = "reading"
    /\ r \in Read <=> r.phase = "read"
    /\ r \in Committed <=> r.phase = "committed"
BY DEF Waiting, Reading, Read, Committed

LEMMA WaitingIsIdle == Waiting \notin Reading \union Read \union Committed
BY DEF Waiting, Reading, Read, Committed

LEMMA NoEntryIsNone ==
  /\ NoEntry \notin EntryRecord
  /\ \A e \in {NoEntry} \union EntryRecord : e.expires \in Int
BY DEF NoEntry, EntryRecord

LEMMA DayType == ASSUME NEW t \in Nat PROVE Day(t) \in Nat
BY CacheAssumption DEF Day

LEMMA BumpedTyped ==
  ASSUME NEW row \in StreakRows, NEW day \in Nat
  PROVE  Bumped(row, day) \in StreakRow
<1>1. CASE row = NoRow
  BY <1>1 DEF Bumped, FirstLogin, StreakRow
<1>2. CASE row # NoRow
  <2>1. row \in StreakRow
    BY <1>2 DEF StreakRows
  <2>2. CurrentAfter(row, day) \in Nat \ {0}
    BY <2>1 DEF CurrentAfter, StreakRow
  <2> QED
    BY <1>2, <2>1, <2>2 DEF Bumped, StreakRow
<1> QED
  BY <1>1, <1>2

\* A commit adds at most one version, at the present time.
LEMMA BumpEffect ==
  ASSUME CacheTypes, \E row \in Rows : BumpTo(row), UNCHANGED <<now, told>>
  PROVE  /\ streak' \in StreakRows /\ changedAt' \in Seq(Nat)
         /\ Version' \in Nat /\ Version \in Nat /\ Version <= Version'
         /\ \A v \in Nat, t \in Int, o \in BOOLEAN, p \in Processes :
              Honest(v, t, o, p) => Honest(v, t, o, p)'
<1>1. PICK row \in Rows : BumpTo(row)
  OBVIOUS
<1>2. Rows \subseteq StreakRows
  BY BumpedTyped, DayType DEF Rows, CacheTypes, StreakRows
<1>3. CASE changedAt' = changedAt
  BY <1>1, <1>2, <1>3 DEF BumpTo, CacheTypes, Version, Honest, LastedTo
<1>4. CASE changedAt' = Append(changedAt, now)
  <2>1. /\ Len(changedAt') = Len(changedAt) + 1
        /\ changedAt'[Len(changedAt) + 1] = now
        /\ \A i \in 1 .. Len(changedAt) : changedAt'[i] = changedAt[i]
        /\ Len(changedAt) \in Nat /\ changedAt' \in Seq(Nat)
    BY <1>4 DEF CacheTypes
  <2>2. ASSUME NEW v \in Nat, NEW t \in Int, t <= now, LastedTo(v, t) PROVE LastedTo(v, t)'
    BY <2>1, <2>2 DEF LastedTo, Version
  <2> QED
    BY <1>1, <1>2, <2>1, <2>2 DEF BumpTo, Version, Honest
<1> QED
  BY <1>1, <1>3, <1>4 DEF BumpTo

LEMMA StreakInitInv == StreakCacheInit => CacheInv
BY NoEntryIsNone, WaitingIsIdle
   DEF StreakCacheInit, ClockInit, CacheInv, CacheTypes, StreakRows, Version

LEMMA StreakNextInv == CacheInv /\ [StreakCacheNext]_streakCacheVars => CacheInv'
<1> SUFFICES ASSUME CacheInv, [StreakCacheNext]_streakCacheVars PROVE CacheInv'
  OBVIOUS
<1> USE CacheAssumption
<1>0. CacheTypes /\ Version \in Nat
  BY DEF CacheInv, CacheTypes, Version
<1>1. CASE UNCHANGED streakCacheVars
  BY <1>1 DEF streakCacheVars, CacheInv, CacheTypes, Honest, LastedTo, Version
<1>2. ASSUME NEW h \in Handlers, Miss(h) PROVE CacheInv'
  <2> DEFINE r == [phase |-> "reading", start |-> now]
  <2>1. r \in Reading /\ r.start = now
    BY <1>0 DEF CacheTypes, Reading
  <2>2. r \notin Read /\ r \notin Committed
    BY DEF Read, Committed
  <2>3. /\ request' = [request EXCEPT ![h] = r]
        /\ UNCHANGED <<now, streak, changedAt, cache, told>>
    BY <1>2 DEF Miss
  <2> HIDE DEF r
  <2> QED
    BY <1>0, <2>1, <2>2, <2>3 DEF CacheInv, CacheTypes, Honest, LastedTo, Version
<1>3. ASSUME NEW h \in Handlers, Select(h) PROVE CacheInv'
  <2> DEFINE r == [phase |-> "read", start |-> request[h].start, row |-> streak,
                   version |-> Version, overtaken |-> FALSE]
  <2>1. request[h] \in Reading
    BY <1>0, <1>3, RequestPhases DEF Select, CacheTypes
  <2>2. request[h].start \in Nat /\ request[h].start <= now
    BY <2>1 DEF CacheInv, Reading
  <2>3. r \in Read /\ Honest(r.version, r.start, r.overtaken, ProcessOf[h])
    BY <1>0, <2>2 DEF CacheInv, CacheTypes, Read, Honest, LastedTo
  <2>4. r \notin Reading /\ r \notin Committed
    BY DEF Reading, Committed
  <2>5. /\ request' = [request EXCEPT ![h] = r]
        /\ UNCHANGED <<now, streak, changedAt, cache, told>>
    BY <1>3 DEF Select
  <2> HIDE DEF r
  <2> QED
    BY <1>0, <2>3, <2>4, <2>5 DEF CacheInv, CacheTypes, Honest, LastedTo, Version
<1>4. ASSUME NEW h \in Handlers, Fill(h) PROVE CacheInv'
  <2> DEFINE e == Entry(request[h])
  <2>1. request[h] \in Read
    BY <1>0, <1>4, RequestPhases DEF Fill, CacheTypes
  <2>2. today_in_streak(request[h].row, now) \in BOOLEAN
    BY DEF today_in_streak
  <2>3. /\ e \in EntryRecord
        /\ e.version = request[h].version /\ e.overtaken = request[h].overtaken
        /\ e.expires - CACHE_TTL = request[h].start
    BY <2>1, <2>2 DEF Entry, Read, EntryRecord
  <2>4. Honest(e.version, e.expires - CACHE_TTL, e.overtaken, ProcessOf[h])
    BY <2>1, <2>3 DEF CacheInv
  <2>5. /\ cache' = [cache EXCEPT ![ProcessOf[h]] = e]
        /\ request' = [request EXCEPT ![h] = Waiting]
        /\ UNCHANGED <<now, streak, changedAt, told>>
    BY <1>4 DEF Fill
  <2> HIDE DEF e
  <2> QED
    BY <1>0, <2>3, <2>4, <2>5, WaitingIsIdle DEF CacheInv, CacheTypes, Honest, LastedTo, Version
<1>5. ASSUME NEW h \in Handlers, CommitLogin(h) PROVE CacheInv'
  <2> DEFINE r == [phase |-> "committed", version |-> Len(changedAt'),
                   bumped |-> streak' # streak]
  <2>1. /\ \E row \in Rows : BumpTo(row)
        /\ request' = [request EXCEPT ![h] = r] /\ UNCHANGED <<now, cache, told>>
    BY <1>5 DEF CommitLogin
  <2>2. r \in Committed /\ r.version = Version'
    BY <1>0, <2>1, BumpEffect DEF Committed, Version
  <2>3. r \notin Reading /\ r \notin Read
    BY DEF Reading, Read
  <2> HIDE DEF r
  <2> QED
    BY <1>0, <2>1, <2>2, <2>3, BumpEffect
       DEF CacheInv, CacheTypes, Reading, Read, Committed, EntryRecord
<1>6. ASSUME NEW h \in Handlers, CommitUnheard(h) PROVE CacheInv'
  <2>1. (\E row \in Rows : BumpTo(row)) /\ UNCHANGED <<now, cache, request, told>>
    BY <1>6 DEF CommitUnheard
  <2> QED
    BY <1>0, <2>1, BumpEffect DEF CacheInv, CacheTypes, Reading, Read, Committed, EntryRecord
<1>7. ASSUME NEW h \in Handlers, Drop(h) PROVE CacheInv'
  <2> DEFINE p == ProcessOf[h]
  <2>1. request[h] \in Committed /\ request[h].version <= Version /\ request[h].version \in Nat
    BY <1>0, <1>7, RequestPhases DEF Drop, CacheInv, CacheTypes, Committed
  <2>2. /\ cache' = [cache EXCEPT ![p] = NoEntry]
        /\ request' = [Overtaken(p) EXCEPT ![h] = Waiting]
        /\ told' = [told EXCEPT ![p] = AtLeast(@, request[h].version)]
        /\ UNCHANGED <<now, streak, changedAt>>
    BY <1>7 DEF Drop
  <2>3. /\ told' \in [Processes -> Nat]
        /\ \A q \in Processes : told'[q] <= Version
        /\ \A q \in Processes \ {p} : told'[q] = told[q]
    BY <1>0, <2>1, <2>2 DEF CacheInv, CacheTypes, AtLeast
  <2>4. ASSUME NEW g \in Handlers, g # h, ProcessOf[g] = p, request[g] \in Read
        PROVE  /\ request'[g] \in Read
               /\ request'[g].version = request[g].version
               /\ request'[g].start = request[g].start /\ request'[g].overtaken
    BY <2>2, <2>4, RequestPhases DEF Overtaken, Read
  <2>5. ASSUME NEW g \in Handlers, g # h, ~(ProcessOf[g] = p /\ request[g] \in Read)
        PROVE  request'[g] = request[g]
    BY <1>0, <2>2, <2>5, RequestPhases DEF Overtaken, CacheTypes
  <2>6. request'[h] = Waiting
    BY <2>2 DEF Overtaken
  <2>7. request' \in [Handlers -> {Waiting} \union Reading \union Read \union Committed]
    <3>1. DOMAIN request' = Handlers /\ request' = [g \in Handlers |-> request'[g]]
      BY <2>2 DEF Overtaken
    <3> QED
      BY <1>0, <2>4, <2>5, <2>6, <3>1 DEF CacheTypes
  <2>8. ASSUME NEW g \in Handlers
        PROVE  /\ request'[g] \in Reading => request'[g].start <= now
               /\ request'[g] \in Read =>
                    Honest(request[g].version, request[g].start,
                           request[g].overtaken, ProcessOf[g])'
               /\ request'[g] \in Committed => request'[g].version <= Version
    <3>1. CASE g = h
      BY <2>6, <3>1, WaitingIsIdle
    <3>2. CASE g # h /\ ProcessOf[g] = p /\ request[g] \in Read
      <4>1. request'[g] \notin Reading /\ request'[g] \notin Committed
        BY <2>4, <3>2 DEF Reading, Read, Committed
      <4> QED
        BY <2>2, <2>4, <3>2, <4>1 DEF CacheInv, Honest, LastedTo, Version
    <3>3. CASE g # h /\ ~(ProcessOf[g] = p /\ request[g] \in Read)
      BY <1>0, <2>2, <2>3, <2>5, <3>3 DEF CacheInv, CacheTypes, Honest, LastedTo, Version
    <3> QED
      BY <3>1, <3>2, <3>3
  <2>9. ASSUME NEW q \in Processes, cache'[q] \in EntryRecord
        PROVE  Honest(cache[q].version, cache[q].expires - CACHE_TTL, cache[q].overtaken, q)'
    <3>1. q # p /\ cache'[q] = cache[q]
      BY <1>0, <2>2, <2>9, NoEntryIsNone DEF CacheTypes
    <3> QED
      BY <2>2, <2>3, <2>9, <3>1 DEF CacheInv, Honest, LastedTo, Version
  <2>10. CacheTypes'
    BY <1>0, <2>2, <2>3, <2>7 DEF CacheTypes
  <2> HIDE DEF p
  <2> QED
    BY <2>2, <2>3, <2>8, <2>9, <2>10 DEF CacheInv, Version
<1>8. ASSUME NEW p \in Processes, Restart(p) PROVE CacheInv'
  BY <1>0, <1>8, NoEntryIsNone, WaitingIsIdle
     DEF Restart, CacheInv, CacheTypes, Honest, LastedTo, Version
<1>9. CASE Tick /\ UNCHANGED <<streak, changedAt, cache, request, told>>
  <2>1. now' \in Nat /\ now <= now'
    BY <1>0, <1>9 DEF CacheTypes, Tick
  <2>2. \A v \in Nat, t \in Int, o \in BOOLEAN, p \in Processes :
          Honest(v, t, o, p) => Honest(v, t, o, p)'
    BY <1>0, <1>9, <2>1 DEF Honest, LastedTo, Version, CacheTypes
  <2> QED
    BY <1>0, <1>9, <2>1, <2>2
       DEF CacheInv, CacheTypes, Version, Reading, Read, Committed, EntryRecord
<1> QED
  BY <1>1, <1>2, <1>3, <1>4, <1>5, <1>6, <1>7, <1>8, <1>9 DEF StreakCacheNext

LEMMA StreakCacheInvariant == StreakCacheSpec => []CacheInv
BY StreakInitInv, StreakNextInv, PTL DEF StreakCacheSpec

\* What a process serves was the user's streak at some time within the last
\* CACHE_TTL, however long reads take, however many processes there are and
\* whichever of them is told of a login.
THEOREM StreakAges == StreakCacheSpec => []FreshWithinWindow
<1>1. CacheInv => FreshWithinWindow
  <2> SUFFICES ASSUME CacheInv, NEW p \in Processes, Servable(p)
               PROVE  LET v == cache[p].version
                      IN  v = Version \/ changedAt[v + 1] > now - CACHE_TTL
    BY DEF FreshWithinWindow
  <2>1. cache[p] \in EntryRecord /\ cache[p].expires > now
    BY DEF Servable, CacheInv, CacheTypes
  <2>2. /\ LastedTo(cache[p].version, cache[p].expires - CACHE_TTL)
        /\ cache[p].version \in Nat /\ cache[p].expires \in Int
        /\ now \in Nat /\ changedAt \in Seq(Nat)
    BY <2>1 DEF CacheInv, CacheTypes, Honest, EntryRecord
  <2>3. cache[p].version # Version =>
          changedAt[cache[p].version + 1] \in Nat
    BY <2>2 DEF LastedTo, Version
  <2> QED
    BY <2>1, <2>2, <2>3, CacheAssumption DEF LastedTo
<1> QED
  BY <1>1, StreakCacheInvariant, PTL

\* A process that has answered the ingest of a login serves the streak before it
\* only from a read that was under way when it dropped its entry.
THEOREM BehindIfOvertaken == StreakCacheSpec => []BehindOnlyIfOvertaken
<1>1. CacheInv => BehindOnlyIfOvertaken
  BY DEF BehindOnlyIfOvertaken, CacheInv, CacheTypes, Servable, Honest
<1> QED
  BY <1>1, StreakCacheInvariant, PTL


-----------------------------------------------------------------------------
(* The flag of an entry.                                                   *)

\* The day a flag was worked out on lies in the time its entry may be served for:
\* between the start of its read, when the TTL began, and the present.
TodayInv ==
  \A p \in Processes : cache[p] \in EntryRecord =>
    \E t \in Nat :
      /\ cache[p].expires - CACHE_TTL <= t /\ t <= now
      /\ cache[p].today = today_in_streak(cache[p].row, t)

\* A day that is over ended after every time that lies in it.
LEMMA DayOver ==
  ASSUME NEW s \in Nat, NEW t \in Nat, s <= t, Day(s) # Day(t)
  PROVE  s < DayLength * Day(t)
<1>1. DayLength \in Nat \ {0} /\ Day(s) \in Nat /\ Day(t) \in Nat
  BY CacheAssumption, DayType
<1>2. /\ DayLength * Day(s) <= s /\ s < DayLength * Day(s) + DayLength
      /\ DayLength * Day(t) <= t /\ t < DayLength * Day(t) + DayLength
  BY <1>1 DEF Day
<1>3. ASSUME NEW a \in Nat, NEW b \in Nat, a < b PROVE DayLength * a + DayLength <= DayLength * b
  BY <1>1, <1>3
<1>4. CASE Day(s) < Day(t)
  <2>1. DayLength * Day(s) + DayLength <= DayLength * Day(t)
    BY <1>1, <1>3, <1>4
  <2>2. DayLength * Day(s) \in Nat /\ DayLength * Day(t) \in Nat
    BY <1>1
  <2> QED
    BY <1>1, <1>2, <2>1, <2>2
<1>5. CASE Day(t) < Day(s)
  <2>1. DayLength * Day(t) + DayLength <= DayLength * Day(s)
    BY <1>1, <1>3, <1>5
  <2>2. DayLength * Day(s) \in Nat /\ DayLength * Day(t) \in Nat
    BY <1>1
  <2> QED
    BY <1>1, <1>2, <2>1, <2>2
<1> QED
  BY <1>1, <1>4, <1>5

\* An entry is kept, dropped, or filled by a read with the flag of the present.
LEMMA EntriesFlagged ==
  ASSUME CacheInv, StreakCacheNext, NEW p \in Processes, cache'[p] \in EntryRecord
  PROVE  \/ cache'[p] = cache[p]
         \/ /\ cache'[p].expires - CACHE_TTL <= now
            /\ cache'[p].today = today_in_streak(cache'[p].row, now)
<1> USE CacheAssumption
<1>1. cache \in [Processes -> {NoEntry} \union EntryRecord]
  BY DEF CacheInv, CacheTypes
<1>2. ASSUME NEW h \in Handlers, Fill(h) PROVE
         \/ cache'[p] = cache[p]
         \/ /\ cache'[p].expires - CACHE_TTL <= now
            /\ cache'[p].today = today_in_streak(cache'[p].row, now)
  <2>1. request[h] \in Read /\ ProcessOf[h] \in Processes
    BY <1>2, RequestPhases DEF Fill, CacheInv, CacheTypes
  <2>2. request[h].start <= now /\ request[h].start \in Nat
    BY <2>1 DEF CacheInv, Honest, Read
  <2>3. cache' = [cache EXCEPT ![ProcessOf[h]] = Entry(request[h])]
    BY <1>2 DEF Fill
  <2>4. CASE p = ProcessOf[h]
    <3>1. cache'[p] = Entry(request[h])
      BY <1>1, <2>3, <2>4
    <3> QED
      BY <2>2, <3>1, CacheAssumption DEF Entry, CacheInv, CacheTypes
  <2>5. CASE p # ProcessOf[h]
    BY <1>1, <2>3, <2>5
  <2> QED
    BY <2>4, <2>5
<1>3. ASSUME NEW h \in Handlers, Drop(h) PROVE cache'[p] = cache[p]
  BY <1>1, <1>3, NoEntryIsNone DEF Drop
<1>4. ASSUME NEW q \in Processes, Restart(q) PROVE cache'[p] = cache[p]
  BY <1>1, <1>4, NoEntryIsNone DEF Restart
<1> QED
  BY <1>2, <1>3, <1>4 DEF StreakCacheNext, Miss, Select, CommitLogin, CommitUnheard

LEMMA TodayNextInv ==
  CacheInv /\ TodayInv /\ [StreakCacheNext]_streakCacheVars => TodayInv'
<1> SUFFICES ASSUME CacheInv, TodayInv, [StreakCacheNext]_streakCacheVars PROVE TodayInv'
  OBVIOUS
<1>1. CASE UNCHANGED streakCacheVars
  BY <1>1 DEF streakCacheVars, TodayInv
<1>2. CASE StreakCacheNext
  <2>1. now \in Nat /\ now' \in Nat /\ now <= now'
    BY <1>2 DEF StreakCacheNext, CacheInv, CacheTypes, Miss, Select, Fill, CommitLogin,
                CommitUnheard, Drop, Restart, Tick
  <2> SUFFICES ASSUME NEW p \in Processes, cache'[p] \in EntryRecord
               PROVE  \E t \in Nat :
                        /\ cache'[p].expires - CACHE_TTL <= t /\ t <= now'
                        /\ cache'[p].today = today_in_streak(cache'[p].row, t)
    BY DEF TodayInv
  <2>2. CASE cache'[p] = cache[p]
    <3>1. PICK t \in Nat : /\ cache[p].expires - CACHE_TTL <= t /\ t <= now
                           /\ cache[p].today = today_in_streak(cache[p].row, t)
      BY <2>2 DEF TodayInv
    <3>2. t <= now'
      BY <2>1, <3>1
    <3> QED
      BY <2>2, <3>1, <3>2
  <2>3. CASE /\ cache'[p].expires - CACHE_TTL <= now
             /\ cache'[p].today = today_in_streak(cache'[p].row, now)
    BY <2>1, <2>3
  <2> QED
    BY <1>2, <2>2, <2>3, EntriesFlagged
<1> QED
  BY <1>1, <1>2

\* An App is told "you have logged in today" wrongly for no longer than the TTL
\* after a midnight, whatever the length of a day and however long the read took.
THEOREM FlagsAge == StreakCacheSpec => []TodayWithinWindow
<1>1. StreakCacheInit => TodayInv
  BY NoEntryIsNone DEF StreakCacheInit, TodayInv
<1>2. CacheInv /\ TodayInv => TodayWithinWindow
  <2> SUFFICES ASSUME CacheInv, TodayInv, NEW p \in Processes, Servable(p),
                      cache[p].today # (cache[p].row # NoRow /\ cache[p].row.last = Day(now))
               PROVE  DayLength * Day(now) > now - CACHE_TTL
    BY DEF TodayWithinWindow
  <2>1. /\ cache[p] \in EntryRecord /\ cache[p].expires > now /\ cache[p].expires \in Int
        /\ now \in Nat /\ CACHE_TTL \in Nat /\ DayLength \in Nat
    BY CacheAssumption DEF Servable, CacheInv, CacheTypes, EntryRecord
  <2>2. PICK t \in Nat : /\ cache[p].expires - CACHE_TTL <= t /\ t <= now
                         /\ cache[p].today = today_in_streak(cache[p].row, t)
    BY <2>1 DEF TodayInv
  <2>3. Day(t) # Day(now)
    BY <2>2 DEF today_in_streak
  <2>4. t < DayLength * Day(now) /\ DayLength * Day(now) \in Nat
    BY <2>1, <2>2, <2>3, DayOver, DayType
  <2> QED
    BY <2>1, <2>2, <2>4
<1> QED
  BY <1>1, <1>2, TodayNextInv, StreakCacheInvariant, PTL DEF StreakCacheSpec

-----------------------------------------------------------------------------
(* The days of timestamps.                                                 *)

BookedRow == [ts : Timestamp, scores : BOOLEAN]

DayTypes ==
  /\ keeps \in {"digits", "instant"}
  /\ booked \subseteq BookedRow /\ IsFiniteSet(booked)

\* The days, in the column and in the code, agree on when an event was.
DaysAgree == keeps = "instant" \/ AllInUTC

\* Of every day, also of one on which nothing was booked.
DayInv == DayTypes /\ (DaysAgree => \A d \in Int : Cardinality(ScoredOn(d)) <= DailyCap)

LEMMA TimesTyped ==
  ASSUME NEW ts \in Timestamp
  PROVE  /\ ts.utc \in Nat /\ ts.offset \in Int
         /\ TaipeiDate(ts) \in Int /\ DayStart(ts) \in Int /\ Column(ts) \in Int
<1>1. ts.utc \in Nat /\ ts.offset \in Int
  BY DayWindowAssumption DEF Timestamp
<1>2. \A n \in Nat : n % 24 \in Int /\ n \div 24 \in Int
  OBVIOUS
<1> QED
  BY <1>1, <1>2 DEF TaipeiDate, DayStart, Column, Digits, HOURS, UTC8

\* The window of an event holds the times of its Taipei day and no others.
LEMMA WindowIsTaipeiDay ==
  ASSUME NEW s \in Nat, NEW t \in Nat
  PROVE  (/\ t - ((t + UTC8) % HOURS) <= s /\ s < t - ((t + UTC8) % HOURS) + HOURS)
           <=> (s + UTC8) \div HOURS = (t + UTC8) \div HOURS
BY DEF HOURS, UTC8

\* When the days agree, the rows counted for an event are those of its day.
LEMMA RowsAreOfTheDay ==
  ASSUME DayTypes, DaysAgree, NEW ts \in Timestamp
  PROVE  {b \in RowsOfDay(ts) : b.scores} = ScoredOn(TaipeiDate(ts))
<1>1. ASSUME NEW b \in booked
      PROVE  /\ b.ts \in Timestamp /\ b.ts.utc \in Nat /\ Column(b.ts) = b.ts.utc
  <2>1. b.ts \in Timestamp
    BY <1>1 DEF DayTypes, BookedRow
  <2>2. b.ts.utc \in Nat
    BY <2>1, TimesTyped
  <2>3. Column(b.ts) = b.ts.utc
    BY <1>1, <2>2 DEF DaysAgree, AllInUTC, Column, Digits, DayTypes
  <2> QED
    BY <2>1, <2>2, <2>3
<1>2. ts.utc \in Nat
  BY TimesTyped
<1>3. ASSUME NEW b \in booked
      PROVE  (DayStart(ts) <= Column(b.ts) /\ Column(b.ts) < DayStart(ts) + HOURS)
               <=> TaipeiDate(b.ts) = TaipeiDate(ts)
  BY <1>1, <1>2, WindowIsTaipeiDay DEF DayStart, TaipeiDate
<1> QED
  BY <1>3 DEF RowsOfDay, ScoredOn

LEMMA DayNextInv == DayInv /\ [DayWindowNext]_dayVars => DayInv'
<1> SUFFICES ASSUME DayInv, [DayWindowNext]_dayVars PROVE DayInv'
  OBVIOUS
<1>1. CASE UNCHANGED dayVars
  <2>1. UNCHANGED <<keeps, booked>>
    BY <1>1 DEF dayVars
  <2>2. \A d : ScoredOn(d)' = ScoredOn(d)
    BY <2>1 DEF ScoredOn
  <2> QED
    BY <2>1, <2>2 DEF DayInv, DayTypes, DaysAgree, AllInUTC
<1>2. ASSUME NEW ts \in Timestamp, Book(ts) PROVE DayInv'
  <2> DEFINE scored == {b \in RowsOfDay(ts) : b.scores}
             room == Cardinality(scored) < DailyCap
             row == [ts |-> ts, scores |-> room]
  <2>1. booked' = booked \union {row} /\ keeps' = keeps
    BY <1>2 DEF Book
  <2>2. row \in BookedRow /\ row.ts = ts /\ (row.scores <=> room)
    <3>1. room \in BOOLEAN
      OBVIOUS
    <3> HIDE DEF room
    <3> QED
      BY <3>1 DEF BookedRow
  <2>3. DayTypes'
    <3>1. IsFiniteSet(booked')
      BY <2>1, FS_AddElement DEF DayInv, DayTypes
    <3> QED
      BY <2>1, <2>2, <3>1 DEF DayInv, DayTypes
  <2>4. ASSUME DaysAgree', NEW d \in Int PROVE Cardinality(ScoredOn(d)') <= DailyCap
    <3>1. DaysAgree /\ DayTypes
      BY <2>1, <2>4 DEF DaysAgree, AllInUTC, DayInv
    <3>2. Cardinality(ScoredOn(d)) <= DailyCap
      BY <3>1 DEF DayInv
    <3>3. IsFiniteSet(ScoredOn(d)) /\ Cardinality(ScoredOn(d)) \in Nat
      BY <3>1, FS_Subset, FS_CardinalityType DEF DayTypes, ScoredOn
    <3>4. scored = ScoredOn(TaipeiDate(ts))
      BY <3>1, RowsAreOfTheDay
    <3> HIDE DEF row, scored
    <3>5. CASE row.scores /\ TaipeiDate(ts) = d
      <4>1. ScoredOn(d)' = ScoredOn(d) \union {row}
        BY <2>1, <2>2, <3>5 DEF ScoredOn, TaipeiDate
      <4>2. Cardinality(ScoredOn(d)) < DailyCap
        BY <2>2, <3>4, <3>5
      <4>3. Cardinality(ScoredOn(d) \union {row}) <= Cardinality(ScoredOn(d)) + 1
        <5>1. \/ Cardinality(ScoredOn(d) \union {row}) = Cardinality(ScoredOn(d))
              \/ Cardinality(ScoredOn(d) \union {row}) = Cardinality(ScoredOn(d)) + 1
          BY <3>3, FS_AddElement, Zenon
        <5> QED
          BY <3>3, <5>1
      <4>4. Cardinality(ScoredOn(d) \union {row}) \in Nat
        BY <3>3, FS_AddElement, FS_CardinalityType
      <4> QED
        BY <3>3, <4>1, <4>2, <4>3, <4>4, DayWindowAssumption
    <3>6. CASE ~(row.scores /\ TaipeiDate(ts) = d)
      <4>1. ScoredOn(d)' = ScoredOn(d)
        BY <2>1, <2>2, <3>6 DEF ScoredOn, TaipeiDate
      <4> QED
        BY <3>2, <4>1
    <3> QED
      BY <3>5, <3>6
  <2> QED
    BY <2>3, <2>4 DEF DayInv
<1> QED
  BY <1>1, <1>2 DEF DayWindowNext

LEMMA DayWindowInvariant == DayWindowSpec => []DayInv
<1>1. DayWindowInit => DayInv
  <2> SUFFICES ASSUME DayWindowInit PROVE DayInv
    OBVIOUS
  <2>1. booked = {} /\ keeps \in {"digits", "instant"}
    BY DEF DayWindowInit
  <2>2. DayTypes
    BY <2>1, FS_EmptySet DEF DayTypes
  <2>3. \A d : ScoredOn(d) = {}
    BY <2>1 DEF ScoredOn
  <2> QED
    BY <2>2, <2>3, FS_EmptySet, DayWindowAssumption DEF DayInv
<1> QED
  BY <1>1, DayNextInv, PTL DEF DayWindowSpec

\* No Taipei day scores above the cap, in whatever order its events come, if the
\* column keeps instants or every App sends UTC: for any cap and any number of
\* events.
THEOREM CapHoldsByTaipeiDay == DayWindowSpec => []CapPerTaipeiDay
<1>1. DayInv => CapPerTaipeiDay
  <2> SUFFICES ASSUME DayInv, DaysAgree, NEW b \in booked
               PROVE  Cardinality(ScoredOn(TaipeiDate(b.ts))) <= DailyCap
    BY DEF CapPerTaipeiDay, CapHolds, DaysAgree
  <2>1. TaipeiDate(b.ts) \in Int
    BY TimesTyped DEF DayInv, DayTypes, BookedRow
  <2> QED
    BY <2>1 DEF DayInv
<1> QED
  BY <1>1, DayWindowInvariant, PTL

-----------------------------------------------------------------------------
(* The deep-engagement streak.                                             *)

EngagementInv ==
  /\ keeps \in {"digits", "instant"}
  /\ engaged \subseteq Timestamp
  /\ promotedBy \subseteq engaged
  /\ \A ts \in promotedBy : Streak(engaged, ts)

LEMMA StreakGrows ==
  ASSUME NEW times, NEW more, times \subseteq more, NEW ts, Streak(times, ts)
  PROVE  Streak(more, ts)
  BY DEF Streak

LEMMA EngagementInvariant == EngagementSpec => []EngagementInv
<1>1. DayWindowInit /\ EngagementInit => EngagementInv
  BY DEF DayWindowInit, EngagementInit, EngagementInv
<1>2. ASSUME EngagementInv, NEW ts \in Timestamp, Engage(ts) PROVE EngagementInv'
  <2>1. /\ keeps' = keeps /\ engaged' = engaged \union {ts}
        /\ promotedBy' = promotedBy \/ (promotedBy' = {ts} /\ Streak(engaged', ts))
    BY <1>2 DEF Engage, dayVars
  <2>2. \A times, t : Streak(times, t)' <=> Streak(times', t')
    BY <2>1 DEF Streak, StoredDay, TriggerDay, Column, Digits
  <2>3. \A t \in promotedBy' : Streak(engaged, t) \/ Streak(engaged', t)
    BY <1>2, <2>1 DEF EngagementInv
  <2>4. \A t \in promotedBy' : Streak(engaged', t)
    BY <2>1, <2>3, StreakGrows
  <2>5. \A t \in promotedBy' : Streak(engaged, t)'
    BY <2>1, <2>4 DEF Streak, StoredDay, TriggerDay, Column, Digits
  <2> QED
    BY <1>2, <2>1, <2>5 DEF EngagementInv
<1>3. EngagementInv /\ UNCHANGED <<dayVars, engagementVars>> => EngagementInv'
  BY DEF EngagementInv, dayVars, engagementVars, Streak, StoredDay, TriggerDay, Column, Digits
<1>4. EngagementInv /\ [EngagementNext]_<<dayVars, engagementVars>> => EngagementInv'
  BY <1>2, <1>3 DEF EngagementNext
<1> QED
  BY <1>1, <1>4, PTL DEF EngagementSpec

\* A loyalist has not stayed away for two Taipei days in a row of her streak, with
\* either kind of column, for any mix of offsets from Taipei westwards and any
\* number of required days.
THEOREM TwoDayGapsReset == EngagementSpec => []TwoDayGapResets
<1> DEFINE N == VISITOR_LOYALIST_CONTINUOUS_DAYS
<1>1. EngagementInv => TwoDayGapResets
  <2> SUFFICES ASSUME EngagementInv, NobodyEastOfTaipei, NEW ts \in promotedBy,
                      NEW i \in 0 .. N - 1
               PROVE  \E e \in engaged : TaipeiDate(e) - (Digits(ts) \div HOURS - i) \in {0, 1}
    BY DEF TwoDayGapResets
  <2>1. PICK e \in engaged : TriggerDay(ts) - i = StoredDay(e)
    BY DEF EngagementInv, Streak
  <2>2. /\ e.utc \in Nat /\ e.offset \in -16 .. 8
        /\ ts.utc \in Nat /\ ts.offset \in -16 .. 8
    BY TimesTyped DEF EngagementInv, NobodyEastOfTaipei, UTC8, HOURS
  <2>3. TaipeiDate(e) - StoredDay(e) \in {0, 1}
    <3>1. CASE keeps = "digits"
      <4>1. \A a \in Nat, o \in -16 .. 8 : (a + 8) \div 24 - (a + o) \div 24 \in {0, 1}
        OBVIOUS
      <4> QED
        BY <2>2, <3>1, <4>1 DEF TaipeiDate, StoredDay, Column, Digits, HOURS, UTC8
    <3>2. CASE keeps # "digits"
      <4>1. \A a \in Nat : (a + 8) \div 24 - a \div 24 \in {0, 1}
        OBVIOUS
      <4> QED
        BY <2>2, <3>2, <4>1 DEF TaipeiDate, StoredDay, Column, HOURS, UTC8
    <3> QED
      BY <3>1, <3>2
  <2> QED
    BY <2>1, <2>3 DEF TriggerDay
<1> QED
  BY <1>1, EngagementInvariant, PTL

\* Daily visits promote on the last of the required days or one day later, where
\* the sender's calendar is not ahead of the column's, and never where it is, for
\* any number of required days.
THEOREM DailyVisitsCount == EngagementSpec => DailyVisitsPromote
<1> DEFINE N == VISITOR_LOYALIST_CONTINUOUS_DAYS
           Promotes(ts) ==
             /\ /\ Ahead(ts) <= 0
                /\ CameDaily(engaged', ts, VISITOR_LOYALIST_CONTINUOUS_DAYS - Ahead(ts))
                => promotedBy' # {}
             /\ (\A e \in engaged' : Ahead(e) > 0 /\ e.utc <= ts.utc)
                => promotedBy' = promotedBy
<1>1. ASSUME EngagementInv, [EngagementNext]_<<dayVars, engagementVars>>
      PROVE  [\A ts \in engaged' \ engaged : Promotes(ts)]_<<dayVars, engagementVars>>
  <2> SUFFICES ASSUME NEW new \in Timestamp, Engage(new), NEW ts \in engaged' \ engaged
               PROVE  Promotes(ts)
    BY <1>1 DEF EngagementNext
  <2>1. /\ ts = new /\ engaged' = engaged \union {ts} /\ engaged' \subseteq Timestamp
        /\ promotedBy' = IF promotedBy = {} /\ Streak(engaged', ts) THEN {ts} ELSE promotedBy
    BY <1>1 DEF Engage, EngagementInv
  <2>2. ts.utc \in Nat /\ ts.offset \in Int
    BY <2>1, TimesTyped
  <2>3. Digits(ts) \div HOURS \in Int /\ Column(ts) \div HOURS \in Int
    BY <2>2 DEF Digits, Column, HOURS
  <2>4. ASSUME Ahead(ts) <= 0, CameDaily(engaged', ts, N - Ahead(ts))
        PROVE  promotedBy' # {}
    <3>1. ASSUME NEW i \in 0 .. N - 1 PROVE TriggerDay(ts) - i \in {StoredDay(e) : e \in engaged'}
      <4> DEFINE k == i - Ahead(ts)
                 e == [ts EXCEPT !.utc = ts.utc - HOURS * k]
      <4>1. k \in 0 .. (N - Ahead(ts)) - 1
        BY <2>3, <2>4, ContinuousDaysAssumption DEF Ahead
      <4>2. e \in engaged' /\ e.utc = ts.utc - HOURS * k /\ e.offset = ts.offset
        BY <2>1, <2>4, <4>1 DEF CameDaily, Timestamp
      <4> HIDE DEF e
      <4>3. StoredDay(e) = (Column(ts) \div HOURS) - k
        <5>1. \A a, b \in Int : (a - 24 * b) \div 24 = (a \div 24) - b
          OBVIOUS
        <5>2. Column(ts) \in Int /\ k \in Int /\ Column(e) = Column(ts) - 24 * k
          BY <2>2, <4>1, <4>2, ContinuousDaysAssumption DEF Column, Digits, HOURS
        <5> QED
          BY <5>1, <5>2 DEF StoredDay, HOURS
      <4>4. (Column(ts) \div HOURS) - k = TriggerDay(ts) - i
        BY <2>3 DEF Ahead, TriggerDay
      <4> QED
        BY <4>2, <4>3, <4>4
    <3> QED
      BY <2>1, <3>1 DEF Streak
  <2>5. ASSUME \A e \in engaged' : Ahead(e) > 0 /\ e.utc <= ts.utc
        PROVE  promotedBy' = promotedBy
    <3>1. ASSUME NEW e \in engaged' PROVE StoredDay(e) < TriggerDay(ts)
      <4>1. e.utc \in Nat /\ e.offset \in Int /\ e.utc <= ts.utc
        BY <2>1, <2>5, TimesTyped
      <4>2. keeps = "instant" /\ Column(e) = e.utc /\ Column(ts) = ts.utc
        <5>1. Ahead(ts) > 0 /\ (Digits(ts) \div HOURS) - (Digits(ts) \div HOURS) = 0
          BY <2>1, <2>3, <2>5
        <5>2. keeps # "digits"
          BY <5>1 DEF Ahead, Column
        <5> QED
          BY <1>1, <5>2 DEF Column, EngagementInv
      <4>3. e.utc \div 24 <= ts.utc \div 24
        BY <2>2, <4>1
      <4>4. ts.utc \div 24 < TriggerDay(ts)
        BY <2>1, <2>3, <2>5, <4>2 DEF Ahead, TriggerDay, HOURS
      <4>5. e.utc \div 24 \in Int /\ ts.utc \div 24 \in Int /\ TriggerDay(ts) \in Int
        BY <2>2, <2>3, <4>1 DEF TriggerDay
      <4> QED
        BY <4>2, <4>3, <4>4, <4>5 DEF StoredDay, HOURS
    <3>2. ~Streak(engaged', ts)
      <4>1. 0 \in 0 .. N - 1 /\ TriggerDay(ts) - 0 = TriggerDay(ts)
        BY <2>3, ContinuousDaysAssumption DEF TriggerDay
      <4>2. \A e \in engaged' : StoredDay(e) # TriggerDay(ts)
        BY <2>3, <3>1 DEF TriggerDay
      <4> QED
        BY <4>1, <4>2 DEF Streak
    <3> QED
      BY <2>1, <3>2
  <2> QED
    BY <2>4, <2>5
<1> QED
  BY <1>1, EngagementInvariant, PTL DEF EngagementSpec, DailyVisitsPromote

-----------------------------------------------------------------------------
(* Least and greatest elements, with which what a recursion computes for   *)
(* every input is proved without induction.                                *)

\* Every set of numbers that is not empty has a least element.
LEMMA Least ==
  ASSUME NEW T, T \subseteq Nat, T # {}
  PROVE  \E m \in T : \A n \in T : m <= n
<1> DEFINE R == {ss \in Nat \X Nat : ss[1] < ss[2]}
<1>1. IsWellFoundedOn(R, Nat)
  BY NatLessThanWellFounded DEF OpToRel
<1>2. \A m, n \in Nat : m < n => <<m, n>> \in R
  OBVIOUS
<1> HIDE DEF R
<1>3. PICK m \in T : \A n \in T : ~(<<n, m>> \in R)
  BY <1>1, WFMin
<1>4. ASSUME NEW n \in T PROVE m <= n
  <2>1. m \in Nat /\ n \in Nat /\ ~(n < m)
    BY <1>2, <1>3
  <2> QED
    BY <2>1
<1> QED
  BY <1>4

\* So has every set of bounded ones a greatest.
LEMMA Greatest ==
  ASSUME NEW n \in Nat, NEW T, T \subseteq 1 .. n, T # {}
  PROVE  Max(T) \in T /\ \A i \in T : i <= Max(T)
<1> DEFINE U == {n - i : i \in T}
<1>1. U \subseteq Nat /\ U # {}
  <2>1. \A i \in T : n - i \in Nat
    OBVIOUS
  <2> QED
    BY <2>1
<1>2. PICK u \in U : \A v \in U : u <= v
  BY <1>1, Least
<1>3. PICK m \in T : u = n - m
  OBVIOUS
<1>4. \A i \in T : m >= i
  <2> SUFFICES ASSUME NEW i \in T PROVE m >= i
    OBVIOUS
  <2>0. i \in 1 .. n /\ m \in 1 .. n
    OBVIOUS
  <2>1. n - i \in U /\ m \in Nat /\ i \in Nat
    BY <2>0
  <2>2. n - m <= n - i
    BY <1>2, <1>3, <2>1
  <2> QED
    BY <2>1, <2>2
<1>5. Max(T) \in T /\ \A i \in T : Max(T) >= i
  BY <1>4 DEF Max
<1> QED
  BY <1>5

-----------------------------------------------------------------------------
(* The level curve.                                                        *)

\* The thresholds between the anchors, in one piece.
Threshold(lv) ==
  IF lv <= 2 THEN 50 * (lv - 1)
  ELSE IF lv <= 3 THEN 50 + 70 * (lv - 2)
  ELSE IF lv <= 4 THEN 120 + 80 * (lv - 3)
  ELSE IF lv <= 8 THEN 200 + 100 * (lv - 4)
  ELSE IF lv <= 9 THEN 600 + 180 * (lv - 8)
  ELSE IF lv <= 10 THEN 780 + 220 * (lv - 9)
  ELSE IF lv <= 15 THEN 1000 + 200 * (lv - 10)
  ELSE IF lv <= 20 THEN 2000 + 300 * (lv - 15)
  ELSE IF lv <= 30 THEN 3500 + 250 * (lv - 20)
  ELSE IF lv <= 50 THEN 6000 + 300 * (lv - 30)
  ELSE 12000 + 360 * (lv - 50)

\* The table of anchors, read out.
LEMMA Anchors ==
  /\ Segments = 1 .. 14
  /\ LEVEL_ANCHORS[1] = <<1, 0>> /\ LEVEL_ANCHORS[2] = <<2, 50>>
  /\ LEVEL_ANCHORS[3] = <<3, 120>> /\ LEVEL_ANCHORS[4] = <<4, 200>>
  /\ LEVEL_ANCHORS[5] = <<5, 300>> /\ LEVEL_ANCHORS[6] = <<6, 400>>
  /\ LEVEL_ANCHORS[7] = <<7, 500>> /\ LEVEL_ANCHORS[8] = <<8, 600>>
  /\ LEVEL_ANCHORS[9] = <<9, 780>> /\ LEVEL_ANCHORS[10] = <<10, 1000>>
  /\ LEVEL_ANCHORS[11] = <<15, 2000>> /\ LEVEL_ANCHORS[12] = <<20, 3500>>
  /\ LEVEL_ANCHORS[13] = <<30, 6000>> /\ LEVEL_ANCHORS[14] = <<50, 12000>>
  /\ LEVEL_ANCHORS[15] = <<100, 30000>>
BY DEF Segments, LEVEL_ANCHORS

\* The value a segment gives.
On(i, lv) ==
  LET a == LEVEL_ANCHORS[i]
      b == LEVEL_ANCHORS[i + 1]
  IN  a[2] + ((b[2] - a[2]) * (lv - a[1])) \div (b[1] - a[1])

Covers(i, lv) == LEVEL_ANCHORS[i][1] <= lv /\ lv <= LEVEL_ANCHORS[i + 1][1]

\* Whichever of its segments is chosen for a level, two meeting at an anchor, the
\* threshold is the same.
LEMMA SegmentValue ==
  ASSUME NEW lv \in 1 .. 100, NEW i \in Segments, Covers(i, lv)
  PROVE  On(i, lv) = Threshold(lv)
<1>0. i \in 1 .. 14
  BY Anchors
<1> USE Anchors DEF Covers, On, Threshold
<1>1. CASE i = 1
  BY <1>1
<1>2. CASE i = 2
  BY <1>2
<1>3. CASE i = 3
  BY <1>3
<1>4. CASE i = 4
  BY <1>4
<1>5. CASE i = 5
  BY <1>5
<1>6. CASE i = 6
  BY <1>6
<1>7. CASE i = 7
  BY <1>7
<1>8. CASE i = 8
  BY <1>8
<1>9. CASE i = 9
  BY <1>9
<1>10. CASE i = 10
  BY <1>10
<1>11. CASE i = 11
  BY <1>11
<1>12. CASE i = 12
  <2>1. \A n \in Nat : (2500 * n) \div 10 = 250 * n
    OBVIOUS
  <2>2. lv - 20 \in Nat /\ lv <= 30
    BY <1>12
  <2>3. On(i, lv) = 3500 + (2500 * (lv - 20)) \div 10
    <3>1. LEVEL_ANCHORS[i] = <<20, 3500>> /\ LEVEL_ANCHORS[i + 1] = <<30, 6000>>
      BY <1>12
    <3>2. On(i, lv) = 3500 + ((6000 - 3500) * (lv - 20)) \div (30 - 20)
      BY <3>1
    <3>3. 6000 - 3500 = 2500 /\ 30 - 20 = 10
      OBVIOUS
    <3> QED
      BY <3>2, <3>3
  <2>4. Threshold(lv) = 3500 + 250 * (lv - 20)
    BY <2>2
  <2> HIDE DEF On, Threshold
  <2> QED
    BY <2>1, <2>2, <2>3, <2>4
<1>13. CASE i = 13
  BY <1>13
<1>14. CASE i = 14
  BY <1>14
<1> HIDE DEF Covers, On, Threshold
<1> QED
  BY <1>0, <1>1, <1>2, <1>3, <1>4, <1>5, <1>6, <1>7, <1>8, <1>9, <1>10, <1>11, <1>12, <1>13, <1>14

LEMMA SegmentCovers ==
  ASSUME NEW lv \in 1 .. 100 PROVE SegmentOf(lv) \in Segments /\ Covers(SegmentOf(lv), lv)
<1>1. \E i \in Segments : Covers(i, lv)
  BY Anchors DEF Covers
<1> QED
  BY <1>1, Zenon DEF SegmentOf, Covers

LEMMA TableIs ==
  /\ LEVEL_XP_TABLE = [lv \in 1 .. 100 |-> LEVEL_XP_TABLE[lv]]
  /\ \A lv \in 1 .. 100 : LEVEL_XP_TABLE[lv] = Threshold(lv)
<1>1. LEVEL_XP_TABLE = [lv \in 1 .. 100 |-> Interpolated(lv)]
  BY DEF LEVEL_XP_TABLE, MAX_LEVEL
<1>2. ASSUME NEW lv \in 1 .. 100 PROVE Interpolated(lv) = Threshold(lv)
  <2>1. Interpolated(lv) = On(SegmentOf(lv), lv)
    BY DEF Interpolated, On
  <2> QED
    BY <2>1, SegmentCovers, SegmentValue
<1> QED
  BY <1>1, <1>2

LEMMA TableTyped ==
  LEVEL_XP_TABLE[1] = 0 /\ \A lv \in 1 .. 100 : LEVEL_XP_TABLE[lv] \in Nat
<1>1. Threshold(1) = 0 /\ \A lv \in 1 .. 100 : Threshold(lv) \in Nat
  BY DEF Threshold
<1> QED
  BY <1>1, TableIs

\* The interpolated table never dips, nor does it rest.
LEMMA TableClimbs ==
  ASSUME NEW l \in 1 .. 100, NEW m \in 1 .. 100, l < m
  PROVE  LEVEL_XP_TABLE[l] < LEVEL_XP_TABLE[m]
<1>1. Threshold(l) < Threshold(m)
  BY DEF Threshold
<1> QED
  BY <1>1, TableIs

\* What the ledger's proofs assume of a curve and of the gates (XpLedger's
\* CurveAssumption and GateAssumption) is true of the catalog's: thresholds start
\* at 0 and rise with every level, and nothing is gated by the level of a beginner.
THEOREM CatalogIsACurve ==
  /\ MAX_LEVEL \in Nat \ {0}
  /\ LEVEL_XP_TABLE \in [1 .. MAX_LEVEL -> Nat]
  /\ LEVEL_XP_TABLE[1] = 0
  /\ \A l \in 2 .. MAX_LEVEL : LEVEL_XP_TABLE[l - 1] < LEVEL_XP_TABLE[l]
  /\ \A o \in DOMAIN LevelGates : LevelGates[o] \in Nat \ {0, 1}
<1>1. MAX_LEVEL = 100
  BY DEF MAX_LEVEL
<1>2. LEVEL_XP_TABLE \in [1 .. 100 -> Nat]
  BY TableIs, TableTyped
<1>3. ASSUME NEW l \in 2 .. 100 PROVE LEVEL_XP_TABLE[l - 1] < LEVEL_XP_TABLE[l]
  <2>1. l - 1 \in 1 .. 100 /\ l \in 1 .. 100 /\ l - 1 < l
    OBVIOUS
  <2> QED
    BY <2>1, TableClimbs
<1>4. \A o \in DOMAIN LevelGates : LevelGates[o] \in Nat \ {0, 1}
  BY DEF LevelGates
<1>5. LEVEL_XP_TABLE[1] = 0
  BY TableTyped
<1> QED
  BY <1>1, <1>2, <1>3, <1>4, <1>5

-----------------------------------------------------------------------------

\* The levels whose thresholds a total has reached.
Reached(xp) == {l \in 1 .. MAX_LEVEL : LEVEL_XP_TABLE[l] <= xp}

\* The loop at candidate c.
ClimbStep(xp, f, c) ==
  IF c <= MAX_LEVEL /\ xp >= LEVEL_XP_TABLE[c] THEN f[c + 1] ELSE c - 1

Climb(xp) == CHOOSE f : f = [c \in 1 .. MAX_LEVEL + 1 |-> ClimbStep(xp, f, c)]

\* level_for_xp as a fixed point that can be taken apart.
LEMMA LevelIsClimb == \A xp : level_for_xp(xp) = Climb(xp)[2]
BY Zenon DEF level_for_xp, Climb, ClimbStep

LEMMA TopReached ==
  ASSUME NEW xp \in Nat
  PROVE  /\ Max(Reached(xp)) \in 1 .. 100
         /\ \A l \in 1 .. 100 : LEVEL_XP_TABLE[l] <= xp <=> l <= Max(Reached(xp))
         /\ Reached(xp) = 1 .. Max(Reached(xp))
<1>1. Reached(xp) \subseteq 1 .. 100 /\ 1 \in Reached(xp)
  BY TableTyped DEF Reached, MAX_LEVEL
<1>2. PICK n : n = Max(Reached(xp))
  OBVIOUS
<1>3. n \in Reached(xp) /\ \A l \in Reached(xp) : l <= n
  BY <1>1, <1>2, Greatest
<1>4. n \in 1 .. 100 /\ LEVEL_XP_TABLE[n] <= xp
  BY <1>3 DEF Reached, MAX_LEVEL
<1>5. ASSUME NEW l \in 1 .. 100, l <= n PROVE LEVEL_XP_TABLE[l] <= xp
  <2>1. LEVEL_XP_TABLE[l] \in Nat /\ LEVEL_XP_TABLE[n] \in Nat
    BY <1>4, TableTyped
  <2>2. l = n \/ LEVEL_XP_TABLE[l] < LEVEL_XP_TABLE[n]
    <3>1. ASSUME l < n PROVE LEVEL_XP_TABLE[l] < LEVEL_XP_TABLE[n]
      BY <1>4, <3>1, TableClimbs
    <3> QED
      BY <1>4, <1>5, <3>1
  <2> QED
    BY <1>4, <2>1, <2>2
<1>6. \A l \in 1 .. 100 : LEVEL_XP_TABLE[l] <= xp => l <= n
  BY <1>3 DEF Reached, MAX_LEVEL
<1>7. Reached(xp) = 1 .. n
  BY <1>4, <1>5, <1>6 DEF Reached, MAX_LEVEL
<1> QED
  BY <1>2, <1>4, <1>5, <1>6, <1>7

\* The loop stops at the top level reached: the table never dips.
LEMMA LevelIsTop == ASSUME NEW xp \in Nat PROVE level_for_xp(xp) = Max(Reached(xp))
<1> DEFINE n == Max(Reached(xp))
           g == [c \in 1 .. 101 |-> IF c <= n THEN n ELSE c - 1]
           f == Climb(xp)
<1>1. n \in 1 .. 100 /\ \A l \in 1 .. 100 : LEVEL_XP_TABLE[l] <= xp <=> l <= n
  BY TopReached
<1> HIDE DEF n
<1>2. ASSUME NEW c \in 1 .. 101
      PROVE  c <= MAX_LEVEL /\ xp >= LEVEL_XP_TABLE[c] <=> c <= n
  <2>1. \A l \in 1 .. 100 : LEVEL_XP_TABLE[l] \in Nat
    BY TableTyped
  <2> QED
    BY <1>1, <2>1 DEF MAX_LEVEL
<1>3. g = [c \in 1 .. MAX_LEVEL + 1 |-> ClimbStep(xp, g, c)]
  <2>1. ASSUME NEW c \in 1 .. 101 PROVE g[c] = ClimbStep(xp, g, c)
    <3>1. CASE c <= n
      <4>1. ClimbStep(xp, g, c) = g[c + 1] /\ c + 1 \in 1 .. 101
        BY <1>1, <1>2, <3>1 DEF ClimbStep
      <4> QED
        BY <1>1, <3>1, <4>1
    <3>2. CASE ~(c <= n)
      BY <1>1, <1>2, <3>2 DEF ClimbStep
    <3> QED
      BY <3>1, <3>2
  <2> QED
    BY <2>1 DEF MAX_LEVEL
<1> HIDE DEF g
<1>4. f = [c \in 1 .. 101 |-> ClimbStep(xp, f, c)]
  <2>1. f = [c \in 1 .. MAX_LEVEL + 1 |-> ClimbStep(xp, f, c)]
    BY <1>3, Zenon DEF Climb
  <2> QED
    BY <2>1 DEF MAX_LEVEL
<1> HIDE DEF f
<1>5. \A c \in 1 .. 101 : f[c] = g[c]
  <2> DEFINE bad == {c \in 1 .. 101 : f[c] # g[c]}
  <2> SUFFICES ASSUME bad # {} PROVE FALSE
    OBVIOUS
  <2>1. PICK c \in bad : \A d \in bad : d <= c
    BY Greatest
  <2>2. c \in 1 .. 101 /\ f[c] = ClimbStep(xp, f, c) /\ f[c] # g[c]
    BY <1>4
  <2>3. CASE c <= n
    <3>1. f[c] = f[c + 1] /\ g[c] = n /\ c + 1 \in 1 .. 101 /\ g[c + 1] = n
      BY <1>1, <1>2, <2>2, <2>3 DEF ClimbStep, g
    <3>2. f[c + 1] = g[c + 1]
      BY <2>1, <2>2, <3>1
    <3> QED
      BY <2>2, <3>1, <3>2
  <2>4. CASE ~(c <= n)
    BY <1>2, <2>2, <2>4 DEF ClimbStep, g
  <2> QED
    BY <2>3, <2>4
<1>6. f[2] = g[2]
  BY <1>5
<1>7. g[2] = n
  BY <1>1 DEF g
<1> QED
  BY <1>6, <1>7, LevelIsClimb DEF f, n

\* The level of a total is the one whose threshold it has reached and whose next
\* one it has not.
LEMMA LevelBetween ==
  ASSUME NEW xp \in Nat
  PROVE  /\ level_for_xp(xp) \in 1 .. 100
         /\ \A l \in 1 .. 100 : LEVEL_XP_TABLE[l] <= xp <=> l <= level_for_xp(xp)
         /\ \A n \in 1 .. 100 :
              LEVEL_XP_TABLE[n] <= xp /\ (n < 100 => xp < LEVEL_XP_TABLE[n + 1])
                => level_for_xp(xp) = n
<1>1. PICK t : t = level_for_xp(xp)
  OBVIOUS
<1>2. t \in 1 .. 100 /\ \A l \in 1 .. 100 : LEVEL_XP_TABLE[l] <= xp <=> l <= t
  BY <1>1, TopReached, LevelIsTop
<1>3. ASSUME NEW n \in 1 .. 100, LEVEL_XP_TABLE[n] <= xp,
             n < 100 => xp < LEVEL_XP_TABLE[n + 1]
      PROVE  t = n
  <2>1. n <= t
    BY <1>2, <1>3
  <2>2. CASE n < 100
    <3>1. n + 1 \in 1 .. 100 /\ LEVEL_XP_TABLE[n + 1] \in Nat
      <4>1. n + 1 \in 1 .. 100
        BY <2>2
      <4> QED
        BY <4>1, TableTyped
    <3>2. ~(n + 1 <= t)
      BY <1>2, <1>3, <2>2, <3>1
    <3> QED
      BY <1>2, <2>1, <3>2
  <2>3. CASE n = 100
    BY <1>2, <2>1, <2>3
  <2> QED
    BY <2>2, <2>3
<1> QED
  BY <1>1, <1>2, <1>3

CurveInv == total \in Nat

LEMMA CurveInvariant == CurveSpec => []CurveInv
<1>1. CurveInit => CurveInv
  BY DEF CurveInit, CurveInv
<1>2. CurveInv /\ [CurveNext]_total => CurveInv'
  BY DEF CurveInv, CurveNext, Gain
<1> QED
  BY <1>1, <1>2, PTL DEF CurveSpec

\* The level of a total is the number of thresholds it has reached, for every
\* total there is: the loop never stops early.
THEOREM LevelsCounted == CurveSpec => []LevelCountsThresholds
<1>1. CurveInv => LevelCountsThresholds
  <2> SUFFICES ASSUME total \in Nat
               PROVE  level_for_xp(total) = Cardinality(Reached(total))
    BY DEF CurveInv, LevelCountsThresholds, Reached
  <2>1. PICK n : n = Max(Reached(total))
    OBVIOUS
  <2>2. n \in 1 .. 100 /\ Reached(total) = 1 .. n
    BY <2>1, TopReached
  <2>3. Cardinality(1 .. n) = n
    <3>1. n \in Int /\ 1 \in Int
      BY <2>2
    <3>2. Cardinality(1 .. n) = IF 1 > n THEN 0 ELSE n - 1 + 1
      BY <3>1, FS_Interval
    <3> QED
      BY <2>2, <3>2
  <2> QED
    BY <2>1, <2>2, <2>3, LevelIsTop
<1> QED
  BY <1>1, CurveInvariant, PTL

\* The XP an App says are left to the next level are exactly those.
THEOREM NextLevelExact == CurveSpec => []NextLevelIsExact
<1>1. CurveInv => NextLevelIsExact
  <2> SUFFICES ASSUME total \in Nat PROVE NextLevelIsExact
    BY DEF CurveInv
  <2>1. PICK cur : cur = level_for_xp(total)
    OBVIOUS
  <2>2. cur \in 1 .. 100 /\ \A l \in 1 .. 100 : LEVEL_XP_TABLE[l] <= total <=> l <= cur
    BY <2>1, LevelBetween
  <2>3. CASE cur = 100
    BY <2>1, <2>3 DEF NextLevelIsExact, xp_to_next_level, MAX_LEVEL
  <2>4. CASE cur < 100
    <3>1. PICK up : up = LEVEL_XP_TABLE[cur + 1]
      OBVIOUS
    <3>2. up \in Nat /\ total < up /\ cur + 1 \in 1 .. 100
      <4>1. cur + 1 \in 1 .. 100 /\ ~(cur + 1 <= cur)
        BY <2>2, <2>4
      <4>2. up \in Nat
        BY <3>1, <4>1, TableTyped
      <4> QED
        BY <2>2, <3>1, <4>1, <4>2
    <3>3. xp_to_next_level(total) = up - total
      <4>1. \A d \in Nat : Max({0, d}) = d
        BY DEF Max
      <4>2. up - total \in Nat
        BY <3>2
      <4>3. xp_to_next_level(total) = Max({0, up - total})
        BY <2>1, <2>2, <2>4, <3>1 DEF xp_to_next_level, MAX_LEVEL
      <4> QED
        BY <4>1, <4>2, <4>3
    <3>4. level_for_xp(up) = cur + 1
      <4>1. cur + 1 < 100 => up < LEVEL_XP_TABLE[cur + 1 + 1]
        <5> SUFFICES ASSUME cur + 1 < 100 PROVE up < LEVEL_XP_TABLE[cur + 1 + 1]
          OBVIOUS
        <5>1. cur + 1 \in 1 .. 100 /\ cur + 1 + 1 \in 1 .. 100 /\ cur + 1 < cur + 1 + 1
          BY <3>2
        <5> QED
          BY <3>1, <5>1, TableClimbs
      <4> QED
        BY <3>1, <3>2, <4>1, LevelBetween
    <3>5. level_for_xp(up - 1) = cur
      <4>1. up - 1 \in Nat /\ LEVEL_XP_TABLE[cur] <= up - 1 /\ up - 1 < up
        <5>1. LEVEL_XP_TABLE[cur] <= total /\ LEVEL_XP_TABLE[cur] \in Nat
          BY <2>2, TableTyped
        <5> QED
          BY <3>2, <5>1
      <4> QED
        BY <2>2, <3>1, <4>1, LevelBetween
    <3>6. total + (up - total) = up /\ total + (up - total) - 1 = up - 1 /\ up - total > 0
      BY <3>2
    <3> QED
      BY <2>1, <2>4, <3>3, <3>4, <3>5, <3>6 DEF NextLevelIsExact, MAX_LEVEL
  <2> QED
    BY <2>2, <2>3, <2>4
<1> QED
  BY <1>1, CurveInvariant, PTL

\* One point of XP lifts by no more than one level.
LEMMA OnePoint ==
  ASSUME NEW xp \in Nat
  PROVE  level_for_xp(xp + 1) \in {level_for_xp(xp), level_for_xp(xp) + 1}
<1>1. PICK before, after : before = level_for_xp(xp) /\ after = level_for_xp(xp + 1)
  OBVIOUS
<1>2. /\ before \in 1 .. 100 /\ \A l \in 1 .. 100 : LEVEL_XP_TABLE[l] <= xp <=> l <= before
      /\ after \in 1 .. 100 /\ \A l \in 1 .. 100 : LEVEL_XP_TABLE[l] <= xp + 1 <=> l <= after
  BY <1>1, LevelBetween
<1>3. before <= after
  <2>1. LEVEL_XP_TABLE[before] \in Nat /\ LEVEL_XP_TABLE[before] <= xp
    BY <1>2, TableTyped
  <2> QED
    BY <1>2, <2>1
<1>4. ~(before + 2 <= after)
  <2> SUFFICES ASSUME before + 2 <= after PROVE FALSE
    OBVIOUS
  <2>1. before + 1 \in 1 .. 100 /\ before + 2 \in 1 .. 100
    BY <1>2
  <2>2. /\ LEVEL_XP_TABLE[before + 1] < LEVEL_XP_TABLE[before + 2]
        /\ LEVEL_XP_TABLE[before + 1] \in Nat /\ LEVEL_XP_TABLE[before + 2] \in Nat
    <3>1. before + 1 < before + 2
      BY <1>2
    <3>2. LEVEL_XP_TABLE[before + 1] < LEVEL_XP_TABLE[before + 2]
      BY <2>1, <3>1, TableClimbs
    <3> QED
      BY <2>1, <3>2, TableTyped
  <2>3. LEVEL_XP_TABLE[before + 2] <= xp + 1
    BY <1>2, <2>1
  <2>4. LEVEL_XP_TABLE[before + 1] <= xp
    BY <2>2, <2>3
  <2> QED
    BY <1>2, <2>1, <2>4
<1> QED
  BY <1>1, <1>2, <1>3, <1>4

\* One point of XP skips no level, no name and no gate of the wardrobe.
THEOREM OneLevelAtATime == CurveSpec => OnePointOneLevel
<1> DEFINE before == level_for_xp(total)
           after == level_for_xp(total')
           A == /\ after \in {before, before + 1}
                /\ level_name(after) # level_name(before) =>
                     after \in NamedLevels /\ after = before + 1
                /\ level_unlock_outfits_up_to(after) =
                     level_unlock_outfits_up_to(before)
                       \union {o \in DOMAIN LevelGates : LevelGates[o] = after}
<1>1. CurveInv /\ [CurveNext]_total => [A]_total
  <2> SUFFICES ASSUME CurveInv, CurveNext PROVE A
    OBVIOUS
  <2>1. total \in Nat /\ total' = total + 1
    BY DEF CurveInv, CurveNext, Gain
  <2>2. before \in 1 .. 100 /\ after \in {before, before + 1}
    <3>1. after = level_for_xp(total + 1)
      BY <2>1
    <3> QED
      BY <2>1, <3>1, LevelBetween, OnePoint
  <2> HIDE DEF before, after
  <2>3. \A n \in NamedLevels : n \in Nat
    BY Anchors DEF NamedLevels, LEVEL_ANCHORS
  <2>4. \A o \in DOMAIN LevelGates : LevelGates[o] \in Nat
    BY DEF LevelGates
  <2>5. ASSUME level_name(after) # level_name(before)
        PROVE  after \in NamedLevels /\ after = before + 1
    <3>1. after = before + 1
      BY <2>2, <2>5
    <3>2. ASSUME after \notin NamedLevels
          PROVE  {n \in NamedLevels : n <= after} = {n \in NamedLevels : n <= before}
      BY <2>2, <2>3, <3>1, <3>2
    <3> QED
      BY <2>5, <3>1, <3>2 DEF level_name
  <2>6. level_unlock_outfits_up_to(after) =
          level_unlock_outfits_up_to(before)
            \union {o \in DOMAIN LevelGates : LevelGates[o] = after}
    <3> DEFINE G == DOMAIN LevelGates
    <3>1. \A o \in G : LevelGates[o] <= after <=> LevelGates[o] <= before \/ LevelGates[o] = after
      BY <2>2, <2>4
    <3> QED
      BY <3>1 DEF level_unlock_outfits_up_to
  <2> QED
    BY <2>2, <2>5, <2>6
<1> QED
  BY <1>1, CurveInvariant, PTL DEF CurveSpec, OnePointOneLevel, before, after

-----------------------------------------------------------------------------
(* The seeds.                                                              *)

\* What is left of a batch when only the items s are gone through: the last one of
\* a combo wins.
LastsOf(read, batch, s) ==
  [k \in Keys |-> LET named == {i \in s : batch[i].combo = k}
                  IN  IF named = {} THEN read[k] ELSE AssetOf(batch[Max(named)])]

\* One step of the fold that Upserted is.
StepOf(read, batch, f, s) ==
  IF s = {} THEN read
  ELSE [f[s \ {Max(s)}] EXCEPT ![batch[Max(s)].combo] = AssetOf(batch[Max(s)])]

UpsertFold(read, batch) ==
  CHOOSE f : f = [s \in SUBSET DOMAIN batch |-> StepOf(read, batch, f, s)]

\* upsert_mascot_manifest_entries as a fixed point that can be taken apart.
LEMMA UpsertedIsFold ==
  \A read, batch : Upserted(read, batch) = UpsertFold(read, batch)[DOMAIN batch]
BY Zenon DEF Upserted, FoldLeft, MapThenFoldSet, UpsertFold, StepOf

\* The last item of all wins its combo; the others are decided without it.
LEMMA LastsStep ==
  ASSUME NEW read, NEW batch \in Seq(UpsertItem), NEW s \in SUBSET DOMAIN batch, s # {}
  PROVE  LastsOf(read, batch, s) =
           [LastsOf(read, batch, s \ {Max(s)}) EXCEPT
              ![batch[Max(s)].combo] = AssetOf(batch[Max(s)])]
<1> DEFINE m == Max(s)
           n == Len(batch)
           named(t, k) == {i \in t : batch[i].combo = k}
<1>1. n \in Nat /\ DOMAIN batch = 1 .. n /\ \A i \in s : batch[i].combo \in Keys
  <2>1. n \in Nat /\ DOMAIN batch = 1 .. n
    OBVIOUS
  <2>2. \A i \in s : batch[i] \in UpsertItem
    OBVIOUS
  <2> QED
    BY <2>1, <2>2 DEF UpsertItem, Keys
<1>2. m \in s /\ \A i \in s : i <= m
  BY <1>1, Greatest
<1>3. ASSUME NEW k \in Keys, k # batch[m].combo
      PROVE  named(s, k) = named(s \ {m}, k)
  BY <1>3
<1>4. Max(named(s, batch[m].combo)) = m /\ named(s, batch[m].combo) # {}
  <2>1. m \in named(s, batch[m].combo) /\ named(s, batch[m].combo) \subseteq 1 .. n
    BY <1>1, <1>2
  <2> HIDE DEF m
  <2>2. /\ Max(named(s, batch[m].combo)) \in named(s, batch[m].combo)
        /\ \A i \in named(s, batch[m].combo) : i <= Max(named(s, batch[m].combo))
    BY <1>1, <2>1, Greatest
  <2>3. Max(named(s, batch[m].combo)) \in s
    BY <2>2
  <2>4. m <= Max(named(s, batch[m].combo)) /\ Max(named(s, batch[m].combo)) <= m
    BY <1>2, <2>1, <2>2, <2>3
  <2> QED
    BY <1>1, <1>2, <2>1, <2>3, <2>4
<1>5. batch[m].combo \in Keys
  BY <1>1, <1>2
<1> HIDE DEF m, n
<1> QED
  BY <1>3, <1>4, <1>5 DEF LastsOf, m

\* The items in order come to this: of every combo the last one.  That is a fixed
\* point of the fold, so there is one, and there is no other: a set of items for
\* which another differed, of the least size, would have a smaller one.
LEMMA UpsertedLasts ==
  ASSUME NEW read, read = [k \in Keys |-> read[k]], NEW batch \in Seq(UpsertItem)
  PROVE  Upserted(read, batch) = LastsOf(read, batch, DOMAIN batch)
<1> DEFINE S == DOMAIN batch
           g == [s \in SUBSET S |-> LastsOf(read, batch, s)]
           f == UpsertFold(read, batch)
<1>0. \A s \in SUBSET S : s # {} =>
        LastsOf(read, batch, s) =
           [LastsOf(read, batch, s \ {Max(s)}) EXCEPT
              ![batch[Max(s)].combo] = AssetOf(batch[Max(s)])]
  <2> HIDE DEF g, f
  <2> QED
    BY LastsStep
<1>1. LastsOf(read, batch, {}) = read
  BY DEF LastsOf
<1>2. g = [s \in SUBSET S |-> StepOf(read, batch, g, s)]
  <2> SUFFICES ASSUME NEW s \in SUBSET S
               PROVE  LastsOf(read, batch, s) = StepOf(read, batch, g, s)
    OBVIOUS
  <2>1. CASE s = {}
    BY <1>1, <2>1 DEF StepOf
  <2>2. CASE s # {}
    <3>1. g[s \ {Max(s)}] = LastsOf(read, batch, s \ {Max(s)})
      OBVIOUS
    <3>2. LastsOf(read, batch, s) =
            [LastsOf(read, batch, s \ {Max(s)}) EXCEPT
               ![batch[Max(s)].combo] = AssetOf(batch[Max(s)])]
      BY <1>0, <2>2, Zenon
    <3> HIDE DEF g
    <3> QED
      BY <2>2, <3>1, <3>2, Zenon DEF StepOf
  <2> QED
    BY <2>1, <2>2
<1> HIDE DEF g
<1>3. f = [s \in SUBSET S |-> StepOf(read, batch, f, s)]
  BY <1>2, Zenon DEF UpsertFold
<1> HIDE DEF f
<1>4. \A s \in SUBSET S : IsFiniteSet(s) /\ Cardinality(s) \in Nat
  <2>1. S = 1 .. Len(batch) /\ Len(batch) \in Nat
    OBVIOUS
  <2>2. IsFiniteSet(S)
    <3> HIDE DEF S
    <3>1. \A k \in Nat : IsFiniteSet(1 .. k)
      BY FS_Interval
    <3> QED
      BY <2>1, <3>1
  <2> QED
    BY <2>2, FS_Subset, FS_CardinalityType
<1>5. \A s \in SUBSET S : f[s] = LastsOf(read, batch, s)
  <2> DEFINE bad == {s \in SUBSET S : f[s] # LastsOf(read, batch, s)}
             sizes == {Cardinality(s) : s \in bad}
  <2> SUFFICES ASSUME bad # {} PROVE FALSE
    OBVIOUS
  <2>1. sizes \subseteq Nat /\ sizes # {}
    BY <1>4
  <2>2. PICK c \in sizes : \A d \in sizes : c <= d
    BY <2>1, Least
  <2>3. PICK s \in bad : c = Cardinality(s)
    OBVIOUS
  <2>4. f[s] = StepOf(read, batch, f, s)
    BY <1>3
  <2>5. s # {}
    BY <1>1, <2>3, <2>4 DEF StepOf
  <2>6. Max(s) \in s
    <3>1. s \subseteq 1 .. Len(batch) /\ Len(batch) \in Nat
      OBVIOUS
    <3> QED
      BY <2>5, <3>1, Greatest
  <2>7. s \ {Max(s)} \in SUBSET S /\ Cardinality(s \ {Max(s)}) < Cardinality(s)
    <3>1. Cardinality(s \ {Max(s)}) = Cardinality(s) - 1
      BY <1>4, <2>6, FS_RemoveElement
    <3> QED
      BY <1>4, <3>1
  <2>8. s \ {Max(s)} \notin bad
    <3>1. Cardinality(s) <= Cardinality(s \ {Max(s)}) \/ s \ {Max(s)} \notin bad
      BY <2>2, <2>3
    <3> QED
      BY <1>4, <2>7, <3>1
  <2>9. f[s \ {Max(s)}] = LastsOf(read, batch, s \ {Max(s)})
    BY <2>7, <2>8
  <2>10. f[s] = LastsOf(read, batch, s)
    <3>1. LastsOf(read, batch, s) =
            [LastsOf(read, batch, s \ {Max(s)}) EXCEPT
               ![batch[Max(s)].combo] = AssetOf(batch[Max(s)])]
      BY <1>0, <2>5, Zenon
    <3> QED
      BY <2>4, <2>5, <2>9, <3>1, Zenon DEF StepOf
  <2> QED
    BY <2>3, <2>10
<1> QED
  BY <1>5, UpsertedIsFold DEF f

\* What an upsert makes of a row is an item of that row.
LEMMA UpsertedFromBatch ==
  ASSUME NEW read, read = [k \in Keys |-> read[k]], NEW batch \in Batches, NEW k \in Keys
  PROVE  \/ Upserted(read, batch)[k] = read[k]
         \/ \E i \in Names(batch, k) : Upserted(read, batch)[k] = AssetOf(batch[i])
<1> DEFINE named == {i \in DOMAIN batch : batch[i].combo = k}
<1>1. batch \in Seq(UpsertItem)
  BY SeedsAssumption
<1>2. Upserted(read, batch)[k] =
        IF named = {} THEN read[k] ELSE AssetOf(batch[Max(named)])
  <2>1. Upserted(read, batch) = LastsOf(read, batch, DOMAIN batch)
    BY <1>1, UpsertedLasts
  <2> QED
    BY <2>1 DEF LastsOf
<1>3. named # {} => Max(named) \in named
  <2>1. named \subseteq 1 .. Len(batch) /\ Len(batch) \in Nat
    BY <1>1
  <2> QED
    BY <2>1, Greatest
<1> QED
  BY <1>2, <1>3 DEF Names

-----------------------------------------------------------------------------

\* A row that some transaction is about to store: of a manifest's row, what
\* somebody uploaded, and a placeholder only where there was no row.
Uploaded(c, row) == \E batch \in Batches : \E i \in Names(batch, c) : row = AssetOf(batch[i])

Released(code, row) == \E r \in DOMAIN CatalogOf : row = CatalogOf[r][code]

Edited(t) ==
  /\ \A c \in Combos :
       \/ t.edited[c] = t.read[c]
       \/ t.read[c] = NoRow /\ t.edited[c] = Placeholder
       \/ Uploaded(c, t.edited[c])
  /\ \A code \in Codes : t.edited[code] = t.read[code] \/ Released(code, t.edited[code])

\* Every row is whole, and what an open transaction would make of the rows it has
\* read is so, too.
SeedsInv ==
  /\ rows = [k \in Keys |-> rows[k]]
  /\ RowsAreWhole
  /\ seeding = [s \in Seeders |-> seeding[s]]
  /\ \A s \in Seeders : seeding[s] # NoSeeding => Edited(seeding[s])

\* A row that is stored is stored whole, when the first updater wins: what the
\* transaction did not change is what it read.
LEMMA StoredWhole ==
  ASSUME FirstUpdaterWins, NEW old, NEW read, NEW row, CanStore(old, read, row), read # row,
         row = [column \in DOMAIN row |-> row[column]]
  PROVE  Stored(old, read, row) = row
<1>1. CASE read = NoRow
  BY <1>1 DEF Stored
<1>2. CASE read # NoRow
  <2>1. old = read
    BY <1>2 DEF CanStore
  <2>2. Written(read, read, row) = [column \in DOMAIN row |-> row[column]]
    BY DEF Written
  <2> QED
    BY <1>2, <2>1, <2>2 DEF Stored
<1> QED
  BY <1>1, <1>2

\* Rows are functions of their columns.
LEMMA RowsAreRecords ==
  /\ \A c \in Combos : \A row : Uploaded(c, row) => row = [column \in DOMAIN row |-> row[column]]
  /\ \A code \in Codes : \A row :
       Released(code, row) => row = [column \in DOMAIN row |-> row[column]]
  /\ Placeholder = [column \in DOMAIN Placeholder |-> Placeholder[column]]
<1>1. Placeholder = [column \in DOMAIN Placeholder |-> Placeholder[column]]
  BY DEF Placeholder
<1>2. \A item : AssetOf(item) = [column \in DOMAIN AssetOf(item) |-> AssetOf(item)[column]]
  BY DEF AssetOf
<1>3. \A c \in Combos : \A row : Uploaded(c, row) => row = [column \in DOMAIN row |-> row[column]]
  BY <1>2 DEF Uploaded
<1>4. \A code \in Codes : \A row :
        Released(code, row) => row = [column \in DOMAIN row |-> row[column]]
  BY SeedsAssumption DEF Released
<1> QED
  BY <1>1, <1>3, <1>4

\* What one commit makes of a row.
LEMMA CommitEffect ==
  ASSUME FirstUpdaterWins, SeedsInv, NEW s \in Seeders, CommitSeeding(s)
  PROVE  /\ \A c \in Combos :
              \/ rows'[c] = rows[c]
              \/ rows[c] = NoRow /\ rows'[c] = Placeholder
              \/ Uploaded(c, rows'[c])
         /\ \A code \in Codes : rows'[code] = rows[code] \/ Released(code, rows'[code])
         /\ rows' = [k \in Keys |-> rows'[k]]
<1> DEFINE t == seeding[s]
<1>1. Edited(t)
  BY DEF CommitSeeding, SeedsInv
<1>2. /\ \A k \in Keys : t.edited[k] # t.read[k] => CanStore(rows[k], t.read[k], t.edited[k])
      /\ rows' = [k \in Keys |-> IF t.edited[k] = t.read[k] THEN rows[k]
                                 ELSE Stored(rows[k], t.read[k], t.edited[k])]
  BY DEF CommitSeeding, Storable
<1> HIDE DEF t
<1>3. ASSUME NEW k \in Keys, t.edited[k] # t.read[k],
             t.edited[k] = [column \in DOMAIN t.edited[k] |-> t.edited[k][column]]
      PROVE  rows'[k] = t.edited[k]
  <2>1. CanStore(rows[k], t.read[k], t.edited[k])
    BY <1>2, <1>3
  <2>2. Stored(rows[k], t.read[k], t.edited[k]) = t.edited[k]
    BY <1>3, <2>1, StoredWhole, Zenon
  <2> QED
    BY <1>2, <1>3, <2>2
<1>4. ASSUME NEW c \in Combos
      PROVE  \/ rows'[c] = rows[c]
             \/ rows[c] = NoRow /\ rows'[c] = Placeholder
             \/ Uploaded(c, rows'[c])
  <2>1. c \in Keys
    BY DEF Keys
  <2>2. CASE t.edited[c] = t.read[c]
    BY <1>2, <2>1, <2>2
  <2>3. CASE t.edited[c] # t.read[c] /\ t.read[c] = NoRow /\ t.edited[c] = Placeholder
    <3>1. rows'[c] = Placeholder
      BY <1>3, <2>1, <2>3, RowsAreRecords
    <3>2. rows[c] = NoRow
      BY <1>2, <2>1, <2>3 DEF CanStore, CanInsert
    <3> QED
      BY <3>1, <3>2
  <2>4. CASE t.edited[c] # t.read[c] /\ Uploaded(c, t.edited[c])
    <3>1. rows'[c] = t.edited[c]
      BY <1>3, <2>1, <2>4, RowsAreRecords
    <3> QED
      BY <2>4, <3>1
  <2> QED
    BY <1>1, <2>2, <2>3, <2>4 DEF Edited
<1>5. ASSUME NEW code \in Codes
      PROVE  rows'[code] = rows[code] \/ Released(code, rows'[code])
  <2>1. code \in Keys
    BY DEF Keys
  <2>2. CASE t.edited[code] = t.read[code]
    BY <1>2, <2>1, <2>2
  <2>3. CASE t.edited[code] # t.read[code] /\ Released(code, t.edited[code])
    <3>1. rows'[code] = t.edited[code]
      BY <1>3, <2>1, <2>3, RowsAreRecords
    <3> QED
      BY <2>3, <3>1
  <2> QED
    BY <1>1, <2>2, <2>3 DEF Edited
<1> QED
  BY <1>2, <1>4, <1>5

\* What a transaction makes of the rows it has read.
LEMMA OpenEdited ==
  ASSUME SeedsInv, NEW s \in Seeders,
         SeedPlaceholders(s) \/ UpsertEntries(s) \/ SeedRelease(s)
  PROVE  SeedsInv'
<1> DEFINE Opened(kind, edited, batch) ==
             [kind |-> kind, read |-> rows, edited |-> edited, batch |-> batch]
<1>1. ASSUME NEW kind, NEW edited, NEW batch, Open(s, kind, edited, batch),
             Edited(Opened(kind, edited, batch))
      PROVE  SeedsInv'
  <2>1. rows' = rows /\ seeding' = [seeding EXCEPT ![s] = Opened(kind, edited, batch)]
    BY <1>1 DEF Open
  <2> HIDE DEF Opened
  <2>2. seeding' = [v \in Seeders |-> seeding'[v]]
    BY <2>1 DEF SeedsInv
  <2>3. \A v \in Seeders : seeding'[v] # NoSeeding => Edited(seeding'[v])
    BY <1>1, <2>1 DEF SeedsInv
  <2>4. RowsAreWhole'
    BY <2>1 DEF SeedsInv, RowsAreWhole
  <2> QED
    BY <2>1, <2>2, <2>3, <2>4 DEF SeedsInv
<1>2. ASSUME NEW kind, NEW edited, NEW batch,
             \A c \in Combos : \/ edited[c] = rows[c]
                               \/ rows[c] = NoRow /\ edited[c] = Placeholder
                               \/ Uploaded(c, edited[c]),
             \A code \in Codes : edited[code] = rows[code] \/ Released(code, edited[code])
      PROVE  Edited(Opened(kind, edited, batch))
  BY <1>2 DEF Edited
<1>3. \A c \in Combos : c \in Keys /\ c \notin Codes
  BY SeedsAssumption DEF Keys
<1>4. \A code \in Codes : code \in Keys /\ code \notin SeededCombos
  BY SeedsAssumption DEF Keys
<1> HIDE DEF Opened
<1>5. CASE SeedPlaceholders(s)
  <2>1. \A k \in Keys :
          Seeded(rows)[k] = IF k \in SeededCombos /\ rows[k] = NoRow THEN Placeholder ELSE rows[k]
    BY DEF Seeded
  <2>2. Edited(Opened("seed", Seeded(rows), <<>>))
    BY <1>2, <1>3, <1>4, <2>1
  <2> QED
    BY <1>1, <1>5, <2>2 DEF SeedPlaceholders
<1>6. CASE UpsertEntries(s)
  <2>1. PICK batch \in Batches : Open(s, "upsert", Upserted(rows, batch), batch)
    BY <1>6 DEF UpsertEntries
  <2>2. \A k \in Keys :
          \/ Upserted(rows, batch)[k] = rows[k]
          \/ \E i \in Names(batch, k) : Upserted(rows, batch)[k] = AssetOf(batch[i])
    BY UpsertedFromBatch DEF SeedsInv
  <2>3. \A code \in Codes : Names(batch, code) = {}
    <3>1. batch \in Seq(UpsertItem)
      BY SeedsAssumption
    <3>2. \A i \in DOMAIN batch : batch[i] \in UpsertItem
      BY <3>1
    <3>3. \A i \in DOMAIN batch : batch[i].combo \in Combos
      BY <3>2 DEF UpsertItem
    <3> QED
      BY <3>3, SeedsAssumption DEF Names
  <2>4. Edited(Opened("upsert", Upserted(rows, batch), batch))
    BY <1>2, <1>3, <1>4, <2>2, <2>3 DEF Uploaded
  <2> QED
    BY <1>1, <2>1, <2>4
<1>7. CASE SeedRelease(s)
  <2>1. PICK release \in DOMAIN CatalogOf : Open(s, "reseed", Reseeded(rows, release), <<>>)
    BY <1>7 DEF SeedRelease
  <2>2. \A k \in Keys :
          Reseeded(rows, release)[k] = IF k \in Codes THEN CatalogOf[release][k] ELSE rows[k]
    BY DEF Reseeded
  <2>3. Edited(Opened("reseed", Reseeded(rows, release), <<>>))
    BY <1>2, <1>3, <1>4, <2>2 DEF Released
  <2> QED
    BY <1>1, <2>1, <2>3
<1> QED
  BY <1>5, <1>6, <1>7

LEMMA SeedsNextInv ==
  ASSUME FirstUpdaterWins PROVE SeedsInv /\ [SeedsNext]_seedVars => SeedsInv'
<1> SUFFICES ASSUME SeedsInv, [SeedsNext]_seedVars PROVE SeedsInv'
  OBVIOUS
<1>1. CASE UNCHANGED seedVars
  BY <1>1 DEF seedVars, SeedsInv, RowsAreWhole
<1>2. ASSUME NEW s \in Seeders, CommitSeeding(s) PROVE SeedsInv'
  <2>1. /\ \A c \in Combos :
             \/ rows'[c] = rows[c]
             \/ rows[c] = NoRow /\ rows'[c] = Placeholder
             \/ Uploaded(c, rows'[c])
        /\ \A code \in Codes : rows'[code] = rows[code] \/ Released(code, rows'[code])
        /\ rows' = [k \in Keys |-> rows'[k]]
    BY <1>2, CommitEffect
  <2>2. RowsAreWhole'
    BY <2>1 DEF SeedsInv, RowsAreWhole, Uploaded, Released
  <2>3. seeding' = [seeding EXCEPT ![s] = NoSeeding]
    BY <1>2 DEF CommitSeeding
  <2> QED
    BY <2>1, <2>2, <2>3 DEF SeedsInv
<1>3. ASSUME NEW s \in Seeders, AbandonSeeding(s) PROVE SeedsInv'
  BY <1>3 DEF AbandonSeeding, SeedsInv, RowsAreWhole
<1> QED
  BY <1>1, <1>2, <1>3, OpenEdited DEF SeedsNext

LEMMA SeedsInitInv == SeedsInit => SeedsInv
BY DEF SeedsInit, SeedsInv, RowsAreWhole, Keys, NoSeeding

\* No row of the three catalogs mixes two uploads or two releases, however many
\* seeds and uploads overlap and whatever a batch names twice.
THEOREM RowsStayWhole == ASSUME FirstUpdaterWins PROVE SeedsSpec => []RowsAreWhole
<1>1. SeedsInv => RowsAreWhole
  BY DEF SeedsInv
<1> QED
  BY <1>1, SeedsInitInv, SeedsNextInv, PTL DEF SeedsSpec

\* A seed never touches an asset that is there, even one that was uploaded while
\* the seed was under way.
THEOREM UploadsKept == ASSUME FirstUpdaterWins PROVE SeedsSpec => SeedsKeepUploads
<1> DEFINE Kept ==
      \A c \in Combos :
        rows[c] # NoRow /\ rows'[c] # rows[c] =>
          \E batch \in Batches : \E i \in Names(batch, c) : rows'[c] = AssetOf(batch[i])
<1>1. SeedsInv /\ [SeedsNext]_seedVars => [Kept]_seedVars
  <2> SUFFICES ASSUME SeedsInv, SeedsNext PROVE Kept
    OBVIOUS
  <2>1. ASSUME NEW s \in Seeders, CommitSeeding(s) PROVE Kept
    BY <2>1, CommitEffect DEF Uploaded
  <2>2. rows' = rows => Kept
    OBVIOUS
  <2> HIDE DEF Kept
  <2> QED
    BY <2>1, <2>2 DEF SeedsNext, SeedPlaceholders, UpsertEntries, SeedRelease, Open, AbandonSeeding
<1> QED
  BY <1>1, SeedsInitInv, SeedsNextInv, PTL DEF SeedsSpec, SeedsKeepUploads

=============================================================================
