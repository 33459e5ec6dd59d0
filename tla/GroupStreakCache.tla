-------------------------- MODULE GroupStreakCache --------------------------
(***************************************************************************)
(* The read cache of GET /internal/group-streak/{uuid} and its             *)
(* invalidation by the event ingest (src/app/gamification/routes.py), for  *)
(* one user.  Every process keeps its own cache; the table behind them is  *)
(* shared.  A read that misses notes the time, waits for the SELECT and    *)
(* then stores what it got, and other requests of its process run in       *)
(* between.  An ingest of a login event drops the entry of its own process *)
(* after the commit.                                                       *)
(*                                                                         *)
(* XpLedger is about the transaction itself: here the bump is one step.    *)
(***************************************************************************)
EXTENDS GroupStreak, Clock, Sequences

CONSTANTS
  Processes,     \* of the service
  Handlers,      \* concurrent requests
  ProcessOf,     \* the process that runs a request
  CACHE_TTL,     \* _GROUP_STREAK_CACHE_TTL
  DayLength,     \* of a Taipei day, in units of the clock
  MaxVersions    \* bound of the model

ASSUME CacheAssumption ==
  /\ ProcessOf \in [Handlers -> Processes]
  /\ CACHE_TTL \in Nat \ {0} /\ DayLength \in Nat \ {0} /\ MaxVersions \in Nat

VARIABLES
  streak,      \* the user's row as committed, or NoRow
  changedAt,   \* when each version of the row was committed
  cache,       \* by process: its entry of _group_streak_cache, or NoEntry
  request,     \* by handler: Waiting, or how far the request is
  told         \* by process: the latest version whose ingest it has answered

streakCacheVars == <<now, streak, changedAt, cache, request, told>>

NoEntry == [expires |-> -1]
Waiting == [phase |-> "waiting"]

Version == Len(changedAt)

\* The Taipei day of a time (group_streak_service.py _to_taipei_date).
Day(t) == t \div DayLength

\* Mutant of today_in_streak: a login yesterday counts.
recently_in_streak(row, t) == row # NoRow /\ row.last >= Day(t) - 1

today_in_streak(row, t) == row # NoRow /\ row.last = Day(t)

\* The entry a request that comes now is answered with.
Servable(p) == cache[p] # NoEntry /\ cache[p].expires > now

-----------------------------------------------------------------------------
(* A read.  A hit changes nothing.                                         *)

Miss(h) ==
  /\ request[h] = Waiting
  /\ ~Servable(ProcessOf[h])
  /\ request' = [request EXCEPT ![h] = [phase |-> "reading", start |-> now]]
  /\ UNCHANGED <<now, streak, changedAt, cache, told>>

Select(h) ==
  /\ request[h].phase = "reading"
  /\ request' = [request EXCEPT ![h] =
       [phase |-> "read", start |-> request[h].start, row |-> streak, version |-> Version,
        overtaken |-> FALSE]]
  /\ UNCHANGED <<now, streak, changedAt, cache, told>>

\* Mutant of Entry: the TTL runs from the end of the read.
EntryFromFill(r) ==
  [expires |-> now + CACHE_TTL, row |-> r.row, today |-> today_in_streak(r.row, now),
   version |-> r.version, overtaken |-> r.overtaken]

\* What a read stores.  The flag today_in_streak is worked out at the end of the
\* read; the TTL runs from its start.  version and overtaken are the model's own.
Entry(r) ==
  [expires |-> r.start + CACHE_TTL, row |-> r.row, today |-> today_in_streak(r.row, now),
   version |-> r.version, overtaken |-> r.overtaken]

Fill(h) ==
  /\ request[h].phase = "read"
  /\ cache' = [cache EXCEPT ![ProcessOf[h]] = Entry(request[h])]
  /\ request' = [request EXCEPT ![h] = Waiting]
  /\ UNCHANGED <<now, streak, changedAt, told>>

-----------------------------------------------------------------------------
(* An ingest of a login event.                                             *)

\* The commit.  The event is of the current day or of the one before; one that
\* was ingested already, or of a day that counts already, changes nothing.
BumpTo(row) ==
  /\ streak' = row
  /\ row # streak => Version < MaxVersions
  /\ changedAt' = IF row = streak THEN changedAt ELSE Append(changedAt, now)

Rows == {Bumped(streak, day) : day \in {Day(now), Day(now) - 1} \intersect Nat} \union {streak}

CommitLogin(h) ==
  /\ request[h] = Waiting
  /\ \E row \in Rows : BumpTo(row)
  /\ request' = [request EXCEPT ![h] = 
       [phase |-> "committed", version |-> Len(changedAt'), bumped |-> streak' # streak]]
  /\ UNCHANGED <<now, cache, told>>

\* The database commits and the answer to COMMIT is lost: the handler raises,
\* and drops nothing.
CommitUnheard(h) ==
  /\ request[h] = Waiting
  /\ \E row \in Rows : BumpTo(row)
  /\ UNCHANGED <<now, cache, request, told>>

\* Reads of process p that have their row already will store it all the same.
Overtaken(p) ==
  [g \in Handlers |->
    IF ProcessOf[g] = p /\ request[g].phase = "read"
      THEN [request[g] EXCEPT !.overtaken = TRUE]
      ELSE request[g]]

AtLeast(m, n) == IF m > n THEN m ELSE n

\* Mutant of Drop: nothing is dropped when the streak did not move.
DropIfBumped(h) ==
  LET p == ProcessOf[h]
  IN  /\ request[h].phase = "committed"
      /\ cache' = [cache EXCEPT ![p] = IF request[h].bumped THEN NoEntry ELSE @]
      /\ request' = [Overtaken(p) EXCEPT ![h] = Waiting]
      /\ told' = [told EXCEPT ![p] = AtLeast(@, request[h].version)]
      /\ UNCHANGED <<now, streak, changedAt>>

\* _invalidate_group_streak_cache, and the answer to the App.
Drop(h) ==
  LET p == ProcessOf[h]
  IN  /\ request[h].phase = "committed"
      /\ cache' = [cache EXCEPT ![p] = NoEntry]
      /\ request' = [Overtaken(p) EXCEPT ![h] = Waiting]
      /\ told' = [told EXCEPT ![p] = AtLeast(@, request[h].version)]
      /\ UNCHANGED <<now, streak, changedAt>>

-----------------------------------------------------------------------------

\* A process dies with its cache and its requests, and is started again.
Restart(p) ==
  /\ cache' = [cache EXCEPT ![p] = NoEntry]
  /\ request' = [h \in Handlers |-> IF ProcessOf[h] = p THEN Waiting ELSE request[h]]
  /\ UNCHANGED <<now, streak, changedAt, told>>

StreakCacheInit ==
  /\ ClockInit
  /\ streak = NoRow
  /\ changedAt = <<>>
  /\ cache = [p \in Processes |-> NoEntry]
  /\ request = [h \in Handlers |-> Waiting]
  /\ told = [p \in Processes |-> 0]

StreakCacheNext ==
  \/ \E h \in Handlers :
       Miss(h) \/ Select(h) \/ Fill(h) \/ CommitLogin(h) \/ CommitUnheard(h) \/ Drop(h)
  \/ \E p \in Processes : Restart(p)
  \/ Tick /\ UNCHANGED <<streak, changedAt, cache, request, told>>

StreakCacheSpec == StreakCacheInit /\ [][StreakCacheNext]_streakCacheVars

-----------------------------------------------------------------------------

\* "A streak extension shows up in <= 1 cache window" (routes.py:496-497), in
\* every process and however long a read takes: what a process serves was the
\* user's row at some time within the last CACHE_TTL.
FreshWithinWindow ==
  \A p \in Processes : Servable(p) =>
    LET v == cache[p].version
    IN  v = Version \/ changedAt[v + 1] > now - CACHE_TTL

\* The flag that tells an App "you have logged in today" (routes.py:537) is
\* wrong about the row it comes with for no longer than CACHE_TTL after a
\* midnight.
TodayWithinWindow ==
  \A p \in Processes :
    (Servable(p) /\ cache[p].today # (cache[p].row # NoRow /\ cache[p].row.last = Day(now))) =>
      DayLength * Day(now) > now - CACHE_TTL

\* "The next read for this user reflects the new bump immediately"
\* (routes.py:99-101) is true of the process that answered the ingest, but for
\* one case: a read that had its row before the entry was dropped stores it
\* afterwards.
BehindOnlyIfOvertaken ==
  \A p \in Processes :
    Servable(p) /\ cache[p].version < told[p] => cache[p].overtaken

=============================================================================
