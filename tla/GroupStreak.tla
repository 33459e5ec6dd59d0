---------------------------- MODULE GroupStreak ----------------------------
(***************************************************************************)
(* One row of group_user_daily_streaks and what one bump does to it        *)
(* (src/app/gamification/group_streak_service.py).  A day is a day number  *)
(* of the Asia/Taipei calendar: the service converts the occurred_at of    *)
(* the event, so days arrive in whatever order the events do.  The column  *)
(* last_seen_app only names the App of the last write and is left out.     *)
(*                                                                         *)
(* XpLedger runs the bump inside its ingest transaction.                   *)
(***************************************************************************)
EXTENDS Integers, Database

StreakRow == [current : Nat \ {0}, longest : Nat \ {0}, last : Nat]

FirstLogin(today) == [current |-> 1, longest |-> 1, last |-> today]

\* Mutant of CurrentAfter: a late login extends the streak.
LateExtends(row, today) ==
  IF row.last = today THEN row.current
  ELSE IF row.last >= today - 1 THEN row.current + 1
  ELSE 1

\* The streak counter after a login on `today' of a user whose row is `row'.
CurrentAfter(row, today) ==
  IF row.last = today THEN row.current
  ELSE IF row.last = today - 1 THEN row.current + 1
  ELSE 1

\* bump(): the comparison with longest_streak runs on the same-day path too.
Bumped(row, today) ==
  IF row = NoRow
    THEN FirstLogin(today)
    ELSE LET c == CurrentAfter(row, today)
         IN  [current |-> c,
              longest |-> IF c > row.longest THEN c ELSE row.longest,
              last    |-> today]

-----------------------------------------------------------------------------
(* What a streak row may claim, given the set of days with a login.        *)

\* `days' holds the n consecutive days that end on `last'.
RunOf(n, last, days) == \A i \in 0 .. n - 1 : last - i \in days

\* The counter is backed by logins on consecutive days up to its date, and the
\* record by logins on consecutive days somewhere in the past.
Backed(row, days) ==
  /\ RunOf(row.current, row.last, days)
  /\ \E d \in days : RunOf(row.longest, d, days)
  /\ row.current <= row.longest

=============================================================================
