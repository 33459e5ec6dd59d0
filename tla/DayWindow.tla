----------------------------- MODULE DayWindow -----------------------------
(***************************************************************************)
(* Days of events whose occurred_at comes with an offset of its own        *)
(* (src/app/gamification/service.py and group_streak_service.py; module    *)
(* EngagementDays is about the lifecycle's).  Elsewhere in this project an *)
(* event has a day; here it has a time, and the day is what the code makes *)
(* of it, on its way through a DateTime(timezone=True) column.             *)
(*                                                                         *)
(* A column of MariaDB or SQLite keeps the digits of the time and not its  *)
(* offset; one of PostgreSQL keeps the instant and gives it back in UTC.   *)
(* Times are hours.                                                        *)
(***************************************************************************)
EXTENDS Integers, FiniteSets

CONSTANTS
  Instants,      \* when events happen, in hours of UTC
  Offsets,       \* of the times in their requests; 0 is a time without one, too
  DailyCap,      \* how many events of the kind score in a day
  MaxEvents      \* bound of the model

ASSUME DayWindowAssumption ==
  /\ Instants \subseteq Nat /\ Offsets \subseteq Int
  /\ DailyCap \in Nat /\ MaxEvents \in Nat

VARIABLES
  keeps,     \* what the column keeps: "digits" or "instant"
  booked     \* the rows of the ledger

dayVars == <<keeps, booked>>

HOURS == 24
UTC8 == 8

Timestamp == [utc : Instants, offset : Offsets]

\* The digits of a time.
Digits(ts) == ts.utc + ts.offset

\* What the column holds, read as UTC.
Column(ts) == IF keeps = "digits" THEN Digits(ts) ELSE ts.utc

\* _to_taipei_date: the day of a login, numbered.
TaipeiDate(ts) == (ts.utc + UTC8) \div HOURS

\* Mutant of DayStart: midnight in UTC.
UtcDayStart(ts) == ts.utc - (ts.utc % HOURS)

\* _utc8_day_window: the start, in UTC, of the UTC+8 day of a time.
DayStart(ts) == ts.utc - ((ts.utc + UTC8) % HOURS)

\* The WHERE clause: the rows of the day of a time.
RowsOfDay(ts) ==
  {b \in booked : DayStart(ts) <= Column(b.ts) /\ Column(b.ts) < DayStart(ts) + HOURS}

\* An event of a kind that scores DailyCap times a day is booked.
Book(ts) ==
  /\ Cardinality(booked) < MaxEvents
  /\ \A b \in booked : b.ts # ts
  /\ LET scored == {b \in RowsOfDay(ts) : b.scores}
     IN  booked' = booked \union {[ts |-> ts, scores |-> Cardinality(scored) < DailyCap]}
  /\ UNCHANGED keeps

DayWindowInit ==
  /\ keeps \in {"digits", "instant"}
  /\ booked = {}

DayWindowNext == \E ts \in Timestamp : Book(ts)

DayWindowSpec == DayWindowInit /\ [][DayWindowNext]_dayVars

-----------------------------------------------------------------------------

ScoredOn(day) == {b \in booked : b.scores /\ TaipeiDate(b.ts) = day}

CapHolds ==
  \A b \in booked : Cardinality(ScoredOn(TaipeiDate(b.ts))) <= DailyCap

AllInUTC == \A b \in booked : b.ts.offset = 0

\* The cap counts by the UTC+8 day (service.py:33, 45-53) that the streak counts
\* by, whatever the order of the events and the offsets they come with, if the
\* column keeps instants or every App sends UTC.
CapPerTaipeiDay == keeps = "instant" \/ AllInUTC => CapHolds

\* "Return [start, end) UTC of the UTC+8 day containing occurred_at"
\* (service.py:46), to which the rows of the day are compared: no UTC+8 day
\* scores above the cap.
CapPerDayAlways == CapHolds

=============================================================================
