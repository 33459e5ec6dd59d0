--------------------------- MODULE EngagementDays ---------------------------
(***************************************************************************)
(* The streak of deep engagements that makes a visitor a loyalist          *)
(* (rule_visitor_to_loyalist of src/app/conversion/lifecycle.py), for      *)
(* events whose occurred_at comes with an offset of its own.  The days of  *)
(* the stored events are the column's, the day the walk starts from is the *)
(* sender's, and the two calendars need not agree: module Lifecycle, where *)
(* an event has the one day, has everything else of the rule.  The events  *)
(* of one user are here, delivered in any order within the lookback        *)
(* window, and repeated.                                                   *)
(***************************************************************************)
EXTENDS DayWindow

CONSTANT VISITOR_LOYALIST_CONTINUOUS_DAYS

ASSUME ContinuousDaysAssumption == VISITOR_LOYALIST_CONTINUOUS_DAYS \in Nat \ {0}

VARIABLES
  engaged,      \* the times of the stored engagement.deep events of the user
  promotedBy    \* the one that made her a loyalist; {} while she is a visitor

engagementVars == <<engaged, promotedBy>>

\* Mutant of TriggerDay: the day in Taipei, as everywhere else.
TaipeiTriggerDay(ts) == TaipeiDate(ts)

\* event.occurred_at.date(): the day on the sender's own calendar.
TriggerDay(ts) == Digits(ts) \div HOURS

\* func.date(occurred_at): the day as the database has it.
StoredDay(ts) == Column(ts) \div HOURS

\* Mutant of Streak: that many days, with gaps or without.
EnoughDays(times, ts) ==
  Cardinality({StoredDay(e) : e \in times}) >= VISITOR_LOYALIST_CONTINUOUS_DAYS

\* The walk backwards from the day of the trigger through the stored days.
Streak(times, ts) ==
  \A i \in 0 .. VISITOR_LOYALIST_CONTINUOUS_DAYS - 1 :
    TriggerDay(ts) - i \in {StoredDay(e) : e \in times}

\* An event is stored, the trigger of the rule being among the days it reads.
Engage(ts) ==
  /\ Cardinality(engaged \union {ts}) <= MaxEvents
  /\ engaged' = engaged \union {ts}
  /\ promotedBy' = IF promotedBy = {} /\ Streak(engaged', ts) THEN {ts} ELSE promotedBy
  /\ UNCHANGED dayVars

EngagementInit == engaged = {} /\ promotedBy = {}

EngagementNext == \E ts \in Timestamp : Engage(ts)

EngagementSpec ==
  DayWindowInit /\ EngagementInit /\ [][EngagementNext]_<<dayVars, engagementVars>>

-----------------------------------------------------------------------------

NobodyEastOfTaipei == \A ts \in engaged : ts.offset \in UTC8 - HOURS .. UTC8

\* "We require *continuous* days (no gaps) - a one-day gap resets the streak"
\* (lifecycle.py:81-83), by calendars that need not be the one by which caps and
\* login streaks count: a loyalist may have missed a Taipei day, and two of her
\* days may be one in Taipei, but she has never stayed away for two Taipei days
\* in a row.  So at least half of the required days are days in Taipei, with
\* either kind of column and Apps that mix offsets.
TwoDayGapResets ==
  NobodyEastOfTaipei =>
    \A ts \in promotedBy, i \in 0 .. VISITOR_LOYALIST_CONTINUOUS_DAYS - 1 :
      \E e \in engaged : TaipeiDate(e) - (Digits(ts) \div HOURS - i) \in {0, 1}

\* By how many days the sender's calendar is ahead of the column's at a time.
Ahead(ts) == (Digits(ts) \div HOURS) - (Column(ts) \div HOURS)

\* She has come at that hour on n days in a row.
CameDaily(times, ts, n) ==
  \A i \in 0 .. n - 1 : [ts EXCEPT !.utc = ts.utc - HOURS * i] \in times

\* A visitor who comes every day at the same hour is promoted on the last of the
\* required days, or one day later where her calendar is behind the column's (in
\* New York in the evening, with a column of instants); but where it is ahead (in
\* Taipei before eight in the morning) no number of days promotes her, for the
\* walk starts on a day that the table does not have yet (lifecycle.py:110-134).
DailyVisitsPromote ==
  [][\A ts \in engaged' \ engaged :
       /\ /\ Ahead(ts) <= 0
          /\ CameDaily(engaged', ts, VISITOR_LOYALIST_CONTINUOUS_DAYS - Ahead(ts))
          => promotedBy' # {}
       /\ (\A e \in engaged' : Ahead(e) > 0 /\ e.utc <= ts.utc)
          => promotedBy' = promotedBy]_<<dayVars, engagementVars>>

=============================================================================
