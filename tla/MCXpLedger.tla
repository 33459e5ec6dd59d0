----------------------------- MODULE MCXpLedger -----------------------------
(***************************************************************************)
(* Instances of XpLedger for TLC.  Kinds, XP, thresholds and gates are     *)
(* those of catalog.py; only meal.meal_logged is scaled down (5 XP, 2 from *)
(* the second of the day on, at most 8 a day, for 5 / 2 / 4th / 30) so     *)
(* that four events reach the clipped and the exhausted cap.               *)
(***************************************************************************)
EXTENDS XpLedger, TLC

MCRule ==
  [k \in {"meal.meal_logged"} |->
     [app |-> "meal", xp |-> 5, cap |-> 8, lifetime |-> FALSE, after |-> 1, reduced |-> 2,
      login |-> FALSE]]
  @@ [k \in {"jerosse.first_order"} |->
     [app |-> "jerosse", xp |-> 100, cap |-> NoLimit, lifetime |-> TRUE, after |-> NoLimit,
      reduced |-> NoLimit, login |-> FALSE]]
  @@ [k \in {"meal.streak_30"} |->
     [app |-> "meal", xp |-> 200, cap |-> NoLimit, lifetime |-> FALSE, after |-> NoLimit,
      reduced |-> NoLimit, login |-> FALSE]]
  @@ [k \in {"meal.daily_login_streak_extended", "calendar.daily_login_streak_extended"} |->
     [app |-> IF k = "meal.daily_login_streak_extended" THEN "meal" ELSE "calendar", xp |-> 3,
      cap |-> 3, lifetime |-> FALSE, after |-> NoLimit, reduced |-> NoLimit, login |-> TRUE]]

\* gold, and a code an operator has set to 0 XP in the table
MCXpReward == [c \in {"meal.streak_30", "meal.retired"} |->
                 IF c = "meal.streak_30" THEN 300 ELSE 0]

MCGate == [o \in {"scarf", "glasses", "straw_hat"} |->
             CASE o = "scarf" -> 5 [] o = "glasses" -> 8 [] OTHER -> NoLimit]

MCThreshold == <<0, 50, 120, 200, 300, 400, 500, 600>>   \* LV.1 to LV.8
MCMaxLevel == 8

Event(u, kind, key, day) ==
  [op |-> "ingest", user |-> u, kind |-> kind, app |-> MCRule[kind].app, key |-> key, day |-> day]
Award(u, code, key) ==
  [op |-> "award", user |-> u, code |-> code, app |-> "meal", key |-> key, day |-> 1]

-----------------------------------------------------------------------------
(* Scores: four meals of one day, one that claims to come from another App, *)
(* and logins through two Apps, in any order.                               *)

ScoreRequests ==
  {Event("ann", "meal.meal_logged", key, 1) : key \in {"m1", "m2", "m3", "m4"}}
    \union {[Event("ann", "meal.meal_logged", "m5", 1) EXCEPT !.app = "jerosse"]}
    \union {Event("ann", "calendar.daily_login_streak_extended", "c1", 1),
            Event("ann", "calendar.daily_login_streak_extended", "c2", 2),
            Event("ann", "meal.daily_login_streak_extended", "d2", 2)}

-----------------------------------------------------------------------------
(* Rewards: events, awards, a batch and a manual grant that lift the levels  *)
(* of two users while a part of the catalog is still to be seeded.  One key  *)
(* is taken by bob's event, ann's event and ann's award; two first orders of *)
(* one user are on their way.                                                *)

RewardRequests ==
  {Event("ann", "meal.streak_30", "s1", 1), Event("bob", "meal.streak_30", "s1", 1),
   Event("ann", "jerosse.first_order", "o1", 1), Event("ann", "jerosse.first_order", "o2", 2),
   Award("ann", "meal.streak_30", "s1"), Award("ann", "meal.retired", "a1"),
   [op |-> "bootstrap", app |-> "meal", xp |-> [u \in {"ann", "bob"} |-> 120]],
   [op |-> "grant", user |-> "ann", outfit |-> "glasses"],
   [op |-> "seed", codes |-> {"glasses", "meal.retired"}]}

RewardSeeded == {"scarf", "meal.streak_30"}

Symmetry == Permutations(Workers)

=============================================================================
