------------------------------ MODULE MCParts ------------------------------
(***************************************************************************)
(* One run for the parts that stand alone: the level curve, the read cache *)
(* of the group streak, the cached public key, the seeds, the days of      *)
(* timestamps, and the streak of engagements.  A behaviour is one part's;  *)
(* the others stay where they begin.                                       *)
(***************************************************************************)
EXTENDS LevelCurve, GroupStreakCache, KeyCache, CatalogSeeds, EngagementDays

CONSTANT Checked   \* the parts of a run

VARIABLE part

AllParts == {"curve", "streak cache", "key cache", "seeds", "days", "engagements"}

PartsInit ==
  /\ part \in Checked
  /\ CurveInit /\ StreakCacheInit /\ KeyCacheInit /\ SeedsInit /\ DayWindowInit
  /\ EngagementInit
  /\ part \notin {"days", "engagements"} => keeps = "digits"

InCurve ==
  /\ part = "curve" /\ CurveNext
  /\ UNCHANGED <<part, streakCacheVars, keyVars, seedVars, dayVars, engagementVars>>

InStreakCache ==
  /\ part = "streak cache" /\ StreakCacheNext
  /\ UNCHANGED <<part, total, rotatedAt, pem, fetchedAt, fetch>>
  /\ UNCHANGED <<seedVars, dayVars, engagementVars>>

InKeyCache ==
  /\ part = "key cache" /\ KeyCacheNext
  /\ UNCHANGED <<part, total, streak, changedAt, cache, request, told>>
  /\ UNCHANGED <<seedVars, dayVars, engagementVars>>

InSeeds ==
  /\ part = "seeds" /\ SeedsNext
  /\ UNCHANGED <<part, total, streakCacheVars, keyVars, dayVars, engagementVars>>

InDays ==
  /\ part = "days" /\ DayWindowNext
  /\ UNCHANGED <<part, total, streakCacheVars, keyVars, seedVars, engagementVars>>

InEngagements ==
  /\ part = "engagements" /\ EngagementNext
  /\ UNCHANGED <<part, total, streakCacheVars, keyVars, seedVars>>

PartsNext == InCurve \/ InStreakCache \/ InKeyCache \/ InSeeds \/ InDays \/ InEngagements

partsVars == <<part, total, streakCacheVars, keyVars, seedVars, dayVars, engagementVars>>

PartsSpec == PartsInit /\ [][PartsNext]_partsVars

-----------------------------------------------------------------------------

OneProcess == [h \in Handlers |-> "p1"]

Item(combo, sprite, animation) ==
  [combo |-> combo, sprite_url |-> sprite, animation_url |-> animation]

\* Two uploads that overlap, one that names a combo twice, and one without a
\* sprite.
MCBatches ==
  {<<Item("happy", "s1", "a1"), Item("happy in hat", "s1", "")>>,
   <<Item("happy", "s1", "a2"), Item("happy", "s2", "a1")>>,
   <<Item("happy in hat", "s2", "a1"), Item("happy", "", "a2")>>}

\* Two releases that disagree in both columns of an achievement.
MCCatalogOf ==
  [old |-> [streak_7 |-> [tier |-> "bronze", xp_reward |-> 50]],
   new |-> [streak_7 |-> [tier |-> "silver", xp_reward |-> 120]]]

\* Around the midnights of UTC, of Taipei and of New York; some hours of the day
\* come on three days in a row.
MCInstants == {4, 15, 16, 23, 28, 39, 40, 47, 52}

\* UTC, Taipei and New York.
MCOffsets == {0, 8, -5}

=============================================================================
