---------------------------- MODULE LevelCurve ----------------------------
(***************************************************************************)
(* The XP / level curve and the level gates of the gamification catalog    *)
(* (src/app/gamification/catalog.py).  Pure functions of the source become *)
(* operators; one variable, `total', walks through every XP total a user   *)
(* can reach so that TLC compares the operators with reference definitions *)
(* on each of them.                                                        *)
(***************************************************************************)
EXTENDS Integers, Sequences, FiniteSets, FiniteSetsExt

CONSTANT TotalBound   \* the walk stops at this total (the top anchor is 30 000)

ASSUME TotalBoundAssumption == TotalBound \in Nat

-----------------------------------------------------------------------------
(* The table.                                                              *)

MAX_LEVEL == 100

\* Mutant of LEVEL_ANCHORS: level 20 has lost a digit.
DippingAnchors ==
  << <<1, 0>>, <<2, 50>>, <<3, 120>>, <<4, 200>>, <<5, 300>>, <<6, 400>>,
     <<7, 500>>, <<8, 600>>, <<9, 780>>, <<10, 1000>>, <<15, 2000>>,
     <<20, 350>>, <<30, 6000>>, <<50, 12000>>, <<100, 30000>> >>

\* (level, cumulative xp), ascending.
LEVEL_ANCHORS ==
  << <<1, 0>>, <<2, 50>>, <<3, 120>>, <<4, 200>>, <<5, 300>>, <<6, 400>>,
     <<7, 500>>, <<8, 600>>, <<9, 780>>, <<10, 1000>>, <<15, 2000>>,
     <<20, 3500>>, <<30, 6000>>, <<50, 12000>>, <<100, 30000>> >>

NamedLevels == {LEVEL_ANCHORS[i][1] : i \in DOMAIN LEVEL_ANCHORS}

Segments == 1 .. Len(LEVEL_ANCHORS) - 1

SegmentOf(lv) ==
  CHOOSE i \in Segments : LEVEL_ANCHORS[i][1] <= lv /\ lv <= LEVEL_ANCHORS[i + 1][1]

\* xp_a + (xp_b - xp_a) * (lv - lv_a) / (lv_b - lv_a).  The source rounds a
\* float; StepsAreWhole says there is nothing to round.
Interpolated(lv) ==
  LET a == LEVEL_ANCHORS[SegmentOf(lv)]
      b == LEVEL_ANCHORS[SegmentOf(lv) + 1]
  IN  a[2] + ((b[2] - a[2]) * (lv - a[1])) \div (b[1] - a[1])

ASSUME StepsAreWhole ==
  \A i \in Segments :
    LET a == LEVEL_ANCHORS[i]
        b == LEVEL_ANCHORS[i + 1]
    IN  (b[2] - a[2]) % (b[1] - a[1]) = 0

LEVEL_XP_TABLE == [lv \in 1 .. MAX_LEVEL |-> Interpolated(lv)]

-----------------------------------------------------------------------------
(* The functions of the catalog.                                           *)

\* The loop climbs the table and stops at the first threshold not reached.
level_for_xp(xp) ==
  LET climb[c \in 1 .. MAX_LEVEL + 1] ==
        IF c <= MAX_LEVEL /\ xp >= LEVEL_XP_TABLE[c] THEN climb[c + 1] ELSE c - 1
  IN  climb[2]

\* Mutant of xp_to_next_level: the width of the level instead of what is left.
WidthOfLevel(xp) ==
  LET cur == level_for_xp(xp)
  IN  IF cur >= MAX_LEVEL THEN 0 ELSE LEVEL_XP_TABLE[cur + 1] - LEVEL_XP_TABLE[cur]

xp_to_next_level(xp) ==
  LET cur == level_for_xp(xp)
  IN  IF cur >= MAX_LEVEL THEN 0 ELSE Max({0, LEVEL_XP_TABLE[cur + 1] - xp})

\* The level whose name a level carries: the closest named one at or below.
level_name(lv) == Max({1} \union {n \in NamedLevels : n <= lv})

\* parse_level_unlock over OUTFIT_CATALOG: the outfits gated by a level.
LevelGates ==
  [scarf |-> 5, glasses |-> 8, headphones |-> 12, angel_wings |-> 20, group_eternal |-> 100]

\* Mutant of level_unlock_outfits_up_to: the gate opens one level late.
outfits_below(lv) == {o \in DOMAIN LevelGates : LevelGates[o] < lv}

level_unlock_outfits_up_to(lv) == {o \in DOMAIN LevelGates : LevelGates[o] <= lv}

-----------------------------------------------------------------------------
(* The walk over every total.                                              *)

VARIABLE total

CurveInit == total = 0

Gain == /\ total < TotalBound
        /\ total' = total + 1

CurveNext == Gain

CurveSpec == CurveInit /\ [][CurveNext]_total

-----------------------------------------------------------------------------

\* The level of a total (catalog.py level_for_xp) is the number of thresholds
\* it has reached, which is what the loop computes only if the interpolated
\* table never dips.  XpLedger uses the counting form.
LevelCountsThresholds ==
  level_for_xp(total) = Cardinality({l \in 1 .. MAX_LEVEL : LEVEL_XP_TABLE[l] <= total})

\* The "xp to next level" an App shows (catalog.py xp_to_next_level) is exact:
\* that much XP reaches the next level and one less does not, and it is 0 at
\* the top level only.
NextLevelIsExact ==
  LET left == xp_to_next_level(total)
      cur  == level_for_xp(total)
  IN  IF cur = MAX_LEVEL
        THEN left = 0
        ELSE /\ left > 0
             /\ level_for_xp(total + left) = cur + 1
             /\ level_for_xp(total + left - 1) = cur

\* One more point of XP lifts a user by at most one level, moves the name only
\* at a named level, and opens exactly the wardrobe gates of the level reached:
\* no level, name or outfit can be skipped over by the interpolation.
OnePointOneLevel ==
  [][LET was == level_for_xp(total)
         now == level_for_xp(total')
     IN  /\ now \in {was, was + 1}
         /\ level_name(now) # level_name(was) => now \in NamedLevels /\ now = was + 1
         /\ level_unlock_outfits_up_to(now) =
              level_unlock_outfits_up_to(was)
                \union {o \in DOMAIN LevelGates : LevelGates[o] = now}]_total

=============================================================================
