SPECIFICATION Spec
CONSTANTS
  NoRow = NoRow
  Idle = Idle
  Users = {"ann", "bob"}
  w1 = w1
  w2 = w2
  Workers = {w1, w2}
  Requests <- RewardRequests
  Rule <- MCRule
  XpReward <- MCXpReward
  Gate <- MCGate
  MaxLevel <- MCMaxLevel
  Threshold <- MCThreshold
  Seeded <- RewardSeeded
  FirstUpdaterWins = FALSE
SYMMETRY Symmetry
PROPERTY TotalFollowsLedger
