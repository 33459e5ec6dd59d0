SPECIFICATION Spec
CONSTANTS
  NoRow = NoRow
  Idle = Idle
  Users = {"ann"}
  w1 = w1
  w2 = w2
  Workers = {w1, w2}
  Requests <- ScoreRequests
  Rule <- MCRule
  XpReward <- MCXpReward
  Gate <- MCGate
  MaxLevel <- MCMaxLevel
  Threshold <- MCThreshold
  Seeded = {}
  FirstUpdaterWins = TRUE
SYMMETRY Symmetry
PROPERTY LateLoginIgnored
