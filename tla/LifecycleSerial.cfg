SPECIFICATION Spec
CONSTANTS
  Users = {"ann"}
  w1 = w1
  Workers = {w1}
  EventRequests <- Climb
  Overrides <- Back
  VISITOR_LOYALIST_CONTINUOUS_DAYS = 2
  LookbackSlack = 1
  Answers <- MCAnswers
  REQUIRED_MONTHS = 3
  MONTHLY_THRESHOLD = 30000
  FIRST_ORDER_THRESHOLD = 6600
  MaxClock = 2
  MaxTransitions = 5
CHECK_DEADLOCK FALSE
INVARIANTS HistoryIsChain FunnelAgrees StageEarned
PROPERTIES RulesNeverRegress ImplementsJourney
