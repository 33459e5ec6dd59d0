SPECIFICATION Spec
CONSTANTS
  Users = {"ann"}
  w1 = w1
  w2 = w2
  Workers = {w1, w2}
  EventRequests <- Shortcuts
  Overrides <- Lift
  VISITOR_LOYALIST_CONTINUOUS_DAYS = 2
  LookbackSlack = 1
  Answers <- MCAnswers
  REQUIRED_MONTHS = 3
  MONTHLY_THRESHOLD = 30000
  FIRST_ORDER_THRESHOLD = 6600
  MaxClock = 2
  MaxTransitions = 3
CHECK_DEADLOCK FALSE
PROPERTY RulesNeverRegress
