SPECIFICATION Spec
CONSTANTS
  NoRow = NoRow
  FirstUpdaterWins = TRUE
  NumEvents = 3
  UserOf <- MCUserOf
  NumConsumers = 1
  Worker = worker
  Routes = {}
  Limit = 2
  MAX_RETRIES = 2
  Breakable = {1}
  MaxFaults = 2
INVARIANT TypeOK
INVARIANT RepeatNeedsTrouble
INVARIANT OnlyRetriesAreOvertaken
PROPERTY ImplementsDelivery
