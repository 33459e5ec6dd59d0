SPECIFICATION FairSpec
CONSTANTS
  NoRow = NoRow
  FirstUpdaterWins = TRUE
  NumEvents = 2
  UserOf <- AllAnn
  NumConsumers = 1
  Worker = worker
  Routes = {route}
  Limit = 2
  MAX_RETRIES = 2
  Breakable = {}
  MaxFaults = 1
INVARIANT SentWasProcessed
INVARIANT GivenUpForCause
PROPERTY SettledStays
PROPERTY EventuallySettled
