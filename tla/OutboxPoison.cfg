SPECIFICATION FairSpec
CONSTANTS
  NoRow = NoRow
  FirstUpdaterWins = TRUE
  NumEvents = 1
  UserOf <- AllAnn
  NumConsumers = 2
  Worker = worker
  Routes = {}
  Limit = 2
  MAX_RETRIES = 2
  Breakable = {2}
  MaxFaults = 1
PROPERTY EventuallySettled
