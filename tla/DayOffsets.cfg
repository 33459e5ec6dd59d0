SPECIFICATION PartsSpec
CONSTANTS
  Checked = {"days"}
  NoRow = NoRow
  FirstUpdaterWins = TRUE
  TotalBound = 30050
  MaxTime = 5
  Processes = {"p1"}
  Handlers = {h1, h2}
  ProcessOf <- OneProcess
  CACHE_TTL = 2
  DayLength = 3
  MaxVersions = 2
  Verifiers = {v1, v2}
  KEY_TTL = 2
  Latency = 1
  MaxRotations = 2
  Combos = {"happy", "happy in hat"}
  SeededCombos = {"happy"}
  Batches <- MCBatches
  Codes = {"streak_7"}
  CatalogOf <- MCCatalogOf
  Seeders = {s1, s2}
  Instants <- MCInstants
  Offsets <- MCOffsets
  DailyCap = 1
  MaxEvents = 3
  VISITOR_LOYALIST_CONTINUOUS_DAYS = 2
CHECK_DEADLOCK FALSE
INVARIANT CapPerDayAlways
