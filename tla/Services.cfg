SPECIFICATION Spec
CONSTANTS
  SessionCount = 3
  Demanding = {2}
  MaxWatches = 2
  Txs = {1, 2}
  MaxWatchFaults = 1
  Requests = {"r1", "r2"}
  Keys = {"a", "b"}
  Members = {}
  MaxStoreFaults = 1
  Absent = Absent
  NoActor = NoActor
  Queries = {"q1", "q2"}
  MaxConcurrent = 1
  TopHeight = 2
  FactsDepth = 1
  MaxScriptRuns = 2
  MaxRewinds = 2
  Unset = Unset
  MaxRequests = 2
  WindowTicks = 3
  SecondTicks = 2
  MaxClock = 8
  Callers = {"c1", "c2"}
  BatchSize = 2
  IntervalTicks = 2
  BaseDelayTicks = 1
  RetryAttempts = 2
  MaxOverloads = 2
  MaxRpcClock = 7
  Readers = {"l1"}
  Newest = 3
  ScanLimit = 1
  TxIndexes = {0, 1}
  FirstTails = {1, 2, 3}
  NoRef = NoRef
  TtlTicks = 2
  MaxLoads = 4
  MaxCacheClock = 6
CHECK_DEADLOCK FALSE
INVARIANTS WatchLimitHolds NothingIsMissed AuditedOnce
INVARIANTS OnlyTheScriptHidesFacts ConcurrencyIsExact LimitsAreKept
INVARIANTS ResultsAreOfTheirCalls RateIsKept CalmLookupsAreRight LoadsAreShared
PROPERTIES BootstrapIsExclusive LastAdminNeedsARace
