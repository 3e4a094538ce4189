SPECIFICATION Spec
CONSTANTS
  SyncSize = 2
  ProcessSize = 3
  SyncDistance = 1
  TipDistance = 1
  RangeCount = 2
  StartHeight = 1
  MaxTip = 3
  MaxPipeFaults = 2
  PipeFaults = {"death", "error", "metadata"}
  BatchSize = 2
  MaxConcurrency = 2
  RampUp = 2
  Attempts = 2
  RefreshDepth = 5
  SyncTop = 4
  MaxFailures = 3
  FetchSize = 2
  FetchConcurrency = 2
  MaxBuffered = 3
  LastHeight = 5
  MaxGeneration = 3
  MaxRewinds = 1
  Booters = {"api", "indexer"}
  Old = {"api"}
  Slow = {"indexer"}
  Databases = {"sqlite", "postgres", "mysql"}
  StoredRows = {r1}
  MaxBootDeaths = 2
  SampleTxs <- MCTxs
  SampleProofs <- MCProofs
  Decimals = 2
  MaxKoinu = 2000
CHECK_DEADLOCK FALSE
INVARIANTS PublishedStateHolds SyncTailIsStored ReadAheadIsAccounted WaitIsAnswered
INVARIANTS ServedSchemaIsCurrent ReadModelsAreExact DecodingIsExact
PROPERTIES StagesReachTheTip RawSyncCompletes BootsComplete
