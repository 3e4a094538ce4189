SPECIFICATION LookupSpec
CONSTANTS
  Readers = {l1}
  Newest = 2
  TxIndexes = {0, 1}
  NoRef = NoRef
  FirstTails = {0}
  ScanLimit = 2
INVARIANTS CalmLookupsAreRight
CHECK_DEADLOCK FALSE
