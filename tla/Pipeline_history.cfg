SPECIFICATION PipeSpec
CONSTANTS
  SyncSize = 2
  ProcessSize = 3
  SyncDistance = 1
  TipDistance = 1
  RangeCount = 2
  StartHeight = 2
  MaxTip = 2
  MaxPipeFaults = 1
  PipeFaults = {"death"}

PROPERTY HistoryBecomesReady
