SPECIFICATION FairSpec
CONSTANTS
  Online = FALSE
  Depth = 2
  WindowSize = 2
  Early <- Creates
  Late <- Movements
  FirstTip = 3
  MaxHeight = 3
  MaxFork = 0
  MaxShrink = 1
  MaxFaults = 2
  Faults = {"error", "death", "metadata"}
INVARIANTS RewindRunsAlone NoDuplicateRows NoHole
PROPERTY CatchesUp
