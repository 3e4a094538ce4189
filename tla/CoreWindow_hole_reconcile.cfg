SPECIFICATION Spec
CONSTANTS
  Online = FALSE
  Depth = 2
  WindowSize = 1
  Early <- Creates
  Late <- Movements
  FirstTip = 1
  MaxHeight = 1
  MaxFork = 0
  MaxShrink = 0
  MaxFaults = 2
  Faults = {"power", "reconcile"}
INVARIANTS NoHole
