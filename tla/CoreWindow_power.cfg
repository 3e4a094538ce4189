SPECIFICATION Spec
CONSTANTS
  Online = FALSE
  Depth = 2
  WindowSize = 2
  Early <- Creates
  Late <- Movements
  FirstTip = 2
  MaxHeight = 3
  MaxFork = 1
  MaxShrink = 0
  MaxFaults = 1
  Faults = {"power"}
INVARIANT NoHole
