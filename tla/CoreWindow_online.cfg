SPECIFICATION FairSpec
CONSTANTS
  Online = TRUE
  Depth = 2
  WindowSize = 2
  Early <- Creates
  Late <- Movements
  FirstTip = 1
  MaxHeight = 3
  MaxFork = 2
  MaxShrink = 0
  MaxFaults = 2
  Faults = {"error", "death", "metadata"}
INVARIANTS TypeOK PartialRowsAreCovered InsertsAreMarked ProcessedIsAChain CurrentStateIsExact
PROPERTY PublishedTailIsProcessed
