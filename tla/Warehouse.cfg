SPECIFICATION ClickSpec
CONSTANTS
  Blocks <- MCBlocks
  Parent <- MCParent
  Height <- MCHeight
  Txs <- MCTxs
  Inputs <- MCInputs
  Creations <- MCCreations
  Outputs <- MCOutputs
  Addresses = {"A", "B"}
  Owner <- MCOwner
  Amount <- MCAmount
  NoBlock = "none"
  NoAddress = "nobody"
  WindowSize = 2
  MaxRequests = 4
  MaxFailures = 1
  MaxLost = 1
CHECK_DEADLOCK FALSE
INVARIANT KeptRowsFollowFacts
PROPERTY ActsAsInMemory
