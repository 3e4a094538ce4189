SPECIFICATION FairSpec
CONSTANTS
  a = a
  b = b
  Nobody = Nobody
  Instances <- Two
  Heartbeat = 1
  Skew <- SkewedClocks
  Horizon = 6
  FaultsUntil = 1
  MaxFaults = 1
INVARIANTS TypeOK FreshLeaseIsCurrent
PROPERTIES TakeoverIsOfAStaleLease SomeoneLeads ReplacedLeaderNotices
CHECK_DEADLOCK FALSE
