CONSTANTS
  Requests = {"r1","r2"}
  Keys = {"a","b"}
  Members = {}
  MaxStoreFaults = 0
  Absent = Absent
  NoActor = NoActor
SPECIFICATION AccessSpec
CHECK_DEADLOCK FALSE
PROPERTY AnAdminRemains
