CONSTANTS
  Left = {"t1", "t2"}
  Right = {"t3", "t4"}
  Owner = "owner"
  Items = {"x1", "x2", "s1", "s2"}
  Stops = {"s1", "s2"}
  Capacity = 2
  Elements = {"x1", "x2", "x3"}
  Count = 2
  MaxCalls = 2
  Tasks = {"x1", "x2", "x3"}
  Quitters = {"t1", "callback"}
  MaxJobs = 2
SPECIFICATION Spec
INVARIANTS NoLostNotification GoesOnWhenDue
PROPERTIES QueuesAreFifo NobodyWaitsForEver
CHECK_DEADLOCK FALSE
