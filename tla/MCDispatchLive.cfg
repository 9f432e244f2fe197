CONSTANTS
  t1 = t1
  t2 = t2
  Task = {t1, t2}
  First = t1
  NoTask = NoTask
  MaxPlans = 1
  ApproveRevs <- NoApproveRev
  Lane <- OneLane
  LaneOf <- AllInLaneOne
  TTL = 3
  Orders <- AllOrders
  Mishaps <- AnyMishap
  MaxMishaps = 1
  MaxToken = 1
  MaxInbox = 1
SPECIFICATION FairSpec
PROPERTIES
  QueuedIsDispatched
CHECK_DEADLOCK FALSE
