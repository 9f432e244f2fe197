CONSTANTS
  t1 = t1
  t2 = t2
  Task = {t1, t2}
  First = t1
  NoTask = NoTask
  MaxPlans = 1
  ApproveRevs <- NoApproveRev
  Lane <- OneLane
  LaneOf <- AllInLaneOne
  TTL = 3
  Orders <- RetryOnly
  Mishaps <- AnyMishap
  MaxMishaps = 2
  MaxToken = 2
  MaxInbox = 1
SPECIFICATION Spec
VIEW MishapView
INVARIANTS
  TypeOK
  LeaseOutranks
  HeartbeatFences
  OnlyUnlockTakesIt
  QueueIsLive
PROPERTIES
  ImplementsFencedLease
CHECK_DEADLOCK FALSE
