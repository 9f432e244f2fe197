CONSTANTS
  t1 = t1
  Task = {t1}
  NoTask = NoTask
  MaxPlans = 3
  ApproveRevs <- TwoRevs
  Orders = {"/approve", "/retry", "/retry --replan", "internal.reconcile_resume", "internal.system_recovered"}
  MaxOrders = 2
  MaxCrashes = 1
  MaxInbox = 1
SPECIFICATION FairSpec
INVARIANTS
  TypeOK
  PlanIsNextToApproved
PROPERTIES
  PassIsOfThisWork
  StagesEnd
CHECK_DEADLOCK FALSE
