CONSTANTS
  t1 = t1
  Task = {t1}
  NoTask = NoTask
  MaxPlans = 2
  ApproveRevs <- TwoRevs
  Orders = {}
  MaxOrders = 0
  MaxCrashes = 0
  MaxInbox = 1
SPECIFICATION Spec
INVARIANT ExecutesApprovedPlan
CHECK_DEADLOCK FALSE
