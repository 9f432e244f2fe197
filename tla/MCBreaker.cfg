CONSTANTS
  t1 = t1
  auth_error = auth_error
  Task = {t1}
  Atwork = {t1}
  NoTask = NoTask
  MaxPlans = 1
  ApproveRevs <- NoApproveRev
  Code = {auth_error}
  Window = 1
  Threshold = 2
  MaxRecent = 3
  MaxCrashes = 2
  MaxInbox = 1
SPECIFICATION FairSpec
PROPERTIES
  RestartKeepsBreaker
  OpenInLogStopsDispatch
  RetriedIsRecovered
CHECK_DEADLOCK FALSE
