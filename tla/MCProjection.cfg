CONSTANTS
  t1 = t1
  w1 = w1
  w2 = w2
  Task = {t1}
  Worker = {w1, w2}
  Emission <- SnapshotOrLabels
  Received <- EitherOrder
  Outlives = FALSE
  Forced = FALSE
  MaxRev = 2
  MaxFailures = 1
  MaxCrashes = 1
  MaxRebuilds = 1
SPECIFICATION FairSpec
INVARIANTS
  TypeOK
  OneInFlight
  SentIsShown
  OvertakenForCause
PROPERTIES
  AcknowledgedSnapshotStands
  ProjectionCatchesUp
CHECK_DEADLOCK FALSE
