CONSTANTS
  t1 = t1
  Task = {t1}
  MaxRev = 20
  MaxPlans = 2
  MaxPending = 1
  ApproveRevs <- AnyApproveRev
SPECIFICATION Spec
VIEW TruthView
INVARIANTS
  TypeOK
  NoUnseenCompletion
  DegradedIsRecoverable
  NoLabelMissing
PROPERTIES
  GateLoweredOnlyOnCompletion
  RecoveryRequeues
  NoRowSwallowed
CHECK_DEADLOCK FALSE
