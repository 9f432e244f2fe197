CONSTANTS
  forgejo = forgejo
  gateway = gateway
  f1 = f1
  g1 = g1
  Delivery = {f1, g1}
  Redeliverable = {f1}
  Writer = {forgejo, gateway}
  Gateway = {gateway}
  QueueCapacity = 1
  RetainDays = 5
  Straddle = TRUE
  MaxDay = 2
  MaxEntries = 2
  MaxFaults = 1
SPECIFICATION Spec
INVARIANTS
  AckedNeverLost
CHECK_DEADLOCK FALSE
