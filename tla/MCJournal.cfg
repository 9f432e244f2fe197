CONSTANTS
  forgejo = forgejo
  gateway = gateway
  f1 = f1
  g1 = g1
  Delivery = {f1, g1}
  Redeliverable = {f1}
  Writer = {forgejo, gateway}
  Gateway = {gateway}
  QueueCapacity = 1
  RetainDays = 1
  Straddle = FALSE
  MaxDay = 3
  MaxEntries = 2
  MaxFaults = 1
SPECIFICATION FairSpec
INVARIANTS
  TypeOK
  AckedNeverLost
  InboxIsBehindCursor
  InboxInJournalOrder
PROPERTIES
  CursorAdvances
  ImplementsPipe
  DurableReachesInbox
CHECK_DEADLOCK FALSE
