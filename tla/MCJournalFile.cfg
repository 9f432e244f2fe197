CONSTANTS
  ingress = ingress
  runner = runner
  gateway = gateway
  loop = loop
  heartbeat = heartbeat
  e1 = e1
  e2 = e2
  e3 = e3
  Event = {e1, e2, e3}
  NoEvent = NoEvent
  Writer = {ingress, runner}
  Thread = {gateway, loop, heartbeat}
  WriterOf <- ProcessOf
  MaxDay = 2
  MaxFaults = 1
SPECIFICATION Spec
SYMMETRY Symmetry
CHECK_DEADLOCK FALSE
INVARIANTS
  AckedIsSynced
  AckedIsReadable
