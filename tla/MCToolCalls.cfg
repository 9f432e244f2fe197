CONSTANTS
  c1 = c1
  c2 = c2
  Call = {c1, c2}
  NoCall = NoCall
  MaxCrashes = 1
SPECIFICATION FairSpec
INVARIANTS
  TypeOK
  RequestsBounded
  DanglingOnlyByOverlap
PROPERTIES
  LogsSettle
