SPECIFICATION FairSpec
CONSTANTS
  m1 = m1
  m2 = m2
  s1 = s1
  Messages = {m1, m2}
  Malformed = {m2}
  Sensors = {s1}
  Alarm <- OneAlarm
  kMaxRetry = 1
  kBatchRows = 2
  Prefetch = 2
  MaxDbFailures = 1
  MaxLosses = 1
  MaxCrashes = 1
  MaxConnects = 2
INVARIANTS
  ReadingsAccounted
  AlertsAccounted
PROPERTIES
  EventuallySettled
