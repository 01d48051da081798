SPECIFICATION Spec
CONSTANTS
  Requests = {r1, r2, r3}
  Attempts = 2
  FailThreshold = 2
  Quantities = {0, 1}
INVARIANTS
  ConvertedOnce
  MarkIsLive
PROPERTIES
  TripsOnFailuresInARow
CHECK_DEADLOCK FALSE
