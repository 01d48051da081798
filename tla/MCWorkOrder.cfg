SPECIFICATION Spec
CONSTANTS
  WorkOrders = {w1}
  Steps = {1, 2}
  GatedSteps = {2}
  GateEnabled = TRUE
  Quantities <- MCQuantities
  AnyStep = AnyStep
INVARIANTS
  OpNeverOverPlan
  FullOrderIsFinished
  StopEnqueuedOnce
  TimesFollowStatus
  SummaryBackedByOps
PROPERTIES
  StatusByTable

