SPECIFICATION SagaSpec
CONSTANTS
  WorkOrders = {w1}
  Steps = {1}
  GatedSteps = {}
  GateEnabled = FALSE
  Quantities = {1, 2}
  AnyStep = AnyStep
  Sagas = {p1, p2}
  NoWorkOrder = NoWorkOrder
  Attempts = 2
  MaxDbFailures = 1
  MaxCommitsLost = 1
INVARIANTS
  OneSagaPerOrder
  DoneIsLasting
  RestoredOrderIsOpen
  ErpBacked
