SPECIFICATION EdgeSpec
CONSTANTS
  SensorLists <- MCSensorLists
  kRegisterBase = 2
  Space = 8
  kMaxQuantity = 3
  kBatchSize = 2
  MaxRounds = 1
  MaxCommands = 1
  MaxFaults = 0
  MaxRestarts = 0
CHECK_DEADLOCK FALSE
PROPERTIES
  StopIsObeyed
