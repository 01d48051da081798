SPECIFICATION EdgeSpec
CONSTANTS
  SensorLists <- MCSensorLists
  kRegisterBase = 2
  Space = 8
  kMaxQuantity = 3
  kBatchSize = 2
  MaxRounds = 2
  MaxCommands = 2
  MaxFaults = 1
  MaxRestarts = 1
CHECK_DEADLOCK FALSE
INVARIANTS
  ValuesFromOwnRegisters
  PublishedInOrder
PROPERTIES
  LastCommandWins
