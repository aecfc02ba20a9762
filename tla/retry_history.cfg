SPECIFICATION SupervisedSpec
CONSTANTS
  MaxRetries = 3
  BaseDelay = 2
  Factor = 2
  MaxDelay = 7
  Jitter = 2
  Messages <- MCMessages
  worker = worker
  Services <- MCServices
  Worker = worker
  MaxRestarts = 2
  MaxDeaths = 2
  MaxCommands = 3
INVARIANTS
  RepeatedValidationIsPoison
  OneProcessPerService
PROPERTIES
  TaskIsSettled
CHECK_DEADLOCK FALSE
