SPECIFICATION Spec
CONSTANTS
  t1 = t1  t2 = t2  d1 = d1  d2 = d2
  Tasks <- MCOneTask
  Daemons <- MCDaemons
  Reapers <- MCDaemons
  Errors <- MCErrors
  ProductOf <- MCProductOf
  ProductConcurrencyLimit = 1
  NoError = NoError  NoOwner = NoOwner  Reclaimer = Reclaimer  NoTask = NoTask
  MaxRetries = 1  BaseDelay = 1  Factor = 2  MaxDelay = 4  Jitter = 0
  MaxLapses = 1  MaxCrashes = 1  MaxOperations = 1
SYMMETRY DaemonSymmetry
INVARIANTS
  TypeOK
  RetryBound
  ExclusiveWhileLeased
  OwnershipWhileLeased
  RecoveryDecidedOnCurrentRow
  DeadLettersRecorded
