SPECIFICATION Spec
CONSTANTS
  Runs = {r1, r2}
  Providers = 2
  Jobs <- MCJobs
  MaxAgentCommits = 1
  MaxOtherPushes = 1
INVARIANTS
  CompletedIsPersisted
  ProtectedNeverPushed
  WinnerIsOwnWork
PROPERTIES
  CancelHeeded
  ClaimEnds
CHECK_DEADLOCK FALSE
