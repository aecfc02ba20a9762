SPECIFICATION Spec
CONSTANTS
  t1 = t1
  t2 = t2
  p1 = p1
  p2 = p2
  Registered <- MCRegistered
  InitialStatus <- MCInitialStatus
  Goals <- MCGoals
  RiskPolicies = {"STRICT"}
  TaskResults = {"verified", "weak"}
  Threads = {t1, t2}
  Processes = {p1, p2}
  Placements <- MCPlacements
  MaxCycles = 2
  MaxCalls = 2
  MaxFaults = 1
INVARIANTS
  VerifiedHasEvidence
  CompletedMissionIsVerified
CHECK_DEADLOCK FALSE
