SPECIFICATION FairSpec
CONSTANTS
  s1 = s1  s2 = s2  p1 = p1
  Sessions <- MCSessions
  Stops <- MCStops
  GovRows <- MCGovRows
  PatientStart = TRUE  PatientStop = TRUE
  MaxChanges = 2
  None = None
INVARIANTS
  AtMostOneLateDispatch
PROPERTIES
  BudgetKept
  StopTakesEffect
CHECK_DEADLOCK FALSE
