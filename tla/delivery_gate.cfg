SPECIFICATION Spec
CONSTANTS
  a = a  b = b  g1 = g1  None = None
  Shas <- MCShas
  Gates <- MCGates
  Rulesets <- MCRulesets
  Protections <- MCProtections
  Settings <- MCSettings
  Unprotected = Unprotected
  TheCheck = "ci"
  Method = "merge"
  MaxPulls = 2
  MaxCalls = 2
  MaxEvents = 2
  MaxRuleChanges = 1
  MaxRetargets = 1
SYMMETRY ShaSymmetry
INVARIANTS
  MergedWasCleared
  CompletedIsInMain
  RejectionIsHeeded
CHECK_DEADLOCK FALSE
