SPECIFICATION Spec
CONSTANTS
  Agents = {"chief-of-staff", "developer", "reviewer"}
  Tasks = {"t1", "t2", "t3", "l1", "l2"}
  Approvals = {"a1"}
  Projects = {"p1", "p2"}
  Albums <- MCAlbums
  Isolates = {"i1", "i2"}
  Slots = {1, 2}
  MaxModels = 1
  EventCap = 2
  Scenarios <- MCScenarios
INVARIANTS
  EventsTakeEffectOnce
PROPERTIES
  ScreenConverges
CHECK_DEADLOCK FALSE
