SPECIFICATION SystemSpec
CONSTANTS
  Isolates = {"a", "b"}
  Attached = {"a"}
  Streams = {"s"}
  Conversations = {"c"}
  Projects = {"own", "other"}
  OwnProject = "own"
  Pipelines <- MCPipelines
  Plans <- MCPlans
  Messages <- MCMessages
  Workloads = {"pipelines", "events", "approvals", "commands", "tasks", "browsers", "intakes", "boards", "letters", "context"}
  Results = {"clean", "broken", "error"}
  PollLimit = 2
  RateLimit = 1
  MaxRequests <- MCMaxRequests
  MaxEvents <- MCMaxEvents
  MaxTasks = 2
  MaxFaults = 1
  Clients = {"browser"}
  Promotions <- MCPromotions
  MaxHistory = 3
  MaxTrail = 8
  Processes = {"api", "daemon"}
  Keys = {11, 12}
  MaxRecords = 3
  Roles = {"chief-of-staff", "developer", "qa-engineer"}
  Given <- MCGiven
  Budget <- MCBudget
  MinRoom = 100
  Suffix = 26
INVARIANTS
  ReleasedStepsAreCleared
  StreamsAreComplete
  PromotionIsTakenOnce
  LettersAreListed
  BriefingIsSound
PROPERTIES
  AlarmRecoversWork
CHECK_DEADLOCK FALSE
