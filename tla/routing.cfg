SPECIFICATION Spec
CONSTANTS
  Execs = {"e1", "e2"}
  Registry <- MCRegistry
  Capabilities <- MCCapabilities
  BestFreeProven = "r1"
  FreePool = "pool"
  Profiles = {"coding", "general"}
  Rest = 1
  QuotaRest = 2
  Configs <- MCConfigs
  Tasks <- MCTasks
  EchoNames = {"echo"}
  Costs = {0, 2}
  MaxRetries = 2
  MaxToolRounds = 2
  MaxToolCalls = 2
  MinSamples = 1
  MaxTime = 2
INVARIANTS
  OneGatewayPerWorkspace
  RoutingPolicyKept
  ConversationWellFormed
PROPERTIES
  ExecutionEnds
CHECK_DEADLOCK FALSE
