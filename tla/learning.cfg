SPECIFICATION LearningSpec
CONSTANTS
  none = none
  None = none
  t1 = t1
  t2 = t2
  t3 = t3
  p1 = p1
  p2 = p2
  e1 = e1
  e2 = e2
  e3 = e3
  e4 = e4
  e5 = e5
  RetrievalLimit = 2
  SecurityRules = {"RULE_SEC_1"}
  ArchitectureComponents = {}
  Events <- MCEvents
  Tenants = {"pub-dev-loop"}
  DefaultTenant = "pub-dev-loop"
  Tasks <- MCTasks
  ProjectOf <- MCProjectOf
  MaxIngests = 3
  ReplayFrom = {1, 3}
  MaxInterventions = 3
  Feedbacks <- MCFeedbacks
  DbOutcomes = {TRUE}
  MaxRestarts = 1
INVARIANTS
  EligibleIsCorroborated
  PromptIsSound
PROPERTIES
  NoSilentReactivation
CHECK_DEADLOCK FALSE
