SPECIFICATION CacheSpec
CONSTANTS
  api = api  daemon = daemon  c1 = c1  c2 = c2  o1 = o1
  Processes <- MCProcesses
  Callers <- MCCallers
  ProcessOf <- MCProcessOf
  Operators <- MCOneOperator
  RouteProcess = api
  RowLevels <- MCRowLevels
  Ttl = 2  MaxNow = 3  MaxCacheChanges = 1
  Never = Never
PROPERTIES
  ObstaclesReachEveryGate
CHECK_DEADLOCK FALSE
