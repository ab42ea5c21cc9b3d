CONSTANTS
  t1 = t1
  p1 = p1
  mcp = mcp
  a1 = a1
  o1 = o1
  Transports = {t1}
  IdOf <- MCIdOf
  InitPool <- MCPool
  Tasks = {p1, mcp, a1, o1}
  Pickers = {p1}
  Mcp = mcp
  AdminConns = {a1}
SPECIFICATION FairSpec
CHECK_DEADLOCK FALSE
INVARIANTS PoolReportConsistent HealthCheckConsistent
PROPERTIES CallEnds RequestAnswered
