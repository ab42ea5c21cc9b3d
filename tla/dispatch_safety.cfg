CONSTANTS
  t1 = t1
  t2 = t2
  t3 = t3
  p1 = p1
  p2 = p2
  o1 = o1
  Transports = {t1, t2, t3}
  IdOf <- MCIdOf
  InitPool <- MCPool3
  Tasks = {p1, o1}
  Pickers = {p1}
  Calls = {"add", "remove", "healthy_transports", "status_summary", "get", "len", "is_empty", "all"}
  Strategy = "random"
  CounterSize = 1
  MaxPicks = 3
SPECIFICATION Spec
CHECK_DEADLOCK FALSE
INVARIANTS ScanStable PickedFromPool RemovedNotPicked FailureJustified
