CONSTANTS
  t1 = t1
  t2 = t2
  t3 = t3
  p1 = p1
  p2 = p2
  o1 = o1
  Transports = {t1, t2, t3}
  IdOf <- MCIdOf
  InitPool <- MCPool3
  Tasks = {p1, p2}
  Pickers = {p1, p2}
  Calls = {}
  Strategy = "round-robin"
  CounterSize = 4
  MaxPicks = 5
SPECIFICATION Spec
CHECK_DEADLOCK FALSE
INVARIANTS TypeOK RoundRobinBalanced
