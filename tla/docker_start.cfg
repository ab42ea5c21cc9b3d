CONSTANTS
  MinVpns = 0
  MaxVpns = 2
  Timeout = 2
  MaxDelay = 2
  MaxStarts = 2
SPECIFICATION FairSpec
CHECK_DEADLOCK FALSE
INVARIANTS ReadyHasTunnel SameGeneration NotGivenUpEarly
PROPERTIES StartEnds
