CONSTANTS
  BufSize = 2
  MaxUp = 2
  MaxDown = 0
  MaxSessions = 2
SPECIFICATION Spec
CHECK_DEADLOCK FALSE
INVARIANTS NothingLost
