CONSTANTS
  BufSize = 2
  MaxBytes = 3
SPECIFICATION FairSpec
CHECK_DEADLOCK FALSE
PROPERTIES ImplementsPipe RelayEnds
