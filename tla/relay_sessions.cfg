CONSTANTS
  BufSize = 2
  MaxUp = 4
  MaxDown = 2
  MaxSessions = 3
SPECIFICATION FairSpec
CHECK_DEADLOCK FALSE
INVARIANTS NoOtherLoss ServerStreamContiguous OverlapBounded TotalsExact DownLossless
PROPERTIES SessionEnds
