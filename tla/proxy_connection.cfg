CONSTANTS
  Requests <- MCRequests
  Heads <- MCHeads
  HeadLimit = 3
  MaxDown = 2
SPECIFICATION FairSpec
CHECK_DEADLOCK FALSE
INVARIANTS TypeOK NoTunnelNoAnswer TunnelInOrder PlainRequestExact DownstreamComplete
PROPERTIES TaskEnds
