CONSTANTS
  Requests <- MCRequests
  Heads <- MCHeads
  HeadLimit = 3
  MaxDown = 2
SPECIFICATION Spec
CHECK_DEADLOCK FALSE
INVARIANTS TransparentTunnel
