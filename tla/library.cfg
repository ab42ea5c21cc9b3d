CONSTANTS
  Tunnels = {"wg0", "wg1", "wg2"}
  BaseTable = 100
  TableSize = 110
  MaxRoutes = 4
  Base = 2
  Packets <- MCPackets
  Targets = {0, 6, 7, 20}
  Delays = {0, 2, 3}
  Networks = {"x402", "zcash"}
  Amounts = {"1"}
  Currencies = {"usdc"}
  Addresses = {"alice"}
  MaxHeaders = 3
  MaxHandlers = 3
SPECIFICATION LibrarySpec
INVARIANTS LifoTablesDistinct RoundTrip SizeHidden WholeOrBody
  ExplicitNetworkWins PaidAtMostOnce FirstCapableAsked
CHECK_DEADLOCK FALSE
