CONSTANTS
  Tunnels = {"wg0", "wg1", "wg2"}
  BaseTable = 100
  TableSize = 110
  MaxRoutes = 4
SPECIFICATION Spec
INVARIANTS DedicatedTables
