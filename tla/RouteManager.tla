--------------------------- MODULE RouteManager ---------------------------
(***************************************************************************)
(* src/route/mod.rs, LinuxRouteManager: the routing table number each      *)
(* tunnel gets.  setup_tunnel_route and teardown_tunnel_route run under    *)
(* the write half of one RwLock and never await, so each is one step.      *)
(* The ip commands are generated for the operator and not executed.        *)
(***************************************************************************)
EXTENDS Naturals, Sequences, FiniteSets

CONSTANTS
    Tunnels,        \* tunnel ids
    BaseTable,      \* base_table
    TableSize,      \* number of values of the u32 table number
    MaxRoutes       \* bound on the active routes

ASSUME RouteAssumption ==
    /\ BaseTable \in Nat
    /\ TableSize \in Nat
    /\ MaxRoutes \in Nat
    /\ BaseTable + MaxRoutes <= TableSize

VARIABLES
    routes,         \* the Vec<TunnelRoute>: id and table of each
    lifo            \* history: every teardown so far left a prefix of routes

vars == <<routes, lifo>>

Route == [tunnel : Tunnels, table : 0..(TableSize - 1)]

\* Types; every active route has a table number that fits in a u32.
TypeOK ==
    /\ routes \in Seq(Route)
    /\ Len(routes) <= MaxRoutes
    /\ lifo \in BOOLEAN

Init == routes = <<>> /\ lifo = TRUE

\* A mutation: the offset is left out.
TableForFixed(n) == BaseTable % TableSize

\* table_for_offset, with the offset setup_tunnel_route computes: the number
\* of routes active now.
TableFor(n) == (BaseTable + n) % TableSize

\* The same id may be set up more than once.
SetupTunnelRoute(t) ==
    /\ Len(routes) < MaxRoutes
    /\ routes' = Append(routes, [tunnel |-> t, table |-> TableFor(Len(routes))])
    /\ UNCHANGED lifo

Retained(t) == {i \in 1..Len(routes) : routes[i].tunnel # t}

Ascending(P) ==
    {f \in [1..Cardinality(P) -> P] :
        \A m, n \in DOMAIN f : m < n => f[m] < f[n]}

\* The n-th route that is left, until now the i-th.
Moved(i, n) == routes[i]

\* Vec::retain: every route of the id goes, the others keep order and table.
TeardownTunnelRoute(t) ==
    /\ \E f \in Ascending(Retained(t)) :
          /\ routes' = [n \in DOMAIN f |-> Moved(f[n], n)]
          /\ lifo' = (lifo /\ \A n \in DOMAIN f : f[n] = n)

Next == \E t \in Tunnels : SetupTunnelRoute(t) \/ TeardownTunnelRoute(t)

Spec == Init /\ [][Next]_vars

---------------------------------------------------------------------------

Table(i) == routes[i].table

\* Tunnels torn down in the reverse order of their set-up never share a
\* table: the i-th active route has table base_table + i - 1.
LifoTablesDistinct ==
    lifo => \A i, j \in 1..Len(routes) : i # j => Table(i) # Table(j)

\* A tunnel keeps the table it was given until it is torn down: no set-up or
\* teardown of another tunnel renumbers it (its ip rules are in the kernel).
TablesKept ==
    [][\A t \in Tunnels :
          \/ TeardownTunnelRoute(t)
          \/ \A i \in 1..Len(routes) : routes[i].tunnel = t =>
                \E j \in 1..Len(routes') : routes'[j] = routes[i]]_vars

\* "Each tunnel is assigned a dedicated routing table" (line 127).
DedicatedTables ==
    \A i, j \in 1..Len(routes) : i # j => Table(i) # Table(j)
===========================================================================
