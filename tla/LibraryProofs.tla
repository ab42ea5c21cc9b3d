--------------------------- MODULE LibraryProofs ---------------------------
(***************************************************************************)
(* The parts of the crate that keep to themselves: the route manager's     *)
(* table numbers, the padding of the anti-correlation layer, what a 402    *)
(* asks for and who is asked to pay.                                       *)
(***************************************************************************)
EXTENDS RouteManager, AntiCorr, Payment, FiniteSetTheorems, WellFoundedInduction, TLAPS

---------------------------------------------------------------------------
(* Route manager: types, distinct tables when tunnels are torn down last   *)
(* in first out, and that no tunnel is ever renumbered.                    *)

\* As long as teardowns are last in first out, the table follows from the
\* position.  This is what makes LifoTablesDistinct inductive.
TableByPosition ==
    lifo => \A i \in 1..Len(routes) : routes[i].table = BaseTable + i - 1

RouteInv == TypeOK /\ TableByPosition

\* The size of an index range.
LEMMA IntervalSize ==
    ASSUME NEW n \in Nat
    PROVE  IsFiniteSet(1..n) /\ Cardinality(1..n) = n
<1>1. 1 \in Int /\ n \in Int
  OBVIOUS
<1>2. Cardinality(1..n) = IF 1 > n THEN 0 ELSE n - 1 + 1
  BY <1>1, FS_Interval, Zenon
<1>3. IsFiniteSet(1..n)
  BY <1>1, FS_Interval, Zenon
<1>4. QED
  BY <1>2, <1>3

\* The positions a teardown keeps are no more than there were.
LEMMA RetainedSize ==
    ASSUME TypeOK, NEW t \in Tunnels
    PROVE  /\ IsFiniteSet(Retained(t))
           /\ Cardinality(Retained(t)) \in Nat
           /\ Cardinality(Retained(t)) <= Len(routes)
<1> DEFINE n == Len(routes)
<1>1. n \in Nat
  BY DEF TypeOK
<1>2. IsFiniteSet(1..n) /\ Cardinality(1..n) = n
  BY <1>1, IntervalSize
<1>3. Retained(t) \subseteq 1..n
  BY DEF Retained
<1>4. QED
  BY <1>1, <1>2, <1>3, FS_Subset, FS_CardinalityType

\* The enumeration of a finite set of positions reaches each of them: the
\* order in which retain copies the elements leaves none out.
LEMMA AscendingOnto ==
    ASSUME NEW P, IsFiniteSet(P), P \subseteq Nat, NEW f \in Ascending(P),
           NEW i \in P
    PROVE  \E n \in 1..Cardinality(P) : f[n] = i
<1> DEFINE D == 1..Cardinality(P)
<1>1. Cardinality(P) \in Nat
  BY FS_CardinalityType
<1>2. IsFiniteSet(D) /\ Cardinality(D) = Cardinality(P)
  BY <1>1, IntervalSize
<1>3. f \in [D -> P] /\ \A m, n \in D : m < n => f[m] < f[n]
  BY DEF Ascending
<1>4. \A m, n \in D : f[m] = f[n] => m = n
  <2> SUFFICES ASSUME NEW m \in D, NEW n \in D, f[m] = f[n] PROVE m = n
    OBVIOUS
  <2>1. m \in Nat /\ n \in Nat /\ f[m] \in Nat
    <3>1. m \in Nat /\ n \in Nat
      BY <1>1
    <3>2. f[m] \in P
      BY <1>3
    <3>3. QED
      BY <3>1, <3>2
  <2>2. ~(m < n) /\ ~(n < m)
    BY <1>3, <2>1
  <2>3. QED
    BY <2>1, <2>2
<1>5. f \in Injection(D, P)
  BY <1>3, <1>4 DEF Injection, IsInjective
<1>6. f \in Surjection(D, P)
  BY <1>2, <1>5, FS_Injection
<1>7. QED
  BY <1>6 DEF Surjection

\* What a teardown leaves is a sequence of routes, taken from the old ones.
LEMMA TeardownShape ==
    ASSUME TypeOK, NEW t \in Tunnels, NEW f \in Ascending(Retained(t)),
           routes' = [n \in DOMAIN f |-> Moved(f[n], n)]
    PROVE  /\ routes' \in Seq(Route)
           /\ Len(routes') = Cardinality(Retained(t))
           /\ Len(routes') <= Len(routes)
           /\ DOMAIN f = 1..Len(routes')
           /\ \A n \in 1..Len(routes') :
                 f[n] \in 1..Len(routes) /\ routes'[n] = routes[f[n]]
<1> DEFINE c == Cardinality(Retained(t))
<1>1. c \in Nat /\ c <= Len(routes)
  BY RetainedSize
<1>2. f \in [1..c -> Retained(t)]
  BY DEF Ascending
<1>3. \A n \in 1..c : f[n] \in 1..Len(routes)
  BY <1>2 DEF Retained
<1>4. \A j \in 1..Len(routes) : routes[j] \in Route
  BY DEF TypeOK
<1>5. routes' = [n \in 1..c |-> routes[f[n]]]
  BY <1>2 DEF Moved
<1>6. \A n \in 1..c : routes[f[n]] \in Route
  BY <1>3, <1>4
<1>7. routes' \in Seq(Route) /\ Len(routes') = c
  BY <1>1, <1>5, <1>6
<1>8. QED
  BY <1>1, <1>2, <1>3, <1>5, <1>7

\* The invariant holds of the empty vector (LinuxRouteManager::new).
LEMMA RouteInvInit == Init => RouteInv
BY RouteAssumption DEF Init, RouteInv, TypeOK, TableByPosition

\* Each action keeps the inductive invariant.
LEMMA RouteInvStep == RouteInv /\ [Next]_vars => RouteInv'
<1> SUFFICES ASSUME RouteInv, [Next]_vars PROVE RouteInv'
  OBVIOUS
<1> USE RouteAssumption
<1>1. CASE UNCHANGED vars
  BY <1>1 DEF RouteInv, TypeOK, TableByPosition, vars
<1>2. ASSUME NEW t \in Tunnels, SetupTunnelRoute(t) PROVE RouteInv'
  <2> DEFINE n == Len(routes)
             r == [tunnel |-> t, table |-> TableFor(n)]
  <2>1. routes' = Append(routes, r) /\ n < MaxRoutes /\ lifo' = lifo
    BY <1>2 DEF SetupTunnelRoute
  <2>2. n \in Nat /\ routes \in Seq(Route) /\ lifo \in BOOLEAN
    BY DEF RouteInv, TypeOK
  <2>3. TableFor(n) = BaseTable + n /\ TableFor(n) \in 0..(TableSize - 1)
    <3>1. BaseTable + n \in 0..(TableSize - 1)
      BY <2>1, <2>2 DEF RouteAssumption
    <3>2. (BaseTable + n) % TableSize = BaseTable + n
      BY <3>1, <2>2 DEF RouteAssumption
    <3>3. QED
      BY <3>1, <3>2 DEF TableFor
  <2>4. r \in Route
    BY <2>3 DEF Route
  <2>5. routes' \in Seq(Route) /\ Len(routes') = n + 1
    BY <2>1, <2>2, <2>4
  <2>6. TypeOK'
    BY <2>1, <2>2, <2>5 DEF TypeOK, RouteAssumption
  <2>7. TableByPosition'
    <3> SUFFICES ASSUME lifo', NEW i \in 1..Len(routes')
                 PROVE  routes'[i].table = BaseTable + i - 1
      BY DEF TableByPosition
    <3>1. CASE i = n + 1
      BY <3>1, <2>1, <2>2, <2>3, <2>4
    <3>2. CASE i \in 1..n
      <4>1. routes'[i] = routes[i]
        BY <3>2, <2>1, <2>2, <2>4
      <4>2. QED
        BY <3>2, <4>1, <2>1 DEF RouteInv, TableByPosition
    <3>3. QED
      BY <2>2, <2>5, <3>1, <3>2
  <2>8. QED
    BY <2>6, <2>7 DEF RouteInv
<1>3. ASSUME NEW t \in Tunnels, TeardownTunnelRoute(t) PROVE RouteInv'
  <2>1. PICK f \in Ascending(Retained(t)) :
           /\ routes' = [n \in DOMAIN f |-> Moved(f[n], n)]
           /\ lifo' = (lifo /\ \A n \in DOMAIN f : f[n] = n)
    BY <1>3 DEF TeardownTunnelRoute
  <2>2. TypeOK
    BY DEF RouteInv
  <2>3. /\ routes' \in Seq(Route)
        /\ Len(routes') <= Len(routes)
        /\ DOMAIN f = 1..Len(routes')
        /\ \A n \in 1..Len(routes') :
              f[n] \in 1..Len(routes) /\ routes'[n] = routes[f[n]]
    BY <2>1, <2>2, TeardownShape
  <2>4. Len(routes) \in Nat /\ Len(routes') \in Nat /\ Len(routes) <= MaxRoutes
    BY <2>2, <2>3 DEF TypeOK
  <2>5. lifo' \in BOOLEAN
    BY <2>1
  <2>6. TypeOK'
    BY <2>3, <2>4, <2>5 DEF TypeOK, RouteAssumption
  <2>7. TableByPosition'
    <3> SUFFICES ASSUME lifo', NEW i \in 1..Len(routes')
                 PROVE  routes'[i].table = BaseTable + i - 1
      BY DEF TableByPosition
    <3>1. lifo /\ f[i] = i
      BY <2>1, <2>3
    <3>2. i \in 1..Len(routes) /\ routes'[i] = routes[i]
      BY <3>1, <2>3
    <3>3. QED
      BY <3>1, <3>2 DEF RouteInv, TableByPosition
  <2>8. QED
    BY <2>6, <2>7 DEF RouteInv
<1>4. QED
  BY <1>1, <1>2, <1>3 DEF Next

\* The inductive invariant holds in every reachable state.
THEOREM RouteInvariance == Spec => []RouteInv
BY RouteInvInit, RouteInvStep, PTL DEF Spec

\* Every route's table number stays a number of the u32 range, and the vector
\* a vector of routes, whatever the order of set-ups and teardowns.
THEOREM RouteTypeCorrect == Spec => []TypeOK
<1>1. RouteInv => TypeOK
  BY DEF RouteInv
<1>2. QED
  BY RouteInvariance, <1>1, PTL

\* For any number of tunnels: last in first out teardowns never leave two
\* active routes with one table (route/mod.rs, setup_tunnel_route).
THEOREM LifoDistinct == Spec => []LifoTablesDistinct
<1>1. RouteInv => LifoTablesDistinct
  <2> SUFFICES ASSUME RouteInv, lifo, NEW i \in 1..Len(routes),
                      NEW j \in 1..Len(routes), i # j
               PROVE  Table(i) # Table(j)
    BY DEF LifoTablesDistinct
  <2>1. Table(i) = BaseTable + i - 1 /\ Table(j) = BaseTable + j - 1
    BY DEF RouteInv, TableByPosition, Table
  <2>2. BaseTable \in Nat /\ i \in Nat /\ j \in Nat
    BY RouteAssumption DEF RouteAssumption, RouteInv, TypeOK
  <2>3. QED
    BY <2>1, <2>2
<1>2. QED
  BY RouteInvariance, <1>1, PTL

\* A set-up, or the teardown of another tunnel, leaves a tunnel's route in
\* the vector with the table it has (route/mod.rs, teardown_tunnel_route).
THEOREM NeverRenumbered == Spec => TablesKept
<1> DEFINE Keeps ==
      \A t \in Tunnels :
          \/ TeardownTunnelRoute(t)
          \/ \A i \in 1..Len(routes) : routes[i].tunnel = t =>
                \E j \in 1..Len(routes') : routes'[j] = routes[i]
<1>1. RouteInv /\ [Next]_vars => [Keeps]_vars
  <2> SUFFICES ASSUME RouteInv, Next, NEW t \in Tunnels, ~TeardownTunnelRoute(t),
                      NEW i \in 1..Len(routes), routes[i].tunnel = t
               PROVE  \E j \in 1..Len(routes') : routes'[j] = routes[i]
    OBVIOUS
  <2>1. TypeOK /\ Len(routes) \in Nat
    BY DEF RouteInv, TypeOK
  <2>2. ASSUME NEW u \in Tunnels, SetupTunnelRoute(u)
        PROVE  \E j \in 1..Len(routes') : routes'[j] = routes[i]
    <3> DEFINE r == [tunnel |-> u, table |-> TableFor(Len(routes))]
    <3>1. routes' = Append(routes, r)
      BY <2>2 DEF SetupTunnelRoute
    <3>2. Len(routes') = Len(routes) + 1 /\ routes'[i] = routes[i]
      BY <3>1, <2>1 DEF TypeOK
    <3>3. QED
      BY <3>2, <2>1
  <2>3. ASSUME NEW u \in Tunnels, TeardownTunnelRoute(u)
        PROVE  \E j \in 1..Len(routes') : routes'[j] = routes[i]
    <3>1. PICK f \in Ascending(Retained(u)) :
             routes' = [n \in DOMAIN f |-> Moved(f[n], n)]
      BY <2>3 DEF TeardownTunnelRoute
    <3>2. u # t
      BY <2>3
    <3>3. i \in Retained(u)
      BY <3>2 DEF Retained
    <3>4. Retained(u) \subseteq Nat
      BY <2>1 DEF Retained
    <3>5. PICK n \in 1..Cardinality(Retained(u)) : f[n] = i
      BY <2>1, <3>3, <3>4, RetainedSize, AscendingOnto
    <3>6. /\ Len(routes') = Cardinality(Retained(u))
          /\ routes'[n] = routes[f[n]]
      BY <2>1, <3>1, <3>5, TeardownShape
    <3>7. QED
      BY <3>5, <3>6
  <2>4. QED
    BY <2>2, <2>3 DEF Next
<1>2. QED
  BY RouteInvariance, <1>1, PTL DEF Spec, TablesKept

---------------------------------------------------------------------------
(* Padding and unpadding are inverse for packets of every length the       *)
(* trailer can tell, every byte size and every pair of target sizes.       *)

\* A number is put together again from its quotient and remainder.
LEMMA DivMod ==
    ASSUME NEW n \in Nat
    PROVE  /\ n \div Base \in Nat
           /\ n % Base \in Byte
           /\ ((n \div Base) * Base) + (n % Base) = n
<1>1. n \div Base \in Int /\ n % Base \in Int
  BY LayerAssumption
<1>2. ((n \div Base) * Base) + (n % Base) = n
  BY LayerAssumption, SMT
<1>3. 0 <= n % Base /\ n % Base < Base
  BY LayerAssumption, SMT
<1>4. n \div Base >= 0
  BY LayerAssumption, <1>1, <1>2, <1>3, SMT
<1> QED
  BY LayerAssumption, <1>1, <1>2, <1>3, <1>4, SMT DEF Byte

\* A common factor cancels.
LEMMA Cancel ==
    ASSUME NEW a \in Nat, NEW b \in Nat, a * Base < b * Base
    PROVE  a < b
<1> SUFFICES ASSUME a >= b PROVE FALSE
  OBVIOUS
<1>1. a * Base >= b * Base
  BY LayerAssumption, SMT
<1> QED
  BY LayerAssumption, <1>1, SMT

\* A digit that fits is its own remainder.
LEMMA SmallMod ==
    ASSUME NEW q \in Nat, q < Base
    PROVE  q % Base = q
  BY LayerAssumption, SMT

\* A trailer is four bytes, whatever the length.
LEMMA TrailerBytes ==
    ASSUME NEW n \in Nat
    PROVE  Trailer(n) \in Seq(Byte) /\ Len(Trailer(n)) = 4
<1>1. n \div Base \in Nat /\ n % Base \in Byte
  BY DivMod
<1>2. (n \div Base) \div Base \in Nat /\ (n \div Base) % Base \in Byte
  BY DivMod, <1>1
<1>3. /\ ((n \div Base) \div Base) \div Base \in Nat
      /\ ((n \div Base) \div Base) % Base \in Byte
  BY DivMod, <1>2
<1>4. (((n \div Base) \div Base) \div Base) % Base \in Byte
  BY DivMod, <1>3
<1> QED
  BY <1>1, <1>2, <1>3, <1>4 DEF Trailer

\* The four digits of a length below Base^4 give the length again.
LEMMA TrailerValue ==
    ASSUME NEW n \in Nat, n < Lengths
    PROVE  ((Trailer(n)[1] * Base + Trailer(n)[2]) * Base + Trailer(n)[3]) * Base
              + Trailer(n)[4] = n
<1> DEFINE q1 == n \div Base
           q2 == q1 \div Base
           q3 == q2 \div Base
<1>1. q1 \in Nat /\ n % Base \in Byte /\ q1 * Base + (n % Base) = n
  BY DivMod
<1>2. q2 \in Nat /\ q1 % Base \in Byte /\ q2 * Base + (q1 % Base) = q1
  BY DivMod, <1>1
<1>3. q3 \in Nat /\ q2 % Base \in Byte /\ q3 * Base + (q2 % Base) = q2
  BY DivMod, <1>2
<1>4. q3 % Base \in Byte
  BY DivMod, <1>3
<1> HIDE DEF q1, q2, q3
<1> DEFINE b2 == Base * Base
           b3 == b2 * Base
<1>5. b2 \in Nat /\ b3 \in Nat
  BY LayerAssumption, SMT
<1>6. n < b3 * Base
  BY DEF Lengths
<1>7. q1 < b3
  <2> HIDE DEF b2, b3
  <2>1. q1 * Base < b3 * Base
    BY <1>1, <1>5, <1>6, LayerAssumption, SMT DEF Byte
  <2> QED
    BY <2>1, <1>1, <1>5, Cancel
<1>8. q2 < b2
  <2>1. q2 * Base < b2 * Base
    <3> HIDE DEF b2
    <3> QED
      BY <1>2, <1>1, <1>5, <1>7, LayerAssumption, SMT DEF Byte
  <2> QED
    BY <2>1, <1>2, <1>5, Cancel
<1>9. q3 < Base
  <2>1. q3 * Base < b2
    <3> HIDE DEF b2
    <3> QED
      BY <1>3, <1>2, <1>5, <1>8, LayerAssumption, SMT DEF Byte
  <2> QED
    BY <2>1, <1>3, LayerAssumption, Cancel
<1>10. q3 % Base = q3
  BY <1>3, <1>9, SmallMod
<1>11. Trailer(n) = <<q3 % Base, q2 % Base, q1 % Base, n % Base>>
  BY DEF Trailer, q1, q2, q3
<1>12. ((q3 * Base + (q2 % Base)) * Base + (q1 % Base)) * Base + (n % Base) = n
  BY <1>1, <1>2, <1>3
<1> QED
  BY <1>1, <1>2, <1>3, <1>4, <1>10, <1>11, <1>12

\* Where the parts of a padded packet are.
LEMMA PadParts ==
    ASSUME NEW p \in PacketPadder, p.enabled,
           NEW d \in Seq(Byte)
    PROVE  /\ Pad(p, d) \in Seq(Byte)
           /\ Len(Pad(p, d)) = Larger(Needed(d), p.target_size)
           /\ TrailerStart(Pad(p, d)) \in Nat
           /\ TrailerStart(Pad(p, d)) >= Len(d)
           /\ \A i \in 1..Len(d) : Pad(p, d)[i] = d[i]
           /\ \A k \in 1..4 :
                 Pad(p, d)[TrailerStart(Pad(p, d)) + k] = Trailer(Len(d))[k]
<1> DEFINE z == Zeros(p, d)
           t == Trailer(Len(d))
           m == Larger(Needed(d), p.target_size) - Needed(d)
           dz == d \o z
           w == Pad(p, d)
<1>1. Len(d) \in Nat /\ p.target_size \in Nat
  BY DEF PacketPadder
<1>2. m \in Nat /\ (Len(d) + m) + 4 = Larger(Needed(d), p.target_size)
  BY <1>1 DEF Larger, Needed, LENGTH_TRAILER_SIZE
<1>3. z \in Seq(Byte) /\ Len(z) = m
  BY <1>2, LayerAssumption DEF Zeros, Byte
<1>4. t \in Seq(Byte) /\ Len(t) = 4
  BY <1>1, TrailerBytes
<1>5. w = dz \o t
  BY DEF Pad
<1> HIDE DEF z, t, m, w
<1>6. /\ dz \in Seq(Byte) /\ Len(dz) = Len(d) + m
      /\ \A i \in 1..Len(d) : dz[i] = d[i]
  BY <1>3
<1> HIDE DEF dz
<1>7. /\ w \in Seq(Byte) /\ Len(w) = Len(dz) + 4
      /\ \A i \in 1..Len(dz) : w[i] = dz[i]
      /\ \A k \in 1..4 : w[Len(dz) + k] = t[k]
  <2>1. dz \in Seq(Byte) /\ t \in Seq(Byte)
    BY <1>4, <1>6
  <2>2. /\ dz \o t \in Seq(Byte) /\ Len(dz \o t) = Len(dz) + Len(t)
        /\ \A i \in 1..Len(dz) : (dz \o t)[i] = dz[i]
        /\ \A k \in 1..Len(t) : (dz \o t)[Len(dz) + k] = t[k]
    BY <2>1
  <2> QED
    BY <2>2, <1>4, <1>5
<1>8. TrailerStart(w) = Len(d) + m
  BY <1>1, <1>2, <1>6, <1>7 DEF TrailerStart, LENGTH_TRAILER_SIZE
<1>9. \A i \in 1..Len(d) : w[i] = d[i]
  BY <1>1, <1>2, <1>6, <1>7
<1>10. \A k \in 1..4 : w[TrailerStart(w) + k] = t[k]
  BY <1>6, <1>7, <1>8
<1>11. Len(w) = Larger(Needed(d), p.target_size)
  BY <1>2, <1>6, <1>7
<1>12. TrailerStart(w) \in Nat /\ TrailerStart(w) >= Len(d)
  BY <1>1, <1>2, <1>8
<1> QED
  BY <1>7, <1>9, <1>10, <1>11, <1>12 DEF w, t

\* What pad has done, unpad undoes, also with another target size.
LEMMA UnpadPad ==
    ASSUME NEW p \in PacketPadder, NEW r \in PacketPadder,
           p.enabled, r.enabled,
           NEW d \in Seq(Byte), Len(d) < Lengths
    PROVE  Unpad(r, Pad(p, d)) = d
<1> DEFINE w == Pad(p, d)
           t == Trailer(Len(d))
<1>1. /\ w \in Seq(Byte)
      /\ TrailerStart(w) \in Nat /\ TrailerStart(w) >= Len(d)
      /\ \A i \in 1..Len(d) : w[i] = d[i]
      /\ \A k \in 1..4 : w[TrailerStart(w) + k] = t[k]
  BY PadParts
<1>2. Len(d) \in Nat
  OBVIOUS
<1>3. ((t[1] * Base + t[2]) * Base + t[3]) * Base + t[4] = Len(d)
  BY <1>2, TrailerValue
<1> HIDE DEF w, t
<1>4. Claimed(w) = Len(d)
  BY <1>1, <1>3 DEF Claimed
<1>5. Len(w) >= LENGTH_TRAILER_SIZE /\ Len(d) <= Len(w)
  BY <1>1, <1>2 DEF TrailerStart, LENGTH_TRAILER_SIZE
<1>6. SubSeq(w, 1, Len(d)) = d
  BY <1>1, <1>2, <1>5
<1>7. Unpad(r, w) = d
  BY <1>1, <1>4, <1>5, <1>6 DEF Unpad, WellFormed
<1> QED
  BY <1>7 DEF w

\* Of any packet, unpad returns the whole or a part of the body.
LEMMA UnpadPrefix ==
    ASSUME NEW r \in PacketPadder, NEW w \in Seq(Byte)
    PROVE  /\ Unpad(r, w) \in Seq(Byte)
           /\ \/ Unpad(r, w) = w
              \/ /\ Len(Unpad(r, w)) <= Len(w) - LENGTH_TRAILER_SIZE
                 /\ \A i \in 1..Len(Unpad(r, w)) : Unpad(r, w)[i] = w[i]
<1>1. CASE r.enabled /\ Len(w) >= LENGTH_TRAILER_SIZE /\ WellFormed(w)
  <2>1. Unpad(r, w) = SubSeq(w, 1, Claimed(w))
    BY <1>1 DEF Unpad
  <2>2. Claimed(w) \in Nat
    <3> DEFINE n == TrailerStart(w)
    <3>1. n \in Nat /\ n + 4 = Len(w)
      BY <1>1 DEF TrailerStart, LENGTH_TRAILER_SIZE
    <3>3. \A a, b \in Nat : a * Base + b \in Nat
      BY LayerAssumption
    <3>7. \A b \in Byte : b \in Nat
      BY LayerAssumption DEF Byte
    <3> HIDE DEF n
    <3>8. {n + 1, n + 2, n + 3, n + 4} \subseteq 1..Len(w)
      BY <3>1
    <3>9. \A i \in 1..Len(w) : w[i] \in Byte
      OBVIOUS
    <3>2. w[n + 1] \in Nat /\ w[n + 2] \in Nat /\ w[n + 3] \in Nat /\ w[n + 4] \in Nat
      BY <3>7, <3>8, <3>9
    <3>4. w[n + 1] * Base + w[n + 2] \in Nat
      BY <3>2, <3>3
    <3>5. (w[n + 1] * Base + w[n + 2]) * Base + w[n + 3] \in Nat
      BY <3>2, <3>3, <3>4
    <3>6. ((w[n + 1] * Base + w[n + 2]) * Base + w[n + 3]) * Base + w[n + 4] \in Nat
      BY <3>2, <3>3, <3>5
    <3> QED
      BY <3>6 DEF Claimed, n
  <2>3. Claimed(w) <= Len(w) - LENGTH_TRAILER_SIZE
    BY <1>1 DEF WellFormed, TrailerStart
  <2> QED
    BY <2>1, <2>2, <2>3 DEF LENGTH_TRAILER_SIZE
<1>2. CASE ~(r.enabled /\ Len(w) >= LENGTH_TRAILER_SIZE /\ WellFormed(w))
  BY <1>2 DEF Unpad
<1> QED
  BY <1>1, <1>2

\* The inductive invariant: the layers are well-formed and the wire and the
\* result are what pad and unpad computed.
LayerInv ==
    /\ sender \in AntiCorrelationLayer /\ receiver \in AntiCorrelationLayer
    /\ stage \in {"new", "ready", "sent", "received"}
    /\ delay \in Nat
    /\ data \in Seq(Byte)
    /\ got \in Seq(Byte)
    /\ IF stage \in {"sent", "received"} THEN wire = Pad(sender.padder, data)
                                        ELSE wire = <<>>
    /\ stage = "received" => got = Unpad(receiver.padder, wire)
    /\ stage # "new" /\ sender.jitter.enabled => delay \in DelayRange(sender.jitter)

\* pad returns bytes.
LEMMA PadType ==
    ASSUME NEW p \in PacketPadder, NEW d \in Seq(Byte)
    PROVE  Pad(p, d) \in Seq(Byte)
  BY PadParts DEF Pad

\* The types that follow from the invariant.
LEMMA WireType ==
    ASSUME LayerInv
    PROVE  /\ wire \in Seq(Byte)
           /\ sender.padder \in PacketPadder /\ receiver.padder \in PacketPadder
           /\ sender.padder.enabled \in BOOLEAN /\ receiver.padder.enabled \in BOOLEAN
<1>1. sender.padder \in PacketPadder /\ receiver.padder \in PacketPadder
  BY DEF LayerInv, AntiCorrelationLayer
<1>2. CASE stage \in {"sent", "received"}
  BY <1>1, <1>2, PadType DEF LayerInv, PacketPadder
<1>3. CASE stage \notin {"sent", "received"}
  BY <1>1, <1>3 DEF LayerInv, PacketPadder
<1> QED
  BY <1>2, <1>3

\* from_config builds a layer from every configuration.
LEMMA FromConfigType ==
    ASSUME NEW c \in AntiCorrelationConfig
    PROVE  FromConfig(c) \in AntiCorrelationLayer
<1>1. c.jitter \in TimingJitter /\ c.padding \in PacketPadder
  BY LayerAssumption
  DEF AntiCorrelationConfig, Jitter, Padding, TimingJitter, PacketPadder
<1> QED
  BY <1>1 DEF FromConfig, AntiCorrelationLayer, TimingJitter, PacketPadder

\* The invariant holds initially.
LEMMA LayerInvInit == LayerInit => LayerInv
<1> SUFFICES ASSUME LayerInit PROVE LayerInv
  OBVIOUS
<1>1. sender \in AntiCorrelationLayer /\ receiver \in AntiCorrelationLayer
  BY FromConfigType DEF LayerInit
<1> QED
  BY <1>1 DEF LayerInit, LayerInv

\* Every step keeps it.
LEMMA LayerInvStep == LayerInv /\ [LayerNext]_layerVars => LayerInv'
<1> SUFFICES ASSUME LayerInv, [LayerNext]_layerVars PROVE LayerInv'
  OBVIOUS
<1>1. CASE PreRequest
  <2>1. DelayRange(sender.jitter) \subseteq Nat
    BY DEF DelayRange, LayerInv, AntiCorrelationLayer, TimingJitter
  <2>2. /\ delay' \in Nat
        /\ sender.jitter.enabled => delay' \in DelayRange(sender.jitter)
    BY <1>1, <2>1 DEF PreRequest
  <2> QED
    BY <1>1, <2>2 DEF PreRequest, LayerInv
<1>2. ASSUME NEW d \in Packets, PadOutgoing(d) PROVE LayerInv'
  <2>1. d \in Seq(Byte)
    BY LayerAssumption
  <2> QED
    BY <1>2, <2>1 DEF PadOutgoing, LayerInv
<1>3. CASE UnpadIncoming
  <2>1. got' \in Seq(Byte)
    BY <1>3, WireType, UnpadPrefix DEF UnpadIncoming
  <2> QED
    BY <1>3, <2>1 DEF UnpadIncoming, LayerInv
<1>4. CASE UNCHANGED layerVars
  BY <1>4 DEF layerVars, LayerInv
<1> QED
  BY <1>1, <1>2, <1>3, <1>4 DEF LayerNext

\* Hence it always holds.
LEMMA LayerInvariance == LayerSpec => []LayerInv
  BY LayerInvInit, LayerInvStep, PTL DEF LayerSpec

\* What pad puts on the wire and unpad returns are bytes, for every length of
\* the data, also where the trailer wraps around.
THEOREM LayerTypeCorrect == LayerSpec => []LayerTypeOK
<1>1. LayerInv => LayerTypeOK
  BY WireType DEF LayerInv, LayerTypeOK
<1> QED
  BY <1>1, LayerInvariance, PTL

\* PacketPadder::unpad recovers what PacketPadder::pad was given, for every
\* packet shorter than 2^32 (Base^4) bytes and every two target sizes.
THEOREM PaddingRoundTrip == LayerSpec => []RoundTrip
<1>1. ASSUME LayerInv PROVE RoundTrip
  <2> SUFFICES ASSUME stage = "received",
                      sender.padder.enabled = receiver.padder.enabled,
                      Len(data) < Lengths
               PROVE  got = data
    BY DEF RoundTrip
  <2>1. /\ got = Unpad(receiver.padder, wire)
        /\ wire = Pad(sender.padder, data)
        /\ data \in Seq(Byte)
    BY <1>1 DEF LayerInv
  <2>2. CASE sender.padder.enabled
    BY <1>1, <2>1, <2>2, WireType, UnpadPad
  <2>3. CASE ~sender.padder.enabled
    BY <2>1, <2>3 DEF Pad, Unpad
  <2> QED
    BY <2>2, <2>3
<1> QED
  BY <1>1, LayerInvariance, PTL

\* The size on the wire tells nothing about a packet that fits the target.
THEOREM SizesHidden == LayerSpec => []SizeHidden
<1>1. ASSUME LayerInv PROVE SizeHidden
  <2> SUFFICES ASSUME stage \in {"sent", "received"}, sender.padder.enabled
               PROVE  Len(wire) = IF Len(data) + LENGTH_TRAILER_SIZE
                                        <= sender.padder.target_size
                                  THEN sender.padder.target_size
                                  ELSE Len(data) + LENGTH_TRAILER_SIZE
    BY DEF SizeHidden
  <2>1. wire = Pad(sender.padder, data) /\ data \in Seq(Byte)
    BY <1>1 DEF LayerInv
  <2>2. sender.padder \in PacketPadder
    BY <1>1, WireType
  <2>3. Len(wire) = Larger(Needed(data), sender.padder.target_size)
    BY <2>1, <2>2, PadParts
  <2>4. Len(data) \in Nat /\ sender.padder.target_size \in Nat
    BY <2>1, <2>2 DEF PacketPadder
  <2> QED
    BY <2>3, <2>4 DEF Larger, Needed, LENGTH_TRAILER_SIZE
<1> QED
  BY <1>1, LayerInvariance, PTL

\* unpad never cuts through the trailer, whatever arrives.
THEOREM UnpadWholeOrBody == LayerSpec => []WholeOrBody
<1>1. ASSUME LayerInv, stage = "received"
      PROVE  \/ got = wire
             \/ /\ Len(got) <= Len(wire) - LENGTH_TRAILER_SIZE
                /\ \A i \in 1..Len(got) : got[i] = wire[i]
  <2>1. got = Unpad(receiver.padder, wire)
    BY <1>1 DEF LayerInv
  <2>2. wire \in Seq(Byte) /\ receiver.padder \in PacketPadder
    BY <1>1, WireType
  <2> QED
    BY <2>1, <2>2, UnpadPrefix
<1>2. LayerInv => WholeOrBody
  BY <1>1 DEF WholeOrBody
<1> QED
  BY <1>2, LayerInvariance, PTL

\* The delay TimingJitter::apply sleeps lies in the clamped range.
THEOREM JitterInRange == LayerSpec => []JitterAtLeastMin
<1>1. ASSUME LayerInv PROVE JitterAtLeastMin
  BY <1>1
  DEF LayerInv, JitterAtLeastMin, DelayRange, Larger, AntiCorrelationLayer, TimingJitter
<1> QED
  BY <1>1, LayerInvariance, PTL

---------------------------------------------------------------------------
(* handle_payment, for any number of handlers and any request: who is      *)
(* asked to pay, and how often.                                            *)

\* No handler before the i-th can handle the request.
NoneBefore(i) == \A j \in 1..(i - 1) : ~CanHandle(handlers[j], request)

\* The i-th handler is the first that can.
FirstAt(i) == i \in 1..Len(handlers) /\ CanHandle(handlers[i], request) /\ NoneBefore(i)

PayInv ==
    /\ handlers \in Seq(Handlers)
    /\ at \in 1..(Len(handlers) + 1)
    /\ paying = "no" => at = 1 /\ asked = <<>> /\ outcome = None
    /\ paying = "loop" => /\ NoneBefore(at)
                          /\ asked = <<>> /\ outcome = None
    /\ paying = "pay" => FirstAt(at) /\ asked = <<handlers[at]>> /\ outcome = None
    /\ paying = "done" =>
          \/ /\ asked = <<>> /\ outcome = "unavailable"
             /\ NoneBefore(Len(handlers) + 1)
          \/ \E i \in 1..Len(handlers) :
                FirstAt(i) /\ asked = <<handlers[i]>> /\ outcome \in {"proof", "failed"}
    /\ paying \in {"no", "loop", "pay", "done"}

LEMMA PayInvInit == PaymentInit => PayInv
BY DEF PaymentInit, PayInv, NoneBefore, None

LEMMA PayInvStep ==
    ASSUME PayInv, [PaymentNext]_paymentVars
    PROVE  PayInv'
<1> USE DEF PayInv
<1>1. ASSUME NEW h \in Handlers, AddHandler(h)
      PROVE  PayInv'
  BY <1>1 DEF AddHandler
<1>2. ASSUME NEW hs \in Headers, Parse402(hs)
      PROVE  PayInv'
  BY <1>2 DEF Parse402, NoneBefore
<1>3. CASE SkipHandler
  <2>1. NoneBefore(at + 1)
    BY <1>3 DEF SkipHandler, NoneBefore
  <2>2. NoneBefore(at)'
    BY <1>3, <2>1 DEF SkipHandler, NoneBefore
  <2> QED
    BY <1>3, <2>2 DEF SkipHandler
<1>4. CASE AskHandler
  <2>1. FirstAt(at)
    BY <1>4 DEF AskHandler, FirstAt
  <2>2. FirstAt(at)'
    BY <1>4, <2>1 DEF AskHandler, FirstAt, NoneBefore
  <2> QED
    BY <1>4, <2>2 DEF AskHandler
<1>5. CASE PayReturns
  <2>1. PICK res \in Results(handlers[at]) : paying' = AfterPay(res) /\ outcome' = res
    BY <1>5 DEF PayReturns
  <2>2. FirstAt(at) /\ asked = <<handlers[at]>>
    BY <1>5 DEF PayReturns
  <2>3. handlers[at] \in Handlers
    BY <2>2 DEF FirstAt
  <2>4. res \in {"proof", "failed"}
    BY <2>1, <2>3 DEF Results, Handlers
  <2>5. UNCHANGED <<handlers, request, asked>> /\ at' = at + 1
    BY <1>5 DEF PayReturns
  <2>6. \E i \in 1..Len(handlers') : /\ FirstAt(i)' /\ asked' = <<handlers'[i]>>
                                     /\ outcome' \in {"proof", "failed"}
    <3>1. at \in 1..Len(handlers)
      BY <2>2 DEF FirstAt
    <3>2. \A i : FirstAt(i)' <=> FirstAt(i)
      BY <2>5 DEF FirstAt, NoneBefore
    <3> QED
      BY <2>1, <2>2, <2>4, <2>5, <3>1, <3>2
  <2>7. paying' = "done"
    BY <2>1 DEF AfterPay
  <2>8. at' \in 1..(Len(handlers') + 1)
    BY <2>2, <2>5 DEF FirstAt
  <2> QED
    BY <2>5, <2>6, <2>7, <2>8
<1>6. CASE NoHandler
  <2>1. at = Len(handlers) + 1
    BY <1>6 DEF NoHandler, LoopOver
  <2>2. NoneBefore(Len(handlers) + 1)'
    BY <1>6, <2>1 DEF NoHandler, NoneBefore
  <2> QED
    BY <1>6, <2>2 DEF NoHandler
<1>7. CASE UNCHANGED paymentVars
  BY <1>7 DEF paymentVars, NoneBefore, FirstAt
<1> QED
  BY <1>1, <1>2, <1>3, <1>4, <1>5, <1>6, <1>7 DEF PaymentNext

LEMMA PayInvariance == PaymentSpec => []PayInv
BY PayInvInit, PayInvStep, PTL DEF PaymentSpec

\* handle_payment asks at most one handler to pay, and never reports that
\* none is available after it has asked one.
THEOREM PaysAtMostOnce == PaymentSpec => []PaidAtMostOnce
<1>1. PayInv => PaidAtMostOnce
  <2> SUFFICES ASSUME PayInv PROVE PaidAtMostOnce
    OBVIOUS
  <2>1. CASE asked = <<>>
    BY <2>1 DEF PaidAtMostOnce
  <2>2. CASE asked # <<>>
    <3>1. PICK i \in 1..Len(handlers) : asked = <<handlers[i]>>
      BY <2>2 DEF PayInv, FirstAt
    <3>2. outcome # "unavailable"
      BY <2>2 DEF PayInv, None
    <3> QED
      BY <3>1, <3>2 DEF PaidAtMostOnce
  <2> QED
    BY <2>1, <2>2
<1> QED
  BY PayInvariance, <1>1, PTL

\* handle_payment asks the first handler, in the order of registration, that
\* can handle the request, and nobody only if none can.
THEOREM FirstCapableIsAsked == PaymentSpec => []FirstCapableAsked
<1>1. PayInv => FirstCapableAsked
  <2> SUFFICES ASSUME PayInv, paying = "done" PROVE FirstCapableAsked
    BY DEF FirstCapableAsked
  <2> DEFINE capable == {i \in DOMAIN handlers : CanHandle(handlers[i], request)}
  <2>1. CASE asked = <<>> /\ NoneBefore(Len(handlers) + 1)
    <3>1. capable = {}
      BY <2>1 DEF PayInv, NoneBefore
    <3> QED
      BY <2>1, <3>1 DEF FirstCapableAsked, At
  <2>2. CASE \E i \in 1..Len(handlers) : FirstAt(i) /\ asked = <<handlers[i]>>
    <3>1. PICK i \in 1..Len(handlers) : FirstAt(i) /\ asked = <<handlers[i]>>
      BY <2>2
    <3>2. i \in capable /\ asked # <<>> /\ asked[1] = handlers[i]
      BY <3>1 DEF PayInv, FirstAt
    <3>3. \A k \in capable : (\A j \in capable : k <= j) => k = i
      BY <3>1, <3>2 DEF PayInv, FirstAt, NoneBefore
    <3> HIDE DEF capable
    <3>4. /\ asked = <<>> <=> capable = {}
          /\ \A k \in capable : (\A j \in capable : k <= j) => asked[1] = handlers[k]
      BY <3>2, <3>3
    <3> QED
      BY <3>4 DEF FirstCapableAsked, At, capable
  <2> QED
    BY <2>1, <2>2 DEF PayInv
<1> QED
  BY PayInvariance, <1>1, PTL

---------------------------------------------------------------------------
(* parse_402, for any number of headers: what its loop has found after n   *)
(* of them.  The induction over the turns is a descent to the first turn   *)
(* that fails.                                                             *)

\* A non-empty set of naturals has a least element.
LEMMA LeastNat ==
    ASSUME NEW S, S \subseteq Nat, S # {}
    PROVE  \E x \in S : \A y \in S : x <= y
<1> DEFINE R == OpToRel(<, Nat)
<1>1. PICK x \in S : \A y \in S : ~(<<y, x>> \in R)
  BY NatLessThanWellFounded, WFMin
<1>2. \A y \in S : ~(y < x)
  BY <1>1 DEF OpToRel
<1> QED
  BY <1>2

\* A property of 0 that passes from every number below n to the next holds
\* up to n: G is the set of the numbers it holds of.
LEMMA Induct ==
    ASSUME NEW n \in Nat, NEW G, 0 \in G,
           \A k \in 1..n : k - 1 \in G => k \in G
    PROVE  \A k \in 0..n : k \in G
<1> DEFINE S == {k \in 0..n : k \notin G}
<1> SUFFICES ASSUME S # {} PROVE FALSE
  OBVIOUS
<1>0. S \subseteq Nat
  OBVIOUS
<1>1. PICK x \in S : \A y \in S : x <= y
  <2> HIDE DEF S
  <2> QED
    BY <1>0, LeastNat
<1>2. x \in 1..n /\ x - 1 \in 0..n
  BY <1>1
<1>3. x - 1 \in G
  BY <1>1, <1>2
<1> QED
  BY <1>1, <1>2, <1>3

\* A response's headers.
LEMMA HeadersType ==
    ASSUME NEW hs \in Headers
    PROVE  hs \in Seq(Header) /\ Len(hs) \in Nat /\ DOMAIN hs = 1..Len(hs)
<1>1. PICK n \in 0..MaxHeaders : hs \in [1..n -> Header]
  BY DEF Headers
<1>2. n \in Nat
  BY PaymentAssumption DEF PaymentAssumption
<1> QED
  BY <1>1, <1>2

\* One turn of the loop: the request stays well typed, and the headers it
\* carries stay those of the response.
LEMMA ReadHeaderType ==
    ASSUME NEW r \in PaymentRequest, NEW h \in Header
    PROVE  ReadHeader(r, h) \in PaymentRequest /\ ReadHeader(r, h).headers = r.headers
<1>1. /\ h.name = "network" => h.value \in Networks
      /\ h.name = "amount" => h.value \in Amounts
      /\ h.name = "currency" => h.value \in Currencies
      /\ h.name = "address" => h.value \in Addresses
  BY DEF Header
<1> DEFINE m == Named(r, h)
<1>2. m \in PaymentRequest /\ m.headers = r.headers
  BY <1>1 DEF Named, PaymentRequest
<1>3. Detected(m, h) \in Networks \cup {"x402", "l402", None}
  BY <1>2 DEF Detected, PaymentRequest
<1>4. ReadHeader(r, h) = [m EXCEPT !.network = Detected(m, h)]
  BY DEF ReadHeader
<1> HIDE DEF m
<1> QED
  BY <1>2, <1>3, <1>4 DEF PaymentRequest

\* What the loop starts from, and the request after each turn as a function
\* of the number of turns.
Start(hs) == [NoRequest EXCEPT !.headers = hs]

Turns(hs, f) ==
    [n \in 0..Len(hs) |-> IF n = 0 THEN Start(hs) ELSE ReadHeader(f[n - 1], hs[n])]

Runs(hs, n) ==
    {f \in [0..n -> PaymentRequest] :
        f[0] = Start(hs) /\ \A i \in 1..n : f[i] = ReadHeader(f[i - 1], hs[i])}

\* The loop has a run of every length, so its function exists.
LEMMA RunExists ==
    ASSUME NEW hs \in Headers
    PROVE  \E f \in Runs(hs, Len(hs)) : Parsed(hs) = f[Len(hs)]
<1> DEFINE L == Len(hs)
           G == {n \in 0..L : Runs(hs, n) # {}}
<1>1. hs \in Seq(Header) /\ L \in Nat
  BY HeadersType
<1>2. Start(hs) \in PaymentRequest
  BY <1>1 DEF Start, NoRequest, PaymentRequest
<1>3. 0 \in G
  <2>1. [i \in 0..0 |-> Start(hs)] \in Runs(hs, 0)
    BY <1>2 DEF Runs
  <2> QED
    BY <1>1, <2>1
<1>4. ASSUME NEW k \in 1..L, k - 1 \in G PROVE k \in G
  <2>1. PICK f \in Runs(hs, k - 1) : TRUE
    BY <1>4
  <2>2. /\ f \in [0..(k - 1) -> PaymentRequest] /\ f[0] = Start(hs)
        /\ \A i \in 1..(k - 1) : f[i] = ReadHeader(f[i - 1], hs[i])
    BY <2>1 DEF Runs
  <2>3. ReadHeader(f[k - 1], hs[k]) \in PaymentRequest
    <3>1. f[k - 1] \in PaymentRequest /\ hs[k] \in Header
      BY <1>1, <2>2
    <3> QED
      BY <3>1, ReadHeaderType
  <2> DEFINE g == [i \in 0..k |-> IF i = k THEN ReadHeader(f[k - 1], hs[k]) ELSE f[i]]
  <2>4. g \in [0..k -> PaymentRequest]
    <3>1. \A i \in 0..k : i # k => f[i] \in PaymentRequest
      BY <2>2
    <3> QED
      BY <2>3, <3>1
  <2>5. g[0] = Start(hs)
    BY <2>2
  <2>6. ASSUME NEW i \in 1..k PROVE g[i] = ReadHeader(g[i - 1], hs[i])
    <3>1. i - 1 \in 0..k /\ i - 1 # k /\ g[i - 1] = f[i - 1]
      OBVIOUS
    <3>2. CASE i = k
      BY <3>1, <3>2
    <3>3. CASE i # k
      <4>1. i \in 1..(k - 1) /\ g[i] = f[i]
        BY <3>3
      <4> QED
        BY <2>2, <3>1, <4>1
    <3> QED
      BY <3>2, <3>3
  <2>7. g \in Runs(hs, k)
    <3> HIDE DEF g
    <3> QED
      BY <2>4, <2>5, <2>6 DEF Runs
  <2> QED
    BY <1>1, <2>7
<1>5. L \in G
  <2> HIDE DEF G, L
  <2>1. \A k \in 1..L : k - 1 \in G => k \in G
    BY <1>4
  <2>2. \A k \in 0..L : k \in G
    BY <1>1, <1>3, <2>1, Induct
  <2> QED
    BY <1>1, <2>2
<1>6. PICK f \in Runs(hs, L) : TRUE
  BY <1>5
<1>7. f = Turns(hs, f)
  <2>1. /\ f \in [0..L -> PaymentRequest] /\ f[0] = Start(hs)
        /\ \A i \in 1..L : f[i] = ReadHeader(f[i - 1], hs[i])
    BY <1>6 DEF Runs
  <2>2. \A i \in 0..L : i = 0 \/ i \in 1..L
    BY <1>1
  <2> QED
    BY <2>1, <2>2 DEF Turns
<1>8. PICK g : g = CHOOSE e : e = Turns(hs, e)
  OBVIOUS
<1>9. g = Turns(hs, g)
  BY <1>7, <1>8
<1>10. Parsed(hs) = g[L]
  BY <1>8 DEF Parsed, Turns, Start
<1>11. /\ DOMAIN g = 0..L /\ g[0] = Start(hs)
       /\ \A i \in 1..L : g[i] = ReadHeader(g[i - 1], hs[i])
  <2>1. \A i \in 0..L : g[i] = IF i = 0 THEN Start(hs) ELSE ReadHeader(g[i - 1], hs[i])
    BY <1>9 DEF Turns
  <2>2. DOMAIN g = 0..L
    BY <1>9 DEF Turns
  <2>3. 0 \in 0..L /\ \A i \in 1..L : i \in 0..L /\ i # 0
    BY <1>1
  <2> QED
    BY <2>1, <2>2, <2>3
<1>12. \A i \in 0..L : g[i] \in PaymentRequest
  <2> DEFINE H == {i \in 0..L : g[i] \in PaymentRequest}
  <2>1. 0 \in H
    BY <1>1, <1>2, <1>11
  <2>2. ASSUME NEW k \in 1..L, k - 1 \in H PROVE k \in H
    <3>1. hs[k] \in Header /\ g[k - 1] \in PaymentRequest
      BY <1>1, <2>2
    <3> QED
      BY <1>1, <1>11, <3>1, ReadHeaderType
  <2> HIDE DEF H, L
  <2>3. \A k \in 1..L : k - 1 \in H => k \in H
    BY <2>2
  <2>4. \A k \in 0..L : k \in H
    BY <1>1, <2>1, <2>3, Induct
  <2> QED
    BY <2>4 DEF H
<1>13. g \in Runs(hs, L)
  <2>1. g = [i \in 0..L |-> g[i]]
    BY <1>9 DEF Turns
  <2> HIDE DEF L
  <2>2. g \in [0..L -> PaymentRequest]
    BY <1>12, <2>1
  <2> QED
    BY <1>11, <2>2 DEF Runs
<1> QED
  BY <1>10, <1>13

\* What the first n headers say of the network: the last explicit one, or
\* else the first that gives a protocol away.
Explicit(hs, n) == {i \in 1..n : hs[i].name = "network"}
Telling(hs, n)  == {i \in 1..n : Tells(hs[i])}

Says(hs, n, net) ==
    IF Explicit(hs, n) # {}
    THEN \E i \in Explicit(hs, n) :
            (\A j \in Explicit(hs, n) : j <= i) /\ net = hs[i].value
    ELSE IF Telling(hs, n) # {}
    THEN \E i \in Telling(hs, n) :
            /\ \A j \in Telling(hs, n) : j >= i
            /\ net = IF hs[i].name = "x-402" THEN "x402" ELSE "l402"
    ELSE net = None

\* One more header.
LEMMA SaysStep ==
    ASSUME NEW hs \in Headers, NEW n \in 1..Len(hs), NEW r \in PaymentRequest,
           Says(hs, n - 1, r.network)
    PROVE  Says(hs, n, ReadHeader(r, hs[n]).network)
<1>0. PICK h, net : h = hs[n] /\ net = ReadHeader(r, h).network
  OBVIOUS
<1> SUFFICES Says(hs, n, net)
  BY <1>0
<1>1. n \in Nat /\ n >= 1 /\ \A i \in 1..n : hs[i] \in Header
  BY HeadersType
<1>2. \A i \in 1..n : hs[i].name = "network" => hs[i].value \in Networks
  BY <1>1 DEF Header
<1>3. \A i \in 1..n : i \in 1..(n - 1) \/ i = n
  BY <1>1
<1>4. \A i \in 1..(n - 1) : i \in 1..n /\ i <= n /\ n \notin 1..(n - 1)
  BY <1>1
<1>5. None \notin Networks /\ None # "x402" /\ None # "l402"
  BY PaymentAssumption DEF PaymentAssumption, None
<1>6. h \in Header /\ n \in 1..n
  BY <1>0, <1>1
<1>7. CASE h.name = "network"
  <2>1. net = h.value
    <3>1. h.value \in Networks
      BY <1>6, <1>7 DEF Header
    <3>2. Named(r, h) = [r EXCEPT !.network = h.value]
      BY <1>7 DEF Named
    <3>3. Detected(Named(r, h), h) = h.value
      BY <1>5, <3>1, <3>2 DEF Detected, PaymentRequest
    <3> QED
      BY <1>0, <3>2, <3>3 DEF ReadHeader, PaymentRequest
  <2>2. n \in Explicit(hs, n) /\ \A j \in Explicit(hs, n) : j <= n
    BY <1>0, <1>1, <1>6, <1>7 DEF Explicit
  <2> QED
    BY <1>0, <2>1, <2>2 DEF Says
<1>8. CASE h.name # "network"
  <2>1. Explicit(hs, n) = Explicit(hs, n - 1)
    BY <1>0, <1>3, <1>4, <1>8 DEF Explicit
  <2>2. Telling(hs, n) = IF Tells(h) THEN Telling(hs, n - 1) \cup {n} ELSE Telling(hs, n - 1)
    BY <1>0, <1>3, <1>4, <1>6 DEF Telling
  <2>3. net = IF r.network # None \/ ~Tells(h) THEN r.network
              ELSE IF h.name = "x-402" THEN "x402" ELSE "l402"
    <3>1. Named(r, h) \in PaymentRequest /\ Named(r, h).network = r.network
      BY <1>6, <1>8 DEF Named, PaymentRequest, Header
    <3>2. net = Detected(Named(r, h), h)
      BY <1>0, <3>1 DEF ReadHeader, PaymentRequest
    <3>3. Detected(Named(r, h), h) = Detected(r, h)
      BY <3>1 DEF Detected
    <3>4. CASE r.network # None
      BY <3>2, <3>3, <3>4 DEF Detected
    <3>5. CASE r.network = None /\ h.name = "x-402"
      BY <3>2, <3>3, <3>5 DEF Detected, Tells
    <3>6. CASE r.network = None /\ h.name # "x-402"
      BY <3>2, <3>3, <3>6 DEF Detected, Tells
    <3> QED
      BY <3>4, <3>5, <3>6
  <2>4. CASE Explicit(hs, n) # {}
    <3>1. PICK i \in Explicit(hs, n - 1) :
             (\A j \in Explicit(hs, n - 1) : j <= i) /\ r.network = hs[i].value
      BY <2>1, <2>4 DEF Says
    <3>2. r.network # None
      BY <1>2, <1>4, <1>5, <3>1 DEF Explicit
    <3> QED
      BY <2>1, <2>3, <3>1, <3>2 DEF Says
  <2>5. CASE Explicit(hs, n) = {} /\ Telling(hs, n - 1) # {}
    <3>1. PICK i \in Telling(hs, n - 1) :
             /\ \A j \in Telling(hs, n - 1) : j >= i
             /\ r.network = IF hs[i].name = "x-402" THEN "x402" ELSE "l402"
      BY <2>1, <2>5 DEF Says
    <3>2. net = r.network
      BY <1>5, <2>3, <3>1
    <3>3. n >= i
      BY <1>1, <3>1 DEF Telling
    <3>4. i \in Telling(hs, n) /\ \A j \in Telling(hs, n) : j >= i
      BY <2>2, <3>1, <3>3
    <3> QED
      BY <2>5, <3>1, <3>2, <3>4 DEF Says
  <2>6. CASE Explicit(hs, n) = {} /\ Telling(hs, n - 1) = {}
    <3>1. r.network = None
      BY <2>1, <2>6 DEF Says
    <3>2. CASE Tells(h)
      <4>1. Telling(hs, n) = {n}
        BY <2>2, <2>6, <3>2
      <4>2. net = IF hs[n].name = "x-402" THEN "x402" ELSE "l402"
        BY <1>0, <2>3, <3>1, <3>2
      <4> QED
        BY <1>1, <2>6, <4>1, <4>2 DEF Says
    <3>3. CASE ~Tells(h)
      BY <2>2, <2>3, <2>6, <3>1, <3>3 DEF Says
    <3> QED
      BY <3>2, <3>3
  <2> QED
    BY <2>4, <2>5, <2>6
<1> QED
  BY <1>7, <1>8

\* All of them: what parse_402 returns carries the response's headers and the
\* network they say.
LEMMA ParsedSays ==
    ASSUME NEW hs \in Headers
    PROVE  /\ Parsed(hs) \in PaymentRequest
           /\ Parsed(hs).headers = hs
           /\ Says(hs, Len(hs), Parsed(hs).network)
<1> DEFINE L == Len(hs)
<1>1. PICK f \in Runs(hs, L) : Parsed(hs) = f[L]
  BY RunExists
<1>2. /\ f \in [0..L -> PaymentRequest] /\ f[0] = Start(hs)
      /\ \A i \in 1..L : f[i] = ReadHeader(f[i - 1], hs[i])
  BY <1>1 DEF Runs
<1>3. hs \in Seq(Header) /\ L \in Nat
  BY HeadersType
<1> DEFINE G == {i \in 0..L : f[i].headers = hs /\ Says(hs, i, f[i].network)}
<1>4. 0 \in G
  <2>1. Explicit(hs, 0) = {} /\ Telling(hs, 0) = {}
    BY DEF Explicit, Telling
  <2>2. f[0].headers = hs /\ f[0].network = None
    BY <1>2 DEF Start, NoRequest
  <2> QED
    BY <1>3, <2>1, <2>2 DEF Says
<1>5. ASSUME NEW k \in 1..L, k - 1 \in G PROVE k \in G
  <2>1. f[k - 1] \in PaymentRequest /\ hs[k] \in Header /\ f[k] = ReadHeader(f[k - 1], hs[k])
    BY <1>2, <1>3
  <2>2. f[k].headers = hs
    BY <1>5, <2>1, ReadHeaderType
  <2>3. Says(hs, k, f[k].network)
    BY <1>5, <2>1, SaysStep
  <2> QED
    BY <1>3, <2>2, <2>3
<1> HIDE DEF G, L
<1>6. \A k \in 1..L : k - 1 \in G => k \in G
  BY <1>5
<1>7. \A k \in 0..L : k \in G
  BY <1>3, <1>4, <1>6, Induct
<1>8. L \in G /\ L \in 0..L
  BY <1>3, <1>7
<1> QED
  BY <1>1, <1>2, <1>8 DEF G, L

\* The request is what its headers say, from the parse on.
RequestInv ==
    /\ request \in PaymentRequest
    /\ paying # "no" => /\ request.headers \in Headers
                        /\ Says(request.headers, Len(request.headers), request.network)

LEMMA RequestInvariance == PaymentSpec => []RequestInv
<1>1. PaymentInit => RequestInv
  BY DEF PaymentInit, RequestInv, NoRequest, PaymentRequest
<1>2. RequestInv /\ [PaymentNext]_paymentVars => RequestInv'
  <2> SUFFICES ASSUME RequestInv, [PaymentNext]_paymentVars PROVE RequestInv'
    OBVIOUS
  <2>1. ASSUME NEW hs \in Headers, Parse402(hs) PROVE RequestInv'
    <3>1. request' = Parsed(hs)
      BY <2>1 DEF Parse402
    <3> QED
      BY <3>1, ParsedSays DEF RequestInv
  <2>2. ASSUME NEW h \in Handlers, AddHandler(h) PROVE RequestInv'
    BY <2>2 DEF AddHandler, RequestInv
  <2>3. CASE SkipHandler \/ AskHandler \/ PayReturns \/ NoHandler \/ UNCHANGED paymentVars
    <3>1. request' = request /\ (paying' # "no" => paying # "no")
      BY <2>3 DEF SkipHandler, AskHandler, PayReturns, NoHandler, paymentVars
    <3> QED
      BY <3>1 DEF RequestInv
  <2> QED
    BY <2>1, <2>2, <2>3 DEF PaymentNext
<1> QED
  BY <1>1, <1>2, PTL DEF PaymentSpec

\* Wherever it stands, the last X-Payment-Network of a response decides; a
\* protocol given away by another header counts only without one, and then
\* the first does: for responses of any length.
THEOREM NetworkIsExplicit == PaymentSpec => []ExplicitNetworkWins
<1>1. RequestInv => ExplicitNetworkWins
  <2> SUFFICES ASSUME RequestInv, paying # "no" PROVE ExplicitNetworkWins
    BY DEF ExplicitNetworkWins
  <2>1. PICK hs \in Headers : hs = request.headers /\ Says(hs, Len(hs), request.network)
    BY DEF RequestInv
  <2>2. DOMAIN hs = 1..Len(hs)
    BY HeadersType
  <2> QED
    BY <2>1, <2>2 DEF ExplicitNetworkWins, Says, Explicit, Telling, At
<1> QED
  BY RequestInvariance, <1>1, PTL

\* Types: what parse_402 and the handlers return, and the handler asked.
THEOREM PaymentTypeCorrect == PaymentSpec => []PaymentTypeOK
<1>1. PayInv /\ RequestInv => PaymentTypeOK
  <2> SUFFICES ASSUME PayInv, RequestInv PROVE PaymentTypeOK
    OBVIOUS
  <2>1. asked = <<>> \/ \E i \in 1..Len(handlers) : asked = <<handlers[i]>>
    BY DEF PayInv, FirstAt
  <2>2. \A i \in 1..Len(handlers) : handlers[i] \in Handlers
    BY DEF PayInv
  <2>3. asked \in Seq(Handlers)
    <3>1. \A h \in Handlers : <<h>> \in Seq(Handlers)
      OBVIOUS
    <3>2. <<>> \in Seq(Handlers)
      OBVIOUS
    <3> QED
      BY <2>1, <2>2, <3>1, <3>2, Zenon
  <2>4. outcome \in {None, "proof", "failed", "unavailable"}
    BY DEF PayInv
  <2> QED
    BY <2>3, <2>4 DEF PayInv, RequestInv, PaymentTypeOK
<1> QED
  BY PayInvariance, RequestInvariance, <1>1, PTL
=============================================================================
