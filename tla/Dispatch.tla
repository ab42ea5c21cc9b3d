----------------------------- MODULE Dispatch -----------------------------
(***************************************************************************)
(* How a proxied connection gets its tunnel: the picker closure of         *)
(* src/main.rs takes the pool's healthy list without waiting for the lock  *)
(* (Pool!healthy_transports_sync) and hands it to a Router                 *)
(* (src/router/mod.rs), which filters it once more and chooses.  Pickers   *)
(* are the connection tasks; Operators call the pool's other operations    *)
(* meanwhile, and any transport may be closed at any time.                 *)
(***************************************************************************)
EXTENDS Pool

CONSTANTS
    Pickers,        \* connection tasks, each running one pick at a time
    Calls,          \* the pool operations the other tasks make
    Strategy,       \* config.proxy.strategy
    CounterSize,    \* number of values of the AtomicUsize, 2^64 in the code
    MaxPicks        \* bound on the round-robin picks between two changes

Operators == Tasks \ Pickers

ASSUME DispatchAssumption ==
    /\ Pickers \subseteq Tasks
    /\ Calls \subseteq Ops
    /\ Strategy \in {"random", "round-robin"}
    /\ CounterSize \in Nat \ {0}
    /\ MaxPicks \in Nat

VARIABLES
    counter,        \* RoundRobinRouter.counter
    chosen,         \* the pick's result: <<t>>, or <<>> for NoHealthyTunnels
    \* history
    guarded,        \* did this pick get the read guard?
    poolAt,         \* the vector when it started
    upAt,           \* the transports healthy when router.pick was called
    gone,           \* ids removed and not added since
    goneAt,         \* ids removed before the pick started, not added since
    fresh,          \* neither pool nor health changed since the pick started
    served,         \* indices of the rotation used since the last change
    slack           \* picks since that change that used another list, plus
                    \* wrap-arounds of the counter

routerVars == <<counter, chosen>>
histVars == <<guarded, poolAt, upAt, gone, goneAt, fresh, served, slack>>
vars == <<poolVars, routerVars, histVars>>

PCs == {"idle", "locking", "scan", "done", "filter", "picked"}

\* Types; the round-robin counter stays an AtomicUsize (fetch_add wraps).
TypeOK ==
    /\ PoolTypeOK
    /\ pc \in [Tasks -> PCs]
    /\ counter \in 0..(CounterSize - 1)
    /\ chosen \in [Pickers -> Seq(Transports)]
    /\ guarded \in [Pickers -> BOOLEAN]
    /\ poolAt \in [Pickers -> Seq(Transports)]
    /\ upAt \in [Pickers -> SUBSET Transports]
    /\ gone \in SUBSET STRING
    /\ goneAt \in [Pickers -> SUBSET STRING]
    /\ fresh \in [Pickers -> BOOLEAN]
    /\ served \in Seq(Nat)
    /\ slack \in Nat

Init ==
    /\ PoolInit
    /\ counter = 0
    /\ chosen = [p \in Pickers |-> <<>>]
    /\ guarded = [p \in Pickers |-> FALSE]
    /\ poolAt = [p \in Pickers |-> <<>>]
    /\ upAt = [p \in Pickers |-> {}]
    /\ gone = {}
    /\ goneAt = [p \in Pickers |-> {}]
    /\ fresh = [p \in Pickers |-> FALSE]
    /\ served = <<>>
    /\ slack = 0

---------------------------------------------------------------------------
(* A pick, as a connection task runs it.                                   *)

Active == {p \in Pickers : pc[p] # "idle"}

\* The closure calls pool.healthy_transports_sync(); the scan follows.
BeginPick(p) ==
    /\ Len(served) + slack + Cardinality(Active) < MaxPicks
    /\ TryScan(p)
    /\ guarded' = [guarded EXCEPT ![p] = CanRead(lock)]
    /\ poolAt' = [poolAt EXCEPT ![p] = transports]
    /\ goneAt' = [goneAt EXCEPT ![p] = gone]
    /\ fresh' = [fresh EXCEPT ![p] = (Strategy = "round-robin")]
    /\ UNCHANGED <<routerVars, upAt, gone, served, slack>>

PickScan(p) ==
    /\ FilterHealthy(p) \/ EndScan(p)
    /\ UNCHANGED <<routerVars, histVars>>

\* router.pick is called with the list; it filters it again.
BeginRoute(p) ==
    /\ pc[p] = "done"
    /\ pc' = [pc EXCEPT ![p] = "filter"]
    /\ upAt' = [upAt EXCEPT ![p] = {t \in Transports : health[t]}]
    /\ UNCHANGED <<transports, health, lock, op, arg, idx, list, ret,
                   routerVars, guarded, poolAt, gone, goneAt, fresh, served,
                   slack>>

\* A mutation: the router trusts the list it is given.
RouterTrusts(ts, t) == Append(ts, t)

RouterKeeps(ts, t) == IF health[t] THEN Append(ts, t) ELSE ts

RouteFilter(p) ==
    /\ pc[p] = "filter"
    /\ idx[p] <= Len(ret[p].ts)
    /\ list' = [list EXCEPT ![p] = RouterKeeps(@, ret[p].ts[idx[p]])]
    /\ idx' = [idx EXCEPT ![p] = @ + 1]
    /\ UNCHANGED <<transports, health, lock, pc, op, arg, ret,
                   routerVars, histVars>>

Filtered(p) == pc[p] = "filter" /\ idx[p] > Len(ret[p].ts)

Deliver(p, result) ==
    /\ pc' = [pc EXCEPT ![p] = "picked"]
    /\ chosen' = [chosen EXCEPT ![p] = result]
    /\ UNCHANGED <<transports, health, lock, op, arg, idx, list, ret,
                   guarded, poolAt, upAt, gone, goneAt, fresh>>

\* Both routers: an empty list is Error::NoHealthyTunnels.
NoHealthyTunnels(p) ==
    /\ Filtered(p) /\ list[p] = <<>>
    /\ Deliver(p, <<>>)
    /\ UNCHANGED <<counter, served, slack>>

RandomPick(p) ==
    /\ Filtered(p) /\ list[p] # <<>>
    /\ Strategy = "random"
    /\ \E i \in 1..Len(list[p]) : Deliver(p, <<list[p][i]>>)
    /\ UNCHANGED <<counter, served, slack>>

\* Mutations: the counter is loaded but not advanced; it does not wrap.
AdvanceNever(c) == c
AdvanceUnbounded(c) == c + 1

Advance(c) == (c + 1) % CounterSize

\* fetch_add wraps around; the index is the old value modulo the length.
RoundRobinPick(p) ==
    LET i == counter % Len(list[p])
    IN  /\ Filtered(p) /\ list[p] # <<>>
        /\ Strategy = "round-robin"
        /\ Deliver(p, <<list[p][i + 1]>>)
        /\ counter' = Advance(counter)
        /\ served' = IF fresh[p] THEN Append(served, i) ELSE served
        /\ slack' = slack + (IF fresh[p] THEN 0 ELSE 1)
                          + (IF counter + 1 = CounterSize THEN 1 ELSE 0)

\* The connection that asked has its answer; the task may serve another.
EndPick(p) ==
    /\ pc[p] = "picked"
    /\ pc' = [pc EXCEPT ![p] = "idle"]
    /\ op' = [op EXCEPT ![p] = "len"]
    /\ idx' = [idx EXCEPT ![p] = 1]
    /\ list' = [list EXCEPT ![p] = <<>>]
    /\ ret' = [ret EXCEPT ![p] = NoAnswer]
    /\ chosen' = [chosen EXCEPT ![p] = <<>>]
    /\ guarded' = [guarded EXCEPT ![p] = FALSE]
    /\ poolAt' = [poolAt EXCEPT ![p] = <<>>]
    /\ upAt' = [upAt EXCEPT ![p] = {}]
    /\ goneAt' = [goneAt EXCEPT ![p] = {}]
    /\ fresh' = [fresh EXCEPT ![p] = FALSE]
    /\ UNCHANGED <<transports, health, lock, arg, counter, gone, served, slack>>

PickStep(p) ==
    \/ PickScan(p) \/ BeginRoute(p) \/ RouteFilter(p)
    \/ NoHealthyTunnels(p) \/ RandomPick(p) \/ RoundRobinPick(p) \/ EndPick(p)

---------------------------------------------------------------------------
(* Everyone else.                                                          *)

\* The pool or a health flag changed: a new window of the rotation begins.
Changed ==
    /\ fresh' = [p \in Pickers |-> FALSE]
    /\ served' = <<>>
    /\ slack' = 0
    /\ UNCHANGED <<routerVars, guarded, poolAt, upAt>>

OpCall(k) ==
    /\ \E o \in Calls, t \in Transports : Call(k, o, t)
    /\ UNCHANGED <<routerVars, histVars>>

OpAdd(k) ==
    /\ Add(k)
    /\ Changed
    /\ gone' = gone \ {IdOf[arg[k]]}
    /\ goneAt' = [p \in Pickers |-> goneAt[p] \ {IdOf[arg[k]]}]

OpRemove(k) ==
    /\ Remove(k)
    /\ Changed
    /\ gone' = gone \cup {IdOf[arg[k]]}
    /\ UNCHANGED goneAt

OpRead(k) ==
    /\ \/ Get(k) \/ Length(k) \/ IsEmpty(k) \/ All(k)
       \/ BeginScan(k) \/ FilterHealthy(k) \/ EndScan(k)
    /\ UNCHANGED <<routerVars, histVars>>

OpReturn(k) == Return(k) /\ UNCHANGED <<routerVars, histVars>>

OpStep(k) == OpAdd(k) \/ OpRemove(k) \/ OpRead(k) \/ OpReturn(k)

CloseTransport(t) ==
    /\ Close(t)
    /\ Changed
    /\ UNCHANGED <<gone, goneAt>>

Next ==
    \/ \E p \in Pickers : BeginPick(p) \/ PickStep(p)
    \/ \E k \in Operators : OpCall(k) \/ OpStep(k)
    \/ \E t \in Transports : CloseTransport(t)

Spec == Init /\ [][Next]_vars

---------------------------------------------------------------------------
(* Properties.                                                             *)

\* While a pick scans the vector under its read guard (pool/mod.rs,
\* filter_healthy) it sees the vector it started on, whatever add and remove
\* calls run meanwhile: the guard excludes writers.
ScanStable ==
    \A p \in Pickers : pc[p] = "scan" => transports = poolAt[p]

\* A pick returns an entry the pool held when the pick started, and one that
\* was still healthy when router.pick was called with it: a transport closed
\* before that is not returned by the second filter.
PickedFromPool ==
    \A p \in Pickers : pc[p] = "picked" =>
        Entries(chosen[p]) \subseteq Entries(poolAt[p]) \cap upAt[p]

\* A pick that starts after remove(id) took effect does not return a
\* transport with that id, unless add brought the id back: retain drops every
\* entry of the id, also when several share it.
RemovedNotPicked ==
    \A p \in Pickers : pc[p] = "picked" =>
        \A t \in Entries(chosen[p]) : IdOf[t] \notin goneAt[p]

\* NoHealthyTunnels is only reported when the lock was contended or every
\* transport the pool held is unhealthy.
FailureJustified ==
    \A p \in Pickers :
        pc[p] = "picked" /\ chosen[p] = <<>> /\ guarded[p] =>
            \A t \in Entries(poolAt[p]) : ~health[t]

HealthyCount == Cardinality({i \in 1..Len(transports) : health[transports[i]]})

Uses(i) == Cardinality({n \in 1..Len(served) : served[n] = i})

\* Round robin shares out the picks evenly: between two changes of the pool,
\* two healthy entries get the same number of picks give or take one, plus
\* one for each concurrent pick that was still using an older list and for
\* each wrap-around of the counter.
RoundRobinBalanced ==
    \A i, j \in 0..(HealthyCount - 1) : Uses(i) <= Uses(j) + 1 + slack
===========================================================================
