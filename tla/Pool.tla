------------------------------- MODULE Pool -------------------------------
(***************************************************************************)
(* src/pool/mod.rs: the tunnel pool, a vector of transports behind an      *)
(* RwLock, called by concurrent tasks.  A call is several steps: ask for   *)
(* the guard, work under it, release it.  A scan of the vector reads one   *)
(* transport's health flag per step, because the flags are atomics that    *)
(* other tasks may store to meanwhile.                                     *)
(*                                                                         *)
(* Health: a pooled transport is an Arc<dyn Transport>.  provision() needs *)
(* &mut self, so it cannot be called any more, and close() is the only     *)
(* operation left that changes the flag: it clears it.                     *)
(***************************************************************************)
EXTENDS RwLock, FiniteSets

CONSTANTS
    Transports,     \* the transport objects (Arcs) of the process
    IdOf,           \* their id(); nothing in the code makes ids distinct
    InitPool,       \* the vector main.rs builds before serving
    Tasks           \* the tasks that call the pool

ASSUME PoolAssumption ==
    /\ IdOf \in [Transports -> STRING]
    /\ InitPool \in Seq(Transports)
    /\ Transports # {}

VARIABLES
    transports,     \* Pool.transports
    health,         \* each transport's healthy flag
    lock,           \* the RwLock
    pc,             \* where each task is in its call
    op, arg,        \* the call and its argument (add: a transport; remove
                    \* and get: the id of that transport)
    idx, list,      \* position of the scan, and the Vec it builds
    ret             \* what the call returned

poolVars == <<transports, health, lock, pc, op, arg, idx, list, ret>>

WriteOps == {"add", "remove"}
ScanOps  == {"healthy_transports", "status_summary"}
ReadOps  == ScanOps \cup {"get", "len", "is_empty", "all"}
Ops      == WriteOps \cup ReadOps

Answer(found, total, ts) == [found |-> found, total |-> total, ts |-> ts]
NoAnswer == Answer(FALSE, 0, <<>>)
Answers  == [found : BOOLEAN, total : Nat, ts : Seq(Transports)]

AnyTransport == CHOOSE t \in Transports : TRUE

PoolTypeOK ==
    /\ transports \in Seq(Transports)
    /\ health \in [Transports -> BOOLEAN]
    /\ lock \in LockType(Tasks)
    /\ op \in [Tasks -> Ops]
    /\ arg \in [Tasks -> Transports]
    /\ idx \in [Tasks -> Nat]
    /\ list \in [Tasks -> Seq(Transports)]
    /\ ret \in [Tasks -> Answers]

\* Pool::new.  The health flags are whatever the constructors left: true
\* for socks5, http-proxy and tor, false for wireguard and sentinel.
PoolInit ==
    /\ transports = InitPool
    /\ health \in [Transports -> BOOLEAN]
    /\ lock = Unlocked
    /\ pc = [k \in Tasks |-> "idle"]
    /\ op = [k \in Tasks |-> "len"]
    /\ arg = [k \in Tasks |-> AnyTransport]
    /\ idx = [k \in Tasks |-> 1]
    /\ list = [k \in Tasks |-> <<>>]
    /\ ret = [k \in Tasks |-> NoAnswer]

Entries(ts) == {ts[i] : i \in 1..Len(ts)}

\* A caller of add brings a transport it has just built.
IsNew(t) ==
    /\ t \notin Entries(transports)
    /\ \A k \in Tasks : pc[k] = "locking" /\ op[k] = "add" => arg[k] # t

TakesArg == {"add", "remove", "get"}

\* A task calls an async pool operation: it gets the guard or waits for it.
Call(k, o, t) ==
    /\ pc[k] = "idle"
    /\ o = "add" => IsNew(t)
    /\ o \notin TakesArg => t = AnyTransport
    /\ lock' = IF o \in WriteOps THEN WriteLock(lock, k) ELSE ReadLock(lock, k)
    /\ pc' = [pc EXCEPT ![k] = "locking"]
    /\ op' = [op EXCEPT ![k] = o]
    /\ arg' = [arg EXCEPT ![k] = t]
    /\ UNCHANGED <<transports, health, idx, list, ret>>

\* The last step of a call: drop the guard, return the answer.
Finish(k, answer) ==
    /\ lock' = Unlock(lock, k)
    /\ pc' = [pc EXCEPT ![k] = "done"]
    /\ ret' = [ret EXCEPT ![k] = answer]

\* A mutation: remove drops the first entry with the id only.
KeptButFirst(ts, id) ==
    {i \in 1..Len(ts) :
        IdOf[ts[i]] # id \/ \E j \in 1..(i - 1) : IdOf[ts[j]] = id}

\* The positions Vec::retain keeps, and the order it keeps them in.
Kept(ts, id) == {i \in 1..Len(ts) : IdOf[ts[i]] # id}

Ascending(P) ==
    {f \in [1..Cardinality(P) -> P] :
        \A m, n \in DOMAIN f : m < n => f[m] < f[n]}

\* A mutation: add and remove do not wait for the write guard.
WritingUnlocked(k, o) == pc[k] = "locking" /\ op[k] = o

Writing(k, o) == pc[k] = "locking" /\ k \in lock.writers /\ op[k] = o
Reading(k, o) == pc[k] = "locking" /\ k \in lock.readers /\ op[k] = o

Add(k) ==
    /\ Writing(k, "add")
    /\ transports' = Append(transports, arg[k])
    /\ Finish(k, NoAnswer)
    /\ UNCHANGED <<health, op, arg, idx, list>>

Remove(k) ==
    /\ Writing(k, "remove")
    /\ \E f \in Ascending(Kept(transports, IdOf[arg[k]])) :
          /\ transports' = [n \in DOMAIN f |-> transports[f[n]]]
          /\ Finish(k, Answer(Len(transports') < Len(transports), 0, <<>>))
    /\ UNCHANGED <<health, op, arg, idx, list>>

\* The reads that look at the vector once and at no health flag.
Get(k) ==
    LET hits == {i \in 1..Len(transports) : IdOf[transports[i]] = IdOf[arg[k]]}
    IN  /\ Reading(k, "get")
        /\ \/ hits = {} /\ Finish(k, NoAnswer)
           \/ \E i \in hits :
                 /\ \A j \in hits : i <= j
                 /\ Finish(k, Answer(TRUE, 0, <<transports[i]>>))
        /\ UNCHANGED <<transports, health, op, arg, idx, list>>

Length(k) ==
    /\ Reading(k, "len")
    /\ Finish(k, Answer(FALSE, Len(transports), <<>>))
    /\ UNCHANGED <<transports, health, op, arg, idx, list>>

IsEmpty(k) ==
    /\ Reading(k, "is_empty")
    /\ Finish(k, Answer(transports = <<>>, 0, <<>>))
    /\ UNCHANGED <<transports, health, op, arg, idx, list>>

All(k) ==
    /\ Reading(k, "all")
    /\ Finish(k, Answer(FALSE, 0, transports))
    /\ UNCHANGED <<transports, health, op, arg, idx, list>>

\* The loops over the vector that read health flags: filter_healthy, and
\* the counting loop of status_summary.
BeginScan(k) ==
    /\ pc[k] = "locking" /\ k \in lock.readers /\ op[k] \in ScanOps
    /\ pc' = [pc EXCEPT ![k] = "scan"]
    /\ UNCHANGED <<transports, health, lock, op, arg, idx, list, ret>>

\* healthy_transports_sync: try_read never waits; without a guard the call
\* returns an empty Vec.
TryScan(k) ==
    /\ pc[k] = "idle"
    /\ lock' = TryRead(lock, k)
    /\ pc' = [pc EXCEPT ![k] = IF CanRead(lock) THEN "scan" ELSE "done"]
    /\ op' = [op EXCEPT ![k] = "healthy_transports"]
    /\ UNCHANGED <<transports, health, arg, idx, list, ret>>

KeepIfHealthy(ts, t) == IF health[t] THEN Append(ts, t) ELSE ts

FilterHealthy(k) ==
    /\ pc[k] = "scan"
    /\ idx[k] <= Len(transports)
    /\ list' = [list EXCEPT ![k] = KeepIfHealthy(@, transports[idx[k]])]
    /\ idx' = [idx EXCEPT ![k] = @ + 1]
    /\ UNCHANGED <<transports, health, lock, pc, op, arg, ret>>

\* A mutation: the scan stops one entry early.
ScanDoneEarly(k) == idx[k] >= Len(transports)

ScanDone(k) == idx[k] > Len(transports)

EndScan(k) ==
    /\ pc[k] = "scan"
    /\ ScanDone(k)
    /\ Finish(k, Answer(FALSE, Len(transports), list[k]))
    /\ idx' = [idx EXCEPT ![k] = 1]
    /\ list' = [list EXCEPT ![k] = <<>>]
    /\ UNCHANGED <<transports, health, op, arg>>

\* The caller has used the answer; the call's locals go out of scope.
Return(k) ==
    /\ pc[k] = "done"
    /\ pc' = [pc EXCEPT ![k] = "idle"]
    /\ op' = [op EXCEPT ![k] = "len"]
    /\ arg' = [arg EXCEPT ![k] = AnyTransport]
    /\ idx' = [idx EXCEPT ![k] = 1]
    /\ list' = [list EXCEPT ![k] = <<>>]
    /\ ret' = [ret EXCEPT ![k] = NoAnswer]
    /\ UNCHANGED <<transports, health, lock>>

\* Transport::close, on any Arc, pooled or not.
Close(t) ==
    /\ health[t]
    /\ health' = [health EXCEPT ![t] = FALSE]
    /\ UNCHANGED <<transports, lock, pc, op, arg, idx, list, ret>>
===========================================================================
