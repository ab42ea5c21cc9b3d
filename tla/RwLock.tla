------------------------------ MODULE RwLock ------------------------------
(***************************************************************************)
(* tokio::sync::RwLock as the pool uses it: a fair semaphore.  A read      *)
(* guard takes one permit, a write guard takes all of them, callers that   *)
(* cannot be served wait in one FIFO queue, and a queued caller keeps      *)
(* later callers (try_read included) from overtaking it.  The module has   *)
(* no variables: its operators take and return a lock record.              *)
(***************************************************************************)
EXTENDS Naturals, Sequences, FiniteSetsExt

Modes == {"read", "write"}

Waiters(K) == Seq([task : K, mode : Modes])

LockType(K) == [readers : SUBSET K, writers : SUBSET K, waiters : Waiters(K)]

Unlocked == [readers |-> {}, writers |-> {}, waiters |-> <<>>]

Holders(l) == l.readers \cup l.writers

\* A mutation: readers overtake queued writers.
CanReadOvertaking(l) == l.writers = {}

\* Is a read permit free?  A queued writer has already claimed the free ones.
CanRead(l) == l.writers = {} /\ l.waiters = <<>>

CanWrite(l) == Holders(l) = {} /\ l.waiters = <<>>

\* try_read: never waits; the caller holds the guard iff CanRead(l).
TryRead(l, k) == IF CanRead(l) THEN [l EXCEPT !.readers = @ \cup {k}] ELSE l

Enqueue(l, k, m) ==
    [l EXCEPT !.waiters = Append(@, [task |-> k, mode |-> m])]

\* read().await and write().await: served at once or queued.
ReadLock(l, k) ==
    IF CanRead(l) THEN [l EXCEPT !.readers = @ \cup {k}]
                  ELSE Enqueue(l, k, "read")

WriteLock(l, k) ==
    IF CanWrite(l) THEN [l EXCEPT !.writers = @ \cup {k}]
                   ELSE Enqueue(l, k, "write")

\* How many waiters at the head of the queue can share the lock as readers.
LeadingReaders(q) ==
    Max({n \in 0..Len(q) : \A i \in 1..n : q[i].mode = "read"})

\* The lock has become free: the head of the queue gets it, and with a
\* reader every reader queued directly behind it.
Grant(l) ==
    LET q == l.waiters
        n == LeadingReaders(q)
    IN  CASE q = <<>>               -> l
          [] q # <<>> /\ n = 0      -> [l EXCEPT !.writers = {q[1].task},
                                                 !.waiters = Tail(q)]
          [] q # <<>> /\ n # 0      ->
                [l EXCEPT !.readers = {q[i].task : i \in 1..n},
                          !.waiters = SubSeq(q, n + 1, Len(q))]

\* Dropping a guard.
Unlock(l, k) ==
    LET m == [l EXCEPT !.readers = @ \ {k}, !.writers = @ \ {k}]
    IN  IF Holders(m) = {} THEN Grant(m) ELSE m
===========================================================================
