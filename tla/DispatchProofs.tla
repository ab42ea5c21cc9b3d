-------------------------- MODULE DispatchProofs --------------------------
(***************************************************************************)
(* Proofs about Dispatch, for any number of tasks, transports and entries, *)
(* any ids, either strategy and any counter width.                         *)
(***************************************************************************)
EXTENDS Dispatch, FiniteSetTheorems, SequenceTheorems, WellFoundedInduction, TLAPS

---------------------------------------------------------------------------
(* What the operators of RwLock guarantee of any lock record: the type,    *)
(* mutual exclusion, and that a reader keeps its guard until it drops it.  *)

\* A writer excludes readers and other writers.
Exclusive(l) ==
    /\ l.writers # {} => l.readers = {}
    /\ \A j, k \in l.writers : j = k

LockOK(l, K) == l \in LockType(K) /\ Exclusive(l)

\* A non-empty set of naturals has a least element.
LEMMA LeastNat ==
    ASSUME NEW S, S \subseteq Nat, S # {}
    PROVE  \E x \in S : \A y \in S : x <= y
<1> DEFINE R == OpToRel(<, Nat)
<1>1. PICK x \in S : \A y \in S : ~(<<y, x>> \in R)
  <2>1. IsWellFoundedOn(R, Nat)
    BY NatLessThanWellFounded
  <2>2. QED
    BY <2>1, WFMin
<1>2. \A y \in S : ~(y < x)
  BY <1>1 DEF OpToRel
<1>3. QED
  BY <1>2

\* The number of readers at the head of the queue is a prefix length.
LEMMA LeadingReadersType ==
    ASSUME NEW K, NEW q \in Waiters(K)
    PROVE  LeadingReaders(q) \in 0..Len(q)
<1> DEFINE S == {n \in 0..Len(q) : \A i \in 1..n : q[i].mode = "read"}
           T == {Len(q) - n : n \in S}
<1>1. Len(q) \in Nat
  BY DEF Waiters
<1>2. 0 \in S
  BY <1>1
<1>3. T \subseteq Nat /\ T # {}
  BY <1>1, <1>2
<1>4. PICK x \in T : \A y \in T : x <= y
  BY <1>3, LeastNat
<1>5. PICK m \in S : x = Len(q) - m
  OBVIOUS
<1>6. \A n \in S : m >= n
  <2> SUFFICES ASSUME NEW n \in S PROVE m >= n
    OBVIOUS
  <2>1. Len(q) - n \in T
    OBVIOUS
  <2>2. Len(q) - m <= Len(q) - n
    BY <1>4, <1>5, <2>1
  <2>3. QED
    BY <1>1, <2>2
<1>7. Max(S) \in S
  BY <1>6 DEF Max
<1>8. QED
  BY <1>7 DEF LeadingReaders

\* A new lock is well formed and held by nobody.
LEMMA UnlockedOK == ASSUME NEW K PROVE LockOK(Unlocked, K)
BY DEF LockOK, LockType, Exclusive, Unlocked, Waiters

\* Joining the queue changes nobody's guard.
LEMMA EnqueueOK ==
    ASSUME NEW K, NEW l, LockOK(l, K), NEW k \in K, NEW m \in Modes
    PROVE  /\ LockOK(Enqueue(l, k, m), K)
           /\ Enqueue(l, k, m).readers = l.readers
           /\ Enqueue(l, k, m).writers = l.writers
<1> DEFINE w == [task |-> k, mode |-> m]
<1>1. l \in [readers : SUBSET K, writers : SUBSET K, waiters : Waiters(K)]
  BY DEF LockOK, LockType
<1>2. w \in [task : K, mode : Modes]
  OBVIOUS
<1>3. Append(l.waiters, w) \in Waiters(K)
  BY <1>1, <1>2, AppendProperties DEF Waiters
<1>4. QED
  BY <1>1, <1>3 DEF LockOK, LockType, Exclusive, Enqueue

\* Asking for a guard, waiting or not, takes none away and never breaks
\* the exclusion.
LEMMA LockingOK ==
    ASSUME NEW K, NEW l, LockOK(l, K), NEW k \in K
    PROVE  /\ LockOK(TryRead(l, k), K) /\ l.readers \subseteq TryRead(l, k).readers
           /\ LockOK(ReadLock(l, k), K) /\ l.readers \subseteq ReadLock(l, k).readers
           /\ LockOK(WriteLock(l, k), K) /\ l.readers \subseteq WriteLock(l, k).readers
<1>1. l \in [readers : SUBSET K, writers : SUBSET K, waiters : Waiters(K)]
  BY DEF LockOK, LockType
<1>2. "read" \in Modes /\ "write" \in Modes
  BY DEF Modes
<1> DEFINE r == [l EXCEPT !.readers = @ \cup {k}]
           w == [l EXCEPT !.writers = @ \cup {k}]
<1>3. CanRead(l) => LockOK(r, K) /\ l.readers \subseteq r.readers
  BY <1>1 DEF CanRead, LockOK, LockType, Exclusive
<1>4. CanWrite(l) => LockOK(w, K) /\ l.readers \subseteq w.readers
  BY <1>1 DEF CanWrite, Holders, LockOK, LockType, Exclusive
<1>5. LockOK(TryRead(l, k), K) /\ l.readers \subseteq TryRead(l, k).readers
  BY <1>3 DEF TryRead
<1>6. LockOK(ReadLock(l, k), K) /\ l.readers \subseteq ReadLock(l, k).readers
  BY <1>2, <1>3, EnqueueOK DEF ReadLock
<1>7. LockOK(WriteLock(l, k), K) /\ l.readers \subseteq WriteLock(l, k).readers
  BY <1>2, <1>4, EnqueueOK DEF WriteLock
<1>8. QED
  BY <1>5, <1>6, <1>7

\* Handing a free lock on makes one writer, or readers only, its holder.
LEMMA GrantOK ==
    ASSUME NEW K, NEW l, LockOK(l, K), Holders(l) = {}
    PROVE  LockOK(Grant(l), K)
<1> DEFINE q == l.waiters
           n == LeadingReaders(q)
<1>1. /\ l \in [readers : SUBSET K, writers : SUBSET K, waiters : Waiters(K)]
      /\ l.readers = {} /\ l.writers = {}
  BY DEF LockOK, LockType, Holders
<1>2. q \in Seq([task : K, mode : Modes]) /\ Len(q) \in Nat
  BY <1>1 DEF Waiters
<1>3. n \in 0..Len(q)
  BY <1>1, LeadingReadersType
<1>4. \A i \in 1..Len(q) : q[i].task \in K
  <2> SUFFICES ASSUME NEW i \in 1..Len(q) PROVE q[i].task \in K
    OBVIOUS
  <2>1. q[i] \in [task : K, mode : Modes]
    BY <1>2, ElementOfSeq
  <2>2. QED
    BY <2>1
<1>5. CASE q = <<>>
  BY <1>5 DEF Grant
<1>6. CASE q # <<>> /\ n = 0
  <2>1. Tail(q) \in Waiters(K) /\ q[1].task \in K
    BY <1>2, <1>4, <1>6, HeadTailProperties DEF Waiters
  <2>2. Grant(l) = [l EXCEPT !.writers = {q[1].task}, !.waiters = Tail(q)]
    BY <1>6 DEF Grant
  <2>3. QED
    BY <1>1, <2>1, <2>2 DEF LockOK, LockType, Exclusive
<1>7. CASE q # <<>> /\ n # 0
  <2> DEFINE rs == {q[i].task : i \in 1..n}
             ws == SubSeq(q, n + 1, Len(q))
  <2>1. rs \in SUBSET K
    BY <1>2, <1>3, <1>4
  <2>2. ws \in Waiters(K)
    <3> DEFINE W == [task : K, mode : Modes]
    <3> HIDE DEF W, q, n
    <3>1. n + 1 \in 1..(Len(q) + 1)
      BY <1>2, <1>3
    <3>2. \A i \in (n + 1)..Len(q) : i \in 1..Len(q)
      BY <1>2, <1>3
    <3>3. q \in Seq(W)
      BY <1>2 DEF W
    <3>4. SubSeq(q, n + 1, Len(q)) \in Seq(W)
      BY <1>2, <3>1, <3>2, <3>3, SubSeqProperties
    <3>5. QED
      BY <3>4 DEF Waiters, W
  <2>3. Grant(l) = [l EXCEPT !.readers = rs, !.waiters = ws]
    BY <1>7 DEF Grant
  <2>4. QED
    BY <1>1, <2>1, <2>2, <2>3 DEF LockOK, LockType, Exclusive
<1>8. QED
  BY <1>5, <1>6, <1>7

\* Dropping a guard keeps the exclusion, and every other reader its guard.
LEMMA UnlockOK ==
    ASSUME NEW K, NEW l, LockOK(l, K), NEW k \in K
    PROVE  /\ LockOK(Unlock(l, k), K)
           /\ \A j \in l.readers : j # k => j \in Unlock(l, k).readers
<1> DEFINE m == [l EXCEPT !.readers = @ \ {k}, !.writers = @ \ {k}]
<1>1. l \in [readers : SUBSET K, writers : SUBSET K, waiters : Waiters(K)]
  BY DEF LockOK, LockType
<1>2. LockOK(m, K) /\ m.readers = l.readers \ {k}
  BY <1>1 DEF LockOK, LockType, Exclusive
<1>3. Unlock(l, k) = IF Holders(m) = {} THEN Grant(m) ELSE m
  BY DEF Unlock
<1>4. CASE Holders(m) = {}
  <2>1. LockOK(Grant(m), K)
    BY <1>2, <1>4, GrantOK
  <2>2. \A j \in l.readers : j = k
    BY <1>2, <1>4 DEF Holders
  <2>3. QED
    BY <1>3, <1>4, <2>1, <2>2
<1>5. CASE Holders(m) # {}
  BY <1>2, <1>3, <1>5
<1>6. QED
  BY <1>4, <1>5

---------------------------------------------------------------------------
(* The inductive invariant.                                                *)

\* A scan's position is a position of the vector, or one beyond it.
IdxPositive == \A k \in Tasks : idx[k] >= 1

\* Under the read guard the vector is the one the pick started on; the list
\* built so far holds only its entries, and every one passed that is still
\* healthy.
Scanning(p) ==
    pc[p] = "scan" =>
        /\ p \in lock.readers
        /\ transports = poolAt[p]
        /\ Entries(list[p]) \subseteq Entries(poolAt[p])
        /\ \A i \in 1..Len(transports) :
              i < idx[p] /\ health[transports[i]] =>
                  transports[i] \in Entries(list[p])

\* The answer holds entries of that vector, and, if the guard was obtained,
\* all those still healthy.
Answered(p) ==
    pc[p] \in {"done", "filter"} =>
        /\ Entries(ret[p].ts) \subseteq Entries(poolAt[p])
        /\ guarded[p] => \A t \in Entries(poolAt[p]) :
                             health[t] => t \in Entries(ret[p].ts)

\* Whatever is healthy now was healthy when router.pick was called; the
\* router's own list is to the answer what the answer was to the vector.
Routing(p) ==
    pc[p] = "filter" =>
        /\ \A t \in Transports : health[t] => t \in upAt[p]
        /\ Entries(list[p]) \subseteq Entries(ret[p].ts) \cap upAt[p]
        /\ \A i \in 1..Len(ret[p].ts) :
              i < idx[p] /\ health[ret[p].ts[i]] =>
                  ret[p].ts[i] \in Entries(list[p])

Picked(p) ==
    pc[p] = "picked" =>
        /\ Entries(chosen[p]) \subseteq Entries(poolAt[p]) \cap upAt[p]
        /\ chosen[p] = <<>> /\ guarded[p] =>
              \A t \in Entries(poolAt[p]) : ~health[t]

\* The locals of a task that is between two loops.
Clean(p) ==
    /\ pc[p] \in {"idle", "done"} => list[p] = <<>> /\ idx[p] = 1
    /\ pc[p] \in {"idle", "scan"} => ret[p] = NoAnswer

PickOK(p) == Clean(p) /\ Scanning(p) /\ Answered(p) /\ Routing(p) /\ Picked(p)

\* No entry has an id that was removed and not added since.
GoneOK ==
    /\ \A t \in Entries(transports) : IdOf[t] \notin gone
    /\ \A p \in Pickers : \A t \in Entries(poolAt[p]) : IdOf[t] \notin goneAt[p]

Basics == TypeOK /\ LockOK(lock, Tasks) /\ IdxPositive

IInv == Basics /\ GoneOK /\ \A p \in Pickers : PickOK(p)

---------------------------------------------------------------------------
(* Lemmas about the operators.                                             *)

\* The entries of a sequence over Transports are transports.
LEMMA EntriesFacts ==
    /\ Entries(<<>>) = {}
    /\ \A t \in Transports : Entries(<<t>>) = {t}
    /\ \A s \in Seq(Transports) : Entries(s) \subseteq Transports
BY DEF Entries

\* Appending to a list adds one entry and keeps the others.
LEMMA EntriesAppend ==
    ASSUME NEW s \in Seq(Transports), NEW t \in Transports
    PROVE  /\ Append(s, t) \in Seq(Transports)
           /\ Entries(Append(s, t)) = Entries(s) \cup {t}
<1> DEFINE a == Append(s, t)
<1>1. a \in Seq(Transports) /\ Len(a) = Len(s) + 1 /\ Len(s) \in Nat
  OBVIOUS
<1>2. \A i \in 1..Len(s) : a[i] = s[i]
  OBVIOUS
<1>3. a[Len(s) + 1] = t
  OBVIOUS
<1> HIDE DEF a
<1>4. Entries(a) \subseteq Entries(s) \cup {t}
  <2> SUFFICES ASSUME NEW i \in 1..Len(a) PROVE a[i] \in Entries(s) \cup {t}
    BY DEF Entries
  <2>1. i \in 1..Len(s) \/ i = Len(s) + 1
    BY <1>1
  <2>2. QED
    BY <1>2, <1>3, <2>1 DEF Entries
<1>5. Entries(s) \subseteq Entries(a)
  <2> SUFFICES ASSUME NEW i \in 1..Len(s) PROVE s[i] \in Entries(a)
    BY DEF Entries
  <2>1. i \in 1..Len(a) /\ a[i] = s[i]
    BY <1>1, <1>2
  <2>2. QED
    BY <2>1 DEF Entries
<1>6. t \in Entries(a)
  <2>1. Len(s) + 1 \in 1..Len(a)
    BY <1>1
  <2>2. QED
    BY <1>3, <2>1 DEF Entries
<1>7. QED
  BY <1>1, <1>4, <1>5, <1>6 DEF a

\* The vector that retain leaves: a sequence of transports, of old entries
\* only, none with the id.
LEMMA RetainFacts ==
    ASSUME TypeOK, NEW id, NEW f \in Ascending(Kept(transports, id)),
           NEW ts, ts = [n \in DOMAIN f |-> transports[f[n]]]
    PROVE  /\ ts \in Seq(Transports)
           /\ \A t \in Entries(ts) : t \in Entries(transports) /\ IdOf[t] # id
<1> DEFINE P == Kept(transports, id)
           c == Cardinality(P)
<1>1. Len(transports) \in Nat /\ \A i \in 1..Len(transports) : transports[i] \in Transports
  BY DEF TypeOK, PoolTypeOK
<1>2. c \in Nat
  <2>1. \A i \in P : i <= Len(transports)
    BY <1>1 DEF Kept
  <2>2. P \in SUBSET Nat
    BY <1>1 DEF Kept
  <2>3. IsFiniteSet(P)
    BY <1>1, <2>1, <2>2, FS_BoundedSetOfNaturals
  <2>4. QED
    BY <2>3, FS_CardinalityType
<1>3. f \in [1..c -> P]
  BY DEF Ascending
<1>4. \A n \in 1..c : f[n] \in 1..Len(transports) /\ IdOf[transports[f[n]]] # id
  BY <1>3 DEF Kept
<1>5. ts = [n \in 1..c |-> transports[f[n]]]
  BY <1>3
<1>6. \A n \in 1..c : transports[f[n]] \in Transports
  BY <1>1, <1>4
<1>7. ts \in Seq(Transports) /\ Len(ts) = c
  BY <1>2, <1>5, <1>6
<1>8. ASSUME NEW n \in 1..c
      PROVE  ts[n] \in Entries(transports) /\ IdOf[ts[n]] # id
  BY <1>4, <1>5 DEF Entries
<1>9. QED
  BY <1>7, <1>8 DEF Entries

---------------------------------------------------------------------------
(* Types, the lock and the scan positions.                                 *)

\* What TypeOK says of the vector and of one task.
LEMMA Types ==
    ASSUME TypeOK
    PROVE  /\ transports \in Seq(Transports) /\ Len(transports) \in Nat
           /\ \A i \in 1..Len(transports) : transports[i] \in Transports
           /\ \A k \in Tasks :
                 /\ arg[k] \in Transports /\ idx[k] \in Nat
                 /\ list[k] \in Seq(Transports) /\ Len(list[k]) \in Nat
                 /\ ret[k].ts \in Seq(Transports) /\ Len(ret[k].ts) \in Nat
                 /\ \A i \in 1..Len(list[k]) : list[k][i] \in Transports
                 /\ \A i \in 1..Len(ret[k].ts) : ret[k].ts[i] \in Transports
           /\ Pickers \subseteq Tasks
BY DispatchAssumption DEF TypeOK, PoolTypeOK, DispatchAssumption, Answers

\* The end of a call: the guard is dropped, the answer stored.
LEMMA FinishBasics ==
    ASSUME Basics, NEW k \in Tasks, NEW a \in Answers, Finish(k, a)
    PROVE  /\ LockOK(lock', Tasks)
           /\ lock' \in LockType(Tasks)
           /\ pc' \in [Tasks -> PCs]
           /\ ret' \in [Tasks -> Answers]
<1>1. LockOK(lock', Tasks)
  BY UnlockOK DEF Basics, Finish
<1>2. pc \in [Tasks -> PCs] /\ ret \in [Tasks -> Answers]
  BY DEF Basics, TypeOK, PoolTypeOK
<1>3. QED
  BY <1>1, <1>2 DEF Finish, LockOK, PCs

\* The results of the pool's calls are answers; NoAnswer has no entries.
LEMMA NoAnswerType ==
    /\ NoAnswer \in Answers /\ NoAnswer.ts = <<>>
    /\ \A b \in BOOLEAN, n \in Nat, ts \in Seq(Transports) : Answer(b, n, ts) \in Answers
BY DEF NoAnswer, Answer, Answers

\* The steps of the pool's reads that are not scans.
LEMMA ReadBasics ==
    ASSUME Basics, NEW k \in Tasks, Get(k) \/ Length(k) \/ IsEmpty(k) \/ All(k),
           UNCHANGED <<routerVars, histVars>>
    PROVE  Basics'
<1>1. PICK a \in Answers : Finish(k, a) /\ UNCHANGED <<transports, health, op, arg, idx, list>>
  <2>1. CASE Get(k)
    <3>1. \A i \in 1..Len(transports) : <<transports[i]>> \in Seq(Transports)
      BY Types DEF Basics
    <3>2. QED
      BY <2>1, <3>1, NoAnswerType DEF Get
  <2>2. CASE Length(k)
    <3>1. Answer(FALSE, Len(transports), <<>>) \in Answers
      BY Types DEF Basics, Answer, Answers
    <3>2. QED
      BY <2>2, <3>1 DEF Length
  <2>3. CASE IsEmpty(k)
    <3>1. Answer(transports = <<>>, 0, <<>>) \in Answers
      BY DEF Answer, Answers
    <3>2. QED
      BY <2>3, <3>1 DEF IsEmpty
  <2>4. CASE All(k)
    BY <2>4, NoAnswerType, Types DEF All, Basics
  <2>5. QED
    BY <2>1, <2>2, <2>3, <2>4
<1>2. /\ LockOK(lock', Tasks) /\ lock' \in LockType(Tasks)
      /\ pc' \in [Tasks -> PCs] /\ ret' \in [Tasks -> Answers]
  BY <1>1, FinishBasics
<1>3. QED
  BY <1>1, <1>2 DEF Basics, TypeOK, PoolTypeOK, IdxPositive, routerVars, histVars

\* The steps of a scan, of a pick or of another task.
LEMMA ScanBasics ==
    ASSUME Basics, NEW k \in Tasks, BeginScan(k) \/ FilterHealthy(k) \/ EndScan(k),
           UNCHANGED <<routerVars, histVars>>
    PROVE  Basics'
<1>1. CASE BeginScan(k)
  <2>1. pc' \in [Tasks -> PCs]
    BY <1>1 DEF BeginScan, Basics, TypeOK, PCs
  <2>2. QED
    BY <1>1, <2>1 DEF BeginScan, Basics, TypeOK, PoolTypeOK, IdxPositive, routerVars, histVars
<1>2. CASE FilterHealthy(k)
  <2>1. idx[k] \in 1..Len(transports)
    BY <1>2, Types DEF FilterHealthy, Basics, IdxPositive
  <2>2. KeepIfHealthy(list[k], transports[idx[k]]) \in Seq(Transports)
    BY <2>1, Types, EntriesAppend DEF KeepIfHealthy, Basics
  <2>3. list' \in [Tasks -> Seq(Transports)] /\ idx' \in [Tasks -> Nat]
    BY <1>2, <2>2 DEF FilterHealthy, Basics, TypeOK, PoolTypeOK
  <2>4. IdxPositive'
    BY <1>2 DEF FilterHealthy, Basics, IdxPositive, TypeOK, PoolTypeOK
  <2>5. QED
    BY <1>2, <2>3, <2>4 DEF FilterHealthy, Basics, TypeOK, PoolTypeOK, routerVars, histVars
<1>3. CASE EndScan(k)
  <2>1. Answer(FALSE, Len(transports), list[k]) \in Answers
    BY NoAnswerType, Types DEF Basics
  <2>2. /\ LockOK(lock', Tasks) /\ lock' \in LockType(Tasks)
        /\ pc' \in [Tasks -> PCs] /\ ret' \in [Tasks -> Answers]
    BY <1>3, <2>1, FinishBasics DEF EndScan
  <2>3. list' \in [Tasks -> Seq(Transports)] /\ idx' \in [Tasks -> Nat] /\ IdxPositive'
    BY <1>3 DEF EndScan, Basics, IdxPositive, TypeOK, PoolTypeOK
  <2>4. QED
    BY <1>3, <2>2, <2>3 DEF EndScan, Basics, TypeOK, PoolTypeOK, routerVars, histVars
<1>4. QED
  BY <1>1, <1>2, <1>3

\* What a change of the pool or of a health flag does to the history.
LEMMA ChangedTypes ==
    ASSUME TypeOK, Changed
    PROVE  /\ counter' = counter /\ chosen' = chosen /\ guarded' = guarded
           /\ poolAt' = poolAt /\ upAt' = upAt
           /\ fresh' \in [Pickers -> BOOLEAN]
           /\ served' \in Seq(Nat) /\ slack' \in Nat
BY DEF Changed, routerVars

\* add and remove.
LEMMA WriteBasics ==
    ASSUME Basics, NEW k \in Tasks, OpAdd(k) \/ OpRemove(k)
    PROVE  Basics'
<1>1. transports' \in Seq(Transports) /\ \E a \in Answers : Finish(k, a)
  <2>1. CASE OpAdd(k)
    BY <2>1, Types, EntriesAppend, NoAnswerType DEF OpAdd, Add, Basics
  <2>2. CASE OpRemove(k)
    <3>1. PICK f \in Ascending(Kept(transports, IdOf[arg[k]])) :
             /\ transports' = [n \in DOMAIN f |-> transports[f[n]]]
             /\ Finish(k, Answer(Len(transports') < Len(transports), 0, <<>>))
      BY <2>2 DEF OpRemove, Remove
    <3>2. transports' \in Seq(Transports)
      BY <3>1, RetainFacts DEF Basics
    <3>3. Answer(Len(transports') < Len(transports), 0, <<>>) \in Answers
      BY DEF Answer, Answers
    <3>4. QED
      BY <3>1, <3>2, <3>3
  <2>3. QED
    BY <2>1, <2>2
<1>2. /\ LockOK(lock', Tasks) /\ lock' \in LockType(Tasks)
      /\ pc' \in [Tasks -> PCs] /\ ret' \in [Tasks -> Answers]
  BY <1>1, FinishBasics
<1>3. Changed /\ UNCHANGED <<health, op, arg, idx, list>>
  BY DEF OpAdd, OpRemove, Add, Remove
<1>4. IdOf[arg[k]] \in STRING
  BY PoolAssumption, Types DEF PoolAssumption, Basics
<1>5. gone' \in SUBSET STRING /\ goneAt' \in [Pickers -> SUBSET STRING]
  BY <1>4 DEF OpAdd, OpRemove, Basics, TypeOK
<1>6. QED
  BY <1>1, <1>2, <1>3, <1>5, ChangedTypes DEF Basics, TypeOK, PoolTypeOK, IdxPositive

\* The other steps of the tasks that call the pool, and close.
LEMMA OtherBasics ==
    ASSUME Basics
    PROVE  /\ \A k \in Tasks : OpCall(k) => Basics'
           /\ \A k \in Tasks : OpReturn(k) => Basics'
           /\ \A t \in Transports : CloseTransport(t) => Basics'
<1>1. ASSUME NEW k \in Tasks, OpCall(k) PROVE Basics'
  <2>1. PICK o \in Calls, t \in Transports : Call(k, o, t)
    BY <1>1 DEF OpCall
  <2>2. LockOK(lock', Tasks) /\ lock' \in LockType(Tasks)
    BY <2>1, LockingOK DEF Call, Basics, LockOK
  <2>3. o \in Ops
    BY DispatchAssumption DEF DispatchAssumption
  <2>4. /\ pc' \in [Tasks -> PCs] /\ op' \in [Tasks -> Ops]
        /\ arg' \in [Tasks -> Transports]
    BY <2>1, <2>3 DEF Call, Basics, TypeOK, PoolTypeOK, PCs
  <2>5. QED
    BY <1>1, <2>1, <2>2, <2>4
    DEF OpCall, Call, Basics, TypeOK, PoolTypeOK, IdxPositive, routerVars, histVars
<1>2. ASSUME NEW k \in Tasks, OpReturn(k) PROVE Basics'
  <2>1. "len" \in Ops /\ AnyTransport \in Transports
    BY PoolAssumption DEF PoolAssumption, Ops, ReadOps, AnyTransport
  <2>2. /\ pc' \in [Tasks -> PCs] /\ op' \in [Tasks -> Ops]
        /\ arg' \in [Tasks -> Transports] /\ idx' \in [Tasks -> Nat]
        /\ list' \in [Tasks -> Seq(Transports)] /\ ret' \in [Tasks -> Answers]
    BY <1>2, <2>1, NoAnswerType DEF OpReturn, Return, Basics, TypeOK, PoolTypeOK, PCs
  <2>3. IdxPositive'
    BY <1>2 DEF OpReturn, Return, Basics, TypeOK, PoolTypeOK, IdxPositive
  <2>4. QED
    BY <1>2, <2>2, <2>3
    DEF OpReturn, Return, Basics, TypeOK, PoolTypeOK, routerVars, histVars
<1>3. ASSUME NEW t \in Transports, CloseTransport(t) PROVE Basics'
  BY <1>3, ChangedTypes
  DEF CloseTransport, Close, Basics, TypeOK, PoolTypeOK, IdxPositive
<1>4. QED
  BY <1>1, <1>2, <1>3

\* The steps of a pick that are not steps of its scan.
LEMMA PickBasics ==
    ASSUME Basics, NEW p \in Pickers
    PROVE  /\ BeginPick(p) => Basics'
           /\ BeginRoute(p) => Basics'
           /\ RouteFilter(p) => Basics'
           /\ EndPick(p) => Basics'
<1>0. p \in Tasks
  BY DispatchAssumption DEF DispatchAssumption
<1>1. ASSUME BeginPick(p) PROVE Basics'
  <2>1. LockOK(lock', Tasks) /\ lock' \in LockType(Tasks)
    BY <1>0, <1>1, LockingOK DEF BeginPick, TryScan, Basics, LockOK
  <2>2. pc' \in [Tasks -> PCs] /\ op' \in [Tasks -> Ops]
    BY <1>0, <1>1 DEF BeginPick, TryScan, Basics, TypeOK, PoolTypeOK, PCs, Ops, ReadOps, ScanOps
  <2>3. /\ guarded' \in [Pickers -> BOOLEAN] /\ fresh' \in [Pickers -> BOOLEAN]
        /\ poolAt' \in [Pickers -> Seq(Transports)]
        /\ goneAt' \in [Pickers -> SUBSET STRING]
    <3>1. CanRead(lock) \in BOOLEAN /\ (Strategy = "round-robin") \in BOOLEAN
      BY DEF CanRead
    <3>2. QED
      BY <1>1, <3>1 DEF BeginPick, Basics, TypeOK, PoolTypeOK
  <2>4. QED
    BY <1>1, <2>1, <2>2, <2>3
    DEF BeginPick, TryScan, Basics, TypeOK, PoolTypeOK, IdxPositive, routerVars
<1>2. ASSUME BeginRoute(p) PROVE Basics'
  <2>1. pc' \in [Tasks -> PCs] /\ upAt' \in [Pickers -> SUBSET Transports]
    BY <1>0, <1>2 DEF BeginRoute, Basics, TypeOK, PCs
  <2>2. QED
    BY <1>2, <2>1 DEF BeginRoute, Basics, TypeOK, PoolTypeOK, IdxPositive, routerVars
<1>3. ASSUME RouteFilter(p) PROVE Basics'
  <2>1. idx[p] \in 1..Len(ret[p].ts)
    BY <1>0, <1>3, Types DEF RouteFilter, Basics, IdxPositive
  <2>2. RouterKeeps(list[p], ret[p].ts[idx[p]]) \in Seq(Transports)
    BY <1>0, <2>1, Types, EntriesAppend DEF RouterKeeps, Basics
  <2>3. list' \in [Tasks -> Seq(Transports)] /\ idx' \in [Tasks -> Nat] /\ IdxPositive'
    BY <1>0, <1>3, <2>2 DEF RouteFilter, Basics, IdxPositive, TypeOK, PoolTypeOK
  <2>4. QED
    BY <1>3, <2>3 DEF RouteFilter, Basics, TypeOK, PoolTypeOK, routerVars, histVars
<1>4. ASSUME EndPick(p) PROVE Basics'
  <2>1. /\ pc' \in [Tasks -> PCs] /\ op' \in [Tasks -> Ops] /\ idx' \in [Tasks -> Nat]
        /\ list' \in [Tasks -> Seq(Transports)] /\ ret' \in [Tasks -> Answers]
        /\ IdxPositive'
    BY <1>0, <1>4, NoAnswerType
    DEF EndPick, Basics, TypeOK, PoolTypeOK, PCs, Ops, ReadOps, IdxPositive
  <2>2. /\ chosen' \in [Pickers -> Seq(Transports)] /\ guarded' \in [Pickers -> BOOLEAN]
        /\ poolAt' \in [Pickers -> Seq(Transports)] /\ upAt' \in [Pickers -> SUBSET Transports]
        /\ goneAt' \in [Pickers -> SUBSET STRING] /\ fresh' \in [Pickers -> BOOLEAN]
    BY <1>4 DEF EndPick, Basics, TypeOK
  <2>3. QED
    BY <1>4, <2>1, <2>2 DEF EndPick, Basics, TypeOK, PoolTypeOK
<1>5. QED
  BY <1>1, <1>2, <1>3, <1>4

\* The three ways a pick delivers its result.
LEMMA DeliverBasics ==
    ASSUME Basics, NEW p \in Pickers,
           NoHealthyTunnels(p) \/ RandomPick(p) \/ RoundRobinPick(p)
    PROVE  /\ Basics'
           /\ Filtered(p)
           /\ \/ list[p] = <<>> /\ Deliver(p, <<>>)
              \/ list[p] # <<>> /\ \E i \in 1..Len(list[p]) : Deliver(p, <<list[p][i]>>)
<1>0. p \in Tasks /\ list[p] \in Seq(Transports) /\ Len(list[p]) \in Nat
  BY Types DEF Basics
<1>1. counter \in Nat /\ CounterSize \in Nat \ {0} /\ served \in Seq(Nat) /\ slack \in Nat
  BY DispatchAssumption DEF DispatchAssumption, Basics, TypeOK
<1>2. /\ counter' \in 0..(CounterSize - 1) /\ served' \in Seq(Nat) /\ slack' \in Nat
      /\ Filtered(p)
      /\ \/ list[p] = <<>> /\ Deliver(p, <<>>)
         \/ list[p] # <<>> /\ \E i \in 1..Len(list[p]) : Deliver(p, <<list[p][i]>>)
  <2>1. CASE NoHealthyTunnels(p)
    BY <2>1 DEF NoHealthyTunnels, Basics, TypeOK
  <2>2. CASE RandomPick(p)
    BY <2>2 DEF RandomPick, Basics, TypeOK
  <2>3. CASE RoundRobinPick(p)
    <3> DEFINE n == Len(list[p])
               i == counter % n
    <3>1. /\ Filtered(p) /\ list[p] # <<>> /\ Deliver(p, <<list[p][i + 1]>>)
          /\ counter' = (counter + 1) % CounterSize
          /\ served' = IF fresh[p] THEN Append(served, i) ELSE served
          /\ slack' = slack + (IF fresh[p] THEN 0 ELSE 1)
                            + (IF counter + 1 = CounterSize THEN 1 ELSE 0)
      BY <2>3 DEF RoundRobinPick, Advance
    <3>2. n \in Nat \ {0}
      BY <1>0, <3>1
    <3>3. i \in 0..(n - 1)
      <4> HIDE DEF n
      <4>1. QED
        BY <1>1, <3>2
    <3>4. i \in Nat /\ i + 1 \in 1..n
      <4> HIDE DEF n, i
      <4>1. QED
        BY <3>2, <3>3
    <3>5. counter' \in 0..(CounterSize - 1)
      BY <1>1, <3>1
    <3>6. served' \in Seq(Nat)
      <4> HIDE DEF i
      <4>1. QED
        BY <1>1, <3>1, <3>4
    <3>7. slack' \in Nat
      BY <1>1, <3>1
    <3>8. QED
      BY <3>1, <3>4, <3>5, <3>6, <3>7
  <2>4. QED
    BY <2>1, <2>2, <2>3
<1>3. \E r \in Seq(Transports) : Deliver(p, r)
  <2>1. <<>> \in Seq(Transports)
    OBVIOUS
  <2>2. \A i \in 1..Len(list[p]) : <<list[p][i]>> \in Seq(Transports)
    BY <1>0
  <2>3. QED
    BY <1>2, <2>1, <2>2
<1>4. pc' \in [Tasks -> PCs] /\ chosen' \in [Pickers -> Seq(Transports)]
  BY <1>0, <1>3 DEF Deliver, Basics, TypeOK, PCs
<1>5. Basics'
  BY <1>2, <1>3, <1>4 DEF Deliver, Basics, TypeOK, PoolTypeOK, IdxPositive
<1>6. QED
  BY <1>2, <1>5

\* Every step keeps the types, the lock's exclusion and the positions.
LEMMA BasicsStep == Basics /\ [Next]_vars => Basics'
<1> SUFFICES ASSUME Basics, [Next]_vars PROVE Basics'
  OBVIOUS
<1>0. Pickers \subseteq Tasks /\ Operators \subseteq Tasks
  BY DispatchAssumption DEF DispatchAssumption, Operators
<1>1. CASE UNCHANGED vars
  BY <1>1 DEF vars, poolVars, routerVars, histVars, Basics, TypeOK, PoolTypeOK, IdxPositive
<1>2. ASSUME NEW p \in Pickers, BeginPick(p) \/ PickStep(p) PROVE Basics'
  BY <1>0, <1>2, PickBasics, ScanBasics, DeliverBasics DEF PickStep, PickScan
<1>3. ASSUME NEW k \in Operators, OpCall(k) \/ OpStep(k) PROVE Basics'
  BY <1>0, <1>3, OtherBasics, WriteBasics, ReadBasics, ScanBasics DEF OpStep, OpRead
<1>4. ASSUME NEW t \in Transports, CloseTransport(t) PROVE Basics'
  BY <1>4, OtherBasics
<1>5. QED
  BY <1>1, <1>2, <1>3, <1>4 DEF Next

---------------------------------------------------------------------------
(* Removed ids.                                                            *)

\* add and remove are the only steps that change the vector, and only picks
\* that start record it.
LEMMA GoneStep == Basics /\ GoneOK /\ [Next]_vars => GoneOK'
<1> SUFFICES ASSUME Basics, GoneOK, [Next]_vars PROVE GoneOK'
  OBVIOUS
<1>0. /\ Pickers \subseteq Tasks /\ Operators \subseteq Tasks
      /\ poolAt \in [Pickers -> Seq(Transports)] /\ goneAt \in [Pickers -> SUBSET STRING]
  BY DispatchAssumption DEF DispatchAssumption, Operators, Basics, TypeOK
<1>1. ASSUME UNCHANGED <<transports, gone, poolAt, goneAt>> PROVE GoneOK'
  BY <1>1 DEF GoneOK
<1>2. ASSUME NEW p \in Pickers, BeginPick(p) PROVE GoneOK'
  <2>1. /\ transports' = transports /\ gone' = gone
        /\ poolAt' = [poolAt EXCEPT ![p] = transports]
        /\ goneAt' = [goneAt EXCEPT ![p] = gone]
    BY <1>2 DEF BeginPick, TryScan
  <2>2. QED
    BY <1>0, <2>1 DEF GoneOK
<1>3. ASSUME NEW p \in Pickers, EndPick(p) PROVE GoneOK'
  <2>1. /\ transports' = transports /\ gone' = gone
        /\ poolAt' = [poolAt EXCEPT ![p] = <<>>]
        /\ goneAt' = [goneAt EXCEPT ![p] = {}]
    BY <1>3 DEF EndPick
  <2>2. QED
    BY <1>0, <2>1 DEF GoneOK
<1>4. ASSUME NEW p \in Pickers, PickStep(p), ~EndPick(p) PROVE GoneOK'
  <2>1. UNCHANGED <<transports, gone, poolAt, goneAt>>
    <3>1. CASE PickScan(p)
      BY <3>1 DEF PickScan, FilterHealthy, EndScan, histVars
    <3>2. CASE BeginRoute(p) \/ RouteFilter(p)
      BY <3>2 DEF BeginRoute, RouteFilter, histVars
    <3>3. CASE NoHealthyTunnels(p) \/ RandomPick(p) \/ RoundRobinPick(p)
      BY <3>3 DEF NoHealthyTunnels, RandomPick, RoundRobinPick, Deliver
    <3>4. QED
      BY <1>4, <3>1, <3>2, <3>3 DEF PickStep
  <2>2. QED
    BY <1>1, <2>1
<1>5. ASSUME NEW k \in Operators, OpAdd(k) PROVE GoneOK'
  <2>1. /\ transports' = Append(transports, arg[k])
        /\ gone' = gone \ {IdOf[arg[k]]}
        /\ goneAt' = [p \in Pickers |-> goneAt[p] \ {IdOf[arg[k]]}]
        /\ poolAt' = poolAt
    BY <1>5 DEF OpAdd, Add, Changed
  <2>2. Entries(transports') = Entries(transports) \cup {arg[k]}
    BY <1>0, <2>1, Types, EntriesAppend DEF Basics
  <2>3. QED
    BY <2>1, <2>2 DEF GoneOK
<1>6. ASSUME NEW k \in Operators, OpRemove(k) PROVE GoneOK'
  <2>1. PICK f \in Ascending(Kept(transports, IdOf[arg[k]])) :
           transports' = [n \in DOMAIN f |-> transports[f[n]]]
    BY <1>6 DEF OpRemove, Remove
  <2>2. \A t \in Entries(transports') : t \in Entries(transports) /\ IdOf[t] # IdOf[arg[k]]
    BY <2>1, RetainFacts DEF Basics
  <2>3. gone' = gone \cup {IdOf[arg[k]]} /\ goneAt' = goneAt /\ poolAt' = poolAt
    BY <1>6 DEF OpRemove, Changed
  <2>4. QED
    BY <2>2, <2>3 DEF GoneOK
<1>7. ASSUME NEW k \in Operators, OpCall(k) \/ OpRead(k) \/ OpReturn(k) PROVE GoneOK'
  <2>1. UNCHANGED <<transports, gone, poolAt, goneAt>>
    BY <1>7 DEF OpCall, Call, OpRead, Get, Length, IsEmpty, All, BeginScan,
                FilterHealthy, EndScan, OpReturn, Return, histVars
  <2>2. QED
    BY <1>1, <2>1
<1>8. ASSUME NEW t \in Transports, CloseTransport(t) PROVE GoneOK'
  BY <1>1, <1>8 DEF CloseTransport, Close, Changed
<1>9. CASE UNCHANGED vars
  BY <1>1, <1>9 DEF vars, poolVars, histVars
<1>10. QED
  BY <1>2, <1>3, <1>4, <1>5, <1>6, <1>7, <1>8, <1>9 DEF Next, OpStep

---------------------------------------------------------------------------
(* The progress of a pick.                                                 *)

\* A step that leaves a pick's own state alone: it clears health flags at
\* most, and while the pick scans it neither changes the vector nor takes
\* the pick's guard.
Untouched(p) ==
    /\ pc'[p] = pc[p] /\ idx'[p] = idx[p] /\ list'[p] = list[p] /\ ret'[p] = ret[p]
    /\ chosen'[p] = chosen[p] /\ guarded'[p] = guarded[p]
    /\ poolAt'[p] = poolAt[p] /\ upAt'[p] = upAt[p]
    /\ \A t \in Transports : health'[t] => health[t]
    /\ pc[p] = "scan" => transports' = transports /\ p \in lock'.readers

\* A step that leaves a pick untouched keeps what is known of it.
LEMMA Frame ==
    ASSUME Basics, NEW p \in Pickers, PickOK(p), Untouched(p)
    PROVE  PickOK(p)'
<1>1. /\ Entries(poolAt[p]) \subseteq Transports
      /\ \A i \in 1..Len(transports) : transports[i] \in Transports
      /\ \A i \in 1..Len(ret[p].ts) : ret[p].ts[i] \in Transports
  BY Types, EntriesFacts DEF Basics, TypeOK
<1>2. Clean(p)'
  BY DEF PickOK, Clean, Untouched
<1>3. Scanning(p)'
  <2> SUFFICES ASSUME pc[p] = "scan"
               PROVE  /\ p \in lock'.readers
                      /\ transports = poolAt[p]
                      /\ Entries(list[p]) \subseteq Entries(poolAt[p])
                      /\ \A i \in 1..Len(transports) :
                            i < idx[p] /\ health'[transports[i]] =>
                                transports[i] \in Entries(list[p])
    BY DEF Scanning, Untouched
  <2>1. QED
    BY <1>1 DEF PickOK, Scanning, Untouched
<1>4. Answered(p)'
  BY <1>1 DEF PickOK, Answered, Untouched
<1>5. Routing(p)'
  <2> SUFFICES ASSUME pc[p] = "filter"
               PROVE  /\ \A t \in Transports : health'[t] => t \in upAt[p]
                      /\ Entries(list[p]) \subseteq Entries(ret[p].ts) \cap upAt[p]
                      /\ \A i \in 1..Len(ret[p].ts) :
                            i < idx[p] /\ health'[ret[p].ts[i]] =>
                                ret[p].ts[i] \in Entries(list[p])
    BY DEF Routing, Untouched
  <2>1. QED
    BY <1>1 DEF PickOK, Routing, Untouched
<1>6. Picked(p)'
  BY <1>1 DEF PickOK, Picked, Untouched
<1>7. QED
  BY <1>2, <1>3, <1>4, <1>5, <1>6 DEF PickOK

\* The other tasks: those that change the vector hold the write guard, so no
\* pick is scanning; those that drop a guard drop their own.
LEMMA OthersUntouched ==
    ASSUME Basics, NEW p \in Pickers, PickOK(p)
    PROVE  /\ \A k \in Operators : OpCall(k) \/ OpStep(k) => Untouched(p)
           /\ \A q \in Pickers \ {p} : BeginPick(q) \/ PickStep(q) => Untouched(p)
           /\ \A t \in Transports : CloseTransport(t) => Untouched(p)
           /\ UNCHANGED vars => Untouched(p)
<1>0. p \in Tasks /\ p \notin Operators /\ Operators \subseteq Tasks /\ Pickers \subseteq Tasks
  BY DispatchAssumption DEF DispatchAssumption, Operators
<1>1. pc[p] = "scan" => p \in lock.readers
  BY DEF PickOK, Scanning
<1>2. /\ pc \in [Tasks -> PCs] /\ op \in [Tasks -> Ops] /\ arg \in [Tasks -> Transports]
      /\ idx \in [Tasks -> Nat] /\ list \in [Tasks -> Seq(Transports)]
      /\ ret \in [Tasks -> Answers] /\ health \in [Transports -> BOOLEAN]
      /\ chosen \in [Pickers -> Seq(Transports)] /\ guarded \in [Pickers -> BOOLEAN]
      /\ poolAt \in [Pickers -> Seq(Transports)] /\ upAt \in [Pickers -> SUBSET Transports]
  BY DEF Basics, TypeOK, PoolTypeOK
<1>3. ASSUME NEW k \in Tasks, k # p, NEW a, Finish(k, a)
      PROVE  /\ pc'[p] = pc[p] /\ ret'[p] = ret[p]
             /\ pc[p] = "scan" => p \in lock'.readers
  BY <1>1, <1>2, <1>3, UnlockOK DEF Finish, Basics
<1>4. ASSUME NEW k \in Operators, OpCall(k) PROVE Untouched(p)
  <2>1. PICK o \in Calls, t \in Transports : Call(k, o, t)
    BY <1>4 DEF OpCall
  <2>2. lock.readers \subseteq lock'.readers
    BY <1>0, <2>1, LockingOK DEF Call, Basics
  <2>3. QED
    BY <1>0, <1>1, <1>2, <1>4, <2>1, <2>2
    DEF OpCall, Call, Untouched, routerVars, histVars
<1>5. ASSUME NEW k \in Operators, OpAdd(k) \/ OpRemove(k) PROVE Untouched(p)
  <2>1. k \in lock.writers
    BY <1>5 DEF OpAdd, OpRemove, Add, Remove, Writing
  <2>2. pc[p] # "scan"
    BY <1>1, <2>1 DEF Basics, LockOK, Exclusive
  <2>3. \E a : Finish(k, a)
    BY <1>5 DEF OpAdd, OpRemove, Add, Remove
  <2>4. pc'[p] = pc[p] /\ ret'[p] = ret[p]
    BY <1>0, <1>3, <2>3
  <2>5. UNCHANGED <<health, idx, list, chosen, guarded, poolAt, upAt>>
    BY <1>5 DEF OpAdd, OpRemove, Add, Remove, Changed, routerVars
  <2>6. QED
    BY <2>2, <2>4, <2>5 DEF Untouched
<1>6. ASSUME NEW k \in Tasks, k # p,
             Get(k) \/ Length(k) \/ IsEmpty(k) \/ All(k) \/ EndScan(k),
             UNCHANGED <<routerVars, histVars>>
      PROVE  Untouched(p)
  <2>1. \E a : Finish(k, a)
    BY <1>6 DEF Get, Length, IsEmpty, All, EndScan
  <2>2. /\ pc'[p] = pc[p] /\ ret'[p] = ret[p]
        /\ pc[p] = "scan" => p \in lock'.readers
    BY <1>3, <1>6, <2>1
  <2>3. UNCHANGED <<transports, health>> /\ idx'[p] = idx[p] /\ list'[p] = list[p]
    BY <1>0, <1>2, <1>6 DEF Get, Length, IsEmpty, All, EndScan
  <2>4. QED
    BY <1>6, <2>2, <2>3 DEF Untouched, routerVars, histVars
<1>7. ASSUME NEW k \in Tasks, k # p, BeginScan(k) \/ FilterHealthy(k) \/ Return(k),
             UNCHANGED <<routerVars, histVars>>
      PROVE  Untouched(p)
  BY <1>0, <1>1, <1>2, <1>7
  DEF BeginScan, FilterHealthy, Return, Untouched, routerVars, histVars
<1>8. ASSUME NEW k \in Operators, OpStep(k) PROVE Untouched(p)
  BY <1>0, <1>5, <1>6, <1>7, <1>8 DEF OpStep, OpRead, OpReturn
<1>9. ASSUME NEW q \in Pickers \ {p}, BeginPick(q) PROVE Untouched(p)
  <2>1. lock.readers \subseteq lock'.readers
    BY <1>0, <1>9, LockingOK DEF BeginPick, TryScan, Basics
  <2>2. QED
    BY <1>0, <1>1, <1>2, <1>9, <2>1 DEF BeginPick, TryScan, Untouched, routerVars
<1>10. ASSUME NEW q \in Pickers \ {p}, PickStep(q) PROVE Untouched(p)
  <2>1. CASE PickScan(q)
    BY <1>0, <1>6, <1>7, <2>1 DEF PickScan
  <2>2. CASE BeginRoute(q) \/ RouteFilter(q)
    BY <1>0, <1>1, <1>2, <2>2 DEF BeginRoute, RouteFilter, Untouched, routerVars, histVars
  <2>3. CASE NoHealthyTunnels(q) \/ RandomPick(q) \/ RoundRobinPick(q)
    BY <1>0, <1>1, <1>2, <2>3 DEF NoHealthyTunnels, RandomPick, RoundRobinPick, Deliver, Untouched
  <2>4. CASE EndPick(q)
    BY <1>0, <1>1, <1>2, <2>4 DEF EndPick, Untouched
  <2>5. QED
    BY <1>10, <2>1, <2>2, <2>3, <2>4 DEF PickStep
<1>11. ASSUME NEW t \in Transports, CloseTransport(t) PROVE Untouched(p)
  BY <1>1, <1>2, <1>11 DEF CloseTransport, Close, Changed, Untouched, routerVars
<1>12. ASSUME UNCHANGED vars PROVE Untouched(p)
  BY <1>1, <1>12 DEF vars, poolVars, routerVars, histVars, Untouched
<1>13. QED
  BY <1>4, <1>8, <1>9, <1>10, <1>11, <1>12

\* A pick starts: with the guard it scans from the first entry, without it
\* it has its (empty) answer.
LEMMA BeginPickOK ==
    ASSUME Basics, NEW p \in Pickers, PickOK(p), BeginPick(p)
    PROVE  PickOK(p)'
<1>0. p \in Tasks
  BY DispatchAssumption DEF DispatchAssumption
<1>1. /\ pc[p] = "idle" /\ transports' = transports /\ health' = health
      /\ lock' = TryRead(lock, p)
      /\ pc'[p] = IF CanRead(lock) THEN "scan" ELSE "done"
      /\ idx' = idx /\ list' = list /\ ret' = ret
      /\ guarded'[p] = CanRead(lock) /\ poolAt'[p] = transports
  BY <1>0 DEF BeginPick, TryScan, Basics, TypeOK
<1>2. list[p] = <<>> /\ idx[p] = 1 /\ ret[p] = NoAnswer
  BY <1>1 DEF PickOK, Clean
<1>3. CanRead(lock) => p \in lock'.readers
  BY <1>1 DEF TryRead, Basics, LockOK, LockType
<1>4. Entries(list'[p]) = {} /\ Entries(ret'[p].ts) = {}
  BY <1>1, <1>2, EntriesFacts, NoAnswerType
<1>5. Len(transports) \in Nat
  BY Types DEF Basics
<1>6. Scanning(p)'
  BY <1>1, <1>2, <1>3, <1>4, <1>5 DEF Scanning
<1>7. Answered(p)'
  BY <1>1, <1>4 DEF Answered
<1>8. Clean(p)'
  BY <1>1, <1>2 DEF Clean
<1>9. QED
  BY <1>1, <1>6, <1>7, <1>8 DEF PickOK, Routing, Picked

\* One entry is read: a healthy one joins the list.
LEMMA FilterHealthyOK ==
    ASSUME Basics, NEW p \in Pickers, PickOK(p), FilterHealthy(p),
           UNCHANGED <<routerVars, histVars>>
    PROVE  PickOK(p)'
<1>0. p \in Tasks
  BY DispatchAssumption DEF DispatchAssumption
<1> DEFINE n == idx[p]
           t == transports[n]
<1>1. /\ pc[p] = "scan" /\ pc' = pc /\ transports' = transports /\ health' = health
      /\ lock' = lock /\ ret' = ret /\ poolAt' = poolAt
      /\ list'[p] = KeepIfHealthy(list[p], t) /\ idx'[p] = n + 1
  BY <1>0 DEF FilterHealthy, Basics, TypeOK, PoolTypeOK, histVars
<1>2. n \in 1..Len(transports) /\ n \in Nat /\ Len(transports) \in Nat
  BY <1>0, Types DEF FilterHealthy, Basics, IdxPositive
<1>3. t \in Transports /\ list[p] \in Seq(Transports)
  BY <1>0, <1>2, Types DEF Basics
<1>4. /\ p \in lock.readers /\ transports = poolAt[p]
      /\ Entries(list[p]) \subseteq Entries(poolAt[p])
      /\ \A i \in 1..Len(transports) :
            i < n /\ health[transports[i]] => transports[i] \in Entries(list[p])
  BY <1>1 DEF PickOK, Scanning
<1>5. t \in Entries(transports)
  BY <1>2 DEF Entries
<1>6. Entries(list'[p]) = Entries(list[p]) \cup (IF health[t] THEN {t} ELSE {})
  BY <1>1, <1>3, EntriesAppend DEF KeepIfHealthy
<1>7. ASSUME NEW i \in 1..Len(transports), i < n + 1, health[transports[i]]
      PROVE  transports[i] \in Entries(list'[p])
  <2>1. i < n \/ i = n
    BY <1>2, <1>7
  <2>2. QED
    BY <1>4, <1>6, <1>7, <2>1
<1>8. Scanning(p)'
  <2> HIDE DEF n, t
  <2>1. Entries(list'[p]) \subseteq Entries(poolAt[p])
    BY <1>4, <1>5, <1>6
  <2>2. QED
    BY <1>1, <1>4, <1>7, <2>1 DEF Scanning
<1>9. Clean(p)'
  BY <1>1 DEF PickOK, Clean
<1>10. QED
  BY <1>1, <1>8, <1>9 DEF PickOK, Answered, Routing, Picked

\* The scan is over: every healthy entry is in the answer.
LEMMA EndScanOK ==
    ASSUME Basics, NEW p \in Pickers, PickOK(p), EndScan(p),
           UNCHANGED <<routerVars, histVars>>
    PROVE  PickOK(p)'
<1>0. p \in Tasks
  BY DispatchAssumption DEF DispatchAssumption
<1>1. /\ pc[p] = "scan" /\ idx[p] > Len(transports) /\ pc'[p] = "done"
      /\ ret'[p] = Answer(FALSE, Len(transports), list[p])
      /\ idx'[p] = 1 /\ list'[p] = <<>>
      /\ health' = health /\ poolAt' = poolAt
  BY <1>0 DEF EndScan, ScanDone, Finish, Basics, TypeOK, PoolTypeOK, histVars
<1>2. ret'[p].ts = list[p]
  BY <1>1 DEF Answer
<1>3. idx[p] \in Nat /\ Len(transports) \in Nat
  BY <1>0, Types DEF Basics
<1>4. Entries(list[p]) \subseteq Entries(poolAt[p])
  BY <1>1 DEF PickOK, Scanning
<1>5. \A t \in Entries(poolAt[p]) : health[t] => t \in Entries(list[p])
  <2>1. transports = poolAt[p]
    BY <1>1 DEF PickOK, Scanning
  <2>2. \A i \in 1..Len(transports) :
           health[transports[i]] => transports[i] \in Entries(list[p])
    BY <1>1, <1>3 DEF PickOK, Scanning
  <2>3. QED
    BY <2>1, <2>2 DEF Entries
<1>6. Answered(p)'
  BY <1>1, <1>2, <1>4, <1>5 DEF Answered
<1>7. QED
  BY <1>1, <1>6 DEF PickOK, Clean, Scanning, Routing, Picked

\* router.pick is called: what is healthy is recorded, the filter starts.
LEMMA BeginRouteOK ==
    ASSUME Basics, NEW p \in Pickers, PickOK(p), BeginRoute(p)
    PROVE  PickOK(p)'
<1>0. p \in Tasks
  BY DispatchAssumption DEF DispatchAssumption
<1>1. /\ pc[p] = "done" /\ pc'[p] = "filter"
      /\ upAt'[p] = {t \in Transports : health[t]}
      /\ health' = health /\ idx' = idx /\ list' = list /\ ret' = ret
      /\ guarded' = guarded /\ poolAt' = poolAt
  BY <1>0 DEF BeginRoute, Basics, TypeOK
<1>2. list[p] = <<>> /\ idx[p] = 1 /\ Entries(list[p]) = {}
  BY <1>1, EntriesFacts DEF PickOK, Clean
<1>3. Len(ret[p].ts) \in Nat
  BY <1>0, Types DEF Basics
<1>4. Routing(p)'
  BY <1>1, <1>2, <1>3 DEF Routing
<1>5. Answered(p)'
  BY <1>1 DEF PickOK, Answered
<1>6. QED
  BY <1>1, <1>4, <1>5 DEF PickOK, Clean, Scanning, Picked

\* One transport of the answer is looked at again.
LEMMA RouteFilterOK ==
    ASSUME Basics, NEW p \in Pickers, PickOK(p), RouteFilter(p)
    PROVE  PickOK(p)'
<1>0. p \in Tasks
  BY DispatchAssumption DEF DispatchAssumption
<1> DEFINE n == idx[p]
           ts == ret[p].ts
           t == ts[n]
<1>1. /\ pc[p] = "filter" /\ pc' = pc /\ health' = health /\ ret' = ret
      /\ guarded' = guarded /\ poolAt' = poolAt /\ upAt' = upAt
      /\ list'[p] = RouterKeeps(list[p], t) /\ idx'[p] = n + 1
  BY <1>0 DEF RouteFilter, Basics, TypeOK, PoolTypeOK, histVars
<1>2. n \in 1..Len(ts) /\ n \in Nat /\ Len(ts) \in Nat
  BY <1>0, Types DEF RouteFilter, Basics, IdxPositive
<1>3. t \in Transports /\ list[p] \in Seq(Transports)
  BY <1>0, <1>2, Types DEF Basics
<1>4. /\ \A u \in Transports : health[u] => u \in upAt[p]
      /\ Entries(list[p]) \subseteq Entries(ts) \cap upAt[p]
      /\ \A i \in 1..Len(ts) : i < n /\ health[ts[i]] => ts[i] \in Entries(list[p])
  BY <1>1 DEF PickOK, Routing
<1>5. t \in Entries(ts)
  BY <1>2 DEF Entries
<1>6. Entries(list'[p]) = Entries(list[p]) \cup (IF health[t] THEN {t} ELSE {})
  BY <1>1, <1>3, EntriesAppend DEF RouterKeeps
<1>7. ASSUME NEW i \in 1..Len(ts), i < n + 1, health[ts[i]]
      PROVE  ts[i] \in Entries(list'[p])
  <2>1. i < n \/ i = n
    BY <1>2, <1>7
  <2>2. QED
    BY <1>4, <1>6, <1>7, <2>1
<1>8. Routing(p)'
  <2>1. Entries(list'[p]) \subseteq Entries(ts) \cap upAt[p]
    BY <1>3, <1>4, <1>5, <1>6
  <2>2. QED
    BY <1>1, <1>4, <1>7, <2>1 DEF Routing
<1>9. Answered(p)' /\ Clean(p)'
  BY <1>1 DEF PickOK, Answered, Clean
<1>10. QED
  BY <1>1, <1>8, <1>9 DEF PickOK, Scanning, Picked

\* The result is delivered.
LEMMA DeliverOK ==
    ASSUME Basics, NEW p \in Pickers, PickOK(p),
           NoHealthyTunnels(p) \/ RandomPick(p) \/ RoundRobinPick(p)
    PROVE  PickOK(p)'
<1>0. p \in Tasks
  BY DispatchAssumption DEF DispatchAssumption
<1> DEFINE ts == ret[p].ts
<1>1. /\ pc[p] = "filter" /\ idx[p] > Len(ts)
      /\ idx[p] \in Nat /\ Len(ts) \in Nat
      /\ list[p] \in Seq(Transports)
  BY <1>0, DeliverBasics, Types DEF Filtered, Basics
<1>2. /\ Entries(ts) \subseteq Entries(poolAt[p])
      /\ guarded[p] => \A t \in Entries(poolAt[p]) : health[t] => t \in Entries(ts)
  BY <1>1 DEF PickOK, Answered
<1>3. Entries(list[p]) \subseteq Entries(poolAt[p]) \cap upAt[p]
  BY <1>1, <1>2 DEF PickOK, Routing
<1>4. \A t \in Entries(ts) : health[t] => t \in Entries(list[p])
  <2>1. \A i \in 1..Len(ts) : health[ts[i]] => ts[i] \in Entries(list[p])
    BY <1>1 DEF PickOK, Routing
  <2>2. QED
    BY <2>1 DEF Entries
<1>5. PICK r : /\ Deliver(p, r)
               /\ \/ list[p] = <<>> /\ r = <<>>
                  \/ \E i \in 1..Len(list[p]) : r = <<list[p][i]>>
  BY DeliverBasics
<1>6. /\ pc'[p] = "picked" /\ chosen'[p] = r
      /\ health' = health /\ guarded' = guarded /\ poolAt' = poolAt /\ upAt' = upAt
  BY <1>0, <1>5 DEF Deliver, Basics, TypeOK
<1>7. CASE list[p] = <<>> /\ r = <<>>
  <2>1. Entries(list[p]) = {} /\ Entries(r) = {}
    BY <1>7, EntriesFacts
  <2>2. Picked(p)'
    BY <1>2, <1>4, <1>6, <2>1 DEF Picked
  <2>3. QED
    BY <1>6, <2>2 DEF PickOK, Clean, Scanning, Answered, Routing
<1>8. ASSUME NEW i \in 1..Len(list[p]), r = <<list[p][i]>> PROVE PickOK(p)'
  <2>1. list[p][i] \in Transports /\ list[p][i] \in Entries(list[p])
    BY <1>1, <1>8 DEF Entries
  <2>2. Entries(r) = {list[p][i]} /\ r # <<>>
    BY <1>8, <2>1, EntriesFacts
  <2>3. Picked(p)'
    BY <1>3, <1>6, <2>1, <2>2 DEF Picked
  <2>4. QED
    BY <1>6, <2>3 DEF PickOK, Clean, Scanning, Answered, Routing
<1>9. QED
  BY <1>5, <1>7, <1>8

\* A pick that is over leaves clean locals behind.
LEMMA EndPickOK ==
    ASSUME Basics, NEW p \in Pickers, EndPick(p)
    PROVE  PickOK(p)'
<1>0. p \in Tasks
  BY DispatchAssumption DEF DispatchAssumption
<1>1. pc'[p] = "idle" /\ idx'[p] = 1 /\ list'[p] = <<>> /\ ret'[p] = NoAnswer
  BY <1>0 DEF EndPick, Basics, TypeOK, PoolTypeOK
<1>2. QED
  BY <1>1 DEF PickOK, Clean, Scanning, Answered, Routing, Picked

---------------------------------------------------------------------------
(* The theorems.                                                           *)

\* The invariant holds before the first call (Pool::new, routers built).
LEMMA InitInv == Init => IInv
<1> SUFFICES ASSUME Init PROVE IInv
  OBVIOUS
<1>0. Pickers \subseteq Tasks /\ CounterSize \in Nat \ {0}
  BY DispatchAssumption DEF DispatchAssumption
<1>1. AnyTransport \in Transports /\ InitPool \in Seq(Transports)
  BY PoolAssumption DEF PoolAssumption, AnyTransport
<1>2. LockOK(lock, Tasks) /\ lock \in LockType(Tasks)
  BY UnlockedOK DEF Init, PoolInit, LockOK
<1>3. PoolTypeOK
  BY <1>1, <1>2, NoAnswerType DEF Init, PoolInit, PoolTypeOK, Ops, ReadOps
<1>4. TypeOK
  BY <1>0, <1>3 DEF Init, PoolInit, TypeOK, PCs
<1>5. Basics
  BY <1>2, <1>4 DEF Basics, Init, PoolInit, IdxPositive
<1>6. GoneOK
  BY DEF Init, GoneOK
<1>7. ASSUME NEW p \in Pickers PROVE PickOK(p)
  <2>1. pc[p] = "idle" /\ list[p] = <<>> /\ idx[p] = 1 /\ ret[p] = NoAnswer
    BY <1>0 DEF Init, PoolInit
  <2>2. QED
    BY <2>1 DEF PickOK, Clean, Scanning, Answered, Routing, Picked
<1>8. QED
  BY <1>5, <1>6, <1>7 DEF IInv

\* Every step of a pick, of a pool call or of a close preserves it.
LEMMA StepInv == IInv /\ [Next]_vars => IInv'
<1> SUFFICES ASSUME IInv, [Next]_vars PROVE IInv'
  OBVIOUS
<1>1. Basics /\ GoneOK
  BY DEF IInv
<1>2. Basics' /\ GoneOK'
  BY <1>1, BasicsStep, GoneStep
<1>3. ASSUME NEW p \in Pickers PROVE PickOK(p)'
  <2>1. PickOK(p)
    BY DEF IInv
  <2>2. CASE BeginPick(p) \/ PickStep(p)
    BY <1>1, <2>1, <2>2, BeginPickOK, FilterHealthyOK, EndScanOK, BeginRouteOK,
       RouteFilterOK, DeliverOK, EndPickOK
    DEF PickStep, PickScan
  <2>3. CASE ~(BeginPick(p) \/ PickStep(p))
    <3>1. Untouched(p)
      BY <1>1, <2>1, <2>3, OthersUntouched DEF Next
    <3>2. QED
      BY <1>1, <2>1, <3>1, Frame
  <2>4. QED
    BY <2>2, <2>3
<1>4. QED
  BY <1>2, <1>3 DEF IInv

\* The inductive invariant holds in every reachable state.
THEOREM Invariant == Spec => []IInv
BY InitInv, StepInv, PTL DEF Spec

\* Type correctness of the pool, the lock and the routers, for every number
\* of tasks and transports; the counter stays in the range of its width.
THEOREM TypeCorrect == Spec => []TypeOK
<1>1. IInv => TypeOK
  BY DEF IInv, Basics
<1>2. QED
  BY Invariant, <1>1, PTL

\* A scan by healthy_transports_sync sees one vector from its first entry to
\* its last, whatever add and remove calls wait for the lock.
THEOREM ScansAreStable == Spec => []ScanStable
<1>1. IInv => ScanStable
  BY DEF IInv, PickOK, Scanning, ScanStable
<1>2. QED
  BY Invariant, <1>1, PTL

\* A pick returns an entry of the pool it started on that was healthy when
\* router.pick was called, whatever is closed or removed meanwhile.
THEOREM PicksComeFromPool == Spec => []PickedFromPool
<1>1. IInv => PickedFromPool
  BY DEF IInv, PickOK, Picked, PickedFromPool
<1>2. QED
  BY Invariant, <1>1, PTL

\* A transport removed before the pick started is never returned by it, also
\* when several transports share the id.
THEOREM PicksAvoidRemoved == Spec => []RemovedNotPicked
<1>1. IInv => RemovedNotPicked
  BY DEF IInv, GoneOK, PickOK, Picked, RemovedNotPicked
<1>2. QED
  BY Invariant, <1>1, PTL

\* With the read guard, NoHealthyTunnels means that no entry of the pool the
\* pick started on is healthy any more.
THEOREM FailuresAreJustified == Spec => []FailureJustified
<1>1. IInv => FailureJustified
  BY DEF IInv, PickOK, Picked, FailureJustified
<1>2. QED
  BY Invariant, <1>1, PTL

---------------------------------------------------------------------------
(* The rotation.                                                           *)

HealthyBefore(n) == {i \in 1..Len(transports) : i < n /\ health[transports[i]]}

\* While neither the vector nor a flag has changed since a round-robin pick
\* started, its list is the healthy part of the vector up to its position;
FreshScan(p) ==
    fresh[p] /\ pc[p] = "scan" =>
        /\ Len(list[p]) = Cardinality(HealthyBefore(idx[p]))
        /\ \A i \in 1..Len(list[p]) : health[list[p][i]]

\* its answer is all of the healthy part, or nothing if it got no guard;
FreshAnswer(p) ==
    fresh[p] /\ pc[p] \in {"done", "filter"} =>
        /\ ret[p].ts = <<>> \/ Len(ret[p].ts) = HealthyCount
        /\ \A i \in 1..Len(ret[p].ts) : health[ret[p].ts[i]]

\* and the router's filter drops nothing of it.
FreshRoute(p) ==
    fresh[p] /\ pc[p] = "filter" =>
        Len(list[p]) = idx[p] - 1 /\ idx[p] <= Len(ret[p].ts) + 1

FreshOK(p) == FreshScan(p) /\ FreshAnswer(p) /\ FreshRoute(p)

\* How many picks from now it is index i's turn, with n indices and the
\* counter at c.
Turn(c, n, i) == IF i >= c % n THEN i - (c % n) ELSE i - (c % n) + n

\* Of two indices the one whose turn comes later has been used at most once
\* more than the other, the other no more than it, apart from the slack.
Balance ==
    \A i, j \in 0..(HealthyCount - 1) :
        Uses(i) <= Uses(j) + slack
                   + (IF Turn(counter, HealthyCount, i) > Turn(counter, HealthyCount, j)
                      THEN 1 ELSE 0)

RotationInv == IInv /\ Balance /\ \A p \in Pickers : FreshOK(p)

\* The index after the next fetch_add that does not wrap.
LEMMA NextIndex ==
    ASSUME NEW c \in Nat, NEW n \in Nat \ {0}
    PROVE  (c + 1) % n = IF (c % n) + 1 = n THEN 0 ELSE (c % n) + 1
<1>1. PICK q \in Nat, r \in 0..(n - 1) : c = n * q + r /\ c % n = r
  <2>1. c \div n \in Nat /\ c % n \in 0..(n - 1)
    OBVIOUS
  <2>2. c = n * (c \div n) + (c % n)
    OBVIOUS
  <2>3. QED
    BY <2>1, <2>2
<1>2. PICK s \in Nat, t \in 0..(n - 1) : c + 1 = n * s + t /\ (c + 1) % n = t
  <2>1. (c + 1) \div n \in Nat /\ (c + 1) % n \in 0..(n - 1)
    OBVIOUS
  <2>2. c + 1 = n * ((c + 1) \div n) + ((c + 1) % n)
    OBVIOUS
  <2>3. QED
    BY <2>1, <2>2
<1>3. PICK k \in Int : k = s - q
  OBVIOUS
<1>4. n * k = r + 1 - t
  <2>1. n * s = n * q + n * k
    BY <1>3
  <2>2. PICK a \in Int, b \in Int, e \in Int : a = n * s /\ b = n * q /\ e = n * k
    OBVIOUS
  <2>3. QED
    BY <1>1, <1>2, <2>1, <2>2
<1>5. k \in {0, 1}
  <2>1. k >= 2 => n * k >= n * 2
    OBVIOUS
  <2>2. k <= -1 => n * k <= n * (-1)
    OBVIOUS
  <2>3. QED
    BY <1>4, <2>1, <2>2
<1>6. QED
  BY <1>1, <1>2, <1>4, <1>5

\* A value below the modulus is its own remainder.
LEMMA SmallModulo ==
    ASSUME NEW s \in Nat \ {0}, NEW c \in 0..(s - 1)
    PROVE  c % s = c
<1>1. PICK q \in Nat, r \in 0..(s - 1) : c = s * q + r /\ c % s = r
  <2>1. c \div s \in Nat /\ c % s \in 0..(s - 1)
    OBVIOUS
  <2>2. c = s * (c \div s) + (c % s)
    OBVIOUS
  <2>3. QED
    BY <2>1, <2>2
<1>2. q >= 1 => s * q >= s
  OBVIOUS
<1>3. QED
  BY <1>1, <1>2

\* A pick that does not wrap sends the index it used to the back of the
\* queue and moves the others one place up.
LEMMA TurnStep ==
    ASSUME NEW c \in Nat, NEW n \in Nat \ {0}, NEW i \in 0..(n - 1)
    PROVE  /\ Turn(c, n, i) \in 0..(n - 1)
           /\ Turn(c, n, i) = 0 <=> i = c % n
           /\ Turn(c + 1, n, i) = IF i = c % n THEN n - 1 ELSE Turn(c, n, i) - 1
<1>1. PICK r \in 0..(n - 1) : c % n = r
  OBVIOUS
<1>2. (c + 1) % n = IF r + 1 = n THEN 0 ELSE r + 1
  BY <1>1, NextIndex
<1>3. PICK s \in 0..(n - 1) : (c + 1) % n = s
  BY <1>1, <1>2
<1>4. QED
  BY <1>1, <1>2, <1>3 DEF Turn

\* Positions of a sequence: finitely many, and counted by a natural number.
LEMMA Positions ==
    ASSUME NEW n \in Nat, NEW P, P \subseteq 1..n
    PROVE  IsFiniteSet(P) /\ Cardinality(P) \in Nat
<1>1. IsFiniteSet(1..n)
  BY FS_Interval
<1>2. QED
  BY <1>1, FS_Subset, FS_CardinalityType

\* The healthy entries and the uses are counted by natural numbers; one more
\* position passed adds its entry if that is healthy.
LEMMA Counting ==
    ASSUME TypeOK
    PROVE  /\ HealthyCount \in Nat
           /\ \A i \in Nat : Uses(i) \in Nat
           /\ Cardinality(HealthyBefore(1)) = 0
           /\ \A n \in Nat : n > Len(transports) =>
                 Cardinality(HealthyBefore(n)) = HealthyCount
           /\ \A n \in 1..Len(transports) :
                 Cardinality(HealthyBefore(n + 1)) =
                     Cardinality(HealthyBefore(n)) + (IF health[transports[n]] THEN 1 ELSE 0)
           /\ \A n \in Nat : Cardinality(HealthyBefore(n)) \in Nat
<1>1. Len(transports) \in Nat /\ Len(served) \in Nat
  BY Types DEF TypeOK
<1>2. HealthyCount \in Nat
  BY <1>1, Positions DEF HealthyCount
<1>3. \A i \in Nat : Uses(i) \in Nat
  <2> SUFFICES ASSUME NEW i \in Nat PROVE Uses(i) \in Nat
    OBVIOUS
  <2>1. {n \in 1..Len(served) : served[n] = i} \subseteq 1..Len(served)
    OBVIOUS
  <2>2. QED
    BY <1>1, <2>1, Positions DEF Uses
<1>4. ASSUME NEW n \in Nat
      PROVE  IsFiniteSet(HealthyBefore(n)) /\ Cardinality(HealthyBefore(n)) \in Nat
  <2>1. HealthyBefore(n) \subseteq 1..Len(transports)
    BY DEF HealthyBefore
  <2>2. QED
    BY <1>1, <2>1, Positions
<1>5. Cardinality(HealthyBefore(1)) = 0
  <2>1. HealthyBefore(1) = {}
    BY <1>1 DEF HealthyBefore
  <2>2. QED
    BY <2>1, FS_EmptySet
<1>6. ASSUME NEW n \in Nat, n > Len(transports)
      PROVE  Cardinality(HealthyBefore(n)) = HealthyCount
  <2>1. HealthyBefore(n) = {i \in 1..Len(transports) : health[transports[i]]}
    BY <1>1, <1>6 DEF HealthyBefore
  <2>2. QED
    BY <2>1 DEF HealthyCount
<1>7. ASSUME NEW n \in 1..Len(transports)
      PROVE  Cardinality(HealthyBefore(n + 1)) =
                 Cardinality(HealthyBefore(n)) + (IF health[transports[n]] THEN 1 ELSE 0)
  <2>1. CASE health[transports[n]]
    <3>1. HealthyBefore(n + 1) = HealthyBefore(n) \cup {n} /\ n \notin HealthyBefore(n)
      BY <1>1, <2>1 DEF HealthyBefore
    <3>2. QED
      BY <1>4, <2>1, <3>1, FS_AddElement
  <2>2. CASE ~health[transports[n]]
    <3>1. HealthyBefore(n + 1) = HealthyBefore(n)
      BY <1>1, <2>2 DEF HealthyBefore
    <3>2. QED
      BY <1>4, <2>2, <3>1
  <2>3. QED
    BY <2>1, <2>2
<1>8. QED
  BY <1>2, <1>3, <1>4, <1>5, <1>6, <1>7

\* Appending an index to the record of the rotation is one use of it.
LEMMA UsesAppend ==
    ASSUME TypeOK, NEW k \in Nat, served' = Append(served, k), NEW i \in Nat
    PROVE  Uses(i)' = Uses(i) + (IF i = k THEN 1 ELSE 0)
<1> DEFINE m == Len(served)
           P == {n \in 1..m : served[n] = i}
<1>1. m \in Nat /\ served \in Seq(Nat)
  BY DEF TypeOK
<1>2. /\ Len(served') = m + 1 /\ served'[m + 1] = k
      /\ \A n \in 1..m : served'[n] = served[n]
  BY <1>1
<1>3. Uses(i)' = Cardinality({n \in 1..Len(served') : served'[n] = i})
  BY DEF Uses
<1> HIDE DEF m
<1>4. {n \in 1..Len(served') : served'[n] = i} = IF i = k THEN P \cup {m + 1} ELSE P
  BY <1>1, <1>2
<1>5. IsFiniteSet(P) /\ Cardinality(P) \in Nat /\ m + 1 \notin P
  BY <1>1, Positions
<1>6. Uses(i) = Cardinality(P)
  BY DEF Uses, m
<1> HIDE DEF P
<1>7. CASE i = k
  <2>1. Uses(i)' = Cardinality(P \cup {m + 1})
    BY <1>3, <1>4, <1>7
  <2>2. Cardinality(P \cup {m + 1}) = Cardinality(P) + 1
    BY <1>5, FS_AddElement
  <2>3. QED
    BY <1>6, <1>7, <2>1, <2>2
<1>8. CASE i # k
  <2>1. Uses(i)' = Cardinality(P)
    BY <1>3, <1>4, <1>8
  <2>2. QED
    BY <1>5, <1>6, <1>8, <2>1
<1>9. QED
  BY <1>7, <1>8

---------------------------------------------------------------------------
(* A fresh pick uses the whole rotation.                                   *)

\* What a step does to the vector and the flags: nothing, or it starts a new
\* window, in which no pick is fresh.
LEMMA Windows ==
    ASSUME Basics, [Next]_vars
    PROVE  \/ Changed
           \/ /\ UNCHANGED <<transports, health>>
              /\ \/ UNCHANGED <<counter, served, slack>>
                 \/ \E p \in Pickers : RoundRobinPick(p)
<1>1. ASSUME NEW p \in Pickers, BeginPick(p) \/ PickStep(p)
      PROVE  /\ UNCHANGED <<transports, health>>
             /\ UNCHANGED <<counter, served, slack>> \/ RoundRobinPick(p)
  <2>1. CASE BeginPick(p)
    BY <2>1 DEF BeginPick, TryScan, routerVars
  <2>2. CASE PickScan(p)
    BY <2>2 DEF PickScan, FilterHealthy, EndScan, routerVars, histVars
  <2>3. CASE BeginRoute(p) \/ RouteFilter(p)
    BY <2>3 DEF BeginRoute, RouteFilter, routerVars, histVars
  <2>4. CASE NoHealthyTunnels(p) \/ RandomPick(p) \/ EndPick(p)
    BY <2>4 DEF NoHealthyTunnels, RandomPick, Deliver, EndPick
  <2>5. CASE RoundRobinPick(p)
    BY <2>5 DEF RoundRobinPick, Deliver
  <2>6. QED
    BY <1>1, <2>1, <2>2, <2>3, <2>4, <2>5 DEF PickStep
<1>2. ASSUME NEW k \in Operators, OpCall(k) \/ OpStep(k)
      PROVE  Changed \/ UNCHANGED <<transports, health, counter, served, slack>>
  <2>1. CASE OpCall(k) \/ OpReturn(k)
    BY <2>1 DEF OpCall, Call, OpReturn, Return, routerVars, histVars
  <2>2. CASE OpRead(k)
    BY <2>2 DEF OpRead, Get, Length, IsEmpty, All, BeginScan, FilterHealthy, EndScan,
                routerVars, histVars
  <2>3. CASE OpAdd(k) \/ OpRemove(k)
    BY <2>3 DEF OpAdd, OpRemove
  <2>4. QED
    BY <1>2, <2>1, <2>2, <2>3 DEF OpStep
<1>3. ASSUME NEW t \in Transports, CloseTransport(t) PROVE Changed
  BY <1>3 DEF CloseTransport
<1>4. CASE UNCHANGED vars
  BY <1>4 DEF vars, poolVars, routerVars, histVars
<1>5. QED
  BY <1>1, <1>2, <1>3, <1>4 DEF Next

\* The steps of the other tasks do not make a pick fresh.
LEMMA OthersFresh ==
    ASSUME Basics, NEW p \in Pickers, ~Changed
    PROVE  /\ \A k \in Operators : OpCall(k) \/ OpStep(k) => fresh'[p] = fresh[p]
           /\ \A q \in Pickers \ {p} : BeginPick(q) \/ PickStep(q) => fresh'[p] = fresh[p]
           /\ \A t \in Transports : ~CloseTransport(t)
           /\ UNCHANGED vars => fresh'[p] = fresh[p]
<1>0. fresh \in [Pickers -> BOOLEAN]
  BY DEF Basics, TypeOK
<1>1. ASSUME NEW k \in Operators, OpCall(k) \/ OpStep(k) PROVE fresh' = fresh
  BY <1>1 DEF OpCall, OpStep, OpAdd, OpRemove, OpRead, OpReturn, histVars
<1>2. ASSUME NEW q \in Pickers \ {p}, BeginPick(q) \/ PickStep(q)
      PROVE  fresh'[p] = fresh[p]
  <2>1. CASE BeginPick(q) \/ EndPick(q)
    BY <1>0, <2>1 DEF BeginPick, EndPick
  <2>2. CASE PickScan(q) \/ BeginRoute(q) \/ RouteFilter(q)
    BY <2>2 DEF PickScan, BeginRoute, RouteFilter, histVars
  <2>3. CASE NoHealthyTunnels(q) \/ RandomPick(q) \/ RoundRobinPick(q)
    BY <2>3 DEF NoHealthyTunnels, RandomPick, RoundRobinPick, Deliver
  <2>4. QED
    BY <1>2, <2>1, <2>2, <2>3 DEF PickStep
<1>3. \A t \in Transports : ~CloseTransport(t)
  BY DEF CloseTransport
<1>4. UNCHANGED vars => fresh'[p] = fresh[p]
  BY DEF vars, histVars
<1>5. QED
  BY <1>1, <1>2, <1>3, <1>4

\* A step of another task keeps what is known of a fresh pick.
LEMMA FreshFrame ==
    ASSUME NEW p \in Pickers, FreshOK(p), Untouched(p), fresh'[p] = fresh[p],
           UNCHANGED <<transports, health>>
    PROVE  FreshOK(p)'
<1>1. FreshScan(p)'
  BY DEF FreshOK, FreshScan, HealthyBefore, Untouched
<1>2. FreshAnswer(p)'
  BY DEF FreshOK, FreshAnswer, HealthyCount, Untouched
<1>3. FreshRoute(p)'
  BY DEF FreshOK, FreshRoute, Untouched
<1>4. QED
  BY <1>1, <1>2, <1>3 DEF FreshOK

\* The pick's own steps.
LEMMA FreshSteps ==
    ASSUME Basics, NEW p \in Pickers, PickOK(p), FreshOK(p)
    PROVE  BeginPick(p) \/ PickStep(p) => FreshOK(p)'
<1>0. /\ p \in Tasks
      /\ list[p] \in Seq(Transports) /\ ret[p].ts \in Seq(Transports)
      /\ idx[p] \in Nat /\ idx[p] >= 1 /\ Len(transports) \in Nat
      /\ Len(list[p]) \in Nat /\ Len(ret[p].ts) \in Nat
      /\ TypeOK /\ pc \in [Tasks -> PCs]
      /\ idx \in [Tasks -> Nat] /\ list \in [Tasks -> Seq(Transports)]
      /\ ret \in [Tasks -> Answers]
  BY Types DEF Basics, IdxPositive, TypeOK, PoolTypeOK
<1>1. ASSUME BeginPick(p) PROVE FreshOK(p)'
  <2>1. /\ pc[p] = "idle" /\ pc'[p] \in {"scan", "done"}
        /\ UNCHANGED <<transports, health, idx, list, ret>>
    BY <1>0, <1>1 DEF BeginPick, TryScan
  <2>2. list[p] = <<>> /\ idx[p] = 1 /\ ret[p].ts = <<>>
    BY <2>1, NoAnswerType DEF PickOK, Clean
  <2>3. HealthyBefore(idx[p])' = HealthyBefore(1)
    BY <2>1, <2>2 DEF HealthyBefore
  <2>4. Len(list'[p]) = Cardinality(HealthyBefore(idx[p])')
    BY <1>0, <2>1, <2>2, <2>3, Counting
  <2>5. FreshScan(p)'
    BY <2>1, <2>2, <2>4 DEF FreshScan
  <2>6. FreshAnswer(p)' /\ FreshRoute(p)'
    BY <2>1, <2>2 DEF FreshAnswer, FreshRoute
  <2>7. QED
    BY <2>5, <2>6 DEF FreshOK
<1>2. ASSUME FilterHealthy(p), UNCHANGED <<routerVars, histVars>> PROVE FreshOK(p)'
  <2> DEFINE n == idx[p]
             t == transports[n]
             b == Cardinality(HealthyBefore(n))
  <2>1. /\ pc[p] = "scan" /\ pc'[p] = "scan" /\ fresh' = fresh
        /\ UNCHANGED <<transports, health>>
        /\ list'[p] = KeepIfHealthy(list[p], t) /\ idx'[p] = n + 1
        /\ n \in 1..Len(transports)
    BY <1>0, <1>2 DEF FilterHealthy, histVars
  <2>2. t \in Transports
    BY <1>0, <2>1, Types
  <2>3. HealthyBefore(idx[p])' = HealthyBefore(n + 1)
    BY <2>1 DEF HealthyBefore
  <2>4. Cardinality(HealthyBefore(n + 1)) = b + (IF health[t] THEN 1 ELSE 0) /\ b \in Nat
    BY <1>0, <2>1, Counting
  <2> HIDE DEF n, t, b
  <2>5. ASSUME fresh[p]
        PROVE  /\ Len(list'[p]) = Cardinality(HealthyBefore(idx[p])')
               /\ \A i \in 1..Len(list'[p]) : health[list'[p][i]]
    <3>1. Len(list[p]) = b /\ \A i \in 1..Len(list[p]) : health[list[p][i]]
      BY <2>1, <2>5 DEF FreshOK, FreshScan, b, n
    <3>2. CASE health[t]
      <4>1. list'[p] = Append(list[p], t)
        BY <2>1, <3>2 DEF KeepIfHealthy
      <4>2. /\ Len(list'[p]) = Len(list[p]) + 1 /\ list'[p][Len(list[p]) + 1] = t
            /\ \A i \in 1..Len(list[p]) : list'[p][i] = list[p][i]
        BY <1>0, <2>2, <4>1
      <4>3. \A i \in 1..(Len(list[p]) + 1) : i \in 1..Len(list[p]) \/ i = Len(list[p]) + 1
        BY <1>0
      <4>4. \A i \in 1..Len(list'[p]) : health[list'[p][i]]
        BY <3>1, <3>2, <4>2, <4>3
      <4>5. Len(list'[p]) = Cardinality(HealthyBefore(idx[p])')
        BY <2>3, <2>4, <3>1, <3>2, <4>2
      <4>6. QED
        BY <4>4, <4>5
    <3>3. CASE ~health[t]
      <4>1. list'[p] = list[p]
        BY <2>1, <3>3 DEF KeepIfHealthy
      <4>2. Cardinality(HealthyBefore(idx[p])') = b
        BY <2>3, <2>4, <3>3
      <4>3. QED
        BY <3>1, <4>1, <4>2
    <3>4. QED
      BY <3>2, <3>3
  <2>6. FreshScan(p)'
    BY <2>1, <2>5 DEF FreshScan
  <2>7. QED
    BY <2>1, <2>6 DEF FreshOK, FreshAnswer, FreshRoute
<1>3. ASSUME EndScan(p), UNCHANGED <<routerVars, histVars>> PROVE FreshOK(p)'
  <2>1. /\ pc[p] = "scan" /\ pc'[p] = "done" /\ fresh' = fresh
        /\ UNCHANGED <<transports, health>>
        /\ idx[p] > Len(transports)
        /\ ret'[p] = Answer(FALSE, Len(transports), list[p])
    BY <1>0, <1>3 DEF EndScan, ScanDone, Finish, histVars
  <2>2. ret'[p].ts = list[p]
    BY <2>1 DEF Answer
  <2>3. HealthyCount' = HealthyCount
    BY <2>1 DEF HealthyCount
  <2>4. Cardinality(HealthyBefore(idx[p])) = HealthyCount
    BY <1>0, <2>1, Counting
  <2>5. FreshAnswer(p)'
    BY <2>1, <2>2, <2>3, <2>4 DEF FreshOK, FreshScan, FreshAnswer
  <2>6. QED
    BY <2>1, <2>5 DEF FreshOK, FreshScan, FreshRoute
<1>4. ASSUME BeginRoute(p) PROVE FreshOK(p)'
  <2>1. /\ pc[p] = "done" /\ pc'[p] = "filter"
        /\ UNCHANGED <<transports, health, idx, list, ret, fresh>>
    BY <1>0, <1>4 DEF BeginRoute
  <2>2. list[p] = <<>> /\ idx[p] = 1
    BY <2>1 DEF PickOK, Clean
  <2>3. FreshAnswer(p)'
    BY <2>1 DEF FreshOK, FreshAnswer, HealthyCount
  <2>4. FreshRoute(p)'
    BY <1>0, <2>1, <2>2 DEF FreshRoute
  <2>5. QED
    BY <2>1, <2>3, <2>4 DEF FreshOK, FreshScan
<1>5. ASSUME RouteFilter(p) PROVE FreshOK(p)'
  <2> DEFINE ts == ret[p].ts
             t == ts[idx[p]]
  <2>1. /\ pc[p] = "filter" /\ pc'[p] = "filter"
        /\ UNCHANGED <<transports, health, ret, fresh>>
        /\ idx[p] \in 1..Len(ts)
        /\ list'[p] = RouterKeeps(list[p], t) /\ idx'[p] = idx[p] + 1
    BY <1>0, <1>5 DEF RouteFilter, histVars
  <2>2. t \in Transports
    BY <1>0, <2>1
  <2>3. FreshAnswer(p)'
    BY <2>1 DEF FreshOK, FreshAnswer, HealthyCount
  <2>4. ASSUME fresh[p]
        PROVE  Len(list'[p]) = idx'[p] - 1 /\ idx'[p] <= Len(ts) + 1
    <3>1. health[t] /\ Len(list[p]) = idx[p] - 1
      BY <2>1, <2>4 DEF FreshOK, FreshAnswer, FreshRoute
    <3>2. list'[p] = Append(list[p], t)
      BY <2>1, <3>1 DEF RouterKeeps
    <3>3. Len(list'[p]) = Len(list[p]) + 1
      BY <1>0, <2>2, <3>2
    <3>4. QED
      BY <1>0, <2>1, <3>1, <3>3
  <2>5. FreshRoute(p)'
    BY <2>1, <2>4 DEF FreshRoute
  <2>6. QED
    BY <2>1, <2>3, <2>5 DEF FreshOK, FreshScan
<1>6. ASSUME NoHealthyTunnels(p) \/ RandomPick(p) \/ RoundRobinPick(p) \/ EndPick(p)
      PROVE  FreshOK(p)'
  <2>1. pc'[p] \in {"picked", "idle"}
    BY <1>0, <1>6 DEF NoHealthyTunnels, RandomPick, RoundRobinPick, Deliver, EndPick
  <2>2. QED
    BY <2>1 DEF FreshOK, FreshScan, FreshAnswer, FreshRoute
<1>7. QED
  BY <1>1, <1>2, <1>3, <1>4, <1>5, <1>6 DEF PickStep, PickScan

\* Every step keeps what is known of the fresh picks.
LEMMA FreshStep ==
    ASSUME IInv, \A p \in Pickers : FreshOK(p), [Next]_vars
    PROVE  \A p \in Pickers : FreshOK(p)'
<1> SUFFICES ASSUME NEW p \in Pickers PROVE FreshOK(p)'
  OBVIOUS
<1>1. Basics /\ PickOK(p) /\ FreshOK(p)
  BY DEF IInv
<1>2. CASE Changed
  <2>1. ~fresh'[p]
    BY <1>2 DEF Changed
  <2>2. QED
    BY <2>1 DEF FreshOK, FreshScan, FreshAnswer, FreshRoute
<1>3. CASE BeginPick(p) \/ PickStep(p)
  BY <1>1, <1>3, FreshSteps
<1>4. CASE ~Changed /\ ~(BeginPick(p) \/ PickStep(p))
  <2>1. Untouched(p)
    BY <1>1, <1>4, OthersUntouched DEF Next
  <2>2. fresh'[p] = fresh[p]
    BY <1>1, <1>4, OthersFresh DEF Next
  <2>3. UNCHANGED <<transports, health>>
    BY <1>1, <1>4, Windows
  <2>4. QED
    BY <1>1, <2>1, <2>2, <2>3, FreshFrame
<1>5. QED
  BY <1>2, <1>3, <1>4

---------------------------------------------------------------------------
(* The balance.                                                            *)

\* A round-robin pick keeps it: u and v are the uses of two indices before it,
\* x and y their turns.
LEMMA FairPick ==
    ASSUME Basics, Balance, NEW p \in Pickers, FreshOK(p), RoundRobinPick(p)
    PROVE  Balance'
<1> DEFINE n == HealthyCount
           m == Len(list[p])
           c == counter
<1>0. TypeOK /\ n \in Nat /\ \A i \in Nat : Uses(i) \in Nat
  BY Counting DEF Basics
<1>1. /\ c \in Nat /\ c < CounterSize /\ CounterSize \in Nat \ {0} /\ slack \in Nat
  BY <1>0, DispatchAssumption DEF DispatchAssumption, TypeOK
<1>2. /\ pc[p] = "filter" /\ idx[p] > Len(ret[p].ts) /\ list[p] # <<>>
      /\ counter' = (c + 1) % CounterSize
      /\ served' = IF fresh[p] THEN Append(served, c % m) ELSE served
      /\ slack' = slack + (IF fresh[p] THEN 0 ELSE 1)
                        + (IF c + 1 = CounterSize THEN 1 ELSE 0)
      /\ UNCHANGED <<transports, health>>
  BY DEF RoundRobinPick, Filtered, Deliver, Advance
<1>3. HealthyCount' = n
  BY <1>2 DEF HealthyCount
<1>4. m \in Nat \ {0} /\ idx[p] \in Nat /\ Len(ret[p].ts) \in Nat
  BY <1>2, Types DEF Basics
<1>5. fresh[p] => m = n
  BY <1>2, <1>4 DEF FreshOK, FreshAnswer, FreshRoute
<1> SUFFICES ASSUME NEW i \in 0..(n - 1), NEW j \in 0..(n - 1)
             PROVE  Uses(i)' <= Uses(j)' + slack'
                        + (IF Turn(counter', n, i) > Turn(counter', n, j) THEN 1 ELSE 0)
  BY <1>3 DEF Balance
<1>6. n \in Nat \ {0} /\ i \in Nat /\ j \in Nat
  BY <1>0
<1>7. PICK u \in Nat, v \in Nat : u = Uses(i) /\ v = Uses(j)
  BY <1>0, <1>6
<1>8. PICK x \in 0..(n - 1), y \in 0..(n - 1) : x = Turn(c, n, i) /\ y = Turn(c, n, j)
  BY <1>1, <1>6, TurnStep
<1>9. u <= v + slack + (IF x > y THEN 1 ELSE 0)
  BY <1>7, <1>8 DEF Balance
<1> HIDE DEF n, m, c
<1>10. x = y => i = j
  BY <1>1, <1>6, <1>8 DEF Turn
<1>11. (x = 0 <=> i = c % n) /\ (y = 0 <=> j = c % n)
  <2>1. Turn(c, n, i) = 0 <=> i = c % n
    BY <1>1, <1>6, TurnStep
  <2>2. Turn(c, n, j) = 0 <=> j = c % n
    BY <1>1, <1>6, TurnStep
  <2>3. QED
    BY <1>8, <2>1, <2>2
<1>12. CASE fresh[p]
  <2>0. c % n \in Nat
    BY <1>1, <1>6
  <2>1. c % n \in Nat /\ served' = Append(served, c % n)
    BY <1>2, <1>5, <1>12, <2>0
  <2>2. /\ Uses(i)' = u + (IF x = 0 THEN 1 ELSE 0)
        /\ Uses(j)' = v + (IF y = 0 THEN 1 ELSE 0)
    BY <1>0, <1>6, <1>7, <1>11, <2>1, UsesAppend
  <2>3. CASE c + 1 = CounterSize
    <3>1. slack' = slack + 1
      BY <1>1, <1>2, <1>12, <2>3
    <3>2. QED
      BY <1>1, <1>9, <2>2, <3>1
  <2>4. CASE c + 1 # CounterSize
    <3>1. slack' = slack
      BY <1>1, <1>2, <1>12, <2>4
    <3>2. counter' = c + 1
      <4>1. c + 1 \in 0..(CounterSize - 1)
        BY <1>1, <2>4
      <4>2. QED
        BY <1>1, <1>2, <4>1, SmallModulo
    <3>3. /\ Turn(counter', n, i) = IF x = 0 THEN n - 1 ELSE x - 1
          /\ Turn(counter', n, j) = IF y = 0 THEN n - 1 ELSE y - 1
      <4>1. Turn(c + 1, n, i) = IF i = c % n THEN n - 1 ELSE x - 1
        BY <1>1, <1>6, <1>8, TurnStep
      <4>2. Turn(c + 1, n, j) = IF j = c % n THEN n - 1 ELSE y - 1
        BY <1>1, <1>6, <1>8, TurnStep
      <4>3. QED
        BY <1>11, <3>2, <4>1, <4>2
    <3>4. PICK a \in Int, b \in Int : a = Turn(counter', n, i) /\ b = Turn(counter', n, j)
      BY <1>6, <3>3
    <3>5. CASE i = j
      BY <1>1, <1>7, <2>2, <3>1, <3>4, <3>5
    <3>6. CASE i # j
      BY <1>1, <1>6, <1>9, <1>10, <2>2, <3>1, <3>3, <3>4, <3>6
    <3>7. QED
      BY <3>5, <3>6
  <2>5. QED
    BY <2>3, <2>4
<1>13. CASE ~fresh[p]
  <2>1. Uses(i)' = u /\ Uses(j)' = v
    BY <1>2, <1>7, <1>13 DEF Uses
  <2>2. PICK s \in Nat : s = slack' /\ s >= slack + 1
    BY <1>1, <1>2, <1>13
  <2>3. PICK w \in Nat : w = slack
    BY <1>1
  <2>4. u <= v + s
    <3>1. u <= v + w + 1
      BY <1>6, <1>9, <2>3
    <3>2. w + 1 <= s
      BY <2>2, <2>3
    <3>3. QED
      BY <3>1, <3>2
  <2>5. PICK e \in {0, 1} :
           e = IF Turn(counter', n, i) > Turn(counter', n, j) THEN 1 ELSE 0
    OBVIOUS
  <2>6. u <= v + s + e
    BY <2>4, <2>5
  <2>7. QED
    BY <2>1, <2>2, <2>5, <2>6
<1>14. QED
  BY <1>12, <1>13

\* Every step keeps the balance.
LEMMA BalanceStep ==
    ASSUME IInv, Balance, \A p \in Pickers : FreshOK(p), [Next]_vars
    PROVE  Balance'
<1>1. Basics
  BY DEF IInv
<1>2. CASE Changed
  <2>1. served' = <<>> /\ slack' = 0
    BY <1>2 DEF Changed
  <2>2. ASSUME NEW i PROVE Uses(i)' = 0
    <3>1. {n \in 1..Len(served') : served'[n] = i} = {}
      BY <2>1
    <3>2. QED
      BY <3>1, FS_EmptySet DEF Uses
  <2>3. QED
    BY <2>1, <2>2 DEF Balance
<1>3. CASE UNCHANGED <<transports, health, counter, served, slack>>
  BY <1>3 DEF Balance, HealthyCount, Uses
<1>4. ASSUME NEW p \in Pickers, RoundRobinPick(p) PROVE Balance'
  BY <1>1, <1>4, FairPick
<1>5. QED
  BY <1>1, <1>2, <1>3, <1>4, Windows

\* Before the first pick nothing has been used.
LEMMA RotationInit == Init => RotationInv
<1> SUFFICES ASSUME Init PROVE RotationInv
  OBVIOUS
<1>1. IInv
  BY InitInv
<1>2. served = <<>> /\ slack = 0 /\ \A p \in Pickers : ~fresh[p]
  BY DEF Init
<1>3. ASSUME NEW i PROVE Uses(i) = 0
  <2>1. {n \in 1..Len(served) : served[n] = i} = {}
    BY <1>2
  <2>2. QED
    BY <2>1, FS_EmptySet DEF Uses
<1>4. Balance
  BY <1>2, <1>3 DEF Balance
<1>5. \A p \in Pickers : FreshOK(p)
  BY <1>2 DEF FreshOK, FreshScan, FreshAnswer, FreshRoute
<1>6. QED
  BY <1>1, <1>4, <1>5 DEF RotationInv

\* Round robin shares the picks out evenly between two changes, whatever the
\* number of transports and of concurrent picks and whatever the counter's
\* width: no healthy entry is used more than once more often than another,
\* but for picks from an older list and wrap-arounds of fetch_add.
THEOREM RotationIsFair == Spec => []RoundRobinBalanced
<1>1. RotationInv /\ [Next]_vars => RotationInv'
  BY StepInv, FreshStep, BalanceStep DEF RotationInv
<1>2. RotationInv => RoundRobinBalanced
  <2> SUFFICES ASSUME RotationInv, NEW i \in 0..(HealthyCount - 1),
                      NEW j \in 0..(HealthyCount - 1)
               PROVE  Uses(i) <= Uses(j) + 1 + slack
    BY DEF RoundRobinBalanced
  <2>1. TypeOK /\ slack \in Nat
    BY DEF RotationInv, IInv, Basics, TypeOK
  <2>2. HealthyCount \in Nat /\ Uses(i) \in Nat /\ Uses(j) \in Nat
    BY <2>1, Counting
  <2>3. \/ Uses(i) <= Uses(j) + slack + 1
        \/ Uses(i) <= Uses(j) + slack + 0
    BY DEF RotationInv, Balance
  <2>4. QED
    BY <2>1, <2>2, <2>3
<1>3. QED
  BY RotationInit, <1>1, <1>2, PTL DEF Spec
===========================================================================
