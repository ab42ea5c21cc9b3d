------------------------ MODULE BufferedRelayProofs ------------------------
(***************************************************************************)
(* The buffered relay, for any size of its buffer, any number of server    *)
(* connections and any amount of data: what becomes of the agent's bytes   *)
(* when servers fail in the middle of a chunk.                             *)
(***************************************************************************)
EXTENDS BufferedRelay, FiniteSetTheorems, TLAPS

---------------------------------------------------------------------------
(* Rows of consecutive bytes.                                              *)

\* The row of bytes from a + 1 to b.
LEMMA IntervalSeq ==
    ASSUME NEW a \in Nat, NEW b \in Nat, a <= b
    PROVE  /\ Interval(a, b) \in Seq(Nat) /\ Len(Interval(a, b)) = b - a
           /\ \A i \in 1..(b - a) : Interval(a, b)[i] = a + i
BY DEF Interval

LEMMA IntervalIn ==
    ASSUME NEW a \in Nat, NEW b \in Nat, NEW t \in Nat, a <= b, b <= t
    PROVE  Interval(a, b) \in Seq(1..t)
<1> DEFINE n == b - a
<1>1. n \in Nat /\ \A i \in 1..n : a + i \in 1..t
  OBVIOUS
<1>2. Interval(a, b) = [i \in 1..n |-> a + i]
  BY DEF Interval
<1> HIDE DEF n
<1>3. [i \in 1..n |-> a + i] \in Seq(1..t)
  BY <1>1
<1> QED
  BY <1>2, <1>3

\* Two sequences of the same length and elements are the same.
LEMMA SameSeq ==
    ASSUME NEW s \in Seq(Nat), NEW t \in Seq(Nat), NEW n \in Nat,
           Len(s) = n, Len(t) = n, \A i \in 1..n : s[i] = t[i]
    PROVE  s = t
OBVIOUS

\* The start of a sequence has elements of the same set.
LEMMA CutIn ==
    ASSUME NEW S, NEW s \in Seq(S), NEW n \in 0..Len(s)
    PROVE  SubSeq(s, 1, n) \in Seq(S)
<1>1. n \in Nat /\ \A i \in 1..n : s[i] \in S
  OBVIOUS
<1>2. SubSeq(s, 1, n) = [i \in 1..n |-> s[i]]
  OBVIOUS
<1> QED
  BY <1>1, <1>2

\* A sequence followed by the start of another is a start of the two.
LEMMA CutConcat ==
    ASSUME NEW S, NEW s \in Seq(S), NEW t \in Seq(S), NEW n \in 0..Len(t)
    PROVE  /\ Len(s) + n \in 0..Len(s \o t)
           /\ s \o SubSeq(t, 1, n) = SubSeq(s \o t, 1, Len(s) + n)
<1>1. /\ s \o t \in Seq(S) /\ Len(s \o t) = Len(s) + Len(t)
      /\ \A i \in 1..(Len(s) + Len(t)) :
            (s \o t)[i] = IF i <= Len(s) THEN s[i] ELSE t[i - Len(s)]
  OBVIOUS
<1>2. n \in Nat /\ Len(s) \in Nat /\ Len(t) \in Nat /\ n <= Len(t)
  OBVIOUS
<1>3. Len(s) + n \in 0..Len(s \o t)
  BY <1>1, <1>2
<1> DEFINE c == SubSeq(t, 1, n)
           a == s \o c
           u == s \o t
           b == SubSeq(u, 1, Len(s) + n)
<1>4. c \in Seq(S) /\ Len(c) = n /\ \A i \in 1..n : c[i] = t[i]
  <2>1. c \in Seq(S)
    BY CutIn
  <2>2. c = [i \in 1..n |-> t[i]]
    OBVIOUS
  <2> QED
    BY <1>2, <2>1, <2>2
<1> HIDE DEF c
<1>5. /\ a \in Seq(S) /\ Len(a) = Len(s) + n
      /\ \A i \in 1..(Len(s) + n) : a[i] = IF i <= Len(s) THEN s[i] ELSE c[i - Len(s)]
  BY <1>4
<1> HIDE DEF u, a
<1>6. b \in Seq(S) /\ Len(b) = Len(s) + n /\ \A i \in 1..(Len(s) + n) : b[i] = u[i]
  <2>1. u \in Seq(S) /\ Len(s) + n \in 0..Len(u)
    BY <1>1, <1>3 DEF u
  <2>2. b \in Seq(S)
    BY <2>1, CutIn
  <2>3. b = [i \in 1..(Len(s) + n) |-> u[i]]
    BY <2>1
  <2> QED
    BY <1>2, <2>2, <2>3
<1> HIDE DEF b
<1>7. ASSUME NEW i \in 1..(Len(s) + n) PROVE a[i] = b[i]
  <2>1. i \in 1..(Len(s) + Len(t)) /\ (i > Len(s) => i - Len(s) \in 1..n)
    BY <1>2
  <2>2. u[i] = IF i <= Len(s) THEN s[i] ELSE t[i - Len(s)]
    BY <1>1, <2>1 DEF u
  <2> QED
    BY <1>2, <1>4, <1>5, <1>6, <2>1, <2>2
<1>8. a = b
  BY <1>2, <1>5, <1>6, <1>7
<1> QED
  BY <1>3, <1>8 DEF a, b, c, u

\* Rows that meet make one row.
LEMMA IntervalConcat ==
    ASSUME NEW a \in Nat, NEW b \in Nat, NEW c \in Nat, a <= b, b <= c
    PROVE  Interval(a, b) \o Interval(b, c) = Interval(a, c)
<1> DEFINE s == Interval(a, b)
           t == Interval(b, c)
           u == Interval(a, c)
           m == b - a
           k == c - b
           f == s \o t
<1>1. s \in Seq(Nat) /\ Len(s) = m /\ \A i \in 1..m : s[i] = a + i
  BY IntervalSeq
<1>2. t \in Seq(Nat) /\ Len(t) = k /\ \A i \in 1..k : t[i] = b + i
  BY IntervalSeq
<1>3. u \in Seq(Nat) /\ Len(u) = m + k /\ \A i \in 1..(m + k) : u[i] = a + i
  <2>1. a <= c /\ c - a = m + k
    OBVIOUS
  <2>2. u \in Seq(Nat) /\ Len(u) = c - a /\ \A i \in 1..(c - a) : u[i] = a + i
    BY <2>1, IntervalSeq
  <2> HIDE DEF u, m, k
  <2> QED
    BY <2>1, <2>2
<1>4. m \in Nat /\ k \in Nat /\ b = a + m
  OBVIOUS
<1> HIDE DEF s, t, u, m, k
<1>5. f \in Seq(Nat) /\ Len(f) = m + k
  <2>1. s \in Seq(Nat) /\ t \in Seq(Nat)
    BY <1>1, <1>2
  <2>2. f \in Seq(Nat) /\ Len(f) = Len(s) + Len(t)
    BY <2>1
  <2> HIDE DEF f
  <2> QED
    BY <2>2, <1>1, <1>2
<1>6. \A i \in 1..(m + k) : f[i] = u[i]
  <2> SUFFICES ASSUME NEW i \in 1..(m + k) PROVE f[i] = u[i]
    OBVIOUS
  <2>1. CASE i <= m
    <3>1. f[i] = s[i]
      BY <2>1, <1>1, <1>2, <1>4
    <3>2. i \in 1..m
      BY <2>1, <1>4
    <3> QED
      BY <3>1, <3>2, <1>1, <1>3
  <2>2. CASE i > m
    <3>1. f[i] = t[i - m]
      BY <2>2, <1>1, <1>2, <1>4
    <3>2. i - m \in 1..k
      BY <2>2, <1>4
    <3>3. t[i - m] = b + (i - m)
      BY <3>2, <1>2
    <3>4. b + (i - m) = a + i
      BY <1>4
    <3> QED
      BY <3>1, <3>3, <3>4, <1>3
  <2> HIDE DEF f
  <2> QED
    BY <2>1, <2>2, <1>4
<1> HIDE DEF f
<1>7. f = u
  <2>1. m + k \in Nat
    BY <1>4
  <2> QED
    BY <2>1, <1>3, <1>5, <1>6, SameSeq
<1> QED
  BY <1>7 DEF f, s, t, u

\* The start of a row is a row.
LEMMA IntervalCut ==
    ASSUME NEW a \in Nat, NEW b \in Nat, NEW n \in Nat, a + n <= b
    PROVE  SubSeq(Interval(a, b), 1, n) = Interval(a, a + n)
<1> DEFINE s == Interval(a, b)
           t == Interval(a, a + n)
<1>1. a <= b /\ a + n \in Nat /\ a <= a + n /\ (a + n) - a = n /\ n <= b - a
  OBVIOUS
<1>2. s \in Seq(Nat) /\ Len(s) = b - a /\ \A i \in 1..(b - a) : s[i] = a + i
  BY <1>1, IntervalSeq
<1>3. t \in Seq(Nat) /\ Len(t) = n /\ \A i \in 1..n : t[i] = a + i
  <2>1. /\ t \in Seq(Nat) /\ Len(t) = (a + n) - a
        /\ \A i \in 1..((a + n) - a) : t[i] = a + i
    BY <1>1, IntervalSeq
  <2> HIDE DEF t
  <2> QED
    BY <2>1, <1>1
<1> HIDE DEF s, t
<1>4. n \in 0..Len(s)
  BY <1>1, <1>2
<1>5. SubSeq(s, 1, n) \in Seq(Nat)
  BY <1>2, <1>4, CutIn
<1>6. SubSeq(s, 1, n) = [i \in 1..n |-> s[i]]
  BY <1>2, <1>4
<1>7. Len(SubSeq(s, 1, n)) = n /\ \A i \in 1..n : SubSeq(s, 1, n)[i] = s[i]
  BY <1>6
<1>8. \A i \in 1..n : s[i] = a + i
  BY <1>1, <1>2
<1>9. SubSeq(s, 1, n) = t
  BY <1>3, <1>5, <1>7, <1>8, SameSeq
<1> QED
  BY <1>9 DEF s, t

\* A row of no bytes.
LEMMA IntervalEmpty ==
    ASSUME NEW a \in Nat
    PROVE  Interval(a, a) = <<>>
<1>1. a - a = 0
  OBVIOUS
<1>2. Interval(a, a) \in Seq(Nat) /\ Len(Interval(a, a)) = 0
  BY <1>1, IntervalSeq
<1> QED
  BY <1>2

\* The bytes of a row.
LEMMA IntervalElements ==
    ASSUME NEW a \in Nat, NEW b \in Nat, a <= b
    PROVE  Elements(Interval(a, b)) = (a + 1)..b
<1> DEFINE s == Interval(a, b)
<1>1. s \in Seq(Nat) /\ Len(s) = b - a /\ \A i \in 1..(b - a) : s[i] = a + i
  BY IntervalSeq
<1> HIDE DEF s
<1>2. ASSUME NEW x \in (a + 1)..b PROVE x \in Elements(s)
  <2>1. x - a \in 1..(b - a) /\ a + (x - a) = x
    OBVIOUS
  <2> QED
    BY <1>1, <2>1 DEF Elements
<1>3. ASSUME NEW x \in Elements(s) PROVE x \in (a + 1)..b
  <2>1. PICK i \in 1..(b - a) : x = s[i]
    BY <1>1 DEF Elements
  <2> QED
    BY <1>1, <2>1
<1>4. Elements(s) = (a + 1)..b
  BY <1>2, <1>3
<1> QED
  BY <1>4 DEF s

---------------------------------------------------------------------------
(* The inductive invariant.                                                *)

\* What the relay holds of the agent's stream, and how far it is past it.
Held  == IF pc = "idle" THEN buffer ELSE Uploading
Front == taken - Len(Held)

Counts ==
    /\ pc \in {"idle", "flush", "select", "toServer", "toAgent"}
    /\ up \in Nat /\ down \in Nat /\ totalUp \in Nat /\ totalDown \in Nat
    /\ partial \in Nat
    /\ sent \in Nat /\ taken \in Nat /\ taken <= sent /\ sent <= MaxUp
    /\ serverSent \in Nat /\ serverTaken \in Nat
    /\ serverTaken <= serverSent /\ serverSent <= MaxDown
    /\ session \in Nat /\ session <= MaxSessions
    /\ pc # "idle" => session > 0
    /\ dropped \subseteq 1..MaxUp

Ended == agentEnd \in Ends /\ serverEnd \in Ends

\* A call has taken the buffer, runs only for a live agent, and has a chunk in
\* hand exactly between a read and the write that passes it on.
Phases ==
    /\ agentConnected \in BOOLEAN
    /\ pc # "idle" => buffer = <<>> /\ agentConnected
    /\ pc \in {"idle", "select"} => hand = <<>>
    /\ pc = "toAgent" => hand \in Seq(1..MaxDown)

\* The bytes held are the last ones taken, and fit one read.
HeldRow ==
    /\ Held = Interval(Front, taken)
    /\ Front \in Nat /\ Front <= taken /\ taken - Front <= BufSize
    /\ pc \in {"flush", "toServer"} => Front < taken

Bounds == [1..MaxSessions -> 0..MaxUp]

\* Each of the servers up to last got the row of bytes from lo[s] + 1 to
\* hi[s], the later ones nothing.  No row reaches a chunk past the front, nor
\* past the start of a later row, and what it is past that is part of a failed
\* write.  All bytes up to the front are in a row or gone.
RowsAt(lo, hi, got, last, front, gone, part) ==
    /\ \A s \in 1..MaxSessions : lo[s] <= hi[s] /\ got[s] = Interval(lo[s], hi[s])
    /\ \A s \in 1..MaxSessions : s > last => lo[s] = hi[s]
    /\ \A s \in 1..last : hi[s] < front + BufSize /\ hi[s] <= front + part
    /\ \A s, u \in 1..last : s < u =>
          hi[s] < lo[u] + BufSize /\ hi[s] <= lo[u] + part
    /\ \A x \in 1..front :
          x \in gone \/ \E s \in 1..MaxSessions : lo[s] < x /\ x <= hi[s]

\* While a call runs its server has got everything up to the front, and before
\* the flush nothing.
Current(lo, hi) ==
    /\ pc # "idle" => hi[session] = Front
    /\ pc = "flush" => lo[session] = hi[session]

Rows == \E lo, hi \in Bounds :
    RowsAt(lo, hi, serverGot, session, Front, dropped, partial) /\ Current(lo, hi)

Got == serverGot \in [1..MaxSessions -> Seq(1..MaxUp)]

\* The agent has got all that was read for it; a failed write cuts it short.
Down ==
    /\ agentGot \in Seq(1..MaxDown) /\ fetched \in Seq(1..MaxDown)
    /\ DownLossless
    /\ ~agentConnected => pc = "idle"

Totals == IsFiniteSet(Arrivals) /\ TotalsExact

RelayInv == Counts /\ Ended /\ Phases /\ HeldRow /\ Got /\ Rows /\ Down /\ Totals

---------------------------------------------------------------------------
(* What a write and a new connection do to the rows.                       *)

\* The current server, which has got all up to the front, gets k bytes more.
LEMMA RowsUpload ==
    ASSUME NEW lo \in Bounds, NEW hi \in Bounds, NEW last \in 1..MaxSessions,
           NEW front \in Nat, NEW next \in Nat, NEW k \in Nat,
           NEW part \in Nat, NEW more \in Nat,
           NEW gone, NEW goner, NEW got, DOMAIN got = 1..MaxSessions,
           RowsAt(lo, hi, got, last, front, gone, part),
           hi[last] = front, front <= next, part <= more, gone \subseteq goner,
           front + k <= MaxUp,
           front + k < next + BufSize, front + k <= next + more,
           \A x \in (front + 1)..next : x <= front + k \/ x \in goner
    PROVE  RowsAt(lo, [hi EXCEPT ![last] = front + k],
                  [got EXCEPT ![last] = @ \o Interval(front, front + k)],
                  last, next, goner, more)
<1> DEFINE hj == [hi EXCEPT ![last] = front + k]
           gj == [got EXCEPT ![last] = @ \o Interval(front, front + k)]
<1>0. /\ BufSize \in Nat /\ BufSize > 0 /\ MaxSessions \in Nat /\ MaxUp \in Nat
  BY RelayAssumption
<1>1. \A s \in 1..MaxSessions : lo[s] \in Nat /\ hi[s] \in Nat
  BY <1>0 DEF Bounds
<1>2. /\ hj[last] = front + k
      /\ \A s \in 1..MaxSessions : s # last => hj[s] = hi[s]
      /\ \A s \in 1..MaxSessions : hj[s] \in Nat /\ hi[s] <= hj[s]
  BY <1>0, <1>1 DEF Bounds
<1>3. ASSUME NEW s \in 1..MaxSessions
      PROVE  lo[s] <= hj[s] /\ gj[s] = Interval(lo[s], hj[s])
  <2>1. lo[s] <= hi[s] /\ got[s] = Interval(lo[s], hi[s])
    BY DEF RowsAt
  <2>2. CASE s = last
    <3>1. gj[s] = Interval(lo[s], front) \o Interval(front, front + k)
      BY <2>1, <2>2
    <3>2. lo[s] \in Nat /\ lo[s] <= front /\ front + k \in Nat /\ front <= front + k
      BY <1>1, <2>1, <2>2
    <3>3. Interval(lo[s], front) \o Interval(front, front + k) = Interval(lo[s], front + k)
      BY <3>2, IntervalConcat
    <3> HIDE DEF hj, gj
    <3>4. hj[s] = front + k /\ lo[s] <= front + k
      BY <1>2, <2>2, <3>2
    <3> QED
      BY <3>1, <3>3, <3>4
  <2>3. CASE s # last
    <3>1. gj[s] = got[s]
      BY <2>3
    <3> QED
      BY <1>2, <2>1, <2>3, <3>1
  <2> QED
    BY <2>2, <2>3
<1> HIDE DEF hj, gj
<1>4. \A s \in 1..MaxSessions : s > last => lo[s] = hj[s]
  BY <1>2 DEF RowsAt
<1>5. ASSUME NEW s \in 1..last
      PROVE  hj[s] < next + BufSize /\ hj[s] <= next + more
  <2>1. s \in 1..MaxSessions
    BY <1>0
  <2>2. hi[s] < front + BufSize /\ hi[s] <= front + part
    BY DEF RowsAt
  <2> QED
    BY <2>1, <2>2, <1>0, <1>1, <1>2
<1>6. ASSUME NEW s \in 1..last, NEW u \in 1..last, s < u
      PROVE  hj[s] < lo[u] + BufSize /\ hj[s] <= lo[u] + more
  <2>1. s \in 1..MaxSessions /\ u \in 1..MaxSessions /\ s # last
    BY <1>0, <1>6
  <2>2. hi[s] < lo[u] + BufSize /\ hi[s] <= lo[u] + part
    BY <1>6 DEF RowsAt
  <2>3. hj[s] = hi[s]
    BY <1>2, <2>1
  <2> QED
    BY <2>1, <2>2, <2>3, <1>0, <1>1
<1>7. ASSUME NEW x \in 1..next
      PROVE  x \in goner \/ \E s \in 1..MaxSessions : lo[s] < x /\ x <= hj[s]
  <2>1. CASE x <= front
    <3>1. x \in gone \/ \E s \in 1..MaxSessions : lo[s] < x /\ x <= hi[s]
      BY <2>1 DEF RowsAt
    <3>2. ASSUME NEW s \in 1..MaxSessions, lo[s] < x, x <= hi[s]
          PROVE  lo[s] < x /\ x <= hj[s]
      BY <3>2, <1>1, <1>2
    <3> QED
      BY <3>1, <3>2
  <2>2. CASE x > front
    <3>1. x <= front + k \/ x \in goner
      BY <2>2
    <3>2. lo[last] <= front /\ lo[last] \in Nat
      BY <1>1 DEF RowsAt
    <3>3. lo[last] < x
      BY <2>2, <3>2
    <3> QED
      BY <1>2, <3>1, <3>3
  <2> QED
    BY <2>1, <2>2
<1>8. RowsAt(lo, hj, gj, last, next, goner, more)
  BY <1>3, <1>4, <1>5, <1>6, <1>7 DEF RowsAt
<1> QED
  BY <1>8 DEF hj, gj

\* The next server starts at the front.
LEMMA RowsNext ==
    ASSUME NEW lo \in Bounds, NEW hi \in Bounds, NEW last \in Nat,
           last < MaxSessions, NEW front \in 0..MaxUp, NEW part \in Nat,
           NEW gone, NEW got,
           RowsAt(lo, hi, got, last, front, gone, part)
    PROVE  RowsAt([lo EXCEPT ![last + 1] = front], [hi EXCEPT ![last + 1] = front],
                  got, last + 1, front, gone, part)
<1> DEFINE lj == [lo EXCEPT ![last + 1] = front]
           hj == [hi EXCEPT ![last + 1] = front]
<1>0. /\ BufSize \in Nat /\ BufSize > 0 /\ MaxSessions \in Nat /\ MaxUp \in Nat
      /\ last + 1 \in 1..MaxSessions /\ front \in Nat
  BY RelayAssumption
<1>1. \A s \in 1..MaxSessions : lo[s] \in Nat /\ hi[s] \in Nat
  BY <1>0 DEF Bounds
<1>2. /\ lj[last + 1] = front /\ hj[last + 1] = front
      /\ \A s \in 1..MaxSessions : s # last + 1 => lj[s] = lo[s] /\ hj[s] = hi[s]
  BY <1>0 DEF Bounds
<1> HIDE DEF lj, hj
<1>3. ASSUME NEW s \in 1..MaxSessions
      PROVE  lj[s] <= hj[s] /\ got[s] = Interval(lj[s], hj[s])
  <2>1. lo[s] <= hi[s] /\ got[s] = Interval(lo[s], hi[s])
    BY DEF RowsAt
  <2>2. CASE s = last + 1
    <3>1. lo[s] = hi[s]
      BY <2>2, <1>0 DEF RowsAt
    <3>2. Interval(lo[s], hi[s]) = <<>>
      BY <3>1, <1>1, IntervalEmpty
    <3>3. Interval(front, front) = <<>>
      BY <1>0, IntervalEmpty
    <3> QED
      BY <1>0, <1>2, <2>1, <2>2, <3>2, <3>3
  <2> QED
    BY <1>2, <2>1, <2>2
<1>4. \A s \in 1..MaxSessions : s > last + 1 => lj[s] = hj[s]
  BY <1>0, <1>2 DEF RowsAt
<1>5. ASSUME NEW s \in 1..(last + 1)
      PROVE  hj[s] < front + BufSize /\ hj[s] <= front + part
  <2>1. CASE s = last + 1
    BY <2>1, <1>0, <1>2
  <2>2. CASE s # last + 1
    <3>1. s \in 1..last /\ s \in 1..MaxSessions
      BY <2>2, <1>0
    <3> QED
      BY <2>2, <3>1, <1>2 DEF RowsAt
  <2> QED
    BY <2>1, <2>2
<1>6. ASSUME NEW s \in 1..(last + 1), NEW u \in 1..(last + 1), s < u
      PROVE  hj[s] < lj[u] + BufSize /\ hj[s] <= lj[u] + part
  <2>1. s \in 1..last /\ s \in 1..MaxSessions /\ s # last + 1
    BY <1>0, <1>6
  <2>2. CASE u = last + 1
    BY <1>5, <1>2, <2>2
  <2>3. CASE u # last + 1
    <3>1. u \in 1..last /\ u \in 1..MaxSessions
      BY <2>3, <1>0
    <3> QED
      BY <1>2, <1>6, <2>1, <2>3, <3>1 DEF RowsAt
  <2> QED
    BY <2>2, <2>3
<1>7. ASSUME NEW x \in 1..front
      PROVE  x \in gone \/ \E s \in 1..MaxSessions : lj[s] < x /\ x <= hj[s]
  <2>1. x \in gone \/ \E s \in 1..MaxSessions : lo[s] < x /\ x <= hi[s]
    BY DEF RowsAt
  <2>2. ASSUME NEW s \in 1..MaxSessions, lo[s] < x, x <= hi[s]
        PROVE  s # last + 1
    <3>1. s = last + 1 => lo[s] = hi[s]
      BY <1>0 DEF RowsAt
    <3> QED
      BY <2>2, <3>1, <1>1
  <2> QED
    BY <2>1, <2>2, <1>2
<1>8. RowsAt(lj, hj, got, last + 1, front, gone, part)
  BY <1>3, <1>4, <1>5, <1>6, <1>7 DEF RowsAt
<1> QED
  BY <1>8 DEF lj, hj

---------------------------------------------------------------------------
(* What the steps have in common.                                          *)

LEMMA Constants ==
    /\ BufSize \in Nat /\ BufSize > 0
    /\ MaxUp \in Nat /\ MaxDown \in Nat /\ MaxSessions \in Nat
BY RelayAssumption

\* The chunk in hand on its way to the server.
LEMMA HandRow ==
    ASSUME Counts, HeldRow, pc \in {"flush", "toServer"}
    PROVE  /\ Held = hand /\ hand = Interval(Front, taken)
           /\ hand \in Seq(1..MaxUp) /\ hand \in Seq(Nat)
           /\ Len(hand) \in Nat /\ Len(hand) > 0 /\ Len(hand) <= BufSize
           /\ Front + Len(hand) = taken
           /\ \A i \in 1..Len(hand) : hand[i] = Front + i
           /\ \A n \in 0..Len(hand) : SubSeq(hand, 1, n) = Interval(Front, Front + n)
<1>1. Held = hand
  BY DEF Held, Uploading
<1>2. hand = Interval(Front, taken) /\ Front \in Nat /\ taken \in Nat /\ Front <= taken
      /\ Front < taken /\ taken - Front <= BufSize /\ taken <= MaxUp /\ MaxUp \in Nat
      /\ BufSize \in Nat
  BY <1>1, Constants DEF HeldRow, Counts
<1> HIDE DEF Front
<1>3. hand \in Seq(Nat) /\ Len(hand) = taken - Front
      /\ \A i \in 1..(taken - Front) : hand[i] = Front + i
  BY <1>2, IntervalSeq
<1>4. hand \in Seq(1..MaxUp)
  BY <1>2, IntervalIn
<1>5. Len(hand) \in Nat /\ Len(hand) > 0 /\ Len(hand) <= BufSize
      /\ Front + Len(hand) = taken
  BY <1>2, <1>3
<1>6. ASSUME NEW n \in 0..Len(hand)
      PROVE  SubSeq(hand, 1, n) = Interval(Front, Front + n)
  <2>1. n \in Nat /\ Front + n <= taken
    BY <1>2, <1>5
  <2> QED
    BY <1>2, <2>1, IntervalCut
<1> QED
  BY <1>1, <1>2, <1>3, <1>4, <1>5, <1>6

\* Nothing is held, now or after a step.
LEMMA HeldNothing ==
    Counts /\ pc \notin {"flush", "toServer"} /\ Held = <<>> => HeldRow /\ Front = taken
<1> SUFFICES ASSUME Counts, pc \notin {"flush", "toServer"}, Held = <<>>
             PROVE  HeldRow /\ Front = taken
  OBVIOUS
<1>1. taken \in Nat
  BY DEF Counts
<1>2. Front = taken
  BY <1>1 DEF Front
<1>3. Held = Interval(Front, taken)
  BY <1>1, <1>2, IntervalEmpty
<1> HIDE DEF Front
<1>4. taken - Front <= BufSize
  BY <1>1, <1>2, Constants
<1> QED
  BY <1>1, <1>2, <1>3, <1>4 DEF HeldRow

LEMMA HeldNothingNext ==
    Counts' /\ pc' \notin {"flush", "toServer"} /\ Held' = <<>>
        => HeldRow' /\ Front' = taken'
<1>1. (Counts /\ pc \notin {"flush", "toServer"} /\ Held = <<>>
           => HeldRow /\ Front = taken)'
  BY HeldNothing, PTL
<1> QED
  BY <1>1

\* A step that sends nothing to a server.
LEMMA RowsSame ==
    ASSUME Rows, serverGot' = serverGot, session' = session, Front' = Front,
           dropped' = dropped, partial' = partial,
           pc' # "idle" => pc # "idle", pc' = "flush" => pc = "flush"
    PROVE  Rows'
<1>1. PICK lo \in Bounds, hi \in Bounds :
        /\ RowsAt(lo, hi, serverGot, session, Front, dropped, partial)
        /\ Current(lo, hi)
  BY DEF Rows
<1> HIDE DEF Front
<1>2. RowsAt(lo, hi, serverGot', session', Front', dropped', partial')
  BY <1>1
<1>3. Current(lo, hi)'
  BY <1>1 DEF Current
<1> QED
  BY <1>2, <1>3 DEF Rows, Bounds

\* A write of n bytes of the chunk.
LEMMA RowsWrite ==
    ASSUME Counts, HeldRow, Got, Rows, pc \in {"flush", "toServer"},
           NEW n \in 0..Len(hand), Upload(n), session' = session,
           Front' \in Nat, Front <= Front', partial' \in Nat, partial <= partial',
           dropped \subseteq dropped',
           Front + n < Front' + BufSize, Front + n <= Front' + partial',
           \A x \in (Front + 1)..Front' : x <= Front + n \/ x \in dropped',
           pc' # "flush", pc' # "idle" => Front' = Front + n
    PROVE  Rows'
<1>1. PICK lo \in Bounds, hi \in Bounds :
        /\ RowsAt(lo, hi, serverGot, session, Front, dropped, partial)
        /\ Current(lo, hi)
  BY DEF Rows
<1>2. SubSeq(hand, 1, n) = Interval(Front, Front + n) /\ Front + Len(hand) = taken
      /\ Len(hand) \in Nat
  BY HandRow
<1>3. hi[session] = Front /\ Front \in Nat /\ session \in 1..MaxSessions
      /\ partial \in Nat /\ taken \in Nat /\ taken <= MaxUp
  BY <1>1, Constants DEF Current, HeldRow, Counts
<1>4. DOMAIN serverGot = 1..MaxSessions
  BY DEF Got
<1> HIDE DEF Front
<1>5. n \in Nat /\ Front + n <= MaxUp
  BY <1>2, <1>3, Constants
<1>6. serverGot' = [serverGot EXCEPT ![session] = @ \o Interval(Front, Front + n)]
  BY <1>2 DEF Upload
<1>7. PICK hj : hj = [hi EXCEPT ![session] = Front + n]
  OBVIOUS
<1>8. hj \in Bounds /\ hj[session] = Front + n
  BY <1>3, <1>5, <1>7, Constants DEF Bounds
<1>11. RowsAt(lo, hj, serverGot', session, Front', dropped', partial')
  BY <1>1, <1>3, <1>4, <1>5, <1>6, <1>7, RowsUpload
<1>9. Current(lo, hj)'
  BY <1>8 DEF Current
<1>10. RowsAt(lo, hj, serverGot, session, Front, dropped, partial)'
  BY <1>11
<1> QED
  BY <1>8, <1>9, <1>10 DEF Rows, Bounds

LEMMA GotWrite ==
    ASSUME Counts, HeldRow, Got, pc \in {"flush", "toServer"},
           NEW n \in 0..Len(hand), Upload(n)
    PROVE  Got'
<1>1. hand \in Seq(1..MaxUp)
  BY HandRow
<1>2. SubSeq(hand, 1, n) \in Seq(1..MaxUp)
  BY <1>1, CutIn
<1>3. \A s \in 1..MaxSessions :
         serverGot[s] \in Seq(1..MaxUp) /\ serverGot[s] \o SubSeq(hand, 1, n) \in Seq(1..MaxUp)
  BY <1>2 DEF Got
<1> QED
  BY <1>3 DEF Got, Upload

\* The bytes that arrive with a write are n new ones.
LEMMA TotalsWrite ==
    ASSUME Counts, HeldRow, Got, Totals, pc \in {"flush", "toServer"},
           NEW n \in 0..Len(hand), Upload(n),
           totalUp' + up' + partial' = totalUp + up + partial + n
    PROVE  Totals'
<1> DEFINE L == Len(serverGot[session])
           New == {session} \X ((L + 1)..(L + n))
<1>1. session \in 1..MaxSessions /\ n \in Nat /\ Len(hand) \in Nat /\ hand \in Seq(1..MaxUp)
  BY HandRow, Constants DEF Counts
<1>2. serverGot[session] \in Seq(1..MaxUp) /\ L \in Nat
  BY <1>1 DEF Got
<1>3. Len(SubSeq(hand, 1, n)) = n /\ SubSeq(hand, 1, n) \in Seq(1..MaxUp)
  <2>1. SubSeq(hand, 1, n) \in Seq(1..MaxUp)
    BY <1>1, CutIn
  <2>2. SubSeq(hand, 1, n) = [i \in 1..n |-> hand[i]]
    BY <1>1
  <2> QED
    BY <1>1, <2>1, <2>2
<1>4. Len(serverGot'[session]) = L + n
  <2>1. serverGot'[session] = serverGot[session] \o SubSeq(hand, 1, n)
    BY <1>1 DEF Upload, Got
  <2>2. ASSUME NEW a \in Seq(1..MaxUp), NEW b \in Seq(1..MaxUp)
        PROVE  Len(a \o b) = Len(a) + Len(b)
    OBVIOUS
  <2> QED
    BY <2>1, <2>2, <1>2, <1>3
<1>5. \A s \in 1..MaxSessions : s # session => serverGot'[s] = serverGot[s]
  BY DEF Upload, Got
<1> HIDE DEF L
<1>6. Arrivals' = Arrivals \cup New
  <2>1. ASSUME NEW e \in Arrivals' PROVE e \in Arrivals \cup New
    <3>1. PICK s \in 1..MaxSessions : e \in {s} \X (1..Len(serverGot'[s]))
      BY DEF Arrivals
    <3>2. PICK i \in 1..Len(serverGot'[s]) : e = <<s, i>>
      BY <3>1
    <3>3. CASE s # session
      BY <3>2, <3>3, <1>5 DEF Arrivals
    <3>4. CASE s = session
      <4>1. i \in 1..L \/ i \in (L + 1)..(L + n)
        BY <3>2, <3>4, <1>1, <1>2, <1>4
      <4>2. CASE i \in 1..L
        BY <3>2, <3>4, <4>2 DEF Arrivals, L
      <4>3. CASE i \in (L + 1)..(L + n)
        BY <3>2, <3>4, <4>3
      <4> QED
        BY <4>1, <4>2, <4>3
    <3> QED
      BY <3>3, <3>4
  <2>2. ASSUME NEW e \in Arrivals PROVE e \in Arrivals'
    <3>1. PICK s \in 1..MaxSessions : e \in {s} \X (1..Len(serverGot[s]))
      BY DEF Arrivals
    <3>2. PICK i \in 1..Len(serverGot[s]) : e = <<s, i>>
      BY <3>1
    <3>3. i \in 1..Len(serverGot'[s])
      <4>1. CASE s # session
        BY <3>2, <4>1, <1>5
      <4>2. CASE s = session
        BY <3>2, <4>2, <1>1, <1>2, <1>4 DEF L
      <4> QED
        BY <4>1, <4>2
    <3> QED
      BY <3>2, <3>3 DEF Arrivals
  <2>3. ASSUME NEW e \in New PROVE e \in Arrivals'
    <3>1. PICK i \in (L + 1)..(L + n) : e = <<session, i>>
      OBVIOUS
    <3>2. i \in 1..Len(serverGot'[session])
      BY <3>1, <1>1, <1>2, <1>4
    <3> QED
      BY <3>1, <3>2, <1>1 DEF Arrivals
  <2> QED
    BY <2>1, <2>2, <2>3
<1>7. Arrivals \cap New = {}
  <2>1. ASSUME NEW e \in Arrivals, e \in New PROVE FALSE
    <3>1. PICK s \in 1..MaxSessions : e \in {s} \X (1..Len(serverGot[s]))
      BY DEF Arrivals
    <3>2. PICK i \in 1..Len(serverGot[s]) : e = <<s, i>>
      BY <3>1
    <3>3. PICK j \in (L + 1)..(L + n) : e = <<session, j>>
      BY <2>1
    <3>4. s = session /\ i = j
      BY <3>2, <3>3
    <3>5. i \in 1..L
      BY <3>2, <3>4 DEF L
    <3> QED
      BY <3>3, <3>4, <3>5, <1>1, <1>2
  <2> QED
    BY <2>1
<1>8. IsFiniteSet(New) /\ Cardinality(New) = n
  <2>1. IsFiniteSet((L + 1)..(L + n)) /\ Cardinality((L + 1)..(L + n)) = n
    <3>1. L + 1 \in Int /\ L + n \in Int
      BY <1>1, <1>2
    <3>2. /\ IsFiniteSet((L + 1)..(L + n))
          /\ Cardinality((L + 1)..(L + n)) =
                IF L + 1 > L + n THEN 0 ELSE (L + n) - (L + 1) + 1
      BY <3>1, FS_Interval
    <3> QED
      BY <3>2, <1>1, <1>2
  <2>2. IsFiniteSet({session}) /\ Cardinality({session}) = 1
    BY FS_Singleton
  <2>3. IsFiniteSet(New) /\ Cardinality(New) = Cardinality({session}) * Cardinality((L + 1)..(L + n))
    BY <2>1, <2>2, FS_Product
  <2> HIDE DEF New
  <2> QED
    BY <1>1, <2>1, <2>2, <2>3
<1> HIDE DEF New
<1>9. IsFiniteSet(Arrivals) /\ Cardinality(Arrivals) = totalUp + up + partial
  BY DEF Totals, TotalsExact
<1>10. /\ IsFiniteSet(Arrivals \cup New)
       /\ Cardinality(Arrivals \cup New) =
             Cardinality(Arrivals) + Cardinality(New) - Cardinality(Arrivals \cap New)
  BY <1>8, <1>9, FS_Union
<1>11. Cardinality(Arrivals \cap New) = 0
  BY <1>7, FS_EmptySet
<1>12. Cardinality(Arrivals') = totalUp + up + partial + n
  BY <1>1, <1>6, <1>8, <1>9, <1>10, <1>11 DEF Counts
<1>13. IsFiniteSet(Arrivals')
  BY <1>6, <1>10
<1> QED
  BY <1>12, <1>13 DEF Totals, TotalsExact

LEMMA TotalsSame ==
    ASSUME Totals, serverGot' = serverGot,
           totalUp' + up' + partial' = totalUp + up + partial
    PROVE  Totals'
<1>1. Arrivals' = Arrivals
  BY DEF Arrivals
<1> QED
  BY <1>1 DEF Totals, TotalsExact

\* A step that has nothing to do with the agent's receiving side.
LEMMA DownSame ==
    ASSUME Down, agentConnected' = agentConnected, agentGot' = agentGot,
           fetched' = fetched, pc # "toAgent", pc' # "toAgent",
           ~agentConnected => pc' = "idle"
    PROVE  Down'
<1>1. DownLossless'
  BY DEF Down, DownLossless
<1> QED
  BY <1>1 DEF Down

---------------------------------------------------------------------------
(* The invariant holds at the start and is kept by every step.             *)

LEMMA InitInv == Init => RelayInv
<1> SUFFICES ASSUME Init PROVE RelayInv
  OBVIOUS
<1>1. Counts
  BY Constants DEF Init, Counts
<1>2. Ended /\ Phases
  BY DEF Init, Ended, Ends, Phases
<1>3. HeldRow /\ Front = 0
  <2>1. pc \notin {"flush", "toServer"} /\ Held = <<>> /\ taken = 0
    BY DEF Init, Held
  <2> QED
    BY <1>1, <2>1, HeldNothing
<1>4. Got
  BY DEF Init, Got
<1>5. Rows
  <2> DEFINE zero == [s \in 1..MaxSessions |-> 0]
  <2>1. zero \in Bounds /\ \A s \in 1..MaxSessions : zero[s] = 0
    BY Constants DEF Bounds
  <2> HIDE DEF zero
  <2>2. \A s \in 1..MaxSessions : zero[s] <= zero[s] /\ serverGot[s] = Interval(zero[s], zero[s])
    <3>1. Interval(0, 0) = <<>>
      BY IntervalEmpty
    <3> QED
      BY <2>1, <3>1 DEF Init
  <2>3. RowsAt(zero, zero, serverGot, session, 0, dropped, partial)
    BY <2>1, <2>2 DEF RowsAt, Init
  <2>4. Current(zero, zero)
    BY DEF Current, Init
  <2> HIDE DEF Front
  <2> QED
    BY <1>3, <2>1, <2>3, <2>4 DEF Rows
<1>6. Down
  <2>1. agentGot \in Seq(1..MaxDown) /\ fetched \in Seq(1..MaxDown)
    BY DEF Init
  <2> QED
    BY <2>1 DEF Init, Down, DownLossless
<1>7. Totals
  <2>1. \A s \in 1..MaxSessions : Len(serverGot[s]) = 0
    BY DEF Init
  <2>2. ASSUME NEW s \in 1..MaxSessions PROVE {s} \X (1..Len(serverGot[s])) = {}
    BY <2>1
  <2>3. Arrivals = {}
    BY <2>2 DEF Arrivals
  <2> QED
    BY <2>3, FS_EmptySet DEF Init, Totals, TotalsExact
<1> QED
  BY <1>1, <1>2, <1>3, <1>4, <1>5, <1>6, <1>7 DEF RelayInv

LEMMA PeerInv == RelayInv /\ PeerStep => RelayInv'
<1> SUFFICES ASSUME RelayInv, PeerStep PROVE RelayInv'
  OBVIOUS
<1> USE DEF RelayInv
<1>1. UNCHANGED <<relayVars, taken, agentGot, session, serverTaken, serverGot, histVars>>
  BY DEF PeerStep, AgentSends, AgentEnds, ServerSends, ServerEnds, agentVars, serverVars
<1>2. Counts'
  BY <1>1, Constants DEF Counts, PeerStep, AgentSends, AgentEnds, ServerSends, ServerEnds,
     agentVars, serverVars, relayVars, histVars
<1>3. Ended'
  BY DEF Ended, Ends, PeerStep, AgentSends, AgentEnds, ServerSends, ServerEnds,
     agentVars, serverVars
<1>4. Phases'
  BY <1>1 DEF Phases, relayVars
<1>5. Held' = Held /\ Front' = Front /\ taken' = taken
  BY <1>1 DEF Held, Front, Uploading, relayVars
<1>6. HeldRow'
  <2>1. pc' = pc
    BY <1>1 DEF relayVars
  <2> QED
    BY <1>5, <2>1 DEF HeldRow
<1>7. Got' /\ Down'
  BY <1>1 DEF Got, Down, DownLossless, relayVars, histVars
<1>8. Rows'
  BY <1>1, <1>5, RowsSame DEF relayVars, histVars
<1>9. Totals'
  BY <1>1, TotalsSame DEF relayVars, histVars
<1> QED
  BY <1>2, <1>3, <1>4, <1>6, <1>7, <1>8, <1>9

LEMMA StutterInv == RelayInv /\ UNCHANGED vars => RelayInv'
<1> SUFFICES ASSUME RelayInv, UNCHANGED vars PROVE RelayInv'
  OBVIOUS
<1> USE DEF RelayInv, vars, relayVars, agentVars, serverVars, histVars
<1>1. Counts' /\ Ended' /\ Phases' /\ Got' /\ Down'
  BY DEF Counts, Ended, Phases, Got, Down, DownLossless
<1>2. Held' = Held /\ Front' = Front
  BY DEF Held, Front, Uploading
<1>3. HeldRow'
  BY <1>2 DEF HeldRow
<1>4. Rows'
  BY <1>2, RowsSame
<1>5. Totals'
  BY TotalsSame
<1> QED
  BY <1>1, <1>3, <1>4, <1>5

\* A call: the buffer changes hands.
LEMMA CallInv == RelayInv /\ RelayThrough => RelayInv'
<1> SUFFICES ASSUME RelayInv, RelayThrough PROVE RelayInv'
  OBVIOUS
<1> USE DEF RelayInv
<1>0. /\ pc = "idle" /\ session < MaxSessions /\ agentConnected = TRUE
      /\ session' = session + 1 /\ pc' \in {"select", "flush"}
      /\ pc' = "select" <=> buffer = <<>>
      /\ hand' = buffer /\ buffer' = <<>>
      /\ UNCHANGED <<agentConnected, up, down, totalUp, totalDown, agentVars,
                     serverSent, serverGot, histVars>>
  BY DEF RelayThrough, AgentAlive, AfterSplit, Phases
<1>1. Counts'
  BY <1>0, Constants DEF Counts, RelayThrough, agentVars, histVars
<1>2. Ended'
  BY <1>0 DEF Ended, Ends, RelayThrough, agentVars
<1>3. Phases'
  BY <1>0 DEF Phases
<1>4. Held' = Held /\ Held = buffer /\ taken' = taken
  BY <1>0 DEF Held, Uploading, agentVars
<1>5. Front' = Front
  BY <1>4 DEF Front
<1>6. HeldRow'
  <2>1. pc' \in {"flush", "toServer"} => Front < taken
    <3>1. Front \in Nat /\ taken \in Nat /\ Front <= taken /\ buffer = Interval(Front, taken)
      BY <1>4 DEF HeldRow, Counts
    <3> HIDE DEF Front
    <3>2. Front = taken => buffer = <<>>
      BY <3>1, IntervalEmpty
    <3> QED
      BY <1>0, <3>1, <3>2
  <2> HIDE DEF Front
  <2> QED
    BY <1>4, <1>5, <2>1 DEF HeldRow
<1>7. Got' /\ Totals'
  <2>1. Got'
    BY <1>0 DEF Got
  <2>2. Totals'
    BY <1>0, TotalsSame DEF histVars
  <2> QED
    BY <2>1, <2>2
<1>8. Down'
  BY <1>0, DownSame DEF agentVars, histVars
<1>9. Rows'
  <2>1. PICK lo \in Bounds, hi \in Bounds :
          RowsAt(lo, hi, serverGot, session, Front, dropped, partial)
    BY DEF Rows
  <2>2. Front \in 0..MaxUp /\ session \in Nat /\ partial \in Nat
    BY Constants DEF HeldRow, Counts
  <2> HIDE DEF Front
  <2>3. PICK lj, hj : lj = [lo EXCEPT ![session + 1] = Front]
                      /\ hj = [hi EXCEPT ![session + 1] = Front]
    OBVIOUS
  <2>4. RowsAt(lj, hj, serverGot, session + 1, Front, dropped, partial)
    BY <1>0, <2>1, <2>2, <2>3, RowsNext
  <2>5. lj \in Bounds /\ hj \in Bounds /\ lj[session + 1] = Front /\ hj[session + 1] = Front
    BY <1>0, <2>2, <2>3, Constants DEF Bounds
  <2>6. RowsAt(lj, hj, serverGot, session, Front, dropped, partial)'
    BY <1>0, <1>5, <2>4 DEF histVars
  <2>7. Current(lj, hj)'
    BY <1>0, <1>5, <2>5 DEF Current
  <2> QED
    BY <2>5, <2>6, <2>7 DEF Rows, Bounds
<1> QED
  BY <1>1, <1>2, <1>3, <1>6, <1>7, <1>8, <1>9

\* A chunk goes out whole, from the flush or from the loop.
LEMMA WrittenInv == RelayInv /\ (Flush \/ ServerWritten) => RelayInv'
<1> SUFFICES ASSUME RelayInv, Flush \/ ServerWritten PROVE RelayInv'
  OBVIOUS
<1> USE DEF RelayInv
<1>0. /\ pc \in {"flush", "toServer"} /\ pc' = "select" /\ hand' = <<>>
      /\ Upload(Len(hand)) /\ up' = up + Len(hand)
      /\ UNCHANGED <<buffer, agentConnected, down, totalUp, totalDown, agentVars,
                     session, serverEnd, serverSent, serverTaken, histVars>>
  BY DEF Flush, ServerWritten, Counted
<1>1. Len(hand) \in Nat /\ Len(hand) \in 0..Len(hand) /\ Front + Len(hand) = taken
  BY <1>0, HandRow
<1>2. Counts'
  BY <1>0, <1>1, Constants DEF Counts, agentVars, histVars
<1>3. Ended' /\ Phases'
  BY <1>0 DEF Ended, Phases, agentVars
<1>4. HeldRow' /\ Front' = taken
  <2>1. Held' = <<>> /\ taken' = taken
    BY <1>0 DEF Held, Uploading, agentVars
  <2>2. HeldRow' /\ Front' = taken'
    BY <1>0, <1>2, <2>1, HeldNothingNext
  <2> QED
    BY <2>1, <2>2
<1>5. Got'
  BY <1>0, <1>1, GotWrite
<1>6. Rows'
  <2>1. Front \in Nat /\ Front <= taken /\ taken \in Nat /\ partial \in Nat
    BY DEF HeldRow, Counts
  <2>2. partial' = partial /\ dropped' = dropped
    BY <1>0 DEF histVars
  <2> HIDE DEF Front
  <2>3. /\ Front' \in Nat /\ Front <= Front' /\ Front + Len(hand) = Front'
        /\ Front + Len(hand) < Front' + BufSize
        /\ Front + Len(hand) <= Front' + partial'
    BY <1>1, <1>4, <2>1, <2>2, Constants
  <2>4. \A x \in (Front + 1)..Front' : x <= Front + Len(hand) \/ x \in dropped'
    BY <2>1, <2>3
  <2>5. /\ partial' \in Nat /\ partial <= partial' /\ dropped \subseteq dropped'
        /\ session' = session /\ pc' # "flush"
    BY <1>0, <2>1, <2>2
  <2> HIDE DEF RelayInv
  <2>6. Counts /\ HeldRow /\ Got /\ Rows
    BY DEF RelayInv
  <2> QED
    BY <1>0, <1>1, <2>3, <2>4, <2>5, <2>6, RowsWrite
<1>7. Down'
  BY <1>0, DownSame DEF Phases, agentVars, histVars
<1>8. Totals'
  <2>1. totalUp' + up' + partial' = totalUp + up + partial + Len(hand)
    BY <1>0, <1>1 DEF Counts, histVars
  <2> QED
    BY <1>0, <1>1, <2>1, TotalsWrite
<1> QED
  BY <1>2, <1>3, <1>4, <1>5, <1>6, <1>7, <1>8

\* The flush fails: what did not go out is dropped, and the front moves on.
LEMMA FlushFailsInv == RelayInv /\ FlushFails => RelayInv'
<1> SUFFICES ASSUME RelayInv, FlushFails PROVE RelayInv'
  OBVIOUS
<1>0. /\ Counts /\ Ended /\ Phases /\ HeldRow /\ Got /\ Rows /\ Down /\ Totals
  BY DEF RelayInv
<1>1. PICK n \in 0..(Len(hand) - 1) :
         /\ Upload(n)
         /\ partial' = partial + n
         /\ dropped' = dropped \cup {hand[i] : i \in (n + 1)..Len(hand)}
  BY DEF FlushFails
<1>2. /\ pc \in {"flush", "toServer"} /\ pc = "flush" /\ pc' = "idle" /\ hand' = <<>>
      /\ UNCHANGED <<buffer, agentConnected, up, down, totalUp, totalDown,
                     agentVars, session, serverEnd, serverSent, serverTaken, fetched>>
  BY DEF FlushFails
<1>3. /\ Len(hand) \in Nat /\ Front + Len(hand) = taken /\ Len(hand) > 0
      /\ Len(hand) <= BufSize /\ \A i \in 1..Len(hand) : hand[i] = Front + i
  BY <1>0, <1>2, HandRow
<1>4. n \in Nat /\ n \in 0..Len(hand) /\ n < Len(hand)
  BY <1>3
<1>5. Front \in Nat /\ Front <= taken /\ taken \in Nat /\ taken <= MaxUp /\ partial \in Nat
  BY <1>0, Constants DEF HeldRow, Counts
<1> HIDE DEF Front
<1>6. \A x \in (Front + n + 1)..taken : x \in dropped'
  <2> TAKE x \in (Front + n + 1)..taken
  <2>1. x - Front \in (n + 1)..Len(hand) /\ x - Front \in 1..Len(hand)
        /\ Front + (x - Front) = x
    BY <1>3, <1>4, <1>5
  <2>2. hand[x - Front] = x
    BY <2>1, <1>3
  <2> QED
    BY <1>1, <2>1, <2>2
<1>7. dropped' \subseteq 1..MaxUp
  <2>1. ASSUME NEW i \in (n + 1)..Len(hand) PROVE hand[i] \in 1..MaxUp
    <3>1. i \in 1..Len(hand)
      BY <1>3, <1>4
    <3>2. hand[i] = Front + i
      BY <3>1, <1>3
    <3> QED
      BY <3>1, <3>2, <1>3, <1>5, Constants
  <2> QED
    BY <1>0, <1>1, <2>1 DEF Counts
<1>8. Counts'
  BY <1>0, <1>1, <1>2, <1>4, <1>7, Constants DEF Counts, agentVars
<1>9. Ended' /\ Phases'
  BY <1>0, <1>2 DEF Ended, Phases, agentVars
<1>10. HeldRow' /\ Front' = taken
  <2>1. Held' = <<>> /\ taken' = taken
    BY <1>0, <1>2 DEF Held, Phases, agentVars
  <2>2. HeldRow' /\ Front' = taken'
    BY <1>2, <1>8, <2>1, HeldNothingNext
  <2> QED
    BY <2>1, <2>2
<1>11. Got'
  BY <1>0, <1>1, <1>2, <1>4, GotWrite
<1>12. Rows'
  <2>1. /\ Front' \in Nat /\ Front <= Front'
        /\ Front + n < Front' + BufSize
        /\ Front + n <= Front' + partial'
    BY <1>1, <1>3, <1>4, <1>5, <1>10, Constants
  <2>2. \A x \in (Front + 1)..Front' : x <= Front + n \/ x \in dropped'
    <3> TAKE x \in (Front + 1)..Front'
    <3>1. x > Front + n => x \in (Front + n + 1)..taken
      BY <1>4, <1>5, <1>10
    <3>2. x <= Front + n \/ x > Front + n
      BY <1>4, <1>5, <1>10
    <3> QED
      BY <1>6, <3>1, <3>2
  <2>3. /\ partial' \in Nat /\ partial <= partial' /\ dropped \subseteq dropped'
        /\ session' = session /\ pc' # "flush" /\ pc' = "idle"
    BY <1>1, <1>2, <1>4, <1>5
  <2> QED
    BY <1>0, <1>1, <1>2, <1>4, <2>1, <2>2, <2>3, RowsWrite
<1>13. Down'
  BY <1>0, <1>2, DownSame DEF agentVars
<1>14. Totals'
  <2>1. totalUp' + up' + partial' = totalUp + up + partial + n
    BY <1>0, <1>1, <1>2, <1>4 DEF Counts
  <2> QED
    BY <1>0, <1>1, <1>2, <1>4, <2>1, TotalsWrite
<1> QED
  BY <1>8, <1>9, <1>10, <1>11, <1>12, <1>13, <1>14 DEF RelayInv

\* A write in the loop fails: the whole chunk is held for the next server.
LEMMA WriteFailsInv == RelayInv /\ ServerWriteFails => RelayInv'
<1> SUFFICES ASSUME RelayInv, ServerWriteFails PROVE RelayInv'
  OBVIOUS
<1>0. /\ Counts /\ Ended /\ Phases /\ HeldRow /\ Got /\ Rows /\ Down /\ Totals
  BY DEF RelayInv
<1>1. PICK n \in 0..(Len(hand) - 1) : Upload(n) /\ partial' = partial + n
  BY DEF ServerWriteFails
<1>2. /\ pc \in {"flush", "toServer"} /\ pc = "toServer" /\ pc' = "idle" /\ hand' = <<>>
      /\ buffer' = buffer \o hand
      /\ totalUp' = totalUp + up /\ totalDown' = totalDown + down /\ up' = 0 /\ down' = 0
      /\ UNCHANGED <<agentConnected, agentVars, session, serverEnd, serverSent,
                     serverTaken, fetched, dropped>>
  BY DEF ServerWriteFails, Break, Rebuffered
<1>3. /\ Len(hand) \in Nat /\ Front + Len(hand) = taken /\ Len(hand) > 0
      /\ Len(hand) <= BufSize /\ hand \in Seq(Nat)
      /\ Held = hand
  BY <1>0, <1>2, HandRow
<1>4. n \in Nat /\ n \in 0..Len(hand) /\ n < Len(hand)
  BY <1>3
<1>5. Front \in Nat /\ Front <= taken /\ taken \in Nat /\ partial \in Nat
  BY <1>0 DEF HeldRow, Counts
<1>6. Counts'
  BY <1>0, <1>1, <1>2, <1>4, Constants DEF Counts, agentVars
<1>7. Ended' /\ Phases'
  BY <1>0, <1>2 DEF Ended, Phases, agentVars
<1>8. Held' = Held /\ taken' = taken
  <2>1. buffer = <<>>
    BY <1>0, <1>2 DEF Phases
  <2>2. <<>> \o hand = hand
    BY <1>3
  <2> QED
    BY <1>2, <1>3, <2>1, <2>2 DEF Held, agentVars
<1>9. Front' = Front
  BY <1>8 DEF Front
<1> HIDE DEF Front
<1>10. HeldRow'
  BY <1>0, <1>2, <1>8, <1>9 DEF HeldRow
<1>11. Got'
  BY <1>0, <1>1, <1>2, <1>4, GotWrite
<1>12. Rows'
  <2>1. /\ Front' \in Nat /\ Front <= Front'
        /\ Front + n < Front' + BufSize
        /\ Front + n <= Front' + partial'
    BY <1>1, <1>3, <1>4, <1>5, <1>9, Constants
  <2>2. \A x \in (Front + 1)..Front' : x <= Front + n \/ x \in dropped'
    BY <1>5, <1>9
  <2>3. /\ partial' \in Nat /\ partial <= partial' /\ dropped \subseteq dropped'
        /\ session' = session /\ pc' # "flush" /\ pc' = "idle"
    BY <1>1, <1>2, <1>4, <1>5
  <2> QED
    BY <1>0, <1>1, <1>2, <1>4, <2>1, <2>2, <2>3, RowsWrite
<1>13. Down'
  BY <1>0, <1>2, DownSame DEF agentVars
<1>14. Totals'
  <2>1. totalUp' + up' + partial' = totalUp + up + partial + n
    BY <1>0, <1>1, <1>2, <1>4 DEF Counts
  <2> QED
    BY <1>0, <1>1, <1>2, <1>4, <2>1, TotalsWrite
<1> QED
  BY <1>6, <1>7, <1>10, <1>11, <1>12, <1>13, <1>14 DEF RelayInv

\* A step from the select or back to it that neither holds a byte of the
\* agent's nor sends one on.
LEMMA NothingHeldSteps ==
    ASSUME RelayInv, Counts', pc \in {"select", "toAgent"},
           pc' \in {"idle", "select", "toAgent"},
           buffer' = buffer, taken' = taken, serverGot' = serverGot,
           session' = session, dropped' = dropped, partial' = partial,
           totalUp' + up' = totalUp + up
    PROVE  HeldRow' /\ Got' /\ Rows' /\ Totals'
<1>0. /\ Counts /\ Phases /\ HeldRow /\ Got /\ Rows /\ Totals
  BY DEF RelayInv
<1>1. Held = <<>> /\ Held' = <<>>
  BY <1>0 DEF Held, Uploading, Phases
<1>2. HeldRow' /\ Front' = taken'
  BY <1>1, HeldNothingNext
<1>3. Front = taken
  BY <1>0, <1>1, HeldNothing
<1> HIDE DEF Front
<1>4. Rows'
  BY <1>0, <1>2, <1>3, RowsSame
<1>5. Got'
  BY <1>0 DEF Got
<1>6. Totals'
  BY <1>0, TotalsSame DEF Counts
<1> QED
  BY <1>2, <1>4, <1>5, <1>6

LEMMA AgentReadInv == RelayInv /\ AgentRead => RelayInv'
<1> SUFFICES ASSUME RelayInv, AgentRead PROVE RelayInv'
  OBVIOUS
<1>0. /\ Counts /\ Ended /\ Phases /\ HeldRow /\ Got /\ Rows /\ Down /\ Totals
  BY DEF RelayInv
<1>1. PICK n \in 1..BufSize :
         n <= sent - taken /\ hand' = Interval(taken, taken + n) /\ taken' = taken + n
  BY DEF AgentRead
<1>2. /\ pc = "select" /\ pc' = "toServer"
      /\ UNCHANGED <<buffer, agentConnected, up, down, totalUp, totalDown,
                     agentEnd, sent, agentGot, serverVars, histVars>>
  BY DEF AgentRead
<1>3. Counts'
  BY <1>0, <1>1, <1>2, Constants DEF Counts, serverVars, histVars
<1>4. Ended' /\ Phases'
  BY <1>0, <1>2 DEF Ended, Phases, serverVars
<1>5. Held = <<>> /\ Held' = hand'
  BY <1>0, <1>2 DEF Held, Uploading
<1>6. Front = taken
  BY <1>0, <1>2, <1>5, HeldNothing
<1>7. taken \in Nat /\ taken + n \in Nat /\ taken <= taken + n /\ (taken + n) - taken = n
      /\ n \in Nat /\ n > 0 /\ n <= BufSize
  BY <1>0, Constants DEF Counts
<1>8. Len(Held') = n
  BY <1>1, <1>5, <1>7, IntervalSeq
<1>9. Front' = taken
  <2>1. Front' = taken' - Len(Held')
    BY DEF Front
  <2> QED
    BY <1>1, <1>7, <1>8, <2>1
<1> HIDE DEF Front
<1>10. HeldRow'
  BY <1>1, <1>5, <1>7, <1>9 DEF HeldRow
<1>11. Got'
  BY <1>0, <1>2 DEF Got, serverVars
<1>12. Rows'
  BY <1>0, <1>2, <1>6, <1>9, RowsSame DEF serverVars, histVars
<1>13. Down'
  BY <1>0, <1>2, DownSame DEF Phases, histVars
<1>14. Totals'
  BY <1>0, <1>2, TotalsSame DEF serverVars, histVars
<1> QED
  BY <1>3, <1>4, <1>10, <1>11, <1>12, <1>13, <1>14 DEF RelayInv

\* The session ends from the select.
LEMMA GoneInv == RelayInv /\ (AgentGone \/ ServerGone) => RelayInv'
<1> SUFFICES ASSUME RelayInv, AgentGone \/ ServerGone PROVE RelayInv'
  OBVIOUS
<1>0. /\ Counts /\ Ended /\ Phases /\ HeldRow /\ Got /\ Rows /\ Down /\ Totals
  BY DEF RelayInv
<1>1. /\ pc = "select" /\ pc' = "idle" /\ hand' = <<>>
      /\ totalUp' = totalUp + up /\ totalDown' = totalDown + down /\ up' = 0 /\ down' = 0
      /\ UNCHANGED <<buffer, agentVars, serverVars, histVars>>
      /\ agentConnected' = FALSE \/ agentConnected' = agentConnected
  BY DEF AgentGone, ServerGone, Break
<1>2. Counts'
  BY <1>0, <1>1 DEF Counts, agentVars, serverVars, histVars
<1>3. Ended' /\ Phases'
  BY <1>0, <1>1 DEF Ended, Phases, agentVars, serverVars
<1>4. HeldRow' /\ Got' /\ Rows' /\ Totals'
  <2>1. totalUp' + up' = totalUp + up
    BY <1>0, <1>1 DEF Counts
  <2> QED
    BY <1>1, <1>2, <2>1, NothingHeldSteps DEF agentVars, serverVars, histVars
<1>5. Down'
  <2>1. agentConnected /\ agentGot = fetched /\ agentGot \in Seq(1..MaxDown)
    BY <1>0, <1>1 DEF Phases, Down, DownLossless
  <2>2. agentGot' = agentGot /\ fetched' = fetched
    BY <1>1 DEF agentVars, histVars
  <2>3. Len(fetched) \in 0..Len(fetched) /\ SubSeq(fetched, 1, Len(fetched)) = fetched
    BY <2>1
  <2>4. DownLossless'
    BY <1>1, <2>1, <2>2, <2>3 DEF DownLossless
  <2> QED
    BY <1>0, <1>1, <2>2, <2>4 DEF Down
<1> QED
  BY <1>2, <1>3, <1>4, <1>5 DEF RelayInv

LEMMA ServerReadInv == RelayInv /\ ServerRead => RelayInv'
<1> SUFFICES ASSUME RelayInv, ServerRead PROVE RelayInv'
  OBVIOUS
<1>0. /\ Counts /\ Ended /\ Phases /\ HeldRow /\ Got /\ Rows /\ Down /\ Totals
  BY DEF RelayInv
<1>1. PICK n \in 1..BufSize :
         /\ n <= serverSent - serverTaken
         /\ hand' = Interval(serverTaken, serverTaken + n)
         /\ serverTaken' = serverTaken + n
         /\ fetched' = fetched \o hand'
  BY DEF ServerRead
<1>2. /\ pc = "select" /\ pc' = "toAgent"
      /\ UNCHANGED <<buffer, agentConnected, up, down, totalUp, totalDown,
                     agentVars, session, serverEnd, serverSent, serverGot,
                     dropped, partial>>
  BY DEF ServerRead
<1>3. Counts'
  BY <1>0, <1>1, <1>2, Constants DEF Counts, agentVars
<1>4. hand' \in Seq(1..MaxDown)
  <2>1. /\ serverTaken \in Nat /\ serverTaken + n \in Nat /\ MaxDown \in Nat
        /\ serverTaken <= serverTaken + n /\ serverTaken + n <= MaxDown
    BY <1>0, <1>1, Constants DEF Counts
  <2> QED
    BY <1>1, <2>1, IntervalIn
<1>5. Ended' /\ Phases'
  BY <1>0, <1>2, <1>4 DEF Ended, Phases, agentVars
<1>6. HeldRow' /\ Got' /\ Rows' /\ Totals'
  BY <1>2, <1>3, NothingHeldSteps DEF agentVars
<1>7. Down'
  <2>1. agentConnected /\ agentGot = fetched /\ fetched \in Seq(1..MaxDown)
    BY <1>0, <1>2 DEF Phases, Down, DownLossless
  <2>2. agentGot' = agentGot
    BY <1>2 DEF agentVars
  <2>3. fetched' \in Seq(1..MaxDown)
    BY <1>1, <1>4, <2>1
  <2>4. DownLossless'
    BY <1>1, <1>2, <2>1, <2>2 DEF DownLossless
  <2> QED
    BY <1>2, <2>1, <2>2, <2>3, <2>4 DEF Down
<1> QED
  BY <1>3, <1>5, <1>6, <1>7 DEF RelayInv

LEMMA AgentWriteInv == RelayInv /\ (AgentWritten \/ AgentWriteFails) => RelayInv'
<1> SUFFICES ASSUME RelayInv, AgentWritten \/ AgentWriteFails PROVE RelayInv'
  OBVIOUS
<1>0. /\ Counts /\ Ended /\ Phases /\ HeldRow /\ Got /\ Rows /\ Down /\ Totals
  BY DEF RelayInv
<1>1. /\ pc = "toAgent" /\ hand' = <<>>
      /\ UNCHANGED <<buffer, agentEnd, sent, taken, serverVars, histVars>>
  BY DEF AgentWritten, AgentWriteFails, Break
<1>2. /\ hand \in Seq(1..MaxDown) /\ Len(hand) \in Nat
      /\ agentConnected /\ fetched = agentGot \o hand
      /\ agentGot \in Seq(1..MaxDown) /\ fetched \in Seq(1..MaxDown)
  BY <1>0, <1>1 DEF Phases, Down, DownLossless
<1>3. CASE AgentWritten
  <2>1. /\ agentGot' = agentGot \o hand /\ down' = down + Len(hand) /\ pc' = "select"
        /\ UNCHANGED <<agentConnected, up, totalUp, totalDown>>
    BY <1>3 DEF AgentWritten
  <2>2. Counts'
    BY <1>0, <1>1, <1>2, <2>1 DEF Counts, serverVars, histVars
  <2>3. Ended' /\ Phases'
    BY <1>0, <1>1, <2>1 DEF Ended, Phases, serverVars
  <2>4. HeldRow' /\ Got' /\ Rows' /\ Totals'
    BY <1>1, <2>1, <2>2, NothingHeldSteps DEF serverVars, histVars
  <2>5. agentGot' = fetched /\ fetched' = fetched
    BY <1>1, <1>2, <2>1 DEF histVars
  <2>6. Down'
    BY <1>2, <2>1, <2>5 DEF Down, DownLossless
  <2> QED
    BY <2>2, <2>3, <2>4, <2>6 DEF RelayInv
<1>4. CASE AgentWriteFails
  <2>1. PICK n \in 0..(Len(hand) - 1) : agentGot' = agentGot \o SubSeq(hand, 1, n)
    BY <1>4 DEF AgentWriteFails
  <2>2. /\ agentConnected' = FALSE /\ pc' = "idle"
        /\ totalUp' = totalUp + up /\ totalDown' = totalDown + down
        /\ up' = 0 /\ down' = 0
    BY <1>4 DEF AgentWriteFails, Break, AfterAgentError
  <2>3. Counts'
    BY <1>0, <1>1, <2>2 DEF Counts, serverVars, histVars
  <2>4. Ended' /\ Phases'
    BY <1>0, <1>1, <2>2 DEF Ended, Phases, serverVars
  <2>5. HeldRow' /\ Got' /\ Rows' /\ Totals'
    <3>1. totalUp' + up' = totalUp + up
      BY <1>0, <2>2 DEF Counts
    <3> QED
      BY <1>1, <2>2, <2>3, <3>1, NothingHeldSteps DEF serverVars, histVars
  <2>6. fetched' = fetched
    BY <1>1 DEF histVars
  <2>7. n \in 0..Len(hand) /\ n \in Nat
    BY <1>2
  <2>8. SubSeq(hand, 1, n) \in Seq(1..MaxDown)
    BY <1>2, <2>7, CutIn
  <2>9. agentGot' \in Seq(1..MaxDown)
    BY <1>2, <2>1, <2>8
  <2>10. /\ Len(agentGot) + n \in 0..Len(fetched)
         /\ agentGot' = SubSeq(fetched, 1, Len(agentGot) + n)
    BY <1>2, <2>1, <2>7, CutConcat
  <2>11. DownLossless'
    BY <2>2, <2>6, <2>10 DEF DownLossless
  <2> QED
    BY <1>2, <2>2, <2>3, <2>4, <2>5, <2>6, <2>9, <2>11 DEF RelayInv, Down
<1> QED
  BY <1>3, <1>4

LEMMA Invariant == Spec => []RelayInv
<1>1. RelayInv /\ [Next]_vars => RelayInv'
  BY PeerInv, StutterInv, CallInv, WrittenInv, FlushFailsInv, WriteFailsInv,
     AgentReadInv, GoneInv, ServerReadInv, AgentWriteInv
     DEF Next, ReadStep, WriteToServer, WriteToAgent
<1> QED
  BY <1>1, InitInv, PTL DEF Spec

---------------------------------------------------------------------------
(* The theorems.                                                           *)

\* The types of the relay's state: its buffer and every server hold bytes the
\* agent sent, and it never reads past what was sent.
THEOREM TypeCorrect == Spec => []TypeOK
<1>1. ASSUME RelayInv PROVE TypeOK
  <2>0. Counts /\ Ended /\ Phases /\ HeldRow /\ Got /\ Down
    BY <1>1 DEF RelayInv
  <2>1. Held \in Seq(1..MaxUp) /\ Held \in Seq(Nat)
    <3>1. /\ Front \in Nat /\ taken \in Nat /\ Front <= taken /\ taken <= MaxUp
          /\ Held = Interval(Front, taken) /\ MaxUp \in Nat
      BY <2>0, Constants DEF HeldRow, Counts
    <3> HIDE DEF Front
    <3> QED
      BY <3>1, IntervalIn, IntervalSeq
  <2>2. hand \in Seq(Nat)
    <3>1. CASE pc \in {"flush", "toServer"}
      BY <2>1, <3>1 DEF Held, Uploading
    <3>2. CASE pc = "toAgent"
      <4>1. hand \in Seq(1..MaxDown)
        BY <2>0, <3>2 DEF Phases
      <4> QED
        BY <4>1, Constants
    <3>3. CASE pc \in {"idle", "select"}
      <4>1. hand = <<>>
        BY <2>0, <3>3 DEF Phases
      <4> QED
        BY <4>1
    <3> QED
      BY <2>0, <3>1, <3>2, <3>3 DEF Counts
  <2>3. buffer \in Seq(1..MaxUp)
    <3>1. CASE pc = "idle"
      BY <2>1, <3>1 DEF Held
    <3>2. CASE pc # "idle"
      <4>1. buffer = <<>>
        BY <2>0, <3>2 DEF Phases
      <4> QED
        BY <4>1
    <3> QED
      BY <3>1, <3>2
  <2>4. agentConnected \in BOOLEAN
    BY <2>0 DEF Phases
  <2>5. /\ sent \in 0..MaxUp /\ taken \in 0..sent
        /\ serverSent \in 0..MaxDown /\ serverTaken \in 0..serverSent
        /\ session \in 0..MaxSessions
    BY <2>0, Constants DEF Counts
  <2> QED
    BY <2>0, <2>2, <2>3, <2>4, <2>5 DEF TypeOK, Counts, Ended, Got, Down
<1> QED
  BY <1>1, Invariant, PTL

\* A server that breaks in the middle of a session costs the agent nothing:
\* whatever was taken has arrived, is held, or was in a flush that failed.
THEOREM NoOtherLossHolds == Spec => []NoOtherLoss
<1>1. ASSUME RelayInv PROVE NoOtherLoss
  <2>0. Counts /\ HeldRow /\ Rows
    BY <1>1 DEF RelayInv
  <2>1. PICK lo \in Bounds, hi \in Bounds :
          RowsAt(lo, hi, serverGot, session, Front, dropped, partial)
    BY <2>0 DEF Rows
  <2>2. /\ Front \in Nat /\ taken \in Nat /\ Front <= taken
        /\ Held = Interval(Front, taken)
    BY <2>0 DEF HeldRow, Counts
  <2>3. Elements(Held) \subseteq Elements(buffer) \cup Elements(Uploading)
    BY DEF Held
  <2> HIDE DEF Front
  <2>4. Elements(Held) = (Front + 1)..taken
    BY <2>2, IntervalElements
  <2>5. ASSUME NEW x \in 1..Front PROVE x \in Delivered \cup dropped
    <3>1. x \in dropped \/ \E s \in 1..MaxSessions : lo[s] < x /\ x <= hi[s]
      BY <2>1 DEF RowsAt
    <3>2. ASSUME NEW s \in 1..MaxSessions, lo[s] < x, x <= hi[s]
          PROVE  x \in Delivered
      <4>1. lo[s] \in Nat /\ hi[s] \in Nat /\ lo[s] <= hi[s]
            /\ serverGot[s] = Interval(lo[s], hi[s])
        BY <2>1, Constants DEF RowsAt, Bounds
      <4>2. Elements(serverGot[s]) = (lo[s] + 1)..hi[s]
        BY <4>1, IntervalElements
      <4>3. x \in Elements(serverGot[s])
        BY <2>2, <3>2, <4>1, <4>2
      <4> QED
        BY <4>3 DEF Delivered
    <3> QED
      BY <3>1, <3>2
  <2>6. ASSUME NEW x \in 1..taken PROVE x \in 1..Front \/ x \in (Front + 1)..taken
    BY <2>2
  <2> QED
    BY <2>3, <2>4, <2>5, <2>6 DEF NoOtherLoss
<1> QED
  BY <1>1, Invariant, PTL

\* What a server receives on its connection is one contiguous, ordered piece
\* of the agent's stream.
THEOREM ServerStreamContiguousHolds == Spec => []ServerStreamContiguous
<1>1. ASSUME RelayInv PROVE ServerStreamContiguous
  <2>1. PICK lo \in Bounds, hi \in Bounds :
          RowsAt(lo, hi, serverGot, session, Front, dropped, partial)
    BY <1>1 DEF RelayInv, Rows
  <2>2. ASSUME NEW s \in 1..MaxSessions, NEW i \in 1..(Len(serverGot[s]) - 1)
        PROVE  serverGot[s][i + 1] = serverGot[s][i] + 1
    <3>1. lo[s] \in Nat /\ hi[s] \in Nat /\ lo[s] <= hi[s]
          /\ serverGot[s] = Interval(lo[s], hi[s])
      BY <2>1, Constants DEF RowsAt, Bounds
    <3>2. /\ Len(serverGot[s]) = hi[s] - lo[s]
          /\ \A j \in 1..(hi[s] - lo[s]) : serverGot[s][j] = lo[s] + j
      BY <3>1, IntervalSeq
    <3>3. i \in 1..(hi[s] - lo[s]) /\ i + 1 \in 1..(hi[s] - lo[s])
      BY <3>1, <3>2
    <3>4. serverGot[s][i] = lo[s] + i /\ serverGot[s][i + 1] = lo[s] + (i + 1)
      BY <3>2, <3>3
    <3>5. i \in Nat /\ lo[s] + (i + 1) = (lo[s] + i) + 1
      BY <3>1, <3>3
    <3> QED
      BY <3>4, <3>5
  <2> QED
    BY <2>2 DEF ServerStreamContiguous
<1> QED
  BY <1>1, Invariant, PTL

\* Two servers have fewer bytes in common than one read returns, and no more
\* than failed writes have let through.
THEOREM OverlapBoundedHolds == Spec => []OverlapBounded
<1>1. ASSUME RelayInv PROVE OverlapBounded
  <2>0. Counts /\ Rows
    BY <1>1 DEF RelayInv
  <2>1. PICK lo \in Bounds, hi \in Bounds :
          RowsAt(lo, hi, serverGot, session, Front, dropped, partial)
    BY <2>0 DEF Rows
  <2>2. ASSUME NEW s \in 1..MaxSessions, NEW u \in 1..MaxSessions, s < u
        PROVE  LET again == Elements(serverGot[s]) \cap Elements(serverGot[u])
               IN  Cardinality(again) < BufSize /\ Cardinality(again) <= partial
    <3> DEFINE again == Elements(serverGot[s]) \cap Elements(serverGot[u])
    <3>1. /\ lo[s] \in Nat /\ hi[s] \in Nat /\ lo[s] <= hi[s]
          /\ serverGot[s] = Interval(lo[s], hi[s])
          /\ lo[u] \in Nat /\ hi[u] \in Nat /\ lo[u] <= hi[u]
          /\ serverGot[u] = Interval(lo[u], hi[u])
      BY <2>1, Constants DEF RowsAt, Bounds
    <3>2. /\ Elements(serverGot[s]) = (lo[s] + 1)..hi[s]
          /\ Elements(serverGot[u]) = (lo[u] + 1)..hi[u]
      BY <3>1, IntervalElements
    <3>3. again \subseteq (lo[u] + 1)..hi[s]
      BY <3>1, <3>2
    <3> HIDE DEF again
    <3>4. partial \in Nat /\ session \in Nat /\ BufSize \in Nat /\ BufSize > 0
      BY <2>0, Constants DEF Counts
    <3>5. CASE u <= session
      <4>1. s \in 1..session /\ u \in 1..session
        BY <2>2, <3>4, <3>5
      <4>2. hi[s] < lo[u] + BufSize /\ hi[s] <= lo[u] + partial
        BY <2>1, <2>2, <4>1 DEF RowsAt
      <4>3. /\ IsFiniteSet((lo[u] + 1)..hi[s])
            /\ Cardinality((lo[u] + 1)..hi[s]) =
                  IF lo[u] + 1 > hi[s] THEN 0 ELSE hi[s] - (lo[u] + 1) + 1
        <5>1. lo[u] + 1 \in Int /\ hi[s] \in Int
          BY <3>1
        <5> QED
          BY <5>1, FS_Interval
      <4>4. Cardinality(again) <= Cardinality((lo[u] + 1)..hi[s]) /\ IsFiniteSet(again)
        BY <3>3, <4>3, FS_Subset
      <4>5. Cardinality(again) \in Nat
        BY <4>4, FS_CardinalityType
      <4> QED
        BY <3>1, <3>4, <4>2, <4>3, <4>4, <4>5 DEF again
    <3>6. CASE u > session
      <4>1. lo[u] = hi[u]
        BY <2>1, <3>6 DEF RowsAt
      <4>2. (lo[u] + 1)..hi[u] = {}
        BY <3>1, <4>1
      <4>3. again = {}
        BY <3>2, <4>2 DEF again
      <4>4. Cardinality(again) = 0
        BY <4>3, FS_EmptySet
      <4> QED
        BY <3>4, <4>4 DEF again
    <3> QED
      BY <3>4, <3>5, <3>6
  <2> QED
    BY <2>2 DEF OverlapBounded
<1> QED
  BY <1>1, Invariant, PTL

\* total_stats counts every byte of a completed write once.
THEOREM TotalsExactHolds == Spec => []TotalsExact
<1>1. ASSUME RelayInv PROVE TotalsExact
  BY <1>1 DEF RelayInv, Totals
<1> QED
  BY <1>1, Invariant, PTL

\* The agent receives what was read from the servers, whole and in order over
\* all rotations, and a prefix of it once a write to it has failed.
THEOREM DownLosslessHolds == Spec => []DownLossless
<1>1. ASSUME RelayInv PROVE DownLossless
  BY <1>1 DEF RelayInv, Down
<1> QED
  BY <1>1, Invariant, PTL
===========================================================================
