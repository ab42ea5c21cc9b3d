----------------------- MODULE ProxyConnectionProofs -----------------------
(***************************************************************************)
(* One connection, for any requests, any heads of an upstream proxy and    *)
(* any amount of data: what the agent and the destination receive.         *)
(***************************************************************************)
EXTENDS ProxyConnection, TLAPS

---------------------------------------------------------------------------
(* Rows of consecutive items.                                              *)

\* The row of items from a + 1 to b.
LEMMA IntervalSeq ==
    ASSUME NEW a \in Nat, NEW b \in Nat, a <= b
    PROVE  /\ Interval(a, b) \in Seq(Nat) /\ Len(Interval(a, b)) = b - a
           /\ \A i \in 1..(b - a) : Interval(a, b)[i] = a + i
BY DEF Interval

LEMMA IntervalIn ==
    ASSUME NEW a \in Nat, NEW b \in Nat, NEW t \in Nat, a <= b, b <= t
    PROVE  Interval(a, b) \in Seq(1..t)
<1> DEFINE n == b - a
<1>1. n \in Nat /\ \A i \in 1..n : a + i \in 1..t
  OBVIOUS
<1>2. Interval(a, b) = [i \in 1..n |-> a + i]
  BY DEF Interval
<1> HIDE DEF n
<1>3. [i \in 1..n |-> a + i] \in Seq(1..t)
  BY <1>1
<1> QED
  BY <1>2, <1>3

\* Two sequences of the same length and elements are the same.
LEMMA SameSeq ==
    ASSUME NEW s \in Seq(Nat), NEW t \in Seq(Nat), NEW n \in Nat,
           Len(s) = n, Len(t) = n, \A i \in 1..n : s[i] = t[i]
    PROVE  s = t
OBVIOUS

\* The start of a sequence has elements of the same set.
LEMMA CutIn ==
    ASSUME NEW S, NEW s \in Seq(S), NEW n \in 0..Len(s)
    PROVE  SubSeq(s, 1, n) \in Seq(S)
<1>1. n \in Nat /\ \A i \in 1..n : s[i] \in S
  OBVIOUS
<1>2. SubSeq(s, 1, n) = [i \in 1..n |-> s[i]]
  OBVIOUS
<1> QED
  BY <1>1, <1>2

\* Rows that meet make one row.
LEMMA IntervalConcat ==
    ASSUME NEW a \in Nat, NEW b \in Nat, NEW c \in Nat, a <= b, b <= c
    PROVE  Interval(a, b) \o Interval(b, c) = Interval(a, c)
<1> DEFINE s == Interval(a, b)
           t == Interval(b, c)
           u == Interval(a, c)
           m == b - a
           k == c - b
           f == s \o t
<1>1. s \in Seq(Nat) /\ Len(s) = m /\ \A i \in 1..m : s[i] = a + i
  BY IntervalSeq
<1>2. t \in Seq(Nat) /\ Len(t) = k /\ \A i \in 1..k : t[i] = b + i
  BY IntervalSeq
<1>3. u \in Seq(Nat) /\ Len(u) = m + k /\ \A i \in 1..(m + k) : u[i] = a + i
  <2>1. a <= c /\ c - a = m + k
    OBVIOUS
  <2>2. u \in Seq(Nat) /\ Len(u) = c - a /\ \A i \in 1..(c - a) : u[i] = a + i
    BY <2>1, IntervalSeq
  <2> HIDE DEF u, m, k
  <2> QED
    BY <2>1, <2>2
<1>4. m \in Nat /\ k \in Nat /\ b = a + m
  OBVIOUS
<1> HIDE DEF s, t, u, m, k
<1>5. f \in Seq(Nat) /\ Len(f) = m + k
  <2>1. s \in Seq(Nat) /\ t \in Seq(Nat)
    BY <1>1, <1>2
  <2>2. f \in Seq(Nat) /\ Len(f) = Len(s) + Len(t)
    BY <2>1
  <2> HIDE DEF f
  <2> QED
    BY <2>2, <1>1, <1>2
<1>6. \A i \in 1..(m + k) : f[i] = u[i]
  <2> SUFFICES ASSUME NEW i \in 1..(m + k) PROVE f[i] = u[i]
    OBVIOUS
  <2>1. CASE i <= m
    <3>1. f[i] = s[i]
      BY <2>1, <1>1, <1>2, <1>4
    <3>2. i \in 1..m
      BY <2>1, <1>4
    <3> QED
      BY <3>1, <3>2, <1>1, <1>3
  <2>2. CASE i > m
    <3>1. f[i] = t[i - m]
      BY <2>2, <1>1, <1>2, <1>4
    <3>2. i - m \in 1..k
      BY <2>2, <1>4
    <3>3. t[i - m] = b + (i - m)
      BY <3>2, <1>2
    <3>4. b + (i - m) = a + i
      BY <1>4
    <3> QED
      BY <3>1, <3>3, <3>4, <1>3
  <2> HIDE DEF f
  <2> QED
    BY <2>1, <2>2, <1>4
<1> HIDE DEF f
<1>7. f = u
  <2>1. m + k \in Nat
    BY <1>4
  <2> QED
    BY <2>1, <1>3, <1>5, <1>6, SameSeq
<1> QED
  BY <1>7 DEF f, s, t, u

\* A row of one item, and of none.
LEMMA IntervalOne ==
    ASSUME NEW b \in Nat
    PROVE  Interval(b, b + 1) = <<b + 1>> /\ Interval(b, b) = <<>>
<1>1. (b + 1) - b = 1 /\ b - b = 0
  OBVIOUS
<1>2. Interval(b, b + 1) \in Seq(Nat) /\ Len(Interval(b, b + 1)) = 1
      /\ Interval(b, b + 1)[1] = b + 1
  <2>1. b + 1 \in Nat /\ b <= b + 1 /\ 1 \in 1..1
    OBVIOUS
  <2>2. /\ Interval(b, b + 1) \in Seq(Nat)
        /\ Len(Interval(b, b + 1)) = (b + 1) - b
        /\ \A i \in 1..((b + 1) - b) : Interval(b, b + 1)[i] = b + i
    BY <2>1, IntervalSeq
  <2>3. \A i \in 1..1 : Interval(b, b + 1)[i] = b + i
    BY <2>2, <1>1
  <2>4. Interval(b, b + 1)[1] = b + 1
    BY <2>1, <2>3
  <2> QED
    BY <1>1, <2>2, <2>4
<1>3. Interval(b, b) \in Seq(Nat) /\ Len(Interval(b, b)) = 0
  BY <1>1, IntervalSeq
<1>4. Interval(b, b) = <<>>
  BY <1>3
<1>5. <<b + 1>> \in Seq(Nat) /\ Len(<<b + 1>>) = 1 /\ <<b + 1>>[1] = b + 1
  OBVIOUS
<1>6. \A i \in 1..1 : Interval(b, b + 1)[i] = <<b + 1>>[i]
  BY <1>2, <1>5
<1>7. Interval(b, b + 1) = <<b + 1>>
  BY <1>2, <1>5, <1>6, SameSeq
<1> QED
  BY <1>4, <1>7

\* The next item.
LEMMA IntervalAppend ==
    ASSUME NEW a \in Nat, NEW b \in Nat, a <= b
    PROVE  Append(Interval(a, b), b + 1) = Interval(a, b + 1)
<1> DEFINE s == Interval(a, b)
<1>1. s \in Seq(Nat)
  BY IntervalSeq
<1>2. s \o Interval(b, b + 1) = Interval(a, b + 1)
  <2>1. b + 1 \in Nat /\ b <= b + 1
    OBVIOUS
  <2> QED
    BY <2>1, IntervalConcat
<1>3. s \o <<b + 1>> = Interval(a, b + 1)
  BY <1>2, IntervalOne
<1> HIDE DEF s
<1>4. Append(s, b + 1) = s \o <<b + 1>>
  BY <1>1
<1> QED
  BY <1>3, <1>4 DEF s

---------------------------------------------------------------------------
(* The inductive invariant.                                                *)

Before == {"first", "headers", "pick", "connect", "dial"}
Opened == {"reply", "relay", "forward", "body", "response"}

\* Types, and the order in which the agent's items pass through the reader.
Counts ==
    /\ req \in Requests
    /\ sent \in Nat /\ pulled \in Nat /\ consumed \in Nat /\ discarded \in Nat
    /\ consumed <= pulled /\ pulled <= sent /\ sent <= Total
    /\ length \in Nat /\ downRead \in Nat /\ destSent \in Nat
    /\ downRead <= destSent /\ destSent <= MaxDown
    /\ pc \in PCs

Flags ==
    /\ agentClosed \in BOOLEAN /\ replied \in BOOLEAN /\ early \in BOOLEAN
    /\ upDone \in BOOLEAN /\ downDone \in BOOLEAN /\ destClosed \in BOOLEAN

\* The head is read byte by byte up to the limit; before connect() dials
\* nothing of it was sent.
HeadIn ==
    /\ head \in ResponseHead
    /\ headSent \in Nat /\ headRead \in Nat
    /\ headRead <= headSent /\ headSent <= head.size /\ headRead <= HeadLimit + 1
    /\ pc = "handshake" => headRead <= HeadLimit
    /\ pc \in Before => headSent = 0

\* Where the task is tells the state of the tunnel and the kind of request,
\* and before the tunnel is open nothing went either way.
Phases ==
    /\ tunnel \in {"none", "dialing", "open", "dropped"}
    /\ pc \in Before => tunnel = "none"
    /\ pc = "handshake" => tunnel = "dialing"
    /\ pc \in Opened => tunnel = "open"
    /\ pc = "done" => tunnel = "dropped"
    /\ pc = "failed" => tunnel \in {"none", "dropped"}
    /\ pc \in {"reply", "relay"} => req.method = "CONNECT"
    /\ pc \in {"forward", "body", "response"} => req.method = "HTTP"
    /\ pc \in {"headers", "pick", "connect", "dial", "handshake"} =>
          req.method \in {"CONNECT", "HTTP"}
    /\ replied => pc \in {"relay", "done"}
    /\ tunnel \in {"none", "dialing"} => downRead = 0 /\ upstream = <<>>

\* The agent closed within its headers, and all it sent was read.
CutShort ==
    agentClosed /\ consumed = pulled /\ pulled = sent /\ 1 <= sent /\ sent < Blank

\* The request's lines are read one by one, up to the blank line or the end.
Lines ==
    /\ pc = "first" => consumed = 0
    /\ pc = "headers" => 1 <= consumed /\ consumed < Blank
    /\ pc \in {"pick", "connect", "dial", "handshake", "reply", "forward"} =>
          consumed = Blank \/ CutShort

\* A tunnel passes on the items from the point the reader had reached when
\* it was unwrapped, which is the blank line unless the agent was early.
Tunnelled ==
    /\ ~early /\ ~replied => sent <= Blank
    /\ pc = "reply" => upstream = <<>> /\ discarded = 0
    /\ pc = "relay" =>
          /\ consumed = pulled
          /\ \/ /\ Blank + discarded <= pulled
                /\ upstream = Interval(Blank + discarded, pulled)
             \/ CutShort /\ upstream = <<>> /\ discarded = 0
    /\ req.method = "CONNECT" /\ pc \notin {"relay", "done"} =>
          upstream = <<>> /\ discarded = 0

\* A plain request's preamble ends at the blank line, and the body follows.
Forwarded ==
    pc = "body" =>
        \/ Blank <= consumed /\ upstream = Interval(0, Blank)
        \/ CutShort

\* content_length is the last one of the headers read so far.
LengthRead == req.method = "HTTP" => DeclaredBy(LinesRead - 1, length)

ConnInv ==
    /\ Counts /\ Flags /\ HeadIn /\ Phases /\ Lines /\ Tunnelled /\ Forwarded
    /\ LengthRead
    /\ agentGot = Interval(0, downRead)
    /\ upstream \in Seq(1..Last)
    /\ TunnelInOrder /\ PlainRequestExact

\* The positions of a request's items.
LEMMA Positions ==
    ASSUME req \in Requests
    PROVE  /\ req.headers \in Seq(Declared) /\ req.data \in Nat /\ req.cut \in BOOLEAN
           /\ Len(req.headers) \in Nat /\ Blank = Len(req.headers) + 2
           /\ Blank \in Nat /\ Blank >= 2
           /\ Last \in Nat /\ Blank <= Last /\ Total \in Nat /\ Total <= Last
           /\ req.cut => Total = Blank - 1
           /\ ~req.cut => Total = Last
<1>1. /\ req.headers \in Seq(Declared) /\ req.data \in Nat /\ req.cut \in BOOLEAN
      /\ req.cut => req.data = 0
  BY ProxyAssumption DEF Request
<1>2. Len(req.headers) \in Nat
  BY <1>1
<1> QED
  BY <1>1, <1>2 DEF Blank, Total, Last, Last

\* A header line that was read declares nothing or a length.
LEMMA DeclaresIs ==
    ASSUME req \in Requests, NEW n \in Nat, 2 <= n
    PROVE  /\ Declares(n) \in SUBSET Nat
           /\ req.method = "HTTP" /\ n < Blank => Declares(n) = req.headers[n - 1]
           /\ n = Blank => Declares(n) = {}
<1>1. /\ req.headers \in Seq(Declared) /\ Len(req.headers) \in Nat
      /\ Blank = Len(req.headers) + 2
  BY Positions
<1>2. ASSUME n < Blank PROVE req.headers[n - 1] \in SUBSET Nat
  <2>1. n - 1 \in 1..Len(req.headers)
    BY <1>1, <1>2
  <2>2. req.headers[n - 1] \in Declared
    BY <1>1, <2>1
  <2> QED
    BY <2>2 DEF Declared
<1>3. Declares(n) = IF req.method = "HTTP" /\ n < Blank THEN req.headers[n - 1] ELSE {}
  BY DEF Declares
<1>4. n = Blank => ~(n < Blank)
  BY <1>1
<1> QED
  BY <1>2, <1>3, <1>4

\* A step that reads no line leaves the length and what it stands for alone.
LEMMA LengthKept ==
    ASSUME LengthRead, req' = req, length' = length, LinesRead' = LinesRead
    PROVE  LengthRead'
BY DEF LengthRead, DeclaredBy

LEMMA LinesKept ==
    ASSUME Blank \in Nat, consumed \in Nat, consumed' \in Nat, Blank' = Blank,
           consumed' = consumed \/ (Blank <= consumed /\ consumed <= consumed')
    PROVE  LinesRead' = LinesRead
BY DEF LinesRead

\* The request that was forwarded stays what it was.
LEMMA ExactKept ==
    ASSUME PlainRequestExact, req' = req, length' = length, upstream' = upstream,
           pc' = pc, agentClosed => agentClosed' /\ sent' = sent
    PROVE  PlainRequestExact'
<1> SUFFICES ASSUME (req.method = "HTTP" /\ pc = "response")'
             PROVE  \/ /\ DeclaredBy(Len(req.headers), length)'
                       /\ upstream' = Interval(0, Blank' + length')
                    \/ /\ agentClosed' /\ sent' < Blank' /\ DeclaredBy(sent - 1, 0)'
                       /\ upstream' = Interval(0, sent') \o
                              (IF req'.cut /\ sent' = Total' /\ sent' > 1
                               THEN <<>> ELSE <<Blank'>>)
  BY DEF PlainRequestExact
<1>1. Blank' = Blank /\ Total' = Total
  BY DEF Blank, Total, Last
<1>2. CASE DeclaredBy(Len(req.headers), length) /\ upstream = Interval(0, Blank + length)
  <2>1. DeclaredBy(Len(req.headers), length)'
    BY <1>2 DEF DeclaredBy
  <2> QED
    BY <1>1, <1>2, <2>1
<1>3. CASE /\ agentClosed /\ sent < Blank /\ DeclaredBy(sent - 1, 0)
           /\ upstream = Interval(0, sent) \o
                   (IF req.cut /\ sent = Total /\ sent > 1 THEN <<>> ELSE <<Blank>>)
  <2>1. DeclaredBy(sent - 1, 0)'
    BY <1>3 DEF DeclaredBy
  <2> QED
    BY <1>1, <1>3, <2>1
<1> QED
  BY <1>2, <1>3 DEF PlainRequestExact

LEMMA InitInv == Init => ConnInv
<1> SUFFICES ASSUME Init PROVE ConnInv
  OBVIOUS
<1>1. req \in Requests
  BY DEF Init
<1>2. /\ Blank \in Nat /\ Blank >= 2 /\ Total \in Nat
  BY <1>1, Positions
<1>3. Interval(0, 0) = <<>> /\ Interval(Blank, Blank) = <<>>
  BY <1>2, IntervalOne
<1>4. Counts
  <2>1. MaxDown \in Nat
    BY ProxyAssumption
  <2> QED
    BY <1>1, <1>2, <2>1 DEF Init, Counts, PCs
<1>9. Flags
  BY DEF Init, Flags
<1>5. HeadIn
  BY ProxyAssumption DEF Init, HeadIn, NoHead, ResponseHead
<1>6. Phases /\ Lines /\ Tunnelled /\ Forwarded
  BY <1>2 DEF Init, Phases, Lines, Tunnelled, Forwarded, Before, Opened
<1>7. TunnelInOrder
  BY <1>2, <1>3 DEF Init, TunnelInOrder
<1>8. PlainRequestExact
  BY DEF Init, PlainRequestExact
<1>10. LengthRead
  <2>1. LinesRead - 1 = 0 - 1 /\ length = 0 /\ 1..(0 - 1) = {}
    BY <1>2 DEF Init, LinesRead
  <2> QED
    BY <2>1 DEF LengthRead, DeclaredBy
<1>11. upstream \in Seq(1..Last)
  BY DEF Init
<1> QED
  BY <1>2, <1>3, <1>4, <1>5, <1>6, <1>7, <1>8, <1>9, <1>10, <1>11 DEF Init, ConnInv

---------------------------------------------------------------------------
(* Steps of the peers.                                                     *)

LEMMA PeerStepInv == ConnInv /\ PeerStep => ConnInv'
<1> SUFFICES ASSUME ConnInv, PeerStep PROVE ConnInv'
  OBVIOUS
<1> USE DEF ConnInv
<1>1. Blank \in Nat /\ Total \in Nat
  BY Positions DEF Counts
<1>2. req' = req /\ Blank' = Blank /\ Total' = Total /\ Last' = Last
  BY DEF PeerStep, AgentSends, AgentCloses, UpstreamAnswers, DestSends, DestCloses,
         agentVars, Blank, Total, Last
<1>7. LengthRead' /\ PlainRequestExact'
  <2>1. /\ consumed' = consumed /\ length' = length /\ upstream' = upstream
        /\ pc' = pc /\ (agentClosed => agentClosed' /\ sent' = sent)
    BY DEF PeerStep, AgentSends, AgentCloses, UpstreamAnswers, DestSends, DestCloses,
           agentVars, readVars, tunnelVars
  <2>2. LinesRead' = LinesRead
    BY <1>2, <2>1 DEF LinesRead
  <2> QED
    BY <1>2, <2>1, <2>2, LengthKept, ExactKept
<1>3. CASE AgentSends
  <2> USE <1>1, <1>2, <1>3 DEF AgentSends, readVars, tunnelVars, headVars, destVars
  <2>1. Counts'
    BY DEF Counts
  <2>7. Flags'
    BY DEF Flags
  <2>2. HeadIn' /\ Phases'
    BY DEF HeadIn, Phases
  <2>3. Lines' /\ Forwarded'
    BY DEF Lines, Forwarded, CutShort, Counts
  <2>4. Tunnelled'
    <3>1. ~early' /\ ~replied => ~early /\ ~(sent >= Blank)
      OBVIOUS
    <3> QED
      BY <3>1 DEF Tunnelled, CutShort, Counts
  <2>5. TunnelInOrder'
    BY DEF TunnelInOrder
  <2> QED
    BY <1>7, <2>1, <2>2, <2>3, <2>4, <2>5, <2>7
<1>4. CASE AgentCloses
  <2> USE <1>1, <1>2, <1>4 DEF AgentCloses, readVars, tunnelVars, headVars, destVars
  <2>1. Counts' /\ HeadIn' /\ Phases'
    BY DEF Counts, HeadIn, Phases
  <2>5. Flags'
    BY DEF Flags
  <2>2. Lines' /\ Forwarded' /\ Tunnelled'
    BY DEF Lines, Forwarded, CutShort, Tunnelled
  <2>3. TunnelInOrder'
    BY DEF TunnelInOrder
  <2> QED
    BY <1>7, <2>1, <2>2, <2>3, <2>5
<1>5. CASE UpstreamAnswers
  <2> USE <1>1, <1>2, <1>5 DEF UpstreamAnswers, agentVars, readVars, destVars
  <2>1. Counts' /\ Phases'
    BY DEF Counts, Phases
  <2>5. Flags'
    BY DEF Flags
  <2>2. HeadIn'
    BY DEF HeadIn, Phases, Before, Opened, ResponseHead
  <2>3. Lines' /\ Forwarded' /\ Tunnelled'
    BY DEF Lines, Forwarded, CutShort, Tunnelled
  <2>4. TunnelInOrder'
    BY DEF TunnelInOrder
  <2> QED
    BY <1>7, <2>1, <2>2, <2>3, <2>4, <2>5
<1>6. CASE DestSends \/ DestCloses
  <2> USE <1>1, <1>2, <1>6 DEF DestSends, DestCloses, agentVars, readVars, tunnelVars, headVars
  <2>1. Counts'
    BY ProxyAssumption DEF Counts
  <2>5. Flags'
    BY DEF Flags
  <2>2. HeadIn' /\ Phases'
    BY DEF HeadIn, Phases
  <2>3. Lines' /\ Forwarded' /\ Tunnelled'
    BY DEF Lines, Forwarded, CutShort, Tunnelled
  <2>4. TunnelInOrder'
    BY DEF TunnelInOrder
  <2> QED
    BY <1>7, <2>1, <2>2, <2>3, <2>4, <2>5
<1> QED
  BY <1>3, <1>4, <1>5, <1>6 DEF PeerStep

---------------------------------------------------------------------------
(* Steps of the task.                                                      *)

\* What a step that ends the task, with an error or not, leaves alone.
Ends ==
    /\ \/ pc \notin {"relay", "done", "failed"} /\ Fail
       \/ pc \in {"relay", "response"} /\ Finish
    /\ UNCHANGED <<agentVars, readVars, replied, upstream, headVars, downRead,
                   upDone, downDone, destVars, early, discarded>>

LEMMA EndsInv == ConnInv /\ Ends => ConnInv'
<1> SUFFICES ASSUME ConnInv, Ends PROVE ConnInv'
  OBVIOUS
<1> USE DEF ConnInv, Ends, agentVars, readVars, headVars, destVars
<1>1. req' = req /\ Blank' = Blank /\ Total' = Total /\ Last' = Last
  BY DEF Blank, Total, Last
<1>2. pc' \in {"done", "failed"} /\ (pc' = "done" => pc \in {"relay", "response"})
      /\ (pc' = "failed" => pc \notin {"relay", "done", "failed"})
  BY DEF Fail, Finish
<1>3. Counts'
  BY <1>1, <1>2 DEF Counts, PCs
<1>4. Flags'
  BY DEF Flags
<1>5. HeadIn'
  BY <1>2 DEF HeadIn, Before
<1>6. Phases'
  BY <1>1, <1>2 DEF Phases, Fail, Finish, Before, Opened, Counts, PCs
<1>7. Lines' /\ Forwarded' /\ PlainRequestExact'
  BY <1>2 DEF Lines, Forwarded, PlainRequestExact
<1>8. Tunnelled'
  BY <1>1, <1>2 DEF Tunnelled, Phases
<1>9. TunnelInOrder'
  BY <1>1 DEF TunnelInOrder
<1>10. LengthRead'
  <2>1. LinesRead' = LinesRead /\ length' = length
    BY <1>1 DEF LinesRead
  <2> QED
    BY <1>1, <2>1, LengthKept
<1> QED
  BY <1>1, <1>3, <1>4, <1>5, <1>6, <1>7, <1>8, <1>9, <1>10

\* A header line adds what it declares.
LEMMA HeaderLength ==
    ASSUME ConnInv, HeaderLine
    PROVE  length' \in Nat /\ LengthRead'
<1>1. /\ req' = req /\ Blank' = Blank /\ consumed' = consumed + 1
      /\ length' \in LastCounts(consumed + 1)
      /\ 1 <= consumed /\ consumed < Blank
      /\ consumed \in Nat /\ length \in Nat /\ req \in Requests
  BY DEF ConnInv, HeaderLine, LineRead, agentVars, Blank, Counts, Lines
<1>2. /\ Blank \in Nat /\ Len(req.headers) \in Nat /\ Blank = Len(req.headers) + 2
  BY <1>1, Positions
<1>3. /\ consumed + 1 \in Nat /\ 2 <= consumed + 1 /\ (consumed + 1) - 1 = consumed
  BY <1>1
<1>4. /\ Declares(consumed + 1) \in SUBSET Nat
      /\ req.method = "HTTP" /\ consumed + 1 < Blank =>
            Declares(consumed + 1) = req.headers[consumed]
      /\ consumed + 1 = Blank => Declares(consumed + 1) = {}
  BY <1>1, <1>3, DeclaresIs
<1>5. length' \in Nat
  BY <1>1, <1>4 DEF LastCounts
<1>6. LinesRead = consumed
  BY <1>1, <1>2 DEF LinesRead
<1>7. CASE consumed + 1 = Blank
  <2>1. LinesRead' = LinesRead
    BY <1>1, <1>2, <1>6, <1>7 DEF LinesRead
  <2>2. length' = length
    BY <1>1, <1>4, <1>7 DEF LastCounts
  <2> QED
    BY <1>1, <1>5, <2>1, <2>2, LengthKept DEF ConnInv
<1>8. CASE consumed + 1 # Blank
  <2>1. consumed + 1 < Blank
    BY <1>1, <1>2, <1>8
  <2>2. LinesRead' = consumed + 1 /\ LinesRead' - 1 = consumed
    BY <1>1, <1>2, <2>1 DEF LinesRead
  <2>3. ASSUME req.method = "HTTP" PROVE DeclaredBy(LinesRead - 1, length)'
    <3>1. DeclaredBy(consumed - 1, length)
      BY <1>6, <2>3 DEF ConnInv, LengthRead
    <3> DEFINE k == consumed
               h == req.headers
    <3>2. k \in Nat /\ 1 <= k /\ \A i \in 1..k : i = k \/ i \in 1..(k - 1)
      BY <1>1
    <3>3. Declares(k + 1) = h[k]
      BY <1>4, <2>1, <2>3
    <3>4. SUFFICES \/ length' = 0 /\ \A i \in 1..k : h[i] = {}
                   \/ \E i \in 1..k : /\ length' \in h[i]
                                      /\ \A j \in (i + 1)..k : h[j] = {}
      BY <1>1, <2>2 DEF DeclaredBy
    <3>5. \/ length = 0 /\ \A i \in 1..(k - 1) : h[i] = {}
          \/ \E i \in 1..(k - 1) : /\ length \in h[i]
                                   /\ \A j \in (i + 1)..(k - 1) : h[j] = {}
      BY <3>1 DEF DeclaredBy
    <3>6. length' \in IF h[k] = {} THEN {length} ELSE h[k]
      BY <1>1, <3>3 DEF LastCounts
    <3> HIDE DEF k, h
    <3>7. CASE h[k] # {}
      <4>1. k \in 1..k /\ length' \in h[k] /\ (k + 1)..k = {}
        BY <3>2, <3>6, <3>7
      <4>2. \A j \in (k + 1)..k : h[j] = {}
        BY <4>1
      <4> QED
        BY <4>1, <4>2
    <3>8. CASE h[k] = {}
      <4>1. length' = length
        BY <3>6, <3>8
      <4>2. CASE length = 0 /\ \A i \in 1..(k - 1) : h[i] = {}
        BY <3>2, <3>8, <4>1, <4>2
      <4>3. CASE \E i \in 1..(k - 1) : /\ length \in h[i]
                                       /\ \A j \in (i + 1)..(k - 1) : h[j] = {}
        <5>1. PICK i \in 1..(k - 1) : /\ length \in h[i]
                                      /\ \A j \in (i + 1)..(k - 1) : h[j] = {}
          BY <4>3
        <5>2. i \in 1..k /\ \A j \in (i + 1)..k : j = k \/ j \in (i + 1)..(k - 1)
          BY <3>2
        <5>3. \A j \in (i + 1)..k : h[j] = {}
          BY <3>8, <5>1, <5>2
        <5> QED
          BY <4>1, <5>1, <5>2, <5>3
      <4> QED
        BY <3>5, <4>2, <4>3
    <3> QED
      BY <3>7, <3>8
  <2> QED
    BY <1>1, <1>5, <2>3 DEF LengthRead
<1> QED
  BY <1>7, <1>8

\* Reading the request.
LEMMA ReadInv ==
    ConnInv /\ (Fill \/ FirstLine \/ FirstLineEof \/ HeaderLine \/ HeaderEof) => ConnInv'
<1> SUFFICES ASSUME ConnInv, Fill \/ FirstLine \/ FirstLineEof \/ HeaderLine \/ HeaderEof
             PROVE  ConnInv'
  OBVIOUS
<1> USE DEF ConnInv
<1>1. CASE FirstLineEof
  BY <1>1, EndsInv DEF FirstLineEof, Ends
<1>2. CASE Fill \/ FirstLine \/ HeaderLine \/ HeaderEof
  <2> USE <1>2 DEF agentVars, tunnelVars, headVars, destVars
  <2>1. /\ req' = req /\ Blank' = Blank /\ Total' = Total /\ Last' = Last
        /\ sent' = sent /\ agentClosed' = agentClosed /\ upstream' = upstream
        /\ discarded' = discarded /\ early' = early /\ replied' = replied
        /\ tunnel' = tunnel /\ agentGot' = agentGot /\ downRead' = downRead
    BY DEF Fill, FirstLine, HeaderLine, HeaderEof, readVars, Blank, Total, Last
  <2>2. Blank \in Nat /\ Blank >= 2 /\ Total \in Nat
    BY Positions DEF Counts
  <2>3. /\ pc \in {"first", "headers", "body"}
        /\ pc' \in {"first", "headers", "pick", "body", "failed"}
        /\ pc' # pc => pc \in {"first", "headers"} /\ pc' \in {"headers", "pick", "failed"}
        /\ pc' = "failed" => pc = "first"
        /\ pc' = "pick" => pc = "headers"
        /\ pc' = "headers" => req.method \in {"CONNECT", "HTTP"}
    BY DEF Fill, FirstLine, HeaderLine, HeaderEof, Parses, Phases
  <2>9. length' \in Nat /\ LengthRead'
    <3>1. CASE HeaderLine
      BY <3>1, HeaderLength
    <3>2. CASE Fill \/ HeaderEof
      <4>1. consumed' = consumed /\ length' = length
        BY <3>2 DEF Fill, HeaderEof, readVars
      <4>2. LinesRead' = LinesRead
        BY <2>1, <4>1 DEF LinesRead
      <4> QED
        BY <2>1, <4>1, <4>2, LengthKept DEF Counts
    <3>3. CASE FirstLine
      <4>1. consumed = 0 /\ consumed' = 1 /\ length' = length
        BY <3>3 DEF FirstLine, LineRead, Lines
      <4>2. LinesRead = 0 /\ LinesRead' = 1
        BY <2>1, <2>2, <4>1 DEF LinesRead
      <4>3. 1..(0 - 1) = {} /\ 1..(1 - 1) = {}
        OBVIOUS
      <4>4. LengthRead'
        BY <2>1, <4>1, <4>2, <4>3 DEF LengthRead, DeclaredBy
      <4> QED
        BY <4>1, <4>4 DEF Counts
    <3> QED
      BY <1>2, <3>1, <3>2, <3>3
  <2>4. Counts'
    BY <2>1, <2>2, <2>3, <2>9
    DEF Counts, Fill, FirstLine, HeaderLine, HeaderEof, LineRead, readVars, PCs
  <2>5. Flags' /\ HeadIn'
    BY <2>3 DEF Flags, HeadIn, Fill, FirstLine, HeaderLine, HeaderEof, Before
  <2>6. Phases'
    BY <2>1, <2>3 DEF Phases, Before, Opened
  <2>7. Lines' /\ Forwarded'
    BY <2>1, <2>2, <2>3 DEF Lines, Forwarded, CutShort, Counts, Fill, FirstLine, HeaderLine,
       HeaderEof, LineRead, IsBlank, EofIsBlank, AgentEof, readVars
  <2>8. Tunnelled' /\ TunnelInOrder' /\ PlainRequestExact'
    BY <2>1, <2>3 DEF Tunnelled, TunnelInOrder, PlainRequestExact
  <2> QED
    BY <2>1, <2>4, <2>5, <2>6, <2>7, <2>8, <2>9
<1> QED
  BY <1>1, <1>2

\* Picking a transport and connecting it.
LEMMA ConnectInv ==
    ConnInv /\ (Pick \/ Connect \/ Dial \/ ReadHead \/ HeadEof) => ConnInv'
<1> SUFFICES ASSUME ConnInv, Pick \/ Connect \/ Dial \/ ReadHead \/ HeadEof
             PROVE  ConnInv'
  OBVIOUS
<1> USE DEF ConnInv
<1>1. CASE HeadEof
  BY <1>1, EndsInv DEF HeadEof, Ends
<1>2. CASE Pick \/ Connect \/ Dial \/ ReadHead
  <2> USE <1>2 DEF agentVars, readVars, destVars
  <2>1. /\ req' = req /\ Blank' = Blank /\ Total' = Total /\ Last' = Last
        /\ sent' = sent /\ pulled' = pulled /\ consumed' = consumed
        /\ length' = length
        /\ agentClosed' = agentClosed /\ upstream' = upstream
        /\ discarded' = discarded /\ early' = early /\ replied' = replied
        /\ agentGot' = agentGot /\ downRead' = downRead /\ destSent' = destSent
    BY DEF Pick, Connect, Dial, ReadHead, TakesOne, tunnelVars, headVars, Blank, Total, Last
  <2>2. /\ pc \in {"pick", "connect", "dial", "handshake"}
        /\ pc' \in {"connect", "dial", "handshake", "reply", "forward", "failed"}
        /\ pc' = "reply" => req.method = "CONNECT"
        /\ pc' = "forward" => req.method = "HTTP"
    BY DEF Pick, AfterPick, Connect, Connected, Fail, Dial, ReadHead, Phases
  <2>3. Counts'
    BY <2>1, <2>2 DEF Counts, PCs
  <2>4. Flags'
    BY <2>1 DEF Flags, Pick, Connect, Dial, ReadHead, tunnelVars
  <2>5. HeadIn'
    BY ProxyAssumption
    DEF HeadIn, Pick, AfterPick, Connect, Connected, Fail, Dial, ReadHead, TooLarge, Before,
        tunnelVars, headVars, ResponseHead
  <2>6. Phases'
    <3>1. /\ pc' \in {"connect", "dial", "failed"} => tunnel' = "none"
          /\ pc' = "handshake" => tunnel' = "dialing"
          /\ pc' \in {"reply", "forward"} => tunnel' = "open"
          /\ tunnel \in {"none", "dialing"}
      BY DEF Phases, Before, Pick, AfterPick, Connect, Connected, Fail, Dial, ReadHead, tunnelVars
    <3> QED
      BY <2>1, <2>2, <3>1 DEF Phases, Before, Opened
  <2>7. Lines' /\ Forwarded'
    BY <2>1, <2>2 DEF Lines, Forwarded, CutShort
  <2>8. Tunnelled' /\ TunnelInOrder' /\ PlainRequestExact'
    BY <2>1, <2>2 DEF Tunnelled, TunnelInOrder, PlainRequestExact
  <2>9. LengthRead'
    <3>1. LinesRead' = LinesRead
      BY <2>1 DEF LinesRead
    <3> QED
      BY <2>1, <3>1, LengthKept
  <2> QED
    BY <2>1, <2>3, <2>4, <2>5, <2>6, <2>7, <2>8, <2>9
<1> QED
  BY <1>1, <1>2

\* handle_connect from the answer on.
LEMMA ReplyInv == ConnInv /\ Reply => ConnInv'
<1> SUFFICES ASSUME ConnInv, Reply PROVE ConnInv'
  OBVIOUS
<1> USE DEF ConnInv
<1>1. pc = "reply" /\ req.method = "CONNECT"
  BY DEF Reply, Phases
<1>2. CASE Fail /\ UNCHANGED <<replied, discarded, consumed>>
  BY <1>1, <1>2, EndsInv DEF Reply, Ends, readVars
<1>3. CASE pc' = "relay" /\ replied' = TRUE /\ IntoInner /\ UNCHANGED tunnel
  <2>1. /\ req' = req /\ Blank' = Blank /\ Total' = Total /\ Last' = Last
        /\ sent' = sent /\ pulled' = pulled /\ consumed' = pulled
        /\ length' = length
        /\ agentClosed' = agentClosed /\ upstream' = upstream /\ tunnel' = tunnel
        /\ discarded' = pulled - consumed /\ early' = early
        /\ agentGot' = agentGot /\ downRead' = downRead /\ destSent' = destSent
        /\ UNCHANGED headVars /\ UNCHANGED <<upDone, downDone, destClosed>>
    BY <1>3 DEF Reply, IntoInner, agentVars, destVars, Blank, Total, Last
  <2>2. Blank \in Nat /\ Total \in Nat
    BY Positions DEF Counts
  <2>3. Counts'
    BY <1>3, <2>1 DEF Counts, PCs
  <2>4. Flags'
    BY <1>3, <2>1 DEF Flags
  <2>5. HeadIn'
    BY <1>3, <2>1 DEF HeadIn, headVars, Before
  <2>6. Phases'
    BY <1>1, <1>3, <2>1 DEF Phases, Before, Opened
  <2>7. Lines' /\ Forwarded' /\ PlainRequestExact' /\ LengthRead'
    BY <1>1, <1>3, <2>1 DEF Lines, Forwarded, PlainRequestExact, LengthRead
  <2>8. upstream = <<>> /\ ~replied
    BY <1>1 DEF Tunnelled, Phases
  <2>9. CASE CutShort
    <3>1. discarded' = 0 /\ CutShort'
      BY <2>1, <2>9 DEF CutShort, Counts
    <3>2. Tunnelled'
      BY <1>3, <2>1, <2>8, <3>1 DEF Tunnelled
    <3>3. TunnelInOrder'
      <4>1. Interval(Blank, Blank) = <<>>
        BY <2>2, IntervalOne
      <4>2. Blank + 0 + Len(<<>>) = Blank /\ Blank + 0 = Blank
        BY <2>2
      <4> QED
        BY <2>1, <2>8, <3>1, <4>1, <4>2 DEF TunnelInOrder
    <3> QED
      BY <2>1, <2>3, <2>4, <2>5, <2>6, <2>7, <3>2, <3>3
  <2>10. CASE consumed = Blank
    <3>1. /\ discarded' \in Nat /\ Blank + discarded' = pulled
          /\ ~early => discarded' = 0
      BY <2>1, <2>2, <2>8, <2>10 DEF Counts, Tunnelled
    <3>2. Interval(pulled, pulled) = <<>> /\ pulled \in Nat
      BY IntervalOne DEF Counts
    <3>3. Tunnelled'
      BY <1>3, <2>1, <2>8, <3>1, <3>2 DEF Tunnelled
    <3>4. TunnelInOrder'
      <4>1. pulled + Len(<<>>) = pulled
        BY <3>2
      <4> QED
        BY <2>1, <2>8, <3>1, <3>2, <4>1 DEF TunnelInOrder
    <3> QED
      BY <2>1, <2>3, <2>4, <2>5, <2>6, <2>7, <3>3, <3>4
  <2> QED
    BY <1>1, <2>9, <2>10 DEF Lines
<1> QED
  BY <1>2, <1>3 DEF Reply

LEMMA CopyUpInv == ConnInv /\ CopyUp => ConnInv'
<1> SUFFICES ASSUME ConnInv, CopyUp PROVE ConnInv'
  OBVIOUS
<1> USE DEF ConnInv
<1> DEFINE a == Blank + discarded
<1>1. /\ pc = "relay" /\ pc' = pc /\ pulled < sent
      /\ req' = req /\ Blank' = Blank /\ Total' = Total /\ Last' = Last
      /\ sent' = sent /\ pulled' = pulled + 1 /\ consumed' = pulled + 1
      /\ length' = length /\ req.method = "CONNECT"
      /\ agentClosed' = agentClosed /\ tunnel' = tunnel
      /\ upstream' = Append(upstream, pulled + 1)
      /\ discarded' = discarded /\ early' = early /\ replied' = replied
      /\ agentGot' = agentGot /\ downRead' = downRead /\ destSent' = destSent
      /\ UNCHANGED headVars /\ UNCHANGED <<upDone, downDone, destClosed>>
  BY DEF CopyUp, agentVars, destVars, Blank, Total, Last, Phases
<1>2. Blank \in Nat /\ Total \in Nat /\ Last \in Nat /\ Total <= Last /\ pulled \in Nat /\ discarded \in Nat /\ sent <= Total
      /\ sent \in Nat
  BY Positions DEF Counts
<1>3. a <= pulled /\ upstream = Interval(a, pulled)
  BY <1>1, <1>2 DEF Tunnelled, CutShort, Counts
<1>4. a \in Nat
  BY <1>2
<1> HIDE DEF a
<1>5. upstream' = Interval(a, pulled + 1)
  BY <1>1, <1>2, <1>3, <1>4, IntervalAppend
<1>6. Len(upstream') = (pulled + 1) - a
  <2>1. pulled + 1 \in Nat /\ a <= pulled + 1
    BY <1>2, <1>3, <1>4
  <2> QED
    BY <2>1, <1>4, <1>5, IntervalSeq
<1>7. Counts'
  BY <1>1 DEF Counts
<1>8. Flags'
  BY <1>1 DEF Flags
<1>9. HeadIn'
  BY <1>1 DEF HeadIn, headVars
<1>10. Phases'
  BY <1>1 DEF Phases, Before, Opened
<1>11. Lines' /\ Forwarded' /\ PlainRequestExact' /\ LengthRead'
  BY <1>1 DEF Lines, Forwarded, PlainRequestExact, LengthRead
<1>12. Tunnelled'
  <2>1. a' = a /\ a <= pulled + 1
    BY <1>1, <1>2, <1>3, <1>4 DEF a
  <2>2. Blank' + discarded' = a /\ pulled' = pulled + 1
    BY <1>1 DEF a
  <2> QED
    BY <1>1, <1>5, <2>1, <2>2 DEF Tunnelled, Phases
<1>13. TunnelInOrder'
  <2>1. a + Len(upstream') = pulled + 1
    BY <1>2, <1>4, <1>6
  <2>2. Blank' + discarded' = a
    BY <1>1 DEF a
  <2> QED
    BY <1>1, <1>5, <2>1, <2>2 DEF TunnelInOrder
<1>14. upstream' \in Seq(1..Last')
  <2>1. pulled + 1 \in 1..Last
    BY <1>1, <1>2
  <2> QED
    BY <1>1, <2>1
<1> QED
  BY <1>1, <1>7, <1>8, <1>9, <1>10, <1>11, <1>12, <1>13, <1>14

LEMMA CopyInv ==
    ConnInv /\ (CopyUpEof \/ CopyDown \/ CopyDownEof \/ RelayEnds) => ConnInv'
<1> SUFFICES ASSUME ConnInv, CopyUpEof \/ CopyDown \/ CopyDownEof \/ RelayEnds
             PROVE  ConnInv'
  OBVIOUS
<1> USE DEF ConnInv
<1>1. CASE RelayEnds
  BY <1>1, EndsInv DEF RelayEnds, Ends
<1>2. CASE CopyUpEof \/ CopyDown \/ CopyDownEof
  <2>1. /\ pc' = pc /\ pc \in {"relay", "response"}
        /\ req' = req /\ Blank' = Blank /\ Total' = Total /\ Last' = Last
        /\ sent' = sent /\ pulled' = pulled /\ consumed' = consumed
        /\ length' = length
        /\ agentClosed' = agentClosed /\ tunnel' = tunnel /\ upstream' = upstream
        /\ discarded' = discarded /\ early' = early /\ replied' = replied
        /\ destSent' = destSent /\ destClosed' = destClosed /\ UNCHANGED headVars
    BY <1>2 DEF CopyUpEof, CopyDown, CopyDownEof, agentVars, readVars, destVars, Blank, Total, Last
  <2>2. /\ downRead \in Nat
        /\ \/ downRead' = downRead /\ agentGot' = agentGot
           \/ /\ downRead' = downRead + 1 /\ downRead < destSent
              /\ agentGot' = Append(agentGot, downRead + 1)
    BY <1>2 DEF CopyUpEof, CopyDown, CopyDownEof, agentVars, Counts
  <2>3. agentGot' = Interval(0, downRead')
    <3>1. Append(Interval(0, downRead), downRead + 1) = Interval(0, downRead + 1)
      <4>1. 0 \in Nat /\ 0 <= downRead
        BY <2>2
      <4> QED
        BY <2>2, <4>1, IntervalAppend
    <3> QED
      BY <2>2, <3>1
  <2>4. Counts'
    BY <2>1, <2>2 DEF Counts
  <2>5. Flags'
    BY <1>2, <2>1 DEF Flags, CopyUpEof, CopyDown, CopyDownEof
  <2>6. HeadIn'
    BY <2>1 DEF HeadIn, headVars
  <2>7. Phases'
    BY <2>1 DEF Phases, Before, Opened
  <2>8. Lines' /\ Forwarded' /\ PlainRequestExact' /\ LengthRead'
    <3>1. LinesRead' = LinesRead
      BY <2>1 DEF LinesRead
    <3>2. PlainRequestExact' /\ LengthRead'
      BY <2>1, <3>1, ExactKept, LengthKept
    <3> QED
      BY <2>1, <3>2 DEF Lines, Forwarded
  <2>9. Tunnelled' /\ TunnelInOrder'
    BY <2>1 DEF Tunnelled, TunnelInOrder, CutShort
  <2> QED
    BY <2>1, <2>3, <2>4, <2>5, <2>6, <2>7, <2>8, <2>9
<1> QED
  BY <1>1, <1>2

\* The end of a head that was cut short: a blank line, or nothing.
Closing == IF req.cut /\ sent = Total /\ sent > 1 THEN <<>> ELSE <<Blank>>

\* handle_plain_http: what the preamble is.
LEMMA PreambleIs ==
    ASSUME ConnInv, consumed = Blank \/ CutShort
    PROVE  /\ consumed = Blank => Preamble = Interval(0, Blank)
           /\ CutShort => Preamble = Interval(0, sent) \o Closing
           /\ Preamble \in Seq(1..Last)
<1>1. /\ Blank \in Nat /\ Blank >= 2 /\ Last \in Nat /\ Blank <= Last
      /\ consumed \in Nat /\ sent \in Nat /\ consumed <= Total /\ Total \in Nat
      /\ req.cut => Total = Blank - 1
  BY Positions DEF ConnInv, Counts
<1>2. ASSUME consumed = Blank PROVE Preamble = Interval(0, Blank)
  <2>1. /\ LinesRead = Blank - 1 /\ Blank - 1 \in Nat /\ 0 <= Blank - 1
        /\ (Blank - 1) + 1 = Blank
    BY <1>1, <1>2 DEF LinesRead
  <2>2. Interval(0, Blank - 1) \o Interval(Blank - 1, Blank) = Interval(0, Blank)
    <3>1. Blank - 1 <= Blank /\ 0 \in Nat
      BY <1>1
    <3> QED
      BY <1>1, <2>1, <3>1, IntervalConcat
  <2>3. Interval(Blank - 1, Blank) = <<Blank>>
    <3>1. Interval(Blank - 1, (Blank - 1) + 1) = <<(Blank - 1) + 1>>
      BY <2>1, IntervalOne
    <3> QED
      BY <2>1, <3>1
  <2>4. ~HeaderCut
    BY <1>1, <1>2 DEF HeaderCut
  <2> QED
    BY <2>1, <2>2, <2>3, <2>4 DEF Preamble
<1>3. ASSUME CutShort PROVE Preamble = Interval(0, sent) \o Closing
  <2>1. LinesRead = sent
    BY <1>1, <1>3 DEF LinesRead, CutShort
  <2>2. HeaderCut <=> (req.cut /\ sent = Total /\ sent > 1)
    BY <1>1, <2>1 DEF HeaderCut
  <2> QED
    BY <2>1, <2>2 DEF Preamble, Closing
<1>4. Preamble \in Seq(1..Last)
  <2>1. LinesRead \in Nat /\ LinesRead < Blank
    BY <1>1 DEF LinesRead
  <2>2. Interval(0, LinesRead) \in Seq(1..Last)
    <3>1. 0 \in Nat /\ 0 <= LinesRead /\ LinesRead <= Last
      BY <1>1, <2>1
    <3> QED
      BY <1>1, <2>1, <3>1, IntervalIn
  <2>3. <<Blank>> \in Seq(1..Last) /\ <<>> \in Seq(1..Last)
    <3>1. Blank \in 1..Last
      BY <1>1
    <3> QED
      BY <3>1
  <2> DEFINE x == Interval(0, LinesRead)
             y == IF HeaderCut THEN <<>> ELSE <<Blank>>
  <2>4. x \in Seq(1..Last) /\ y \in Seq(1..Last)
    BY <2>2, <2>3
  <2> HIDE DEF x, y
  <2>5. x \o y \in Seq(1..Last)
    BY <2>4
  <2> QED
    BY <2>5 DEF x, y, Preamble
<1> QED
  BY <1>2, <1>3, <1>4

\* Which headers the length comes from once they are read.
LEMMA LengthIs ==
    ASSUME ConnInv, req.method = "HTTP"
    PROVE  /\ Blank <= consumed => DeclaredBy(Len(req.headers), length)
           /\ CutShort => DeclaredBy(sent - 1, length)
<1>1. /\ Len(req.headers) \in Nat /\ Blank = Len(req.headers) + 2
      /\ consumed \in Nat /\ DeclaredBy(LinesRead - 1, length)
  BY Positions DEF ConnInv, Counts, LengthRead
<1>2. Blank <= consumed => LinesRead - 1 = Len(req.headers)
  BY <1>1 DEF LinesRead
<1>3. CutShort => LinesRead - 1 = sent - 1
  BY <1>1 DEF LinesRead, CutShort
<1> QED
  BY <1>1, <1>2, <1>3

\* What changes when handle_plain_http writes, whether it succeeds or not.
LEMMA PlainWriteInv ==
    ASSUME ConnInv, pc \in {"forward", "body"},
           upstream' \in Seq(1..Last),
           UNCHANGED <<agentVars, pulled, length, replied, headVars, downRead,
                       upDone, downDone, destVars, early>>,
           \/ Fail /\ UNCHANGED <<consumed, discarded>>
           \/ pc' = "body" /\ UNCHANGED <<tunnel, consumed, discarded>>
           \/ pc' = "response" /\ IntoInner /\ UNCHANGED tunnel,
           Blank <= consumed \/ CutShort,
           Forwarded', PlainRequestExact'
    PROVE  ConnInv'
<1> USE DEF ConnInv, agentVars, headVars, destVars
<1>1. /\ req' = req /\ Blank' = Blank /\ Total' = Total /\ Last' = Last
  BY DEF Blank, Total, Last
<1>2. /\ req.method = "HTTP" /\ tunnel = "open" /\ ~replied
      /\ pc' \in {"failed", "body", "response"}
  BY DEF Phases, Opened, Fail
<1>3. Counts'
  BY <1>1, <1>2 DEF Counts, PCs, IntoInner, Fail
<1>4. Flags'
  BY DEF Flags
<1>5. HeadIn'
  BY <1>2 DEF HeadIn, Before
<1>6. Phases'
  <2>1. tunnel' = IF pc' = "failed" THEN "dropped" ELSE "open"
    BY <1>2 DEF Fail
  <2> QED
    BY <1>1, <1>2, <2>1 DEF Phases, Before, Opened
<1>7. Lines'
  BY <1>2 DEF Lines
<1>8. Tunnelled' /\ TunnelInOrder'
  BY <1>1, <1>2 DEF Tunnelled, TunnelInOrder
<1>9. LengthRead'
  <2>1. Blank \in Nat /\ consumed \in Nat /\ consumed' \in Nat
    BY <1>3, Positions DEF Counts
  <2>2. consumed' = consumed \/ (Blank <= consumed /\ consumed <= consumed')
    BY DEF IntoInner, CutShort, Counts
  <2>3. LinesRead' = LinesRead
    BY <1>1, <2>1, <2>2, LinesKept
  <2> QED
    BY <1>1, <2>3, LengthKept
<1> QED
  BY <1>1, <1>3, <1>4, <1>5, <1>6, <1>7, <1>8, <1>9

LEMMA ForwardInv == ConnInv /\ Forward => ConnInv'
<1> SUFFICES ASSUME ConnInv, Forward PROVE ConnInv'
  OBVIOUS
<1>1. /\ pc = "forward"
      /\ UNCHANGED <<agentVars, pulled, length, replied, headVars, downRead,
                     upDone, downDone, destVars, early>>
  BY DEF Forward
<1>2. /\ Blank' = Blank /\ Total' = Total /\ req' = req /\ sent' = sent
      /\ agentClosed' = agentClosed /\ pulled' = pulled /\ length' = length
  BY <1>1 DEF agentVars, Blank, Total, Last
<1>3. /\ consumed = Blank => Preamble = Interval(0, Blank)
      /\ CutShort => Preamble = Interval(0, sent) \o Closing
      /\ consumed = Blank \/ CutShort
      /\ Blank <= consumed \/ CutShort
      /\ Preamble \in Seq(1..Last)
  <2>1. consumed = Blank \/ CutShort
    BY <1>1 DEF ConnInv, Lines
  <2>2. consumed = Blank => Blank <= consumed
    BY Positions DEF ConnInv, Counts
  <2> QED
    BY <2>1, <2>2, PreambleIs
<1>4. CASE /\ upstream' = Preamble
           /\ pc' = IF length > 0 THEN "body" ELSE "response"
           /\ IF length > 0 THEN UNCHANGED <<consumed, discarded>> ELSE IntoInner
           /\ UNCHANGED tunnel
  <2>1. CASE length > 0
    <3>1. Forwarded'
      BY <1>2, <1>3, <1>4, <2>1, Positions DEF Forwarded, CutShort, ConnInv, Counts
    <3>2. PlainRequestExact'
      BY <1>4, <2>1 DEF PlainRequestExact
    <3> QED
      BY <1>1, <1>3, <1>4, <2>1, <3>1, <3>2, PlainWriteInv
  <2>2. CASE ~(length > 0)
    <3>1. Forwarded'
      BY <1>4, <2>2 DEF Forwarded
    <3>2. PlainRequestExact'
      <4>0. length = 0 /\ Blank \in Nat
        BY <2>2, Positions DEF ConnInv, Counts
      <4>1. CASE consumed = Blank
        <5>1. Blank <= consumed /\ Blank + length = Blank
          BY <4>0, <4>1
        <5>2. req.method = "HTTP" => DeclaredBy(Len(req.headers), length)
          BY <5>1, LengthIs
        <5>3. req.method = "HTTP" => DeclaredBy(Len(req.headers), length)'
          BY <1>2, <5>2 DEF DeclaredBy
        <5> QED
          BY <1>2, <1>3, <1>4, <4>1, <5>1, <5>3 DEF PlainRequestExact
      <4>2. CASE CutShort
        <5>1. req.method = "HTTP" => DeclaredBy(sent - 1, 0)
          BY <4>0, <4>2, LengthIs
        <5>2. req.method = "HTTP" => DeclaredBy(sent - 1, 0)'
          BY <1>2, <5>1 DEF DeclaredBy
        <5> QED
          BY <1>2, <1>3, <1>4, <4>2, <5>2 DEF PlainRequestExact, CutShort, Closing
      <4> QED
        BY <1>3, <4>1, <4>2
    <3> QED
      BY <1>1, <1>3, <1>4, <2>2, <3>1, <3>2, PlainWriteInv
  <2> QED
    BY <2>1, <2>2
<1>5. CASE /\ \E n \in 0..Len(Preamble) : upstream' = SubSeq(Preamble, 1, n)
           /\ Fail
           /\ UNCHANGED <<consumed, discarded>>
  <2>1. PICK n \in 0..Len(Preamble) : upstream' = SubSeq(Preamble, 1, n)
    BY <1>5
  <2>2. upstream' \in Seq(1..Last)
    BY <1>3, <2>1, CutIn
  <2>3. Forwarded' /\ PlainRequestExact'
    BY <1>5 DEF Fail, Forwarded, PlainRequestExact
  <2> QED
    BY <1>1, <1>3, <1>5, <2>2, <2>3, PlainWriteInv
<1> QED
  BY <1>4, <1>5 DEF Forward

LEMMA ForwardBodyInv == ConnInv /\ ForwardBody => ConnInv'
<1> SUFFICES ASSUME ConnInv, ForwardBody PROVE ConnInv'
  OBVIOUS
<1>1. /\ pc = "body" /\ consumed = BodyEnd
      /\ UNCHANGED <<agentVars, pulled, length, replied, headVars, downRead,
                     upDone, downDone, destVars, early>>
  BY DEF ForwardBody
<1>2. Blank' = Blank /\ req' = req /\ length' = length
  BY <1>1 DEF agentVars, Blank
<1>3. /\ Blank \in Nat /\ Last \in Nat /\ length \in Nat /\ consumed \in Nat
      /\ consumed <= Last /\ sent \in Nat
  BY Positions DEF ConnInv, Counts
<1>4. Blank <= consumed
  BY <1>1, <1>3 DEF BodyEnd
<1>5. /\ consumed = Blank + length
      /\ req.method = "HTTP" => DeclaredBy(Len(req.headers), length)'
  <2>1. req.method = "HTTP" => DeclaredBy(Len(req.headers), length)
    BY <1>4, LengthIs
  <2>2. req.method = "HTTP" => DeclaredBy(Len(req.headers), length)'
    BY <1>2, <2>1 DEF DeclaredBy
  <2> QED
    BY <1>1, <2>2 DEF BodyEnd
<1>6. upstream = Interval(0, Blank)
  BY <1>1, <1>3, <1>4 DEF ConnInv, Forwarded, CutShort
<1>7. ASSUME NEW n \in Blank..consumed
      PROVE  /\ upstream \o Interval(Blank, n) = Interval(0, n)
             /\ Interval(0, n) \in Seq(1..Last)
  <2>1. n \in Nat /\ Blank <= n /\ n <= Last /\ 0 \in Nat /\ 0 <= Blank /\ 0 <= n
    BY <1>3, <1>7
  <2>2. Interval(0, Blank) \o Interval(Blank, n) = Interval(0, n)
    BY <1>3, <2>1, IntervalConcat
  <2>3. Interval(0, n) \in Seq(1..Last)
    BY <1>3, <2>1, IntervalIn
  <2> QED
    BY <1>6, <2>2, <2>3
<1>8. CASE /\ upstream' = upstream \o Interval(Blank, consumed)
           /\ pc' = "response" /\ IntoInner /\ UNCHANGED tunnel
  <2>1. upstream' = Interval(0, consumed) /\ upstream' \in Seq(1..Last)
    <3>1. consumed \in Blank..consumed
      BY <1>3, <1>4
    <3> QED
      BY <1>7, <1>8, <3>1
  <2>2. PlainRequestExact'
    BY <1>2, <1>5, <2>1 DEF PlainRequestExact
  <2>3. Forwarded'
    BY <1>8 DEF Forwarded
  <2> QED
    BY <1>1, <1>4, <1>8, <2>1, <2>2, <2>3, PlainWriteInv
<1>9. CASE /\ \E n \in Blank..consumed : upstream' = upstream \o Interval(Blank, n)
           /\ Fail
           /\ UNCHANGED <<consumed, discarded>>
  <2>1. upstream' \in Seq(1..Last)
    BY <1>7, <1>9
  <2>2. Forwarded' /\ PlainRequestExact'
    BY <1>9 DEF Fail, Forwarded, PlainRequestExact
  <2> QED
    BY <1>1, <1>4, <1>9, <2>1, <2>2, PlainWriteInv
<1> QED
  BY <1>8, <1>9 DEF ForwardBody

LEMMA BodyInv ==
    ConnInv /\ (ReadBody \/ BodyEof \/ ResponseEnds \/ Breaks) => ConnInv'
<1> SUFFICES ASSUME ConnInv, ReadBody \/ BodyEof \/ ResponseEnds \/ Breaks
             PROVE  ConnInv'
  OBVIOUS
<1>1. CASE BodyEof \/ ResponseEnds \/ Breaks
  <2>1. Ends
    BY <1>1 DEF BodyEof, ResponseEnds, Breaks, Ends
  <2> QED
    BY <2>1, EndsInv
<1>2. CASE ReadBody
  <2> USE DEF ConnInv
  <2>1. /\ req' = req /\ Blank' = Blank /\ Total' = Total /\ Last' = Last
        /\ sent' = sent /\ pulled' = pulled /\ consumed' = consumed + 1
        /\ length' = length
        /\ pc = "body" /\ pc' = pc /\ consumed < pulled
        /\ agentClosed' = agentClosed /\ upstream' = upstream /\ tunnel' = tunnel
        /\ discarded' = discarded /\ early' = early /\ replied' = replied
        /\ agentGot' = agentGot /\ downRead' = downRead /\ destSent' = destSent
        /\ UNCHANGED headVars /\ UNCHANGED <<upDone, downDone, destClosed>>
    BY <1>2 DEF ReadBody, agentVars, tunnelVars, destVars, Blank, Total, Last
  <2>2. Counts'
    BY <2>1 DEF Counts
  <2>3. Flags'
    BY <2>1 DEF Flags
  <2>4. HeadIn'
    BY <2>1 DEF HeadIn, headVars
  <2>5. Phases'
    BY <2>1 DEF Phases, Before, Opened
  <2>6. Lines' /\ PlainRequestExact'
    BY <2>1 DEF Lines, PlainRequestExact
  <2>7. Forwarded'
    BY <2>1, Positions DEF Forwarded, CutShort, Counts
  <2>8. Tunnelled' /\ TunnelInOrder'
    BY <2>1 DEF Tunnelled, TunnelInOrder
  <2>9. LengthRead'
    <3>1. /\ Blank \in Nat /\ consumed \in Nat /\ consumed' \in Nat
          /\ Blank <= consumed /\ consumed <= consumed'
      BY <2>1, Positions DEF Forwarded, CutShort, Counts
    <3>2. LinesRead' = LinesRead
      BY <2>1, <3>1, LinesKept
    <3> QED
      BY <2>1, <3>2, LengthKept
  <2> QED
    BY <2>1, <2>2, <2>3, <2>4, <2>5, <2>6, <2>7, <2>8, <2>9
<1> QED
  BY <1>1, <1>2

LEMMA StutterInv == ConnInv /\ UNCHANGED vars => ConnInv'
<1> SUFFICES ASSUME ConnInv, UNCHANGED vars PROVE ConnInv'
  OBVIOUS
<1> USE DEF vars, agentVars, readVars, tunnelVars, headVars, destVars
<1>1. LinesRead' = LinesRead /\ Blank' = Blank /\ Total' = Total /\ Last' = Last
  BY DEF LinesRead, Blank, Total, Last
<1>2. LengthRead' /\ PlainRequestExact'
  BY <1>1, LengthKept, ExactKept DEF ConnInv
<1>3. (Counts /\ Flags /\ HeadIn /\ Phases /\ Lines /\ Tunnelled /\ Forwarded)'
  BY <1>1 DEF ConnInv, Counts, Flags, HeadIn, Phases, Lines, Tunnelled, Forwarded, CutShort
<1>4. TunnelInOrder'
  BY <1>1 DEF ConnInv, TunnelInOrder
<1> QED
  BY <1>1, <1>2, <1>3, <1>4 DEF ConnInv

LEMMA Invariant == Spec => []ConnInv
<1>1. ConnInv /\ [Next]_vars => ConnInv'
  BY PeerStepInv, ReadInv, ConnectInv, ReplyInv, CopyUpInv, CopyInv, ForwardInv,
     ForwardBodyInv, BodyInv, StutterInv DEF Next, TaskStep
<1> QED
  BY <1>1, InitInv, PTL DEF Spec

---------------------------------------------------------------------------

\* Types and the limit of the upstream proxy's head, for any requests and
\* heads.
THEOREM ConnectionTypeCorrect == Spec => []TypeOK
<1>1. ASSUME ConnInv PROVE TypeOK
  <2>1. Len(agentGot) = downRead
    <3>1. downRead \in Nat /\ 0 \in Nat /\ 0 <= downRead /\ downRead - 0 = downRead
      BY <1>1 DEF ConnInv, Counts
    <3> QED
      BY <1>1, <3>1, IntervalSeq DEF ConnInv
  <2>2. {agentClosed, replied, upDone, downDone, destClosed, early} \subseteq BOOLEAN
    BY <1>1 DEF ConnInv, Flags
  <2> QED
    BY <1>1, <2>1, <2>2, Positions DEF ConnInv, Counts, HeadIn, Phases, TypeOK, ResponseHead
<1> QED
  BY <1>1, Invariant, PTL

\* An agent that could not be given a tunnel gets no 200 and no byte, and
\* nothing was sent for it (Pick, Connect and the handshake of the http-proxy
\* transport).
THEOREM NoAnswerWithoutTunnel == Spec => []NoTunnelNoAnswer
<1>1. ASSUME ConnInv PROVE NoTunnelNoAnswer
  <2>1. Interval(0, 0) = <<>>
    BY IntervalOne
  <2> QED
    BY <1>1, <2>1 DEF ConnInv, Phases, NoTunnelNoAnswer, Opened
<1> QED
  BY <1>1, Invariant, PTL

\* The agent gets the destination's bytes from the first one, also through an
\* upstream proxy whose head arrives together with them.
THEOREM NothingLostDownstream == Spec => []DownstreamComplete
<1>1. ASSUME ConnInv PROVE DownstreamComplete
  <2>1. downRead \in Nat /\ 0 \in Nat /\ 0 <= downRead /\ downRead - 0 = downRead
    BY <1>1 DEF ConnInv, Counts
  <2>2. Len(agentGot) = downRead
    BY <1>1, <2>1, IntervalSeq DEF ConnInv
  <2> QED
    BY <1>1, <2>2 DEF ConnInv, DownstreamComplete
<1> QED
  BY <1>1, Invariant, PTL

\* CONNECT: one contiguous piece of the agent's stream, which starts right
\* behind the headers unless the agent sent data before the 200.
THEOREM TunnelKeepsOrder == Spec => []TunnelInOrder
BY Invariant, PTL DEF ConnInv

\* Plain HTTP: exactly the lines, a blank line and the body that the last
\* Content-Length declares; or, of an agent that closed within the headers,
\* the lines it sent, with no blank line if it was cut off within one.
THEOREM RequestForwardedExactly == Spec => []PlainRequestExact
BY Invariant, PTL DEF ConnInv
============================================================================
