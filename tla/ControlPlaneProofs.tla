------------------------ MODULE ControlPlaneProofs ------------------------
(***************************************************************************)
(* The answers of the MCP server and of the admin API, for any number of   *)
(* tasks, connections and transports: what a report that is put together   *)
(* from several moments may still be relied on for.                        *)
(***************************************************************************)
EXTENDS ControlPlane, FiniteSetTheorems, TLAPS

---------------------------------------------------------------------------
(* The inductive invariant.                                                *)

PCs == {"idle", "locking", "scan", "done"}

\* The types the rest needs; of the lock nothing is needed.
Basics ==
    /\ transports \in Seq(Transports)
    /\ pc \in [Tasks -> PCs] /\ op \in [Tasks -> Ops] /\ arg \in [Tasks -> Transports]
    /\ idx \in [Tasks -> Nat] /\ list \in [Tasks -> Seq(Transports)]
    /\ \A k \in Tasks : idx[k] >= 1
    /\ ret \in [Tasks -> Answers]
    /\ job \in [Servers -> Jobs \cup {"none", "reply", "ended"}]
    /\ total \in [Servers -> Seq(Nat)] /\ count \in [Servers -> Nat]
    /\ DOMAIN reply = Servers

Flags ==
    /\ health \in [Transports -> BOOLEAN]
    /\ shifted \in [Servers -> BOOLEAN] /\ shut \in [Servers -> BOOLEAN]

\* A server is in a pool call only for its job, and in the one that is next.
Asking(s) ==
    /\ job[s] \notin Jobs => pc[s] = "idle" /\ total[s] = <<>>
    /\ pc[s] # "idle" => op[s] = NextOp(s)
    /\ total[s] # <<>> => job[s] = "health_check"
    /\ ~HasAll(s) => idx[s] = 1 /\ list[s] = <<>> /\ count[s] = 0

\* The length a server has is the vector's until the vector changes.
KnownLen(s) == IF total[s] # <<>> THEN total[s][1] ELSE ret[s].total

LenCurrent(s) ==
    /\ HasLen(s) /\ ~shifted[s] => KnownLen(s) = Len(transports)
    /\ HasAll(s) /\ job[s] = "health_check" /\ ~shifted[s] => Size(s) = total[s][1]

\* The positions with a healthy transport that the count is ahead of the list:
\* those passed in the first walk, those to come in the second.
Due(s) ==
    {j \in 1..Size(s) :
        /\ IF idx[s] <= Size(s) THEN j < idx[s] ELSE j >= idx[s] - Size(s)
        /\ health[ret[s].ts[j]]}

Walking(s) ==
    HasAll(s) =>
        /\ idx[s] <= 2 * Size(s) + 1
        /\ idx[s] <= Size(s) => count[s] < idx[s]
        /\ count[s] <= Size(s)
        /\ Len(list[s]) + Cardinality(Due(s)) <= count[s]
        /\ ~shut[s] => Len(list[s]) + Cardinality(Due(s)) = count[s]

\* PoolReportConsistent and HealthCheckConsistent, of one server.
Reported(s) ==
    /\ reply[s].about \in {"pool_status", "/pool"} =>
          /\ Len(reply[s].listed) <= reply[s].healthy
          /\ reply[s].healthy <= reply[s].total
          /\ ~shut[s] => Len(reply[s].listed) = reply[s].healthy
    /\ reply[s].about = "health_check" =>
          reply[s].healthy <= reply[s].total \/ shifted[s]

ServerOK(s) == Asking(s) /\ LenCurrent(s) /\ Walking(s) /\ Reported(s)

ControlInv == Basics /\ Flags /\ \A s \in Servers : ServerOK(s)

---------------------------------------------------------------------------
(* Types.                                                                  *)

LEMMA Roles ==
    /\ Servers \subseteq Tasks /\ Pickers \subseteq Tasks /\ Others \subseteq Tasks
    /\ \A s \in Servers : s \notin Pickers /\ s \notin Others
    /\ Mcp \in Servers
    /\ AnyTransport \in Transports /\ "len" \in Ops
BY ControlAssumption, PoolAssumption
DEF Servers, Others, AnyTransport, Ops, ReadOps

LEMMA Types ==
    ASSUME Basics, NEW k \in Tasks
    PROVE  /\ transports \in Seq(Transports) /\ Len(transports) \in Nat
           /\ \A i \in 1..Len(transports) : transports[i] \in Transports
           /\ arg[k] \in Transports /\ idx[k] \in Nat /\ idx[k] >= 1
           /\ list[k] \in Seq(Transports) /\ Len(list[k]) \in Nat
           /\ ret[k] \in Answers /\ ret[k].total \in Nat
           /\ ret[k].ts \in Seq(Transports) /\ Len(ret[k].ts) \in Nat
           /\ \A i \in 1..Len(ret[k].ts) : ret[k].ts[i] \in Transports
BY DEF Basics, Answers

LEMMA AppendSeq ==
    ASSUME NEW q \in Seq(Transports), NEW t \in Transports
    PROVE  /\ Append(q, t) \in Seq(Transports)
           /\ Len(Append(q, t)) = Len(q) + 1
           /\ KeepIfHealthy(q, t) \in Seq(Transports)
           /\ Len(KeepIfHealthy(q, t)) = IF health[t] THEN Len(q) + 1 ELSE Len(q)
BY DEF KeepIfHealthy

\* What retain leaves is a vector of transports.
LEMMA RetainSeq ==
    ASSUME transports \in Seq(Transports), NEW id,
           NEW f \in Ascending(Kept(transports, id))
    PROVE  [n \in DOMAIN f |-> transports[f[n]]] \in Seq(Transports)
<1> DEFINE P == Kept(transports, id)
           c == Cardinality(P)
<1>1. Len(transports) \in Nat /\ \A i \in 1..Len(transports) : transports[i] \in Transports
  OBVIOUS
<1>2. c \in Nat
  <2>1. P \subseteq 1..Len(transports)
    BY DEF Kept
  <2>2. IsFiniteSet(1..Len(transports))
    BY <1>1, FS_Interval
  <2>3. IsFiniteSet(P)
    BY <2>1, <2>2, FS_Subset
  <2> QED
    BY <2>3, FS_CardinalityType
<1>3. f \in [1..c -> P]
  BY DEF Ascending
<1>4. \A n \in 1..c : transports[f[n]] \in Transports
  BY <1>1, <1>3 DEF Kept
<1>5. [n \in DOMAIN f |-> transports[f[n]]] = [n \in 1..c |-> transports[f[n]]]
  BY <1>3
<1> HIDE DEF c
<1> QED
  BY <1>2, <1>4, <1>5

LEMMA AnswerTypes ==
    /\ NoAnswer \in Answers
    /\ \A b \in BOOLEAN, n \in Nat, ts \in Seq(Transports) :
          /\ Answer(b, n, ts) \in Answers
          /\ Answer(b, n, ts).total = n /\ Answer(b, n, ts).ts = ts
BY DEF NoAnswer, Answer, Answers

\* The end of a call.
LEMMA FinishTypes ==
    ASSUME Basics, NEW k \in Tasks, NEW a \in Answers, Finish(k, a)
    PROVE  /\ pc' \in [Tasks -> PCs] /\ ret' \in [Tasks -> Answers]
           /\ pc'[k] = "done" /\ ret'[k] = a
           /\ \A u \in Tasks : u # k => pc'[u] = pc[u] /\ ret'[u] = ret[u]
BY DEF Basics, Finish, PCs

LEMMA ReturnTypes ==
    ASSUME Basics, NEW k \in Tasks, Return(k)
    PROVE  /\ pc' \in [Tasks -> PCs] /\ op' \in [Tasks -> Ops]
           /\ arg' \in [Tasks -> Transports] /\ idx' \in [Tasks -> Nat]
           /\ list' \in [Tasks -> Seq(Transports)] /\ ret' \in [Tasks -> Answers]
           /\ \A u \in Tasks : idx'[u] >= 1
           /\ transports' = transports
           /\ pc'[k] = "idle" /\ idx'[k] = 1 /\ list'[k] = <<>>
           /\ \A u \in Tasks : u # k =>
                 /\ pc'[u] = pc[u] /\ op'[u] = op[u] /\ idx'[u] = idx[u]
                 /\ list'[u] = list[u] /\ ret'[u] = ret[u]
BY Roles, AnswerTypes DEF Basics, Return, PCs

---------------------------------------------------------------------------
(* What a step of one task means for a server.                             *)

\* Everything of server u is as it was.
Still(u) ==
    /\ pc'[u] = pc[u] /\ op'[u] = op[u] /\ idx'[u] = idx[u]
    /\ list'[u] = list[u] /\ ret'[u] = ret[u]
    /\ job'[u] = job[u] /\ total'[u] = total[u] /\ count'[u] = count[u]
    /\ reply'[u] = reply[u]

LEMMA StillDefs ==
    ASSUME NEW u \in Servers, Still(u)
    PROVE  /\ HasAll(u)' = HasAll(u) /\ HasLen(u)' = HasLen(u)
           /\ Size(u)' = Size(u) /\ KnownLen(u)' = KnownLen(u)
           /\ NextOp(u)' = NextOp(u)
BY DEF Still, HasAll, HasLen, Size, KnownLen, NextOp

\* Neither the vector nor a flag changes.
LEMMA ServerSame ==
    ASSUME NEW u \in Servers, ServerOK(u), Still(u), transports' = transports,
           health' = health, shifted'[u] = shifted[u], shut'[u] = shut[u]
    PROVE  ServerOK(u)'
<1>1. Asking(u)'
  BY StillDefs DEF ServerOK, Asking, Still
<1>2. LenCurrent(u)'
  BY StillDefs DEF ServerOK, LenCurrent, Still
<1>3. Due(u)' = Due(u)
  BY DEF Due, Still, Size
<1>4. Walking(u)'
  BY <1>3, StillDefs DEF ServerOK, Walking, Still
<1>5. Reported(u)'
  BY DEF ServerOK, Reported, Still
<1> QED
  BY <1>1, <1>2, <1>4, <1>5 DEF ServerOK

\* The vector changes.
LEMMA ServerShift ==
    ASSUME NEW u \in Servers, Flags, ServerOK(u), Still(u), health' = health, Shift
    PROVE  ServerOK(u)'
<1>0. shifted'[u] = (shifted[u] \/ HasLen(u)) /\ shut'[u] = shut[u]
  BY DEF Shift
<1>1. Asking(u)'
  BY StillDefs DEF ServerOK, Asking, Still
<1>2. LenCurrent(u)'
  BY <1>0, StillDefs DEF ServerOK, LenCurrent, Still
<1>3. Due(u)' = Due(u)
  BY DEF Due, Still, Size
<1>4. Walking(u)'
  BY <1>0, <1>3, StillDefs DEF ServerOK, Walking, Still
<1>5. Reported(u)'
  BY <1>0 DEF ServerOK, Reported, Still
<1> QED
  BY <1>1, <1>2, <1>4, <1>5 DEF ServerOK

LEMMA DueFinite ==
    ASSUME NEW u \in Servers, Basics
    PROVE  IsFiniteSet(Due(u)) /\ Cardinality(Due(u)) \in Nat
<1>1. Size(u) \in Nat
  BY Roles, Types DEF Size
<1>2. IsFiniteSet(1..Size(u))
  BY <1>1, FS_Interval
<1>3. Due(u) \subseteq 1..Size(u)
  BY DEF Due
<1>4. IsFiniteSet(Due(u))
  BY <1>2, <1>3, FS_Subset
<1> QED
  BY <1>4, FS_CardinalityType

\* A transport is closed: fewer healthy ones may be due than were counted.
LEMMA ServerClose ==
    ASSUME NEW u \in Servers, NEW t \in Transports, Basics, Flags, ServerOK(u),
           Closes(t)
    PROVE  ServerOK(u)'
<1>0. /\ Still(u) /\ transports' = transports /\ shifted'[u] = shifted[u]
      /\ health' = [health EXCEPT ![t] = FALSE]
      /\ shut'[u] = (shut[u] \/ HasAll(u))
  BY DEF Closes, Close, Still, serverVars
<1>1. Asking(u)'
  BY <1>0, StillDefs DEF ServerOK, Asking, Still
<1>2. LenCurrent(u)'
  BY <1>0, StillDefs DEF ServerOK, LenCurrent, Still
<1>3. Due(u)' \subseteq Due(u)
  <2>1. \A x \in Transports : health'[x] => health[x]
    BY <1>0 DEF Flags
  <2>2. \A j \in 1..Size(u) : ret[u].ts[j] \in Transports
    BY Roles, Types DEF Size
  <2>3. ret'[u] = ret[u] /\ idx'[u] = idx[u] /\ Size(u)' = Size(u)
    BY <1>0 DEF Still, Size
  <2> QED
    BY <2>1, <2>2, <2>3 DEF Due
<1>4. Walking(u)'
  <2> SUFFICES ASSUME HasAll(u)' PROVE
        /\ idx[u]' <= 2 * Size(u)' + 1
        /\ idx[u]' <= Size(u)' => count[u]' < idx[u]'
        /\ count[u]' <= Size(u)'
        /\ Len(list[u]') + Cardinality(Due(u)') <= count[u]'
        /\ shut'[u]
    BY DEF Walking
  <2>1. HasAll(u)
    BY <1>0, StillDefs
  <2>2. IsFiniteSet(Due(u)) /\ Cardinality(Due(u)) \in Nat
    BY DueFinite
  <2>3. IsFiniteSet(Due(u)') /\ Cardinality(Due(u)') <= Cardinality(Due(u))
    BY <1>3, <2>2, FS_Subset
  <2>4. Cardinality(Due(u)') \in Nat
    BY <2>3, FS_CardinalityType
  <2>5. Len(list[u]) \in Nat /\ count[u] \in Nat
    BY Roles, Types DEF Basics
  <2>6. Len(list[u]) + Cardinality(Due(u)) <= count[u]
    BY <2>1 DEF ServerOK, Walking
  <2>7. Len(list[u]) + Cardinality(Due(u)') <= count[u]
    BY <2>2, <2>3, <2>4, <2>5, <2>6
  <2>8. shut'[u]
    BY <1>0, <2>1
  <2> QED
    BY <1>0, <2>1, <2>7, <2>8, StillDefs DEF ServerOK, Walking, Still
<1>5. Reported(u)'
  BY <1>0 DEF ServerOK, Reported, Still
<1> QED
  BY <1>1, <1>2, <1>4, <1>5 DEF ServerOK

\* A server between two calls that has no length.
LEMMA ServerIdle ==
    ASSUME NEW s \in Servers, pc'[s] = "idle", total'[s] = <<>>, idx'[s] = 1,
           list'[s] = <<>>, count'[s] = 0, Reported(s)'
    PROVE  ServerOK(s)'
<1>1. ~HasAll(s)' /\ ~HasLen(s)'
  BY DEF HasAll, HasLen
<1>2. Asking(s)'
  BY DEF Asking
<1>3. LenCurrent(s)' /\ Walking(s)'
  BY <1>1 DEF LenCurrent, Walking
<1> QED
  BY <1>2, <1>3 DEF ServerOK

LEMMA ReportFields ==
    /\ NoReply.about = "none"
    /\ \A c : Report("none", c, 0, 0, <<>>).about = "none"
    /\ \A a, c, n, h, l :
          LET r == Report(a, c, n, h, l)
          IN  r.about = a /\ r.total = n /\ r.healthy = h /\ r.listed = l
BY DEF NoReply, Report

---------------------------------------------------------------------------
(* The invariant holds at the start and is kept by every step.             *)

LEMMA InitInv == Init => ControlInv
<1> SUFFICES ASSUME Init PROVE ControlInv
  OBVIOUS
<1>1. Basics
  <2>1. transports \in Seq(Transports)
    BY PoolAssumption DEF Init, PoolInit
  <2>2. /\ pc \in [Tasks -> PCs] /\ op \in [Tasks -> Ops] /\ arg \in [Tasks -> Transports]
        /\ idx \in [Tasks -> Nat] /\ \A k \in Tasks : idx[k] >= 1
        /\ ret \in [Tasks -> Answers]
    BY Roles, AnswerTypes DEF Init, PoolInit, PCs
  <2>3. list \in [Tasks -> Seq(Transports)]
    BY DEF Init, PoolInit
  <2>4. /\ job \in [Servers -> Jobs \cup {"none", "reply", "ended"}]
        /\ count \in [Servers -> Nat] /\ DOMAIN reply = Servers
    BY DEF Init
  <2>5. total \in [Servers -> Seq(Nat)]
    BY DEF Init
  <2> QED
    BY <2>1, <2>2, <2>3, <2>4, <2>5 DEF Basics
<1>2. Flags
  BY DEF Init, PoolInit, Flags
<1>3. ASSUME NEW s \in Servers PROVE ServerOK(s)
  <2>1. /\ pc[s] = "idle" /\ total[s] = <<>> /\ idx[s] = 1 /\ list[s] = <<>>
        /\ count[s] = 0 /\ reply[s] = NoReply
    BY Roles DEF Init, PoolInit
  <2>2. ~HasAll(s) /\ ~HasLen(s)
    BY <2>1 DEF HasAll, HasLen
  <2>3. Asking(s) /\ LenCurrent(s) /\ Walking(s)
    BY <2>1, <2>2 DEF Asking, LenCurrent, Walking
  <2>4. Reported(s)
    BY <2>1, ReportFields DEF Reported
  <2> QED
    BY <2>3, <2>4 DEF ServerOK
<1> QED
  BY <1>1, <1>2, <1>3 DEF ControlInv

LEMMA StutterInv == ControlInv /\ UNCHANGED vars => ControlInv'
<1> SUFFICES ASSUME ControlInv, UNCHANGED vars PROVE ControlInv'
  OBVIOUS
<1> USE DEF vars, poolVars, serverVars, viewVars
<1>1. Basics' /\ Flags'
  BY DEF ControlInv, Basics, Flags
<1>2. ASSUME NEW u \in Servers PROVE ServerOK(u)'
  <2>1. Still(u)
    BY DEF Still
  <2> QED
    BY <2>1, ServerSame DEF ControlInv
<1> QED
  BY <1>1, <1>2 DEF ControlInv

\* A server without a job: a connection is accepted, a request read, an answer
\* written, or the connection ends.
LoopStep(s) ==
    Accept(s) \/ (\E r \in McpRequests : s = Mcp /\ Dispatched(s, McpJob(r), McpCode(r)))
    \/ AdminReceive(s) \/ Sent(s) \/ Ends(s)

LEMMA JobTypes ==
    /\ \A r \in McpRequests : McpJob(r) \in Jobs \cup {"reply"}
    /\ \A r \in AdminRequests : AdminJob(r) \in Jobs \cup {"reply"}
BY DEF McpJob, AdminJob, Jobs, Tools

LEMMA LoopInv ==
    ASSUME ControlInv, NEW s \in Servers, LoopStep(s)
    PROVE  ControlInv'
<1>0. Basics /\ Flags /\ \A u \in Servers : ServerOK(u)
  BY DEF ControlInv
<1>1. PICK j \in Jobs \cup {"none", "reply", "ended"} : job' = [job EXCEPT ![s] = j]
  BY JobTypes DEF LoopStep, Accept, AdminReceive, Dispatched, Sent, Ends, Done
<1>2. /\ job[s] \notin Jobs
      /\ UNCHANGED <<poolVars, total, count>>
  BY DEF LoopStep, Accept, AdminReceive, Dispatched, Sent, Ends, Done, Jobs
<1>3. PICK r : reply' = reply \/ (reply' = [reply EXCEPT ![s] = r] /\ r.about = "none")
  <2>1. CASE Accept(s)
    BY <2>1 DEF Accept
  <2>2. CASE Sent(s) \/ Ends(s)
    BY <2>2, ReportFields DEF Sent, Ends, Done
  <2>3. ASSUME NEW j1, NEW c, Dispatched(s, j1, c)
        PROVE  reply' = reply \/ reply' = [reply EXCEPT ![s] = Report("none", c, 0, 0, <<>>)]
    BY <2>3 DEF Dispatched
  <2> QED
    BY <2>1, <2>2, <2>3, ReportFields DEF LoopStep, AdminReceive
<1>4. /\ UNCHANGED <<shifted, shut>>
         \/ /\ shifted' = [shifted EXCEPT ![s] = FALSE] /\ shut' = [shut EXCEPT ![s] = FALSE]
            /\ reply' = [reply EXCEPT ![s] = NoReply]
  BY DEF LoopStep, Accept, AdminReceive, Dispatched, Sent, Ends, Done, viewVars
<1>5. Basics'
  <2>1. DOMAIN reply' = Servers
    BY <1>0, <1>3 DEF Basics
  <2>2. job' \in [Servers -> Jobs \cup {"none", "reply", "ended"}]
    BY <1>0, <1>1 DEF Basics
  <2> QED
    BY <1>0, <1>2, <2>1, <2>2 DEF Basics, poolVars
<1>6. Flags'
  BY <1>0, <1>2, <1>4 DEF Flags, poolVars
<1>7. ASSUME NEW u \in Servers, u # s PROVE ServerOK(u)'
  <2>1. Still(u) /\ shifted'[u] = shifted[u] /\ shut'[u] = shut[u]
    BY <1>0, <1>1, <1>2, <1>3, <1>4, <1>7 DEF Still, poolVars, Basics, Flags
  <2> QED
    BY <1>0, <1>2, <2>1, ServerSame DEF poolVars
<1>8. ServerOK(s)'
  <2>1. pc[s] = "idle" /\ total[s] = <<>>
    BY <1>0, <1>2 DEF ServerOK, Asking
  <2>2. idx[s] = 1 /\ list[s] = <<>> /\ count[s] = 0
    BY <1>0, <2>1 DEF ServerOK, Asking, HasAll
  <2>3. Reported(s)'
    <3>1. Reported(s)
      BY <1>0 DEF ServerOK
    <3>2. CASE reply' = reply /\ UNCHANGED <<shifted, shut>>
      BY <3>1, <3>2 DEF Reported
    <3>3. CASE reply'[s].about = "none"
      BY <3>3 DEF Reported
    <3>4. reply' = [reply EXCEPT ![s] = NoReply] => reply'[s].about = "none"
      BY <1>0, ReportFields DEF Basics
    <3>5. \A r1 : reply' = [reply EXCEPT ![s] = r1] /\ r1.about = "none"
                      => reply'[s].about = "none"
      BY <1>0 DEF Basics
    <3> QED
      BY <1>3, <1>4, <3>2, <3>3, <3>4, <3>5
  <2> QED
    BY <1>2, <2>1, <2>2, <2>3, ServerIdle DEF poolVars
<1> QED
  BY <1>5, <1>6, <1>7, <1>8 DEF ControlInv

\* A server calls the pool.
LEMMA AskInv ==
    ASSUME ControlInv, NEW s \in Servers, Ask(s)
    PROVE  ControlInv'
<1>0. Basics /\ Flags /\ \A u \in Servers : ServerOK(u)
  BY DEF ControlInv
<1>1. /\ job[s] \in Jobs /\ UNCHANGED <<serverVars, viewVars>>
  BY DEF Ask
<1>2. PICK t \in Transports : Call(s, NextOp(s), t)
  BY DEF Ask
<1>3. NextOp(s) \in Ops /\ s \in Tasks
  BY Roles DEF NextOp, Ops, WriteOps, ReadOps
<1>4. /\ pc[s] = "idle" /\ pc' = [pc EXCEPT ![s] = "locking"]
      /\ op' = [op EXCEPT ![s] = NextOp(s)] /\ arg' = [arg EXCEPT ![s] = t]
      /\ UNCHANGED <<transports, health, idx, list, ret>>
  BY <1>2 DEF Call
<1>5. Basics'
  <2>1. /\ pc' \in [Tasks -> PCs] /\ op' \in [Tasks -> Ops] /\ arg' \in [Tasks -> Transports]
    BY <1>0, <1>3, <1>4 DEF Basics, PCs
  <2> QED
    BY <1>0, <1>1, <1>4, <2>1 DEF Basics, serverVars
<1>6. Flags'
  BY <1>0, <1>1, <1>4 DEF Flags, viewVars
<1>7. ASSUME NEW u \in Servers, u # s PROVE ServerOK(u)'
  <2>1. Still(u)
    BY <1>0, <1>1, <1>4, <1>7, Roles DEF Still, serverVars, Basics
  <2> QED
    BY <1>0, <1>1, <1>4, <2>1, ServerSame DEF viewVars
<1>8. ServerOK(s)'
  <2>1. pc'[s] = "locking" /\ op'[s] = NextOp(s) /\ NextOp(s)' = NextOp(s)
    BY <1>0, <1>1, <1>3, <1>4 DEF Basics, NextOp, serverVars
  <2>2. ~HasAll(s)' /\ ~HasAll(s)
    BY <1>4, <2>1 DEF HasAll
  <2>3. HasLen(s)' => HasLen(s) /\ total[s] # <<>>
    BY <1>1, <2>1 DEF HasLen, serverVars
  <2>4. Asking(s)'
    BY <1>0, <1>1, <1>4, <2>1, <2>2 DEF ServerOK, Asking, serverVars
  <2>5. LenCurrent(s)'
    BY <1>0, <1>1, <1>4, <2>2, <2>3 DEF ServerOK, LenCurrent, KnownLen, serverVars, viewVars
  <2>6. Walking(s)'
    BY <2>2 DEF Walking
  <2>7. Reported(s)'
    BY <1>0, <1>1 DEF ServerOK, Reported, serverVars, viewVars
  <2> QED
    BY <2>4, <2>5, <2>6, <2>7 DEF ServerOK
<1> QED
  BY <1>5, <1>6, <1>7, <1>8 DEF ControlInv

\* The vector is changed, by remove of a server or by add of another task.
LEMMA VectorInv ==
    ASSUME ControlInv, NEW k \in Tasks, Add(k) \/ Remove(k), Shift,
           UNCHANGED serverVars
    PROVE  ControlInv'
<1>0. Basics /\ Flags /\ \A u \in Servers : ServerOK(u)
  BY DEF ControlInv
<1>1. PICK a \in Answers : Finish(k, a)
  <2>1. CASE Add(k)
    BY <2>1, AnswerTypes DEF Add
  <2>2. CASE Remove(k)
    <3>1. Answer(Len(transports') < Len(transports), 0, <<>>) \in Answers
      BY DEF Answer, Answers
    <3> QED
      BY <2>2, <3>1 DEF Remove
  <2> QED
    BY <2>1, <2>2
<1>2. /\ UNCHANGED <<health, op, arg, idx, list>>
      /\ op[k] \in {"add", "remove"} /\ pc[k] = "locking"
  BY DEF Add, Remove, Writing
<1>3. transports' \in Seq(Transports)
  <2>1. CASE Add(k)
    BY <1>0, <2>1, Types, AppendSeq DEF Add
  <2>2. CASE Remove(k)
    BY <1>0, <2>2, RetainSeq DEF Remove, Basics
  <2> QED
    BY <2>1, <2>2
<1>4. /\ pc' \in [Tasks -> PCs] /\ ret' \in [Tasks -> Answers] /\ pc'[k] = "done"
      /\ \A u \in Tasks : u # k => pc'[u] = pc[u] /\ ret'[u] = ret[u]
  BY <1>0, <1>1, FinishTypes
<1>5. Basics'
  BY <1>0, <1>2, <1>3, <1>4 DEF Basics, serverVars
<1>6. Flags'
  BY <1>0, <1>2 DEF Flags, Shift
<1>7. ASSUME NEW u \in Servers, u # k PROVE ServerOK(u)'
  <2>1. Still(u)
    BY <1>2, <1>4, <1>7, Roles DEF Still, serverVars
  <2> QED
    BY <1>0, <1>2, <2>1, ServerShift
<1>8. ASSUME k \in Servers PROVE ServerOK(k)'
  <2>1. op[k] = NextOp(k)
    BY <1>0, <1>2, <1>8 DEF ServerOK, Asking
  <2>2. job[k] = "pool_remove"
    BY <1>2, <2>1 DEF NextOp
  <2>3. total[k] = <<>>
    BY <1>0, <1>8, <2>2 DEF ServerOK, Asking
  <2>4. ~HasAll(k) /\ ~HasAll(k)' /\ ~HasLen(k)'
    BY <1>2, <1>4, <2>3 DEF HasAll, HasLen, serverVars
  <2>5. Asking(k)'
    <3>1. op'[k] = NextOp(k)'
      BY <1>2, <2>1 DEF NextOp, serverVars
    <3> QED
      BY <1>0, <1>2, <1>8, <2>2, <2>3, <2>4, <3>1 DEF ServerOK, Asking, serverVars, Jobs
  <2>6. LenCurrent(k)' /\ Walking(k)'
    BY <2>4 DEF LenCurrent, Walking
  <2>7. Reported(k)'
    <3>1. Reported(k) /\ shut'[k] = shut[k] /\ shifted'[k] = (shifted[k] \/ HasLen(k))
          /\ reply'[k] = reply[k]
      BY <1>0, <1>8 DEF ServerOK, Shift, serverVars
    <3> QED
      BY <3>1 DEF Reported
  <2> QED
    BY <2>5, <2>6, <2>7 DEF ServerOK
<1> QED
  BY <1>5, <1>6, <1>7, <1>8 DEF ControlInv

\* len() or all() returns.
LEMMA ReadInv ==
    ASSUME ControlInv, NEW s \in Servers, AskLen(s) \/ AskAll(s)
    PROVE  ControlInv'
<1>0. Basics /\ Flags /\ \A u \in Servers : ServerOK(u)
  BY DEF ControlInv
<1>1. s \in Tasks /\ transports \in Seq(Transports) /\ Len(transports) \in Nat
  BY <1>0, Roles, Types
<1>2. /\ UNCHANGED <<transports, health, op, arg, idx, list, serverVars, viewVars>>
      /\ pc[s] = "locking"
  BY DEF AskLen, AskAll, Length, All, Reading
<1>3. PICK a \in Answers : /\ Finish(s, a)
                           /\ op[s] = "len" => a.total = Len(transports)
                           /\ op[s] = "all" => a.ts = transports
                           /\ op[s] \in {"len", "all"}
  <2>1. CASE AskLen(s)
    <3>1. /\ Finish(s, Answer(FALSE, Len(transports), <<>>)) /\ op[s] = "len"
      BY <2>1 DEF AskLen, Length, Reading
    <3>2. <<>> \in Seq(Transports)
      OBVIOUS
    <3> QED
      BY <1>1, <3>1, <3>2, AnswerTypes
  <2>2. CASE AskAll(s)
    <3>1. /\ Finish(s, Answer(FALSE, 0, transports)) /\ op[s] = "all"
      BY <2>2 DEF AskAll, All, Reading
    <3> QED
      BY <1>1, <3>1, AnswerTypes
  <2> QED
    BY <2>1, <2>2
<1>4. /\ pc' \in [Tasks -> PCs] /\ ret' \in [Tasks -> Answers]
      /\ pc'[s] = "done" /\ ret'[s] = a
      /\ \A u \in Tasks : u # s => pc'[u] = pc[u] /\ ret'[u] = ret[u]
  BY <1>0, <1>1, <1>3, FinishTypes
<1>5. Basics' /\ Flags'
  <2>1. Basics'
    BY <1>0, <1>2, <1>4 DEF Basics, serverVars
  <2>2. Flags'
    BY <1>0, <1>2 DEF Flags, viewVars
  <2> QED
    BY <2>1, <2>2
<1>6. ASSUME NEW u \in Servers, u # s PROVE ServerOK(u)'
  <2>1. Still(u)
    BY <1>2, <1>4, <1>6, Roles DEF Still, serverVars
  <2> QED
    BY <1>0, <1>2, <2>1, ServerSame DEF viewVars
<1>7. ServerOK(s)'
  <2>1. /\ op[s] = NextOp(s) /\ op'[s] = NextOp(s)' /\ job'[s] = job[s]
        /\ total'[s] = total[s] /\ op'[s] = op[s]
        /\ shifted'[s] = shifted[s] /\ shut'[s] = shut[s]
    BY <1>0, <1>2 DEF ServerOK, Asking, NextOp, serverVars, viewVars
  <2>2. job[s] \in Jobs /\ (total[s] # <<>> => job[s] = "health_check")
    BY <1>0, <1>2 DEF ServerOK, Asking
  <2>3. ~HasAll(s)
    BY <1>2 DEF HasAll
  <2>4. /\ idx[s] = 1 /\ list[s] = <<>> /\ count[s] = 0
        /\ idx'[s] = 1 /\ list'[s] = <<>> /\ count'[s] = 0
    BY <1>0, <1>2, <2>3 DEF ServerOK, Asking, serverVars
  <2>5. Asking(s)'
    BY <2>1, <2>2, <2>4 DEF Asking
  <2>6. Reported(s)'
    BY <1>0, <1>2 DEF ServerOK, Reported, serverVars, viewVars
  <2>7. CASE op[s] = "len"
    <3>1. total[s] = <<>>
      BY <2>1, <2>7 DEF NextOp
    <3>2. KnownLen(s)' = Len(transports)
      BY <1>3, <1>4, <2>1, <2>7, <3>1 DEF KnownLen
    <3>3. ~HasAll(s)'
      BY <2>1, <2>7 DEF HasAll
    <3>4. LenCurrent(s)' /\ Walking(s)'
      BY <1>2, <3>2, <3>3 DEF LenCurrent, Walking
    <3> QED
      BY <2>5, <2>6, <3>4 DEF ServerOK
  <2>8. CASE op[s] = "all"
    <3>1. Size(s)' = Len(transports)
      BY <1>3, <1>4, <2>8 DEF Size
    <3>2. LenCurrent(s)'
      <4>1. HasLen(s)' => total[s] # <<>>
        BY <2>1, <2>8 DEF HasLen
      <4>2. job[s] = "health_check" => total[s] # <<>>
        BY <2>1, <2>8 DEF NextOp
      <4>3. total[s] # <<>> => HasLen(s) /\ KnownLen(s) = total[s][1] /\ KnownLen(s)' = total[s][1]
        BY <2>1 DEF HasLen, KnownLen
      <4>4. total[s] # <<>> /\ ~shifted[s] => total[s][1] = Len(transports)
        BY <1>0, <4>3 DEF ServerOK, LenCurrent
      <4> QED
        BY <1>2, <2>1, <3>1, <4>1, <4>2, <4>3, <4>4 DEF LenCurrent
    <3>3. Due(s)' = {}
      BY <1>1, <2>4, <3>1 DEF Due
    <3>4. Len(list'[s]) + Cardinality(Due(s)') = 0
      BY <2>4, <3>3, FS_EmptySet
    <3>5. Walking(s)'
      BY <1>1, <2>4, <3>1, <3>4 DEF Walking
    <3> QED
      BY <2>5, <2>6, <3>2, <3>5 DEF ServerOK
  <2> QED
    BY <1>3, <2>7, <2>8
<1> QED
  BY <1>5, <1>6, <1>7 DEF ControlInv

\* health_check keeps the length and goes on to all().
LEMMA TakeLenInv ==
    ASSUME ControlInv, NEW s \in Servers, TakeLen(s)
    PROVE  ControlInv'
<1>0. Basics /\ Flags /\ \A u \in Servers : ServerOK(u)
  BY DEF ControlInv
<1>1. /\ pc[s] = "done" /\ op[s] = "len" /\ s \in Tasks
      /\ total' = [total EXCEPT ![s] = <<ret[s].total>>]
      /\ Return(s)
      /\ UNCHANGED <<job, count, reply, shifted, shut, health, transports>>
  BY Roles DEF TakeLen, Return, viewVars
<1>2. /\ pc' \in [Tasks -> PCs] /\ op' \in [Tasks -> Ops]
      /\ arg' \in [Tasks -> Transports] /\ idx' \in [Tasks -> Nat]
      /\ list' \in [Tasks -> Seq(Transports)] /\ ret' \in [Tasks -> Answers]
      /\ \A u \in Tasks : idx'[u] >= 1
      /\ pc'[s] = "idle" /\ idx'[s] = 1 /\ list'[s] = <<>>
      /\ \A u \in Tasks : u # s =>
            /\ pc'[u] = pc[u] /\ op'[u] = op[u] /\ idx'[u] = idx[u]
            /\ list'[u] = list[u] /\ ret'[u] = ret[u]
  BY <1>0, <1>1, ReturnTypes
<1>3. ret[s].total \in Nat /\ <<ret[s].total>> \in Seq(Nat)
  BY <1>0, <1>1, Types
<1>4. Basics'
  <2>1. total' \in [Servers -> Seq(Nat)]
    BY <1>0, <1>1, <1>3 DEF Basics
  <2> QED
    BY <1>0, <1>1, <1>2, <2>1 DEF Basics
<1>5. Flags'
  BY <1>0, <1>1 DEF Flags
<1>6. ASSUME NEW u \in Servers, u # s PROVE ServerOK(u)'
  <2>1. Still(u)
    BY <1>0, <1>1, <1>2, <1>6, Roles DEF Still, Basics
  <2> QED
    BY <1>0, <1>1, <2>1, ServerSame
<1>7. ServerOK(s)'
  <2>1. job[s] = "health_check" /\ total[s] = <<>>
    <3>1. NextOp(s) = "len"
      BY <1>0, <1>1 DEF ServerOK, Asking
    <3> QED
      BY <3>1 DEF NextOp
  <2>2. total'[s] = <<ret[s].total>> /\ total'[s] # <<>> /\ total'[s][1] = ret[s].total
    BY <1>0, <1>1, <1>3 DEF Basics
  <2>3. ~HasAll(s)' /\ ~HasAll(s)
    BY <1>1, <1>2 DEF HasAll
  <2>4. count'[s] = 0
    BY <1>0, <1>1, <2>3 DEF ServerOK, Asking
  <2>5. Asking(s)'
    BY <1>1, <1>2, <2>1, <2>4 DEF Asking, Jobs
  <2>6. KnownLen(s)' = ret[s].total /\ KnownLen(s) = ret[s].total
    BY <2>1, <2>2 DEF KnownLen
  <2>7. HasLen(s)
    BY <1>1 DEF HasLen
  <2>8. ~shifted[s] => ret[s].total = Len(transports)
    BY <1>0, <2>6, <2>7 DEF ServerOK, LenCurrent
  <2>9. LenCurrent(s)' /\ Walking(s)'
    BY <1>1, <2>3, <2>6, <2>8 DEF LenCurrent, Walking
  <2>10. Reported(s)'
    BY <1>0, <1>1 DEF ServerOK, Reported
  <2> QED
    BY <2>5, <2>9, <2>10 DEF ServerOK
<1> QED
  BY <1>4, <1>5, <1>6, <1>7 DEF ControlInv

\* A request is done, with a report that can be relied on.
LEMMA CompletesInv ==
    ASSUME ControlInv, NEW s \in Servers, NEW r, Completes(s, r),
           r.about \in {"pool_status", "/pool"} =>
              /\ Len(r.listed) <= r.healthy /\ r.healthy <= r.total
              /\ ~shut[s] => Len(r.listed) = r.healthy,
           r.about = "health_check" => r.healthy <= r.total \/ shifted[s]
    PROVE  ControlInv'
<1>0. Basics /\ Flags /\ \A u \in Servers : ServerOK(u)
  BY DEF ControlInv
<1>1. /\ s \in Tasks /\ Return(s)
      /\ job' = [job EXCEPT ![s] = "reply"]
      /\ reply' = [reply EXCEPT ![s] = r]
      /\ total' = [total EXCEPT ![s] = <<>>]
      /\ count' = [count EXCEPT ![s] = 0]
      /\ UNCHANGED <<shifted, shut, health, transports>>
  BY Roles DEF Completes, CountAfter, Return, viewVars
<1>2. /\ pc' \in [Tasks -> PCs] /\ op' \in [Tasks -> Ops]
      /\ arg' \in [Tasks -> Transports] /\ idx' \in [Tasks -> Nat]
      /\ list' \in [Tasks -> Seq(Transports)] /\ ret' \in [Tasks -> Answers]
      /\ \A u \in Tasks : idx'[u] >= 1
      /\ pc'[s] = "idle" /\ idx'[s] = 1 /\ list'[s] = <<>>
      /\ \A u \in Tasks : u # s =>
            /\ pc'[u] = pc[u] /\ op'[u] = op[u] /\ idx'[u] = idx[u]
            /\ list'[u] = list[u] /\ ret'[u] = ret[u]
  BY <1>0, <1>1, ReturnTypes
<1>3. Basics'
  <2>1. total' \in [Servers -> Seq(Nat)]
    <3>1. <<>> \in Seq(Nat)
      OBVIOUS
    <3> QED
      BY <1>0, <1>1, <3>1 DEF Basics
  <2>2. count' \in [Servers -> Nat] /\ DOMAIN reply' = Servers
        /\ job' \in [Servers -> Jobs \cup {"none", "reply", "ended"}]
    BY <1>0, <1>1 DEF Basics
  <2> QED
    BY <1>0, <1>1, <1>2, <2>1, <2>2 DEF Basics
<1>4. Flags'
  BY <1>0, <1>1 DEF Flags
<1>5. ASSUME NEW u \in Servers, u # s PROVE ServerOK(u)'
  <2>1. Still(u)
    BY <1>0, <1>1, <1>2, <1>5, Roles DEF Still, Basics
  <2> QED
    BY <1>0, <1>1, <2>1, ServerSame
<1>6. ServerOK(s)'
  <2>1. reply'[s] = r /\ total'[s] = <<>> /\ count'[s] = 0
    BY <1>0, <1>1 DEF Basics
  <2>2. Reported(s)'
    BY <1>1, <2>1 DEF Reported
  <2> QED
    BY <1>2, <2>1, <2>2, ServerIdle
<1> QED
  BY <1>3, <1>4, <1>5, <1>6 DEF ControlInv

LEMMA AnswersInv ==
    ASSUME ControlInv, NEW s \in Servers,
           TakeRemoved(s) \/ PoolReport(s) \/ HealthCheck(s)
    PROVE  ControlInv'
<1>0. Basics /\ Flags /\ ServerOK(s) /\ s \in Tasks
  BY Roles DEF ControlInv
<1>1. CASE TakeRemoved(s)
  <2>1. PICK c : Completes(s, Report("pool_remove", c, 0, 0, <<>>))
    BY <1>1 DEF TakeRemoved
  <2>2. PICK r : r = Report("pool_remove", c, 0, 0, <<>>)
    OBVIOUS
  <2>3. r.about = "pool_remove"
    BY <2>2, ReportFields
  <2> QED
    BY <2>1, <2>2, <2>3, CompletesInv
<1>2. CASE PoolReport(s)
  <2> DEFINE r == Report(job[s], "result", Size(s), count[s], list[s])
  <2>1. /\ Completes(s, r) /\ HasAll(s) /\ idx[s] > 2 * Size(s)
        /\ job[s] \in {"pool_status", "/pool"}
    BY <1>2 DEF PoolReport
  <2>2. r.about = job[s] /\ r.total = Size(s) /\ r.healthy = count[s] /\ r.listed = list[s]
    BY ReportFields
  <2>3. Size(s) \in Nat /\ idx[s] \in Nat /\ idx[s] >= 1 /\ Len(list[s]) \in Nat
        /\ count[s] \in Nat
    BY <1>0, Types DEF Size, Basics
  <2>4. Due(s) = {}
    <3>1. ASSUME NEW j \in 1..Size(s)
          PROVE  ~(IF idx[s] <= Size(s) THEN j < idx[s] ELSE j >= idx[s] - Size(s))
      BY <2>1, <2>3
    <3> QED
      BY <3>1 DEF Due
  <2>5. Cardinality(Due(s)) = 0
    BY <2>4, FS_EmptySet
  <2>6. /\ Len(list[s]) + 0 <= count[s] /\ count[s] <= Size(s)
        /\ ~shut[s] => Len(list[s]) + 0 = count[s]
    BY <1>0, <2>1, <2>5 DEF ServerOK, Walking
  <2>7. /\ Len(list[s]) <= count[s] /\ (~shut[s] => Len(list[s]) = count[s])
    BY <2>3, <2>6
  <2> HIDE DEF r
  <2> QED
    BY <2>1, <2>2, <2>6, <2>7, CompletesInv
<1>3. CASE HealthCheck(s)
  <2> DEFINE r == Report("health_check", "result", total[s][1], count[s], <<>>)
  <2>1. /\ Completes(s, r) /\ HasAll(s) /\ job[s] = "health_check"
    BY <1>3 DEF HealthCheck
  <2>2. r.about = "health_check" /\ r.total = total[s][1] /\ r.healthy = count[s]
    BY ReportFields
  <2>3. count[s] <= Size(s) /\ (~shifted[s] => Size(s) = total[s][1])
    BY <1>0, <2>1 DEF ServerOK, Walking, LenCurrent
  <2> HIDE DEF r
  <2> QED
    BY <2>1, <2>2, <2>3, CompletesInv
<1> QED
  BY <1>1, <1>2, <1>3


\* The step of a server that holds the answer of all() and reads one flag.
LEMMA WalkInv ==
    ASSUME ControlInv, NEW s \in Servers, HasAll(s),
           NEW n \in Nat, count' = [count EXCEPT ![s] = n],
           idx' = [idx EXCEPT ![s] = idx[s] + 1],
           NEW l \in Seq(Transports), list' = [list EXCEPT ![s] = l],
           UNCHANGED <<transports, health, pc, op, arg, ret, job, total, reply,
                       shifted, shut>>,
           Walking(s)'
    PROVE  ControlInv'
<1>0. Basics /\ Flags /\ (\A u \in Servers : ServerOK(u)) /\ s \in Tasks
  BY Roles DEF ControlInv
<1>1. Basics'
  <2>1. idx' \in [Tasks -> Nat] /\ \A k \in Tasks : idx'[k] >= 1
    BY <1>0 DEF Basics
  <2>2. list' \in [Tasks -> Seq(Transports)] /\ count' \in [Servers -> Nat]
    BY <1>0 DEF Basics
  <2> QED
    BY <1>0, <2>1, <2>2 DEF Basics
<1>2. Flags'
  BY <1>0 DEF Flags
<1>3. ASSUME NEW u \in Servers, u # s PROVE ServerOK(u)'
  <2>1. Still(u)
    BY <1>0, <1>3, Roles DEF Still, Basics
  <2> QED
    BY <1>0, <2>1, ServerSame
<1>4. ServerOK(s)'
  <2>1. /\ HasAll(s)' /\ HasLen(s)' = HasLen(s) /\ Size(s)' = Size(s)
        /\ KnownLen(s)' = KnownLen(s) /\ NextOp(s)' = NextOp(s)
    BY DEF HasAll, HasLen, Size, KnownLen, NextOp
  <2>2. Asking(s)'
    BY <1>0, <2>1 DEF ServerOK, Asking
  <2>3. LenCurrent(s)'
    BY <1>0, <2>1 DEF ServerOK, LenCurrent
  <2>4. Reported(s)'
    BY <1>0 DEF ServerOK, Reported
  <2> QED
    BY <2>2, <2>3, <2>4 DEF ServerOK
<1> QED
  BY <1>1, <1>2, <1>3, <1>4 DEF ControlInv

\* What the first walk adds to the due positions.
LEMMA DueGrows ==
    ASSUME Basics, NEW s \in Servers, idx[s] \in 1..Size(s), idx'[s] = idx[s] + 1,
           ret' = ret, health' = health
    PROVE  Due(s)' = IF health[ret[s].ts[idx[s]]] THEN Due(s) \cup {idx[s]} ELSE Due(s)
<1>1. Size(s) \in Nat /\ idx[s] \in Nat /\ Size(s)' = Size(s)
  BY Roles, Types DEF Size
<1>2. \A j \in 1..Size(s) :
         (IF idx'[s] <= Size(s) THEN j < idx'[s] ELSE j >= idx'[s] - Size(s))
            <=> j < idx[s] \/ j = idx[s]
  BY <1>1
<1>3. Due(s)' = {j \in 1..Size(s) : (j < idx[s] \/ j = idx[s]) /\ health[ret[s].ts[j]]}
  BY <1>1, <1>2 DEF Due
<1>4. Due(s) = {j \in 1..Size(s) : j < idx[s] /\ health[ret[s].ts[j]]}
  BY <1>1 DEF Due
<1> QED
  BY <1>3, <1>4

\* What the second walk takes from them.
LEMMA DueShrinks ==
    ASSUME Basics, NEW s \in Servers, idx[s] \in (Size(s) + 1)..(2 * Size(s)),
           idx'[s] = idx[s] + 1, ret' = ret, health' = health
    PROVE  Due(s)' = Due(s) \ {idx[s] - Size(s)}
<1>1. Size(s) \in Nat /\ idx[s] \in Nat /\ Size(s)' = Size(s)
  BY Roles, Types DEF Size
<1>2. \A j \in 1..Size(s) :
         (IF idx'[s] <= Size(s) THEN j < idx'[s] ELSE j >= idx'[s] - Size(s))
            <=> j >= idx[s] - Size(s) /\ j # idx[s] - Size(s)
  BY <1>1
<1>3. Due(s)' = {j \in 1..Size(s) : (j >= idx[s] - Size(s) /\ j # idx[s] - Size(s))
                                     /\ health[ret[s].ts[j]]}
  BY <1>1, <1>2 DEF Due
<1>4. Due(s) = {j \in 1..Size(s) : j >= idx[s] - Size(s) /\ health[ret[s].ts[j]]}
  BY <1>1 DEF Due
<1> QED
  BY <1>3, <1>4

LEMMA CountHealthyInv ==
    ASSUME ControlInv, NEW s \in Servers, CountHealthy(s)
    PROVE  ControlInv'
<1>0. Basics /\ Flags /\ ServerOK(s) /\ s \in Tasks
  BY Roles DEF ControlInv
<1>1. PICK n : n = Counted(s, ret[s].ts[idx[s]])
  OBVIOUS
<1>2. /\ HasAll(s) /\ idx[s] \in 1..Size(s)
      /\ count' = [count EXCEPT ![s] = n] /\ idx' = [idx EXCEPT ![s] = idx[s] + 1]
      /\ UNCHANGED <<transports, health, pc, op, arg, list, ret, job, total, reply,
                     shifted, shut>>
  BY <1>1 DEF CountHealthy, Advances, viewVars
<1>3. /\ Size(s) \in Nat /\ count[s] \in Nat /\ idx[s] \in Nat
      /\ list[s] \in Seq(Transports) /\ Len(list[s]) \in Nat
  BY <1>0, Types DEF Size, Basics
<1>4. n = IF health[ret[s].ts[idx[s]]] THEN count[s] + 1 ELSE count[s]
  BY <1>1 DEF Counted
<1>5. n \in Nat
  BY <1>3, <1>4
<1>6. idx'[s] = idx[s] + 1 /\ count'[s] = n /\ list'[s] = list[s] /\ Size(s)' = Size(s)
  BY <1>0, <1>2 DEF Basics, Size
<1>7. list' = [list EXCEPT ![s] = list[s]]
  BY <1>0, <1>2 DEF Basics
<1>8. IsFiniteSet(Due(s)) /\ Cardinality(Due(s)) \in Nat
  BY <1>0, DueFinite
<1>9. Due(s)' = IF health[ret[s].ts[idx[s]]] THEN Due(s) \cup {idx[s]} ELSE Due(s)
  BY <1>0, <1>2, <1>6, DueGrows
<1>10. Cardinality(Due(s)') = IF health[ret[s].ts[idx[s]]] THEN Cardinality(Due(s)) + 1
                                                           ELSE Cardinality(Due(s))
  <2>1. idx[s] \notin Due(s)
    BY <1>2, <1>3 DEF Due
  <2>2. Cardinality(Due(s) \cup {idx[s]}) = Cardinality(Due(s)) + 1
    BY <1>8, <2>1, FS_AddElement
  <2> QED
    BY <1>9, <2>2
<1>11. n + Cardinality(Due(s)) = count[s] + Cardinality(Due(s)')
  <2>1. CASE health[ret[s].ts[idx[s]]]
    <3>1. n = count[s] + 1 /\ Cardinality(Due(s)') = Cardinality(Due(s)) + 1
      BY <1>4, <1>10, <2>1
    <3> QED
      BY <1>3, <1>8, <3>1
  <2>2. CASE ~health[ret[s].ts[idx[s]]]
    BY <1>4, <1>10, <2>2
  <2> QED
    BY <2>1, <2>2
<1>12. Cardinality(Due(s)') \in Nat
  BY <1>8, <1>10
<1>13. /\ count[s] < idx[s]
       /\ Len(list[s]) + Cardinality(Due(s)) <= count[s]
       /\ ~shut[s] => Len(list[s]) + Cardinality(Due(s)) = count[s]
  BY <1>0, <1>2 DEF ServerOK, Walking
<1>14. n < idx[s] + 1 /\ n <= Size(s) /\ idx[s] + 1 <= 2 * Size(s) + 1
  <2>1. n <= count[s] + 1
    BY <1>3, <1>4
  <2> QED
    BY <1>2, <1>3, <1>5, <1>13, <2>1
<1>15. Len(list[s]) + Cardinality(Due(s)') <= n
  BY <1>3, <1>5, <1>8, <1>11, <1>12, <1>13
<1>16. ~shut[s] => Len(list[s]) + Cardinality(Due(s)') = n
  <2>1. Len(list[s]) + Cardinality(Due(s)) = count[s]
           => Len(list[s]) + Cardinality(Due(s)') = n
    <3>1. PICK a, b, c, d : /\ a = Len(list[s]) /\ b = Cardinality(Due(s))
                            /\ c = count[s] /\ d = Cardinality(Due(s)')
      OBVIOUS
    <3>2. a \in Nat /\ b \in Nat /\ c \in Nat /\ d \in Nat /\ n + b = c + d
      BY <1>3, <1>8, <1>11, <1>12, <3>1
    <3>3. a + b = c => a + d = n
      BY <1>5, <3>2
    <3> QED
      BY <3>1, <3>3
  <2>2. ~shut[s] => Len(list[s]) + Cardinality(Due(s)) = count[s]
    BY <1>13
  <2> QED
    BY <2>1, <2>2, Zenon
<1>17. Walking(s)'
  BY <1>2, <1>6, <1>14, <1>15, <1>16 DEF Walking
<1> QED
  BY <1>2, <1>3, <1>5, <1>7, <1>17, WalkInv

LEMMA ListTunnelInv ==
    ASSUME ControlInv, NEW s \in Servers, ListTunnel(s)
    PROVE  ControlInv'
<1>0. Basics /\ Flags /\ ServerOK(s) /\ s \in Tasks
  BY Roles DEF ControlInv
<1>1. PICK j : j = idx[s] - Size(s)
  OBVIOUS
<1>2. PICK l : l = KeepIfHealthy(list[s], ret[s].ts[j])
  OBVIOUS
<1>3. /\ HasAll(s) /\ idx[s] \in (Size(s) + 1)..(2 * Size(s))
      /\ list' = [list EXCEPT ![s] = l] /\ idx' = [idx EXCEPT ![s] = idx[s] + 1]
      /\ UNCHANGED <<transports, health, pc, op, arg, ret, job, total, count, reply,
                     shifted, shut>>
  BY <1>0, <1>1, <1>2 DEF ListTunnel, serverVars, viewVars, Basics
<1>4. /\ Size(s) \in Nat /\ count[s] \in Nat /\ idx[s] \in Nat
      /\ list[s] \in Seq(Transports) /\ Len(list[s]) \in Nat
      /\ j \in 1..Size(s)
  <2>1. /\ Size(s) \in Nat /\ count[s] \in Nat /\ idx[s] \in Nat
        /\ list[s] \in Seq(Transports) /\ Len(list[s]) \in Nat
    BY <1>0, Types DEF Size, Basics
  <2> QED
    BY <1>1, <1>3, <2>1
<1>5. ret[s].ts[j] \in Transports
  BY <1>0, <1>4, Types DEF Size
<1>6. /\ l \in Seq(Transports)
      /\ Len(l) = IF health[ret[s].ts[j]] THEN Len(list[s]) + 1 ELSE Len(list[s])
  BY <1>2, <1>4, <1>5, AppendSeq
<1>7. /\ idx'[s] = idx[s] + 1 /\ count'[s] = count[s] /\ list'[s] = l
      /\ Size(s)' = Size(s)
  BY <1>0, <1>3 DEF Basics, Size
<1>8. count' = [count EXCEPT ![s] = count[s]]
  BY <1>0, <1>3 DEF Basics
<1>9. IsFiniteSet(Due(s)) /\ Cardinality(Due(s)) \in Nat
  BY <1>0, DueFinite
<1>10. Due(s)' = Due(s) \ {j}
  BY <1>0, <1>1, <1>3, <1>7, DueShrinks
<1>11. /\ Cardinality(Due(s)') \in Nat
       /\ Len(l) + Cardinality(Due(s)') = Len(list[s]) + Cardinality(Due(s))
  <2>1. CASE health[ret[s].ts[j]]
    <3>1. j \in Due(s)
      BY <1>1, <1>3, <1>4, <2>1 DEF Due
    <3>2. IsFiniteSet(Due(s)') /\ Cardinality(Due(s)') = Cardinality(Due(s)) - 1
      BY <1>9, <1>10, <3>1, FS_RemoveElement
    <3>3. Cardinality(Due(s)') \in Nat
      BY <3>2, FS_CardinalityType
    <3>4. Len(l) = Len(list[s]) + 1
      BY <1>6, <2>1
    <3> QED
      BY <1>4, <1>9, <3>2, <3>3, <3>4
  <2>2. CASE ~health[ret[s].ts[j]]
    <3>1. j \notin Due(s)
      BY <2>2 DEF Due
    <3>2. Due(s)' = Due(s)
      BY <1>10, <3>1
    <3> QED
      BY <1>6, <1>9, <2>2, <3>2
  <2> QED
    BY <2>1, <2>2
<1>12. /\ count[s] <= Size(s)
       /\ Len(list[s]) + Cardinality(Due(s)) <= count[s]
       /\ ~shut[s] => Len(list[s]) + Cardinality(Due(s)) = count[s]
  BY <1>0, <1>3 DEF ServerOK, Walking
<1>13. idx[s] + 1 <= 2 * Size(s) + 1 /\ ~(idx[s] + 1 <= Size(s))
  BY <1>3, <1>4
<1>14. Walking(s)'
  BY <1>3, <1>7, <1>11, <1>12, <1>13 DEF Walking
<1> QED
  BY <1>3, <1>4, <1>6, <1>8, <1>14, WalkInv

\* A task that is no server, and a step that leaves the vector alone.
LEMMA ElsewhereInv ==
    ASSUME ControlInv, Basics', UNCHANGED <<transports, health, serverVars, viewVars>>,
           \A u \in Servers : Still(u)
    PROVE  ControlInv'
<1>0. Flags /\ \A u \in Servers : ServerOK(u)
  BY DEF ControlInv
<1>1. Flags'
  BY <1>0 DEF Flags, viewVars
<1>2. ASSUME NEW u \in Servers PROVE ServerOK(u)'
  BY <1>0, ServerSame DEF viewVars
<1> QED
  BY <1>1, <1>2 DEF ControlInv

LEMMA PickInv ==
    ASSUME ControlInv, NEW p \in Pickers, BeginPick(p) \/ PickStep(p)
    PROVE  ControlInv'
<1>0. Basics /\ p \in Tasks /\ p \notin Servers /\ Servers \subseteq Tasks
  BY Roles DEF ControlInv
<1>1. UNCHANGED <<transports, health, serverVars, viewVars>>
  BY DEF BeginPick, PickStep, TryScan, FilterHealthy, EndScan, Return
<1>2. CASE TryScan(p)
  <2>1. "healthy_transports" \in Ops
    BY DEF Ops, ReadOps, ScanOps
  <2>2. Basics'
    BY <1>0, <1>1, <1>2, <2>1 DEF Basics, TryScan, serverVars, PCs
  <2>3. \A u \in Servers : Still(u)
    BY <1>0, <1>1, <1>2 DEF Still, TryScan, serverVars, Basics
  <2> QED
    BY <1>1, <2>2, <2>3, ElsewhereInv
<1>3. CASE FilterHealthy(p)
  <2>1. PICK l : l = KeepIfHealthy(list[p], transports[idx[p]])
    OBVIOUS
  <2>2. /\ list' = [list EXCEPT ![p] = l] /\ idx' = [idx EXCEPT ![p] = idx[p] + 1]
        /\ idx[p] <= Len(transports) /\ UNCHANGED <<pc, op, arg, ret>>
    BY <1>0, <1>3, <2>1 DEF FilterHealthy, Basics
  <2>3. l \in Seq(Transports)
    <3>1. idx[p] \in 1..Len(transports) /\ list[p] \in Seq(Transports)
      BY <1>0, <2>2, Types
    <3>2. transports[idx[p]] \in Transports
      BY <1>0, <3>1, Types
    <3> QED
      BY <2>1, <3>1, <3>2, AppendSeq
  <2>4. idx' \in [Tasks -> Nat] /\ \A k \in Tasks : idx'[k] >= 1
    BY <1>0, <2>2 DEF Basics
  <2>5. Basics'
    BY <1>0, <1>1, <2>2, <2>3, <2>4 DEF Basics, serverVars
  <2>6. \A u \in Servers : Still(u)
    BY <1>0, <1>1, <2>2 DEF Still, serverVars, Basics
  <2> QED
    BY <1>1, <2>5, <2>6, ElsewhereInv
<1>4. CASE EndScan(p)
  <2>1. PICK a \in Answers : Finish(p, a)
    BY <1>0, <1>4, Types, AnswerTypes DEF EndScan
  <2>2. /\ idx' = [idx EXCEPT ![p] = 1] /\ list' = [list EXCEPT ![p] = <<>>]
        /\ UNCHANGED <<op, arg>>
    BY <1>4 DEF EndScan
  <2>3. /\ pc' \in [Tasks -> PCs] /\ ret' \in [Tasks -> Answers]
        /\ \A u \in Tasks : u # p => pc'[u] = pc[u] /\ ret'[u] = ret[u]
    BY <1>0, <2>1, FinishTypes
  <2>4. list' \in [Tasks -> Seq(Transports)]
    <3>1. <<>> \in Seq(Transports)
      OBVIOUS
    <3> QED
      BY <1>0, <2>2, <3>1 DEF Basics
  <2>5. idx' \in [Tasks -> Nat] /\ \A k \in Tasks : idx'[k] >= 1
    BY <1>0, <2>2 DEF Basics
  <2>6. Basics'
    BY <1>0, <1>1, <2>2, <2>3, <2>4, <2>5 DEF Basics, serverVars
  <2>7. \A u \in Servers : Still(u)
    BY <1>0, <1>1, <2>2, <2>3 DEF Still, serverVars, Basics
  <2> QED
    BY <1>1, <2>6, <2>7, ElsewhereInv
<1>5. CASE Return(p)
  <2>1. Basics'
    BY <1>0, <1>1, <1>5, ReturnTypes DEF Basics, serverVars
  <2>2. \A u \in Servers : Still(u)
    BY <1>0, <1>1, <1>5, ReturnTypes DEF Still, serverVars
  <2> QED
    BY <1>1, <2>1, <2>2, ElsewhereInv
<1> QED
  BY <1>2, <1>3, <1>4, <1>5 DEF BeginPick, PickStep

LEMMA OtherInv ==
    ASSUME ControlInv, NEW k \in Others, OtherCall(k) \/ OtherStep(k)
    PROVE  ControlInv'
<1>0. Basics /\ k \in Tasks /\ k \notin Servers /\ Servers \subseteq Tasks
  BY Roles DEF ControlInv
<1>1. CASE OtherCall(k)
  <2>1. PICK t \in Transports : Call(k, "add", t)
    BY <1>1 DEF OtherCall
  <2>2. UNCHANGED <<transports, health, idx, list, ret, serverVars, viewVars>>
    BY <1>1, <2>1 DEF OtherCall, Call
  <2>3. "add" \in Ops
    BY DEF Ops, WriteOps
  <2>4. Basics'
    BY <1>0, <2>1, <2>2, <2>3 DEF Basics, Call, serverVars, PCs
  <2>5. \A u \in Servers : Still(u)
    BY <1>0, <2>1, <2>2 DEF Still, Call, serverVars, Basics
  <2> QED
    BY <2>2, <2>4, <2>5, ElsewhereInv
<1>2. CASE Add(k) /\ Shift /\ UNCHANGED serverVars
  BY <1>0, <1>2, VectorInv
<1>3. CASE Return(k) /\ UNCHANGED <<viewVars, serverVars>>
  <2>1. UNCHANGED <<transports, health, serverVars, viewVars>>
    BY <1>3 DEF Return
  <2>2. Basics'
    BY <1>0, <1>3, <2>1, ReturnTypes DEF Basics, serverVars
  <2>3. \A u \in Servers : Still(u)
    BY <1>0, <1>3, <2>1, ReturnTypes DEF Still, serverVars
  <2> QED
    BY <2>1, <2>2, <2>3, ElsewhereInv
<1> QED
  BY <1>1, <1>2, <1>3 DEF OtherStep

LEMMA CloseInv ==
    ASSUME ControlInv, NEW t \in Transports, Closes(t)
    PROVE  ControlInv'
<1>0. Basics /\ Flags /\ \A u \in Servers : ServerOK(u)
  BY DEF ControlInv
<1>1. Basics'
  BY <1>0 DEF Basics, Closes, Close, serverVars
<1>2. Flags'
  <2>1. health' \in [Transports -> BOOLEAN] /\ shifted' = shifted
    BY <1>0 DEF Flags, Closes, Close
  <2>2. \A s \in Servers : (shut[s] \/ HasAll(s)) \in BOOLEAN
    BY DEF HasAll
  <2>3. shut' \in [Servers -> BOOLEAN]
    BY <2>2 DEF Closes
  <2> QED
    BY <1>0, <2>1, <2>3 DEF Flags
<1>3. ASSUME NEW u \in Servers PROVE ServerOK(u)'
  BY <1>0, ServerClose
<1> QED
  BY <1>1, <1>2, <1>3 DEF ControlInv

LEMMA AcceptErrorInv ==
    ASSUME ControlInv, AcceptError
    PROVE  ControlInv'
<1>1. UNCHANGED <<poolVars, job, total, count, reply, viewVars>>
  BY DEF AcceptError
<1>2. Basics' /\ Flags'
  BY <1>1 DEF ControlInv, Basics, Flags, poolVars, viewVars
<1>3. ASSUME NEW u \in Servers PROVE ServerOK(u)'
  <2>1. Still(u)
    BY <1>1 DEF Still, poolVars
  <2> QED
    BY <1>1, <2>1, ServerSame DEF ControlInv, poolVars, viewVars
<1> QED
  BY <1>2, <1>3 DEF ControlInv

LEMMA StepInv == ControlInv /\ [Next]_vars => ControlInv'
<1> SUFFICES ASSUME ControlInv, [Next]_vars PROVE ControlInv'
  OBVIOUS
<1>1. CASE UNCHANGED vars
  BY <1>1, StutterInv
<1>2. CASE McpReceive
  <2>1. LoopStep(Mcp) /\ Mcp \in Servers
    BY <1>2, Roles DEF McpReceive, LoopStep
  <2> QED
    BY <2>1, LoopInv
<1>3. CASE AcceptError
  BY <1>3, AcceptErrorInv
<1>4. ASSUME NEW s \in Servers, Accept(s) \/ AdminReceive(s) \/ Sent(s) \/ Ends(s)
      PROVE  ControlInv'
  <2>1. LoopStep(s)
    BY <1>4 DEF LoopStep
  <2> QED
    BY <2>1, LoopInv
<1>5. ASSUME NEW s \in Servers, ServerStep(s) PROVE ControlInv'
  <2>1. CASE Ask(s)
    BY <2>1, AskInv
  <2>2. CASE AskRemove(s)
    <3>1. s \in Tasks /\ Remove(s) /\ Shift /\ UNCHANGED serverVars
      BY <2>2, Roles DEF AskRemove
    <3> QED
      BY <3>1, VectorInv
  <2>3. CASE AskLen(s) \/ AskAll(s)
    BY <2>3, ReadInv
  <2>4. CASE TakeLen(s)
    BY <2>4, TakeLenInv
  <2>5. CASE TakeRemoved(s) \/ PoolReport(s) \/ HealthCheck(s)
    BY <2>5, AnswersInv
  <2>6. CASE CountHealthy(s)
    BY <2>6, CountHealthyInv
  <2>7. CASE ListTunnel(s)
    BY <2>7, ListTunnelInv
  <2> QED
    BY <1>5, <2>1, <2>2, <2>3, <2>4, <2>5, <2>6, <2>7 DEF ServerStep
<1>6. ASSUME NEW p \in Pickers, BeginPick(p) \/ PickStep(p) PROVE ControlInv'
  BY <1>6, PickInv
<1>7. ASSUME NEW k \in Others, OtherCall(k) \/ OtherStep(k) PROVE ControlInv'
  BY <1>7, OtherInv
<1>8. ASSUME NEW t \in Transports, Closes(t) PROVE ControlInv'
  BY <1>8, CloseInv
<1> QED
  BY <1>1, <1>2, <1>3, <1>4, <1>5, <1>6, <1>7, <1>8 DEF Next

LEMMA Invariance == Spec => []ControlInv
BY InitInv, StepInv, PTL DEF Spec

---------------------------------------------------------------------------
(* What an answer may be relied on for.                                    *)

\* A pool_status or /pool answer reads every health flag twice without the
\* guard (handle_pool_status and the admin's pool_status, mcp/mod.rs and
\* admin/mod.rs): whatever is added, removed and closed meanwhile, the count
\* is within the total and not below the list, and they agree unless a
\* transport was closed between the call of all() and the answer.
THEOREM PoolReportsAgree == Spec => []PoolReportConsistent
<1>1. ControlInv => PoolReportConsistent
  BY DEF ControlInv, ServerOK, Reported, PoolReportConsistent
<1> QED
  BY <1>1, Invariance, PTL

\* health_check takes its total from len() and its count from all(): it reports
\* more healthy tunnels than tunnels only when the vector changed in between.
THEOREM HealthChecksAgree == Spec => []HealthCheckConsistent
<1>1. ControlInv => HealthCheckConsistent
  BY DEF ControlInv, ServerOK, Reported, HealthCheckConsistent
<1> QED
  BY <1>1, Invariance, PTL
===========================================================================
