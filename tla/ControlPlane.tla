--------------------------- MODULE ControlPlane ---------------------------
(***************************************************************************)
(* The two servers that look at the pool from outside: the MCP server on   *)
(* stdin and stdout (src/mcp/mod.rs) and the admin API, one task for each  *)
(* connection (src/admin/mod.rs).  Both use the same Pool as the           *)
(* connections that pick tunnels, and each pool operation they make is a   *)
(* call with its own guard.  The Arcs a call returns outlive the guard,    *)
(* and every health flag is read when it is needed, so one answer may be   *)
(* put together from several moments.                                      *)
(*                                                                         *)
(* A request is what parsing leaves of it; wording and layout are left     *)
(* out.  Of a pick only the part that uses the pool is here (Dispatch has  *)
(* the rest); Others are further tasks that have the pool and add to it.   *)
(***************************************************************************)
EXTENDS Pool

CONSTANTS
    Mcp,            \* the task of run_stdio
    AdminConns,     \* the tasks of the admin API's connections
    Pickers         \* the connection tasks of the proxy

Servers == {Mcp} \cup AdminConns
Others  == Tasks \ (Servers \cup Pickers)

ASSUME ControlAssumption ==
    /\ Servers \cup Pickers \subseteq Tasks
    /\ Mcp \notin AdminConns
    /\ Servers \cap Pickers = {}

VARIABLES
    job,            \* what each server is working on
    total,          \* health_check: <<n>> once len() has returned n
    count,          \* the healthy transports counted so far
    reply,          \* the answer being sent
    accepting,      \* the admin API's accept loop runs
    \* history
    shifted,        \* the vector changed between a server's len() and its answer
    shut            \* a transport was closed between all() and the answer

serverVars == <<job, total, count, reply, accepting>>
viewVars   == <<shifted, shut>>
vars == <<poolVars, serverVars, viewVars>>

---------------------------------------------------------------------------
(* What is asked, and what is answered without the pool.                   *)

PARSE_ERROR      == "-32700"
INVALID_REQUEST  == "-32600"
METHOD_NOT_FOUND == "-32601"
INVALID_PARAMS   == "-32602"

\* tool_definitions: the tools and the arguments each requires.
Tools == {"pool_status", "pool_add", "pool_remove", "health_check"}

Required(tool) ==
    CASE tool = "pool_add"    -> {"protocol", "address", "label"}
      [] tool = "pool_remove" -> {"id"}
      [] OTHER                -> {}

\* A line of stdin: "none" for a missing member.  A blank one is skipped.
McpRequests ==
    [method : {"not JSON", "none", "tools/list", "other"}, name : {"none"}, args : {{}}]
    \cup [method : {"tools/call"}, name : Tools \cup {"none", "other"},
          args : {{}, {"id"}, {"protocol", "address"}, {"protocol", "address", "label"}}]

\* McpServer::handle_request and handle_tools_call, up to the tool.
McpCode(r) ==
    CASE r.method = "not JSON"   -> PARSE_ERROR
      [] r.method = "none"       -> INVALID_REQUEST
      [] r.method = "other"      -> METHOD_NOT_FOUND
      [] r.method = "tools/list" -> "result"
      [] r.method = "tools/call" ->
            CASE r.name = "none"      -> INVALID_PARAMS
              [] r.name = "other"     -> METHOD_NOT_FOUND
              [] r.name \in Tools     ->
                    IF Required(r.name) \subseteq r.args THEN "result"
                                                         ELSE INVALID_PARAMS

\* pool_add answers "request queued" and calls nothing.
McpJob(r) ==
    IF McpCode(r) = "result" /\ r.name \in Tools \ {"pool_add"} THEN r.name
                                                               ELSE "reply"

Paths == {"/health", "/pool", "/stats"}

AdminRequests == [method : {"GET", "POST"}, path : Paths \cup {"/"}]

\* admin's handle_request; /health and /stats are constants.
AdminCode(r) ==
    CASE r.path \notin Paths                    -> "404"
      [] r.path \in Paths /\ r.method # "GET"   -> "405"
      [] r.path \in Paths /\ r.method = "GET"   -> "200"

AdminJob(r) ==
    IF AdminCode(r) = "200" /\ r.path = "/pool" THEN "/pool" ELSE "reply"

Jobs == {"pool_status", "pool_remove", "health_check", "/pool"}

\* about: the job it answers; the rest is what the body reports.
Report(about, code, n, healthy, listed) ==
    [about |-> about, code |-> code, total |-> n, healthy |-> healthy,
     listed |-> listed]

NoReply == Report("none", "", 0, 0, <<>>)

Init ==
    /\ PoolInit
    /\ job = [s \in Servers |-> IF s = Mcp THEN "none" ELSE "ended"]
    /\ total = [s \in Servers |-> <<>>]
    /\ count = [s \in Servers |-> 0]
    /\ reply = [s \in Servers |-> NoReply]
    /\ accepting = TRUE
    /\ shifted = [s \in Servers |-> FALSE]
    /\ shut = [s \in Servers |-> FALSE]

---------------------------------------------------------------------------
(* The servers' loops.                                                     *)

\* AdminServer::run; hyper serves a connection's requests one at a time.
Accept(s) ==
    /\ accepting /\ s \in AdminConns /\ job[s] = "ended"
    /\ job' = [job EXCEPT ![s] = "none"]
    /\ UNCHANGED <<poolVars, total, count, reply, accepting, viewVars>>

\* accept()? ends the loop; connections that are open go on.
AcceptError ==
    /\ accepting
    /\ accepting' = FALSE
    /\ UNCHANGED <<poolVars, job, total, count, reply, viewVars>>

Dispatched(s, j, code) ==
    /\ job[s] = "none"
    /\ job' = [job EXCEPT ![s] = j]
    /\ reply' = IF j = "reply"
                THEN [reply EXCEPT ![s] = Report("none", code, 0, 0, <<>>)]
                ELSE reply
    /\ UNCHANGED <<poolVars, total, count, accepting, viewVars>>

McpReceive == \E r \in McpRequests : Dispatched(Mcp, McpJob(r), McpCode(r))

AdminReceive(s) ==
    /\ s \in AdminConns
    /\ \E r \in AdminRequests : Dispatched(s, AdminJob(r), AdminCode(r))

Done(s, j) ==
    /\ job' = [job EXCEPT ![s] = j]
    /\ reply' = [reply EXCEPT ![s] = NoReply]
    /\ shifted' = [shifted EXCEPT ![s] = FALSE]
    /\ shut' = [shut EXCEPT ![s] = FALSE]
    /\ UNCHANGED <<poolVars, total, count, accepting>>

\* The answer is written; the next request may be read.
Sent(s) == job[s] = "reply" /\ Done(s, "none")

\* EOF, or an error of a read or a write.
Ends(s) == job[s] \in {"none", "reply"} /\ Done(s, "ended")

---------------------------------------------------------------------------
(* The tools and the /pool body.                                           *)

\* The pool operation a job awaits next.
NextOp(s) ==
    CASE job[s] = "pool_remove"                          -> "remove"
      [] job[s] = "health_check" /\ total[s] = <<>>      -> "len"
      [] OTHER                                           -> "all"

Ask(s) ==
    /\ job[s] \in Jobs
    /\ \E t \in Transports : Call(s, NextOp(s), t)
    /\ UNCHANGED <<serverVars, viewVars>>

\* The vector changes under a server that has its length already.
HasLen(s) == total[s] # <<>> \/ (pc[s] = "done" /\ op[s] = "len")

Shift ==
    /\ shifted' = [s \in Servers |-> shifted[s] \/ HasLen(s)]
    /\ UNCHANGED shut

AskRemove(s) ==
    /\ Remove(s)
    /\ Shift
    /\ UNCHANGED serverVars

AskLen(s) ==
    /\ Length(s)
    /\ UNCHANGED <<serverVars, viewVars>>

AskAll(s) ==
    /\ All(s)
    /\ UNCHANGED <<serverVars, viewVars>>

\* health_check has its total; all() is a second call.
TakeLen(s) ==
    /\ pc[s] = "done" /\ op[s] = "len"
    /\ total' = [total EXCEPT ![s] = <<ret[s].total>>]
    /\ Return(s)
    /\ UNCHANGED <<job, count, reply, accepting, viewVars>>

\* A mutation: the count of the last request is not reset.
CountKept(s) == count[s]

CountAfter(s) == 0

\* The answer is complete, the call's locals go out of scope.
Completes(s, report) ==
    /\ job' = [job EXCEPT ![s] = "reply"]
    /\ reply' = [reply EXCEPT ![s] = report]
    /\ total' = [total EXCEPT ![s] = <<>>]
    /\ count' = [count EXCEPT ![s] = CountAfter(s)]
    /\ Return(s)
    /\ UNCHANGED <<accepting, viewVars>>

TakeRemoved(s) ==
    /\ pc[s] = "done" /\ op[s] = "remove"
    /\ Completes(s, Report("pool_remove",
                         IF ret[s].found THEN "removed" ELSE "not found",
                         0, 0, <<>>))

\* The Vec<Arc<dyn Transport>> that all() returned, walked once to count the
\* healthy transports and, for pool_status and /pool, once more to list them.
HasAll(s) == pc[s] = "done" /\ op[s] = "all"
Size(s)   == Len(ret[s].ts)

\* A mutation: the count ignores the flag.
CountedAll(s, t) == count[s] + 1

Counted(s, t) == IF health[t] THEN count[s] + 1 ELSE count[s]

\* A mutation: a loop that does not advance past an unhealthy transport.
AdvancesIfHealthy(s, t) == IF health[t] THEN idx[s] + 1 ELSE idx[s]

Advances(s, t) == idx[s] + 1

CountHealthy(s) ==
    /\ HasAll(s) /\ idx[s] \in 1..Size(s)
    /\ LET t == ret[s].ts[idx[s]]
       IN  /\ count' = [count EXCEPT ![s] = Counted(s, t)]
           /\ idx' = [idx EXCEPT ![s] = Advances(s, t)]
    /\ UNCHANGED <<transports, health, lock, pc, op, arg, list, ret, job,
                   total, reply, accepting, viewVars>>

ListTunnel(s) ==
    /\ HasAll(s) /\ job[s] # "health_check"
    /\ idx[s] \in (Size(s) + 1)..(2 * Size(s))
    /\ list' = [list EXCEPT ![s] = KeepIfHealthy(@, ret[s].ts[idx[s] - Size(s)])]
    /\ idx' = [idx EXCEPT ![s] = @ + 1]
    /\ UNCHANGED <<transports, health, lock, pc, op, arg, ret,
                   serverVars, viewVars>>

\* pool_status and /pool: total, healthy and the list with its flags.
PoolReport(s) ==
    /\ HasAll(s) /\ job[s] \in {"pool_status", "/pool"}
    /\ idx[s] > 2 * Size(s)
    /\ Completes(s, Report(job[s], "result", Size(s), count[s], list[s]))

HealthCheck(s) ==
    /\ HasAll(s) /\ job[s] = "health_check"
    /\ idx[s] > Size(s)
    /\ Completes(s, Report("health_check", "result", total[s][1], count[s], <<>>))

ServerStep(s) ==
    \/ Ask(s) \/ AskRemove(s) \/ AskLen(s) \/ AskAll(s)
    \/ TakeLen(s) \/ TakeRemoved(s)
    \/ CountHealthy(s) \/ ListTunnel(s) \/ PoolReport(s) \/ HealthCheck(s)

---------------------------------------------------------------------------
(* The rest of the program.                                                *)

\* The picker closure: healthy_transports_sync, then the router on the list.
BeginPick(p) == TryScan(p) /\ UNCHANGED <<serverVars, viewVars>>

PickStep(p) ==
    /\ FilterHealthy(p) \/ EndScan(p) \/ Return(p)
    /\ UNCHANGED <<serverVars, viewVars>>

OtherCall(k) ==
    /\ \E t \in Transports : Call(k, "add", t)
    /\ UNCHANGED <<serverVars, viewVars>>

OtherStep(k) ==
    /\ \/ Add(k) /\ Shift
       \/ Return(k) /\ UNCHANGED viewVars
    /\ UNCHANGED serverVars

Closes(t) ==
    /\ Close(t)
    /\ shut' = [s \in Servers |-> shut[s] \/ HasAll(s)]
    /\ UNCHANGED <<serverVars, shifted>>

Next ==
    \/ McpReceive \/ AcceptError
    \/ \E s \in Servers : \/ Accept(s) \/ AdminReceive(s)
                          \/ Sent(s) \/ Ends(s) \/ ServerStep(s)
    \/ \E p \in Pickers : BeginPick(p) \/ PickStep(p)
    \/ \E k \in Others : OtherCall(k) \/ OtherStep(k)
    \/ \E t \in Transports : Closes(t)

Spec == Init /\ [][Next]_vars

\* Runnable tasks are polled.  Nobody has to send a request, and a peer may
\* never take an answer.
FairSpec ==
    /\ Spec
    /\ \A s \in Servers : WF_vars(ServerStep(s))
    /\ \A p \in Pickers : WF_vars(PickStep(p))
    /\ \A k \in Others : WF_vars(OtherStep(k))

---------------------------------------------------------------------------
(* Properties.                                                             *)

\* Types; a server is in a pool call only while it works on a job.
TypeOK ==
    /\ PoolTypeOK
    /\ job \in [Servers -> Jobs \cup {"none", "reply", "ended"}]
    /\ \A s \in Servers :
          /\ job[s] \notin Jobs => pc[s] = "idle" /\ total[s] = <<>> /\ count[s] = 0
          /\ count[s] <= Size(s) /\ idx[s] <= 2 * Size(s) + 1

\* pool_status and /pool read every flag twice without a guard, once for the
\* count and once for the list.  The tunnels are those of one vector, and the
\* count is never below the number listed as healthy (a pooled transport does
\* not recover); they differ only if a transport was closed in between.
PoolReportConsistent ==
    \A s \in Servers : reply[s].about \in {"pool_status", "/pool"} =>
        /\ Len(reply[s].listed) <= reply[s].healthy
        /\ reply[s].healthy <= reply[s].total
        /\ ~shut[s] => Len(reply[s].listed) = reply[s].healthy

\* health_check takes total and healthy from two calls: it reports more
\* healthy tunnels than tunnels only if the pool changed in between.
HealthCheckConsistent ==
    \A s \in Servers : reply[s].about = "health_check" =>
        reply[s].healthy <= reply[s].total \/ shifted[s]

\* No pick and no call waits for ever for the pool's lock, which is fair: a
\* server that never stops asking for /pool does not keep an add out.
CallEnds ==
    \A k \in Tasks \ Servers : pc[k] \in {"locking", "scan"} ~> pc[k] = "done"

\* Every request that needs the pool is answered, whatever the connections,
\* the other server and the rest of the program do with the pool.
RequestAnswered ==
    \A s \in Servers : job[s] \in Jobs ~> job[s] = "reply"
===========================================================================
