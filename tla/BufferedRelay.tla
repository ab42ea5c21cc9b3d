--------------------------- MODULE BufferedRelay ---------------------------
(***************************************************************************)
(* src/relay/mod.rs, BufferedRelay: one agent connection relayed through a *)
(* succession of server connections.  relay_through owns &mut self, so one *)
(* call runs at a time; what interleaves with it is the agent and the      *)
(* server at the other ends of the sockets.                                *)
(*                                                                         *)
(* Bytes are numbered in the order they are sent, per direction, so that a *)
(* lost, repeated or reordered byte shows.  A failed write_all may have    *)
(* written any proper prefix.                                              *)
(***************************************************************************)
EXTENDS Naturals, Sequences, FiniteSets

CONSTANTS
    BufSize,        \* BUF_SIZE, the most one read returns
    MaxUp,          \* bound on the bytes the agent sends
    MaxDown,        \* bound on the bytes the servers send
    MaxSessions     \* bound on the server connections tried

ASSUME RelayAssumption ==
    /\ BufSize \in Nat \ {0}
    /\ MaxUp \in Nat /\ MaxDown \in Nat /\ MaxSessions \in Nat

VARIABLES
    \* the relay
    pc,             \* where relay_through is; "idle" between two calls
    buffer,         \* BufferedRelay.buffer
    agentConnected, \* agent_connected
    hand,           \* the bytes in agent_buf, server_buf or buffered
    up, down,       \* this session's counters, 0 outside one
    totalUp, totalDown,
    \* the agent's socket
    agentEnd,       \* "open", "closed" (EOF) or "reset"
    sent,           \* bytes 1..sent were written by the agent
    taken,          \* bytes 1..taken were read by the relay
    agentGot,       \* bytes the agent has received
    \* the server's socket
    session,        \* number of the current server connection
    serverEnd,
    serverSent,     \* bytes servers have sent, over all sessions
    serverTaken,    \* of which the relay has read or given up all up to here
    serverGot,      \* what each server has received
    \* history
    fetched,        \* bytes read from servers
    dropped,        \* agent bytes a failed flush has thrown away
    partial         \* bytes of failed writes that did reach a server

relayVars  == <<pc, buffer, agentConnected, hand, up, down, totalUp, totalDown>>
agentVars  == <<agentEnd, sent, taken, agentGot>>
serverVars == <<session, serverEnd, serverSent, serverTaken, serverGot>>
histVars   == <<fetched, dropped, partial>>
vars == <<relayVars, agentVars, serverVars, histVars>>

Ends == {"open", "closed", "reset"}

\* Types; the buffer and the servers hold bytes the agent sent and nothing
\* else, and the relay never reads past what was sent.
TypeOK ==
    /\ pc \in {"idle", "flush", "select", "toServer", "toAgent"}
    /\ buffer \in Seq(1..MaxUp)
    /\ agentConnected \in BOOLEAN
    /\ hand \in Seq(Nat)
    /\ up \in Nat /\ down \in Nat /\ totalUp \in Nat /\ totalDown \in Nat
    /\ agentEnd \in Ends /\ serverEnd \in Ends
    /\ sent \in 0..MaxUp /\ taken \in 0..sent
    /\ serverSent \in 0..MaxDown /\ serverTaken \in 0..serverSent
    /\ session \in 0..MaxSessions
    /\ serverGot \in [1..MaxSessions -> Seq(1..MaxUp)]
    /\ agentGot \in Seq(1..MaxDown) /\ fetched \in Seq(1..MaxDown)
    /\ dropped \subseteq 1..MaxUp
    /\ partial \in Nat

Init ==
    /\ pc = "idle" /\ buffer = <<>> /\ agentConnected = TRUE /\ hand = <<>>
    /\ up = 0 /\ down = 0 /\ totalUp = 0 /\ totalDown = 0
    /\ agentEnd = "open" /\ sent = 0 /\ taken = 0 /\ agentGot = <<>>
    /\ session = 0 /\ serverEnd = "closed" /\ serverSent = 0
    /\ serverTaken = 0 /\ serverGot = [s \in 1..MaxSessions |-> <<>>]
    /\ fetched = <<>> /\ dropped = {} /\ partial = 0

---------------------------------------------------------------------------
(* The peers.                                                              *)

AgentSends ==
    /\ agentEnd = "open" /\ sent < MaxUp
    /\ sent' = sent + 1
    /\ UNCHANGED <<relayVars, agentEnd, taken, agentGot, serverVars, histVars>>

AgentEnds ==
    /\ agentEnd = "open"
    /\ agentEnd' \in {"closed", "reset"}
    /\ UNCHANGED <<relayVars, sent, taken, agentGot, serverVars, histVars>>

ServerSends ==
    /\ serverEnd = "open" /\ serverSent < MaxDown
    /\ serverSent' = serverSent + 1
    /\ UNCHANGED <<relayVars, agentVars, session, serverEnd, serverTaken,
                   serverGot, histVars>>

ServerEnds ==
    /\ serverEnd = "open"
    /\ serverEnd' \in {"closed", "reset"}
    /\ UNCHANGED <<relayVars, agentVars, session, serverSent, serverTaken,
                   serverGot, histVars>>

---------------------------------------------------------------------------
(* relay_through.                                                          *)

Interval(a, b) == [i \in 1..(b - a) |-> a + i]      \* a+1, ..., b

\* A mutation: the buffer is copied and not taken.
AfterCopy == buffer

\* What BytesMut::split leaves behind, and the check at the start of the call.
AfterSplit == <<>>
AgentAlive == agentConnected

\* The call, on a server connection just established.  It refuses when the
\* agent is gone, and otherwise takes the buffer if there is anything in it.
\* Bytes an earlier server sent and nobody read are gone.
RelayThrough ==
    /\ pc = "idle" /\ session < MaxSessions /\ AgentAlive
    /\ session' = session + 1
    /\ serverEnd' = "open"
    /\ serverTaken' = serverSent
    /\ pc' = IF buffer = <<>> THEN "select" ELSE "flush"
    /\ hand' = buffer
    /\ buffer' = AfterSplit
    /\ UNCHANGED <<agentConnected, up, down, totalUp, totalDown, agentVars,
                   serverSent, serverGot, histVars>>

\* write_all to the server, of n bytes of the chunk in hand.
Upload(n) ==
    serverGot' = [serverGot EXCEPT ![session] = @ \o SubSeq(hand, 1, n)]

\* A mutation: flushed bytes are not counted.
Uncounted(n) == up

Counted(n) == up + n

Flush ==
    /\ pc = "flush"
    /\ Upload(Len(hand))
    /\ up' = Counted(Len(hand))
    /\ hand' = <<>>
    /\ pc' = "select"
    /\ UNCHANGED <<buffer, agentConnected, down, totalUp, totalDown, agentVars,
                   session, serverEnd, serverSent, serverTaken, histVars>>

\* The flush fails: relay_through returns the error at once.
FlushFails ==
    /\ pc = "flush"
    /\ \E n \in 0..(Len(hand) - 1) :
          /\ Upload(n)
          /\ partial' = partial + n
          /\ dropped' = dropped \cup {hand[i] : i \in (n + 1)..Len(hand)}
    /\ hand' = <<>>
    /\ pc' = "idle"
    /\ UNCHANGED <<buffer, agentConnected, up, down, totalUp, totalDown,
                   agentVars, session, serverEnd, serverSent, serverTaken,
                   fetched>>

\* The loop is left: the session's counters are added to the totals.
Break(u, d) ==
    /\ pc' = "idle"
    /\ totalUp' = totalUp + u
    /\ totalDown' = totalDown + d
    /\ hand' = <<>>
    /\ up' = 0 /\ down' = 0

AgentRead ==
    /\ pc = "select"
    /\ agentEnd # "reset"
    /\ \E n \in 1..BufSize :
          /\ n <= sent - taken
          /\ hand' = Interval(taken, taken + n)
          /\ taken' = taken + n
    /\ pc' = "toServer"
    /\ UNCHANGED <<buffer, agentConnected, up, down, totalUp, totalDown,
                   agentEnd, sent, agentGot, serverVars, histVars>>

\* Ok(0), or a read error.
AgentGone ==
    /\ pc = "select"
    /\ agentEnd = "reset" \/ (agentEnd = "closed" /\ taken = sent)
    /\ agentConnected' = FALSE
    /\ Break(up, down)
    /\ UNCHANGED <<buffer, agentVars, serverVars, histVars>>

ServerWritten ==
    /\ pc = "toServer"
    /\ Upload(Len(hand))
    /\ up' = up + Len(hand)
    /\ hand' = <<>>
    /\ pc' = "select"
    /\ UNCHANGED <<buffer, agentConnected, down, totalUp, totalDown, agentVars,
                   session, serverEnd, serverSent, serverTaken, histVars>>

\* A mutation: the chunk is not kept.
Forgotten(chunk) == buffer

\* The chunk is kept for the next server.
Rebuffered(chunk) == buffer \o chunk

ServerWriteFails ==
    /\ pc = "toServer"
    /\ \E n \in 0..(Len(hand) - 1) : Upload(n) /\ partial' = partial + n
    /\ buffer' = Rebuffered(hand)
    /\ Break(up, down)
    /\ UNCHANGED <<agentConnected, agentVars, session, serverEnd, serverSent,
                   serverTaken, fetched, dropped>>

ServerRead ==
    /\ pc = "select"
    /\ serverEnd # "reset"
    /\ \E n \in 1..BufSize :
          /\ n <= serverSent - serverTaken
          /\ hand' = Interval(serverTaken, serverTaken + n)
          /\ serverTaken' = serverTaken + n
          /\ fetched' = fetched \o hand'
    /\ pc' = "toAgent"
    /\ UNCHANGED <<buffer, agentConnected, up, down, totalUp, totalDown,
                   agentVars, session, serverEnd, serverSent, serverGot,
                   dropped, partial>>

\* A mutation: Ok(0) from the server is not taken for its end.
ServerError == serverEnd = "reset"

\* A read returns Ok(0) or an error.
ServerEof ==
    serverEnd = "reset" \/ (serverEnd = "closed" /\ serverTaken = serverSent)

\* The agent may still be alive.
ServerGone ==
    /\ pc = "select"
    /\ ServerEof
    /\ Break(up, down)
    /\ UNCHANGED <<buffer, agentConnected, agentVars, serverVars, histVars>>

AgentWritten ==
    /\ pc = "toAgent"
    /\ agentGot' = agentGot \o hand
    /\ down' = down + Len(hand)
    /\ hand' = <<>>
    /\ pc' = "select"
    /\ UNCHANGED <<buffer, agentConnected, up, totalUp, totalDown, agentEnd,
                   sent, taken, serverVars, histVars>>

\* A mutation: a failed write to the agent ends the session only.
AfterServerError == agentConnected

AfterAgentError == FALSE

AgentWriteFails ==
    /\ pc = "toAgent"
    /\ \E n \in 0..(Len(hand) - 1) : agentGot' = agentGot \o SubSeq(hand, 1, n)
    /\ agentConnected' = AfterAgentError
    /\ Break(up, down)
    /\ UNCHANGED <<buffer, agentEnd, sent, taken, serverVars, histVars>>

ReadStep == AgentRead \/ AgentGone \/ ServerRead \/ ServerGone

WriteToServer == Flush \/ FlushFails \/ ServerWritten \/ ServerWriteFails

WriteToAgent == AgentWritten \/ AgentWriteFails

PeerStep == AgentSends \/ AgentEnds \/ ServerSends \/ ServerEnds

Next ==
    RelayThrough \/ ReadStep \/ WriteToServer \/ WriteToAgent \/ PeerStep

Spec == Init /\ [][Next]_vars

\* A task whose read is ready is polled.  A write_all may stay pending for
\* ever, because the peer does not read (one that has only shut down its
\* sending side included); on a connection that was reset it returns.
FairSpec ==
    /\ Spec
    /\ WF_vars(ReadStep)
    /\ WF_vars(serverEnd = "reset" /\ WriteToServer)
    /\ WF_vars(agentEnd = "reset" /\ WriteToAgent)

---------------------------------------------------------------------------
(* Properties.                                                             *)

Elements(s) == {s[i] : i \in 1..Len(s)}

Uploading == IF pc \in {"flush", "toServer"} THEN hand ELSE <<>>

Delivered == UNION {Elements(serverGot[s]) : s \in 1..MaxSessions}

\* Every byte taken from the agent has reached a server, or waits in the
\* buffer or in the relay's hands, or was in a flush that failed: a server
\* that breaks in the middle of a session (relay/mod.rs, the write error in
\* the loop) costs the agent nothing.
NoOtherLoss ==
    1..taken \subseteq
        Delivered \cup Elements(buffer) \cup Elements(Uploading) \cup dropped

\* The comments of BufferedRelay promise more: "Buffer for data received from
\* the agent during reconnection windows" (line 188), "Server write failed --
\* buffer the data for the next server" (line 277).  Every byte taken from the
\* agent would have reached a server or still be held.
NothingLost ==
    1..taken \subseteq Delivered \cup Elements(buffer) \cup Elements(Uploading)

\* Each server receives a contiguous, ordered piece of the agent's stream:
\* what was buffered goes first, and nothing is repeated, skipped or reordered
\* within one connection.
ServerStreamContiguous ==
    \A s \in 1..MaxSessions : \A i \in 1..(Len(serverGot[s]) - 1) :
        serverGot[s][i + 1] = serverGot[s][i] + 1

\* A rotation repeats bytes only when the previous write failed half way, and
\* only the bytes of that chunk: never more than one read's worth.
OverlapBounded ==
    \A s, u \in 1..MaxSessions : s < u =>
        LET again == Elements(serverGot[s]) \cap Elements(serverGot[u])
        IN  Cardinality(again) < BufSize /\ Cardinality(again) <= partial

\* The arrivals at the servers: <<s, i>> is the i-th byte the s-th server got.
Arrivals == UNION {{s} \X (1..Len(serverGot[s])) : s \in 1..MaxSessions}

\* total_stats agrees with what the servers got: every byte of a completed
\* write is counted once, and only the prefixes of failed writes are not.
TotalsExact == totalUp + up + partial = Cardinality(Arrivals)

\* Towards the agent the relay loses nothing it has read from any server and
\* keeps the order across rotations, until a write to the agent fails.
DownLossless ==
    LET due == IF pc = "toAgent" THEN agentGot \o hand ELSE agentGot
    IN  IF agentConnected THEN due = fetched
        ELSE \E n \in 0..Len(fetched) : agentGot = SubSeq(fetched, 1, n)

\* The loop awaits a write_all inside a branch, outside of the select.
AwaitsPeer ==
    \/ pc \in {"flush", "toServer"} /\ serverEnd # "reset"
    \/ pc = "toAgent" /\ agentEnd # "reset"

\* A session one of whose peers has hung up ends, unless it sits for ever in
\* a write to a peer that does not read and does not reset its connection: the
\* hang-up is then never noticed.
SessionEnds ==
    (pc # "idle" /\ (serverEnd # "open" \/ agentEnd # "open"))
        ~> (pc = "idle" \/ []AwaitsPeer)
===========================================================================
