-------------------------- MODULE ProxyConnection --------------------------
(***************************************************************************)
(* src/proxy/mod.rs: the task that serves one accepted connection, from    *)
(* the first line to the end of the relay, together with the agent and the *)
(* destination behind the tunnel.  The tunnel may be an http-proxy         *)
(* transport (src/transport/http_proxy.rs), whose connect() is a handshake *)
(* with an upstream proxy on the stream that later carries the data.       *)
(*                                                                         *)
(* The agent's stream is a row of items, numbered from 1: the request      *)
(* line, the header lines, the blank line and then data bytes.  The task   *)
(* reads it through a BufReader, which pulls whatever has arrived: items   *)
(* up to `pulled` have left the socket, items up to `consumed` have left   *)
(* the BufReader.                                                          *)
(***************************************************************************)
EXTENDS Naturals, Sequences

CONSTANTS
    Requests,       \* the requests an agent may send, see Request
    Heads,          \* the heads an upstream proxy may answer CONNECT with
    HeadLimit,      \* 8192: a longer head is refused
    MaxDown         \* bound on the bytes the destination sends

\* What a header line declares: a length if it is a Content-Length, spelt in
\* one of the two ways the code recognises and with a value, or nothing.
Declared == {h \in SUBSET Nat : \A m, n \in h : m = n}

\* method: what the request line asks for; headers: the header lines; cut: the
\* last of these lines has no line end and nothing comes behind it; data:
\* number of bytes the agent has to send after the blank line.
Request ==
    {r \in [method : {"CONNECT", "HTTP", "malformed", "empty"},
            headers : Seq(Declared), cut : BOOLEAN, data : Nat] :
        r.cut => r.data = 0}

\* size: bytes up to and with the empty line.
ResponseHead == [status : {"200", "2xx", "other"}, size : Nat \ {0}]

ASSUME ProxyAssumption ==
    /\ Requests \subseteq Request
    /\ Heads \subseteq ResponseHead
    /\ HeadLimit \in Nat
    /\ MaxDown \in Nat

VARIABLES
    req,            \* the agent's request
    sent,           \* items the agent has written
    agentClosed,    \* the agent has closed its sending side
    agentGot,       \* the destination's bytes the agent has received
    pc,             \* where the task is
    pulled, consumed,
    length,         \* content_length
    replied,        \* the agent was sent 200 Connection Established
    tunnel,         \* "none", "dialing" during the handshake, "open", or
                    \* "dropped" when the task has ended
    upstream,       \* items the tunnel was given
    head,           \* the head the upstream proxy sends
    headSent, headRead,     \* how much of it was sent, and read by connect()
    downRead,       \* destination bytes that have left the tunnel's socket
    upDone, downDone,   \* directions of copy_bidirectional that saw EOF
    destSent, destClosed,
    \* history
    early,          \* data was sent before the 200 was
    discarded       \* items thrown away with the BufReader

agentVars == <<req, sent, agentClosed, agentGot>>
readVars  == <<pulled, consumed, length>>
headVars  == <<head, headSent, headRead>>
tunnelVars == <<tunnel, upstream, headVars, downRead, upDone, downDone>>
destVars  == <<destSent, destClosed>>
vars == <<agentVars, pc, readVars, replied, tunnelVars, destVars, early,
          discarded>>

Blank == Len(req.headers) + 2            \* position of the blank line
Last == Blank + req.data
Total == IF req.cut THEN Blank - 1 ELSE Last       \* what the agent sends

Interval(a, b) == [i \in 1..(b - a) |-> a + i]      \* a+1, ..., b

NoHead == [status |-> "200", size |-> 1]

PCs == {"first", "headers", "pick", "connect", "dial", "handshake", "reply", "relay",
        "forward", "body", "response", "done", "failed"}

\* Types; what the task has consumed was pulled by the BufReader before, and
\* what it pulled was sent; a handshake reads no more than the limit and one
\* byte, however much head the upstream proxy sends.
TypeOK ==
    /\ req \in Requests
    /\ consumed \in 0..pulled /\ pulled \in 0..sent /\ sent \in 0..Total
    /\ Len(agentGot) <= downRead /\ downRead \in 0..destSent /\ destSent \in 0..MaxDown
    /\ headSent \in 0..head.size /\ headRead \in 0..headSent /\ headRead <= HeadLimit + 1
    /\ pc \in PCs
    /\ tunnel \in {"none", "dialing", "open", "dropped"}
    /\ upstream \in Seq(1..Last) /\ length \in Nat
    /\ {agentClosed, replied, upDone, downDone, destClosed, early}
          \subseteq BOOLEAN
    /\ discarded \in Nat

Init ==
    /\ req \in Requests
    /\ sent = 0 /\ agentClosed = FALSE /\ agentGot = <<>>
    /\ pc = "first" /\ pulled = 0 /\ consumed = 0 /\ length = 0 /\ replied = FALSE
    /\ tunnel = "none" /\ upstream = <<>> /\ upDone = FALSE /\ downDone = FALSE
    /\ head = NoHead /\ headSent = 0 /\ headRead = 0 /\ downRead = 0
    /\ destSent = 0 /\ destClosed = FALSE /\ early = FALSE /\ discarded = 0

---------------------------------------------------------------------------
(* The peers.                                                              *)

\* Nothing makes an agent wait for the 200 before it sends data.
AgentSends ==
    /\ ~agentClosed /\ sent < Total
    /\ sent' = sent + 1
    /\ early' = (early \/ (sent >= Blank /\ ~replied))
    /\ UNCHANGED <<req, agentClosed, agentGot, pc, readVars, replied,
                   tunnelVars, destVars, discarded>>

AgentCloses ==
    /\ ~agentClosed
    /\ agentClosed' = TRUE
    /\ UNCHANGED <<req, sent, agentGot, pc, readVars, replied, tunnelVars,
                   destVars, early, discarded>>

\* The upstream proxy answers; what the destination sends follows at once.
UpstreamAnswers ==
    /\ tunnel = "dialing" /\ ~destClosed /\ headSent < head.size
    /\ headSent' = headSent + 1
    /\ UNCHANGED <<agentVars, pc, readVars, replied, tunnel, upstream, head,
                   headRead, downRead, upDone, downDone, destVars, early,
                   discarded>>

Through ==
    \/ tunnel = "open"
    \/ tunnel = "dialing" /\ headSent = head.size /\ head.status = "200"

DestSends ==
    /\ Through /\ ~destClosed /\ destSent < MaxDown
    /\ destSent' = destSent + 1
    /\ UNCHANGED <<agentVars, pc, readVars, replied, tunnelVars, destClosed,
                   early, discarded>>

DestCloses ==
    /\ tunnel \in {"dialing", "open"} /\ ~destClosed
    /\ destClosed' = TRUE
    /\ UNCHANGED <<agentVars, pc, readVars, replied, tunnelVars, destSent,
                   early, discarded>>

---------------------------------------------------------------------------
(* Reading the request.                                                    *)

Fail ==
    /\ pc' = "failed"
    /\ tunnel' = IF tunnel = "open" THEN "dropped" ELSE "none"

Finish ==
    /\ pc' = "done"
    /\ tunnel' = "dropped"

AgentEof == agentClosed /\ pulled = sent /\ consumed = pulled

\* BufReader::fill_buf: one read of the socket, of any part of what is there.
Fill ==
    /\ pc \in {"first", "headers", "body"}
    /\ consumed = pulled
    /\ \E n \in (pulled + 1)..sent : pulled' = n
    /\ UNCHANGED <<agentVars, pc, consumed, length, replied, tunnelVars,
                   destVars, early, discarded>>

\* read_line has the next line: up to its end, or, when the stream is over,
\* what there is of it.
LineRead ==
    /\ consumed < pulled
    /\ req.cut /\ consumed + 1 = Total => agentClosed
    /\ consumed' = consumed + 1

\* The parser of the request line accepts it.
Parses == req.method \in {"CONNECT", "HTTP"}

\* handle_connection, then the parser: an empty line or one that does not
\* parse ends the task without an answer.
FirstLine ==
    /\ pc = "first" /\ LineRead
    /\ pc' = IF Parses THEN "headers" ELSE "failed"
    /\ UNCHANGED <<agentVars, pulled, length, replied, tunnelVars, destVars,
                   early, discarded>>

FirstLineEof ==
    /\ pc = "first" /\ AgentEof
    /\ Fail
    /\ UNCHANGED <<agentVars, readVars, replied, upstream, headVars, downRead,
                   upDone, downDone, destVars, early, discarded>>

\* A mutation: one line too many is taken for a header.
IsBeyondBlank(n) == n > Blank

IsBlank(n) == n = Blank

\* What line n, a header or the blank line, declares; handle_connect does not
\* look at its headers.
Declares(n) ==
    IF req.method = "HTTP" /\ n < Blank THEN req.headers[n - 1] ELSE {}

\* A mutation: the first Content-Length counts.
FirstCounts(n) == IF length > 0 THEN {length} ELSE Declares(n) \cup {0}

\* A later Content-Length replaces an earlier one.
LastCounts(n) == IF Declares(n) = {} THEN {length} ELSE Declares(n)

HeaderLine ==
    /\ pc = "headers" /\ LineRead
    /\ length' \in LastCounts(consumed')
    /\ pc' = IF IsBlank(consumed') THEN "pick" ELSE "headers"
    /\ UNCHANGED <<agentVars, pulled, replied, tunnelVars, destVars, early,
                   discarded>>

\* A mutation: the header loop goes on at EOF.
EofIsNotBlank == FALSE

\* read_line returns 0 bytes at EOF; the loop takes it for the blank line.
EofIsBlank == AgentEof

HeaderEof ==
    /\ pc = "headers" /\ EofIsBlank
    /\ pc' = "pick"
    /\ UNCHANGED <<agentVars, readVars, replied, tunnelVars, destVars, early,
                   discarded>>

\* A mutation: a CONNECT is answered before the tunnel is connected.
AnswerFirst == {"reply"}

\* picker(host, port): a transport, http-proxy or another, or NoHealthyTunnels.
AfterPick == {"connect", "dial"}

Pick ==
    /\ pc = "pick"
    /\ pc' \in AfterPick \cup {"failed"}
    /\ UNCHANGED <<agentVars, readVars, replied, tunnelVars, destVars, early,
                   discarded>>

Connected ==
    /\ tunnel' = "open"
    /\ pc' = IF req.method = "CONNECT" THEN "reply" ELSE "forward"

\* transport.connect(host, port).await.
Connect ==
    /\ pc = "connect"
    /\ Connected \/ Fail
    /\ UNCHANGED <<agentVars, readVars, replied, upstream, headVars, downRead,
                   upDone, downDone, destVars, early, discarded>>

---------------------------------------------------------------------------
(* HttpProxyTransport::connect.                                            *)

\* TcpStream::connect and the CONNECT request; either may fail.
Dial ==
    /\ pc = "dial"
    /\ \/ pc' = "handshake" /\ tunnel' = "dialing" /\ head' \in Heads
       \/ Fail /\ UNCHANGED head
    /\ UNCHANGED <<agentVars, readVars, replied, upstream, headSent, headRead,
                   downRead, upDone, downDone, destVars, early, discarded>>

\* A mutation: the head is read with the socket's whole buffer.
TakesAll(n) == downRead' = IF n = head.size THEN destSent ELSE downRead

\* read_u8: nothing beyond the byte that was asked for leaves the socket.
TakesOne(n) == downRead' = downRead

\* A mutation: a head without end is read for ever.
NoLimit(n) == FALSE

TooLarge(n) == n > HeadLimit

\* One byte; the end of the head is looked for before the limit.
ReadHead ==
    /\ pc = "handshake" /\ headRead < headSent
    /\ headRead' = headRead + 1
    /\ TakesOne(headRead')
    /\ \/ headRead' = head.size /\ head.status = "200" /\ Connected
       \/ headRead' = head.size /\ head.status # "200" /\ Fail
       \/ headRead' < head.size /\ TooLarge(headRead') /\ Fail
       \/ headRead' < head.size /\ ~TooLarge(headRead') /\ UNCHANGED <<pc, tunnel>>
    /\ UNCHANGED <<agentVars, readVars, replied, upstream, head, headSent,
                   upDone, downDone, destVars, early, discarded>>

HeadEof ==
    /\ pc = "handshake" /\ destClosed /\ headRead = headSent
    /\ Fail
    /\ UNCHANGED <<agentVars, readVars, replied, upstream, headVars, downRead,
                   upDone, downDone, destVars, early, discarded>>

---------------------------------------------------------------------------
(* handle_connect, after the tunnel is connected.                          *)

\* BufReader::into_inner: what the reader has buffered is gone.
IntoInner ==
    /\ discarded' = pulled - consumed
    /\ consumed' = pulled

Reply ==
    /\ pc = "reply"
    /\ \/ pc' = "relay" /\ replied' = TRUE /\ IntoInner /\ UNCHANGED tunnel
       \/ Fail /\ UNCHANGED <<replied, discarded, consumed>>
    /\ UNCHANGED <<agentVars, pulled, length, upstream, headVars, downRead,
                   upDone, downDone, destVars, early>>

\* copy_bidirectional: each direction copies until EOF and then shuts down
\* the other side; it returns when both have, or at the first error.
CopyUp ==
    /\ pc = "relay" /\ ~upDone /\ pulled < sent
    /\ pulled' = pulled + 1 /\ consumed' = pulled'
    /\ upstream' = Append(upstream, pulled')
    /\ UNCHANGED <<agentVars, pc, length, replied, tunnel, headVars, downRead,
                   upDone, downDone, destVars, early, discarded>>

CopyUpEof ==
    /\ pc = "relay" /\ ~upDone /\ AgentEof
    /\ upDone' = TRUE
    /\ UNCHANGED <<agentVars, pc, readVars, replied, tunnel, upstream, headVars,
                   downRead, downDone, destVars, early, discarded>>

CopyDown ==
    /\ pc \in {"relay", "response"} /\ ~downDone /\ downRead < destSent
    /\ downRead' = downRead + 1
    /\ agentGot' = Append(agentGot, downRead')
    /\ UNCHANGED <<req, sent, agentClosed, pc, readVars, replied, tunnel,
                   upstream, headVars, upDone, downDone, destVars, early,
                   discarded>>

CopyDownEof ==
    /\ pc = "relay" /\ ~downDone /\ destClosed /\ downRead = destSent
    /\ downDone' = TRUE
    /\ UNCHANGED <<agentVars, pc, readVars, replied, tunnel, upstream, headVars,
                   downRead, upDone, destVars, early, discarded>>

RelayEnds ==
    /\ pc = "relay" /\ upDone /\ downDone
    /\ Finish
    /\ UNCHANGED <<agentVars, readVars, replied, upstream, headVars, downRead,
                   upDone, downDone, destVars, early, discarded>>

---------------------------------------------------------------------------
(* handle_plain_http, after the tunnel is connected.                       *)

LinesRead == IF consumed < Blank THEN consumed ELSE Blank - 1

\* The last line is a header without its end.
HeaderCut == req.cut /\ 1 < LinesRead /\ LinesRead = Total

\* The rewritten request line, the headers as they are and "\r\n", as the
\* destination sees them: the "\r\n" is the blank line, but only ends the last
\* header if that was cut.
Preamble == Interval(0, LinesRead) \o (IF HeaderCut THEN <<>> ELSE <<Blank>>)

\* One write each, and the flush; an error ends the task, the rest unsent.
Forward ==
    /\ pc = "forward"
    /\ \/ /\ upstream' = Preamble
          /\ pc' = IF length > 0 THEN "body" ELSE "response"
          /\ IF length > 0 THEN UNCHANGED <<consumed, discarded>>
                                  ELSE IntoInner
          /\ UNCHANGED tunnel
       \/ /\ \E n \in 0..Len(Preamble) : upstream' = SubSeq(Preamble, 1, n)
          /\ Fail
          /\ UNCHANGED <<consumed, discarded>>
    /\ UNCHANGED <<agentVars, pulled, length, replied, headVars, downRead,
                   upDone, downDone, destVars, early>>

BodyEnd == Blank + length

\* read_exact, a buffer's worth at a time.
ReadBody ==
    /\ pc = "body" /\ consumed < BodyEnd /\ consumed < pulled
    /\ consumed' = consumed + 1
    /\ UNCHANGED <<agentVars, pc, pulled, length, replied, tunnelVars, destVars,
                   early, discarded>>

BodyEof ==
    /\ pc = "body" /\ consumed < BodyEnd /\ AgentEof
    /\ Fail
    /\ UNCHANGED <<agentVars, readVars, replied, upstream, headVars, downRead,
                   upDone, downDone, destVars, early, discarded>>

ForwardBody ==
    /\ pc = "body" /\ consumed = BodyEnd
    /\ \/ /\ upstream' = upstream \o Interval(Blank, consumed)
          /\ pc' = "response" /\ IntoInner /\ UNCHANGED tunnel
       \/ /\ \E n \in Blank..consumed : upstream' = upstream \o Interval(Blank, n)
          /\ Fail
          /\ UNCHANGED <<consumed, discarded>>
    /\ UNCHANGED <<agentVars, pulled, length, replied, headVars, downRead,
                   upDone, downDone, destVars, early>>

\* tokio::io::copy from the tunnel to the agent, until the destination closes.
ResponseEnds ==
    /\ pc = "response" /\ destClosed /\ downRead = destSent
    /\ Finish
    /\ UNCHANGED <<agentVars, readVars, replied, upstream, headVars, downRead,
                   upDone, downDone, destVars, early, discarded>>

---------------------------------------------------------------------------

\* A socket breaks: reading the request fails with the error, a relay ends
\* with the error logged and Ok returned.
Breaks ==
    /\ \/ pc \in {"first", "headers", "handshake", "body"} /\ Fail
       \/ pc \in {"relay", "response"} /\ Finish
    /\ UNCHANGED <<agentVars, readVars, replied, upstream, headVars, downRead,
                   upDone, downDone, destVars, early, discarded>>

TaskStep ==
    \/ Fill \/ FirstLine \/ FirstLineEof \/ HeaderLine \/ HeaderEof
    \/ Pick \/ Connect \/ Dial \/ ReadHead \/ HeadEof \/ Reply
    \/ CopyUp \/ CopyUpEof \/ CopyDown \/ CopyDownEof \/ RelayEnds
    \/ Forward \/ ReadBody \/ BodyEof \/ ForwardBody \/ ResponseEnds

PeerStep ==
    AgentSends \/ AgentCloses \/ UpstreamAnswers \/ DestSends \/ DestCloses

Next == TaskStep \/ Breaks \/ PeerStep

Spec == Init /\ [][Next]_vars

\* The task is polled; a TCP connect returns in the end (the operating system
\* gives up on a connection that is never answered).  Nothing makes the
\* upstream proxy answer.
FairSpec == Spec /\ WF_vars(TaskStep)

---------------------------------------------------------------------------
(* Properties.                                                             *)

Over == {"done", "failed"}

\* An agent whose request could not be given a tunnel, for instance because
\* the upstream proxy refused it, sees the connection close and nothing else:
\* no 200, no byte, and nothing was sent upstream.
NoTunnelNoAnswer ==
    tunnel \in {"none", "dialing"} =>
        ~replied /\ agentGot = <<>> /\ upstream = <<>>

\* The agent gets the destination's bytes from the first one on, also those
\* that arrive together with the upstream proxy's head: connect() leaves in
\* the socket what is not its own.
DownstreamComplete ==
    agentGot = Interval(0, Len(agentGot)) /\ downRead = Len(agentGot)

\* A CONNECT agent that waits for the 200 gets a transparent tunnel: the
\* destination receives a prefix of what the agent sent after its headers.
\* An agent that does not wait may lose what the BufReader had pulled, once
\* and at the start; from there on the stream is in order and complete.
TunnelInOrder ==
    req.method = "CONNECT" =>
        /\ upstream = Interval(Blank + discarded,
                               Blank + discarded + Len(upstream))
        /\ ~early => discarded = 0

\* "For CONNECT: transparent TCP tunnel via `copy_bidirectional`" (line 13),
\* also for an agent that sends its first bytes right after the headers.
TransparentTunnel ==
    req.method = "CONNECT" => upstream = Interval(Blank, Blank + Len(upstream))

\* n is what the first k header lines declare: their last Content-Length.
DeclaredBy(k, n) ==
    \/ n = 0 /\ \A i \in 1..k : req.headers[i] = {}
    \/ \E i \in 1..k : /\ n \in req.headers[i]
                       /\ \A j \in (i + 1)..k : req.headers[j] = {}

\* A plain request reaches the destination with its lines in order, one blank
\* line and as many bytes of body as its last Content-Length says: neither
\* fewer (once the task relays the response) nor a byte of what follows.
\* A request whose agent closed within the headers is forwarded too, if the
\* lines that came declare no body; it has a blank line unless the agent was
\* cut off in the middle of a header line: then the destination gets that
\* piece as a whole header, and a head that does not end.
PlainRequestExact ==
    req.method = "HTTP" /\ pc = "response" =>
        \/ /\ DeclaredBy(Len(req.headers), length)
           /\ upstream = Interval(0, Blank + length)
        \/ /\ agentClosed /\ sent < Blank /\ DeclaredBy(sent - 1, 0)
           /\ upstream = Interval(0, sent)
                            \o (IF req.cut /\ sent = Total /\ sent > 1
                                THEN <<>> ELSE <<Blank>>)

\* Nothing times out, but a task does not outlive its peers: it ends once both
\* have hung up, and an agent that goes away while no tunnel is open is
\* enough, unless the upstream proxy leaves the handshake unanswered.
TaskEnds ==
    /\ agentClosed ~> (pc \in Over \/ tunnel \in {"dialing", "open"})
    /\ (agentClosed /\ destClosed) ~> pc \in Over
===========================================================================
