# A TLA+ verification of houdinny

houdinny is a proxy for agents: it accepts HTTP connections, picks one of a pool
of tunnels for each and relays the bytes through it. This directory holds TLA+
models of the program's own logic, TLC configurations that check them on small
instances, and TLAPS proofs of the results that hold for every instance. Paths
below are relative to the repository.

## 1. The system

| Component | State | Operations | Talks to |
|---|---|---|---|
| Pool (`src/pool/mod.rs`) | a vector of `Arc<dyn Transport>` behind a tokio `RwLock` | `add`, `remove`, `get`, `len`, `is_empty`, `all`, `healthy_transports`, `healthy_transports_sync`, `status_summary` | called by the picker, the MCP server, the admin API |
| Transports (`src/transport/`) | an atomic health flag each | `provision`, `connect`, `close` | held by the pool, used by connections |
| Routers (`src/router/mod.rs`) | round robin: an `AtomicUsize` | `pick` | called by the picker closure of `main.rs` with the pool's healthy list |
| Proxy (`src/proxy/mod.rs`) | one task per connection: `BufReader`, tunnel stream | accept loop, CONNECT, plain HTTP | agent, picker, transport, destination |
| Relays (`src/relay/mod.rs`) | buffer, counters, agent-alive flag | `RelayStream::relay`, `BufferedRelay::relay_through` | agent, successive servers; exported, not yet used by the proxy |
| Startup (`src/main.rs`, `src/config/mod.rs`) | configuration, transports being built | load, override, `build_transports`, serve | files, command line |
| Docker (`src/docker.rs`) | three files, a `VpnState` per VPN | `start`, `wait_for_healthy`, `stop` | docker, NordVPN containers |
| Imports (`src/import/`) | the output file | `import nord`, `import ssh` | NordVPN's API, `ssh`; the file is read by a later start |
| MCP server (`src/mcp/mod.rs`) | none beside the pool | `tools/list`, `pool_status`, `pool_add`, `pool_remove`, `health_check` over stdin and stdout | calls the pool; exported, `main` does not start it |
| Admin API (`src/admin/mod.rs`) | none beside the pool | `GET /health`, `/pool`, `/stats` | calls the pool; exported, `main` does not start it |
| Routes (`src/route/mod.rs`) | vector of active routes | set-up, teardown | exported, not yet used by the proxy |
| Anti-correlation (`src/anticorr/mod.rs`) | configuration | `pre_request` (jitter), `pad_outgoing`, `unpad_incoming` | exported, not yet used by the proxy |
| Payment (`src/payment/mod.rs`) | registered handlers | `parse_402`, `handle_payment` | handlers; exported, not yet used by the proxy |

What is hard here: connection tasks pick tunnels while others change the pool and
close transports, and use a list after its lock is released; a relay moves bytes
between peers that may fail half way through a write; how much of the agent's
stream is buffered when the reader is unwrapped depends on how the bytes arrived;
containers change between two docker commands; a server's report is put together
from several reads of a pool that changes; an import or a start may fail between
two writes, and the next one finds what it left. `PROJECT.json` lists each of these
hazards at its line, with the properties that would catch it going wrong.

`src/lib.rs` of this commit does not declare the module `docker`, which
`src/main.rs` uses as `houdinny::docker`; `src/docker.rs` is modelled as written.

## 2. Modules

| Module | Models |
|---|---|
| `RwLock` | tokio's `RwLock` (external), as operators on a lock record: one FIFO queue, and a queued caller also makes `try_read` fail |
| `Pool` | `src/pool/mod.rs`; extends `RwLock` |
| `Dispatch` | picker closure and routers on top of `Pool`, with concurrent pool operations and closes |
| `BufferedRelay` | `BufferedRelay::relay_through` with the agent and a succession of servers |
| `Pipe` | abstract specification: what a relay promises |
| `RelayStream` | `RelayStream::relay`, implements `Pipe` |
| `ProxyConnection` | one connection task of `src/proxy/mod.rs` with both peers |
| `ControlPlane` | MCP server and admin API on top of `Pool`, beside picks and a task that adds |
| `Startup` | `main()` without a subcommand, from the command line to serving |
| `Import` | `houdinny import nord` and `import ssh`, on top of `Startup`, which reads what they wrote |
| `DockerStart` | `houdinny start-docker`, `stop-docker` and the containers |
| `RouteManager` | `LinuxRouteManager`'s table numbers |
| `AntiCorr` | jitter and padding between two ends |
| `Payment` | the payment interceptor |
| `MC...` | values of constants for TLC; `MCLibrary` also puts the three exported parts side by side |
| `DispatchProofs`, `BufferedRelayProofs`, `RelayStreamProofs`, `ProxyConnectionProofs`, `ControlPlaneProofs`, `ImportProofs`, `DockerStartProofs` | theorems and proofs about the module of that name; `DispatchProofs` also holds the lemmas about `RwLock`, `ImportProofs` the theorems about `Startup` |
| `LibraryProofs` | theorems and proofs about `RouteManager`, `AntiCorr` and `Payment` |

An operator introduced by a comment "A mutation" is a plausible bug in the definition below
it; it is not used by any specification. Replacing the definition by it makes TLC
report the property `PROJECT.json` pairs it with.

### How state and actions correspond to the code

*Pool, Dispatch.* A call is several steps: ask for the guard (`Call`, `TryScan`),
work under it, drop it (`Finish`). The vector is changed in one step under the
write guard. The loops that read health flags take one step per transport
(`FilterHealthy`, `RouteFilter`), since the flags are atomics that `close` stores
to at any time (`CloseTransport`). Only `close` changes a flag: `provision` takes
`&mut self`, which is out of reach behind an `Arc`. A pick is the closure of
`main.rs`: scan under a guard that `try_read` gave or refused, then the router's
own filter without a guard, then the choice. History variables record the vector a pick
started on (`poolAt`), the transports healthy when the router was called (`upAt`),
the ids removed before it (`goneAt`), and the picks since the last change
(`served`, `slack`).

*BufferedRelay, RelayStream.* Bytes are numbers in sending order. A read takes up
to `BufSize` of what has been sent; a write is a step of its own and either
completes or fails after any proper prefix, or is never taken: `write_all` waits for
as long as the peer does not read. Sockets end by EOF, after which what
was sent can still be read, or by reset. A `relay_through` whose caller drops its
future ("or we decided to rotate", `src/relay/mod.rs:175`) is not modelled: nothing
calls it yet, and what such a caller would do is open.

*ProxyConnection.* The agent's stream is a row of items: request line, header
lines, blank line, data bytes. The stream may end within a line (`cut`), which
`read_line` then returns as it is, the first line included. A header line declares
a length or none (`Declared`); `length` is `content_length`, which a later
declaration replaces. `pulled` is how far the `BufReader` has read the
socket, in portions of any size, `consumed` how far the task has read the
`BufReader`; `into_inner` drops what lies between. The parsers are the choice
whether the request line is well formed (`Parses`). A picked tunnel is either opened in one
step (`Connect`) or is an http-proxy transport, whose `connect` sends a CONNECT of
its own (`Dial`) and reads the upstream proxy's head byte by byte (`ReadHead`) from
the stream that then carries the destination's bytes; `downRead` counts what has
left that socket, `agentGot` is what the agent received. `Breaks` is an I/O error while reading or relaying; a read of
`copy_bidirectional` or `copy` and the write of what it read are one step, so bytes
that such an error catches in the copy's own buffer count as not read.

*Startup.* The configuration comes from `-t` or from a file, whose content after
`${VAR}` resolution is an input. One step per iteration of `build_transports`.

*ControlPlane.* A server has one request at a time (`job`). A tool is the sequence
of pool calls it awaits, each with its own guard, followed by loops over the Arcs
that `all` returned, one step per health flag. `pool_add` answers and calls
nothing. `shifted` and `shut` record whether the vector or a flag changed between
the reads of one answer. hyper drops the handler of a client that has gone, at
whatever `await` it is; here it runs to its end, and the answer is not taken.

*Import.* One step per request, `ssh` process and write, each of which may fail;
an error ends the command and undoes nothing. Of an `ssh -D -N -f` the code knows
the exit status and nothing else: without `ExitOnForwardFailure` it is 0 also when
the port could not be bound, so `reported` records exit statuses and no listeners.
`launched` records the commands of the imports that came to write, `written` the
tables with their places. A write that stops half way leaves some of the new tables,
then perhaps the first lines of another (`Cut`), or a file that does not parse.
Then `Serve` starts the proxy of `Startup` on the files.

*AntiCorr.* A packet is a sequence of digits below `Base` (256 in the code), so
the trailer has `Base^4` values and the cut to a `u32` is `%`. Both ends have a
configuration of their own.

*Payment.* Headers are what `parse_402` tells apart. `parse_402` is a recursive
function of the number of headers read; `handle_payment` takes one step per handler, with `pay` in two,
since it awaits.

*DockerStart.* One step per docker command; between any two of them a container
may connect, drop its VPN or exit, and the user may run `stop`. `disk` is, for each
of the three files, the number of VPNs it was written for: a start finds the files
and containers of an earlier one. `compose up` leaves a container that runs with
unchanged settings alone, the proxy's too, which then keeps the tunnel list it
has read (`proxyTunnels`); `docker restart` may fail, which the code does not look
at (`Restart`), and the proxy may exit by itself. `askedUp` records which VPNs were
connected when they were last asked, `restarted` whether the restart succeeded.
Time is counted in poll intervals.

*RouteManager.* Each operation runs under one write guard without an await, so it
is one step.

## 3. Runs

| Run | Instance | Shows |
|---|---|---|
| `dispatch_safety` | one pick, one operator with every pool call, three transports of which two share an id, random strategy | `ScanStable`, `PickedFromPool`, `RemovedNotPicked`, `FailureJustified` |
| `dispatch_rr` | two concurrent picks, round robin, three transports, counter of 4 values, 5 picks between changes | `TypeOK`, `RoundRobinBalanced` |
| `control_plane` | MCP server, one admin connection, one pick, one adding task, fairness | what a report may say; `RequestAnswered`, `CallEnds` |
| `relay_sessions` | reads of up to 2 bytes, 4 bytes up, 2 down, 3 servers, fairness | what `BufferedRelay` may lose, repeat and count; when a session ends |
| `relay_stream` | reads of up to 2 bytes, 3 bytes each way, fairness | `RelayStream` implements `Pipe`; `RelayEnds` |
| `proxy_connection` | CONNECT and plain requests with 0 to 2 headers and 0 to 3 data bytes, bodies shorter and longer than `Content-Length`, two differing lengths, streams cut within the first or a later line, heads of an upstream proxy below, at and above the limit, fairness | what reaches the destination and the agent; that the task ends |
| `startup` | every command line and file of up to three entries, each protocol with and without its fields; up to two imports into two files | a bad entry costs only itself; an import costs no old entry and adds, at their places, tables that are served |
| `docker_start` | two runs of `start` with 0 to 2 VPNs, `stop` at any time, timeout of 2 poll intervals, rounds of 1 or 2, fairness | what success means, no mixture of files, no VPN is given up early, `start` ends |
| `library` | three tunnel ids and four routes; all packets of the set in `MCLibrary` for four target sizes and `Base` 2; up to three headers and three handlers | `RouteManager`, `AntiCorr` and `Payment`, each on its own |
| `relay_flush_loss` | as `relay_sessions`, two servers | violation: a flush that fails loses the buffered bytes |
| `proxy_early_data` | as `proxy_connection` | violation: data sent right behind the CONNECT headers may be dropped |
| `route_dedicated` | as the routes of `library` | violation: a table in use is given out again |

### Bounds

* Dispatch: `MaxPicks` bounds round-robin picks between two changes of the pool
  (the counter and the history are then finite); 5 picks pass the wrap-around of
  a counter of 4 values, which is no multiple of 3 healthy transports, so the rotation's jump is seen. Three
  transports with one shared id are the fewest for which removal by id, order
  and the position of the removed entry matter.
* BufferedRelay: 3 sessions let a failed chunk be re-sent and fail again; 4 bytes
  with reads of 2 give two chunks, so bytes behind the failed chunk exist.
* ControlPlane: one transport that is removed, added and closed is enough for every
  disagreement between two reads; four tasks fill the lock's queue with readers
  behind a writer.
* ProxyConnection: two data bytes behind a CONNECT tell "dropped", "partly
  dropped" and "kept" apart; bodies have up to three bytes for lengths up to two;
  `HeadLimit` stands for 8192. Two headers are the fewest with a
  repeated `Content-Length`.
* DockerStart: two VPNs allow one connected and one failed or waiting; two starts
  let the second find the files and containers of a larger or smaller first; all
  times beyond the timeout are alike, so `elapsed` stops there. (The theorems of
  section 5 hold for any numbers.)
* Startup: three entries put a bad one between two good ones. Two imports let the
  second append to, or break, what the first wrote; one `ssh` command names a port
  twice, and two hosts share it, so that tables alike in label or port occur.
* AntiCorr: with `Base` 2 the trailer tells 16 lengths apart, so packets beyond its
  range exist; the target sizes are 0, below, at and far above what packets need.
* Payment: three headers put a telling header before, between and behind explicit
  ones; three handlers let one be skipped, one asked and one left.
* RouteManager: `TableSize` stands for 2^32; the assumption `BaseTable +
  MaxRoutes <= TableSize` says that so many routes are not active at once. `base_table`
  is the user's to choose: with one so near to 2^32 that the sum overflows, a debug
  build panics and a release build wraps, which is left out.

Deadlock checking is off where the system may stop: a relay, a start or a
connection comes to an end, and in Dispatch the bound on picks ends a behaviour.

### Fairness

Weak fairness of the task's own steps only: a tokio task that can move is polled,
docker commands return, sleeps end. Peers, operators' decisions to call and containers are not
assumed to do anything. In particular the relays' fairness is that of their reads
(a `select!` with a branch that is ready is polled) and, in `BufferedRelay`, of writes
on a connection that was reset, which return; a write to a peer that does not
read may wait for ever. `SessionEnds` and `RelayEnds` name that case: a hang-up of
one side ends the relay unless it sits for ever in one write. Likewise,
in `ControlPlane` nobody has to send a request or take an
answer. There each task's steps are fair separately, since tasks run
independently, and the lock's FIFO queue does the rest: with readers that overtake
queued writers `CallEnds` fails. `TaskEnds` of
`ProxyConnection` is conditional on the peers hanging up, since the code has no timeouts, and
assumes that `connect` returns in the end.

## 4. What the properties say

* **Picking.** The guard keeps the vector unchanged during a scan. A pick returns
  an entry of the pool it started on, healthy when the router was called, and no
  transport whose id was removed before. `NoHealthyTunnels` with the guard held
  means that none of the entries is healthy any more. Without the guard it may be
  reported with healthy tunnels present: `try_read` fails also while a writer
  only waits, which is wider than the comment on `healthy_transports_sync`
  ("currently held by a writer").
* **Round robin.** Between changes, healthy entries get equally many picks give or take one, plus one per
  concurrent pick on an older list and per counter wrap-around.
* **BufferedRelay.** Apart from failed flushes no byte of the agent is lost; each
  server gets a contiguous piece of the stream; a rotation repeats less than one
  read's worth; totals count every completed write once; towards the agent
  nothing is lost or reordered until a write to it fails. A session ends when a peer
  hangs up, unless a write waits for ever: `write_all` is awaited outside of the
  `select!`, so a peer that stops reading hides the other's hang-up.
* **ProxyConnection.** Without a tunnel the agent gets no answer; an agent that waits for the 200
  has a transparent tunnel, one that does not may lose a piece at the start and
  nothing after it; a plain request arrives with exactly the body its last
  `Content-Length` declares. If the agent closed within its headers, what it sent
  is forwarded all the same, provided it declares no body: with a blank line when
  it closed between two lines, without one when it closed within a header line,
  since the one `\r\n` of `src/proxy/mod.rs:236` then only ends that line.
  Through an upstream proxy the agent gets the destination's bytes from the first
  one, although they may arrive together with the head; an endless head is refused.
* **ControlPlane.** A report of `pool_status` or `/pool` never lists more healthy
  tunnels than it counts, and the two differ only after a close in between;
  `health_check` reports more healthy tunnels than tunnels only if the pool changed
  between its two calls. Every request is answered.
* **Import.** Old tables stay, in their order, whatever fails; with `--start` an
  import comes to write only when each of its `ssh` commands has exited 0 (which
  does not mean that the port is bound); each table `import ssh` wrote is served,
  from its place and with its host and port, by the next start that reads the file; sharing servers out among
  countries fetches none that is thrown away.
* **DockerStart.** A successful wait has a VPN that was really connected when
  it was asked, also when `stop` runs meanwhile, and if the restart succeeded the
  proxy, as long as it runs, has that VPN in its list; compose never runs on files of two starts; a VPN is
  given up only when its container was seen down or the time is up.
* **AntiCorr.** Padded data come back exactly, for all lengths the trailer can tell
  and any two target sizes; packets that fit the target size are equally long; of
  whatever arrives, `unpad` returns the whole or a part of the body; the wait is
  never below `min_ms`.
* **Payment.** An explicit network wins over detected protocols in any order of
  headers; the first handler that can is asked; after one was asked, whatever it
  answered, no other is.

## 5. Proofs

Checked by TLAPS for all values of the constants, under the assumptions named in
the modules.

`DispatchProofs` starts with lemmas about the lock: every operation keeps the record's
type and the exclusion of readers and writers (`LockOK`), and a reader keeps its
guard until it drops it itself. `TypeCorrect`, `ScansAreStable`, `PicksComeFromPool`,
`PicksAvoidRemoved`, `FailuresAreJustified` and `RotationIsFair` are the
invariants of the dispatch runs, for any transports, ids, tasks, strategy and
counter width. None of them is inductive. The invariant `IInv` adds:
* the lock is well formed and exclusive (`LockOK`), and a scanning pick is among
  its readers, so no writer can change the vector;
* while a pick scans, its list holds only entries of the vector it started on,
  and every entry passed that is still healthy (`Scanning`);
* the same for its answer (`Answered`) and for the router's list (`Routing`),
  where it also matters that health only falls: what is healthy now was healthy
  when the router was called;
* ids in `gone` occur in no entry of the pool (`GoneOK`), which needs `remove` to
  drop all entries of an id.

For `RotationIsFair`, `RotationInv` adds two things. A pick during which nothing
changed uses the whole rotation: the length of its list is the number of healthy
entries up to its position, and the router's filter drops none (`FreshOK`). And
`Balance` sharpens the property until it is inductive: of two indices the one whose
turn comes later (`Turn`, counted from the counter) may be one use ahead, the other
may not. A pick moves the index it used from the front to the back (`TurnStep`, which
rests on how `%` behaves when the counter moves on by one, `NextIndex`); a
wrap-around or a pick from an older list may reorder the turns, which the slack pays for.

`LibraryProofs`, routes: `RouteTypeCorrect`, `LifoDistinct` (the invariant: while teardown
was last in first out, the i-th route has table `BaseTable + i - 1`), and the
action property `NeverRenumbered`.

`RelayStreamProofs`: `RelayImplementsPipe`, that `RelayStream` implements `Pipe`
(instantiated `WITH` the same variables). The invariant `StreamInv` says that what
has arrived from a side is a prefix of what it sent; while the loop runs that is
`moved[s]` bytes, and only the side whose chunk is being written is ahead of it
(`taken[s]`). Each step then maps to a step of `Pipe` or to a stutter.

`LibraryProofs`, padding: `LayerTypeCorrect`, `PaddingRoundTrip`, `SizesHidden`,
`UnpadWholeOrBody`, `JitterInRange`, for any `Base`, packets, target sizes and
delays. Lemmas on division show that the trailer's four digits are bytes and give
back the length when it is below `Base^4` (`TrailerBytes`, `TrailerValue`), that
the wire is data, zeros and trailer (`PadParts`) and hence that unpadding it
returns the data (`UnpadPad`). The invariant `LayerInv` ties `wire` to `data` and
`got` to `wire` stage by stage.

`DockerStartProofs`: `DockerTypeCorrect`, `FilesOfOneStart`, `NoVpnGivenUpEarly`,
`SuccessHasTunnel`, for any number of VPNs, starts and poll rounds. `DockerInv`
adds: the files written so far by the running start are for its own number of
VPNs (`Written`, in stages, so that the last write completes `SameGeneration`); a
round only holds VPNs of this start (`InRound`); a VPN recorded as connected was
up when it was asked, and success has one (`Seen`); a restart that succeeded is the
last thing a start does to the proxy, which has then read the files of this start
(`TunnelsRead`).

`ProxyConnectionProofs`: `ConnectionTypeCorrect`, `NoAnswerWithoutTunnel`,
`NothingLostDownstream`, `TunnelKeepsOrder`, `RequestForwardedExactly`, i.e. every
invariant of the `proxy_connection` run, for any requests, heads and amounts of
data. Lemmas on rows of consecutive items (`IntervalConcat`, `IntervalAppend`) carry
the streams. `ConnInv` says in its parts: consumed is at most pulled, pulled at most
sent (`Counts`); where the task is tells the tunnel's state and the kind of request,
and nothing went either way before the tunnel is open (`Phases`); once the headers
are read either exactly the blank line was consumed or the agent closed and all it
sent, a piece of a line included, was (`Lines`, `CutShort`), which is what makes both `into_inner` and the
preamble predictable; as long as the 200 was not sent and the agent was not early,
nothing behind the blank line was sent (`Tunnelled`), hence nothing is discarded;
the body starts from a complete preamble (`Forwarded`); `content_length` is the last
one declared by the lines read so far (`LengthRead`).

`LibraryProofs`, payment: `PaysAtMostOnce`, `FirstCapableIsAsked`,
`NetworkIsExplicit`, `PaymentTypeCorrect`, for any handlers and headers. `PayInv`
says: while the loop runs nobody was asked and no handler before the current one can
(`NoneBefore`); from then on the one that was asked is the first that can
(`FirstAt`). For the parser, `RunExists` shows that the recursive function of
`Parsed` exists and what its values are, `SaysStep` that one more header turns what
the first n say of the network (`Says`) into what the first n + 1 say, and `ParsedSays`
puts the two together. The induction theorems of the library take an operator, so
these proofs descend to the least counterexample instead (`LeastNat`, `Induct`).
The assumption `None \notin Networks` says that a header's value is not the model's
stand-in for `Option::None`.

`BufferedRelayProofs`: `TypeCorrect`, `NoOtherLossHolds`,
`ServerStreamContiguousHolds`, `OverlapBoundedHolds`, `TotalsExactHolds`,
`DownLosslessHolds`, i.e. every invariant of the `relay_sessions` run, for any buffer
size, amounts of data and number of servers. `RelayInv` describes all streams as rows
of consecutive bytes: what is in the relay's hands or in its buffer ends at the last
byte taken from the agent and fits one read (`HeldRow`); what each server got is a
row that ends less than one read past the first byte still held and past the start of
any later row, and all that lies before the held bytes is in some row or was
dropped (`Rows`); what the agent got is what was fetched, but for the chunk in
hand (`Down`). `TotalsExact` counts arrivals, pairs of a server and a position in
what it got, so that its proof (`Totals`) is about the cardinality of a set that grows.

`ControlPlaneProofs`: `PoolReportsAgree` and `HealthChecksAgree`, for any servers,
tasks and transports. `ControlInv` follows one request: which pool call its server is
at (`Asking`), that a total taken by `len` is the vector's length unless `shifted`
(`LenCurrent`), and, while it walks over the Arcs twice, first counting, then
listing (`Walking`), that what it has listed and the healthy entries by which the
count is ahead (`Due`) are together at most the count, and exactly the count
unless `shut`. Health flags only fall, so a close can only shrink `Due`.

`ImportProofs`: `StartTypeCorrect`, `UsableServed`, `ShareDropsNone`,
`WrittenAreStarted`, `WrittenAreServed` and the action property `NoEntryLost`, i.e.
every property of the `startup` run, for any files, commands, servers and numbers
of imports. `ImportInv` says: files that parse are lists of tables (`Types`); a
command's loop is within its ports or countries and has not fetched more than the
shares add up to (`Working`, `Shared`); the `ssh` commands of
the ports done with `--start` have exited 0 (`Started`); each entry `build_transports` is done with has its transport if it
is usable (`Loop`); a file that still parses holds what imports wrote to it, in a form
that can be built (`Kept`), and the configuration is what that file held (`Loaded`).
`WrittenAreServed` assumes that the build has the feature `socks5`, which is a
default one; without it the entries are skipped. The assumptions on `FileEntries` and
`OldFiles` say what a TOML file that parses contains: `circuits` is an optional
number, the strategy one of the enum.

Only model-checked: the six liveness properties (`SessionEnds`, `RelayEnds`,
`TaskEnds`, `StartEnds`, `RequestAnswered`, `CallEnds`), which need fairness and
`ENABLED`. Every invariant and action property of a passing run is proved as well.
`JitterAtLeastMin`, `TablesKept` and the types of `AntiCorr`, `DockerStart`,
`RouteManager`, `BufferedRelay`, `Startup` and `Payment` are only proved: no run repeats
them. `TypeOK` of `ControlPlane` can be added to the `INVARIANTS` of its run, which
then still passes.

## 6. Divergences between code and documentation

With a run each (see `findings` in `PROJECT.json`): `relay_flush_loss`,
`proxy_early_data`, `route_dedicated`.

Visible in the models, with no run of their own:
* `src/main.rs:496`: the default of `-s` overwrites the strategy of the file,
  which never takes effect; the compose file starts the proxy with `-c` only,
  while `README.md:554` says that the container round-robins.
* `src/transport/wireguard.rs:49`: WireGuard transports start unhealthy and
  nothing calls `provision`, so they are never picked (`README.md:495`: "Working").
* `src/main.rs:151`: entries of a file without a label share an id
  (`src/transport/mod.rs:33`: "Unique identifier for this tunnel instance").
* `src/docker.rs:421`: "All VPN containers are healthy" is printed also after a
  partial start and with `--no-wait`; the proxy is restarted with the unchanged
  tunnel list, the failed VPNs included (`src/docker.rs:612`).
* `src/docker.rs:614`: the result of `docker restart` is dropped. When it fails the
  banner still says that the stack is ready, while the proxy runs on the list of an
  earlier start or not at all.
* `src/docker.rs:173`: the tenth VPN's address is the proxy's.
* `src/docker.rs:400`: `compose up` leaves the containers of an earlier, larger
  start running, and `stop` takes down what the compose file on disk names.
* `src/mcp/mod.rs:264`: `pool_add` ("Add a tunnel to the pool at runtime", line 49)
  answers "request queued" and adds nothing, as its own comment says.
* `src/import/nord.rs:274`: the tables lack `interface`, without which
  `src/main.rs` skips a wireguard entry: imported Nord tunnels are never built.
* `src/import/nord.rs:106`: KR has the id of JP.
* `src/import/ssh.rs:76`: without `ExitOnForwardFailure` an `ssh` that could not
  bind its port exits 0, and line 62 reports the tunnel as started.
* `src/main.rs:103`: imports go to `tunnels.toml`, which is not read when
  `houdinny.toml` exists.
* `src/transport/http_proxy.rs:183`: only 200 is accepted, while the comment at line
  176 expects any 2xx; the limit of line 164 admits one byte more than 8 KiB.
* `src/anticorr/mod.rs:138`: with `min_ms > max_ms` the comment says
  `max_ms..=max_ms`; the code waits exactly `min_ms`.
* `src/payment/mod.rs:80`: `max_retries` is not used.

## 7. Running

`tlc -config <run>.cfg <module>` with the module `PROJECT.json` names for the run
(an `MC...` module, or the specification itself);
`tlapm <module>Proofs.tla`. The longest run takes about a minute.

## 8. Not modelled, and the plan

Done: (1) Pool and Dispatch, (2) relays, (3) proxy connection with the http-proxy
handshake, (4) route manager, startup, docker, (5) MCP server and admin API,
imports, padding and payment, (6) the proofs of section 5.

Next, proofs: nothing a run checks is left but liveness. Worth stating beyond the
runs: type correctness of `ControlPlane`; that `BufferedRelay` with a server that
never fails implements `Pipe` in each direction; and that a task in the lock's
queue is never overtaken, which is the safety half of `CallEnds`.

Left out, and why:
* `load_dotenv`, `resolve_env_vars`, the listen override: what they yield is an
  input of `Startup`; they keep no state and meet no other component.
* The text of generated files, messages, JSON and `ip` commands, the table of
  country names in `src/docker.rs`, the request-line grammar: conversions without
  a property of their own here; what they decide is a choice of the models.
* `NoopRouteManager` keeps nothing and `create_route_manager` chooses by platform.
* The socks5, WireGuard and Tor `connect`s: libraries or a bind to an interface,
  one step that succeeds or fails.
* TLS and the operating system's sockets beyond EOF, reset and partial writes.
* `src/error.rs`, `src/lib.rs`: declarations.
