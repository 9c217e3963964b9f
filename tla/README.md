# Verification of migration-transport-hacks

The repository is a collection of ways to carry a QEMU live migration over
something else than a plain TCP connection. This directory holds TLA+ models of
its programs, the TLC runs that check them on small instances, and proofs that
TLAPS checks for every value of the constants.

    tlc -config ForwardData.cfg ForwardData.tla     # a run: section 4 lists them
    tlapm ForwardDataProofs.tla                     # the proofs of a module

## 1. Inventory

### migrate-proxy: the TCP proxy pair (the core)

One process on each host. The source QEMU connects to the unix socket of
`tcp-migration-client.py`; for each such connection the client opens a TCP
connection to `tcp-migration-server.py`, which connects to the unix socket on
which the destination QEMU listens. Both are single-threaded asyncio programs
and contain the same `CircularQueue` and `forward_data`.

| part | state | operations | correct when |
| --- | --- | --- | --- |
| `CircularQueue` | deque with a maxlen, closed flag, condition | put, get, close | nothing dropped, no wakeup lost, flushed before closed is reported |
| `forward_data` | a queue, read_task, write_task | start, read, write, end, cancellation | a lossless FIFO from reader to writer that returns when its reader ends or it is cancelled |
| `handle_new_qemu_connection` (client) | two streams, two tasks | open TCP, forward both ways, clean up | both connections closed at the end, neither used after its close |
| `handle_client` (server) | two streams, two tasks | connect with retries, forward both ways, clean up | the same |
| `connect_and_forward`, `start`, `main` | listening socket, socket path, histogram | listen, serve, unlink, report | the path is its own |
| `unix-send-tcp.py`, `unix-receive-tcp.py` | a QMP session | migrate / migrate-incoming, poll query-migrate | ends when the migration does |

Hard: one direction ends while the other is between a read and a write; a
queue that drops its oldest element when it is full; a connection reset found
out in a clean-up clause; retries that race the destination's start;
no backpressure.

### migrate-websocket: the same over WebSockets with mutual TLS

`websocket-migration-client.py` keeps `active_connections` and cleans an entry
up from two places, across awaits. `websocket-migration-server.py` retries like
the TCP server and closes the unix connection on its normal path only. There is
no queue: each direction reads, sends and awaits. Correct when every
connection that was accepted is closed again, whichever side ends and however,
and when Ctrl-C ends the program with nothing left behind.

### migrate-tls: TLS in the kernel and a hand-over of the socket

`tls_client.c` and `tls_server.c` do a handshake, ask for kernel TLS and pass
the descriptor over a unix socket to `qemu-send.py` / `qemu-rec.py`, which give
it to QEMU and start the migration on it. Several processes hold a copy at the
same time. Correct when nobody ends the connection while another still holds it,
nothing leaves the programs before the handshake is done, and every process but
QEMU lets go of it.

### proxy-perf: benchmarks

`tcp/send.py` relays a unix socket (or generated data) into a TLS connection,
`tcp/receive.py` relays it into a unix socket (or counts it), with threads;
`unix-sender.py` and `unix-receiver.py` are the ends. `websocket/` does the
same without relay. Correct when the byte counts are those of the data and a
signal ends the programs.

### reuse-port, bpf_redirect, reuse-addr: moving a port between servers

A BPF program selects, among sockets that share a port, the one whose index a
pinned map names; a sockmap program redirects data from one port's connection
to the other's; two scripts hand a port over by closing and rebinding it.
Correct when a connection reaches the server that is meant to have it, also
while the map, the program and the sockets change.

Every part is listed in PROJECT.json under `components`, with what is modelled
of it, and every hazard found, at its line, under `hazards`.

## 2. Modules

| module | models | lines of code |
| --- | --- | --- |
| `ForwardFifo` | what one direction, or a whole tunnel, promises: an abstract lossless FIFO | none: a specification |
| `ForwardData` | one call of `forward_data` with its queue, on the event loop | server 12-35, 118-177; client the same |
| `Tunnel` | one connection end to end: both proxies' handlers, sockets, transports, QEMUs | client 35-178, server 46-157 |
| `WsClient` | connections, `active_connections` and Ctrl-C of the WebSocket client | websocket client 11-183 |
| `WsTunnel` | one connection through both WebSocket proxies, with the server's handler | websocket server 11-220, client 106-183 |
| `FdHandover` | TLS programs, scripts and the descriptor on both hosts | `tls_client.c`, `tls_server.c`, `qemu-send.py`, `qemu-rec.py` |
| `PerfRelay` | the benchmark's relay chain of four programs, with several senders | `proxy-perf/tcp/*.py`, hybrid mode |
| `ReusePort` | servers on one port, the selector, the pinned names | `reuse-port/` |
| `QmpSession` | the migration scripts of both hosts and the two QEMUs' status | `migrate-proxy/unix-*.py`, `migrate-websocket/unix-*.py` |

`XProofs` holds the proofs about `X`, for every module but `ForwardFifo`. `ForwardFifo` is what `ForwardData`, `Tunnel` and `WsTunnel`
implement, each with a refinement mapping of its own. `Tunnel` stands on what
`ForwardData` shows of one direction; `WsTunnel` leaves the client's clean-up to
`WsClient`; `QmpSession` uses a proxy pair as one thing that tries, joins and ends.

`PROJECT.json` maps each definition to its lines. Definitions marked external
there stand for asyncio, the kernel, the websockets library and QEMU, as the
code uses them. Definitions whose comment begins "Mutant:" are wrong versions
of the definition after them; nothing refers to them. They record which
mistake each property would catch.

### ForwardData

asyncio runs handles from a FIFO, `ready`; `Runs(h)` says that h is the oldest.
`forward_data` itself, `read_task` and `write_task` are the handles `fwd`,
`read` and `write`. An action is what one handle does from its resumption to
the next await that suspends it: `ReadTask` reads everything the StreamReader
holds, puts it and either waits or reaches the end; `WriteTask` gets and writes
until the queue is empty, because `writer.drain()` is commented out and nothing
else in its loop suspends. The lock of the condition is free whenever a handle
starts to run, so `async with` never suspends, and `Woken`/`Wakeup` put a
suspended task at the end of `ready` once. Outside the tasks, the transport
feeds data (`FeedData`, paused while the buffer is full), end-of-stream or an
exception (`ReadFails`: what the buffer holds is lost, but for the chunk of a read
that was already woken), and the handler cancels (`Cancel`, which reaches both children
through `gather`). A chunk is a number: the stream is 1, 2, 3, ...

### Tunnel

    source QEMU  S -- cu [client C] ct -- st [server H] su -- D  destination QEMU

For each end: the kernel's receive buffer `inbox`, "the peer will send no more"
`fin`, "reset" `rst`. For each end of a proxy also the asyncio transport `tr`,
what is in its StreamReader or its direction's queue `held`, end-of-stream
`eof`, the transport's write buffer `wbuf` (unbounded, as in the code), and the
direction `dir` that reads there. `handler` is where the two connection handlers
are; `attempt` counts the tries of `connect_to_unix_socket`.

What `forward_data` does inside was proved of `ForwardData`, so here it is three
things: `Forward` moves what is held to the other end's write buffer,
`DirectionEnds` is its return, `DirectionCancelled` its end by cancellation. The
end of a handler is cut where it waits: FIRST_COMPLETED and `task.cancel()`
(`CancelPending`); `await task`, until every direction is over, and the first
close of the finally clause (`CloseOutgoing`); each `wait_closed`, which returns
(`OutgoingClosed`, `AcceptedClosed`) or raises (`OutgoingRaises`). Between two of
these steps everybody else goes on, also the transports of a direction that is
being cancelled. `ServerGivesUp` is the end of `connect_to_unix_socket` without a
connection: all attempts used up, or an error other than the two it tries again on.

Closing a socket that holds unread data resets the connection; sending to a
socket that is gone comes back as a reset; a reset transport is lost with an
exception, which both its StreamReader and its `wait_closed` raise. A proxy
never passes a reset on: it closes its other connection in an orderly way.

### WsClient

`handler[c]` is `handle_qemu_connection`, `main` is `start_unix_server`, both
call `cleanup_connection`. Between its test for the entry and its deletion
there are two awaits, so it is three steps: the test (`EnterCleanup`, or
`NextKey` in the loop), `unix_writer.close()` once the WebSocket is closed, and
the end (`HandlerForgets`, `MainForgets`, `MainRaises`). `Raises` says when the
last one fails: `wait_closed` of a connection that was reset, or an entry
already deleted. Everything between two awaits is one step: Ctrl-C with no
entry goes from `serve_forever` to the unlinked path at once. A direction that
waits in `websocket.send` or in `drain` (`busy`: `Blocks`, `GoesOn`) does not notice
the end of the side that it reads. When the main
coroutine is over, `asyncio.run` cancels what is left (`CancelRest`); a handler
that is pending does nothing but receive the cancellation.

### WsTunnel

    source QEMU  - in -  [client held]  - net -  [server]  - out -  destination QEMU

The WebSocket proxies have no queue of their own: a direction reads, sends and
awaits. So a chunk is in one of five places: the client's StreamReader `in`, the
client's local variable `held`, the WebSocket `net` (the client's send buffer,
the network and the library's receive queue together), the server's transport
`out`, and `got` at the destination. `ClientSends` waits for room in `net`,
`ForwardsMessage` for `drain` (`BelowLimit`).

`ClientEnds` and `HandlerEnds` are FIRST_COMPLETED with the cancellation of the
other direction; the direction to the source is present only in how it can end:
with its QEMU, which may close or only shut down its sending side, or with a reply
that finds the WebSocket closed.
`ClientEnds` closes the WebSocket: the Close frame travels behind the messages
(`WsCloses`), or `close_timeout` passes first (`CloseTimesOut`).
`UnixConnects`/`Retries`/`GivesUp` are the loop of `create_unix_connection`, which
does not look at the WebSocket; `HandlerOver` is the end of `handle_client`, by
whichever way. A handler that is cancelled by the stopping program skips its close
of `unix_writer`: the connection stays until the process is gone (`ServerExits`).
When `websockets.connect` fails (`ConnectFails`) the source stays connected to
nobody. `causes` records each step that loses a part of the stream.

### FdHandover

`copies[h]` is the set of those who hold the connection at host h: the TLS
program, the message on the unix socket, the script, QEMU's monitor, QEMU by name,
QEMU's migration. The kernel closes the connection when the set is empty; only the
client's `TcpClose` calls shutdown, which is felt by all. Every way through the client's
`main` ends there, and what shutdown meets is decided there, by who still holds a copy.
`program` follows `main` of the
two C programs, `script` follows `receive_fd`, `main` and `migrate_fd_scm` of the
two Python ones; each action is one call between two points where the process
waits for another, with the branch for its failure. `link` is the unix connection
between the two, waiting in the script's queue or accepted, and its end is the answer
for which `prepare_and_send_fd` waits. `left` counts the connections of programs that
ended before the script came to accept them: it accepts those first. A program may also
connect while the script is busy with another connection; the close of the listening
socket (`NoMoreLinks`) ends it.
The connection, the handshake and what QEMU does with a descriptor are external.

### PerfRelay

Three pipes for each relay r ("unix", "tls", "out") and what `send.py` and the
thread of `receive.py` hold between reading and sending. `Delivers` is the
sendall that may fail and whose failure is taken for "no data yet". Time limits
are checked between two turns of a loop, so `SenderEnds`, `RelayEnds` and
`ReceiverEnds` may come at any turn, for a sender also before its first chunk. `ServerOver` is the end of `receive.py`, by
Ctrl-C or by a handshake that raises out of the accept loop: its threads are
daemons. `unix-receiver.py` takes one connection of `links`, ever.

### ReusePort

`Listens`, `GetPinnedProg`, `Attach` and `UpdateMap` are `create_tcp_server` cut where
another process can see the difference. A program is known by the map it was loaded
with; `pinned` are the two names under /sys/fs/bpf and `slot` the maps. The kernel's
group of sockets has one program, `attached`, whoever attached it last.
`Arrives` asks that program (`HotStandbySelector`), or takes any socket without one.
A server's `key` is whatever number it was started with: `Arguments` has some in the
map and some beyond it, and the selector looks only at `Parities`, 0 and 1.
`cause` records the first reason why a server that serves may not be reached. `unload.sh` is
two calls of `rm`, which remove what has the name at that moment; `load.sh` may come between.

### QmpSession

`script[h]` counts the commands that a script has behind it; `Refused` is the error
that QEMU answers, after which `execute` raises and the script ends. `settings` are
those of QEMU, which outlive the script. `tunnel` is the pair of proxies with the
retries of the server. A connection that the proxies lose ends in one of two ways (`Lost`):
the source sees it end and its migration fails, or (`Abandons`, findings 1 and 2) nobody closes the
source's connection and its QEMU stays active. `LateConnection` is the server proxy that reaches a
destination after the source has gone. `Polls` is the turn of the monitoring loop that ends it. What
QEMU does (a status that goes on, fails, is cancelled; a process that quits) is external.

## 3. Properties

The hazards in PROJECT.json name the properties that cover them. In words:

- `ForwardData`: `Lossless` (read = written + queued + buffered, in order: the
  drop-oldest queue never drops), `BacklogBounded`, `NoIdleWork` (no task waits
  while it has something to do), `FlushedOnReturn`, `EofReturns`,
  `CancelReturns`, `ImplementsFifo` (refines `ForwardFifo`).
- `Tunnel`: `PrefixDelivered`, `TruncationHasCause` (an orderly end-of-stream
  after part of the stream has one of three causes), `CancelBeforeClose` (no connection is
  closed under a direction that still uses it, one on its way out included),
  `HandlerCleansUp`, `CloseEndsTunnel` (and the other QEMU learns of it),
  `ClosedStreamArrives`, `TunnelIsFifo` (an orderly migration refines `ForwardFifo` end to end).
- `WsClient`: `ClosedBeforeForgotten`, `StaleEntriesHaveCause`,
  `FailuresHaveCause` (of two overlapping clean-ups of one connection each fails only
  for a reason of its own or because the other has done all of it), `EndReachesHandler`, `CtrlCStops`; `HandlerReleases` and
  `StopCleansUp` (do not hold).
- `WsTunnel`: `ImplementsFifo` (under every fault the destination has a prefix, and
  an end-of-stream without one of the recorded causes means all of it),
  `EndReachesAll` (whichever side goes first, both handlers end and the destination's
  connection with them, although the code closes it on the normal path only).
- `FdHandover`: `ShutsNothingShared` (`tls_client` ends with a `tcp_close` of a
  descriptor it has given away), `HandshakeFirst`, `EverybodyLetsGo`.
- `PerfRelay`: `PrefixReceived` (no gap, although a failed send is ignored),
  `ReportsAgree` (the byte counts that the programs print), `EndReachesThread`.
- `ReusePort`: `MisroutedIsEarly`, `UnreachableHasCause` (a server that serves gets the
  connections of its parity or has one of three causes; one that could not enter the map,
  or has another index, never gets any).
- `QmpSession`: `SettingsAgree`, `ScriptsEnd` (the source's script ends unless its
  migration was abandoned, and then after `migrate_cancel`; the destination's ends once
  the QEMUs have been connected).

## 4. Runs

| run | configuration | shows |
| --- | --- | --- |
| forward_data | queue of 3, StreamReader of 2, 6 chunks | one direction is lossless, bounded, flushed, and returns |
| tunnel_orderly | 3 chunks, 1 reply, 2 attempts, no fault | end to end lossless; both handlers clean up, also when the destination comes up late or never |
| tunnel_resets | 2 chunks, 1 reply, 1 attempt, StreamReader of 1, resets, early closes and a destination that half-closes | what arrives is a prefix; directions end before their connections are closed; truncation has a cause; a close takes everything down and the other QEMU learns of it |
| tunnel_leaks | Python 3.11's loop, no fault at all | *violation*, finding 1 |
| ws_client | 2 connections, all failures, blocked directions, Ctrl-C | overlapping clean-ups forget nothing that is open and fail only for cause; everything ends |
| ws_client_leaks | 1 connection that cannot connect | *violation*, finding 2 |
| ws_client_stop | 2 connections | *violation*, finding 3 |
| ws_tunnel | 4 chunks, 2 messages in the WebSocket, drain above 1, 2 attempts | a FIFO under every fault, and all of it comes down |
| fd_handover | 5 starts of programs and scripts, interrupts | who holds, shuts down and lets go of the connection |
| perf_relay | 2 relays, 2 chunks, pipes of 1, handshakes that fail | no gap, reports that agree, no thread left |
| reuse_port | 2 servers started and started again with 0, 1, 2 or 3, a map of 3 entries, 2 connections and those after them, 3 loads; symmetry of servers and connections | where connections go while everything changes |
| qmp_session | 1 channel, 2 attempts, 3 runs of each script | settings agree, monitoring ends |

Bounds, and why they are enough to meet the interesting cases:

- `ForwardData`: the StreamReader can fill twice and more (6 > 2 * 2), the
  queue holds more than one StreamReader-full but not two (2 <= 3 < 4), so a wrong
  order of the tasks overflows it. In the code these are 1000 queue slots and
  at most 48 reads of 8192 bytes (asyncio pauses a transport above twice the limit
  of 64 KiB, and one recv adds at most 256 KiB): the same relation, and the
  proofs need no more than it.
- `Tunnel`: a kernel buffer of one chunk makes every hop block and pass on
  chunk by chunk; a StreamReader of two lets end-of-stream arrive behind data
  that is still held. With three chunks data can be in several hops at once; the run
  with faults makes do with two, which still fill a hop, and with a StreamReader of one,
  which keeps the run below four minutes: end-of-stream behind held data is met in
  tunnel_orderly and in `ForwardData`, and the proofs are for every size. One or two attempts
  instead of 30: only whether any are left matters.
- `WsClient`: two connections are what it takes for one to be left behind by
  the failure of the other, and for the stopping program's loop to have one behind it,
  one in hand or one in front while a handler cleans up; a third adds more of the same.
- `WsTunnel`: four chunks are as many as fit into `held`, `net` and one more, so that
  every buffer can be full at once behind a destination that does not read, and a cut can
  fall before, inside or behind what each of them holds. The proofs need no bound.
- `FdHandover`: the script's queue takes two connections, what `listen(1)` means on Linux.
  With five starts, a script on each host (2), the client (1), and
  one of each again after a failure, so that a stale path and a leftover connection meet a
  second attempt.
- `PerfRelay`: two relays make one thread wait behind a receiver that serves the other;
  two chunks through pipes of one leave a chunk in every hop when a limit strikes.
- `ReusePort`: two servers share the keys or have the same, and a process that has ended
  comes back under its name with any other key, so each can replace the other any number
  of times; what a server suffers (another program, another entry at its index, a group
  whose last socket goes) is always the work of one other, and the proofs are for any
  number. Two connections keep an accept loop busy while another waits in its queue, and
  an answered one comes again. Three loads make the two names, the attached program and
  the map of a server all differ. Of the indexes that the selector does not look at there
  is one in the map (2 of three entries) and one beyond it (3).
- `QmpSession`: three runs are a first one, one that meets what it left and one more.
  The channels are 1 in the tcp scripts (which print "2 channels" while they set 1) and 2
  in the websocket ones; a pair taken from different directories would not agree, and no
  run mixes them.

CHECK_DEADLOCK is off because a connection ends, or everybody may be gone; that nothing stops too early is what the liveness
properties say.

Fairness: weak fairness of the programs' own steps (the event loop runs what is
ready, transports make progress while the kernel lets them, a timeout ends what
waits), and in `Tunnel` of a QEMU reading its open socket. Nothing is assumed of
when QEMUs connect, send or close, of the network's failures, or of Ctrl-C. In
`Tunnel` and `WsClient` one fairness condition covers all steps of the programs;
each step uses up something finite (a chunk, an attempt, a state of a connection),
so a step that stays enabled is not postponed for ever by the others.
`GoesOn` of `WsClient` has a fairness condition of its own for each connection: the server
proxy and QEMU go on taking what is sent to them while they are connected. Without it
nothing could be said of a direction that is blocked: the code has no timeout there but
the WebSocket's keepalive.
An `asyncio` loop gives each ready handle its turn, which is what
`ForwardData`'s FIFO says explicitly. In the other modules:

- `WsTunnel`: each program runs and, once stopped, ends, a Close frame arrives or times out,
  and the destination reads its open socket. Nothing of the source, of faults, or of when the destination listens.
- `FdHandover`: each process goes on until it waits for another, a handshake ends or
  times out, QEMU answers its monitor. Nothing of the operator, or of QEMU's own closing.
- `PerfRelay`: each process runs, and its time limits pass, which the code checks in
  every turn of its loops. Nothing of starts, Ctrl-C and signals.
- `QmpSession`: the scripts and the proxies run, and QEMU gets on with a migration that
  is connected. Nothing of when scripts are started or of what fails.
- `ReusePort` has safety properties only and states no fairness.

## 5. Proofs

`ForwardDataProofs`, assuming only `SizesAssumption` (natural numbers) and
`FillAssumption` (a full StreamReader fits into the queue):

- `TypeCorrect`, `NeverDrops` (`Lossless`), `BacklogIsBounded`, `NoLostWakeup`
  (`NoIdleWork`), `ReturnsFlushed`, and `Refinement`: `Spec => ImplementsFifo`.
- The inductive invariant is `IInv`. `Lossless` is not inductive by itself: a
  `put` into a full queue would break it. That no `put` meets a full queue
  rests on the order of the handles: `ReadySets` lists which handles can be
  ready in which order, and `WriterFirst` says that when `read_task` is next,
  what it put before has been written, so the queue is empty and one
  StreamReader-full fits. `Ends` ties the closed queue to the two tasks' ends,
  `Bounds` bounds buffer and queue. If `drain` were awaited `WriterFirst` would
  fail: the reader could run between two writes.
- Each action preserves each conjunct by a lemma of its own; the refinement
  maps `FeedData` to `Accept`, `WriteTask` to `Deliver`, `Return` to `Finish` or
  `GiveUp`, and every other step to a stutter.

`TunnelProofs`, assuming `TunnelAssumption`:

- `TypeCorrect`; `CancelsFirst` (`CancelBeforeClose`), by `HandlerInv`: a direction that
  has not ended finds its handler in "forwarding" or "cancelling" (`AliveInHandler`), and as
  long as the handler is there nothing has closed its connections (`OpenTillClose`). A
  cancelled direction may still be on its way out while the handler waits, which is why
  the close comes after the wait. `HandlerOrder`: the server's handler is idle until the
  client's has connected, so nothing of it can run already when its connections appear.
- `CleansUp` (`HandlerCleansUp`) under `LoopClosesOnError`, by `CleanupProgress`,
  which says what is closed in each state of a handler. Without the assumption
  it is false: run tunnel_leaks.
- `Delivers` (`PrefixDelivered`), in both directions and under every fault. A chunk
  passes eight `Places`: the receiver's data, its kernel buffer, and at each of the two
  proxies a write buffer, what is held, and the kernel buffer it is read from. A place is
  `Intact` while nothing can have been lost there; the chunks of the intact places
  nearest the receiver follow each other without a gap (`Chain`, `Way`). Nearest
  matters: behind a hop that has lost a chunk the invariant lets anything be, and says
  only that it goes nowhere. A step leaves the places alone, takes a chunk or a
  bufferful one place further, adds a chunk at the far end, or loses what a place holds,
  which then is intact no more. Three lemmas about `Chain` (`ChainKeeps`, `ChainMoves`,
  `ChainGrows`) do for all actions and both directions. `Linked` says which connections
  and directions exist in each state of the handlers.
- `TruncatesForCause` (`TruncationHasCause`), an action property, by the invariant
  `Steady`. `Total(a)` counts what a has received and what is on its way to it; `Within`
  keeps it below what was sent, and each action has a lemma `...Loses` that names the
  one condition under which it loses nothing. `Undisturbed` says that none of the three
  causes has occurred; it is left once and for all (`UndisturbedBefore`), and while it
  lasts the tunnel is `Sound`: no reset, nothing lost, and the connections close one
  after the other, from the source to the destination. It speaks of replies that are
  lost (`Lossless("S")`), not of replies unread as the property does, since those on
  their way are no cause yet. A destination that reads end-of-stream while `Sound`
  holds finds every place in front of it empty (`EndIsComplete`).
- `Refinement` (`TunnelIsFifo`), under the hypotheses of an orderly run: no network
  failure, no early close, nobody half-closes (tunnel_orderly is an instance).
  `Ordered` adds `Calm` to `Steady`: until the destination closes, no reply is lost,
  because the source closes only with all of them and nothing closes before the source.
  That makes `Undisturbed` a consequence instead of a hypothesis. With `Delivers`, each
  step maps to `Accept`, `Deliver`, `Finish` or a stutter; `GiveUp` never happens.

`WsClientProofs`, for any set of connections:

- `TypeCorrect` (with it: what the stopping loop has still to come to always has
  its entry) and `ForgetsOnlyClosed` (`ClosedBeforeForgotten`). The inductive
  invariant adds `Opened`, when a WebSocket exists, and `CleanupOrder`: both
  callers reach the last step of `cleanup_connection` only with the WebSocket
  closed, so the two awaits before the deletion protect it however the calls overlap.
- `StaleForCause` (`StaleEntriesHaveCause`) and `FailsOnlyForCause`
  (`FailuresHaveCause`, an action property), by `ServingInv`. `OwnEntry`: until Ctrl-C a
  handler that has not ended still has its entry; `LoopEntry`: afterwards the connection
  that the loop has in hand has its entry unless its handler has ended. So
  whoever of the two finds the entry gone comes after the other's last step, in every
  order of their awaits, and the only other reason in `Raises` is the lost connection.

`WsTunnelProofs`, assuming `SizesAssumption`:

- `Refinement` (`Spec => ImplementsFifo`), `TypeCorrect`. The inductive invariant has four parts. `Places` says where the
  handlers, the WebSocket and the unix connection can be together. `InOrder` says of each
  hop that still passes data on that what it holds follows what is in front of it
  (`Run`); once a hop has lost a chunk it passes on nothing more, so a gap never
  reaches the destination. `Complete` says that as long as `causes` is empty the five
  places together hold all that was sent, and that only the source's end can have
  ended anything. `NoMoreThanSent` bounds what is on its way. Each part is preserved by
  every action (one lemma for each part); the refinement maps `SourceSends` to `Accept`,
  `DestinationReads` to `Deliver`, `DestinationSeesEnd` to `Finish` or `GiveUp`, and
  `OtherSteps` shows the rest to be stutters: an end once reached stays as it is.

`PerfRelayProofs`, for any set of relays, assuming `RelayAssumption` (`Chunks` may be 0: a
sender looks at the clock before its first chunk):

- `TypeCorrect`, `NoGap` (`PrefixReceived`), `SameReports` (`ReportsAgree`). The
  inductive invariant `IInv` follows each relay along its chain. `InOrder` says that
  what a pipe or a program holds follows what is in front of it, counted from what the
  receiver has of this relay (`Base`). It is claimed only as far as the programs in
  front still run, since a program that is over passes nothing on; that a failed
  sendall does no harm rests on it. `Counted` orders the counters, `Uncut` makes them
  differ by exactly what is on its way as long as nothing has cut the data off, and
  `Places` puts each relay at most once into the queue of the accept loop.

`FdHandoverProofs`, assuming `StartsAssumption`:

- `TypeCorrect`, `NothingShared`, `OnlyAfterHandshake`. `CopiesFollow` ties each holder
  to the state of the process that holds (the client's own copy goes when it is over,
  only what came from the program is further on). `ClosesAlone`: a client that comes to its
  `tcp_close` with its descriptor still open has not handed it over, so it is the only
  holder, and a connection that was shut down belongs to a client that is over, which
  hands over nothing more.

`ReusePortProofs`, for any sets of servers and connections:

- `MisroutesOnlyEarly`, `ReachableOrCause`, `TypeCorrect`. `NothingStale`: a connection
  is at a living server, and an entry of a map is a serving server at its own index,
  because the end of a process takes both away. `ProgramStays`: while a server that has
  attached a program lives, there is one. `ReachableOrCause` says both halves of
  `UnreachableHasCause`: what a server gets that is in the map, and that one that is not, or
  is at an index of no parity, is in the way of no program, now or after any later load.

`QmpSessionProofs`:

- `Agree` (`SettingsAgree`), from `ScriptConfigures` (what a script has behind it stays
  in QEMU), `MigratesConfigured` (a QEMU that knows of a migration was configured) and
  `TunnelConfigured`.

Every invariant, every action property and every refinement that a passing run checks is
also proved. Only model-checked are the liveness properties (`EofReturns`,
`CancelReturns`, `CloseEndsTunnel`, `ClosedStreamArrives`, `EndReachesHandler`,
`CtrlCStops`, `EndReachesAll`, `EverybodyLetsGo`, `EndReachesThread`, `ScriptsEnd`):
liveness under fairness is out of the prover's reach.

## 6. Findings

1. *Leak after a reset* (`tunnel_leaks`). The finally clauses await `wait_closed`
   of the first connection before they close the second. It raises after a reset,
   and up to Python 3.11 nothing else closes the second. It takes no network
   fault: the server that gives up on the destination closes a socket with
   unread migration data. The source QEMU then stays connected to a client in which
   nobody reads (the StreamReader takes some more and pauses), and its migration stays
   active: `unix-send-tcp.py` asks for ever (`Abandons` in `QmpSession`). Python 3.12 closes the accepted transport of a
   handler that raised; `LoopClosesOnError` is that difference, and the
   repository pins no version.
2. *Leak after a failed connect* (`ws_client_leaks`). The WebSocket client's
   clean-up knows a connection only once its WebSocket is open: if that fails the
   source QEMU's connection stays open, with the same effect on its script.
3. *Stop that stops half way* (`ws_client_stop`). After one reset connection,
   Ctrl-C raises out of the finally clause: connections and socket path are left.

Behaviour to know of, which no document of the repository excludes: the TCP
handlers take the end of either direction for the end of the connection, so a
destination that only shuts down its sending side gets an orderly end-of-stream
in the middle of the stream (a cause in `TruncationHasCause`). In the WebSocket pair a reply that cannot be delivered any more
ends the server's handler, and messages that were still queued are dropped (cause
"reply" of `WsTunnel`). A failed TLS handshake ends `receive.py`, and
`unix-receiver.py` does not stop on a signal while it waits in accept.

A reset of the network reaches the destination as an orderly close (allowed by
`TruncationHasCause`): the proxies have no way to say "failed". Whoever runs a
migration through them must take the outcome from QEMU's own stream format.

`tcp-server.c` goes on when it could not enter its socket into the map, "as the server can
still function" (its line 154). The selector is attached by then and drops what it cannot
give to a socket of the map, so such a server gets nothing as long as any program is
attached: the second half of `UnreachableHasCause`.

## 7. Not modelled, and the plan

`WsClient` follows Python 3.11, where leaving `async with unix_server` does not
wait for the connections; from 3.12 on it does, and the main program's loop
then meets fewer of them. A second Ctrl-C, histograms, logging, TLS set-up
beyond "it fails", and the contents of the stream are left out everywhere.
`Tunnel` is one connection; several at once share nothing but the destination's
listening socket.

What has no model, and why:

- `bpf_redirect/`: two short kernel programs; what they do is the kernel's sockmap,
  and the repository says nothing of it that a model could be held against.
- `reuse-addr/`: four straight-line scripts coordinated by a sleep.
- `proxy-perf/websocket/`: a timed send loop and a counting receive loop, without state that
  anything else depends on; the direct modes of `proxy-perf/tcp/` likewise.
- Certificates, the bpftrace script, build and load scripts: sequential, or measurement.
- Within what is modelled: whether kernel TLS is on (the programs print it and go on),
  several connections of one migration at once (QEMU tells its channels apart itself),
  a second client proxy on the same socket path, stopping the TCP proxies.

What could come next: why the replies arrive (`PrefixDelivered` says only which),
the causes under which a handler of `Tunnel` leaves a connection open on Python 3.11, and
one abstract specification of clean-up that `Tunnel`, `WsClient` and `WsTunnel` implement.
