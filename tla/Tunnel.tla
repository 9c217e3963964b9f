------------------------------- MODULE Tunnel -------------------------------
(***************************************************************************)
(* One migration connection of migrate-proxy, end to end:                  *)
(*                                                                         *)
(*   source QEMU -- S |cu  client proxy  ct| -- |st  server proxy  su| D -- destination QEMU *)
(*                                                                         *)
(* S--cu and su--D are unix sockets, ct--st is TCP.  The client proxy runs *)
(* handle_new_qemu_connection, the server proxy handle_client; each runs   *)
(* one forward_data per direction.  What forward_data does inside is       *)
(* ForwardData, proved there to be a FIFO that hands over everything it    *)
(* read unless it is cancelled or its reader fails; here it is the three   *)
(* actions Forward, DirectionEnds and DirectionCancelled.                  *)
(***************************************************************************)
EXTENDS Naturals, Sequences

CONSTANTS
  Chunks,      \* chunks the source sends at most
  Replies,     \* chunks the destination sends at most (return path)
  SockCap,     \* chunks a kernel socket buffer holds
  FillChunks,  \* chunks a StreamReader holds before its transport pauses
  MaxRetries,  \* attempts of connect_to_unix_socket: 30
  NetworkFails,  \* the TCP connection may be reset
  EarlyClose,    \* a QEMU may close whenever it likes
  HalfClosers,   \* the QEMUs that may shut down their sending side only
  LoopClosesOnError  \* asyncio closes the accepted transport of a handler
                     \* that raised: Python 3.12 and later do, 3.11 does not

ASSUME TunnelAssumption ==
  /\ Chunks \in Nat /\ Replies \in Nat
  /\ SockCap \in Nat \ {0} /\ FillChunks \in Nat \ {0}
  /\ MaxRetries \in Nat \ {0}
  /\ {NetworkFails, EarlyClose, LoopClosesOnError} \subseteq BOOLEAN
  /\ HalfClosers \subseteq {"S", "D"}

Apps == {"S", "D"}
ProxyEnds == {"cu", "ct", "st", "su"}
Ends == Apps \cup ProxyEnds
Proxies == {"C", "H"}

PeerOf == [S |-> "cu", cu |-> "S", ct |-> "st", st |-> "ct", su |-> "D", D |-> "su"]
Peer(e) == PeerOf[e]
AcrossOf == [cu |-> "ct", ct |-> "cu", st |-> "su", su |-> "st"]
Across(e) == AcrossOf[e]
EndsOf(p) == IF p = "C" THEN {"cu", "ct"} ELSE {"st", "su"}

\* The finally clauses close the outgoing connection first, then the
\* accepted one.
Outgoing(p) == IF p = "C" THEN "ct" ELSE "su"
Accepted(p) == IF p = "C" THEN "cu" ELSE "st"

VARIABLES
  app,      \* the sockets of the two QEMUs
  count,    \* chunks each QEMU has sent
  rcvd,     \* chunks each QEMU has received
  seen,     \* how the stream ended for it: "no", "eof" or "error"
  listener, \* the destination's socket path
  inbox,    \* received by an end's kernel socket and not read
  fin,      \* the peer will send nothing more
  rst,      \* the connection was reset
  broken,   \* the network failed
  tr,       \* the asyncio transports of the proxies
  held,     \* in the end's StreamReader or in its direction's queue
  eof,      \* end-of-stream fed to the StreamReader
  wbuf,     \* in the transport's write buffer
  dir,      \* forward_data from this end to the other end of its proxy
  handler,  \* the two connection handlers
  attempt   \* failed attempts of connect_to_unix_socket

qemuVars == <<app, count, rcvd, seen, listener>>
netVars == <<inbox, fin, rst, broken>>
loopVars == <<tr, held, eof, wbuf>>
taskVars == <<dir, handler, attempt>>
vars == <<qemuVars, netVars, loopVars, taskVars>>

Numbers(n) == [i \in 1 .. n |-> i]
Limit(a) == IF a = "S" THEN Chunks ELSE Replies
Stream == Seq(Nat)

TypeOK ==
  /\ app \in [Apps -> {"none", "open", "shut", "closed"}]
  /\ count \in [Apps -> Nat]
  /\ rcvd \in [Apps -> Stream]
  /\ seen \in [Apps -> {"no", "eof", "error"}]
  /\ listener \in {"absent", "stale", "listening"}
  /\ inbox \in [Ends -> Stream]
  /\ fin \in [Ends -> BOOLEAN]
  /\ rst \in [Ends -> BOOLEAN]
  /\ broken \in BOOLEAN
  /\ tr \in [ProxyEnds -> {"none", "open", "closing", "closed", "lost"}]
  /\ held \in [ProxyEnds -> Stream]
  /\ eof \in [ProxyEnds -> BOOLEAN]
  /\ wbuf \in [ProxyEnds -> Stream]
  /\ dir \in [ProxyEnds -> {"none", "running", "cancelling", "done", "cancelled"}]
  /\ handler \in [Proxies -> {"idle", "connecting", "forwarding", "cancelling",
                              "closingOut", "closingIn", "ended", "raised"}]
  /\ attempt \in 0 .. MaxRetries

Init ==
  /\ app = [a \in Apps |-> "none"]
  /\ count = [a \in Apps |-> 0]
  /\ rcvd = [a \in Apps |-> <<>>]
  /\ seen = [a \in Apps |-> "no"]
  /\ listener \in {"absent", "stale", "listening"}
  /\ inbox = [e \in Ends |-> <<>>]
  /\ fin = [e \in Ends |-> FALSE]
  /\ rst = [e \in Ends |-> FALSE]
  /\ broken = FALSE
  /\ tr = [e \in ProxyEnds |-> "none"]
  /\ held = [e \in ProxyEnds |-> <<>>]
  /\ eof = [e \in ProxyEnds |-> FALSE]
  /\ wbuf = [e \in ProxyEnds |-> <<>>]
  /\ dir = [e \in ProxyEnds |-> "none"]
  /\ handler = [p \in Proxies |-> "idle"]
  /\ attempt = 0
-----------------------------------------------------------------------------
(* Sockets.                                                                *)

Alive(e) == IF e \in Apps THEN app[e] \in {"open", "shut"}
                          ELSE tr[e] \in {"open", "closing"}

\* close(2): a socket closed with unread data resets the connection, any
\* other tells the peer that nothing more will come.
CloseSocket(e) ==
  /\ inbox' = [inbox EXCEPT ![e] = <<>>]
  /\ rst' = [rst EXCEPT ![Peer(e)] = @ \/ inbox[e] # <<>>]
  /\ fin' = [fin EXCEPT ![Peer(e)] = TRUE]
  /\ UNCHANGED broken

\* send(2) of chunk c from e: it reaches the peer's kernel, or comes back
\* as a reset when the peer's socket is gone.
Transmit(e, c) ==
  IF Alive(Peer(e))
  THEN /\ Len(inbox[Peer(e)]) < SockCap
       /\ inbox' = [inbox EXCEPT ![Peer(e)] = Append(@, c)]
       /\ UNCHANGED <<fin, rst, broken>>
  ELSE /\ rst' = [rst EXCEPT ![e] = TRUE]
       /\ UNCHANGED <<inbox, fin, broken>>

NetworkReset ==
  /\ NetworkFails /\ ~broken
  /\ Alive("ct") \/ Alive("st")
  /\ broken' = TRUE
  /\ rst' = [e \in Ends |-> rst[e] \/ e \in {"ct", "st"}]
  /\ UNCHANGED <<inbox, fin, qemuVars, loopVars, taskVars>>
-----------------------------------------------------------------------------
(* The two QEMUs.                                                          *)

\* The destination QEMU starts to listen; until then its path is absent, or
\* left over from an earlier process.
DestinationListens ==
  /\ listener # "listening"
  /\ listener' = "listening"
  /\ UNCHANGED <<app, count, rcvd, seen, netVars, loopVars, taskVars>>

\* The source QEMU connects to the client proxy's unix socket: the handler's
\* task starts.
SourceConnects ==
  /\ app["S"] = "none"
  /\ app' = [app EXCEPT !["S"] = "open"]
  /\ tr' = [tr EXCEPT !["cu"] = "open"]
  /\ handler' = [handler EXCEPT !["C"] = "connecting"]
  /\ UNCHANGED <<count, rcvd, seen, listener, netVars, held, eof, wbuf, dir,
                 attempt>>

Send(a) ==
  /\ app[a] = "open" /\ count[a] < Limit(a)
  /\ ~rst[a]
  /\ count' = [count EXCEPT ![a] = @ + 1]
  /\ Transmit(a, count[a] + 1)
  /\ UNCHANGED <<app, rcvd, seen, listener, loopVars, taskVars>>

Receive(a) ==
  /\ app[a] \in {"open", "shut"} /\ inbox[a] # <<>>
  /\ rcvd' = [rcvd EXCEPT ![a] = Append(@, Head(inbox[a]))]
  /\ inbox' = [inbox EXCEPT ![a] = Tail(@)]
  /\ UNCHANGED <<app, count, seen, listener, fin, rst, broken, loopVars,
                 taskVars>>

SeeEnd(a) ==
  /\ app[a] \in {"open", "shut"} /\ seen[a] = "no"
  /\ \/ rst[a] /\ seen' = [seen EXCEPT ![a] = "error"]
     \/ fin[a] /\ ~rst[a] /\ inbox[a] = <<>>
        /\ seen' = [seen EXCEPT ![a] = "eof"]
  /\ UNCHANGED <<app, count, rcvd, listener, netVars, loopVars, taskVars>>

\* An orderly QEMU closes when its stream has ended; the source also when it
\* has every reply.
MayClose(a) ==
  \/ EarlyClose
  \/ seen[a] # "no"
  \/ a = "S" /\ Len(rcvd["S"]) = Replies

Close(a) ==
  /\ app[a] \in {"open", "shut"}
  /\ MayClose(a)
  /\ app' = [app EXCEPT ![a] = "closed"]
  /\ CloseSocket(a)
  /\ UNCHANGED <<count, rcvd, seen, listener, loopVars, taskVars>>

ShutDown(a) ==
  /\ a \in HalfClosers
  /\ app[a] = "open"
  /\ app' = [app EXCEPT ![a] = "shut"]
  /\ fin' = [fin EXCEPT ![Peer(a)] = TRUE]
  /\ UNCHANGED <<count, rcvd, seen, listener, inbox, rst, broken, loopVars,
                 taskVars>>
-----------------------------------------------------------------------------
(* asyncio transports.                                                     *)

\* The transport is registered for reading: it is open, not at its end, and
\* not paused by a full StreamReader.
Reading(e) == tr[e] = "open" /\ ~eof[e] /\ Len(held[e]) < FillChunks

TransportReads(e) ==
  /\ Reading(e)
  /\ inbox[e] # <<>>
  /\ held' = [held EXCEPT ![e] = Append(@, Head(inbox[e]))]
  /\ inbox' = [inbox EXCEPT ![e] = Tail(@)]
  /\ UNCHANGED <<fin, rst, broken, tr, eof, wbuf, qemuVars, taskVars>>

TransportSeesEof(e) ==
  /\ Reading(e)
  /\ inbox[e] = <<>> /\ fin[e] /\ ~rst[e]
  /\ eof' = [eof EXCEPT ![e] = TRUE]
  /\ UNCHANGED <<netVars, tr, held, wbuf, qemuVars, taskVars>>

TransportWrites(e) ==
  /\ Alive(e) /\ ~rst[e]
  /\ wbuf[e] # <<>>
  /\ wbuf' = [wbuf EXCEPT ![e] = Tail(@)]
  /\ Transmit(e, Head(wbuf[e]))
  /\ UNCHANGED <<tr, held, eof, qemuVars, taskVars>>

\* A read or a write of a reset connection fails: the transport is lost with
\* that exception, for its StreamReader and for wait_closed.
TransportFails(e) ==
  /\ Alive(e) /\ rst[e]
  /\ Reading(e) \/ wbuf[e] # <<>>
  /\ tr' = [tr EXCEPT ![e] = "lost"]
  /\ wbuf' = [wbuf EXCEPT ![e] = <<>>]
  /\ CloseSocket(e)
  /\ UNCHANGED <<held, eof, qemuVars, taskVars>>

\* Mutant: the connection is aborted, not closed.
TransportAborts(e) ==
  /\ tr[e] = "closing"
  /\ tr' = [tr EXCEPT ![e] = "closed"]
  /\ wbuf' = [wbuf EXCEPT ![e] = <<>>]
  /\ CloseSocket(e)
  /\ UNCHANGED <<held, eof, qemuVars, taskVars>>

\* close() takes effect when the write buffer is flushed.
TransportCloses(e) ==
  /\ tr[e] = "closing"
  /\ wbuf[e] = <<>>
  /\ tr' = [tr EXCEPT ![e] = "closed"]
  /\ CloseSocket(e)
  /\ UNCHANGED <<held, eof, wbuf, qemuVars, taskVars>>

\* writer.close(): nothing happens to a transport that is already gone.
Closed(t, e) == IF t[e] = "open" THEN [t EXCEPT ![e] = "closing"] ELSE t
-----------------------------------------------------------------------------
(* forward_data from end e to the other end of the proxy.                  *)

\* Mutant: what was written stays queued.
ForwardAgain(e) ==
  /\ dir[e] = "running" /\ tr[e] # "lost"
  /\ held[e] # <<>>
  /\ wbuf' = IF tr[Across(e)] = "open"
             THEN [wbuf EXCEPT ![Across(e)] = @ \o held[e]]
             ELSE wbuf
  /\ UNCHANGED <<held, tr, eof, qemuVars, netVars, taskVars>>

\* read, put, get, write: the writer discards what it is given once its
\* connection is lost.
Forward(e) ==
  /\ dir[e] = "running" /\ tr[e] # "lost"
  /\ held[e] # <<>>
  /\ held' = [held EXCEPT ![e] = <<>>]
  /\ wbuf' = IF tr[Across(e)] = "open"
             THEN [wbuf EXCEPT ![Across(e)] = @ \o held[e]]
             ELSE wbuf
  /\ UNCHANGED <<tr, eof, qemuVars, netVars, taskVars>>

\* Mutant: end-of-stream ends forward_data before the queue is written.
DirectionEndsUnflushed(e) ==
  /\ dir[e] = "running"
  /\ tr[e] = "lost" \/ eof[e]
  /\ dir' = [dir EXCEPT ![e] = "done"]
  /\ held' = [held EXCEPT ![e] = <<>>]
  /\ UNCHANGED <<tr, eof, wbuf, handler, attempt, qemuVars, netVars>>

\* End-of-stream after the last chunk, or the connection's exception, which
\* reader.read raises before it returns what the StreamReader still holds.
\* (The chunk a read woken earlier still returns is a Forward before that.)
DirectionEnds(e) ==
  /\ dir[e] = "running"
  /\ tr[e] = "lost" \/ (eof[e] /\ held[e] = <<>>)
  /\ dir' = [dir EXCEPT ![e] = "done"]
  /\ held' = [held EXCEPT ![e] = <<>>]
  /\ UNCHANGED <<tr, eof, wbuf, handler, attempt, qemuVars, netVars>>
-----------------------------------------------------------------------------
(* The handlers.                                                           *)

StartForwarding(p) == [e \in ProxyEnds |-> IF e \in EndsOf(p) THEN "running"
                                                            ELSE dir[e]]

\* asyncio.open_connection to the server succeeds: both directions start
\* here, and the server's handler starts there.
ClientConnects ==
  /\ handler["C"] = "connecting"
  /\ tr' = [tr EXCEPT !["ct"] = "open", !["st"] = "open"]
  /\ dir' = StartForwarding("C")
  /\ handler' = [C |-> "forwarding", H |-> "connecting"]
  /\ UNCHANGED <<held, eof, wbuf, attempt, qemuVars, netVars>>

\* It fails: the handler logs the error; there is no tcp_writer to close.
ClientConnectFails ==
  /\ handler["C"] = "connecting"
  /\ tr' = Closed(tr, "cu")
  /\ handler' = [handler EXCEPT !["C"] = "closingIn"]
  /\ UNCHANGED <<held, eof, wbuf, dir, attempt, qemuVars, netVars>>

\* connect_to_unix_socket: the path exists and somebody listens.
ServerConnects ==
  /\ handler["H"] = "connecting" /\ attempt < MaxRetries
  /\ listener = "listening"
  /\ app' = [app EXCEPT !["D"] = "open"]
  /\ tr' = [tr EXCEPT !["su"] = "open"]
  /\ dir' = StartForwarding("H")
  /\ handler' = [handler EXCEPT !["H"] = "forwarding"]
  /\ UNCHANGED <<count, rcvd, seen, listener, held, eof, wbuf, attempt,
                 netVars>>

\* Mutant: one attempt too many.
ServerRetriesOnceMore ==
  /\ handler["H"] = "connecting" /\ attempt <= MaxRetries
  /\ listener # "listening"
  /\ attempt' = attempt + 1
  /\ UNCHANGED <<dir, handler, qemuVars, netVars, loopVars>>

\* The path is absent, or connecting to it is refused: sleep and try again.
ServerRetries ==
  /\ handler["H"] = "connecting" /\ attempt < MaxRetries
  /\ listener # "listening"
  /\ attempt' = attempt + 1
  /\ UNCHANGED <<dir, handler, qemuVars, netVars, loopVars>>

\* Mutant: the accepted connection is closed only together with unix_writer.
ServerGivesUpOpen ==
  /\ handler["H"] = "connecting"
  /\ attempt = MaxRetries \/ listener # "absent"
  /\ handler' = [handler EXCEPT !["H"] = "ended"]
  /\ UNCHANGED <<tr, held, eof, wbuf, dir, attempt, qemuVars, netVars>>

\* Out of attempts, or the path exists and connecting fails in another way
\* than by a refusal (no descriptor left, no permission): only
\* ConnectionRefusedError and FileNotFoundError are caught for a retry.
\* There is no unix_writer to close.
ServerGivesUp ==
  /\ handler["H"] = "connecting"
  /\ attempt = MaxRetries \/ listener # "absent"
  /\ tr' = Closed(tr, "st")
  /\ handler' = [handler EXCEPT !["H"] = "closingIn"]
  /\ UNCHANGED <<held, eof, wbuf, dir, attempt, qemuVars, netVars>>

\* Mutant: ALL_COMPLETED.
WhenBothEnd(p) ==
  /\ handler[p] = "forwarding"
  /\ \A e \in EndsOf(p) : dir[e] = "done"
  /\ handler' = [handler EXCEPT ![p] = "cancelling"]
  /\ UNCHANGED <<dir, attempt, qemuVars, netVars, loopVars>>

\* FIRST_COMPLETED: task.cancel() for the direction still pending.
CancelPending(p) ==
  /\ handler[p] = "forwarding"
  /\ \E e \in EndsOf(p) : dir[e] = "done"
  /\ dir' = [e \in ProxyEnds |->
               IF e \in EndsOf(p) /\ dir[e] = "running" THEN "cancelling"
                                                       ELSE dir[e]]
  /\ handler' = [handler EXCEPT ![p] = "cancelling"]
  /\ UNCHANGED <<attempt, qemuVars, netVars, loopVars>>

\* CancelledError reaches the direction, which ends without writing more;
\* meanwhile its transports go on.
DirectionCancelled(e) ==
  /\ dir[e] = "cancelling"
  /\ dir' = [dir EXCEPT ![e] = "cancelled"]
  /\ UNCHANGED <<handler, attempt, qemuVars, netVars, loopVars>>

\* Mutant: no "await task" between cancel and close.
CloseOutgoingAtOnce(p) ==
  /\ handler[p] = "cancelling"
  /\ tr' = Closed(tr, Outgoing(p))
  /\ handler' = [handler EXCEPT ![p] = "closingOut"]
  /\ UNCHANGED <<held, eof, wbuf, dir, attempt, qemuVars, netVars>>

\* "await task" has returned for every pending direction: the finally clause
\* closes the outgoing connection.
CloseOutgoing(p) ==
  /\ handler[p] = "cancelling"
  /\ \A e \in EndsOf(p) : dir[e] \in {"done", "cancelled"}
  /\ tr' = Closed(tr, Outgoing(p))
  /\ handler' = [handler EXCEPT ![p] = "closingOut"]
  /\ UNCHANGED <<held, eof, wbuf, dir, attempt, qemuVars, netVars>>

\* wait_closed of the outgoing connection returns: close the accepted one.
OutgoingClosed(p) ==
  /\ handler[p] = "closingOut"
  /\ tr[Outgoing(p)] = "closed"
  /\ tr' = Closed(tr, Accepted(p))
  /\ handler' = [handler EXCEPT ![p] = "closingIn"]
  /\ UNCHANGED <<held, eof, wbuf, dir, attempt, qemuVars, netVars>>

\* It raises the connection's exception out of the finally clause.
OutgoingRaises(p) ==
  /\ handler[p] = "closingOut"
  /\ tr[Outgoing(p)] = "lost"
  /\ tr' = IF LoopClosesOnError THEN Closed(tr, Accepted(p)) ELSE tr
  /\ handler' = [handler EXCEPT ![p] = "raised"]
  /\ UNCHANGED <<held, eof, wbuf, dir, attempt, qemuVars, netVars>>

AcceptedClosed(p) ==
  /\ handler[p] = "closingIn"
  /\ tr[Accepted(p)] \in {"closed", "lost"}
  /\ handler' = [handler EXCEPT ![p] =
                   IF tr[Accepted(p)] = "closed" THEN "ended" ELSE "raised"]
  /\ UNCHANGED <<dir, attempt, qemuVars, netVars, loopVars>>
-----------------------------------------------------------------------------
\* The event loops of the two proxies.
ProxyStep ==
  \/ \E e \in ProxyEnds :
       \/ TransportReads(e) \/ TransportSeesEof(e) \/ TransportWrites(e)
       \/ TransportFails(e) \/ TransportCloses(e)
       \/ Forward(e) \/ DirectionEnds(e) \/ DirectionCancelled(e)
  \/ ClientConnects \/ ClientConnectFails
  \/ ServerConnects \/ ServerRetries \/ ServerGivesUp
  \/ \E p \in Proxies : \/ CancelPending(p) \/ CloseOutgoing(p)
                        \/ OutgoingClosed(p) \/ OutgoingRaises(p)
                        \/ AcceptedClosed(p)

\* A QEMU with an open socket keeps reading it.
QemuReads == \E a \in Apps : Receive(a) \/ SeeEnd(a)

QemuActs ==
  \/ DestinationListens \/ SourceConnects
  \/ \E a \in Apps : Send(a) \/ Close(a) \/ ShutDown(a)

Next == ProxyStep \/ QemuReads \/ QemuActs \/ NetworkReset

\* Every step uses up something finite (chunks, attempts, states of a
\* connection), so weak fairness of the whole is fairness of each part.
Spec == Init /\ [][Next]_vars /\ WF_vars(QemuReads \/ ProxyStep)
-----------------------------------------------------------------------------
(* Properties.                                                             *)

\* Each QEMU receives a prefix of what the other one sent, in order and
\* without duplicates, whatever fails.
PrefixDelivered ==
  \A a \in Apps : /\ rcvd[a] = Numbers(Len(rcvd[a]))
                  /\ \A b \in Apps \ {a} : Len(rcvd[a]) <= count[b]

Truncated == Len(rcvd["D"]) < count["S"]

\* When it reads end-of-stream after a truncated stream, the network failed,
\* or it had shut down its own sending side, or the source closed without
\* reading the replies.  (A reset is never passed on as a reset: the next
\* proxy closes its other connection in an orderly way.)
TruncationHasCause ==
  [][seen'["D"] = "eof" /\ seen["D"] = "no" /\ Truncated =>
       broken \/ app["D"] = "shut" \/ Len(rcvd["S"]) < count["D"]]_vars

Busy(e) == dir[e] \in {"running", "cancelling"}

\* A connection is never closed under a forward_data that still reads or
\* writes it, not even under one that was cancelled a moment ago: "await
\* task" comes before the finally clause.
CancelBeforeClose ==
  \A e \in ProxyEnds :
    Busy(e) => {tr[e], tr[Across(e)]} \subseteq {"open", "lost"}

Finished(p) == handler[p] \in {"ended", "raised"}

\* A handler that is over has closed both of its connections: "Clean up
\* connections" in both finally clauses.
HandlerCleansUp ==
  \A p \in Proxies : Finished(p) =>
    \A e \in EndsOf(p) : tr[e] # "open"

TunnelGone ==
  /\ \A p \in Proxies : handler[p] = "idle" \/ Finished(p)
  /\ \A e \in ProxyEnds : ~Alive(e)

\* A QEMU that is still connected has seen its stream end.
EverybodyKnows == \A a \in Apps : app[a] \in {"open", "shut"} => seen[a] # "no"

\* When either QEMU closes, the whole tunnel goes away and the other QEMU
\* learns of it: the source learns that the destination is gone.
CloseEndsTunnel ==
  (\E a \in Apps : app[a] = "closed") ~> TunnelGone /\ EverybodyKnows

\* What an orderly source sent before it closed arrives at a destination
\* that is connected.
ClosedStreamArrives ==
  app["S"] = "closed" /\ app["D"] = "open" ~> ~Truncated

\* In an orderly migration the tunnel is a lossless FIFO end to end.
Fifo == INSTANCE ForwardFifo WITH
  accepted  <- Numbers(count["S"]),
  delivered <- rcvd["D"],
  outcome   <- IF seen["D"] = "no" THEN "running"
               ELSE IF seen["D"] = "eof" THEN "complete" ELSE "partial"

TunnelIsFifo == Fifo!Spec
=============================================================================
