------------------------------ MODULE WsClient ------------------------------
(***************************************************************************)
(* The life of the connections in websocket-migration-client.py, and how   *)
(* the program stops.  A handler (handle_qemu_connection) enters its       *)
(* connection in active_connections; cleanup_connection takes it out, and  *)
(* is called by the handler that is over and, after Ctrl-C, by the finally *)
(* clause of start_unix_server.  It tests for the entry, awaits two closes *)
(* and then deletes the entry: two calls can overlap.  A direction that is *)
(* sending or draining looks only at the side it writes to.                 *)
(***************************************************************************)

CONSTANTS
  Conns,         \* QEMU connections (several per migration: multifd)
  ConnectFails   \* websockets.connect, or the SSL context, may fail

VARIABLES
  qemu,      \* QEMU's end of the unix connection
  unix,      \* unix_writer's transport
  ws,        \* the WebSocket
  busy,      \* the directions that wait for their writing side
  active,    \* the keys of active_connections
  handler,   \* the handlers
  main,      \* start_unix_server
  todo,      \* its loop's keys still to come
  current,   \* its loop's key, while cleanup_connection runs for it
  pending,   \* handlers that asyncio.run has cancelled and that did not run yet
  path       \* the unix socket path exists

vars == <<qemu, unix, ws, busy, active, handler, main, todo, current, pending,
          path>>

Over(c) == handler[c] \in {"ended", "raised"}
Stopped == main \in {"ended", "raised"}

TypeOK ==
  /\ qemu \in [Conns -> {"none", "open", "closed"}]
  /\ unix \in [Conns -> {"none", "open", "closing", "closed", "lost"}]
  /\ ws \in [Conns -> {"none", "open", "closing", "closed"}]
  /\ busy \in [Conns -> SUBSET {"sending", "draining"}]
  /\ active \subseteq Conns
  /\ handler \in [Conns -> {"idle", "connecting", "forwarding", "closingWs",
                            "closingUnix", "ended", "raised"}]
  /\ main \in {"serving", "closingWs", "closingUnix", "ended", "raised"}
  /\ todo \subseteq active
  /\ current \in {{}} \cup {{c} : c \in Conns}
  /\ pending \subseteq Conns
  /\ path \in BOOLEAN

Init ==
  /\ qemu = [c \in Conns |-> "none"]
  /\ unix = [c \in Conns |-> "none"]
  /\ ws = [c \in Conns |-> "none"]
  /\ busy = [c \in Conns |-> {}]
  /\ active = {}
  /\ handler = [c \in Conns |-> "idle"]
  /\ main = "serving"
  /\ todo = {} /\ current = {}
  /\ pending = {}
  /\ path = TRUE
-----------------------------------------------------------------------------
(* QEMU, the server and the transports.                                    *)

QemuConnects(c) ==
  /\ main = "serving" /\ handler[c] = "idle"
  /\ qemu' = [qemu EXCEPT ![c] = "open"]
  /\ unix' = [unix EXCEPT ![c] = "open"]
  /\ handler' = [handler EXCEPT ![c] = "connecting"]
  /\ UNCHANGED <<busy, ws, active, main, todo, current, pending, path>>

QemuCloses(c) ==
  /\ qemu[c] = "open"
  /\ qemu' = [qemu EXCEPT ![c] = "closed"]
  /\ UNCHANGED <<busy, unix, ws, active, handler, main, todo, current, pending, path>>

\* The server closes the WebSocket, or a ping is not answered in time.
WsFails(c) ==
  /\ ws[c] = "open"
  /\ ws' = [ws EXCEPT ![c] = "closing"]
  /\ UNCHANGED <<busy, qemu, unix, active, handler, main, todo, current, pending, path>>

\* The closing handshake ends, or its timeout does.
WsCloses(c) ==
  /\ ws[c] = "closing"
  /\ ws' = [ws EXCEPT ![c] = "closed"]
  /\ UNCHANGED <<busy, qemu, unix, active, handler, main, todo, current, pending, path>>

\* The transport is lost with an exception: QEMU closed with unread data, or
\* something was written to it after it had closed.
UnixFails(c) ==
  /\ unix[c] \in {"open", "closing"} /\ qemu[c] = "closed"
  /\ unix' = [unix EXCEPT ![c] = "lost"]
  /\ UNCHANGED <<busy, qemu, ws, active, handler, main, todo, current, pending, path>>

UnixCloses(c) ==
  /\ unix[c] = "closing"
  /\ unix' = [unix EXCEPT ![c] = "closed"]
  /\ UNCHANGED <<busy, qemu, ws, active, handler, main, todo, current, pending, path>>
-----------------------------------------------------------------------------
(* cleanup_connection(c), by the handler or by the main program.           *)

Closing(s, c) == IF s[c] = "open" THEN [s EXCEPT ![c] = "closing"] ELSE s

\* websocket.close() has returned: unix_writer.close().
CloseUnix(c) ==
  /\ ws[c] = "closed"
  /\ unix' = Closing(unix, c)
  /\ UNCHANGED <<busy, qemu, ws, active, path>>

\* Mutant: wait_closed is not awaited.
NotOpen(c) == unix[c] # "open"

\* wait_closed is over.  It, or the deletion of the entry, may raise.
Settled(c) == unix[c] \in {"closed", "lost"}
Raises(c) == unix[c] = "lost" \/ c \notin active
-----------------------------------------------------------------------------
(* The handlers.                                                           *)

Connected(c) ==
  /\ handler[c] = "connecting" /\ c \notin pending
  /\ ws' = [ws EXCEPT ![c] = "open"]
  /\ active' = active \cup {c}
  /\ handler' = [handler EXCEPT ![c] = "forwarding"]
  /\ UNCHANGED <<busy, qemu, unix, main, todo, current, pending, path>>

\* The error is logged; the clean-up finds no entry.
NotConnected(c) ==
  /\ ConnectFails
  /\ handler[c] = "connecting" /\ c \notin pending
  /\ handler' = [handler EXCEPT ![c] = "ended"]
  /\ UNCHANGED <<busy, qemu, unix, ws, active, main, todo, current, pending, path>>

\* Mutant: the handler waits for the unix side only.
UnixEnded(c) ==
  /\ qemu[c] = "closed" \/ unix[c] \in {"closed", "lost"}
  /\ "sending" \notin busy[c]

\* A direction finds no room for what it has read and waits: in
\* websocket.send, or in drain.
Blocks(c) ==
  /\ handler[c] = "forwarding" /\ qemu[c] = "open" /\ ws[c] = "open"
  /\ \E b \in {"sending", "draining"} :
       busy' = [busy EXCEPT ![c] = @ \cup {b}]
  /\ UNCHANGED <<qemu, unix, ws, active, handler, main, todo, current, pending,
                 path>>

\* The server, or QEMU, has taken some of it.  (A drain returns too when the
\* transport has been closed.)
GoesOn(c) ==
  /\ handler[c] = "forwarding"
  /\ \E b \in busy[c] :
       /\ IF b = "sending" THEN ws[c] # "closed"
          ELSE unix[c] # "lost" /\ (qemu[c] = "open" \/ unix[c] = "closed")
       /\ busy' = [busy EXCEPT ![c] = @ \ {b}]
  /\ UNCHANGED <<qemu, unix, ws, active, handler, main, todo, current, pending,
                 path>>

\* One direction is over.  The unix side's end is read, unless data is being
\* sent; a lost connection ends the drain, a closed WebSocket the send and the
\* iteration over its messages, but not the drain.
DirectionEnded(c) ==
  \/ /\ qemu[c] = "closed" \/ unix[c] \in {"closed", "lost"}
     /\ "sending" \notin busy[c]
  \/ unix[c] = "lost" /\ "draining" \in busy[c]
  \/ ws[c] = "closed" /\ busy[c] # {"draining"}

\* Mutant: the entry is deleted when it is found.
EnterCleanupDeleting(c) ==
  /\ active' = active \ {c}
  /\ handler' = [handler EXCEPT ![c] =
                   IF c \in active THEN "closingWs" ELSE "ended"]
  /\ IF c \in active THEN ws' = Closing(ws, c) ELSE UNCHANGED ws
  /\ busy' = [busy EXCEPT ![c] = {}]
  /\ UNCHANGED <<qemu, unix, main, todo, current, path>>

\* The finally clause: the test for the entry, and the WebSocket's close.
EnterCleanup(c) ==
  /\ handler' = [handler EXCEPT ![c] =
                   IF c \in active THEN "closingWs" ELSE "ended"]
  /\ IF c \in active THEN ws' = Closing(ws, c) ELSE UNCHANGED ws
  /\ busy' = [busy EXCEPT ![c] = {}]
  /\ UNCHANGED <<qemu, unix, active, main, todo, current, path>>

\* FIRST_COMPLETED, and the other direction cancelled.
HandlerEnds(c) ==
  /\ handler[c] = "forwarding" /\ c \notin pending
  /\ DirectionEnded(c)
  /\ EnterCleanup(c)
  /\ UNCHANGED pending

HandlerClosesUnix(c) ==
  /\ handler[c] = "closingWs" /\ c \notin pending
  /\ CloseUnix(c)
  /\ handler' = [handler EXCEPT ![c] = "closingUnix"]
  /\ UNCHANGED <<main, todo, current, pending>>

\* Mutant: the entry stays.
HandlerKeeps(c) ==
  /\ handler[c] = "closingUnix" /\ c \notin pending
  /\ Settled(c)
  /\ handler' = [handler EXCEPT ![c] = "ended"]
  /\ UNCHANGED <<busy, qemu, unix, ws, active, main, todo, current, pending, path>>

HandlerForgets(c) ==
  /\ handler[c] = "closingUnix" /\ c \notin pending
  /\ Settled(c)
  /\ IF Raises(c)
     THEN handler' = [handler EXCEPT ![c] = "raised"] /\ UNCHANGED <<active, todo>>
     ELSE /\ handler' = [handler EXCEPT ![c] = "ended"]
          /\ active' = active \ {c}
          /\ todo' = todo \ {c}
  /\ UNCHANGED <<busy, qemu, unix, ws, main, current, pending, path>>

\* CancelledError where the handler waits: while it forwards, the clean-up
\* follows; at any other place it is the end.
HandlerCancelled(c) ==
  /\ c \in pending
  /\ pending' = pending \ {c}
  /\ \/ handler[c] = "forwarding" /\ EnterCleanup(c)
     \/ /\ handler[c] # "forwarding"
        /\ handler' = [handler EXCEPT ![c] = "raised"]
        /\ UNCHANGED <<busy, qemu, unix, ws, active, main, todo, current, path>>
-----------------------------------------------------------------------------
(* The main program after Ctrl-C.                                          *)

\* Mutant: the handlers are left running.
CancelNone == {}

\* asyncio.run cancels every task that is left when the main one is over.
CancelRest == {c \in Conns : handler[c] # "idle" /\ ~Over(c)}

\* The loop over the listed keys stops at the next one that still has its
\* entry, to await its closes; after the last one the path is unlinked.
\* (An entry that goes leaves todo: the loop would pass over its key.)
NextKey(keys) ==
  \/ /\ keys = {}
     /\ path' = FALSE
     /\ main' = "ended"
     /\ pending' = CancelRest
     /\ todo' = {} /\ current' = {}
     /\ UNCHANGED ws
  \/ \E c \in keys :
       /\ ws' = Closing(ws, c)
       /\ main' = "closingWs"
       /\ current' = {c}
       /\ todo' = keys \ {c}
       /\ UNCHANGED <<path, pending>>

\* serve_forever is cancelled, the server closed, the keys listed.
CtrlC ==
  /\ main = "serving"
  /\ NextKey(active)
  /\ UNCHANGED <<busy, qemu, unix, active, handler>>

\* Mutant: the entry is deleted before the last wait.
MainClosesUnixDeleting(c) ==
  /\ main = "closingWs" /\ c \in current
  /\ ws[c] = "closed"
  /\ unix' = Closing(unix, c)
  /\ active' = active \ {c}
  /\ main' = "closingUnix"
  /\ UNCHANGED <<qemu, ws, busy, handler, todo, current, pending, path>>

MainClosesUnix(c) ==
  /\ main = "closingWs" /\ c \in current
  /\ CloseUnix(c)
  /\ main' = "closingUnix"
  /\ UNCHANGED <<handler, todo, current, pending>>

\* cleanup_connection returns, and the loop goes on.
MainForgets(c) ==
  /\ main = "closingUnix" /\ c \in current
  /\ Settled(c) /\ ~Raises(c)
  /\ active' = active \ {c}
  /\ NextKey(todo)
  /\ UNCHANGED <<busy, qemu, unix, handler>>

\* It raises: the rest of the finally clause is skipped.
MainRaises(c) ==
  /\ main = "closingUnix" /\ c \in current
  /\ Settled(c) /\ Raises(c)
  /\ main' = "raised"
  /\ pending' = CancelRest
  /\ current' = {}
  /\ UNCHANGED <<busy, qemu, unix, ws, active, handler, todo, path>>
-----------------------------------------------------------------------------
ProcessStep == \E c \in Conns :
  \/ WsCloses(c) \/ UnixCloses(c)
  \/ Connected(c) \/ NotConnected(c) \/ HandlerEnds(c)
  \/ HandlerClosesUnix(c) \/ HandlerForgets(c) \/ HandlerCancelled(c)
  \/ MainClosesUnix(c) \/ MainForgets(c) \/ MainRaises(c)

Outside ==
  \/ \E c \in Conns :
       \/ QemuConnects(c) \/ QemuCloses(c) \/ WsFails(c) \/ UnixFails(c)
       \/ Blocks(c) \/ GoesOn(c)
  \/ CtrlC

Next == ProcessStep \/ Outside

\* The event loop runs what is ready; in these steps a connection only moves
\* forward, so fairness of the whole is fairness of each handler.  The server
\* and QEMU go on taking what is sent to them as long as they are connected.
Spec ==
  /\ Init /\ [][Next]_vars
  /\ WF_vars(ProcessStep)
  /\ \A c \in Conns : WF_vars(GoesOn(c))
-----------------------------------------------------------------------------
(* Properties.                                                             *)

\* An entry is deleted only when both of its connections are closed, whoever
\* deletes it, so nothing that is open is forgotten.
ClosedBeforeForgotten ==
  \A c \in Conns : ws[c] # "none" /\ c \notin active =>
    ws[c] = "closed" /\ unix[c] \in {"closed", "lost"}

\* While the program serves, the entry of a handler that is over can be left
\* behind only when its unix connection was lost (wait_closed raised).
StaleEntriesHaveCause ==
  main = "serving" => \A c \in active : Over(c) => unix[c] = "lost"

\* Of two clean-ups of a connection that overlap at most one fails, and only
\* because the other one has done all of it: the program's loop fails only with
\* a lost connection or for an entry whose handler has ended, a handler only
\* with its connection, when it is cancelled, or when the loop has passed it.
FailuresHaveCause ==
  [][/\ main # "raised" /\ main' = "raised" =>
          \E c \in current : unix[c] = "lost" \/ handler[c] = "ended"
     /\ \A c \in Conns : handler[c] # "raised" /\ handler'[c] = "raised" =>
          \/ unix[c] = "lost" \/ c \in pending
          \/ main # "serving" /\ c \notin current \cup todo]_vars

\* A connection that was forwarding is taken down when either side closes, also
\* when a direction is waiting for the other side at that moment.
EndReachesHandler ==
  \A c \in Conns :
    handler[c] = "forwarding" /\ (qemu[c] = "closed" \/ ws[c] = "closing")
      ~> Over(c)

\* Ctrl-C ends the main program and every handler.
CtrlCStops ==
  main # "serving" ~> Stopped /\ \A c \in Conns : handler[c] = "idle" \/ Over(c)

\* "Clean up a connection and its resources": a handler that is over has
\* closed the unix connection it was given.
HandlerReleases ==
  \A c \in Conns : Over(c) => unix[c] # "open"

\* "Clean up any remaining connections", then the path: the loop comes to
\* every connection and the program leaves no socket behind.
StopCleansUp == Stopped => todo = {} /\ ~path
=============================================================================
