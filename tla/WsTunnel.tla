------------------------------ MODULE WsTunnel ------------------------------
(***************************************************************************)
(* One migration connection through migrate-websocket, end to end, with    *)
(* the life of the server's handler:                                       *)
(*                                                                         *)
(*   source QEMU - "in" - client - "net" - server - "out" - destination    *)
(*                                                                         *)
(* Each direction of a proxy reads, sends and awaits, so every buffer is   *)
(* bounded.  The direction from the source is modelled chunk by chunk; the *)
(* replies of the other one never fill a buffer, and only its end is       *)
(* modelled: with its QEMU, with the WebSocket, or with a reply that it    *)
(* can no longer deliver.  How the client cleans up is the subject of      *)
(* WsClient; the server's entry in active_connections, which nobody reads, *)
(* lives from "connecting" to "over".                                      *)
(***************************************************************************)
EXTENDS Naturals, Sequences

CONSTANTS
  Chunks,    \* what the source has to send
  NetSize,   \* messages that fit between the proxies
  HighWater, \* drain waits above this
  Attempts   \* max_retries

ASSUME SizesAssumption ==
  /\ Chunks \in Nat /\ NetSize \in Nat \ {0} /\ HighWater \in Nat
  /\ Attempts \in Nat \ {0}

VARIABLES
  source,   \* the source QEMU
  sent,     \* the chunks it has sent: 1..sent
  in, held, net, out,  \* chunks on their way; held is the client's, between read and send
  got,      \* what the destination has read
  client,   \* handle_qemu_connection
  ws,       \* the WebSocket: "closing" once the client has sent its Close frame
  server,   \* handle_client
  attempt,  \* turns of create_unix_connection's loop
  unix,     \* the server's unix connection
  dest,     \* the destination QEMU
  causes    \* history: what has cut the stream off

vars == <<source, sent, in, held, net, out, got, client, ws, server, attempt,
          unix, dest, causes>>
srcSide == <<source, sent, in, held, client>>
dstSide == <<server, attempt, unix>>

Stream == Seq(1..Chunks)

TypeOK ==
  /\ source \in {"open", "closed"} /\ sent \in 0..Chunks
  /\ \A q \in {in, held, net, out, got} : q \in Stream
  /\ Len(in) <= 1 /\ Len(held) <= 1 /\ Len(net) <= NetSize
  /\ Len(out) <= HighWater + 1
  /\ client \in {"connecting", "forwarding", "closing", "over"}
  /\ ws \in {"none", "open", "closing", "gone"}
  /\ server \in {"off", "connecting", "forwarding", "closing", "over"}
  /\ attempt \in 0..Attempts
  /\ unix \in {"none", "open", "closing", "closed"}
  /\ dest \in {"off", "listening", "open", "half", "ended", "closed"}
  /\ causes \subseteq {"source", "destination", "connect", "absent", "network",
                     "timeout", "stop", "reply"}

Init ==
  /\ source = "open" /\ sent = 0
  /\ in = <<>> /\ held = <<>> /\ net = <<>> /\ out = <<>> /\ got = <<>>
  /\ client = "connecting" /\ ws = "none"
  /\ server = "off" /\ attempt = 0
  /\ unix = "none" /\ dest = "off"
  /\ causes = {}

\* Of a connection that breaks down, only the beginning still arrives.
Cut(q, cause) ==
  \E n \in 0..Len(q) :
    /\ q' = SubSeq(q, 1, n)
    /\ causes' = IF n < Len(q) THEN causes \cup {cause} ELSE causes
-----------------------------------------------------------------------------
(* The source QEMU and the client.                                         *)

\* Nobody closes the source's connection when the client could not connect.
SourceSends ==
  /\ source = "open" /\ (client # "over" \/ ws = "none") /\ sent < Chunks /\ Len(in) < 1
  /\ sent' = sent + 1
  /\ in' = Append(in, sent + 1)
  /\ UNCHANGED <<source, held, net, out, got, client, ws, dstSide, dest, causes>>

SourceCloses ==
  /\ source = "open"
  /\ source' = "closed"
  /\ causes' = IF sent < Chunks THEN causes \cup {"source"} ELSE causes
  /\ UNCHANGED <<sent, in, held, net, out, got, client, ws, dstSide, dest>>

\* websockets.connect; the server's handler starts.
Connects ==
  /\ client = "connecting"
  /\ client' = "forwarding" /\ ws' = "open"
  /\ server' = "connecting"
  /\ UNCHANGED <<source, sent, in, held, net, out, got, attempt, unix, dest, causes>>

\* It raises: the handler is over, and leaves unix_writer as it is.
ConnectFails ==
  /\ client = "connecting"
  /\ client' = "over"
  /\ causes' = causes \cup {"connect"}
  /\ UNCHANGED <<source, sent, in, held, net, out, got, ws, dstSide, dest>>

ClientReads ==
  /\ client = "forwarding" /\ held = <<>> /\ in # <<>>
  /\ held' = in /\ in' = <<>>
  /\ UNCHANGED <<source, sent, net, out, got, client, ws, dstSide, dest, causes>>

ClientSends ==
  /\ client = "forwarding" /\ held # <<>> /\ ws = "open"
  /\ Len(net) < NetSize
  /\ net' = net \o held /\ held' = <<>>
  /\ UNCHANGED <<source, sent, in, out, got, client, ws, dstSide, dest, causes>>

\* The first direction to end cancels the other: what that holds is dropped, and
\* cleanup_connection begins.  It is end-of-stream behind the last chunk, the
\* end of the WebSocket, or a reply to a source that has closed.
ClientEnds ==
  /\ client = "forwarding"
  /\ \/ source = "closed" /\ in = <<>> /\ held = <<>> /\ UNCHANGED causes
     \/ ws = "gone" /\ UNCHANGED causes
     \/ /\ source = "closed" /\ dest \notin {"off", "listening"}
        /\ causes' = causes \cup {"reply"}
  /\ client' = "closing"
  /\ ws' = IF ws = "open" THEN "closing" ELSE ws
  /\ in' = <<>> /\ held' = <<>>
  /\ UNCHANGED <<source, sent, net, out, got, dstSide, dest>>

ClientCloses ==
  /\ client = "closing" /\ ws = "gone"
  /\ client' = "over"
  /\ UNCHANGED <<source, sent, in, held, net, out, got, ws, dstSide, dest, causes>>
-----------------------------------------------------------------------------
(* The WebSocket.                                                          *)

\* The Close frame is answered when it arrives, behind the messages: some of
\* these the server may still have to read.
WsCloses ==
  /\ ws = "closing"
  /\ ws' = "gone"
  /\ UNCHANGED <<srcSide, net, out, got, dstSide, dest, causes>>

\* A server that is so slow that it does not arrive within close_timeout may
\* lose some.
CloseTimesOut ==
  /\ ws = "closing" /\ net # <<>>
  /\ ws' = "gone"
  /\ Cut(net, "timeout")
  /\ UNCHANGED <<srcSide, out, got, dstSide, dest>>

\* The network fails, or a ping is not answered behind a queue that is stuck.
WsFails ==
  /\ ws = "open"
  /\ ws' = "gone"
  /\ \E n \in 0..Len(net) : net' = SubSeq(net, 1, n)
  /\ causes' = causes \cup {"network"}
  /\ UNCHANGED <<srcSide, out, got, dstSide, dest>>
-----------------------------------------------------------------------------
(* The server's handler.                                                   *)

\* create_unix_connection: it does not look at the WebSocket meanwhile.
UnixConnects ==
  /\ server = "connecting" /\ attempt < Attempts
  /\ dest = "listening"
  /\ server' = "forwarding" /\ unix' = "open" /\ dest' = "open"
  /\ UNCHANGED <<srcSide, net, out, got, ws, attempt, causes>>

Retries ==
  /\ server = "connecting" /\ attempt < Attempts
  /\ dest = "off"
  /\ attempt' = attempt + 1
  /\ UNCHANGED <<srcSide, net, out, got, ws, server, unix, dest, causes>>

\* The end of handle_client, whichever way: the library closes the WebSocket.
HandlerOver == server' = "over" /\ ws' = "gone" /\ net' = <<>>

\* The attempts are used up, or open_unix_connection fails with another error
\* than those that are tried again.
GivesUp ==
  /\ server = "connecting"
  /\ attempt = Attempts \/ dest = "listening"
  /\ HandlerOver
  /\ causes' = causes \cup {"absent"}
  /\ UNCHANGED <<srcSide, out, got, attempt, unix, dest>>

\* Mutant: drain is not awaited.
Drained == TRUE

\* drain has returned: the transport is below its limit.
BelowLimit == Len(out) <= HighWater

ForwardsMessage ==
  /\ server = "forwarding" /\ unix = "open" /\ dest \in {"open", "half"}
  /\ net # <<>> /\ BelowLimit
  /\ out' = Append(out, Head(net)) /\ net' = Tail(net)
  /\ UNCHANGED <<srcSide, got, ws, dstSide, dest, causes>>

\* Mutant: the handler asks whether the WebSocket is open.
WsNotOpen == ws = "gone"

\* Iterating over the WebSocket ends behind its last message.
MessagesEnd == ws = "gone" /\ net = <<>>

\* Mutant: the end of the other direction is raised into the handler, and
\* unix_writer is not closed.
HandlerRaises ==
  /\ server = "forwarding"
  /\ MessagesEnd \/ dest \in {"half", "closed"}
  /\ HandlerOver
  /\ UNCHANGED <<srcSide, out, got, attempt, unix, dest, causes>>

\* Either direction is over, the other is cancelled: unix_writer.close().  The
\* direction to the source is over when the destination sends no more, or when
\* it has a reply and the WebSocket is no longer open.
HandlerEnds ==
  /\ server = "forwarding"
  /\ \/ (MessagesEnd \/ dest \in {"half", "closed"}) /\ UNCHANGED causes
     \/ /\ ws = "gone" /\ net # <<>> /\ dest = "open"
        /\ causes' = causes \cup {"reply"}
  /\ server' = "closing" /\ unix' = "closing"
  /\ UNCHANGED <<srcSide, net, out, got, ws, attempt, dest>>

\* wait_closed returns or raises: both times it is the end.
UnixCloses ==
  /\ server = "closing"
  /\ out = <<>> \/ dest = "closed"
  /\ unix' = "closed"
  /\ HandlerOver
  /\ UNCHANGED <<srcSide, out, got, attempt, dest, causes>>

\* Ctrl-C cancels the handler where it waits: the close is on its normal path
\* only, so the unix connection stays as it is.
ServerStops ==
  /\ server \in {"connecting", "forwarding", "closing"}
  /\ HandlerOver
  /\ causes' = causes \cup {"stop"}
  /\ UNCHANGED <<srcSide, out, got, attempt, unix, dest>>

\* The end of the process closes what the handler has left; what the transport
\* still holds is lost.
ServerExits ==
  /\ server = "over" /\ unix \in {"open", "closing"} /\ "stop" \in causes
  /\ unix' = "closed"
  /\ \E n \in 0..Len(out) : out' = SubSeq(out, 1, n)
  /\ UNCHANGED <<srcSide, net, got, ws, server, attempt, dest, causes>>
-----------------------------------------------------------------------------
(* The destination QEMU.                                                   *)

DestinationListens ==
  /\ dest = "off"
  /\ dest' = "listening"
  /\ UNCHANGED <<srcSide, net, out, got, ws, dstSide, causes>>

DestinationReads ==
  /\ dest \in {"open", "half"} /\ out # <<>>
  /\ got' = Append(got, Head(out)) /\ out' = Tail(out)
  /\ UNCHANGED <<srcSide, net, ws, dstSide, dest, causes>>

DestinationSeesEnd ==
  /\ dest \in {"open", "half"} /\ unix = "closed" /\ out = <<>>
  /\ dest' = "ended"
  /\ UNCHANGED <<srcSide, net, out, got, ws, dstSide, causes>>

\* It shuts down its sending side only, and goes on reading.
DestinationEndsReplies ==
  /\ dest = "open"
  /\ dest' = "half"
  /\ causes' = causes \cup {"destination"}
  /\ UNCHANGED <<srcSide, net, out, got, ws, dstSide>>

DestinationCloses ==
  /\ dest \in {"open", "half"}
  /\ dest' = "closed" /\ out' = <<>>
  /\ causes' = causes \cup {"destination"}
  /\ UNCHANGED <<srcSide, net, got, ws, dstSide>>
-----------------------------------------------------------------------------
ClientStep ==
  \/ Connects \/ ConnectFails
  \/ ClientReads \/ ClientSends \/ ClientEnds \/ ClientCloses

ServerStep ==
  \/ UnixConnects \/ Retries \/ GivesUp
  \/ ForwardsMessage \/ HandlerEnds \/ UnixCloses \/ ServerExits

Outside ==
  \/ SourceSends \/ SourceCloses \/ WsFails \/ ServerStops
  \/ DestinationListens \/ DestinationEndsReplies \/ DestinationCloses

Next ==
  \/ ClientStep \/ ServerStep
  \/ WsCloses \/ CloseTimesOut
  \/ DestinationReads \/ DestinationSeesEnd
  \/ Outside

\* The programs run and, once they are stopped, end; a Close frame is answered or
\* times out, and a QEMU reads the socket that it has open.
Spec ==
  /\ Init /\ [][Next]_vars
  /\ WF_vars(ClientStep) /\ WF_vars(ServerStep)
  /\ WF_vars(WsCloses \/ CloseTimesOut)
  /\ WF_vars(DestinationReads \/ DestinationSeesEnd)
-----------------------------------------------------------------------------
(* Properties.                                                             *)

\* The tunnel is a lossless FIFO from QEMU to QEMU, and an orderly
\* end-of-stream of the destination means that it has all of the stream, unless
\* one of the recorded causes has cut it off.
Fifo == INSTANCE ForwardFifo WITH
  accepted <- [i \in 1..sent |-> i],
  delivered <- got,
  outcome <- IF dest # "ended" THEN "running"
             ELSE IF causes = {} THEN "complete" ELSE "partial"

ImplementsFifo == Fifo!Spec

\* Whichever side goes first, the whole tunnel comes down, also when it waits
\* for a destination that never listens or for a buffer that is full, and when
\* the handler that should close the destination's connection is cancelled.
EndReachesAll ==
  source = "closed" \/ dest \in {"half", "closed"} \/ server = "over" ~>
    /\ client = "over" /\ server \in {"off", "over"}
    /\ dest \notin {"open", "half"}
=============================================================================
