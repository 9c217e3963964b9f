----------------------------- MODULE PerfRelay ------------------------------
(***************************************************************************)
(* proxy-perf/tcp in its hybrid mode, with several senders at once:        *)
(*                                                                         *)
(*   unix-sender.py -> send.py -> receive.py -> unix-receiver.py           *)
(*          "unix"         "tls"           "out"                           *)
(*                                                                         *)
(* one unix-sender and one send.py for each r, one receive.py with a       *)
(* thread for each connection, and one unix-receiver, which takes a single *)
(* connection.  A chunk is a number; each sender's are 1, 2, 3, ...  Time  *)
(* limits may end a loop between any two of its turns.                     *)
(***************************************************************************)
EXTENDS Naturals, Sequences, SequencesExt

CONSTANTS
  Relays,         \* the send.py processes
  Chunks,         \* bound on what a unix-sender sends before its time is up
  Buffer,         \* chunks that fit between two programs
  HandshakesFail  \* a TLS handshake may fail

ASSUME RelayAssumption ==
  Chunks \in Nat /\ Buffer \in Nat \ {0} /\ HandshakesFail \in BOOLEAN

VARIABLES
  sender,    \* unix-sender
  relay,     \* send.py: benchmark_send_unix
  server,    \* receive.py: the accept loop
  queue,     \* TLS connections that it has not accepted
  thread,    \* its threads: handle_client_unix
  receiver,  \* unix-receiver
  running,   \* its flag, which the signal handler clears
  links,     \* the unix connections to it, in order of connection
  data,      \* what each pipe holds
  held,      \* what a relay or a thread has read and not sent
  count,     \* bytes_sent or bytes_received of each program
  got,       \* what the receiver has read
  cut        \* history: the relays whose data was cut off by a time limit or a failure

vars == <<sender, relay, server, queue, thread, receiver, running, links,
          data, held, count, got, cut>>
rest == <<running, links>>

Pipes == {"unix", "tls", "out"}
Programs == {"sender", "relay", "thread"}
Queue == Seq(1..Chunks)

TypeOK ==
  /\ sender \in [Relays -> {"off", "refused", "sending", "over"}]
  /\ relay \in [Relays -> {"off", "connecting", "waiting", "relaying", "over"}]
  /\ server \in {"accepting", "handshake", "over"}
  /\ queue \in Seq(Relays) /\ links \in Seq(Relays)
  /\ thread \in [Relays -> {"none", "started", "forwarding", "over"}]
  /\ receiver \in {"off", "accepting", "reading", "over"}
  /\ running \in BOOLEAN
  /\ \A r \in Relays :
       /\ \A p \in Pipes : data[p][r] \in Queue /\ Len(data[p][r]) <= Buffer
       /\ \A p \in {"relay", "thread"} : held[p][r] \in Queue /\ Len(held[p][r]) <= 1
       /\ \A p \in Programs : count[p][r] \in 0..Chunks
  /\ got \in Queue /\ cut \subseteq Relays

Init ==
  /\ sender = [r \in Relays |-> "off"]
  /\ relay = [r \in Relays |-> "off"]
  /\ server = "accepting" /\ queue = <<>>
  /\ thread = [r \in Relays |-> "none"]
  /\ receiver = "off" /\ running = TRUE /\ links = <<>>
  /\ data = [p \in Pipes |-> [r \in Relays |-> <<>>]]
  /\ held = [p \in {"relay", "thread"} |-> [r \in Relays |-> <<>>]]
  /\ count = [p \in Programs |-> [r \in Relays |-> 0]]
  /\ got = <<>> /\ cut = {}

Fits(p, r) == Len(data[p][r]) < Buffer
Put(p, r, c) == data' = [data EXCEPT ![p][r] = Append(@, c)]
Counts(p, r) == count' = [count EXCEPT ![p][r] = @ + 1]

\* Mutant: it reads again before it has sent what it has read.
TakesMore(p, q, r) ==
  /\ data[q][r] # <<>>
  /\ held' = [held EXCEPT ![p][r] = Append(@, Head(data[q][r]))]
  /\ data' = [data EXCEPT ![q][r] = Tail(@)]

\* p reads the next chunk of pipe q.
Takes(p, q, r) ==
  /\ data[q][r] # <<>> /\ held[p][r] = <<>>
  /\ held' = [held EXCEPT ![p][r] = <<Head(data[q][r])>>]
  /\ data' = [data EXCEPT ![q][r] = Tail(@)]
-----------------------------------------------------------------------------
(* unix-sender.py                                                          *)

\* send_data: connect.  The relay listens as soon as it runs.
SenderStarts(r) ==
  /\ sender[r] = "off"
  /\ sender' = [sender EXCEPT ![r] =
       IF relay[r] \in {"connecting", "waiting"} THEN "sending" ELSE "refused"]
  /\ UNCHANGED <<relay, server, queue, thread, receiver, rest, data, held, count, got, cut>>

\* sendall of one chunk.
SenderSends(r) ==
  /\ sender[r] = "sending" /\ relay[r] # "over"
  /\ Fits("unix", r) /\ count["sender"][r] < Chunks
  /\ Put("unix", r, count["sender"][r] + 1)
  /\ Counts("sender", r)
  /\ UNCHANGED <<sender, relay, server, queue, thread, receiver, rest, held, got, cut>>

\* The look at the clock, before every chunk; or sendall raises, because the
\* relay is gone.
SenderEnds(r) ==
  /\ sender[r] = "sending"
  /\ sender' = [sender EXCEPT ![r] = "over"]
  /\ UNCHANGED <<relay, server, queue, thread, receiver, rest, data, held, count, got, cut>>
-----------------------------------------------------------------------------
(* send.py                                                                 *)

\* It listens, and connects to the server's host; refused, it ends.
RelayStarts(r) ==
  /\ relay[r] = "off"
  /\ IF server = "over"
     THEN relay' = [relay EXCEPT ![r] = "over"] /\ UNCHANGED queue
     ELSE relay' = [relay EXCEPT ![r] = "connecting"] /\ queue' = Append(queue, r)
  /\ UNCHANGED <<sender, server, thread, receiver, rest, data, held, count, got, cut>>

\* Accepted from its listening socket: a sender that is there, or was, even one
\* that has sent nothing.
RelayAccepts(r) ==
  /\ relay[r] = "waiting"
  /\ sender[r] \in {"sending", "over"}
  /\ relay' = [relay EXCEPT ![r] = "relaying"]
  /\ UNCHANGED <<sender, server, queue, thread, receiver, rest, data, held, count, got, cut>>

RelayReads(r) ==
  /\ relay[r] = "relaying"
  /\ Takes("relay", "unix", r)
  /\ UNCHANGED <<sender, relay, server, queue, thread, receiver, rest, count, got, cut>>

\* Mutant: the TLS socket does not block either, and sendall raises whenever it
\* would have to wait.
DeliversOrDrops(r) ==
  \/ Fits("tls", r) /\ Put("tls", r, Head(held["relay"][r])) /\ Counts("relay", r)
  \/ UNCHANGED <<data, count>>

\* sendall, or its failure, which the loop takes for a lack of data: what was
\* read is dropped.  After the other end has closed it may still succeed.
Delivers(r) ==
  \/ /\ thread[r] # "over" /\ Fits("tls", r)
     /\ Put("tls", r, Head(held["relay"][r])) /\ Counts("relay", r)
  \/ thread[r] = "over" /\ Counts("relay", r) /\ UNCHANGED data
  \/ thread[r] = "over" /\ UNCHANGED <<data, count>>

RelaySends(r) ==
  /\ relay[r] = "relaying" /\ held["relay"][r] # <<>>
  /\ Delivers(r)
  /\ held' = [held EXCEPT !["relay"][r] = <<>>]
  /\ UNCHANGED <<sender, relay, server, queue, thread, receiver, rest, got, cut>>

\* Mutant: a sender that has closed has nothing left to read.
SenderClosed(r) == sender[r] = "over"

\* recv returns end-of-stream behind the last chunk.
AtEof(r) == sender[r] = "over" /\ data["unix"][r] = <<>>

\* End-of-stream or the end of the time, between two turns of the loop.  The
\* socket closes with the server's session tickets unread, so the network may
\* give up what has not arrived yet.
RelayEnds(r) ==
  /\ relay[r] = "relaying" /\ held["relay"][r] = <<>>
  /\ relay' = [relay EXCEPT ![r] = "over"]
  /\ \E n \in 0..Len(data["tls"][r]) :
       /\ data' = [data EXCEPT !["tls"][r] = SubSeq(@, 1, n), !["unix"][r] = <<>>]
       /\ cut' = IF AtEof(r) /\ n = Len(data["tls"][r]) THEN cut ELSE cut \cup {r}
  /\ UNCHANGED <<sender, server, queue, thread, receiver, rest, held, count, got>>
-----------------------------------------------------------------------------
(* receive.py                                                              *)

ServerAccepts ==
  /\ server = "accepting" /\ queue # <<>>
  /\ server' = "handshake"
  /\ UNCHANGED <<sender, relay, queue, thread, receiver, rest, data, held, count, got, cut>>

\* wrap_socket does the handshake in the accept loop, then a thread starts.
HandshakeEnds ==
  /\ server = "handshake"
  /\ server' = "accepting" /\ queue' = Tail(queue)
  /\ relay' = [relay EXCEPT ![Head(queue)] = "waiting"]
  /\ thread' = [thread EXCEPT ![Head(queue)] = "started"]
  /\ UNCHANGED <<sender, receiver, rest, data, held, count, got, cut>>

\* The process is over: its threads are daemons, its connections are reset.  A
\* client's side of the handshake may have ended all the same (TLS 1.3).
ServerOver ==
  /\ server' = "over" /\ queue' = <<>>
  /\ \E late \in SUBSET (IF server = "handshake" THEN {Head(queue)} ELSE {}) :
       relay' = [r \in Relays |-> IF r \in late THEN "waiting"
                                 ELSE IF r \in Range(queue) THEN "over" ELSE relay[r]]
  /\ thread' = [r \in Relays |-> "over"]
  /\ held' = [held EXCEPT !["thread"] = [r \in Relays |-> <<>>]]
  /\ data' = [data EXCEPT !["tls"] = [r \in Relays |-> <<>>]]
  /\ cut' = cut \cup {r \in Relays : thread[r] # "over"}

\* Its exception leaves the accept loop.
HandshakeFails ==
  /\ server = "handshake" /\ HandshakesFail
  /\ ServerOver
  /\ UNCHANGED <<sender, receiver, rest, count, got>>

CtrlC ==
  /\ server # "over"
  /\ ServerOver
  /\ UNCHANGED <<sender, receiver, rest, count, got>>

\* create_unix_socket_client: the receiver listens until it is over.
ThreadConnects(r) ==
  /\ thread[r] = "started"
  /\ IF receiver \in {"accepting", "reading"}
     THEN /\ thread' = [thread EXCEPT ![r] = "forwarding"]
          /\ links' = Append(links, r)
          /\ UNCHANGED <<data, cut>>
     ELSE /\ thread' = [thread EXCEPT ![r] = "over"]
          /\ data' = [data EXCEPT !["tls"][r] = <<>>]
          /\ cut' = cut \cup {r}
          /\ UNCHANGED links
  /\ UNCHANGED <<sender, relay, server, queue, receiver, running, held, count, got>>

ThreadReads(r) ==
  /\ thread[r] = "forwarding"
  /\ Takes("thread", "tls", r)
  /\ UNCHANGED <<sender, relay, server, queue, thread, receiver, rest, count, got, cut>>

ThreadSends(r) ==
  /\ thread[r] = "forwarding" /\ held["thread"][r] # <<>>
  /\ receiver # "over" /\ Fits("out", r)
  /\ Put("out", r, Head(held["thread"][r]))
  /\ Counts("thread", r)
  /\ held' = [held EXCEPT !["thread"][r] = <<>>]
  /\ UNCHANGED <<sender, relay, server, queue, thread, receiver, rest, got, cut>>

\* End-of-stream, or sendall raises: both connections are closed.
ThreadEnds(r) ==
  /\ thread[r] = "forwarding"
  /\ \/ /\ relay[r] = "over" /\ data["tls"][r] = <<>> /\ held["thread"][r] = <<>>
        /\ UNCHANGED cut
     \/ /\ receiver = "over" /\ held["thread"][r] # <<>>
        /\ cut' = cut \cup {r}
  /\ thread' = [thread EXCEPT ![r] = "over"]
  /\ held' = [held EXCEPT !["thread"][r] = <<>>]
  /\ data' = [data EXCEPT !["tls"][r] = <<>>]
  /\ UNCHANGED <<sender, relay, server, queue, receiver, rest, count, got>>
-----------------------------------------------------------------------------
(* unix-receiver.py                                                        *)

ReceiverStarts ==
  /\ receiver = "off"
  /\ receiver' = "accepting"
  /\ UNCHANGED <<sender, relay, server, queue, thread, rest, data, held, count, got, cut>>

\* The signal handler.  A system call it interrupts is resumed.
Signal ==
  /\ receiver \in {"accepting", "reading"}
  /\ running' = FALSE
  /\ UNCHANGED <<sender, relay, server, queue, thread, receiver, links, data,
                 held, count, got, cut>>

ReceiverAccepts ==
  /\ receiver = "accepting" /\ links # <<>>
  /\ receiver' = "reading"
  /\ UNCHANGED <<sender, relay, server, queue, thread, rest, data, held, count, got, cut>>

\* The loop looks at the flag before it calls recv, not after.
ReceiverReads ==
  /\ receiver = "reading"
  /\ data["out"][Head(links)] # <<>>
  /\ got' = Append(got, Head(data["out"][Head(links)]))
  /\ data' = [data EXCEPT !["out"][Head(links)] = Tail(@)]
  /\ receiver' = IF running THEN "reading" ELSE "over"
  /\ UNCHANGED <<sender, relay, server, queue, thread, rest, held, count, cut>>

\* Mutant: recv has no timeout, so only data or the sender's end wake it.
WakesOnInput ==
  receiver = "reading" /\ (data["out"][Head(links)] # <<>> \/ thread[Head(links)] = "over")

\* The timeout of recv takes the loop to its condition.
LoopWakes == receiver = "reading"

\* The time is up, the flag is cleared, or the sender has closed.
ReceiverEnds ==
  /\ LoopWakes
  /\ receiver' = "over"
  /\ data' = [data EXCEPT !["out"] = [r \in Relays |-> <<>>]]
  /\ UNCHANGED <<sender, relay, server, queue, thread, rest, held, count, got, cut>>
-----------------------------------------------------------------------------
Loops(r) ==
  \/ SenderSends(r) \/ SenderEnds(r)
  \/ RelayAccepts(r) \/ RelayReads(r) \/ RelaySends(r) \/ RelayEnds(r)
  \/ ThreadConnects(r) \/ ThreadReads(r) \/ ThreadSends(r) \/ ThreadEnds(r)

Serves == ServerAccepts \/ HandshakeEnds \/ HandshakeFails
Receives == ReceiverAccepts \/ ReceiverReads \/ ReceiverEnds

Next ==
  \/ \E r \in Relays : Loops(r) \/ SenderStarts(r) \/ RelayStarts(r)
  \/ Serves \/ Receives
  \/ CtrlC \/ ReceiverStarts \/ Signal

\* Every process runs, and every time limit is reached.
Spec ==
  /\ Init /\ [][Next]_vars
  /\ \A r \in Relays : WF_vars(Loops(r))
  /\ WF_vars(Serves) /\ WF_vars(Receives)
-----------------------------------------------------------------------------
(* Properties.                                                             *)

\* Although a relay goes on after a failed send, what the receiver has is the
\* beginning of one sender's data, without a gap.
PrefixReceived ==
  got # <<>> => got = [i \in 1..Len(got) |-> i]

\* The reports of sender, relay and receiving thread agree in the end, unless a
\* time limit or a failure has cut the data off.
ReportsAgree ==
  \A r \in Relays :
    relay[r] = "over" /\ thread[r] = "over" /\ r \notin cut =>
      \A p \in Programs : count[p][r] = count["sender"][r]

\* The end of a relay ends its thread, also one whose connection the receiver
\* never takes because it serves another.
EndReachesThread ==
  \A r \in Relays :
    relay[r] = "over" /\ thread[r] = "forwarding" ~> thread[r] = "over"
=============================================================================
