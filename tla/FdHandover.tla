----------------------------- MODULE FdHandover -----------------------------
(***************************************************************************)
(* migrate-tls: a connection between two hosts from the TLS handshake to   *)
(* QEMU.  On each host a TLS program (tls_client.c, tls_server.c) makes    *)
(* the connection and passes its descriptor over the unix socket           *)
(* /tmp/fd_socket to a script (qemu-send.py, qemu-rec.py), which passes it *)
(* on to QEMU's monitor.  The kernel closes the connection when nobody     *)
(* holds a copy of the descriptor any more, and shutdown(2) by one holder  *)
(* is felt by all.                                                         *)
(***************************************************************************)
EXTENDS Naturals

CONSTANTS
  MaxStarts,  \* bound on the starts of tls_client and of the scripts
  Interrupts  \* the operator may stop a program

ASSUME StartsAssumption == MaxStarts \in Nat /\ Interrupts \in BOOLEAN

Hosts == {"src", "dst"}

\* Who can hold a copy: a program, the message on the unix socket, QEMU's
\* monitor (sent, not named yet), its named descriptors, its migration.
Holders == {"program", "message", "script", "monitor", "named", "migration"}

VARIABLES
  program,  \* the TLS programs
  script,   \* the scripts
  copies,   \* the holders of each end of the connection
  done,     \* the TLS handshake of this connection is done at this end
  shut,     \* the client has called shutdown(2) on it
  backlog,  \* the client's connection waits for the server's accept
  path,     \* the unix socket path on each host
  link,     \* the program's connection to the script, until the script closes it
  left,     \* connections of ended programs that the script has not accepted
  starts

vars == <<program, script, copies, done, shut, backlog, path, link, left, starts>>
tls == <<done, shut, backlog>>
unix == <<path, link, left>>

Queue == 2  \* what listen(1) lets wait on Linux

TypeOK ==
  /\ program \in [Hosts -> {"off", "accepting", "handshake", "offering",
                            "connected", "sent", "closing", "over"}]
  /\ script \in [Hosts -> {"off", "listening", "receiving", "alone", "main",
                           "getfd", "migrate", "over"}]
  /\ copies \in [Hosts -> SUBSET Holders]
  /\ done \in [Hosts -> BOOLEAN]
  /\ shut \in BOOLEAN
  /\ backlog \in BOOLEAN
  /\ path \in [Hosts -> {"none", "stale", "bound"}]
  /\ link \in [Hosts -> {"none", "queued", "accepted"}]
  /\ left \in [Hosts -> 0..Queue]
  /\ starts \in 0..MaxStarts
  /\ \A h \in Hosts :
       /\ path[h] = "bound" <=> script[h] \in {"listening", "receiving"}
       /\ link[h] # "none" \/ left[h] > 0 => path[h] = "bound"
       /\ link[h] = "accepted" => script[h] = "receiving"
       /\ left[h] = Queue => link[h] # "queued"

Init ==
  /\ program = [h \in Hosts |-> "off"]
  /\ script = [h \in Hosts |-> "off"]
  /\ copies = [h \in Hosts |-> {}]
  /\ done = [h \in Hosts |-> FALSE]
  /\ shut = FALSE
  /\ backlog = FALSE
  /\ path = [h \in Hosts |-> "none"]
  /\ link = [h \in Hosts |-> "none"]
  /\ left = [h \in Hosts |-> 0]
  /\ starts = 0

Gives(h, from, to) == copies' = [copies EXCEPT ![h] = (@ \ from) \cup to]
-----------------------------------------------------------------------------
(* The TLS programs: connection and handshake.                             *)

ServerStarts ==
  /\ program["dst"] = "off"
  /\ program' = [program EXCEPT !["dst"] = "accepting"]
  /\ UNCHANGED <<script, copies, tls, unix, starts>>

\* tls_client, first or again: tcp_connect, or its exit(1).
ClientStarts ==
  /\ program["src"] \in {"off", "over"}
  /\ starts < MaxStarts /\ ~backlog
  /\ \A h \in Hosts : copies[h] = {}
  /\ starts' = starts + 1
  /\ IF program["dst"] \in {"off", "over"}
     THEN /\ program' = [program EXCEPT !["src"] = "over"]
          /\ UNCHANGED <<copies, tls>>
     ELSE /\ program' = [program EXCEPT !["src"] = "handshake"]
          /\ Gives("src", {}, {"program"})
          /\ done' = [h \in Hosts |-> FALSE]
          /\ shut' = FALSE
          /\ backlog' = TRUE
  /\ UNCHANGED <<script, unix>>

ServerAccepts ==
  /\ program["dst"] = "accepting" /\ backlog
  /\ backlog' = FALSE
  /\ program' = [program EXCEPT !["dst"] = "handshake"]
  /\ Gives("dst", {}, {"program"})
  /\ UNCHANGED <<script, done, shut, unix, starts>>

\* The client's last message ends its handshake, and then the server's.
HandshakeEnds(h) ==
  /\ program[h] = "handshake" /\ ~backlog
  /\ IF h = "src" THEN program["dst"] = "handshake" ELSE done["src"]
  /\ done' = [done EXCEPT ![h] = TRUE]
  /\ program' = [program EXCEPT ![h] = "offering"]
  /\ UNCHANGED <<script, copies, shut, backlog, unix, starts>>

\* Mutant: the server goes on with a connection whose handshake failed.
HandshakePasses(h) ==
  /\ program[h] = "handshake"
  /\ program' = [program EXCEPT ![h] = IF h = "src" THEN "closing" ELSE "offering"]
  /\ UNCHANGED <<script, copies, tls, unix, starts>>

\* An error, or the handshake's timeout: the client goes to its end, the
\* server closes the connection and goes on accepting.
HandshakeFails(h) ==
  /\ program[h] = "handshake"
  /\ \/ /\ h = "src"
        /\ program' = [program EXCEPT ![h] = "closing"]
        /\ UNCHANGED copies
     \/ /\ h = "dst"
        /\ program' = [program EXCEPT ![h] = "accepting"]
        /\ Gives(h, {"program"}, {})
  /\ UNCHANGED <<script, tls, unix, starts>>

\* The end of the client's main: tcp_close.  shutdown acts on the connection if
\* the program's descriptor is still open, whoever else has a copy.
TcpClose ==
  /\ program["src"] = "closing"
  /\ program' = [program EXCEPT !["src"] = "over"]
  /\ shut' = (shut \/ "program" \in copies["src"])
  /\ Gives("src", {"program"}, {})
  /\ UNCHANGED <<script, done, backlog, unix, starts>>
-----------------------------------------------------------------------------
(* prepare_and_send_fd.                                                    *)

\* connect to the script, or exit.  The connection waits for accept, also while
\* the script is receiving on another one; when the queue is full, connect waits.
Offer(h) ==
  /\ program[h] = "offering"
  /\ \/ /\ path[h] = "bound" /\ left[h] < Queue
        /\ program' = [program EXCEPT ![h] = "connected"]
        /\ link' = [link EXCEPT ![h] = "queued"]
        /\ UNCHANGED copies
     \/ /\ path[h] # "bound"
        /\ program' = [program EXCEPT ![h] = "over"]
        /\ Gives(h, {"program"}, {})
        /\ UNCHANGED link
  /\ UNCHANGED <<script, tls, path, left, starts>>

\* send_fd, whether accepted or not; it fails when the script is gone.
SendFd(h) ==
  /\ program[h] = "connected"
  /\ \/ /\ link[h] # "none"
        /\ program' = [program EXCEPT ![h] = "sent"]
        /\ Gives(h, {}, {"message"})
     \/ /\ link[h] = "none"
        /\ program' = [program EXCEPT ![h] = "over"]
        /\ Gives(h, {"program"}, {})
  /\ UNCHANGED <<script, tls, unix, starts>>

\* What follows prepare_and_send_fd: the client's end, or the server's, which
\* stops listening.
Returns(h) ==
  program' = [program EXCEPT ![h] = IF h = "src" THEN "closing" ELSE "over"]

\* Mutant: recv waits for the acknowledgment that its comment speaks of.
WaitForAck(h) == FALSE

\* Mutant: file_fd is not closed.
KeepsFd(h) ==
  /\ program[h] = "sent" /\ link[h] = "none"
  /\ Returns(h)
  /\ UNCHANGED <<script, copies, tls, unix, starts>>

\* recv returns, because the script closes: sock_fd and file_fd are closed.
Answered(h) ==
  /\ program[h] = "sent" /\ link[h] = "none"
  /\ Returns(h)
  /\ Gives(h, {"program"}, {})
  /\ UNCHANGED <<script, tls, unix, starts>>
-----------------------------------------------------------------------------
(* The scripts: receive_fd and main.                                       *)

\* A path that is there is unlinked; bind, listen.
ScriptStarts(h) ==
  /\ script[h] \in {"off", "over"}
  /\ starts < MaxStarts
  /\ starts' = starts + 1
  /\ script' = [script EXCEPT ![h] = "listening"]
  /\ path' = [path EXCEPT ![h] = "bound"]
  /\ UNCHANGED <<program, copies, tls, link, left>>

\* The first connection that waits.
Accept(h) ==
  /\ script[h] = "listening"
  /\ \/ /\ left[h] > 0
        /\ left' = [left EXCEPT ![h] = @ - 1]
        /\ UNCHANGED link
     \/ /\ left[h] = 0 /\ link[h] = "queued"
        /\ link' = [link EXCEPT ![h] = "accepted"]
        /\ UNCHANGED left
  /\ script' = [script EXCEPT ![h] = "receiving"]
  /\ UNCHANGED <<program, copies, tls, path, starts>>

\* The listening socket is closed, and with it every connection that waits.
NoMoreLinks(h) ==
  /\ link' = [link EXCEPT ![h] = "none"]
  /\ left' = [left EXCEPT ![h] = 0]

\* Mutant: the finally clause forgets the sockets, and leaves them open.
ReceiveFdLinked(h) ==
  /\ script[h] = "receiving" /\ link[h] = "accepted" /\ "message" \in copies[h]
  /\ Gives(h, {"message"}, {"script"})
  /\ script' = [script EXCEPT ![h] = "main"]
  /\ path' = [path EXCEPT ![h] = "none"]
  /\ UNCHANGED <<program, tls, link, left, starts>>

\* recvmsg gives the descriptor, or nothing on the connection of a program that
\* is gone; the finally clause closes both sockets and removes the path, and
\* with them goes a message on a connection that was still waiting.
ReceiveFd(h) ==
  /\ script[h] = "receiving"
  /\ \/ /\ link[h] = "accepted" /\ "message" \in copies[h]
        /\ Gives(h, {"message"}, {"script"})
        /\ script' = [script EXCEPT ![h] = "main"]
     \/ /\ link[h] # "accepted"
        /\ Gives(h, {"message"}, {})
        /\ script' = [script EXCEPT ![h] = "alone"]
  /\ NoMoreLinks(h)
  /\ path' = [path EXCEPT ![h] = "none"]
  /\ UNCHANGED <<program, tls, starts>>

Ends(h) == script' = [script EXCEPT ![h] = "over"]

\* main(None) makes a connection of its own, but keeps only the number of its
\* descriptor: the socket object is gone and has closed it, so passing the
\* number to QEMU raises.  So does a connection that cannot be made.
OwnConnection(h) ==
  /\ script[h] = "alone"
  /\ Ends(h)
  /\ UNCHANGED <<program, copies, tls, unix, starts>>

\* query-status, migrate-set-parameters, send_fd_scm; or one of them, or the
\* connection to the monitor, raises.
SendFdScm(h) ==
  /\ script[h] = "main"
  /\ \/ /\ script' = [script EXCEPT ![h] = "getfd"]
        /\ Gives(h, {}, {"monitor"})
     \/ Ends(h) /\ Gives(h, {"script"}, {})
  /\ UNCHANGED <<program, tls, unix, starts>>

\* After an error of getfd the monitor is left: migrate raises as well.
GetFd(h) ==
  /\ script[h] = "getfd"
  /\ \/ /\ script' = [script EXCEPT ![h] = "migrate"]
        /\ Gives(h, {"monitor"}, {"named"})
     \/ Ends(h) /\ Gives(h, {"monitor", "script"}, {})
  /\ UNCHANGED <<program, tls, unix, starts>>

\* migrate or migrate-incoming takes the named descriptor; refused, QEMU may
\* keep it or have closed it.  The script ends, and its copy with it.
Migrate(h) ==
  /\ script[h] = "migrate"
  /\ Ends(h)
  /\ \/ Gives(h, {"named", "script"}, {"migration"})
     \/ Gives(h, {"named", "script"}, {})
     \/ Gives(h, {"script"}, {})
  /\ UNCHANGED <<program, tls, unix, starts>>
-----------------------------------------------------------------------------
(* QEMU and the operator.                                                  *)

QemuCloses(h) ==
  /\ copies[h] \cap {"named", "migration"} # {} /\ script[h] # "migrate"
  /\ Gives(h, {"named", "migration"}, {})
  /\ UNCHANGED <<program, script, tls, unix, starts>>

\* A message that it has sent stays on its connection; without one the script
\* will find that connection ended.
ProgramKilled(h) ==
  /\ Interrupts /\ program[h] \notin {"off", "over"}
  /\ program' = [program EXCEPT ![h] = "over"]
  /\ Gives(h, {"program"}, {})
  /\ IF "message" \in copies[h]
     THEN UNCHANGED <<link, left>>
     ELSE /\ link' = [link EXCEPT ![h] = "none"]
          /\ left' = [left EXCEPT ![h] = IF link[h] = "queued" THEN @ + 1 ELSE @]
  /\ UNCHANGED <<script, tls, path, starts>>

\* accept is outside the try block: stopped there, the script leaves its path.
ScriptKilled(h) ==
  /\ Interrupts /\ script[h] \notin {"off", "over"}
  /\ Ends(h)
  /\ Gives(h, {"message", "script", "monitor"}, {})
  /\ NoMoreLinks(h)
  /\ path' = [path EXCEPT ![h] = IF script[h] = "listening" THEN "stale" ELSE "none"]
  /\ UNCHANGED <<program, tls, starts>>
-----------------------------------------------------------------------------
ProgramStep(h) ==
  \/ HandshakeEnds(h) \/ HandshakeFails(h)
  \/ Offer(h) \/ SendFd(h) \/ Answered(h)
  \/ h = "src" /\ TcpClose

ScriptStep(h) ==
  \/ Accept(h) \/ ReceiveFd(h) \/ OwnConnection(h)
  \/ SendFdScm(h) \/ GetFd(h) \/ Migrate(h)

Next ==
  \/ ServerStarts \/ ClientStarts \/ ServerAccepts
  \/ \E h \in Hosts :
       \/ ProgramStep(h) \/ ScriptStep(h) \/ ScriptStarts(h)
       \/ QemuCloses(h) \/ ProgramKilled(h) \/ ScriptKilled(h)

\* Each process runs until it waits for another; a handshake has a timeout,
\* and QEMU answers its monitor.
Spec ==
  /\ Init /\ [][Next]_vars
  /\ WF_vars(ServerAccepts)
  /\ \A h \in Hosts : WF_vars(ProgramStep(h)) /\ WF_vars(ScriptStep(h))
-----------------------------------------------------------------------------
(* Properties.                                                             *)

\* tcp_close comes after the hand-over on the client's path, too: it finds an
\* open descriptor only if nobody else has a copy of the connection.
ShutsNothingShared == shut => copies["src"] = {}

\* What leaves a TLS program is a connection whose handshake it has completed,
\* and the server's only one that the client has completed, too.
HandshakeFirst ==
  \A h \in Hosts :
    copies[h] \ {"program"} # {} => done[h] /\ done["src"]

\* Programs and scripts let go of the connection in the end, whatever fails or
\* is stopped: it is QEMU's, or it is closed and the other host notices.
EverybodyLetsGo ==
  \A h \in Hosts :
    [](copies[h] # {} => <>(copies[h] \subseteq {"named", "migration"}))
=============================================================================
