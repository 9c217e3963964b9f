----------------------------- MODULE QmpSession -----------------------------
(***************************************************************************)
(* The scripts that drive a migration through a proxy pair:                *)
(* unix-send-*.py and unix-receive-*.py, each with the QEMU on its host    *)
(* and the proxy pair between the two QEMUs.  A script is a sequence of    *)
(* QMP commands and then a loop that asks for the status; the operator     *)
(* starts the scripts in any order, starts them again, and stops them.     *)
(***************************************************************************)
EXTENDS Naturals

CONSTANTS
  Channels,  \* the scripts' multifd-channels: 1 (tcp) or 2 (websocket)
  Attempts,  \* max_retries of the server proxy
  MaxRuns    \* bound on the runs of a script

ASSUME SessionAssumption ==
  Channels \in {1, 2} /\ Attempts \in Nat \ {0} /\ MaxRuns \in Nat

VARIABLES
  script,    \* "off", "connected", "capable", "configured", "monitoring", "over"
  runs,
  status,    \* of QEMU's migration, as query-migrate has it: "unknown", one of
             \* Running or Terminal, or "gone" with the process
  settings,  \* QEMU's multifd capability and multifd-channels
  tunnel,    \* "none", "trying" to reach the destination, "joined", "over", or
             \* "abandoned": the source is connected to a client proxy that
             \* does nothing for it any more
  attempt    \* of the server proxy: 0..Attempts

vars == <<script, runs, status, settings, tunnel, attempt>>

Hosts == {"src", "dst"}
Running == {"setup", "active", "cancelling"}
Terminal == {"completed", "failed", "cancelled"}

\* QEMU's own defaults are no multifd, and two channels.
Init ==
  /\ script = [h \in Hosts |-> "off"] /\ runs = [h \in Hosts |-> 0]
  /\ status = [h \in Hosts |-> "unknown"]
  /\ settings = [h \in Hosts |-> [multifd |-> FALSE, channels |-> 2]]
  /\ tunnel = "none" /\ attempt = 0
-----------------------------------------------------------------------------
(* The scripts.                                                            *)

ScriptEnds(h) == script' = [script EXCEPT ![h] = "over"]

\* connect and query-status; without QEMU it raises.
ScriptStarts(h) ==
  /\ script[h] \in {"off", "over"} /\ runs[h] < MaxRuns
  /\ runs' = [runs EXCEPT ![h] = @ + 1]
  /\ script' = [script EXCEPT ![h] = IF status[h] = "gone" THEN "over" ELSE "connected"]
  /\ UNCHANGED <<status, settings, tunnel, attempt>>

\* A command is an error while an outgoing migration runs, or when QEMU is gone:
\* execute raises, and the script disconnects.
Refused(h) == status[h] = "gone" \/ (h = "src" /\ status[h] \in Running)

Command(h, from, to) ==
  /\ script[h] = from
  /\ script' = [script EXCEPT ![h] = IF Refused(h) THEN "over" ELSE to]

SetCapabilities(h) ==
  /\ Command(h, "connected", "capable")
  /\ settings' = IF Refused(h) THEN settings ELSE [settings EXCEPT ![h].multifd = TRUE]
  /\ UNCHANGED <<runs, status, tunnel, attempt>>

SetParameters(h) ==
  /\ Command(h, "capable", "configured")
  /\ settings' = IF Refused(h) THEN settings ELSE [settings EXCEPT ![h].channels = Channels]
  /\ UNCHANGED <<runs, status, tunnel, attempt>>

\* Mutant: the migration is started before the parameters are set.
MigrateFirst ==
  /\ script["src"] = "capable"
  /\ IF Refused("src")
     THEN ScriptEnds("src") /\ UNCHANGED <<status, tunnel, attempt>>
     ELSE /\ script' = [script EXCEPT !["src"] = "monitoring"]
          /\ status' = [status EXCEPT !["src"] = "setup"]
          /\ tunnel' = "trying" /\ attempt' = 0
  /\ UNCHANGED <<runs, settings>>

\* QEMU connects to the client proxy and waits; without a proxy it fails (when
\* the client proxy cannot reach the other one: ConnectionFails).  It
\* refuses after a migration that was completed.
Migrate ==
  /\ script["src"] = "configured"
  /\ IF Refused("src") \/ status["src"] = "completed"
     THEN ScriptEnds("src") /\ UNCHANGED <<status, tunnel, attempt>>
     ELSE /\ script' = [script EXCEPT !["src"] = "monitoring"]
          /\ \/ /\ status' = [status EXCEPT !["src"] = "setup"]
                /\ tunnel' = "trying" /\ attempt' = 0
             \/ /\ status' = [status EXCEPT !["src"] = "failed"]
                /\ UNCHANGED <<tunnel, attempt>>
  /\ UNCHANGED <<runs, settings>>

\* A QEMU takes migrate-incoming once.
MigrateIncoming ==
  /\ script["dst"] = "configured"
  /\ IF status["dst"] # "unknown"
     THEN ScriptEnds("dst") /\ UNCHANGED status
     ELSE /\ script' = [script EXCEPT !["dst"] = "monitoring"]
          /\ status' = [status EXCEPT !["dst"] = "setup"]
  /\ UNCHANGED <<runs, settings, tunnel, attempt>>

\* Mutant: 'cancelled' is not one of the statuses that end the loop.
EndsUnlessCancelled == Terminal \ {"cancelled"}

\* The statuses that end the loop.
EndStatuses == Terminal

\* One turn of the loop that changes something: the script ends, on a status of
\* these or because execute raises.
Polls(h) ==
  /\ script[h] = "monitoring"
  /\ status[h] \in EndStatuses \cup {"gone"}
  /\ ScriptEnds(h)
  /\ UNCHANGED <<runs, status, settings, tunnel, attempt>>

\* Ctrl-C: the finally clause disconnects, QEMU goes on.
ScriptStops(h) ==
  /\ script[h] \notin {"off", "over"}
  /\ ScriptEnds(h)
  /\ UNCHANGED <<runs, status, settings, tunnel, attempt>>
-----------------------------------------------------------------------------
(* The QEMUs and the proxies.                                              *)

\* The connection between the QEMUs is over: a migration that was running on it
\* is no longer, and a destination that fails exits.
Broken(st) ==
  /\ status' = [status EXCEPT !["src"] = st,
       !["dst"] = IF @ = "active" THEN "gone" ELSE @]
  /\ tunnel' = "over"

\* The same, but the client proxy leaves the source's connection open: its
\* websockets.connect failed, or tcp_writer.wait_closed raised and the event
\* loop does not close what the handler has accepted.
Abandons ==
  /\ status' = [status EXCEPT !["dst"] = IF @ = "active" THEN "gone" ELSE @]
  /\ tunnel' = "abandoned"

\* The proxies lose the connection.
Lost ==
  \/ Broken(IF status["src"] = "cancelling" THEN "cancelled" ELSE "failed")
  \/ Abandons

Retries ==
  /\ tunnel = "trying" /\ status["dst"] # "setup" /\ attempt < Attempts
  /\ attempt' = attempt + 1
  /\ UNCHANGED <<script, runs, status, settings, tunnel>>

Joins ==
  /\ tunnel = "trying" /\ status["dst"] = "setup" /\ attempt < Attempts
  /\ tunnel' = "joined"
  /\ status' = [h \in Hosts |-> IF status[h] = "setup" THEN "active" ELSE status[h]]
  /\ UNCHANGED <<script, runs, settings, attempt>>

GivesUp ==
  /\ tunnel = "trying" /\ attempt = Attempts
  /\ Lost
  /\ UNCHANGED <<script, runs, settings, attempt>>

\* The source is done when all is sent, the destination when all is read.
SourceCompletes ==
  /\ tunnel = "joined" /\ status["src"] = "active"
  /\ status' = [status EXCEPT !["src"] = "completed"]
  /\ tunnel' = "over"
  /\ UNCHANGED <<script, runs, settings, attempt>>

DestinationEnds ==
  /\ tunnel = "over" /\ status["dst"] = "active"
  /\ \E st \in {"completed", "gone"} : status' = [status EXCEPT !["dst"] = st]
  /\ UNCHANGED <<script, runs, settings, tunnel, attempt>>

\* migrate_cancel by somebody else, and its effect.
Cancelling ==
  /\ status["src"] \in {"setup", "active"}
  /\ status' = [status EXCEPT !["src"] = "cancelling"]
  /\ UNCHANGED <<script, runs, settings, tunnel, attempt>>

Cancelled ==
  /\ status["src"] = "cancelling"
  /\ Broken("cancelled")
  /\ UNCHANGED <<script, runs, settings, attempt>>

\* The client proxy cannot reach the other one, or the connection between the
\* two breaks down, before or after it goes through to the destination.
ConnectionFails ==
  /\ tunnel \in {"trying", "joined"}
  /\ Lost
  /\ UNCHANGED <<script, runs, settings, attempt>>

\* The server proxy does not look at the client's connection while it tries: it
\* reaches a destination that starts to listen for a source that has left.
LateConnection ==
  /\ tunnel \in {"over", "abandoned"} /\ attempt < Attempts
  /\ status["dst"] = "setup"
  /\ status' = [status EXCEPT !["dst"] = "gone"]
  /\ UNCHANGED <<script, runs, settings, tunnel, attempt>>

\* A QEMU quits: the other notices if they were connected.
SourceQuits ==
  /\ status["src"] \in Running
  /\ Broken("gone")
  /\ UNCHANGED <<script, runs, settings, attempt>>

DestinationQuits ==
  /\ status["dst"] \in Running
  /\ \/ tunnel = "joined" /\ Lost
     \/ /\ tunnel # "joined"
        /\ status' = [status EXCEPT !["dst"] = "gone"]
        /\ UNCHANGED tunnel
  /\ UNCHANGED <<script, runs, settings, attempt>>
-----------------------------------------------------------------------------
ScriptStep(h) == SetCapabilities(h) \/ SetParameters(h) \/ Polls(h)
SourceStep == Migrate \/ ScriptStep("src")
DestinationStep == MigrateIncoming \/ ScriptStep("dst")
ProxyStep == Retries \/ Joins \/ GivesUp
QemuStep == SourceCompletes \/ DestinationEnds \/ Cancelled

Next ==
  \/ SourceStep \/ DestinationStep \/ ProxyStep \/ QemuStep
  \/ Cancelling \/ ConnectionFails \/ LateConnection
  \/ SourceQuits \/ DestinationQuits
  \/ \E h \in Hosts : ScriptStarts(h) \/ ScriptStops(h)

\* The scripts and the proxies run, and QEMU gets on with a migration.
Spec ==
  /\ Init /\ [][Next]_vars
  /\ WF_vars(SourceStep) /\ WF_vars(DestinationStep)
  /\ WF_vars(ProxyStep) /\ WF_vars(QemuStep)
-----------------------------------------------------------------------------
(* Properties.                                                             *)

\* When the QEMUs are connected, both have multifd with the same number of
\* channels, whatever the order in which the two scripts were started, stopped
\* and started again, and although each sets only its own side.
SettingsAgree ==
  tunnel = "joined" =>
    /\ settings["src"] = settings["dst"]
    /\ settings["src"] = [multifd |-> TRUE, channels |-> Channels]

\* Every way in which a migration can end is one that the loops know.  The
\* source's script ends, also without a destination, unless the client proxy has
\* abandoned its QEMU: that one is still active, and the script asks for ever,
\* but migrate_cancel gets it out.  The destination's script ends if the QEMUs
\* have been connected, also when the source is abandoned.  Otherwise it cannot
\* promise that: with no migration coming, its loop goes on.
ScriptsEnd ==
  /\ script["src"] = "monitoring" ~> script["src"] = "over" \/ tunnel = "abandoned"
  /\ status["src"] = "cancelling" ~> script["src"] # "monitoring"
  /\ tunnel = "joined" ~> script["dst"] # "monitoring"
=============================================================================
