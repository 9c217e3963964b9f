----------------------------- MODULE ReusePort ------------------------------
(***************************************************************************)
(* reuse-port: servers on one port, of which a BPF program picks one for   *)
(* each connection.  The program finds the servers in the map mig_servers, *)
(* at index 0 for even source ports and 1 for odd ones; a server enters    *)
(* itself at whatever index it is started with.  load.sh pins a program    *)
(* and its map, unload.sh removes the two names and nothing else: a        *)
(* program that is attached goes on running on its map, so after the next  *)
(* load.sh there are two of each.  A program is known by its map, a map by *)
(* the number of the load that made it.                                    *)
(***************************************************************************)
EXTENDS Naturals, FiniteSets, TLC

CONSTANTS
  Servers,   \* ./tcp-server, one process after the other under each name
  Conns,     \* the connections, one after the other under each name
  MaxLoads,  \* bound on the runs of load.sh
  MapSize,   \* entries of mig_servers: 128
  Arguments, \* what servers are started with, in the map or not
  NoServer

Parities == 0..1              \* the indexes that the selector looks at
Indexes == 0 .. MapSize - 1
Keys == {0} \cup Arguments     \* 0 without an argument

ASSUME ReuseAssumption ==
  /\ MaxLoads \in Nat /\ MapSize \in Nat \ Parities
  /\ Arguments \subseteq Nat /\ NoServer \notin Servers

\* For TLC.
Symmetry == Permutations(Servers) \cup Permutations(Conns)

VARIABLES
  pinned,    \* the two names under /sys/fs/bpf, 0 for none
  loads,
  unloading, \* unload.sh is between its two calls of rm
  attached,  \* the program of the group of listening sockets, 0 for none
  slot,      \* the maps
  server,
  key,       \* key_index
  prog,      \* bpf_prog_fd
  conn,      \* a connection, the parity of its source port, the server it is
             \* at, and history: it came before any server had attached a program
  cause      \* history: the first reason why a server may be out of reach

vars == <<pinned, loads, unloading, attached, slot, server, key, prog, conn, cause>>
scripts == <<pinned, loads, unloading>>

Loads == 1..MaxLoads
Listening == {s \in Servers : server[s] # "off"}
Attached == {s \in Servers : server[s] \in {"attached", "serving"}}
Handled(s) == {c \in Conns : conn[c].at = s /\ conn[c].state = "handled"}
Idle == [state |-> "new", parity |-> 0, at |-> NoServer, early |-> FALSE]

TypeOK ==
  /\ pinned \in [{"program", "map"} -> 0..MaxLoads] /\ loads \in 0..MaxLoads
  /\ unloading \in BOOLEAN /\ attached \in 0..loads
  /\ slot \in [Loads -> [Indexes -> Servers \cup {NoServer}]]
  /\ server \in [Servers -> {"off", "listening", "loaded", "attached", "serving"}]
  /\ key \in [Servers -> Keys] /\ prog \in [Servers -> 0..MaxLoads]
  /\ conn \in [Conns -> [state : {"new", "queued", "handled"}, parity : Parities,
                        at : Servers \cup {NoServer}, early : BOOLEAN]]
  /\ cause \in [Servers -> {"none", "not entered", "other map", "other program", "replaced"}]
  /\ \A s \in Servers : Cardinality(Handled(s)) <= 1

Init ==
  /\ pinned = [n \in {"program", "map"} |-> 0] /\ loads = 0 /\ unloading = FALSE
  /\ attached = 0 /\ slot = [m \in Loads |-> [k \in Indexes |-> NoServer]]
  /\ server = [s \in Servers |-> "off"]
  /\ key = [s \in Servers |-> 0] /\ prog = [s \in Servers |-> 0]
  /\ conn = [c \in Conns |-> Idle]
  /\ cause = [s \in Servers |-> "none"]
-----------------------------------------------------------------------------
(* The scripts.                                                            *)

\* bpftool loads the program with the map that the map's name stands for, or
\* with a new one, which it pins.  Then it pins the program, which fails where
\* there is one by that name.
Load ==
  /\ \/ pinned["map"] = 0 /\ loads < MaxLoads /\ loads' = loads + 1
     \/ pinned["map"] # 0 /\ UNCHANGED loads
  /\ LET m == IF pinned["map"] = 0 THEN loads' ELSE pinned["map"] IN
     pinned' = [n \in {"program", "map"} |->
                  IF n = "program" /\ pinned[n] # 0 THEN pinned[n] ELSE m]
  /\ UNCHANGED <<unloading, attached, slot, server, key, prog, conn, cause>>

\* unload.sh: two calls of rm, whatever there is by then.
Unpin(name) ==
  /\ unloading = (name = "map")
  /\ unloading' = ~unloading
  /\ pinned' = [pinned EXCEPT ![name] = 0]
  /\ UNCHANGED <<loads, attached, slot, server, key, prog, conn, cause>>
-----------------------------------------------------------------------------
(* tcp-server.c: create_tcp_server.                                        *)

\* The end of the process closes its socket: it leaves the maps, the group
\* with the last socket its program, and what is in its queue is reset.
ServerOver(s) ==
  /\ server' = [server EXCEPT ![s] = "off"]
  /\ slot' = [m \in Loads |-> [k \in Indexes |->
                IF slot[m][k] = s THEN NoServer ELSE slot[m][k]]]
  /\ attached' = IF Listening = {s} THEN 0 ELSE attached
  /\ conn' = [c \in Conns |-> IF conn[c].at = s THEN Idle ELSE conn[c]]
  /\ key' = [key EXCEPT ![s] = 0] /\ prog' = [prog EXCEPT ![s] = 0]
  /\ cause' = [cause EXCEPT ![s] = "none"]

\* main takes any index; socket, setsockopt, bind, listen: from here on
\* connections come in.
Listens(s) ==
  /\ server[s] = "off"
  /\ \E k \in Keys : key' = [key EXCEPT ![s] = k]
  /\ server' = [server EXCEPT ![s] = "listening"]
  /\ UNCHANGED <<scripts, attached, slot, prog, conn, cause>>

\* get_pinned_bpf_prog; without the program the server exits.
GetPinnedProg(s) ==
  /\ server[s] = "listening"
  /\ IF pinned["program"] = 0
     THEN ServerOver(s)
     ELSE /\ server' = [server EXCEPT ![s] = "loaded"]
          /\ prog' = [prog EXCEPT ![s] = pinned["program"]]
          /\ UNCHANGED <<attached, slot, key, conn, cause>>
  /\ UNCHANGED scripts

\* SO_ATTACH_REUSEPORT_EBPF is for the whole group.
Attach(s) ==
  /\ server[s] = "loaded"
  /\ server' = [server EXCEPT ![s] = "attached"]
  /\ attached' = prog[s] /\ prog' = [prog EXCEPT ![s] = 0]
  /\ cause' = [t \in Servers |->
       IF server[t] = "serving" /\ cause[t] = "none" /\ attached \notin {0, prog[s]}
       THEN "other program" ELSE cause[t]]
  /\ UNCHANGED <<scripts, slot, key, conn>>

\* Mutant: every server enters itself at index 0.
EntersFirst(s, m) == slot' = [slot EXCEPT ![m][0] = s]

\* bpf_map_update_elem with BPF_ANY.
Enters(s, m) == slot' = [slot EXCEPT ![m][key[s]] = s]

\* update_bpf_map_pinned.  If there is no map by that name, or no such index in
\* it, there is a warning, and the server goes on.
UpdateMap(s) ==
  /\ server[s] = "attached"
  /\ server' = [server EXCEPT ![s] = "serving"]
  /\ LET m == pinned["map"] IN
     IF m = 0 \/ key[s] \notin Indexes
     THEN /\ cause' = [cause EXCEPT ![s] = "not entered"]
          /\ UNCHANGED slot
     ELSE /\ Enters(s, m)
          /\ cause' = [t \in Servers |->
               IF t = s /\ m # attached THEN "other map"
               ELSE IF t # s /\ slot[m][key[s]] = t /\ cause[t] = "none" THEN "replaced"
               ELSE cause[t]]
  /\ UNCHANGED <<scripts, attached, key, prog, conn>>
-----------------------------------------------------------------------------
(* tcp-server.c: main and handle_client.                                   *)

\* Mutant: a process or thread of its own for each client.
AcceptAtOnce(s, c) ==
  /\ server[s] = "serving"
  /\ conn[c].at = s /\ conn[c].state = "queued"
  /\ conn' = [conn EXCEPT ![c].state = "handled"]
  /\ UNCHANGED <<scripts, attached, slot, server, key, prog, cause>>

Accept(s, c) ==
  /\ server[s] = "serving" /\ Handled(s) = {}
  /\ conn[c].at = s /\ conn[c].state = "queued"
  /\ conn' = [conn EXCEPT ![c].state = "handled"]
  /\ UNCHANGED <<scripts, attached, slot, server, key, prog, cause>>

\* read waits for the client; then the answer, if it has sent something.
HandleClient(s, c) ==
  /\ c \in Handled(s)
  /\ conn' = [conn EXCEPT ![c] = Idle]
  /\ UNCHANGED <<scripts, attached, slot, server, key, prog, cause>>

Killed(s) ==
  /\ s \in Listening
  /\ ServerOver(s)
  /\ UNCHANGED scripts
-----------------------------------------------------------------------------
(* A new connection.                                                       *)

\* Mutant: where the map has no server, the selector leaves the choice to the
\* kernel (SK_PASS with nothing selected) instead of SK_DROP.
SelectorPasses(p) ==
  IF slot[attached][p] = NoServer THEN Listening ELSE {slot[attached][p]}

\* hot_standby_selector: the map's server, or SK_DROP.
HotStandbySelector(p) == {slot[attached][p]} \ {NoServer}

\* The kernel asks the group's program, or takes any socket without one.
Candidates(p) == IF attached = 0 THEN Listening ELSE HotStandbySelector(p)

Arrives(c) ==
  /\ conn[c].state = "new"
  /\ \E p \in Parities :
       \/ /\ Candidates(p) = {}
          /\ conn' = [conn EXCEPT ![c] = Idle]
       \/ \E s \in Candidates(p) :
            conn' = [conn EXCEPT ![c] =
              [state |-> "queued", parity |-> p, at |-> s, early |-> Attached = {}]]
  /\ UNCHANGED <<scripts, attached, slot, server, key, prog, cause>>
-----------------------------------------------------------------------------
Next ==
  \/ Load \/ \E name \in {"program", "map"} : Unpin(name)
  \/ \E s \in Servers :
       \/ Listens(s) \/ GetPinnedProg(s) \/ Attach(s) \/ UpdateMap(s) \/ Killed(s)
       \/ \E c \in Conns : Accept(s, c) \/ HandleClient(s, c)
  \/ \E c \in Conns : Arrives(c)

Spec == Init /\ [][Next]_vars
-----------------------------------------------------------------------------
(* Properties.                                                             *)

\* A connection gets to the server for the other parity only if it came before
\* any of the servers then alive had attached the program: the set-up, the end
\* or the replacement of one never misdirects the connections of another.
MisroutedIsEarly ==
  \A c \in Conns :
    conn[c].at # NoServer /\ key[conn[c].at] # conn[c].parity => conn[c].early

\* A server in its accept loop is the one that gets the connections of its
\* parity, unless the map it entered was not the one of the attached program, or
\* has been replaced with its program, or another server has taken its index.
\* The kernel's group and the two pinned names move independently.  A server
\* that could not enter itself, or did so at an index that the selector does not
\* look at, is selected for nothing, by no program, however long it serves:
\* "continue anyway, as the server can still function" is not so.
UnreachableHasCause ==
  /\ \A s \in Servers :
       server[s] = "serving" /\ key[s] \in Parities /\ cause[s] = "none" =>
         attached # 0 /\ slot[attached][key[s]] = s
  /\ \A s \in Servers :
       server[s] = "serving" /\ (key[s] \notin Parities \/ cause[s] = "not entered") =>
         \A m \in Loads : \A p \in Parities : slot[m][p] # s
=============================================================================
