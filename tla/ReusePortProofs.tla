-------------------------- MODULE ReusePortProofs ---------------------------
(***************************************************************************)
(* Proofs about ReusePort, for any set of servers and of connections and   *)
(* any number of loads.                                                    *)
(***************************************************************************)
EXTENDS ReusePort, FiniteSetTheorems, TLAPS

ConnSet == [state : {"new", "queued", "handled"}, parity : Parities,
            at : Servers \cup {NoServer}, early : BOOLEAN]
ServerStates == {"off", "listening", "loaded", "attached", "serving"}
Causes == {"none", "not entered", "other map", "other program", "replaced"}

Typed ==
  /\ loads \in 0..MaxLoads /\ unloading \in BOOLEAN /\ attached \in 0..loads
  /\ pinned \in [{"program", "map"} -> 0..loads]
  /\ slot \in [Loads -> [Indexes -> Servers \cup {NoServer}]]
  /\ server \in [Servers -> ServerStates]
  /\ key \in [Servers -> Keys] /\ prog \in [Servers -> 0..loads]
  /\ conn \in [Conns -> ConnSet]
  /\ cause \in [Servers -> Causes]

\* The accept loop handles one client at a time.
OneAtATime == \A s \in Servers : \A c, d \in Handled(s) : c = d

\* A connection is at a server that is there, and a map's entry is a server in
\* its accept loop, at that server's own index: the end of a process takes both
\* away.
NothingStale ==
  /\ \A c \in Conns : conn[c].at \in Servers => conn[c].at \in Listening
  /\ \A m \in Loads : \A k \in Indexes : slot[m][k] \in Servers =>
       server[slot[m][k]] = "serving" /\ key[slot[m][k]] = k

\* While one of the servers that have attached a program lives, there is one.
\* Only a server in its accept loop can be overtaken.
ProgramStays ==
  /\ \A s \in Servers : server[s] # "serving" => cause[s] = "none"
  /\ \A s \in Servers : server[s] \in {"attached", "serving"} => attached # 0
  /\ \A s \in Servers : server[s] = "loaded" => prog[s] # 0

IInv ==
  /\ Typed /\ OneAtATime /\ NothingStale /\ ProgramStays
  /\ MisroutedIsEarly /\ UnreachableHasCause
-----------------------------------------------------------------------------
\* Nothing that selects changes, and no key of a server in its accept loop; no
\* server enters that loop.
LEMMA SelectionOfServing ==
  ASSUME UnreachableHasCause, UNCHANGED <<attached, slot, cause>>,
         \A t \in Servers : server'[t] = "serving" =>
           server[t] = "serving" /\ key'[t] = key[t]
  PROVE  UnreachableHasCause'
PROOF
<1>1. ASSUME NEW t \in Servers, server'[t] = "serving", key'[t] \in Parities,
             cause'[t] = "none"
      PROVE  attached' # 0 /\ slot'[attached'][key'[t]] = t
  BY <1>1 DEF UnreachableHasCause
<1>2. ASSUME NEW t \in Servers, server'[t] = "serving",
             key'[t] \notin Parities \/ cause'[t] = "not entered",
             NEW m \in Loads, NEW q \in Parities
      PROVE  slot'[m][q] # t
  BY <1>2 DEF UnreachableHasCause
<1> QED
  BY ONLY <1>1, <1>2 DEF UnreachableHasCause

\* No server enters the accept loop, and nothing that selects changes.
LEMMA SelectionStays ==
  ASSUME UnreachableHasCause, UNCHANGED <<attached, slot, key, cause>>,
         \A t \in Servers : server'[t] = "serving" => server[t] = "serving"
  PROVE  UnreachableHasCause'
BY SelectionOfServing

\* bpftool gives a new map a number that no program has.
LEMMA LoadSteps ==
  ASSUME IInv, Load
  PROVE  IInv'
PROOF
<1> USE ReuseAssumption DEF IInv, Typed, Parities, Indexes, Keys, Loads, Handled, Listening, Attached, Idle,
        scripts, Load
<1>1. Typed'
  <2>1. loads' \in 0..MaxLoads /\ loads <= loads'
    OBVIOUS
  <2>2. pinned' \in [{"program", "map"} -> 0..loads']
    BY <2>1
  <2>3. attached' \in 0..loads' /\ prog' \in [Servers -> 0..loads']
    BY <2>1
  <2> QED
    BY <2>1, <2>2, <2>3
<1>2. OneAtATime'
  BY DEF OneAtATime
<1>3. NothingStale'
  BY DEF NothingStale
<1>4. ProgramStays'
  BY DEF ProgramStays
<1>5. MisroutedIsEarly'
  BY DEF MisroutedIsEarly, NothingStale
<1>6. UnreachableHasCause'
  BY SelectionStays
<1> QED
  BY <1>1, <1>2, <1>3, <1>4, <1>5, <1>6

\* A name is removed; nothing that uses the program or its map notices.
LEMMA UnpinSteps ==
  ASSUME IInv, NEW name \in {"program", "map"}, Unpin(name)
  PROVE  IInv'
PROOF
<1> USE ReuseAssumption DEF IInv, Typed, Parities, Indexes, Keys, Loads, Handled, Listening, Attached, Idle,
        scripts, Unpin
<1>1. Typed'
  OBVIOUS
<1>2. OneAtATime'
  BY DEF OneAtATime
<1>3. NothingStale'
  BY DEF NothingStale
<1>4. ProgramStays'
  BY DEF ProgramStays
<1>5. MisroutedIsEarly'
  BY DEF MisroutedIsEarly, NothingStale
<1>6. UnreachableHasCause'
  BY SelectionStays
<1> QED
  BY <1>1, <1>2, <1>3, <1>4, <1>5, <1>6

\* The end of a process takes its socket, its entries and its connections away.
LEMMA ServerOverSteps ==
  ASSUME IInv, NEW s \in Servers, ServerOver(s) /\ UNCHANGED scripts /\ s \in Listening
  PROVE  IInv'
PROOF
<1> USE ReuseAssumption DEF IInv, Typed, Parities, Indexes, Keys, Loads, Handled, Listening, Attached, Idle,
        scripts, ServerOver
<1>1. Typed'
  <2>1. Idle \in ConnSet
    BY DEF ConnSet
  <2>2. conn' \in [Conns -> ConnSet]
    BY <2>1
  <2>3. slot' \in [Loads -> [Indexes -> Servers \cup {NoServer}]]
    OBVIOUS
  <2>4. /\ server' \in [Servers -> ServerStates]
        /\ key' \in [Servers -> Keys] /\ prog' \in [Servers -> 0..loads]
        /\ cause' \in [Servers -> Causes] /\ attached' \in 0..loads
    <3>1. server' \in [Servers -> ServerStates] /\ attached' \in 0..loads
      BY DEF ServerStates
    <3>2. key' \in [Servers -> Keys] /\ prog' \in [Servers -> 0..loads]
      <4>1. key' = [key EXCEPT ![s] = 0] /\ prog' = [prog EXCEPT ![s] = 0]
        BY ONLY ServerOver(s) DEF ServerOver
      <4>2. 0 \in Keys /\ 0 \in 0..loads
        BY ONLY IInv, ReuseAssumption DEF IInv, Typed, Keys
      <4>3. key \in [Servers -> Keys] /\ prog \in [Servers -> 0..loads]
        BY ONLY IInv DEF IInv, Typed
      <4> QED
        BY ONLY <4>1, <4>2, <4>3
    <3>3. cause' \in [Servers -> Causes]
      BY DEF Causes
    <3> QED
      BY <3>1, <3>2, <3>3
  <2>5. UNCHANGED <<pinned, loads, unloading>>
    OBVIOUS
  <2> QED
    BY <2>2, <2>3, <2>4, <2>5
<1>2. OneAtATime'
  BY DEF OneAtATime
<1>3. NothingStale'
  BY DEF NothingStale
<1>4. ProgramStays'
  <2>1. /\ server' = [server EXCEPT ![s] = "off"] /\ prog' = [prog EXCEPT ![s] = 0]
        /\ cause' = [cause EXCEPT ![s] = "none"]
        /\ attached' = attached \/ Listening = {s}
    BY ONLY ServerOver(s) DEF ServerOver
  <2>2. ASSUME NEW t \in Servers, server'[t] \in {"attached", "serving"}
        PROVE  attached' # 0
    <3>1. t # s /\ server[t] \in {"attached", "serving"}
      BY ONLY <2>1, <2>2, IInv DEF IInv, Typed
    <3>2. t \in Listening /\ attached # 0
      BY ONLY <3>1, IInv DEF IInv, ProgramStays, Listening
    <3> QED
      BY ONLY <2>1, <3>1, <3>2
  <2>3. \A t \in Servers : /\ server'[t] # "serving" => cause'[t] = "none"
                           /\ server'[t] = "loaded" => prog'[t] # 0
    BY ONLY <2>1, IInv DEF IInv, Typed, ProgramStays
  <2> QED
    BY ONLY <2>2, <2>3 DEF ProgramStays
<1>5. MisroutedIsEarly'
  <2>1. \A c \in Conns : conn'[c].at # NoServer =>
          conn'[c] = conn[c] /\ conn[c].at \in Servers \ {s}
    BY ONLY IInv, ReuseAssumption, ServerOver(s), s \in Servers
       DEF IInv, Typed, ServerOver, Idle, NothingStale, ConnSet
  <2>2. \A t \in Servers \ {s} : key'[t] = key[t]
    BY ONLY IInv, ServerOver(s) DEF IInv, Typed, ServerOver
  <2> QED
    BY ONLY IInv, <2>1, <2>2 DEF IInv, MisroutedIsEarly
<1>6. UnreachableHasCause'
  <2>1. \A t \in Servers : server'[t] = "serving" =>
          t # s /\ server[t] = "serving" /\ key'[t] = key[t] /\ cause'[t] = cause[t]
    BY ONLY IInv, ServerOver(s) DEF IInv, Typed, ServerOver
  <2>2. /\ \A m \in Loads : \A k \in Indexes :
             slot'[m][k] = IF slot[m][k] = s THEN NoServer ELSE slot[m][k]
        /\ Parities \subseteq Indexes /\ NoServer \notin Servers
    BY ONLY ServerOver(s), ReuseAssumption DEF ServerOver, Parities, Indexes
  <2>3. \A t \in Servers : server'[t] = "serving" => attached' = attached
    <3> SUFFICES ASSUME NEW t \in Servers, server'[t] = "serving" PROVE attached' = attached
      OBVIOUS
    <3>1. t \in Listening /\ t # s
      BY <2>1 DEF Listening
    <3> QED
      BY ONLY <3>1, ServerOver(s) DEF ServerOver
  <2>4. /\ UnreachableHasCause
        /\ \A t \in Servers : server[t] = "serving" => attached \in 0..MaxLoads
    BY ReuseAssumption
  <2>5. \A t \in Servers : attached # 0 /\ attached \in 0..MaxLoads => attached \in Loads
    BY ONLY ReuseAssumption DEF Loads
  <2> QED
    <3>1. ASSUME NEW t \in Servers, server'[t] = "serving", key'[t] \in Parities,
                 cause'[t] = "none"
          PROVE  attached' # 0 /\ slot'[attached'][key'[t]] = t
      <4>1. /\ server[t] = "serving" /\ t # s /\ attached' = attached
            /\ key'[t] = key[t] /\ cause'[t] = cause[t]
        BY ONLY <2>1, <2>3, <3>1
      <4>2. attached # 0 /\ slot[attached][key[t]] = t
        BY ONLY <2>4, <3>1, <4>1 DEF UnreachableHasCause
      <4>3. attached \in Loads /\ key[t] \in Indexes
        BY ONLY <2>2, <2>4, <2>5, <3>1, <4>1, <4>2
      <4> QED
        BY ONLY <2>2, <4>1, <4>2, <4>3
    <3>2. ASSUME NEW t \in Servers, server'[t] = "serving",
                 key'[t] \notin Parities \/ cause'[t] = "not entered",
                 NEW m \in Loads, NEW q \in Parities
          PROVE  slot'[m][q] # t
      <4>1. /\ server[t] = "serving" /\ key'[t] = key[t] /\ cause'[t] = cause[t]
        BY ONLY <2>1, <3>2
      <4>2. slot[m][q] # t
        BY ONLY <2>4, <3>2, <4>1 DEF UnreachableHasCause
      <4> QED
        BY ONLY <2>2, <4>2
    <3> QED
      BY ONLY <3>1, <3>2 DEF UnreachableHasCause
<1> QED
  BY <1>1, <1>2, <1>3, <1>4, <1>5, <1>6

\* A server that starts to listen has no connection and no entry yet.
LEMMA ListensSteps ==
  ASSUME IInv, NEW s \in Servers, Listens(s)
  PROVE  IInv'
PROOF
<1> USE ReuseAssumption DEF IInv, Typed, Parities, Indexes, Keys, Loads, Handled, Listening, Attached, Idle,
        scripts, Listens
<1>1. Typed'
  BY DEF ServerStates
<1>2. OneAtATime'
  BY DEF OneAtATime
<1>3. NothingStale'
  BY DEF NothingStale
<1>4. ProgramStays'
  BY DEF ProgramStays
<1>5. MisroutedIsEarly'
  BY DEF MisroutedIsEarly, NothingStale
<1>6. UnreachableHasCause'
  <2>1. \A t \in Servers : server'[t] = "serving" =>
          server[t] = "serving" /\ key'[t] = key[t]
    BY ONLY IInv, Listens(s) DEF IInv, Typed, Listens
  <2>2. UNCHANGED <<attached, slot, cause>> /\ UnreachableHasCause
    BY ONLY IInv, Listens(s) DEF IInv, Listens
  <2> QED
    BY ONLY <2>1, <2>2, SelectionOfServing
<1> QED
  BY <1>1, <1>2, <1>3, <1>4, <1>5, <1>6

\* A server that finds the program takes it.
LEMMA GetPinnedProgSteps ==
  ASSUME IInv, NEW s \in Servers, GetPinnedProg(s) /\ pinned["program"] # 0
  PROVE  IInv'
PROOF
<1> USE ReuseAssumption DEF IInv, Typed, Parities, Indexes, Keys, Loads, Handled, Listening, Attached, Idle,
        scripts, GetPinnedProg
<1>1. Typed'
  BY DEF ServerStates
<1>2. OneAtATime'
  BY DEF OneAtATime
<1>3. NothingStale'
  BY DEF NothingStale
<1>4. ProgramStays'
  BY DEF ProgramStays
<1>5. MisroutedIsEarly'
  BY DEF MisroutedIsEarly, NothingStale
<1>6. UnreachableHasCause'
  <2>1. \A t \in Servers : server'[t] = "serving" => server[t] = "serving"
    OBVIOUS
  <2>2. UNCHANGED <<attached, slot, key, cause>> /\ UnreachableHasCause
    OBVIOUS
  <2> QED
    BY ONLY <2>1, <2>2, SelectionStays
<1> QED
  BY <1>1, <1>2, <1>3, <1>4, <1>5, <1>6

\* A program is attached for all servers: those that serve by another one may be
\* out of reach.
LEMMA AttachSteps ==
  ASSUME IInv, NEW s \in Servers, Attach(s)
  PROVE  IInv'
PROOF
<1> USE ReuseAssumption DEF IInv, Typed, Parities, Indexes, Keys, Loads, Handled, Listening, Attached, Idle,
        scripts, Attach
<1>1. Typed'
  <2>1. cause' \in [Servers -> Causes]
    BY DEF Causes
  <2>2. server' \in [Servers -> ServerStates] /\ attached' \in 0..loads
    BY DEF ServerStates
  <2>3. prog' \in [Servers -> 0..loads]
    <3>1. prog' = [prog EXCEPT ![s] = 0]
      BY ONLY Attach(s) DEF Attach
    <3>2. 0 \in 0..loads
      BY ONLY IInv, ReuseAssumption DEF IInv, Typed
    <3>3. prog \in [Servers -> 0..loads]
      BY ONLY IInv DEF IInv, Typed
    <3> QED
      BY ONLY <3>1, <3>2, <3>3
  <2> QED
    BY <2>1, <2>2, <2>3
<1>2. /\ UNCHANGED <<slot, key, conn>> /\ attached' = prog[s]
      /\ server' = [server EXCEPT ![s] = "attached"] /\ server[s] = "loaded"
  OBVIOUS
<1>3. (OneAtATime /\ MisroutedIsEarly)'
  BY ONLY <1>2, IInv DEF IInv, OneAtATime, Handled, MisroutedIsEarly
<1>4. NothingStale'
  BY ONLY <1>2, IInv DEF IInv, Typed, NothingStale, Listening
<1>5. ProgramStays'
  BY DEF ProgramStays
<1>6. UnreachableHasCause'
  <2>1. /\ UNCHANGED <<slot, key>> /\ attached' = prog[s] /\ prog[s] # 0
        /\ \A t \in Servers : server'[t] = "serving" => server[t] = "serving"
        /\ \A t \in Servers : server[t] = "serving" => attached # 0
    BY DEF ProgramStays
  <2>2. UnreachableHasCause
    OBVIOUS
  <2>3. ASSUME NEW t \in Servers, server[t] = "serving"
        PROVE  /\ cause'[t] = "not entered" => cause[t] = "not entered"
               /\ cause[t] = "not entered" => cause'[t] = "not entered"
               /\ cause'[t] = "none" => cause[t] = "none" /\ attached = prog[s]
    BY <2>1, <2>3
  <2> QED
    BY ONLY <2>1, <2>2, <2>3 DEF UnreachableHasCause 
<1> QED
  BY <1>1, <1>2, <1>3, <1>4, <1>5, <1>6

\* An entry is made for one server, and another server's may go.
LEMMA UpdateMapSteps ==
  ASSUME IInv, NEW s \in Servers, UpdateMap(s)
  PROVE  IInv'
PROOF
<1> DEFINE m == pinned["map"]
           why(t) == IF t = s /\ m # attached THEN "other map"
                     ELSE IF t # s /\ slot[m][key[s]] = t /\ cause[t] = "none"
                          THEN "replaced" ELSE cause[t]
<1>1. /\ server[s] = "attached" /\ server' = [server EXCEPT ![s] = "serving"]
      /\ UNCHANGED <<pinned, loads, unloading, attached, key, prog, conn>>
  BY DEF UpdateMap, scripts
\* A server that has not entered itself has no entry.
<1>2. \A n \in Loads : \A k \in Indexes : slot[n][k] # s
  BY <1>1 DEF IInv, NothingStale
<1>3. Parities \subseteq Indexes
  BY ReuseAssumption DEF Parities, Indexes
<1>4. CASE m = 0 \/ key[s] \notin Indexes
  <2>1. slot' = slot /\ cause' = [cause EXCEPT ![s] = "not entered"]
    BY <1>4 DEF UpdateMap
  <2>2. Typed'
    <3>1. cause' \in [Servers -> Causes]
      BY <2>1 DEF IInv, Typed, Causes
    <3> QED
      BY <1>1, <2>1, <3>1 DEF IInv, Typed, ServerStates
  <2>3. (OneAtATime /\ MisroutedIsEarly)'
    BY <1>1 DEF IInv, OneAtATime, Handled, MisroutedIsEarly
  <2>4. NothingStale'
    <3>1. \A t \in Servers : /\ t \in Listening => t \in Listening'
                             /\ server[t] = "serving" => server'[t] = "serving"
      BY ONLY <1>1, IInv DEF IInv, Typed, Listening
    <3>2. UNCHANGED <<conn, key, slot, loads>> /\ NothingStale
      BY ONLY <1>1, <2>1, IInv DEF IInv
    <3> QED
      BY ONLY <3>1, <3>2 DEF NothingStale
  <2>5. ProgramStays'
    BY <1>1, <2>1 DEF IInv, Typed, ProgramStays
  <2>6. UnreachableHasCause'
    <3>1. \A t \in Servers \ {s} : /\ server'[t] = server[t] /\ cause'[t] = cause[t]
      BY <1>1, <2>1 DEF IInv, Typed
    <3>2. cause'[s] = "not entered"
      BY <2>1 DEF IInv, Typed
    <3>3. UnreachableHasCause /\ UNCHANGED <<loads, attached, key, slot>>
      BY <1>1, <2>1 DEF IInv
    <3>4. \A n \in Loads : \A q \in Parities : slot[n][q] # s
      BY <1>2, <1>3
    <3> QED
      <4>1. ASSUME NEW t \in Servers, server'[t] = "serving", key'[t] \in Parities,
                   cause'[t] = "none"
            PROVE  attached' # 0 /\ slot'[attached'][key'[t]] = t
        <5>1. t # s
          BY ONLY <3>2, <4>1
        <5>2. server[t] = "serving" /\ key[t] \in Parities /\ cause[t] = "none"
          BY ONLY <3>1, <3>3, <4>1, <5>1
        <5>3. attached # 0 /\ slot[attached][key[t]] = t
          BY ONLY <3>3, <4>1, <5>2 DEF UnreachableHasCause
        <5> QED
          BY ONLY <3>3, <5>3
      <4>2. ASSUME NEW t \in Servers, server'[t] = "serving",
                   key'[t] \notin Parities \/ cause'[t] = "not entered",
                   NEW n \in Loads, NEW q \in Parities
            PROVE  slot'[n][q] # t
        <5>1. CASE t = s
          BY ONLY <3>3, <3>4, <4>2, <5>1
        <5>2. CASE t # s
          BY ONLY <3>1, <3>3, <4>2, <5>2 DEF UnreachableHasCause
        <5> QED
          BY ONLY <5>1, <5>2
      <4> QED
        BY ONLY <4>1, <4>2 DEF UnreachableHasCause
  <2> QED
    BY <2>2, <2>3, <2>4, <2>5, <2>6 DEF IInv
<1>5. CASE m # 0 /\ key[s] \in Indexes
  <2>1. m \in Loads /\ key[s] \in Indexes /\ attached \in 0..MaxLoads
    BY <1>5, ReuseAssumption DEF IInv, Typed, Loads
  <2>2. slot \in [Loads -> [Indexes -> Servers \cup {NoServer}]]
    BY DEF IInv, Typed
  <2>3. slot' = [slot EXCEPT ![m][key[s]] = s] /\ cause' = [t \in Servers |-> why(t)]
    BY <1>5 DEF UpdateMap, Enters
  <2> HIDE DEF m
  <2>4. slot' \in [Loads -> [Indexes -> Servers \cup {NoServer}]]
    BY ONLY <2>1, <2>2, <2>3, s \in Servers
  <2>5. \A n \in Loads : \A k \in Indexes :
          slot'[n][k] = IF n = m /\ k = key[s] THEN s ELSE slot[n][k]
    BY ONLY <2>1, <2>2, <2>3, s \in Servers
  <2>6. \A t \in Servers : cause'[t] = why(t)
    BY ONLY <2>3
  <2>7. cause' \in [Servers -> Causes]
    <3>1. \A t \in Servers : why(t) \in Causes
      BY DEF IInv, Typed, Causes
    <3> HIDE DEF why
    <3> QED
      BY ONLY <2>3, <3>1
  <2>8. Typed'
    BY <1>1, <2>4, <2>7 DEF IInv, Typed, ServerStates
  <2>9. (OneAtATime /\ MisroutedIsEarly)'
    BY <1>1 DEF IInv, OneAtATime, Handled, MisroutedIsEarly
  <2>10. NothingStale'
    <3>1. \A c \in Conns : conn'[c].at \in Servers => conn'[c].at \in Listening'
      BY <1>1 DEF IInv, Typed, NothingStale, Listening
    <3>2. ASSUME NEW n \in Loads, NEW k \in Indexes, slot'[n][k] \in Servers
          PROVE  server'[slot'[n][k]] = "serving" /\ key'[slot'[n][k]] = k
      <4>1. CASE n = m /\ k = key[s]
        BY <1>1, <2>5, <4>1 DEF IInv, Typed
      <4>2. CASE ~(n = m /\ k = key[s])
        BY <1>1, <2>5, <3>2, <4>2 DEF IInv, Typed, NothingStale
      <4> QED
        BY <4>1, <4>2
    <3> QED
      BY <3>1, <3>2 DEF NothingStale
  <2>11. ProgramStays'
    <3>1. \A t \in Servers : server'[t] # "serving" =>
            server[t] # "serving" /\ t # s /\ cause[t] = "none"
      BY <1>1 DEF IInv, Typed, ProgramStays
    <3>2. \A t \in Servers : server'[t] # "serving" => slot[m][key[s]] # t
      BY <2>1, <3>1 DEF IInv, NothingStale
    <3>3. \A t \in Servers : server'[t] # "serving" => cause'[t] = "none"
      BY <2>6, <3>1, <3>2
    <3> QED
      BY <1>1, <3>3 DEF IInv, Typed, ProgramStays
  <2>12. UnreachableHasCause'
    <3>1. ASSUME NEW t \in Servers, server'[t] = "serving", key'[t] \in Parities,
                 cause'[t] = "none"
          PROVE  attached' # 0 /\ slot'[attached'][key'[t]] = t
      <4>1. /\ attached # 0 /\ attached \in Loads /\ key[t] \in Indexes
            /\ key[t] \in Parities
        BY <1>1, <1>3, <2>1, <3>1 DEF IInv, Typed, ProgramStays, Loads
      <4>2. CASE t = s
        <5>1. m = attached
          BY <2>6, <3>1, <4>2
        <5> QED
          BY <1>1, <2>5, <4>1, <4>2, <5>1
      <4>3. CASE t # s
        <5>1. cause[t] = "none" /\ slot[m][key[s]] # t
          BY <2>6, <3>1, <4>3
        <5>2. slot[attached][key[t]] = t
          BY <1>1, <3>1, <4>1, <4>3, <5>1 DEF IInv, Typed, UnreachableHasCause
        <5> QED
          BY <1>1, <2>5, <4>1, <5>1, <5>2
      <4> QED
        BY <4>2, <4>3
    <3>2. ASSUME NEW t \in Servers, server'[t] = "serving",
                 key'[t] \notin Parities \/ cause'[t] = "not entered",
                 NEW n \in Loads, NEW q \in Parities
          PROVE  slot'[n][q] # t
      <4>1. CASE key'[t] \notin Parities
        BY <1>3, <2>10, <4>1 DEF NothingStale
      <4>2. CASE cause'[t] = "not entered" /\ t = s
        <5>1. cause[s] = "not entered"
          BY <2>6, <4>2
        <5>2. cause[s] = "none"
          BY <1>1 DEF IInv, ProgramStays
        <5> QED
          BY <5>1, <5>2
      <4>3. CASE cause'[t] = "not entered" /\ t # s
        <5>1. cause[t] = "not entered"
          BY <2>6, <4>3
        <5>2. server[t] = "serving" /\ UnreachableHasCause
          BY <1>1, <3>2, <4>3 DEF IInv, Typed
        <5>3. slot[n][q] # t
          BY ONLY <3>2, <5>1, <5>2 DEF UnreachableHasCause
        <5> QED
          BY <1>3, <2>5, <4>3, <5>3
      <4> QED
        BY <3>2, <4>1, <4>2, <4>3
    <3> QED
      BY <1>1, <3>1, <3>2 DEF UnreachableHasCause, Loads
  <2> QED
    BY <2>8, <2>9, <2>10, <2>11, <2>12 DEF IInv
<1> QED
  BY <1>4, <1>5

\* A server accepts when it handles none.
LEMMA AcceptSteps ==
  ASSUME IInv, NEW s \in Servers, NEW c \in Conns, Accept(s, c)
  PROVE  IInv'
PROOF
<1> USE ReuseAssumption DEF IInv, Typed, Parities, Indexes, Keys, Loads, Handled, Listening, Attached, Idle,
        scripts, Accept
<1>1. Typed'
  <2>1. [conn[c] EXCEPT !.state = "handled"] \in ConnSet
    BY DEF ConnSet
  <2>2. conn' \in [Conns -> ConnSet]
    BY <2>1
  <2> QED
    BY <2>2
<1>2. OneAtATime'
  BY DEF OneAtATime
<1>3. NothingStale'
  BY DEF NothingStale
<1>4. ProgramStays'
  BY DEF ProgramStays
<1>5. MisroutedIsEarly'
  BY DEF MisroutedIsEarly, NothingStale
<1>6. UnreachableHasCause'
  BY SelectionStays
<1> QED
  BY <1>1, <1>2, <1>3, <1>4, <1>5, <1>6

\* A connection that is over is at no server.
LEMMA HandleClientSteps ==
  ASSUME IInv, NEW s \in Servers, NEW c \in Conns, HandleClient(s, c)
  PROVE  IInv'
PROOF
<1> USE ReuseAssumption DEF IInv, Typed, Parities, Indexes, Keys, Loads, Handled, Listening, Attached, Idle,
        scripts, HandleClient
<1>1. Typed'
  <2>1. Idle \in ConnSet
    BY DEF ConnSet
  <2>2. conn' \in [Conns -> ConnSet]
    BY <2>1
  <2> QED
    BY <2>2
<1>2. OneAtATime'
  BY DEF OneAtATime
<1>3. NothingStale'
  BY DEF NothingStale
<1>4. ProgramStays'
  BY DEF ProgramStays
<1>5. MisroutedIsEarly'
  BY DEF MisroutedIsEarly, NothingStale
<1>6. UnreachableHasCause'
  BY SelectionStays
<1> QED
  BY <1>1, <1>2, <1>3, <1>4, <1>5, <1>6

\* A connection comes to the server that the attached program's map has at its parity's
\* index, or to any while none is attached.
LEMMA ArrivesSteps ==
  ASSUME IInv, NEW c \in Conns, Arrives(c)
  PROVE  IInv'
PROOF
<1> USE ReuseAssumption DEF IInv, Typed, Parities, Indexes, Keys, Loads, Handled, Listening
<1>1. UNCHANGED <<pinned, loads, unloading, attached, slot, server, key, prog, cause>>
  BY DEF Arrives, scripts
<1>2. (ProgramStays /\ UnreachableHasCause)'
  BY <1>1, SelectionStays DEF ProgramStays
<1>3. CASE conn' = [conn EXCEPT ![c] = Idle]
  <2>1. Idle \in ConnSet
    BY DEF ConnSet, Idle
  <2>2. conn' \in [Conns -> ConnSet]
    BY <1>3, <2>1
  <2>3. OneAtATime'
    BY <1>1, <1>3 DEF OneAtATime, Idle
  <2>4. NothingStale'
    BY <1>1, <1>3 DEF NothingStale, Idle
  <2>5. MisroutedIsEarly'
    BY <1>1, <1>3 DEF MisroutedIsEarly, Idle
  <2> QED
    BY <1>1, <1>2, <2>2, <2>3, <2>4, <2>5
<1>4. ASSUME NEW p \in Parities, NEW s \in Candidates(p),
             conn' = [conn EXCEPT ![c] = [state |-> "queued", parity |-> p,
                        at |-> s, early |-> Attached = {}]]
      PROVE  IInv'
  <2>1. s \in Listening /\ (attached # 0 => key[s] = p)
    <3> p \in Indexes
      OBVIOUS
    <3>1. CASE attached = 0
      BY <3>1 DEF Candidates
    <3>2. CASE attached # 0
      <4>1. attached \in Loads /\ s = slot[attached][p] /\ s # NoServer
        BY <3>2 DEF Candidates, HotStandbySelector
      <4>2. s \in Servers
        BY <4>1
      <4> QED
        BY <4>1, <4>2 DEF NothingStale
    <3> QED
      BY <3>1, <3>2
  <2>2. attached = 0 => Attached = {}
    BY DEF ProgramStays, Attached
  <2>3. PICK e \in BOOLEAN : /\ e <=> Attached = {}
                             /\ conn' = [conn EXCEPT ![c] = [state |-> "queued",
                                  parity |-> p, at |-> s, early |-> e]]
    BY <1>4, Zenon
  <2> DEFINE r == [state |-> "queued", parity |-> p, at |-> s, early |-> e]
  <2>4. /\ r \in ConnSet /\ r.state = "queued" /\ r.at = s /\ r.parity = p
        /\ r.early = e
    BY <2>1 DEF ConnSet
  <2>5. \A d \in Conns : conn'[d] = IF d = c THEN r ELSE conn[d]
    BY <2>3
  <2>6. conn' \in [Conns -> ConnSet]
    BY <2>3, <2>4
  <2> HIDE DEF r
  <2>7. OneAtATime'
    <3>1. \A t \in Servers : \A d \in Handled(t)' : d \in Handled(t)
      BY <1>1, <2>4, <2>5
    <3> QED
      BY <3>1 DEF OneAtATime
  <2>8. NothingStale'
    BY <1>1, <2>1, <2>4, <2>5 DEF NothingStale
  <2>9. MisroutedIsEarly'
    <3> SUFFICES ASSUME NEW d \in Conns, conn'[d].at # NoServer,
                        key'[conn'[d].at] # conn'[d].parity
                 PROVE  conn'[d].early
      BY DEF MisroutedIsEarly
    <3>1. CASE d = c
      <4>1. e
        BY <1>1, <2>1, <2>2, <2>3, <2>4, <2>5, <3>1
      <4> QED
        BY <2>4, <2>5, <3>1, <4>1
    <3>2. CASE d # c
      BY <1>1, <2>5, <3>2 DEF MisroutedIsEarly
    <3> QED
      BY <3>1, <3>2
  <2> QED
    BY <1>1, <1>2, <2>6, <2>7, <2>8, <2>9
<1> QED
  BY <1>3, <1>4 DEF Arrives

\* Nothing runs yet.
LEMMA InitIInv == Init => IInv
PROOF
<1> SUFFICES ASSUME Init PROVE IInv
  OBVIOUS
<1>1. Typed
  <2>1. loads = 0 /\ 0 \in 0..MaxLoads /\ 0 \in 0..loads /\ 0 \in Keys
    BY ReuseAssumption DEF Init, Keys
  <2>2. Idle \in ConnSet
    BY DEF Idle, ConnSet, Parities
  <2>3. conn \in [Conns -> ConnSet]
    BY <2>2 DEF Init
  <2>4. /\ server \in [Servers -> ServerStates] /\ cause \in [Servers -> Causes]
        /\ slot \in [Loads -> [Indexes -> Servers \cup {NoServer}]]
    BY DEF Init, ServerStates, Causes
  <2>5. /\ pinned \in [{"program", "map"} -> 0..loads]
        /\ key \in [Servers -> Keys] /\ prog \in [Servers -> 0..loads]
    BY <2>1 DEF Init
  <2>6. unloading \in BOOLEAN /\ attached \in 0..loads
    BY <2>1 DEF Init
  <2> QED
    BY <2>1, <2>3, <2>4, <2>5, <2>6 DEF Typed
<1>2. OneAtATime /\ ProgramStays /\ MisroutedIsEarly /\ UnreachableHasCause
  BY DEF Init, OneAtATime, Handled, ProgramStays, MisroutedIsEarly, UnreachableHasCause, Idle
<1>3. NothingStale
  BY ReuseAssumption DEF Init, NothingStale, Idle
<1> QED
  BY <1>1, <1>2, <1>3 DEF IInv

\* The cases of Next, put together.
LEMMA NextIInv == IInv /\ [Next]_vars => IInv'
PROOF
<1> SUFFICES ASSUME IInv, [Next]_vars PROVE IInv'
  OBVIOUS
<1>1. CASE UNCHANGED vars
  <2>1. UNCHANGED <<pinned, loads, unloading, attached, slot, server, key, prog, conn, cause>>
    BY <1>1 DEF vars
  <2>2. (Typed /\ ProgramStays)'
    BY <2>1 DEF IInv, Typed, ProgramStays
  <2>3. (OneAtATime /\ NothingStale)'
    BY <2>1 DEF IInv, OneAtATime, Handled, NothingStale, Listening
  <2>4. (MisroutedIsEarly /\ UnreachableHasCause)'
    BY <2>1, SelectionStays DEF IInv, MisroutedIsEarly
  <2> QED
    BY <2>2, <2>3, <2>4 DEF IInv
<1>2. ASSUME NEW s \in Servers, GetPinnedProg(s) PROVE IInv'
  <2>1. CASE pinned["program"] = 0
    BY <1>2, <2>1, ServerOverSteps DEF GetPinnedProg, Listening
  <2>2. CASE pinned["program"] # 0
    BY <1>2, <2>2, GetPinnedProgSteps
  <2> QED
    BY <2>1, <2>2
<1>3. ASSUME NEW s \in Servers, Killed(s) PROVE IInv'
  BY <1>3, ServerOverSteps DEF Killed
<1>4. CASE Next
  BY <1>2, <1>3, <1>4, LoadSteps, UnpinSteps, ListensSteps, AttachSteps,
     UpdateMapSteps, AcceptSteps, HandleClientSteps, ArrivesSteps DEF Next
<1> QED
  BY <1>1, <1>4
-----------------------------------------------------------------------------
(* The theorems.                                                           *)

\* The inductive invariant holds in every state.
THEOREM Invariance == Spec => []IInv
BY InitIInv, NextIInv, PTL DEF Spec

\* Every variable has its type, and a server handles at most one client at a
\* time: its accept loop is not concurrent.
THEOREM TypeCorrect == Spec => []TypeOK
PROOF
<1>1. ASSUME IInv PROVE TypeOK
  <2>1. \A s \in Servers : Cardinality(Handled(s)) <= 1
    <3> TAKE s \in Servers
    <3>1. CASE Handled(s) = {}
      BY <3>1, FS_EmptySet
    <3>2. ASSUME NEW c \in Handled(s) PROVE Cardinality(Handled(s)) <= 1
      <4>1. Handled(s) = {c}
        BY <1>1 DEF IInv, OneAtATime
      <4> QED
        BY <4>1, FS_Singleton
    <3> QED
      BY <3>1, <3>2
  <2>2. pinned \in [{"program", "map"} -> 0..MaxLoads]
    BY <1>1, ReuseAssumption DEF IInv, Typed
  <2>3. prog \in [Servers -> 0..MaxLoads]
    BY <1>1, ReuseAssumption DEF IInv, Typed
  <2> QED
    BY <1>1, <2>1, <2>2, <2>3
       DEF IInv, Typed, TypeOK, ConnSet, ServerStates, Causes
<1> QED
  BY <1>1, Invariance, PTL

\* A connection at the server for the other parity came before any program was
\* attached, whatever the servers and the scripts do, and in whatever order.
THEOREM MisroutesOnlyEarly == Spec => []MisroutedIsEarly
BY Invariance, PTL DEF IInv

\* A serving server at an index of the selector's, entered and not overtaken, is
\* the one that the attached program selects; one that is not entered, or at
\* another index, is selected by none.
THEOREM ReachableOrCause == Spec => []UnreachableHasCause
BY Invariance, PTL DEF IInv
=============================================================================
