---------------------------- MODULE TunnelProofs ----------------------------
(***************************************************************************)
(* What is proved of Tunnel for all values of its constants.               *)
(***************************************************************************)
EXTENDS Tunnel, SequenceTheorems, TLAPS

\* The names of the ends.
LEMMA EndFacts ==
  /\ Apps \subseteq Ends /\ ProxyEnds \subseteq Ends
  /\ "S" \in Apps /\ "D" \in Apps
  /\ "cu" \in ProxyEnds /\ "ct" \in ProxyEnds
  /\ "st" \in ProxyEnds /\ "su" \in ProxyEnds
  /\ \A e \in Ends : Peer(e) \in Ends
  /\ \A e \in ProxyEnds : Across(e) \in ProxyEnds
  /\ \A p \in Proxies : /\ Outgoing(p) \in EndsOf(p)
                        /\ Accepted(p) \in EndsOf(p)
                        /\ EndsOf(p) = {Outgoing(p), Accepted(p)}
                        /\ EndsOf(p) \subseteq ProxyEnds
PROOF
<1>1. ASSUME NEW e \in Ends PROVE Peer(e) \in Ends
  BY DEF Ends, Apps, ProxyEnds, Peer, PeerOf
<1>2. ASSUME NEW e \in ProxyEnds PROVE Across(e) \in ProxyEnds
  BY DEF ProxyEnds, Across, AcrossOf
<1>3. ASSUME NEW p \in Proxies
      PROVE  /\ Outgoing(p) \in EndsOf(p)
             /\ Accepted(p) \in EndsOf(p)
             /\ EndsOf(p) = {Outgoing(p), Accepted(p)}
             /\ EndsOf(p) \subseteq ProxyEnds
  BY DEF Proxies, Outgoing, Accepted, EndsOf, ProxyEnds
<1> QED
  BY <1>1, <1>2, <1>3 DEF Ends, Apps, ProxyEnds

\* Streams of chunks.
LEMMA StreamFacts ==
  /\ <<>> \in Stream
  /\ \A s \in Stream, c \in Nat : Append(s, c) \in Stream
  /\ \A s \in Stream : s # <<>> => Head(s) \in Nat /\ Tail(s) \in Stream
  /\ \A s, t \in Stream : s \o t \in Stream
PROOF
<1>1. \A s \in Seq(Nat) : s # <<>> => Head(s) \in Nat /\ Tail(s) \in Seq(Nat)
  BY HeadTailProperties
<1>2. \A s, t \in Seq(Nat) : s \o t \in Seq(Nat)
  BY ConcatProperties
<1>3. \A s \in Seq(Nat), c \in Nat : Append(s, c) \in Seq(Nat)
  BY AppendProperties
<1>4. <<>> \in Seq(Nat)
  BY EmptySeq
<1> QED
  BY <1>1, <1>2, <1>3, <1>4 DEF Stream
-----------------------------------------------------------------------------
(* Types.                                                                  *)

LEMMA TypeInit == Init => TypeOK
PROOF
<1>1. 0 \in 0 .. MaxRetries
  BY TunnelAssumption
<1>2. <<>> \in Stream
  BY StreamFacts
<1> SUFFICES ASSUME Init PROVE TypeOK
  OBVIOUS
<1>3. /\ app \in [Apps -> {"none", "open", "shut", "closed"}]
      /\ count \in [Apps -> Nat]
      /\ rcvd \in [Apps -> Stream]
      /\ seen \in [Apps -> {"no", "eof", "error"}]
      /\ listener \in {"absent", "stale", "listening"}
  BY <1>2 DEF Init
<1>4. /\ inbox \in [Ends -> Stream]
      /\ fin \in [Ends -> BOOLEAN]
      /\ rst \in [Ends -> BOOLEAN]
      /\ broken \in BOOLEAN
  BY <1>2 DEF Init
<1>5. /\ tr \in [ProxyEnds -> {"none", "open", "closing", "closed", "lost"}]
      /\ held \in [ProxyEnds -> Stream]
      /\ eof \in [ProxyEnds -> BOOLEAN]
      /\ wbuf \in [ProxyEnds -> Stream]
  BY <1>2 DEF Init
<1>6. /\ dir \in [ProxyEnds -> {"none", "running", "cancelling", "done", "cancelled"}]
      /\ handler \in [Proxies -> {"idle", "connecting", "forwarding",
                              "cancelling", "closingOut", "closingIn", "ended", "raised"}]
  BY DEF Init
<1> QED
  BY <1>1, <1>3, <1>4, <1>5, <1>6 DEF Init, TypeOK

\* close(2) and send(2) leave the sockets well typed.
LEMMA CloseSocketType ==
  ASSUME TypeOK, NEW e \in Ends, CloseSocket(e)
  PROVE  /\ inbox' \in [Ends -> Stream]
         /\ fin' \in [Ends -> BOOLEAN]
         /\ rst' \in [Ends -> BOOLEAN]
         /\ broken' \in BOOLEAN
PROOF
BY StreamFacts, EndFacts DEF TypeOK, CloseSocket

LEMMA TransmitType ==
  ASSUME TypeOK, NEW e \in Ends, NEW c \in Nat, Transmit(e, c)
  PROVE  /\ inbox' \in [Ends -> Stream]
         /\ fin' \in [Ends -> BOOLEAN]
         /\ rst' \in [Ends -> BOOLEAN]
         /\ broken' \in BOOLEAN
PROOF
<1>1. Peer(e) \in Ends
  BY EndFacts
<1>2. CASE Alive(Peer(e))
  <2>1. inbox' = [inbox EXCEPT ![Peer(e)] = Append(@, c)]
        /\ UNCHANGED <<fin, rst, broken>>
    BY <1>2 DEF Transmit
  <2>2. Append(inbox[Peer(e)], c) \in Stream
    BY <1>1, StreamFacts DEF TypeOK
  <2> QED
    BY <1>1, <2>1, <2>2 DEF TypeOK
<1>3. CASE ~Alive(Peer(e))
  BY <1>1, <1>3 DEF TypeOK, Transmit
<1> QED
  BY <1>2, <1>3

LEMMA QemuType ==
  ASSUME TypeOK, NEW a \in Apps,
         Send(a) \/ Receive(a) \/ SeeEnd(a) \/ Close(a) \/ ShutDown(a)
  PROVE  TypeOK'
PROOF
<1> USE DEF TypeOK, loopVars, taskVars
<1>0. a \in Ends /\ Peer(a) \in Ends
  BY EndFacts
<1>1. CASE Send(a)
  <2>1. count[a] \in Nat /\ count[a] + 1 \in Nat
    OBVIOUS
  <2>2. Transmit(a, count[a] + 1)
    BY <1>1 DEF Send
  <2> QED
    BY <1>0, <1>1, <2>1, <2>2, TransmitType DEF Send
<1>2. CASE Receive(a)
  BY <1>0, <1>2, StreamFacts DEF Receive
<1>3. CASE SeeEnd(a)
  BY <1>3 DEF SeeEnd, netVars
<1>4. CASE Close(a)
  BY <1>0, <1>4, CloseSocketType DEF Close
<1>5. CASE ShutDown(a)
  BY <1>0, <1>5 DEF ShutDown
<1> QED
  BY <1>1, <1>2, <1>3, <1>4, <1>5

LEMMA TransportType ==
  ASSUME TypeOK, NEW e \in ProxyEnds,
         \/ TransportReads(e) \/ TransportSeesEof(e) \/ TransportWrites(e)
         \/ TransportFails(e) \/ TransportCloses(e)
         \/ Forward(e) \/ DirectionEnds(e) \/ DirectionCancelled(e)
  PROVE  TypeOK'
PROOF
<1> USE DEF TypeOK, qemuVars, taskVars
<1>0. e \in Ends /\ Across(e) \in ProxyEnds
  BY EndFacts
<1>1. CASE TransportReads(e)
  <2>1. Append(held[e], Head(inbox[e])) \in Stream /\ Tail(inbox[e]) \in Stream
    BY <1>0, <1>1, StreamFacts DEF TransportReads
  <2> QED
    BY <1>0, <1>1, <2>1 DEF TransportReads
<1>2. CASE TransportSeesEof(e)
  BY <1>2 DEF TransportSeesEof, netVars
<1>3. CASE TransportWrites(e)
  <2>1. Head(wbuf[e]) \in Nat /\ Tail(wbuf[e]) \in Stream
    BY <1>3, StreamFacts DEF TransportWrites
  <2>2. Transmit(e, Head(wbuf[e]))
    BY <1>3 DEF TransportWrites
  <2> QED
    BY <1>0, <1>3, <2>1, <2>2, TransmitType DEF TransportWrites
<1>4. CASE TransportFails(e)
  BY <1>0, <1>4, CloseSocketType, StreamFacts DEF TransportFails
<1>5. CASE TransportCloses(e)
  BY <1>0, <1>5, CloseSocketType DEF TransportCloses
<1>6. CASE Forward(e)
  <2>1. wbuf[Across(e)] \o held[e] \in Stream /\ <<>> \in Stream
    BY <1>0, StreamFacts
  <2> QED
    BY <1>0, <1>6, <2>1 DEF Forward, netVars
<1>7. CASE DirectionEnds(e)
  BY <1>7, StreamFacts DEF DirectionEnds, netVars
<1>8. CASE DirectionCancelled(e)
  BY <1>8 DEF DirectionCancelled, netVars, loopVars
<1> QED
  BY <1>1, <1>2, <1>3, <1>4, <1>5, <1>6, <1>7, <1>8

\* What the handlers assign.
LEMMA HandlerUpdates ==
  ASSUME TypeOK
  PROVE  /\ \A e \in ProxyEnds :
              Closed(tr, e) \in [ProxyEnds -> {"none", "open", "closing",
                                             "closed", "lost"}]
         /\ \A p \in Proxies :
              StartForwarding(p) \in [ProxyEnds -> {"none", "running", "cancelling",
                                                   "done", "cancelled"}]
PROOF
BY DEF TypeOK, Closed, StartForwarding

LEMMA HandlerType ==
  ASSUME TypeOK,
         \/ ClientConnects \/ ClientConnectFails
         \/ ServerConnects \/ ServerRetries \/ ServerGivesUp
         \/ \E p \in Proxies : \/ CancelPending(p) \/ CloseOutgoing(p) \/ OutgoingClosed(p)
                               \/ OutgoingRaises(p) \/ AcceptedClosed(p)
  PROVE  TypeOK'
PROOF
<1> USE DEF TypeOK, qemuVars, netVars, loopVars
<1>0. "C" \in Proxies /\ "H" \in Proxies
  BY DEF Proxies
<1>1. CASE ClientConnects
  <2>1. handler' \in [Proxies -> {"idle", "connecting", "forwarding",
                              "cancelling", "closingOut", "closingIn", "ended", "raised"}]
    BY <1>1 DEF ClientConnects, Proxies
  <2> QED
    BY <1>0, <1>1, <2>1, HandlerUpdates DEF ClientConnects
<1>2. CASE ClientConnectFails
  BY <1>0, <1>2, EndFacts, HandlerUpdates DEF ClientConnectFails
<1>3. CASE ServerConnects
  BY <1>0, <1>3, HandlerUpdates DEF ServerConnects
<1>4. CASE ServerRetries
  <2>1. attempt + 1 \in 0 .. MaxRetries
    BY <1>4, TunnelAssumption DEF ServerRetries
  <2> QED
    BY <1>4, <2>1 DEF ServerRetries
<1>5. CASE ServerGivesUp
  BY <1>0, <1>5, EndFacts, HandlerUpdates DEF ServerGivesUp
<1>6. ASSUME NEW p \in Proxies,
             \/ CancelPending(p) \/ CloseOutgoing(p) \/ OutgoingClosed(p)
             \/ OutgoingRaises(p) \/ AcceptedClosed(p)
      PROVE  TypeOK'
  <2>0. Outgoing(p) \in ProxyEnds /\ Accepted(p) \in ProxyEnds
    BY EndFacts
  <2>1. CASE CancelPending(p)
    BY <2>1 DEF CancelPending
  <2>5. CASE CloseOutgoing(p)
    BY <2>0, <2>5, HandlerUpdates DEF CloseOutgoing
  <2>2. CASE OutgoingClosed(p)
    BY <2>0, <2>2, HandlerUpdates DEF OutgoingClosed
  <2>3. CASE OutgoingRaises(p)
    BY <2>0, <2>3, HandlerUpdates DEF OutgoingRaises
  <2>4. CASE AcceptedClosed(p)
    BY <2>4 DEF AcceptedClosed
  <2> QED
    BY <1>6, <2>1, <2>2, <2>3, <2>4, <2>5
<1> QED
  BY <1>1, <1>2, <1>3, <1>4, <1>5, <1>6

LEMMA TypeStep == TypeOK /\ [Next]_vars => TypeOK'
PROOF
<1> SUFFICES ASSUME TypeOK, [Next]_vars PROVE TypeOK'
  OBVIOUS
<1>1. CASE DestinationListens
  BY <1>1 DEF TypeOK, DestinationListens, netVars, loopVars, taskVars
<1>2. CASE SourceConnects
  BY <1>2, EndFacts DEF TypeOK, SourceConnects, netVars, Proxies
<1>3. CASE NetworkReset
  BY <1>3 DEF TypeOK, NetworkReset, qemuVars, loopVars, taskVars
<1>4. CASE UNCHANGED vars
  BY <1>4 DEF TypeOK, vars, qemuVars, netVars, loopVars, taskVars
<1> QED
  BY <1>1, <1>2, <1>3, <1>4, QemuType, TransportType, HandlerType
  DEF Next, ProxyStep, QemuReads, QemuActs

\* Type correctness.
THEOREM TypeCorrect == Spec => []TypeOK
PROOF
<1> QED
  BY TypeInit, TypeStep, PTL DEF Spec
-----------------------------------------------------------------------------
(* The handlers.                                                           *)

\* A handler exists only after its connection was accepted, the server's
\* only after the client's has connected.
HandlerOrder ==
  /\ app["S"] = "none" => handler["C"] = "idle"
  /\ handler["C"] \in {"idle", "connecting"} => handler["H"] = "idle"

\* What has been closed in each state of a handler.
CleanupProgress ==
  \A p \in Proxies :
    /\ handler[p] \in {"idle", "connecting", "closingOut"}
         => tr[Outgoing(p)] # "open"
    /\ handler[p] = "closingIn" \/ Finished(p)
         => tr[Outgoing(p)] # "open" /\ tr[Accepted(p)] # "open"

\* A direction is alive only while its handler forwards or awaits it, and
\* until then no handler has closed anything.
AliveInHandler ==
  \A p \in Proxies : \A e \in EndsOf(p) :
    Busy(e) => handler[p] \in {"forwarding", "cancelling"}

OpenTillClose ==
  \A p \in Proxies :
    /\ handler[p] = "connecting" => tr[Accepted(p)] \in {"open", "lost"}
    /\ handler[p] \in {"forwarding", "cancelling"} =>
         \A e \in EndsOf(p) : tr[e] \in {"open", "lost"}

\* Forwarding and clean-up do not overlap, and each step of the clean-up
\* finds done what the steps before it had to do.  The second
\* (CleanupProgress) needs the loop to close the accepted connection of a
\* handler that raised.
HandlerInv ==
  /\ TypeOK
  /\ HandlerOrder
  /\ AliveInHandler
  /\ OpenTillClose

\* The steps of Next in two groups: those that leave the handlers alone, and
\* those that are a handler's.
QuietStep ==
  \/ \E a \in Apps : Send(a) \/ Receive(a) \/ SeeEnd(a) \/ Close(a) \/ ShutDown(a)
  \/ \E e \in ProxyEnds :
       \/ TransportReads(e) \/ TransportSeesEof(e) \/ TransportWrites(e)
       \/ TransportFails(e) \/ TransportCloses(e)
       \/ Forward(e) \/ DirectionEnds(e) \/ DirectionCancelled(e)
  \/ DestinationListens \/ NetworkReset \/ ServerRetries \/ UNCHANGED vars

HandlerStep ==
  \/ SourceConnects \/ ClientConnects \/ ClientConnectFails
  \/ ServerConnects \/ ServerGivesUp
  \/ \E p \in Proxies : \/ CancelPending(p) \/ CloseOutgoing(p) \/ OutgoingClosed(p)
                        \/ OutgoingRaises(p) \/ AcceptedClosed(p)

LEMMA StepGroups == [Next]_vars => QuietStep \/ HandlerStep
PROOF
BY DEF Next, ProxyStep, QemuReads, QemuActs, QuietStep, HandlerStep

\* A quiet step may end a direction or a transport; it starts none.
LEMMA QuietSteps ==
  ASSUME TypeOK, QuietStep
  PROVE  /\ handler' = handler
         /\ \A e \in ProxyEnds : Busy(e)' => Busy(e)
         /\ \A e \in ProxyEnds : /\ tr'[e] = "open" => tr[e] = "open"
                                 /\ tr[e] \in {"open", "lost"} =>
                                      tr'[e] \in {"open", "lost"}
         /\ app'["S"] = "none" <=> app["S"] = "none"
PROOF
<1> USE DEF TypeOK, Busy
<1>1. ASSUME NEW a \in Apps,
             Send(a) \/ Receive(a) \/ SeeEnd(a) \/ Close(a) \/ ShutDown(a)
      PROVE  /\ UNCHANGED <<handler, dir, tr>>
             /\ app'["S"] = "none" <=> app["S"] = "none"
  BY <1>1, EndFacts DEF Send, Receive, SeeEnd, Close, ShutDown, loopVars, taskVars
<1>2. ASSUME NEW e \in ProxyEnds,
             \/ TransportReads(e) \/ TransportSeesEof(e) \/ TransportWrites(e)
             \/ TransportFails(e) \/ TransportCloses(e)
             \/ Forward(e) \/ DirectionEnds(e) \/ DirectionCancelled(e)
      PROVE  /\ UNCHANGED <<handler, app>>
             /\ dir' = dir \/ dir' = [dir EXCEPT ![e] = "done"]
                          \/ dir' = [dir EXCEPT ![e] = "cancelled"]
             /\ tr' = tr \/ tr' = [tr EXCEPT ![e] = "lost"]
                  \/ (tr[e] = "closing" /\ tr' = [tr EXCEPT ![e] = "closed"])
  BY <1>2 DEF TransportReads, TransportSeesEof, TransportWrites, TransportFails,
     TransportCloses, Forward, DirectionEnds, DirectionCancelled, qemuVars, netVars, loopVars, taskVars
<1>3. CASE \/ DestinationListens \/ NetworkReset \/ ServerRetries
           \/ UNCHANGED vars
  BY <1>3 DEF DestinationListens, NetworkReset, ServerRetries, vars, qemuVars,
     loopVars, taskVars
<1> QED
  BY <1>1, <1>2, <1>3 DEF QuietStep

\* One handler moves; what it does to its connections and directions.
LEMMA HandlerSteps ==
  ASSUME TypeOK, NEW p \in Proxies,
         \/ CancelPending(p) \/ CloseOutgoing(p) \/ OutgoingClosed(p)
         \/ OutgoingRaises(p) \/ AcceptedClosed(p)
  PROVE  /\ app' = app
         /\ \A q \in Proxies : q # p => handler'[q] = handler[q]
         /\ handler[p] \in {"forwarding", "cancelling", "closingOut", "closingIn"}
         /\ handler'[p] \in {"cancelling", "closingOut", "closingIn", "ended",
                              "raised"}
         /\ handler'[p] = "cancelling" => handler[p] = "forwarding" /\ tr' = tr
         /\ \A e \in ProxyEnds : Busy(e)' => Busy(e)
         /\ handler[p] = "forwarding" => handler'[p] = "cancelling"
         /\ handler[p] = "cancelling" => \A e \in EndsOf(p) : ~Busy(e)
         /\ \A e \in ProxyEnds : tr'[e] = "open" => tr[e] = "open"
         /\ \A e \in ProxyEnds : e \notin EndsOf(p) => tr'[e] = tr[e]
PROOF
<1>0. Outgoing(p) \in EndsOf(p) /\ Accepted(p) \in EndsOf(p)
      /\ EndsOf(p) \subseteq ProxyEnds
  BY EndFacts DEF EndsOf, Outgoing, Accepted
<1> USE DEF TypeOK, Busy
<1>1. CASE CancelPending(p)
  BY <1>0, <1>1 DEF CancelPending, qemuVars, loopVars
<1>5. CASE CloseOutgoing(p)
  BY <1>0, <1>5 DEF CloseOutgoing, Closed, qemuVars
<1>2. CASE OutgoingClosed(p)
  BY <1>0, <1>2 DEF OutgoingClosed, Closed, qemuVars
<1>3. CASE OutgoingRaises(p)
  BY <1>0, <1>3 DEF OutgoingRaises, Closed, qemuVars
<1>4. CASE AcceptedClosed(p)
  BY <1>0, <1>4 DEF AcceptedClosed, qemuVars, loopVars
<1> QED
  BY <1>1, <1>2, <1>3, <1>4, <1>5

LEMMA HandlerInit == Init => HandlerInv /\ CleanupProgress
PROOF
BY TypeInit, EndFacts
DEF Init, HandlerInv, HandlerOrder, AliveInHandler, OpenTillClose, Busy,
    CleanupProgress, Finished, Proxies

LEMMA HandlerOrderStep ==
  ASSUME HandlerInv, [Next]_vars
  PROVE  HandlerOrder'
PROOF
<1> USE DEF HandlerInv, HandlerOrder, Proxies
<1>1. CASE QuietStep
  BY <1>1, QuietSteps
<1>2. CASE SourceConnects
  BY <1>2, EndFacts DEF SourceConnects, TypeOK
<1>3. CASE ClientConnects
  BY <1>3, EndFacts DEF ClientConnects, TypeOK, qemuVars
<1>4. CASE ClientConnectFails
  BY <1>4, EndFacts DEF ClientConnectFails, TypeOK, qemuVars
<1>5. CASE ServerConnects
  BY <1>5, EndFacts DEF ServerConnects, TypeOK
<1>6. CASE ServerGivesUp
  BY <1>6, EndFacts DEF ServerGivesUp, TypeOK, qemuVars
<1>7. ASSUME NEW p \in Proxies,
             \/ CancelPending(p) \/ CloseOutgoing(p) \/ OutgoingClosed(p)
             \/ OutgoingRaises(p) \/ AcceptedClosed(p)
      PROVE  HandlerOrder'
  BY <1>7, HandlerSteps
<1> QED
  BY <1>1, <1>2, <1>3, <1>4, <1>5, <1>6, <1>7, StepGroups DEF HandlerStep

LEMMA AliveStep ==
  ASSUME HandlerInv, [Next]_vars
  PROVE  AliveInHandler'
PROOF
<1> USE DEF HandlerInv, AliveInHandler, TypeOK, Busy
<1>0. /\ \A p \in Proxies : EndsOf(p) \subseteq ProxyEnds
      /\ EndsOf("C") \cap EndsOf("H") = {} /\ Proxies = {"C", "H"}
  BY EndFacts DEF EndsOf, Proxies
<1>1. CASE QuietStep
  BY <1>0, <1>1, QuietSteps
<1>2. CASE SourceConnects
  BY <1>0, <1>2 DEF SourceConnects, HandlerOrder
<1>3. CASE ClientConnects
  BY <1>0, <1>3 DEF ClientConnects, StartForwarding, HandlerOrder
<1>4. CASE ClientConnectFails
  BY <1>0, <1>4 DEF ClientConnectFails
<1>5. CASE ServerConnects
  BY <1>0, <1>5 DEF ServerConnects, StartForwarding
<1>6. CASE ServerGivesUp
  BY <1>0, <1>6 DEF ServerGivesUp
<1>7. ASSUME NEW p \in Proxies,
             \/ CancelPending(p) \/ CloseOutgoing(p) \/ OutgoingClosed(p)
             \/ OutgoingRaises(p) \/ AcceptedClosed(p)
      PROVE  AliveInHandler'
  <2>1. ASSUME NEW q \in Proxies, NEW e \in EndsOf(q), Busy(e)'
        PROVE  handler'[q] \in {"forwarding", "cancelling"}
    <3>1. Busy(e) /\ handler[q] \in {"forwarding", "cancelling"}
      BY <1>0, <1>7, <2>1, HandlerSteps
    <3>2. CASE q = p
      BY <1>0, <1>7, <2>1, <3>1, <3>2, HandlerSteps
    <3> QED
      BY <1>7, <3>1, <3>2, HandlerSteps
  <2> QED
    BY <2>1
<1> QED
  BY <1>1, <1>2, <1>3, <1>4, <1>5, <1>6, <1>7, StepGroups DEF HandlerStep

LEMMA OpenStep ==
  ASSUME HandlerInv, [Next]_vars
  PROVE  OpenTillClose'
PROOF
<1> USE DEF HandlerInv, OpenTillClose, TypeOK
<1>0. /\ \A p \in Proxies : EndsOf(p) \subseteq ProxyEnds /\ Accepted(p) \in EndsOf(p)
      /\ EndsOf("C") = {"cu", "ct"} /\ EndsOf("H") = {"st", "su"}
      /\ Accepted("C") = "cu" /\ Accepted("H") = "st"
      /\ Outgoing("C") = "ct" /\ Outgoing("H") = "su"
      /\ Proxies = {"C", "H"} /\ {"cu", "ct", "st", "su"} \subseteq ProxyEnds
  BY EndFacts DEF EndsOf, Proxies, Accepted, Outgoing
<1>1. CASE QuietStep
  BY <1>0, <1>1, QuietSteps
<1>2. CASE SourceConnects
  BY <1>0, <1>2 DEF SourceConnects, HandlerOrder
<1>3. CASE ClientConnects
  BY <1>0, <1>3 DEF ClientConnects, HandlerOrder
<1>4. CASE ClientConnectFails
  BY <1>0, <1>4 DEF ClientConnectFails, Closed
<1>5. CASE ServerConnects
  BY <1>0, <1>5 DEF ServerConnects
<1>6. CASE ServerGivesUp
  BY <1>0, <1>6 DEF ServerGivesUp, Closed
<1>7. ASSUME NEW p \in Proxies,
             \/ CancelPending(p) \/ CloseOutgoing(p) \/ OutgoingClosed(p)
             \/ OutgoingRaises(p) \/ AcceptedClosed(p)
      PROVE  OpenTillClose'
  BY <1>0, <1>7, HandlerSteps
<1> QED
  BY <1>1, <1>2, <1>3, <1>4, <1>5, <1>6, <1>7, StepGroups DEF HandlerStep

LEMMA ProgressStep ==
  ASSUME HandlerInv, CleanupProgress, [Next]_vars, LoopClosesOnError
  PROVE  CleanupProgress'
PROOF
<1> USE DEF HandlerInv, CleanupProgress, TypeOK, Finished
<1>0. /\ \A p \in Proxies : Outgoing(p) \in ProxyEnds /\ Accepted(p) \in ProxyEnds
      /\ Outgoing("C") = "ct" /\ Accepted("C") = "cu"
      /\ Outgoing("H") = "su" /\ Accepted("H") = "st"
      /\ Proxies = {"C", "H"}
  BY EndFacts DEF Outgoing, Accepted, Proxies
<1>1. CASE QuietStep
  BY <1>0, <1>1, QuietSteps
<1>2. CASE SourceConnects
  BY <1>0, <1>2 DEF SourceConnects, HandlerOrder
<1>3. CASE ClientConnects
  BY <1>0, <1>3 DEF ClientConnects, HandlerOrder
<1>4. CASE ClientConnectFails
  BY <1>0, <1>4 DEF ClientConnectFails, Closed
<1>5. CASE ServerConnects
  BY <1>0, <1>5 DEF ServerConnects, HandlerOrder
<1>6. CASE ServerGivesUp
  BY <1>0, <1>6 DEF ServerGivesUp, Closed
<1>7. ASSUME NEW p \in Proxies,
             \/ CancelPending(p) \/ CloseOutgoing(p) \/ OutgoingClosed(p)
             \/ OutgoingRaises(p) \/ AcceptedClosed(p)
      PROVE  CleanupProgress'
  <2>1. CASE CancelPending(p)
    BY <1>0, <2>1 DEF CancelPending, loopVars
  <2>5. CASE CloseOutgoing(p)
    BY <1>0, <2>5 DEF CloseOutgoing, Closed
  <2>2. CASE OutgoingClosed(p)
    BY <1>0, <2>2 DEF OutgoingClosed, Closed
  <2>3. CASE OutgoingRaises(p)
    BY <1>0, <2>3 DEF OutgoingRaises, Closed
  <2>4. CASE AcceptedClosed(p)
    BY <1>0, <2>4 DEF AcceptedClosed, loopVars
  <2> QED
    BY <1>7, <2>1, <2>2, <2>3, <2>4, <2>5
<1> QED
  BY <1>1, <1>2, <1>3, <1>4, <1>5, <1>6, <1>7, StepGroups DEF HandlerStep

LEMMA HandlerInvariance == Spec => []HandlerInv
PROOF
<1>1. Init => HandlerInv
  BY HandlerInit
<1>2. HandlerInv /\ [Next]_vars => HandlerInv'
  BY TypeStep, HandlerOrderStep, AliveStep, OpenStep DEF HandlerInv
<1> QED
  BY <1>1, <1>2, PTL DEF Spec

\* No connection is closed under a direction that is still alive.
THEOREM CancelsFirst == Spec => []CancelBeforeClose
PROOF
<1>1. HandlerInv => CancelBeforeClose
  <2>1. ASSUME NEW e \in ProxyEnds
        PROVE  \E p \in Proxies : e \in EndsOf(p) /\ Across(e) \in EndsOf(p)
    BY EndFacts DEF EndsOf, Proxies, ProxyEnds, Across, AcrossOf
  <2> QED
    BY <2>1 DEF HandlerInv, AliveInHandler, OpenTillClose, CancelBeforeClose
<1> QED
  BY <1>1, HandlerInvariance, PTL

\* Where the loop closes the accepted connection of a handler that raised
\* (asyncio of Python 3.12 and later), a handler that is over has closed both
\* of its connections, whatever the network and the QEMUs did.
THEOREM CleansUp ==
  ASSUME LoopClosesOnError
  PROVE  Spec => []HandlerCleansUp
PROOF
<1> DEFINE CInv == HandlerInv /\ CleanupProgress
<1>1. Init => CInv
  BY HandlerInit
<1>2. CInv /\ [Next]_vars => CInv'
  BY TypeStep, HandlerOrderStep, AliveStep, OpenStep, ProgressStep, LoopClosesOnError
  DEF HandlerInv
<1>3. CInv => HandlerCleansUp
  BY EndFacts DEF CleanupProgress, HandlerCleansUp
<1> HIDE DEF CInv
<1> QED
  BY <1>1, <1>2, <1>3, PTL DEF Spec
-----------------------------------------------------------------------------
(* What a QEMU receives is a prefix of what the other one sent.            *)

\* The chunks of s are those that follow the k-th, in order.
Run(s, k) == \A i \in 1..Len(s) : s[i] = k + i

\* Its length: a name of its own keeps the sums of lengths apart from sequences.
Size(s) == Len(s)

\* The eight places a chunk passes, from the receiver's data back to the sender's
\* first socket, hold one run of numbers each, and each run begins where the one in
\* front of it ends, as far as the places are ok.  Behind one that is not, chunks may
\* be missing; they never pass it.  Nothing is beyond n, what has been sent.
Chain(q, ok, n) ==
  \E k \in [1..9 -> 0..n] :
    /\ k[1] = 0
    /\ \A i \in 1..8 :
         1..i \subseteq ok => Run(q[i], k[i]) /\ k[i + 1] = k[i] + Size(q[i])
    /\ 1..8 \subseteq ok => k[9] = n

LEMMA RunFacts ==
  /\ \A k \in Nat : Run(<<>>, k)
  /\ Size(<<>>) = 0
  /\ \A s \in Stream : Size(s) \in Nat
PROOF
BY DEF Run, Size, Stream

\* One more chunk at the end.
LEMMA RunAppends ==
  ASSUME NEW s \in Stream, NEW c \in Nat
  PROVE  /\ Size(Append(s, c)) = Size(s) + 1
         /\ \A k \in Nat : Run(s, k) /\ c = k + Size(s) + 1 => Run(Append(s, c), k)
PROOF
<1>1. /\ Len(s) \in Nat /\ Len(Append(s, c)) = Len(s) + 1
      /\ \A i \in 1..Len(s) : Append(s, c)[i] = s[i]
      /\ Append(s, c)[Len(s) + 1] = c
  <2>1. s \in Seq(Nat) /\ Len(s) \in Nat
    BY DEF Stream
  <2> QED
    BY ONLY <2>1, c \in Nat, AppendProperties
<1>2. ASSUME NEW k \in Nat, Run(s, k), c = k + Len(s) + 1 PROVE Run(Append(s, c), k)
  <2>1. \A i \in 1 .. Len(s) + 1 : i \in 1..Len(s) \/ i = Len(s) + 1
    BY <1>1
  <2>2. \A i \in 1..Len(s) : Append(s, c)[i] = k + i
    BY ONLY <1>1, <1>2 DEF Run
  <2>3. Append(s, c)[Len(s) + 1] = k + (Len(s) + 1)
    BY ONLY <1>1, <1>2
  <2> QED
    BY ONLY <1>1, <2>1, <2>2, <2>3 DEF Run
<1> QED
  BY <1>1, <1>2 DEF Size

\* One chunk is taken from the head of t and put at the end of s.
LEMMA RunMovesHead ==
  ASSUME NEW s \in Stream, NEW t \in Stream, t # <<>>
  PROVE  /\ Size(Append(s, Head(t))) = Size(s) + 1
         /\ Size(t) = Size(Tail(t)) + 1
         /\ \A k \in Nat : Run(s, k) /\ Run(t, k + Size(s)) =>
              Run(Append(s, Head(t)), k) /\ Run(Tail(t), k + Size(s) + 1)
PROOF
<1>1. /\ Len(t) \in Nat \ {0} /\ Head(t) = t[1] /\ Head(t) \in Nat
      /\ Len(Tail(t)) = Len(t) - 1
      /\ \A i \in 1..Len(Tail(t)) : Tail(t)[i] = t[i + 1]
  <2>1. t \in Seq(Nat) /\ t # <<>>
    BY DEF Stream
  <2>2. Len(t) \in Nat \ {0} /\ Head(t) = t[1]
    BY <2>1
  <2> QED
    BY <2>1, <2>2, HeadTailProperties
<1>2. Size(s) \in Nat
  BY RunFacts
<1>3. ASSUME NEW k \in Nat, Run(s, k), Run(t, k + Size(s))
      PROVE  Run(Append(s, Head(t)), k) /\ Run(Tail(t), k + Size(s) + 1)
  <2>1. Head(t) = k + Size(s) + 1
    BY ONLY <1>1, <1>2, <1>3 DEF Run
  <2>2. Run(Append(s, Head(t)), k)
    BY ONLY <1>1, <1>3, <2>1, s \in Stream, RunAppends
  <2>3. Run(Tail(t), k + Size(s) + 1)
    BY ONLY <1>1, <1>2, <1>3 DEF Run
  <2> QED
    BY <2>2, <2>3
<1>4. Size(Append(s, Head(t))) = Size(s) + 1
  BY <1>1, RunAppends
<1>5. Size(t) = Size(Tail(t)) + 1
  BY ONLY <1>1 DEF Size
<1> QED
  BY <1>3, <1>4, <1>5

\* All of t is put at the end of s.
LEMMA RunMovesAll ==
  ASSUME NEW s \in Stream, NEW t \in Stream
  PROVE  /\ Size(s \o t) = Size(s) + Size(t)
         /\ \A k \in Nat : Run(s, k) /\ Run(t, k + Size(s)) => Run(s \o t, k)
PROOF
<1>1. /\ Len(s) \in Nat /\ Len(t) \in Nat
      /\ Len(s \o t) = Len(s) + Len(t)
      /\ \A i \in 1 .. Len(s) + Len(t) :
           (s \o t)[i] = IF i <= Len(s) THEN s[i] ELSE t[i - Len(s)]
  <2>1. s \in Seq(Nat) /\ t \in Seq(Nat) /\ Len(s) \in Nat /\ Len(t) \in Nat
    BY DEF Stream
  <2> QED
    BY ONLY <2>1, ConcatProperties
<1>2. ASSUME NEW k \in Nat, Run(s, k), Run(t, k + Len(s))
      PROVE  Run(s \o t, k)
  BY ONLY <1>1, <1>2 DEF Run
<1> QED
  BY <1>1, <1>2 DEF Size

\* A step that changes no place, or only places that are cut off afterwards.
LEMMA ChainKeeps ==
  ASSUME NEW q, NEW r, NEW ok, NEW okn, NEW n \in Nat, NEW m \in Nat,
         Chain(q, ok, n), okn \subseteq ok, n <= m,
         \A i \in 1..8 : 1..i \subseteq okn => r[i] = q[i],
         1..8 \subseteq okn => m = n
  PROVE  Chain(r, okn, m)
PROOF
<1> PICK k \in [1..9 -> 0..n] :
      /\ k[1] = 0
      /\ \A i \in 1..8 :
           1..i \subseteq ok => Run(q[i], k[i]) /\ k[i + 1] = k[i] + Size(q[i])
      /\ 1..8 \subseteq ok => k[9] = n
  BY DEF Chain
<1>1. k \in [1..9 -> 0..m]
  OBVIOUS
<1>2. ASSUME NEW i \in 1..8, 1..i \subseteq okn
      PROVE  Run(r[i], k[i]) /\ k[i + 1] = k[i] + Size(r[i])
  <2>1. 1..i \subseteq ok /\ r[i] = q[i]
    BY <1>2
  <2> QED
    BY <2>1
<1>3. 1..8 \subseteq okn => k[9] = m
  OBVIOUS
<1> QED
  BY <1>1, <1>2, <1>3 DEF Chain

\* Chunks move from one place to the one in front of it.
LEMMA ChainMoves ==
  ASSUME NEW q, NEW r, NEW ok, NEW okn, NEW n \in Nat, NEW i \in 1..7, NEW d \in Nat,
         Chain(q, ok, n), okn \subseteq ok, i + 1 \in ok,
         Size(q[i]) \in Nat, Size(r[i + 1]) \in Nat,
         Size(r[i]) = Size(q[i]) + d, Size(q[i + 1]) = Size(r[i + 1]) + d,
         \A k \in Nat : Run(q[i], k) /\ Run(q[i + 1], k + Size(q[i])) =>
                          Run(r[i], k) /\ Run(r[i + 1], k + Size(r[i])),
         \A j \in (1..8) \ {i, i + 1} : r[j] = q[j]
  PROVE  Chain(r, okn, n)
PROOF
<1>k. PICK k \in [1..9 -> 0..n] :
      /\ k[1] = 0
      /\ \A j \in 1..8 :
           1..j \subseteq ok => Run(q[j], k[j]) /\ k[j + 1] = k[j] + Size(q[j])
      /\ 1..8 \subseteq ok => k[9] = n
  BY DEF Chain
<1>1. CASE ~(1..i \subseteq okn)
  <2>1. \A j \in 1..8 : 1..j \subseteq okn => j < i
    BY <1>1
  <2>2. \A j \in 1..8 : 1..j \subseteq okn => r[j] = q[j]
    BY <2>1
  <2>3. ~(1..8 \subseteq okn)
    BY <2>1
  <2> QED
    BY <2>2, <2>3, ChainKeeps
<1>2. CASE 1..i \subseteq okn
  <2>1. 1..i \subseteq ok /\ 1..(i + 1) \subseteq ok
    <3>1. 1..(i + 1) = (1..i) \cup {i + 1}
      OBVIOUS
    <3> QED
      BY <1>2, <3>1
  <2>2. /\ Run(q[i], k[i]) /\ k[i + 1] = k[i] + Size(q[i])
        /\ Run(q[i + 1], k[i + 1]) /\ k[i + 2] = k[i + 1] + Size(q[i + 1])
        /\ k[i] \in 0..n /\ k[i + 1] \in 0..n /\ k[i + 2] \in 0..n
    <3>1. /\ Run(q[i], k[i]) /\ k[i + 1] = k[i] + Size(q[i])
          /\ Run(q[i + 1], k[i + 1]) /\ k[(i + 1) + 1] = k[i + 1] + Size(q[i + 1])
      <4>1. i \in 1..8 /\ i + 1 \in 1..8
        OBVIOUS
      <4> QED
        BY ONLY <1>k, <2>1, <4>1
    <3>2. (i + 1) + 1 = i + 2 /\ i \in 1..9 /\ i + 1 \in 1..9 /\ i + 2 \in 1..9
      OBVIOUS
    <3>3. k[i] \in 0..n /\ k[i + 1] \in 0..n /\ k[i + 2] \in 0..n
      BY ONLY <1>k, <3>2
    <3> QED
      BY ONLY <3>1, <3>2, <3>3
  <2>3. Run(r[i], k[i]) /\ Run(r[i + 1], k[i] + Size(r[i]))
    BY <2>2
  <2> DEFINE x == k[i + 1] + d
             l == [k EXCEPT ![i + 1] = x]
  <2>4. /\ x \in 0..n /\ x = k[i] + Size(r[i])
        /\ k[i + 2] = x + Size(r[i + 1])
    <3> DEFINE a == Size(q[i])
               b == Size(r[i + 1])
    <3>1. /\ a \in Nat /\ b \in Nat /\ Size(r[i]) = a + d /\ Size(q[i + 1]) = b + d
          /\ k[i + 1] = k[i] + a /\ k[i + 2] = k[i + 1] + (b + d)
      BY <2>2
    <3> HIDE DEF a, b
    <3> QED
      BY <2>2, <3>1
  <2> HIDE DEF x
  <2>5. l \in [1..9 -> 0..n] /\ l[i + 1] = x
        /\ \A j \in 1..9 : j # i + 1 => l[j] = k[j]
    BY <1>k, <2>4
  <2> HIDE DEF l
  <2>6. l[1] = 0
    <3>1. 1 \in 1..9 /\ 1 # i + 1
      OBVIOUS
    <3> QED
      BY <1>k, <2>5, <3>1
  <2>7. ASSUME NEW j \in 1..8, 1..j \subseteq okn
        PROVE  Run(r[j], l[j]) /\ l[j + 1] = l[j] + Size(r[j])
    <3>1. CASE j = i
      <4>1. l[i] = k[i]
        BY <2>5
      <4> QED
        BY <2>3, <2>4, <2>5, <3>1, <4>1
    <3>2. CASE j = i + 1
      <4>1. l[j] = x /\ l[j + 1] = k[i + 2]
        <5>1. j + 1 = i + 2 /\ j + 1 \in 1..9 /\ j + 1 # i + 1
          BY <3>2
        <5> QED
          BY <2>5, <3>2, <5>1
      <4> QED
        BY <2>3, <2>4, <3>2, <4>1
    <3>3. CASE j \notin {i, i + 1}
      <4>1. l[j] = k[j] /\ l[j + 1] = k[j + 1]
        <5>1. j \in 1..9 /\ j + 1 \in 1..9 /\ j # i + 1 /\ j + 1 # i + 1
          BY <3>3
        <5> QED
          BY <2>5, <5>1
      <4>2. r[j] = q[j] /\ 1..j \subseteq ok
        BY <2>7, <3>3
      <4> QED
        BY <1>k, <4>1, <4>2
    <3> QED
      BY <3>1, <3>2, <3>3
  <2>8. 1..8 \subseteq okn => l[9] = n
    <3>1. 1..8 \subseteq okn => k[9] = n
      BY <1>k
    <3>2. 9 \in 1..9 /\ 9 # i + 1
      OBVIOUS
    <3> QED
      BY <2>5, <3>1, <3>2
  <2> QED
    BY <2>5, <2>6, <2>7, <2>8 DEF Chain
<1> QED
  BY <1>1, <1>2

\* The sender puts its next chunk into the last place.
LEMMA ChainGrows ==
  ASSUME NEW q, NEW r, NEW ok, NEW n \in Nat, Chain(q, ok, n),
         NEW t \in Stream, q[8] = t, r[8] = Append(t, n + 1),
         \A j \in 1..7 : r[j] = q[j]
  PROVE  Chain(r, ok, n + 1)
PROOF
<1>k. PICK k \in [1..9 -> 0..n] :
      /\ k[1] = 0
      /\ \A i \in 1..8 :
           1..i \subseteq ok => Run(q[i], k[i]) /\ k[i + 1] = k[i] + Size(q[i])
      /\ 1..8 \subseteq ok => k[9] = n
  BY DEF Chain
<1> DEFINE l == [k EXCEPT ![9] = n + 1]
<1>1. l \in [1..9 -> 0..n + 1] /\ l[9] = n + 1 /\ \A j \in 1..8 : l[j] = k[j]
  <2>1. k \in [1..9 -> 0..n + 1] /\ n + 1 \in 0..n + 1 /\ 9 \in 1..9
    BY ONLY <1>k, n \in Nat
  <2>2. \A j \in 1..8 : j \in 1..9 /\ j # 9
    BY ONLY n \in Nat
  <2> QED
    BY ONLY <2>1, <2>2
<1> HIDE DEF l
<1>2. l[1] = 0
  BY <1>k, <1>1
<1>3. ASSUME NEW j \in 1..8, 1..j \subseteq ok
      PROVE  Run(r[j], l[j]) /\ l[j + 1] = l[j] + Size(r[j])
  <2>1. CASE j \in 1..7
    <3>1. j + 1 \in 1..8 /\ r[j] = q[j]
      BY ONLY <2>1, \A h \in 1..7 : r[h] = q[h]
    <3>2. Run(q[j], k[j]) /\ k[j + 1] = k[j] + Size(q[j])
      BY ONLY <1>k, <1>3
    <3> QED
      BY ONLY <1>1, <1>3, <3>1, <3>2
  <2>2. CASE j = 8
    <3>1. Run(q[8], k[8]) /\ n = k[8] + Size(q[8]) /\ k[8] \in Nat
      <4>1. Run(q[8], k[8]) /\ k[8 + 1] = k[8] + Size(q[8]) /\ k[9] = n /\ k[8] \in 0..n
        BY ONLY <1>k, <1>3, <2>2
      <4> QED
        BY ONLY <4>1, n \in Nat
    <3>2. Size(r[8]) = Size(q[8]) + 1 /\ Run(r[8], k[8])
      <4> DEFINE c == n + 1
      <4>1. c \in Nat /\ r[8] = Append(t, c) /\ Size(t) \in Nat
        BY RunFacts
      <4>2. Run(t, k[8]) /\ c = k[8] + Size(t) + 1 /\ k[8] \in Nat
        BY <3>1, <4>1
      <4> HIDE DEF c
      <4>3. Size(Append(t, c)) = Size(t) + 1 /\ Run(Append(t, c), k[8])
        BY ONLY <4>1, <4>2, t \in Stream, RunAppends
      <4> QED
        BY ONLY <4>1, <4>3, q[8] = t
    <3>3. l[8] = k[8] /\ l[8 + 1] = n + 1 /\ Size(q[8]) \in Nat
      <4>1. 8 \in 1..8 /\ 8 + 1 = 9
        OBVIOUS
      <4> QED
        BY ONLY <1>1, <4>1, RunFacts, q[8] = t, t \in Stream
    <3> QED
      BY ONLY <2>2, <3>1, <3>2, <3>3
  <2> QED
    BY <2>1, <2>2
<1> QED
  BY <1>1, <1>2, <1>3 DEF Chain
-----------------------------------------------------------------------------
\* The way of a's data: from the other QEMU to the proxy end Far(a), through that
\* proxy to FarOut(a), over the network to NearIn(a), through that proxy to Near(a),
\* and to a.
Sender(a) == IF a = "S" THEN "D" ELSE "S"
Near(a) == Peer(a)
NearIn(a) == Across(Near(a))
FarOut(a) == Peer(NearIn(a))
Far(a) == Across(FarOut(a))

LEMMA WayFacts ==
  ASSUME NEW a \in Apps
  PROVE  /\ Sender(a) \in Apps /\ Sender(a) # a /\ Apps = {a, Sender(a)}
         /\ ProxyEnds = {Near(a), NearIn(a), FarOut(a), Far(a)}
         /\ Near(a) # NearIn(a) /\ Near(a) # FarOut(a) /\ Near(a) # Far(a)
         /\ NearIn(a) # FarOut(a) /\ NearIn(a) # Far(a) /\ FarOut(a) # Far(a)
         /\ Peer(a) = Near(a) /\ Peer(Near(a)) = a
         /\ Peer(NearIn(a)) = FarOut(a) /\ Peer(FarOut(a)) = NearIn(a)
         /\ Peer(Far(a)) = Sender(a) /\ Peer(Sender(a)) = Far(a)
         /\ Across(Near(a)) = NearIn(a) /\ Across(NearIn(a)) = Near(a)
         /\ Across(FarOut(a)) = Far(a) /\ Across(Far(a)) = FarOut(a)
         /\ Apps \cap ProxyEnds = {}
PROOF
<1>1. CASE a = "S"
  BY <1>1 DEF Sender, Near, NearIn, FarOut, Far, Peer, PeerOf, Across, AcrossOf, Apps,
              ProxyEnds
<1>2. CASE a = "D"
  BY <1>2 DEF Sender, Near, NearIn, FarOut, Far, Peer, PeerOf, Across, AcrossOf, Apps,
              ProxyEnds
<1> QED
  BY <1>1, <1>2 DEF Apps

Places(a) == <<rcvd[a], inbox[a], wbuf[Near(a)], held[NearIn(a)], inbox[NearIn(a)],
               wbuf[FarOut(a)], held[Far(a)], inbox[Far(a)]>>

\* Nothing has been dropped between a place and the one in front of it, nor will be.
Ok2(a) == app[a] # "closed"
Ok3(a) == ~rst[Near(a)] /\ tr[Near(a)] \notin {"closed", "lost"}
Ok4(a) == /\ tr[Near(a)] \in {"none", "open"} /\ tr[NearIn(a)] # "lost"
          /\ dir[NearIn(a)] \in {"none", "running"}
Ok5(a) == tr[NearIn(a)] \in {"none", "open"}
Ok6(a) == ~rst[FarOut(a)] /\ tr[FarOut(a)] \notin {"closed", "lost"}
Ok7(a) == /\ tr[FarOut(a)] \in {"none", "open"} /\ tr[Far(a)] # "lost"
          /\ dir[Far(a)] \in {"none", "running"}
Ok8(a) == tr[Far(a)] \in {"none", "open"}

Intact(a) ==
  {i \in 1..8 : /\ i = 2 => Ok2(a)
                /\ i = 3 => Ok3(a)
                /\ i = 4 => Ok4(a)
                /\ i = 5 => Ok5(a)
                /\ i = 6 => Ok6(a)
                /\ i = 7 => Ok7(a)
                /\ i = 8 => Ok8(a)}

Way(a) == Chain(Places(a), Intact(a), count[Sender(a)])

\* A step mends nothing.
Wears(a) ==
  /\ Ok2(a)' => Ok2(a)
  /\ Ok3(a)' => Ok3(a)
  /\ Ok4(a)' => Ok4(a)
  /\ Ok5(a)' => Ok5(a)
  /\ Ok6(a)' => Ok6(a)
  /\ Ok7(a)' => Ok7(a)
  /\ Ok8(a)' => Ok8(a)

\* A step that moves nothing towards a.
Rests(a) ==
  /\ rcvd'[a] = rcvd[a]
  /\ Ok2(a)' => inbox'[a] = inbox[a]
  /\ Ok3(a)' => wbuf'[Near(a)] = wbuf[Near(a)]
  /\ Ok4(a)' => held'[NearIn(a)] = held[NearIn(a)]
  /\ Ok5(a)' => inbox'[NearIn(a)] = inbox[NearIn(a)]
  /\ Ok6(a)' => wbuf'[FarOut(a)] = wbuf[FarOut(a)]
  /\ Ok7(a)' => held'[Far(a)] = held[Far(a)]
  /\ Ok8(a)' => inbox'[Far(a)] = inbox[Far(a)]
  /\ Ok8(a)' => count'[Sender(a)] = count[Sender(a)]
  /\ count[Sender(a)] <= count'[Sender(a)]

LEMMA WearsFacts ==
  ASSUME NEW a \in Apps, Wears(a)
  PROVE  Intact(a)' \subseteq Intact(a)
PROOF
BY DEF Wears, Intact

LEMMA WayKeeps ==
  ASSUME TypeOK, TypeOK', NEW a \in Apps, Way(a), Wears(a), Rests(a)
  PROVE  Way(a)'
PROOF
<1>1. count[Sender(a)] \in Nat /\ count'[Sender(a)] \in Nat
  BY WayFacts DEF TypeOK
<1>2. Intact(a)' \subseteq Intact(a)
  BY WearsFacts
<1>3. \A i \in 1..8 : 1..i \subseteq Intact(a)' => i \in Intact(a)'
  OBVIOUS
<1>4. ASSUME NEW i \in 1..8, i \in Intact(a)' PROVE Places(a)'[i] = Places(a)[i]
  BY <1>4 DEF Places, Rests, Intact
<1>5. 8 \in Intact(a)' => count'[Sender(a)] = count[Sender(a)]
  BY DEF Rests, Intact
<1>6. 1..8 \subseteq Intact(a)' => count'[Sender(a)] = count[Sender(a)]
  BY <1>5
<1>7. count[Sender(a)] <= count'[Sender(a)]
  BY DEF Rests
<1> QED
  BY ONLY <1>1, <1>2, <1>3, <1>4, <1>6, <1>7, Way(a), ChainKeeps DEF Way

LEMMA PlacesType ==
  ASSUME TypeOK, NEW a \in Apps
  PROVE  \A i \in 1..8 : Places(a)[i] \in Stream
PROOF
<1>1. /\ a \in Ends /\ Near(a) \in ProxyEnds /\ NearIn(a) \in ProxyEnds
      /\ FarOut(a) \in ProxyEnds /\ Far(a) \in ProxyEnds
      /\ NearIn(a) \in Ends /\ Far(a) \in Ends
  BY WayFacts, EndFacts
<1>2. /\ rcvd[a] \in Stream /\ inbox[a] \in Stream
      /\ wbuf[Near(a)] \in Stream /\ held[NearIn(a)] \in Stream
      /\ inbox[NearIn(a)] \in Stream /\ wbuf[FarOut(a)] \in Stream
      /\ held[Far(a)] \in Stream /\ inbox[Far(a)] \in Stream
  BY <1>1 DEF TypeOK
<1> QED
  BY <1>2 DEF Places

LEMMA PlacesFacts ==
  ASSUME NEW a \in Apps
  PROVE  /\ Places(a)[1] = rcvd[a] /\ Places(a)'[1] = rcvd'[a]
         /\ Places(a)[2] = inbox[a] /\ Places(a)'[2] = inbox'[a]
         /\ Places(a)[3] = wbuf[Near(a)] /\ Places(a)'[3] = wbuf'[Near(a)]
         /\ Places(a)[4] = held[NearIn(a)] /\ Places(a)'[4] = held'[NearIn(a)]
         /\ Places(a)[5] = inbox[NearIn(a)] /\ Places(a)'[5] = inbox'[NearIn(a)]
         /\ Places(a)[6] = wbuf[FarOut(a)] /\ Places(a)'[6] = wbuf'[FarOut(a)]
         /\ Places(a)[7] = held[Far(a)] /\ Places(a)'[7] = held'[Far(a)]
         /\ Places(a)[8] = inbox[Far(a)] /\ Places(a)'[8] = inbox'[Far(a)]
PROOF
BY DEF Places

\* What a step does to the places: it leaves some alone, or all of them; it takes the
\* first chunk of place i + 1, or all of them, to the end of place i.
Still(a, I) == \A j \in I : Places(a)'[j] = Places(a)[j]

Stays(a) == Still(a, 1..8) /\ count'[Sender(a)] = count[Sender(a)]

Moves(a, i) ==
  /\ Places(a)[i + 1] # <<>>
  /\ Places(a)'[i] = Append(Places(a)[i], Head(Places(a)[i + 1]))
  /\ Places(a)'[i + 1] = Tail(Places(a)[i + 1])
  /\ Still(a, (1..8) \ {i, i + 1})
  /\ count'[Sender(a)] = count[Sender(a)]

Flushes(a, i) ==
  /\ Places(a)'[i] = Places(a)[i] \o Places(a)[i + 1]
  /\ Places(a)'[i + 1] = <<>>
  /\ Still(a, (1..8) \ {i, i + 1})
  /\ count'[Sender(a)] = count[Sender(a)]

LEMMA StaysRests ==
  ASSUME TypeOK, NEW a \in Apps, Stays(a)
  PROVE  Rests(a)
PROOF
<1>1. count[Sender(a)] \in Nat
  BY WayFacts DEF TypeOK
<1>2. \A j \in {1, 2, 3, 4, 5, 6, 7, 8} : Places(a)'[j] = Places(a)[j]
  BY DEF Stays, Still
<1> QED
  BY <1>1, <1>2, PlacesFacts DEF Stays, Rests

LEMMA WayStep ==
  ASSUME TypeOK, TypeOK', NEW a \in Apps, Way(a), Wears(a), NEW i \in 1..7,
         i + 1 \in Intact(a), Moves(a, i)
  PROVE  Way(a)'
PROOF
<1> DEFINE q == Places(a)
           r == Places(a)'
           n == count[Sender(a)]
<1>1. n \in Nat /\ Intact(a)' \subseteq Intact(a)
  BY WayFacts, WearsFacts DEF TypeOK
<1>2. q[i] \in Stream /\ q[i + 1] \in Stream /\ q[i + 1] # <<>>
  BY PlacesType DEF Moves
<1>3. r[i] = Append(q[i], Head(q[i + 1])) /\ r[i + 1] = Tail(q[i + 1])
      /\ \A j \in (1..8) \ {i, i + 1} : r[j] = q[j]
  BY DEF Moves, Still
<1>4. Chain(q, Intact(a), n)
  BY DEF Way
<1> HIDE DEF q, r, n
<1>5. /\ Size(r[i]) = Size(q[i]) + 1 /\ Size(q[i + 1]) = Size(r[i + 1]) + 1
      /\ \A k \in Nat : Run(q[i], k) /\ Run(q[i + 1], k + Size(q[i])) =>
                          Run(r[i], k) /\ Run(r[i + 1], k + Size(q[i]) + 1)
  BY ONLY <1>2, <1>3, RunMovesHead
<1>6. Size(q[i]) \in Nat /\ Size(r[i + 1]) \in Nat
  <2>1. Tail(q[i + 1]) \in Stream
    BY <1>2, StreamFacts
  <2> QED
    BY <1>2, <1>3, <2>1, RunFacts
<1>7. \A k \in Nat : Run(q[i], k) /\ Run(q[i + 1], k + Size(q[i])) =>
                       Run(r[i], k) /\ Run(r[i + 1], k + Size(r[i]))
  <2>1. \A k \in Nat : k + Size(r[i]) = k + Size(q[i]) + 1
    BY ONLY <1>5, <1>6
  <2> QED
    BY ONLY <1>5, <2>1
<1>8. Chain(r, Intact(a)', n)
  BY ONLY <1>1, <1>3, <1>4, <1>5, <1>6, <1>7, i \in 1..7, i + 1 \in Intact(a), 1 \in Nat,
          ChainMoves
<1> QED
  BY <1>8 DEF Way, n, r, Moves

LEMMA WayFlush ==
  ASSUME TypeOK, TypeOK', NEW a \in Apps, Way(a), Wears(a), NEW i \in 1..7,
         i + 1 \in Intact(a), Flushes(a, i)
  PROVE  Way(a)'
PROOF
<1> DEFINE q == Places(a)
           r == Places(a)'
           n == count[Sender(a)]
           d == Size(q[i + 1])
<1>1. n \in Nat /\ Intact(a)' \subseteq Intact(a)
  BY WayFacts, WearsFacts DEF TypeOK
<1>2. q[i] \in Stream /\ q[i + 1] \in Stream
  BY PlacesType
<1>3. r[i] = q[i] \o q[i + 1] /\ r[i + 1] = <<>>
      /\ \A j \in (1..8) \ {i, i + 1} : r[j] = q[j]
  BY DEF Flushes, Still
<1>4. Chain(q, Intact(a), n)
  BY DEF Way
<1> HIDE DEF q, r, n
<1>5. /\ Size(r[i]) = Size(q[i]) + d
      /\ \A k \in Nat : Run(q[i], k) /\ Run(q[i + 1], k + Size(q[i])) => Run(r[i], k)
  BY ONLY <1>2, <1>3, RunMovesAll
<1>6. /\ Size(q[i]) \in Nat /\ d \in Nat /\ Size(r[i + 1]) = 0
      /\ \A k \in Nat : Run(r[i + 1], k)
  BY ONLY <1>2, <1>3, RunFacts
<1> HIDE DEF d
<1>7. Size(r[i]) \in Nat /\ d = Size(r[i + 1]) + d /\ Size(r[i + 1]) \in Nat
  BY ONLY <1>5, <1>6
<1>8. \A k \in Nat : Run(q[i], k) /\ Run(q[i + 1], k + Size(q[i])) =>
                       Run(r[i], k) /\ Run(r[i + 1], k + Size(r[i]))
  BY ONLY <1>5, <1>6, <1>7
<1>9. Size(q[i + 1]) = Size(r[i + 1]) + d
  BY <1>7 DEF d
<1>10. Chain(r, Intact(a)', n)
  BY ONLY <1>1, <1>3, <1>4, <1>5, <1>6, <1>7, <1>8, <1>9, i \in 1..7,
          i + 1 \in Intact(a), ChainMoves
<1> QED
  BY <1>10 DEF Way, n, r, Flushes
-----------------------------------------------------------------------------
\* Connections and directions come into being in pairs, and where the handlers say.
Linked ==
  /\ \A a \in Apps : app[a] = "none" <=> tr[Peer(a)] = "none"
  /\ handler["C"] \in {"idle", "connecting"} => tr["ct"] = "none" /\ tr["st"] = "none"
  /\ handler["H"] \in {"idle", "connecting"} => tr["su"] = "none"
  /\ handler["H"] # "idle" => tr["st"] # "none"
  /\ \A p \in Proxies : handler[p] \in {"idle", "connecting"} =>
       \A e \in EndsOf(p) : dir[e] = "none"
  /\ \A e \in ProxyEnds : dir[e] # "none" => tr[Across(e)] # "none"

\* A quiet step makes no connection and no direction.
LEMMA QuietLinks ==
  ASSUME TypeOK, QuietStep
  PROVE  /\ \A e \in ProxyEnds : dir'[e] = "none" <=> dir[e] = "none"
         /\ \A e \in ProxyEnds : tr'[e] = "none" <=> tr[e] = "none"
         /\ \A a \in Apps : app'[a] = "none" <=> app[a] = "none"
PROOF
<1> USE DEF TypeOK
<1>1. ASSUME NEW a \in Apps,
             Send(a) \/ Receive(a) \/ SeeEnd(a) \/ Close(a) \/ ShutDown(a)
      PROVE  /\ UNCHANGED <<dir, tr>>
             /\ \A b \in Apps : app'[b] = "none" <=> app[b] = "none"
  BY <1>1 DEF Send, Receive, SeeEnd, Close, ShutDown, loopVars, taskVars
<1>2. ASSUME NEW e \in ProxyEnds,
             \/ TransportReads(e) \/ TransportSeesEof(e) \/ TransportWrites(e)
             \/ TransportFails(e) \/ TransportCloses(e)
             \/ Forward(e) \/ DirectionEnds(e) \/ DirectionCancelled(e)
      PROVE  /\ UNCHANGED app
             /\ \/ dir' = dir
                \/ dir[e] # "none" /\ dir' = [dir EXCEPT ![e] = "done"]
                \/ dir[e] # "none" /\ dir' = [dir EXCEPT ![e] = "cancelled"]
             /\ \/ tr' = tr
                \/ tr[e] # "none" /\ tr' = [tr EXCEPT ![e] = "lost"]
                \/ tr[e] # "none" /\ tr' = [tr EXCEPT ![e] = "closed"]
  <2>1. Apps \cap ProxyEnds = {}
    BY DEF Apps, ProxyEnds
  <2> QED
    BY <1>2, <2>1 DEF TransportReads, TransportSeesEof, TransportWrites,
       TransportFails, TransportCloses, Forward, DirectionEnds, DirectionCancelled, Alive,
       qemuVars, netVars, loopVars, taskVars
<1>3. CASE \/ DestinationListens \/ NetworkReset \/ ServerRetries
           \/ UNCHANGED vars
  BY <1>3 DEF DestinationListens, NetworkReset, ServerRetries, vars, qemuVars,
     loopVars, taskVars
<1>4. ASSUME NEW e \in ProxyEnds,
             \/ TransportReads(e) \/ TransportSeesEof(e) \/ TransportWrites(e)
             \/ TransportFails(e) \/ TransportCloses(e)
             \/ Forward(e) \/ DirectionEnds(e) \/ DirectionCancelled(e)
      PROVE  /\ \A f \in ProxyEnds : dir'[f] = "none" <=> dir[f] = "none"
             /\ \A f \in ProxyEnds : tr'[f] = "none" <=> tr[f] = "none"
             /\ \A a \in Apps : app'[a] = "none" <=> app[a] = "none"
  BY <1>2, <1>4
<1> QED
  BY <1>1, <1>3, <1>4 DEF QuietStep

LEMMA LinkedInit == Init => Linked
PROOF
BY EndFacts DEF Init, Linked, Apps, Peer, PeerOf, Proxies, ProxyEnds, EndsOf

LEMMA LinkedStep ==
  ASSUME HandlerInv, Linked, [Next]_vars
  PROVE  Linked'
PROOF
<1> USE DEF HandlerInv
<1>1. /\ ProxyEnds = {"cu", "ct", "st", "su"} /\ Apps = {"S", "D"} /\ Proxies = {"C", "H"}
      /\ EndsOf("C") = {"cu", "ct"} /\ EndsOf("H") = {"st", "su"}
      /\ Peer("S") = "cu" /\ Peer("D") = "su"
      /\ Across("cu") = "ct" /\ Across("ct") = "cu"
      /\ Across("st") = "su" /\ Across("su") = "st"
  BY DEF ProxyEnds, Apps, Proxies, EndsOf, Peer, PeerOf, Across, AcrossOf
<1>2. CASE QuietStep
  <2>1. handler' = handler
    BY <1>2, QuietSteps
  <2>2. /\ \A e \in ProxyEnds : dir'[e] = "none" <=> dir[e] = "none"
        /\ \A e \in ProxyEnds : tr'[e] = "none" <=> tr[e] = "none"
        /\ \A a \in Apps : app'[a] = "none" <=> app[a] = "none"
    BY <1>2, QuietLinks
  <2> QED
    BY ONLY <1>1, <2>1, <2>2, Linked DEF Linked
<1>3. CASE SourceConnects
  BY <1>1, <1>3 DEF SourceConnects, Linked, TypeOK, HandlerOrder
<1>4. CASE ClientConnects
  <2>1. tr["cu"] # "none" /\ handler["H"] = "idle" /\ tr["su"] = "none"
    BY <1>1, <1>4 DEF ClientConnects, HandlerOrder, Linked
  <2> QED
    BY <1>1, <1>4, <2>1 DEF ClientConnects, StartForwarding, Linked, TypeOK, qemuVars
<1>5. CASE ClientConnectFails
  BY <1>1, <1>5 DEF ClientConnectFails, Closed, Linked, TypeOK, HandlerOrder, qemuVars
<1>6. CASE ServerConnects
  <2>1. tr["st"] # "none" /\ tr["ct"] = tr'["ct"] /\ handler["C"] \notin {"idle", "connecting"}
    BY <1>1, <1>6 DEF ServerConnects, Linked, HandlerOrder, TypeOK
  <2> QED
    BY <1>1, <1>6, <2>1 DEF ServerConnects, StartForwarding, Linked, TypeOK
<1>7. CASE ServerGivesUp
  BY <1>1, <1>7 DEF ServerGivesUp, Closed, Linked, TypeOK, qemuVars
<1>8. ASSUME NEW p \in Proxies,
             \/ CancelPending(p) \/ CloseOutgoing(p) \/ OutgoingClosed(p)
             \/ OutgoingRaises(p) \/ AcceptedClosed(p)
      PROVE  Linked'
  <2>1. /\ app' = app /\ \A q \in Proxies : q # p => handler'[q] = handler[q]
        /\ handler[p] \in {"forwarding", "cancelling", "closingOut", "closingIn"}
        /\ handler'[p] \in {"cancelling", "closingOut", "closingIn", "ended", "raised"}
    BY <1>8, HandlerSteps
  <2>2. \A e \in ProxyEnds : dir'[e] = "none" <=> dir[e] = "none"
    BY <1>8 DEF CancelPending, CloseOutgoing, OutgoingClosed, OutgoingRaises,
       AcceptedClosed, TypeOK
  <2>3. \A e \in ProxyEnds : tr'[e] = "none" <=> tr[e] = "none"
    BY <1>8, EndFacts DEF CancelPending, CloseOutgoing, OutgoingClosed, OutgoingRaises,
       AcceptedClosed, Closed, TypeOK, loopVars
  <2> QED
    BY ONLY <1>1, <2>1, <2>2, <2>3, p \in Proxies, Linked DEF Linked
<1> QED
  BY <1>2, <1>3, <1>4, <1>5, <1>6, <1>7, <1>8, StepGroups DEF HandlerStep
-----------------------------------------------------------------------------
\* Where the ends of a's way are, in one place for the steps below.
LEMMA WayTypes ==
  ASSUME TypeOK, NEW a \in Apps
  PROVE  /\ a \in Ends /\ Sender(a) \in Ends
         /\ Near(a) \in ProxyEnds /\ NearIn(a) \in ProxyEnds
         /\ FarOut(a) \in ProxyEnds /\ Far(a) \in ProxyEnds
         /\ Near(a) \in Ends /\ NearIn(a) \in Ends /\ FarOut(a) \in Ends /\ Far(a) \in Ends
         /\ a \notin ProxyEnds /\ Sender(a) \notin ProxyEnds
         /\ count[Sender(a)] \in Nat /\ count[a] \in Nat
PROOF
BY WayFacts, EndFacts DEF TypeOK

\* The steps that take chunks towards a, and where.
LEMMA ReceivePlaces ==
  ASSUME TypeOK, NEW a \in Apps, NEW b \in Apps, Receive(b)
  PROVE  /\ b = a => Moves(a, 1)
         /\ b # a => Stays(a)
PROOF
<1>1. /\ inbox[b] # <<>> /\ inbox'[b] = Tail(inbox[b])
      /\ rcvd'[b] = Append(rcvd[b], Head(inbox[b]))
      /\ \A c \in Apps : c # b => rcvd'[c] = rcvd[c]
      /\ \A f \in Ends : f # b => inbox'[f] = inbox[f]
  BY WayTypes DEF Receive, TypeOK
<1>2. UNCHANGED <<count, held, wbuf>>
  BY DEF Receive, loopVars
<1>0. count'[Sender(a)] = count[Sender(a)]
  BY <1>2
<1>3. inbox'[NearIn(a)] = inbox[NearIn(a)] /\ inbox'[Far(a)] = inbox[Far(a)]
  BY <1>1, WayTypes, WayFacts
<1>4. ASSUME b = a PROVE Moves(a, 1)
  <2>3. \A j \in {3, 4, 5, 6, 7, 8} : Places(a)'[j] = Places(a)[j]
    BY ONLY <1>2, <1>3, PlacesFacts, a \in Apps
  <2>4. /\ Places(a)'[2] = Tail(Places(a)[2])
        /\ Places(a)'[1] = Append(Places(a)[1], Head(Places(a)[2]))
        /\ Places(a)[2] # <<>>
    BY ONLY <1>1, <1>4, PlacesFacts, a \in Apps
  <2>5. 1 + 1 = 2 /\ \A j \in (1..8) \ {1, 1 + 1} : j \in {3, 4, 5, 6, 7, 8}
    OBVIOUS
  <2> QED
    BY ONLY <1>0, <2>3, <2>4, <2>5 DEF Moves, Still
<1>5. ASSUME b # a PROVE Stays(a)
  <2>1. rcvd'[a] = rcvd[a] /\ inbox'[a] = inbox[a]
    BY <1>1, <1>5, WayTypes
  <2>9. \A j \in {1, 2, 3, 4, 5, 6, 7, 8} : Places(a)'[j] = Places(a)[j]
    BY ONLY <1>2, <1>3, <2>1, PlacesFacts, a \in Apps
  <2>10. \A j \in 1..8 : j \in {1, 2, 3, 4, 5, 6, 7, 8}
    OBVIOUS
  <2> QED
    BY ONLY <1>0, <2>9, <2>10 DEF Stays, Still
<1> QED
  BY <1>4, <1>5

LEMMA ReadsPlaces ==
  ASSUME TypeOK, NEW a \in Apps, NEW e \in ProxyEnds, TransportReads(e)
  PROVE  /\ e = NearIn(a) => Moves(a, 4)
         /\ e = Far(a) => Moves(a, 7)
         /\ e \in {Near(a), FarOut(a)} => Stays(a)
PROOF
<1>1. /\ inbox[e] # <<>> /\ inbox'[e] = Tail(inbox[e])
      /\ held'[e] = Append(held[e], Head(inbox[e]))
      /\ \A f \in ProxyEnds : f # e => held'[f] = held[f]
      /\ \A f \in Ends : f # e => inbox'[f] = inbox[f]
  BY EndFacts DEF TransportReads, TypeOK
<1>2. UNCHANGED <<count, rcvd, wbuf>>
  BY DEF TransportReads, qemuVars
<1>0. count'[Sender(a)] = count[Sender(a)]
  BY <1>2
<1>3. inbox'[a] = inbox[a]
  BY <1>1, WayTypes
<1>4. ASSUME e = NearIn(a) PROVE Moves(a, 4)
  <2>2. held'[Far(a)] = held[Far(a)] /\ inbox'[Far(a)] = inbox[Far(a)]
    BY <1>1, <1>4, WayFacts, WayTypes
  <2>3. \A j \in {1, 2, 3, 6, 7, 8} : Places(a)'[j] = Places(a)[j]
    BY ONLY <1>2, <1>3, <2>2, PlacesFacts, a \in Apps
  <2>4. /\ Places(a)'[5] = Tail(Places(a)[5])
        /\ Places(a)'[4] = Append(Places(a)[4], Head(Places(a)[5]))
        /\ Places(a)[5] # <<>>
    BY ONLY <1>1, <1>4, PlacesFacts, a \in Apps
  <2>5. 4 + 1 = 5 /\ \A j \in (1..8) \ {4, 4 + 1} : j \in {1, 2, 3, 6, 7, 8}
    OBVIOUS
  <2> QED
    BY ONLY <1>0, <2>3, <2>4, <2>5 DEF Moves, Still
<1>5. ASSUME e = Far(a) PROVE Moves(a, 7)
  <2>2. held'[NearIn(a)] = held[NearIn(a)] /\ inbox'[NearIn(a)] = inbox[NearIn(a)]
    BY <1>1, <1>5, WayFacts, WayTypes
  <2>3. \A j \in {1, 2, 3, 4, 5, 6} : Places(a)'[j] = Places(a)[j]
    BY ONLY <1>2, <1>3, <2>2, PlacesFacts, a \in Apps
  <2>4. /\ Places(a)'[8] = Tail(Places(a)[8])
        /\ Places(a)'[7] = Append(Places(a)[7], Head(Places(a)[8]))
        /\ Places(a)[8] # <<>>
    BY ONLY <1>1, <1>5, PlacesFacts, a \in Apps
  <2>5. 7 + 1 = 8 /\ \A j \in (1..8) \ {7, 7 + 1} : j \in {1, 2, 3, 4, 5, 6}
    OBVIOUS
  <2> QED
    BY ONLY <1>0, <2>3, <2>4, <2>5 DEF Moves, Still
<1>6. ASSUME e \in {Near(a), FarOut(a)} PROVE Stays(a)
  <2>1. /\ held'[NearIn(a)] = held[NearIn(a)] /\ held'[Far(a)] = held[Far(a)]
        /\ inbox'[NearIn(a)] = inbox[NearIn(a)] /\ inbox'[Far(a)] = inbox[Far(a)]
    BY <1>1, <1>6, WayFacts, WayTypes
  <2>9. \A j \in {1, 2, 3, 4, 5, 6, 7, 8} : Places(a)'[j] = Places(a)[j]
    BY ONLY <1>2, <1>3, <2>1, PlacesFacts, a \in Apps
  <2>10. \A j \in 1..8 : j \in {1, 2, 3, 4, 5, 6, 7, 8}
    OBVIOUS
  <2> QED
    BY ONLY <1>0, <2>9, <2>10 DEF Stays, Still
<1> QED
  BY <1>4, <1>5, <1>6

\* A chunk written to a socket that is gone is dropped, and comes back as a reset.
LEMMA WritesPlaces ==
  ASSUME TypeOK, NEW a \in Apps, NEW e \in ProxyEnds, TransportWrites(e)
  PROVE  /\ e = Near(a) /\ Alive(a) => Moves(a, 2)
         /\ e = FarOut(a) /\ Alive(NearIn(a)) => Moves(a, 5)
         /\ e \in {NearIn(a), Far(a)} => Stays(a)
         /\ ~Alive(Peer(e)) => /\ rst'[e] /\ UNCHANGED inbox
                               /\ wbuf[e] # <<>> /\ wbuf'[e] = Tail(wbuf[e])
                               /\ \A f \in ProxyEnds : f # e => wbuf'[f] = wbuf[f]
         /\ \A f \in Ends : rst'[f] <=> rst[f] \/ (f = e /\ ~Alive(Peer(e)))
         /\ tr[e] \in {"open", "closing"} /\ ~rst[e]
         /\ UNCHANGED <<app, count, rcvd, tr, held, dir>>
PROOF
<1> DEFINE y == Peer(e)
<1>1. /\ Alive(e) /\ ~rst[e] /\ wbuf[e] # <<>>
      /\ wbuf' = [wbuf EXCEPT ![e] = Tail(@)]
      /\ Transmit(e, Head(wbuf[e]))
  BY DEF TransportWrites
<1>2. UNCHANGED <<app, count, rcvd, tr, held, dir>>
  BY DEF TransportWrites, qemuVars, taskVars
<1>0. count'[Sender(a)] = count[Sender(a)]
  BY <1>2
<1>3. y \in Ends /\ e \in Ends
  BY EndFacts
<1>4. \/ Alive(y) /\ inbox' = [inbox EXCEPT ![y] = Append(@, Head(wbuf[e]))] /\ UNCHANGED rst
      \/ ~Alive(y) /\ rst' = [rst EXCEPT ![e] = TRUE] /\ UNCHANGED inbox
  BY <1>1 DEF Transmit
<1>5. /\ e = Near(a) => y = a
      /\ e = FarOut(a) => y = NearIn(a)
      /\ e = NearIn(a) => y = FarOut(a)
      /\ e = Far(a) => y = Sender(a)
  BY WayFacts
<1> HIDE DEF y
<1>6. /\ wbuf[e] # <<>> /\ wbuf'[e] = Tail(wbuf[e])
      /\ Alive(y) => inbox'[y] = Append(inbox[y], Head(wbuf[e]))
      /\ \A f \in ProxyEnds : f # e => wbuf'[f] = wbuf[f]
      /\ \A f \in Ends : f # y => inbox'[f] = inbox[f]
  BY <1>1, <1>3, <1>4 DEF TypeOK
<1>7. ASSUME e = Near(a), Alive(a) PROVE Moves(a, 2)
  <2>1. inbox'[a] = Append(inbox[a], Head(wbuf[e]))
    BY <1>5, <1>6, <1>7
  <2>2. /\ inbox'[NearIn(a)] = inbox[NearIn(a)] /\ inbox'[Far(a)] = inbox[Far(a)]
        /\ wbuf'[FarOut(a)] = wbuf[FarOut(a)]
    BY <1>5, <1>6, <1>7, WayFacts, WayTypes
  <2>3. \A j \in {1, 4, 5, 6, 7, 8} : Places(a)'[j] = Places(a)[j]
    BY ONLY <1>2, <2>2, PlacesFacts, a \in Apps
  <2>4. /\ Places(a)'[3] = Tail(Places(a)[3])
        /\ Places(a)'[2] = Append(Places(a)[2], Head(Places(a)[3]))
        /\ Places(a)[3] # <<>>
    BY ONLY <1>6, <1>7, <2>1, PlacesFacts, a \in Apps
  <2>5. 2 + 1 = 3 /\ \A j \in (1..8) \ {2, 2 + 1} : j \in {1, 4, 5, 6, 7, 8}
    OBVIOUS
  <2> QED
    BY ONLY <1>0, <2>3, <2>4, <2>5 DEF Moves, Still
<1>8. ASSUME e = FarOut(a), Alive(NearIn(a)) PROVE Moves(a, 5)
  <2>1. inbox'[NearIn(a)] = Append(inbox[NearIn(a)], Head(wbuf[e]))
    BY <1>5, <1>6, <1>8
  <2>2. /\ inbox'[a] = inbox[a] /\ inbox'[Far(a)] = inbox[Far(a)]
        /\ wbuf'[Near(a)] = wbuf[Near(a)]
    BY <1>5, <1>6, <1>8, WayFacts, WayTypes
  <2>3. \A j \in {1, 2, 3, 4, 7, 8} : Places(a)'[j] = Places(a)[j]
    BY ONLY <1>2, <2>2, PlacesFacts, a \in Apps
  <2>4. /\ Places(a)'[6] = Tail(Places(a)[6])
        /\ Places(a)'[5] = Append(Places(a)[5], Head(Places(a)[6]))
        /\ Places(a)[6] # <<>>
    BY ONLY <1>6, <1>8, <2>1, PlacesFacts, a \in Apps
  <2>5. 5 + 1 = 6 /\ \A j \in (1..8) \ {5, 5 + 1} : j \in {1, 2, 3, 4, 7, 8}
    OBVIOUS
  <2> QED
    BY ONLY <1>0, <2>3, <2>4, <2>5 DEF Moves, Still
<1>9. ASSUME e \in {NearIn(a), Far(a)} PROVE Stays(a)
  <2>1. /\ wbuf'[Near(a)] = wbuf[Near(a)] /\ wbuf'[FarOut(a)] = wbuf[FarOut(a)]
        /\ inbox'[NearIn(a)] = inbox[NearIn(a)] /\ inbox'[Far(a)] = inbox[Far(a)]
        /\ inbox'[a] = inbox[a]
    BY <1>5, <1>6, <1>9, WayFacts, WayTypes
  <2>9. \A j \in {1, 2, 3, 4, 5, 6, 7, 8} : Places(a)'[j] = Places(a)[j]
    BY ONLY <1>2, <2>1, PlacesFacts, a \in Apps
  <2>10. \A j \in 1..8 : j \in {1, 2, 3, 4, 5, 6, 7, 8}
    OBVIOUS
  <2> QED
    BY ONLY <1>0, <2>9, <2>10 DEF Stays, Still
<1>10. tr[e] \in {"open", "closing"}
  BY <1>1, WayFacts DEF Alive
<1>11. \A f \in Ends : rst'[f] <=> rst[f] \/ (f = e /\ ~Alive(y))
  BY <1>3, <1>4 DEF TypeOK
<1> QED
  BY <1>1, <1>2, <1>3, <1>4, <1>6, <1>7, <1>8, <1>9, <1>10, <1>11 DEF y

\* forward_data drops what it has read when the transport it writes to is closing.
LEMMA ForwardPlaces ==
  ASSUME TypeOK, NEW a \in Apps, NEW e \in ProxyEnds, Forward(e)
  PROVE  /\ e = NearIn(a) /\ tr[Near(a)] = "open" => Flushes(a, 3)
         /\ e = Far(a) /\ tr[FarOut(a)] = "open" => Flushes(a, 6)
         /\ e \in {Near(a), FarOut(a)} => Stays(a)
         /\ tr[Across(e)] # "open" => /\ UNCHANGED wbuf /\ held'[e] = <<>>
                                      /\ \A f \in ProxyEnds : f # e => held'[f] = held[f]
         /\ dir[e] = "running" /\ tr[e] # "lost"
         /\ UNCHANGED <<app, count, rcvd, inbox, rst, tr, dir>>
PROOF
<1> DEFINE x == Across(e)
<1>1. /\ dir[e] = "running" /\ tr[e] # "lost"
      /\ held' = [held EXCEPT ![e] = <<>>]
      /\ wbuf' = IF tr[x] = "open" THEN [wbuf EXCEPT ![x] = @ \o held[e]] ELSE wbuf
  BY DEF Forward
<1>2. UNCHANGED <<app, count, rcvd, inbox, rst, tr, dir>>
  BY DEF Forward, qemuVars, netVars, taskVars
<1>0. count'[Sender(a)] = count[Sender(a)]
  BY <1>2
<1>3. /\ x \in ProxyEnds
      /\ e = NearIn(a) => x = Near(a)
      /\ e = Near(a) => x = NearIn(a)
      /\ e = Far(a) => x = FarOut(a)
      /\ e = FarOut(a) => x = Far(a)
  BY EndFacts, WayFacts
<1> HIDE DEF x
<1>4. /\ held'[e] = <<>> /\ \A f \in ProxyEnds : f # e => held'[f] = held[f]
      /\ tr[x] = "open" => wbuf'[x] = wbuf[x] \o held[e]
      /\ \A f \in ProxyEnds : f # x => wbuf'[f] = wbuf[f]
      /\ tr[x] # "open" => wbuf' = wbuf
  BY <1>1, <1>3 DEF TypeOK
<1>5. ASSUME e = NearIn(a), tr[Near(a)] = "open" PROVE Flushes(a, 3)
  <2>1. wbuf'[Near(a)] = wbuf[Near(a)] \o held[NearIn(a)]
    BY <1>3, <1>4, <1>5
  <2>2. held'[Far(a)] = held[Far(a)] /\ wbuf'[FarOut(a)] = wbuf[FarOut(a)]
    BY <1>3, <1>4, <1>5, WayFacts, WayTypes
  <2>3. \A j \in {1, 2, 5, 6, 7, 8} : Places(a)'[j] = Places(a)[j]
    BY ONLY <1>2, <2>2, PlacesFacts, a \in Apps
  <2>4. /\ Places(a)'[4] = <<>>
        /\ Places(a)'[3] = Places(a)[3] \o Places(a)[4]
    BY ONLY <1>4, <1>5, <2>1, PlacesFacts, a \in Apps
  <2>5. 3 + 1 = 4 /\ \A j \in (1..8) \ {3, 3 + 1} : j \in {1, 2, 5, 6, 7, 8}
    OBVIOUS
  <2> QED
    BY ONLY <1>0, <2>3, <2>4, <2>5 DEF Flushes, Still
<1>6. ASSUME e = Far(a), tr[FarOut(a)] = "open" PROVE Flushes(a, 6)
  <2>1. wbuf'[FarOut(a)] = wbuf[FarOut(a)] \o held[Far(a)]
    BY <1>3, <1>4, <1>6
  <2>2. held'[NearIn(a)] = held[NearIn(a)] /\ wbuf'[Near(a)] = wbuf[Near(a)]
    BY <1>3, <1>4, <1>6, WayFacts, WayTypes
  <2>3. \A j \in {1, 2, 3, 4, 5, 8} : Places(a)'[j] = Places(a)[j]
    BY ONLY <1>2, <2>2, PlacesFacts, a \in Apps
  <2>4. /\ Places(a)'[7] = <<>>
        /\ Places(a)'[6] = Places(a)[6] \o Places(a)[7]
    BY ONLY <1>4, <1>6, <2>1, PlacesFacts, a \in Apps
  <2>5. 6 + 1 = 7 /\ \A j \in (1..8) \ {6, 6 + 1} : j \in {1, 2, 3, 4, 5, 8}
    OBVIOUS
  <2> QED
    BY ONLY <1>0, <2>3, <2>4, <2>5 DEF Flushes, Still
<1>7. ASSUME e \in {Near(a), FarOut(a)} PROVE Stays(a)
  <2>1. /\ held'[NearIn(a)] = held[NearIn(a)] /\ held'[Far(a)] = held[Far(a)]
        /\ wbuf'[Near(a)] = wbuf[Near(a)] /\ wbuf'[FarOut(a)] = wbuf[FarOut(a)]
    BY <1>3, <1>4, <1>7, WayFacts, WayTypes
  <2>9. \A j \in {1, 2, 3, 4, 5, 6, 7, 8} : Places(a)'[j] = Places(a)[j]
    BY ONLY <1>2, <2>1, PlacesFacts, a \in Apps
  <2>10. \A j \in 1..8 : j \in {1, 2, 3, 4, 5, 6, 7, 8}
    OBVIOUS
  <2> QED
    BY ONLY <1>0, <2>9, <2>10 DEF Stays, Still
<1> QED
  BY <1>1, <1>2, <1>4, <1>5, <1>6, <1>7 DEF x

\* Every step keeps the way.
LEMMA SendWay ==
  ASSUME TypeOK, TypeOK', Linked, NEW a \in Apps, Way(a), NEW b \in Apps, Send(b)
  PROVE  Way(a)'
PROOF
<1>1. /\ app[b] = "open" /\ Transmit(b, count[b] + 1)
      /\ count' = [count EXCEPT ![b] = @ + 1]
      /\ UNCHANGED <<app, rcvd, tr, held, wbuf, dir>>
  BY DEF Send, loopVars, taskVars
<1> DEFINE y == Peer(b)
<1>2. y \in ProxyEnds /\ y \in Ends /\ tr[y] # "none" /\ y = IF b = a THEN Near(a) ELSE Far(a)
  <2>1. y = IF b = a THEN Near(a) ELSE Far(a)
    BY WayFacts
  <2>2. tr[y] # "none"
    BY <1>1 DEF Linked
  <2> QED
    BY <2>1, <2>2, WayTypes
<1> HIDE DEF y
<1>3. Wears(a)
  <2>1. \A e \in Ends : rst[e] => rst'[e]
    BY <1>1 DEF Transmit, TypeOK
  <2> QED
    BY <1>1, <2>1, WayTypes DEF Wears, Ok2, Ok3, Ok4, Ok5, Ok6, Ok7, Ok8
<1>4. \/ Alive(y) /\ inbox' = [inbox EXCEPT ![y] = Append(@, count[b] + 1)]
                  /\ UNCHANGED rst
      \/ ~Alive(y) /\ UNCHANGED inbox
  BY <1>1 DEF Transmit, y
<1>5. CASE b = a \/ ~(Alive(y) /\ Ok8(a))
  <2>1. Ok8(a)' => tr[Far(a)] \in {"none", "open"}
    BY <1>1 DEF Ok8
  <2>2. b = a \/ (Ok8(a)' => FALSE)
    BY <1>2, <1>5, <2>1, WayTypes DEF Alive, Ok8, Apps, ProxyEnds
  <2>3. \A e \in Ends : e = y \/ inbox'[e] = inbox[e]
    BY <1>2, <1>4 DEF TypeOK
  <2>4. inbox'[a] = inbox[a] /\ inbox'[NearIn(a)] = inbox[NearIn(a)]
        /\ (b = a => inbox'[Far(a)] = inbox[Far(a)])
    BY <1>2, <2>3, WayFacts, WayTypes
  <2>5. /\ b = a => count'[Sender(a)] = count[Sender(a)]
        /\ count[Sender(a)] <= count'[Sender(a)]
    BY <1>1, WayFacts DEF TypeOK
  <2>6. Rests(a)
    BY ONLY <1>1, <2>2, <2>4, <2>5 DEF Rests
  <2> QED
    BY <1>3, <2>6, WayKeeps
<1>6. CASE b # a /\ Alive(y) /\ Ok8(a)
  <2>1. b = Sender(a) /\ y = Far(a) /\ count'[Sender(a)] = count[Sender(a)] + 1
    BY <1>1, <1>2, <1>6, WayFacts DEF TypeOK
  <2>2. /\ inbox'[Far(a)] = Append(inbox[Far(a)], count[Sender(a)] + 1)
        /\ \A e \in Ends : e # Far(a) => inbox'[e] = inbox[e]
    BY <1>4, <1>6, <2>1, WayTypes DEF TypeOK
  <2>3. /\ Places(a)[8] = inbox[Far(a)]
        /\ Places(a)'[8] = Append(Places(a)[8], count[Sender(a)] + 1)
        /\ \A j \in 1..7 : Places(a)'[j] = Places(a)[j]
    BY <1>1, <2>2, WayFacts, WayTypes DEF Places
  <2>4. Intact(a)' = Intact(a)
    <3>1. UNCHANGED rst
      BY <1>4, <1>6
    <3> QED
      BY <1>1, <3>1 DEF Intact, Ok2, Ok3, Ok4, Ok5, Ok6, Ok7, Ok8
  <2>5. Chain(Places(a)', Intact(a), count[Sender(a)] + 1)
    <3>1. inbox[Far(a)] \in Stream /\ count[Sender(a)] \in Nat
      BY WayTypes DEF TypeOK
    <3> QED
      BY ONLY <2>3, <3>1, Way(a), ChainGrows DEF Way
  <2> QED
    BY <2>1, <2>4, <2>5 DEF Way
<1> QED
  BY <1>5, <1>6

LEMMA ReceiveWay ==
  ASSUME TypeOK, TypeOK', NEW a \in Apps, Way(a), NEW b \in Apps, Receive(b)
  PROVE  Way(a)'
PROOF
<1>1. app[b] \in {"open", "shut"} /\ UNCHANGED <<app, rst, tr, dir>>
  BY DEF Receive, loopVars, taskVars
<1>2. Wears(a)
  BY <1>1 DEF Wears, Ok2, Ok3, Ok4, Ok5, Ok6, Ok7, Ok8
<1>3. CASE b = a
  <2>1. 1 + 1 \in Intact(a) /\ 1 \in 1..7
    BY <1>1, <1>3 DEF Intact, Ok2
  <2> QED
    BY <1>2, <1>3, <2>1, ReceivePlaces, WayStep
<1>4. CASE b # a
  BY <1>2, <1>4, ReceivePlaces, StaysRests, WayKeeps
<1> QED
  BY <1>3, <1>4

LEMMA ReadsWay ==
  ASSUME TypeOK, TypeOK', NEW a \in Apps, Way(a),
         NEW e \in ProxyEnds, TransportReads(e)
  PROVE  Way(a)'
PROOF
<1>1. tr[e] = "open" /\ UNCHANGED <<app, rst, tr, dir>>
  BY DEF TransportReads, Reading, qemuVars, taskVars
<1>2. Wears(a)
  BY <1>1 DEF Wears, Ok2, Ok3, Ok4, Ok5, Ok6, Ok7, Ok8
<1>3. CASE e \in {Near(a), FarOut(a)}
  BY <1>2, <1>3, ReadsPlaces, StaysRests, WayKeeps
<1>4. CASE e = NearIn(a)
  <2>1. 4 + 1 \in Intact(a) /\ 4 \in 1..7
    BY <1>1, <1>4 DEF Intact, Ok5
  <2> QED
    BY <1>2, <1>4, <2>1, ReadsPlaces, WayStep
<1>5. CASE e = Far(a)
  <2>1. 7 + 1 \in Intact(a) /\ 7 \in 1..7
    BY <1>1, <1>5 DEF Intact, Ok8
  <2> QED
    BY <1>2, <1>5, <2>1, ReadsPlaces, WayStep
<1> QED
  BY <1>3, <1>4, <1>5, WayFacts

LEMMA WritesWay ==
  ASSUME TypeOK, TypeOK', NEW a \in Apps, Way(a),
         NEW e \in ProxyEnds, TransportWrites(e)
  PROVE  Way(a)'
PROOF
<1>1. /\ tr[e] \in {"open", "closing"} /\ ~rst[e]
      /\ \A f \in Ends : rst[f] => rst'[f]
      /\ UNCHANGED <<app, count, rcvd, tr, held, dir>>
  BY WritesPlaces
<1>2. Wears(a)
  BY <1>1, WayTypes DEF Wears, Ok2, Ok3, Ok4, Ok5, Ok6, Ok7, Ok8
<1>3. CASE e \in {NearIn(a), Far(a)}
  BY <1>2, <1>3, WritesPlaces, StaysRests, WayKeeps
<1>4. CASE e \in {Near(a), FarOut(a)} /\ ~Alive(Peer(e))
  <2>1. /\ rst'[e] /\ UNCHANGED inbox
        /\ \A f \in ProxyEnds : f # e => wbuf'[f] = wbuf[f]
    BY <1>4, WritesPlaces
  <2>2. /\ e = Near(a) => ~Ok3(a)' /\ wbuf'[FarOut(a)] = wbuf[FarOut(a)]
        /\ e = FarOut(a) => ~Ok6(a)' /\ wbuf'[Near(a)] = wbuf[Near(a)]
    BY <2>1, WayFacts, WayTypes DEF Ok3, Ok6
  <2>3. Rests(a)
    BY <1>1, <1>4, <2>1, <2>2, WayTypes DEF Rests
  <2> QED
    BY <1>2, <2>3, WayKeeps
<1>5. CASE e = Near(a) /\ Alive(Peer(e))
  <2>1. 2 + 1 \in Intact(a) /\ 2 \in 1..7
    BY <1>1, <1>5 DEF Intact, Ok3
  <2>2. Moves(a, 2)
    BY <1>5, WayFacts, WritesPlaces
  <2> QED
    BY <1>2, <2>1, <2>2, WayStep
<1>6. CASE e = FarOut(a) /\ Alive(Peer(e))
  <2>1. 5 + 1 \in Intact(a) /\ 5 \in 1..7
    BY <1>1, <1>6 DEF Intact, Ok6
  <2>2. Moves(a, 5)
    BY <1>6, WayFacts, WritesPlaces
  <2> QED
    BY <1>2, <2>1, <2>2, WayStep
<1> QED
  BY <1>3, <1>4, <1>5, <1>6, WayFacts

\* A QEMU that closes takes nothing more from its socket.
LEMMA CloseWay ==
  ASSUME TypeOK, TypeOK', NEW a \in Apps, Way(a), NEW b \in Apps, Close(b)
  PROVE  Way(a)'
PROOF
<1>1. /\ app' = [app EXCEPT ![b] = "closed"]
      /\ inbox' = [inbox EXCEPT ![b] = <<>>]
      /\ rst' = [rst EXCEPT ![Peer(b)] = @ \/ inbox[b] # <<>>]
      /\ UNCHANGED <<count, rcvd, tr, held, wbuf, dir>>
  BY DEF Close, CloseSocket, loopVars, taskVars
<1>2. Wears(a)
  <2>1. \A e \in Ends : rst[e] => rst'[e]
    BY <1>1 DEF TypeOK
  <2>2. Ok2(a)' => Ok2(a)
    BY <1>1 DEF Ok2, TypeOK
  <2> QED
    BY <1>1, <2>1, <2>2, WayTypes DEF Wears, Ok3, Ok4, Ok5, Ok6, Ok7, Ok8
<1>3. Rests(a)
  <2>1. Ok2(a)' => b # a
    BY <1>1 DEF Ok2, TypeOK
  <2>2. /\ b # a => inbox'[a] = inbox[a]
        /\ inbox'[NearIn(a)] = inbox[NearIn(a)] /\ inbox'[Far(a)] = inbox[Far(a)]
    <3>1. \A e \in Ends : e # b => inbox'[e] = inbox[e]
      BY <1>1 DEF TypeOK
    <3>2. NearIn(a) # b /\ Far(a) # b
      BY WayTypes, WayFacts
    <3> QED
      BY <3>1, <3>2, WayTypes
  <2> QED
    BY <1>1, <2>1, <2>2, WayTypes DEF Rests
<1> QED
  BY <1>2, <1>3, WayKeeps

\* The steps that touch neither chunks nor connections.
LEMMA OtherWay ==
  ASSUME TypeOK, TypeOK', NEW a \in Apps, Way(a),
         \/ \E b \in Apps : SeeEnd(b) \/ ShutDown(b)
         \/ \E e \in ProxyEnds : TransportSeesEof(e)
         \/ DestinationListens \/ NetworkReset \/ ServerRetries \/ UNCHANGED vars
  PROVE  Way(a)'
PROOF
<1>1. /\ UNCHANGED <<count, rcvd, inbox, tr, held, wbuf, dir>>
      /\ \A e \in Ends : rst[e] => rst'[e]
      /\ app'[a] = "closed" <=> app[a] = "closed"
  BY DEF SeeEnd, ShutDown, TransportSeesEof, DestinationListens, NetworkReset,
     ServerRetries, vars, qemuVars, netVars, loopVars, taskVars, TypeOK
<1>2. Wears(a)
  BY <1>1, WayTypes DEF Wears, Ok2, Ok3, Ok4, Ok5, Ok6, Ok7, Ok8
<1>3. Rests(a)
  BY <1>1, WayTypes DEF Rests
<1> QED
  BY <1>2, <1>3, WayKeeps

LEMMA CancelledWay ==
  ASSUME TypeOK, TypeOK', NEW a \in Apps, Way(a),
         NEW e \in ProxyEnds, DirectionCancelled(e)
  PROVE  Way(a)'
PROOF
<1>1. /\ UNCHANGED <<app, count, rcvd, inbox, rst, tr, held, wbuf>>
      /\ \A f \in ProxyEnds : dir'[f] \in {"none", "running"} => dir'[f] = dir[f]
  BY DEF DirectionCancelled, qemuVars, netVars, loopVars, TypeOK
<1>2. Wears(a)
  BY <1>1, WayTypes DEF Wears, Ok2, Ok3, Ok4, Ok5, Ok6, Ok7, Ok8
<1>3. Rests(a)
  BY <1>1, WayTypes DEF Rests
<1> QED
  BY <1>2, <1>3, WayKeeps

\* A transport that is lost or closed takes its buffer and its socket with it.
LEMMA GoneWay ==
  ASSUME TypeOK, TypeOK', NEW a \in Apps, Way(a),
         NEW e \in ProxyEnds, TransportFails(e) \/ TransportCloses(e)
  PROVE  Way(a)'
PROOF
<1>1. /\ tr[e] \in {"open", "closing"}
      /\ tr' = [tr EXCEPT ![e] = tr'[e]] /\ tr'[e] \in {"lost", "closed"}
      /\ \A f \in ProxyEnds : f # e => wbuf'[f] = wbuf[f]
      /\ inbox' = [inbox EXCEPT ![e] = <<>>]
      /\ rst' = [rst EXCEPT ![Peer(e)] = @ \/ inbox[e] # <<>>]
      /\ UNCHANGED <<app, count, rcvd, held, dir>>
  BY WayFacts DEF TransportFails, TransportCloses, CloseSocket, Alive, qemuVars, taskVars,
     TypeOK, Apps, ProxyEnds
<1>2. /\ \A f \in Ends : rst[f] => rst'[f]
      /\ \A f \in ProxyEnds : f # e => tr'[f] = tr[f]
      /\ \A f \in Ends : f # e => inbox'[f] = inbox[f]
  BY <1>1 DEF TypeOK
<1>3. Wears(a)
  <2>1. \A f \in ProxyEnds : tr'[f] \in {"none", "open"} => tr[f] \in {"none", "open"}
    BY <1>1, <1>2
  <2>2. \A f \in ProxyEnds : tr'[f] \notin {"closed", "lost"} => tr[f] \notin {"closed", "lost"}
    BY <1>1, <1>2
  <2>3. \A f \in ProxyEnds : tr'[f] # "lost" => tr[f] # "lost"
    BY <1>1, <1>2
  <2> QED
    BY <1>1, <1>2, <2>1, <2>2, <2>3, WayTypes DEF Wears, Ok2, Ok3, Ok4, Ok5, Ok6, Ok7, Ok8
<1>4. Rests(a)
  <2>1. /\ Ok3(a)' => e # Near(a)
        /\ Ok5(a)' => e # NearIn(a)
        /\ Ok6(a)' => e # FarOut(a)
        /\ Ok8(a)' => e # Far(a)
    BY <1>1 DEF Ok3, Ok5, Ok6, Ok8
  <2>2. /\ e # Near(a) => wbuf'[Near(a)] = wbuf[Near(a)]
        /\ e # FarOut(a) => wbuf'[FarOut(a)] = wbuf[FarOut(a)]
        /\ e # NearIn(a) => inbox'[NearIn(a)] = inbox[NearIn(a)]
        /\ e # Far(a) => inbox'[Far(a)] = inbox[Far(a)]
        /\ inbox'[a] = inbox[a]
    BY <1>1, <1>2, WayTypes
  <2> QED
    BY <1>1, <2>1, <2>2, WayTypes DEF Rests
<1> QED
  BY <1>3, <1>4, WayKeeps

LEMMA ForwardWay ==
  ASSUME TypeOK, TypeOK', Linked, NEW a \in Apps, Way(a),
         NEW e \in ProxyEnds, Forward(e)
  PROVE  Way(a)'
PROOF
<1>1. /\ dir[e] = "running" /\ tr[e] # "lost"
      /\ UNCHANGED <<app, count, rcvd, inbox, rst, tr, dir>>
  BY ForwardPlaces
<1>2. /\ tr[Across(e)] # "none"
      /\ e = NearIn(a) => Across(e) = Near(a)
      /\ e = Far(a) => Across(e) = FarOut(a)
  BY <1>1, WayFacts DEF Linked
<1>3. Wears(a)
  BY <1>1 DEF Wears, Ok2, Ok3, Ok4, Ok5, Ok6, Ok7, Ok8
<1>4. CASE e \in {Near(a), FarOut(a)}
  BY <1>3, <1>4, ForwardPlaces, StaysRests, WayKeeps
<1>5. CASE e \in {NearIn(a), Far(a)} /\ tr[Across(e)] # "open"
  <2>1. UNCHANGED wbuf /\ \A f \in ProxyEnds : f # e => held'[f] = held[f]
    BY <1>5, ForwardPlaces
  <2>2. /\ e = NearIn(a) => ~Ok4(a)' /\ held'[Far(a)] = held[Far(a)]
        /\ e = Far(a) => ~Ok7(a)' /\ held'[NearIn(a)] = held[NearIn(a)]
    BY <1>1, <1>2, <1>5, <2>1, WayFacts, WayTypes DEF Ok4, Ok7
  <2>3. Rests(a)
    BY <1>1, <1>5, <2>1, <2>2, WayTypes DEF Rests
  <2> QED
    BY <1>3, <2>3, WayKeeps
<1>6. CASE e = NearIn(a) /\ tr[Across(e)] = "open"
  <2>1. 3 + 1 \in Intact(a) /\ 3 \in 1..7
    BY <1>1, <1>2, <1>6 DEF Intact, Ok4
  <2> QED
    BY <1>2, <1>3, <1>6, <2>1, ForwardPlaces, WayFlush
<1>7. CASE e = Far(a) /\ tr[Across(e)] = "open"
  <2>1. 6 + 1 \in Intact(a) /\ 6 \in 1..7
    BY <1>1, <1>2, <1>7 DEF Intact, Ok7
  <2> QED
    BY <1>2, <1>3, <1>7, <2>1, ForwardPlaces, WayFlush
<1> QED
  BY <1>4, <1>5, <1>6, <1>7, WayFacts

\* A direction that ends on its connection's exception drops what its end still holds.
LEMMA EndsWay ==
  ASSUME TypeOK, TypeOK', NEW a \in Apps, Way(a),
         NEW e \in ProxyEnds, DirectionEnds(e)
  PROVE  Way(a)'
PROOF
<1>1. /\ dir'[e] = "done" /\ \A f \in ProxyEnds : f # e => dir'[f] = dir[f]
      /\ \A f \in ProxyEnds : f # e => held'[f] = held[f]
      /\ UNCHANGED <<app, count, rcvd, inbox, rst, tr, wbuf>>
  BY DEF DirectionEnds, qemuVars, netVars, TypeOK
<1>2. Wears(a)
  <2>1. \A f \in ProxyEnds : dir'[f] \in {"none", "running"} => dir[f] \in {"none", "running"}
    BY <1>1
  <2> QED
    BY <1>1, <2>1, WayTypes DEF Wears, Ok2, Ok3, Ok4, Ok5, Ok6, Ok7, Ok8
<1>3. Rests(a)
  <2>1. /\ Ok4(a)' => e # NearIn(a)
        /\ Ok7(a)' => e # Far(a)
    BY <1>1 DEF Ok4, Ok7
  <2> QED
    BY <1>1, <2>1, WayTypes DEF Rests
<1> QED
  BY <1>2, <1>3, WayKeeps

\* A handler moves no chunk.  It opens connections and starts directions that did not
\* exist; the others it closes and cancels.
LEMMA HandlerWay ==
  ASSUME TypeOK, TypeOK', HandlerOrder, Linked, NEW a \in Apps, Way(a), HandlerStep
  PROVE  Way(a)'
PROOF
<1> DEFINE Fresh == {"none", "open"}
           Gone == {"closed", "lost"}
           Active == {"none", "running"}
           Widens ==
             /\ \A f \in ProxyEnds : /\ tr'[f] \in Fresh => tr[f] \in Fresh
                                     /\ tr[f] \in Gone => tr'[f] = tr[f]
                                     /\ dir'[f] \in Active => dir[f] \in Active
             /\ app[a] = "closed" => app'[a] = "closed"
             /\ UNCHANGED <<count, rcvd, inbox, rst, held, wbuf>>
<1>0. /\ ProxyEnds = {"cu", "ct", "st", "su"} /\ Apps = {"S", "D"} /\ Proxies = {"C", "H"}
      /\ EndsOf("C") = {"cu", "ct"} /\ EndsOf("H") = {"st", "su"}
      /\ Peer("S") = "cu" /\ Peer("D") = "su"
  BY DEF ProxyEnds, Apps, Proxies, EndsOf, Peer, PeerOf
<1>1. ASSUME SourceConnects PROVE Widens
  <2>1. tr["cu"] = "none"
    BY <1>0, <1>1 DEF SourceConnects, Linked
  <2> QED
    BY <1>0, <1>1, <2>1 DEF SourceConnects, TypeOK, netVars
<1>2. ASSUME ClientConnects PROVE Widens
  <2>1. /\ tr["ct"] = "none" /\ tr["st"] = "none"
        /\ dir["cu"] = "none" /\ dir["ct"] = "none"
    BY <1>0, <1>2 DEF ClientConnects, Linked
  <2> QED
    BY <1>0, <1>2, <2>1 DEF ClientConnects, StartForwarding, TypeOK, qemuVars, netVars
<1>3. ASSUME ClientConnectFails PROVE Widens
  BY <1>0, <1>3 DEF ClientConnectFails, Closed, TypeOK, qemuVars, netVars
<1>4. ASSUME ServerConnects PROVE Widens
  <2>1. /\ tr["su"] = "none" /\ app["D"] = "none"
        /\ dir["st"] = "none" /\ dir["su"] = "none"
    BY <1>0, <1>4 DEF ServerConnects, Linked
  <2> QED
    BY <1>0, <1>4, <2>1 DEF ServerConnects, StartForwarding, TypeOK, netVars
<1>5. ASSUME ServerGivesUp PROVE Widens
  BY <1>0, <1>5 DEF ServerGivesUp, Closed, TypeOK, qemuVars, netVars
<1>6. ASSUME NEW p \in Proxies,
             \/ CancelPending(p) \/ CloseOutgoing(p) \/ OutgoingClosed(p)
             \/ OutgoingRaises(p) \/ AcceptedClosed(p)
      PROVE  Widens
  <2>1. Outgoing(p) \in ProxyEnds /\ Accepted(p) \in ProxyEnds
    BY EndFacts
  <2>2. CASE CancelPending(p)
    BY <2>1, <2>2 DEF CancelPending, TypeOK, qemuVars, netVars, loopVars
  <2>6. CASE CloseOutgoing(p)
    BY <2>1, <2>6 DEF CloseOutgoing, Closed, TypeOK, qemuVars, netVars
  <2>3. CASE OutgoingClosed(p)
    BY <2>1, <2>3 DEF OutgoingClosed, Closed, TypeOK, qemuVars, netVars
  <2>4. CASE OutgoingRaises(p)
    BY <2>1, <2>4 DEF OutgoingRaises, Closed, TypeOK, qemuVars, netVars
  <2>5. CASE AcceptedClosed(p)
    BY <2>1, <2>5 DEF AcceptedClosed, TypeOK, qemuVars, netVars, loopVars
  <2> QED
    BY <1>6, <2>2, <2>3, <2>4, <2>5, <2>6
<1> HIDE DEF Widens
<1>7. Widens
  BY <1>1, <1>2, <1>3, <1>4, <1>5, <1>6 DEF HandlerStep
<1>8. Wears(a)
  BY <1>7, WayTypes DEF Widens, Wears, Ok2, Ok3, Ok4, Ok5, Ok6, Ok7, Ok8
<1>9. Rests(a)
  BY <1>7, WayTypes DEF Widens, Rests
<1> QED
  BY <1>8, <1>9, WayKeeps
-----------------------------------------------------------------------------
WayInv == HandlerInv /\ Linked /\ \A a \in Apps : Way(a)

LEMMA WayInit == Init => WayInv
PROOF
<1> SUFFICES ASSUME Init, NEW a \in Apps PROVE Way(a)
  BY HandlerInit, LinkedInit DEF WayInv
<1>1. count[Sender(a)] = 0 /\ \A j \in {1, 2, 3, 4, 5, 6, 7, 8} : Places(a)[j] = <<>>
  <2>1. TypeOK
    BY TypeInit
  <2> QED
    BY <2>1, WayFacts, WayTypes, PlacesFacts DEF Init
<1> DEFINE k == [j \in 1..9 |-> 0]
<1>2. k \in [1..9 -> 0..0] /\ \A j \in 1..9 : k[j] = 0
  OBVIOUS
<1>3. \A j \in 1..8 : j \in {1, 2, 3, 4, 5, 6, 7, 8} /\ j \in 1..9 /\ j + 1 \in 1..9
  OBVIOUS
<1> HIDE DEF k
<1>4. \A j \in 1..8 : Run(Places(a)[j], k[j]) /\ k[j + 1] = k[j] + Size(Places(a)[j])
  BY <1>1, <1>2, <1>3, RunFacts
<1>5. k[1] = 0 /\ k[9] = 0
  BY <1>2
<1>6. Chain(Places(a), Intact(a), 0)
  BY ONLY <1>2, <1>4, <1>5 DEF Chain
<1> QED
  BY <1>1, <1>6 DEF Way

LEMMA WayInvStep == WayInv /\ [Next]_vars => WayInv'
PROOF
<1> SUFFICES ASSUME WayInv, [Next]_vars PROVE WayInv'
  OBVIOUS
<1>1. HandlerInv' /\ Linked'
  BY TypeStep, HandlerOrderStep, AliveStep, OpenStep, LinkedStep DEF WayInv, HandlerInv
<1>2. TypeOK /\ TypeOK' /\ HandlerOrder /\ Linked
  BY <1>1 DEF WayInv, HandlerInv
<1>3. ASSUME NEW a \in Apps PROVE Way(a)'
  <2>1. Way(a)
    BY DEF WayInv
  <2>2. CASE HandlerStep
    BY <1>2, <2>1, <2>2, HandlerWay
  <2>3. CASE QuietStep
    BY <1>2, <2>1, <2>3, SendWay, ReceiveWay, CloseWay, OtherWay, ReadsWay, WritesWay,
       GoneWay, ForwardWay, EndsWay, CancelledWay DEF QuietStep
  <2> QED
    BY <2>2, <2>3, StepGroups
<1> QED
  BY <1>1, <1>3 DEF WayInv

\* Whatever the network, the QEMUs and the proxies do, each QEMU receives a prefix of
\* what the other one has sent: in order, without a gap and without duplicates.
THEOREM Delivers == Spec => []PrefixDelivered
PROOF
<1>1. WayInv => PrefixDelivered
  <2> SUFFICES ASSUME WayInv, NEW a \in Apps
               PROVE  /\ rcvd[a] = Numbers(Len(rcvd[a]))
                      /\ \A b \in Apps \ {a} : Len(rcvd[a]) <= count[b]
    BY DEF PrefixDelivered
  <2> DEFINE q == Places(a)
             n == count[Sender(a)]
  <2>1. TypeOK /\ Chain(q, Intact(a), n)
    BY DEF WayInv, HandlerInv, Way
  <2>2. q[1] = rcvd[a] /\ 1..1 \subseteq Intact(a) /\ rcvd[a] \in Stream /\ n \in Nat
    BY <2>1, PlacesFacts, WayTypes DEF Intact, TypeOK
  <2> HIDE DEF q, n
  <2>3. Run(rcvd[a], 0) /\ Size(rcvd[a]) <= n
    <3>1. PICK k \in [1..9 -> 0..n] :
            /\ k[1] = 0
            /\ \A j \in 1..8 :
                 1..j \subseteq Intact(a) => Run(q[j], k[j]) /\ k[j + 1] = k[j] + Size(q[j])
      BY ONLY <2>1 DEF Chain
    <3>2. Run(q[1], 0) /\ k[2] = Size(q[1]) /\ k[2] \in 0..n
      <4>1. 1 \in 1..8 /\ 1 + 1 = 2 /\ 2 \in 1..9
        OBVIOUS
      <4>2. Run(q[1], k[1]) /\ k[2] = k[1] + Size(q[1]) /\ Size(q[1]) \in Nat /\ k[2] \in 0..n
        BY ONLY <2>2, <3>1, <4>1, RunFacts
      <4> QED
        BY ONLY <2>2, <3>1, <4>2
    <3> QED
      BY ONLY <2>2, <3>2
  <2>4. rcvd[a] = Numbers(Len(rcvd[a]))
    <3>1. \A i \in 1..Len(rcvd[a]) : rcvd[a][i] = i
      BY <2>3 DEF Run
    <3>2. rcvd[a] = [i \in 1..Len(rcvd[a]) |-> rcvd[a][i]]
      BY <2>2 DEF Stream
    <3> QED
      BY <3>1, <3>2 DEF Numbers
  <2>5. \A b \in Apps \ {a} : Len(rcvd[a]) <= count[b]
    BY <2>3, WayFacts DEF Size, n
  <2> QED
    BY <2>4, <2>5
<1> QED
  BY <1>1, WayInit, WayInvStep, PTL DEF Spec
-----------------------------------------------------------------------------
(* What is on its way and what is lost.                                    *)

\* The chunks a has received and those on their way to it.
Total(a) == Size(Places(a)[1]) + Size(Places(a)[2]) + Size(Places(a)[3])
            + Size(Places(a)[4]) + Size(Places(a)[5]) + Size(Places(a)[6])
            + Size(Places(a)[7]) + Size(Places(a)[8])

Within(a) == Total(a) <= count[Sender(a)]
Lossless(a) == Total(a) = count[Sender(a)]

\* A step keeps within what was sent, and loses nothing just when kept holds.
Loses(a, kept) == /\ Within(a) => Within(a)'
                  /\ Within(a) => (Lossless(a)' <=> Lossless(a) /\ kept)

LEMMA SizeFacts ==
  /\ \A s \in Stream : Size(s) \in Nat /\ (Size(s) = 0 <=> s = <<>>)
  /\ \A s \in Stream, c \in Nat : Size(Append(s, c)) = Size(s) + 1
  /\ \A s \in Stream : s # <<>> => Head(s) \in Nat /\ Size(s) = Size(Tail(s)) + 1
  /\ \A s, t \in Stream : Size(s \o t) = Size(s) + Size(t)
PROOF
<1>1. \A s \in Seq(Nat) : Len(s) \in Nat /\ (Len(s) = 0 <=> s = <<>>)
  BY EmptySeq, LenProperties
<1>2. \A s \in Seq(Nat), c \in Nat : Len(Append(s, c)) = Len(s) + 1
  BY AppendProperties
<1>3. \A s \in Seq(Nat) : s # <<>> => Head(s) \in Nat /\ Len(s) = Len(Tail(s)) + 1
  BY HeadTailProperties, <1>1
<1>4. \A s, t \in Seq(Nat) : Len(s \o t) = Len(s) + Len(t)
  BY ConcatProperties
<1> QED
  BY <1>1, <1>2, <1>3, <1>4 DEF Size, Stream

LEMMA SizesType ==
  ASSUME TypeOK, TypeOK', NEW a \in Apps
  PROVE  /\ \A i \in 1..8 : Size(Places(a)[i]) \in Nat /\ Size(Places(a)'[i]) \in Nat
         /\ Total(a) \in Nat /\ Total(a)' \in Nat
         /\ count[Sender(a)] \in Nat /\ count'[Sender(a)] \in Nat
PROOF
<1>1. \A i \in 1..8 : Places(a)[i] \in Stream
  BY PlacesType
<1>2. \A i \in 1..8 : Places(a)'[i] \in Stream
  <2>1. /\ rcvd'[a] \in Stream /\ inbox'[a] \in Stream
        /\ wbuf'[Near(a)] \in Stream /\ held'[NearIn(a)] \in Stream
        /\ inbox'[NearIn(a)] \in Stream /\ wbuf'[FarOut(a)] \in Stream
        /\ held'[Far(a)] \in Stream /\ inbox'[Far(a)] \in Stream
    BY WayTypes DEF TypeOK
  <2>2. \A i \in {1, 2, 3, 4, 5, 6, 7, 8} : Places(a)'[i] \in Stream
    BY <2>1, PlacesFacts
  <2> QED
    BY <2>2
<1>3. \A i \in 1..8 : Size(Places(a)[i]) \in Nat /\ Size(Places(a)'[i]) \in Nat
  BY <1>1, <1>2, SizeFacts
<1>4. \A i \in {1, 2, 3, 4, 5, 6, 7, 8} :
        Size(Places(a)[i]) \in Nat /\ Size(Places(a)'[i]) \in Nat
  BY ONLY <1>3
<1>5. Total(a) \in Nat /\ Total(a)' \in Nat
  BY ONLY <1>4 DEF Total
<1>6. Sender(a) \in Apps
  BY WayFacts
<1> QED
  BY <1>3, <1>5, <1>6 DEF TypeOK

\* The balance of a step that leaves d chunks less at the places than it sends: c.
LEMMA Losing ==
  ASSUME TypeOK, TypeOK', NEW a \in Apps, NEW c \in Nat, NEW d \in Nat,
         count'[Sender(a)] = count[Sender(a)] + c, Total(a)' + d = Total(a) + c
  PROVE  Loses(a, d = 0)
PROOF
BY SizesType DEF Loses, Within, Lossless

LEMMA Balance ==
  ASSUME TypeOK, TypeOK', NEW a \in Apps, NEW i \in 1..8, NEW c \in Nat, NEW d \in Nat,
         Still(a, (1..8) \ {i}), count'[Sender(a)] = count[Sender(a)] + c,
         Size(Places(a)'[i]) + d = Size(Places(a)[i]) + c
  PROVE  Loses(a, d = 0)
PROOF
<1> DEFINE x1 == Size(Places(a)[1])
           x2 == Size(Places(a)[2])
           x3 == Size(Places(a)[3])
           x4 == Size(Places(a)[4])
           x5 == Size(Places(a)[5])
           x6 == Size(Places(a)[6])
           x7 == Size(Places(a)[7])
           x8 == Size(Places(a)[8])
           y1 == Size(Places(a)'[1])
           y2 == Size(Places(a)'[2])
           y3 == Size(Places(a)'[3])
           y4 == Size(Places(a)'[4])
           y5 == Size(Places(a)'[5])
           y6 == Size(Places(a)'[6])
           y7 == Size(Places(a)'[7])
           y8 == Size(Places(a)'[8])
<1>1. /\ x1 \in Nat /\ x2 \in Nat /\ x3 \in Nat /\ x4 \in Nat
      /\ x5 \in Nat /\ x6 \in Nat /\ x7 \in Nat /\ x8 \in Nat
      /\ y1 \in Nat /\ y2 \in Nat /\ y3 \in Nat /\ y4 \in Nat
      /\ y5 \in Nat /\ y6 \in Nat /\ y7 \in Nat /\ y8 \in Nat
  BY SizesType
<1>2. /\ (i = 1 \/ y1 = x1) /\ (i = 2 \/ y2 = x2) /\ (i = 3 \/ y3 = x3) /\ (i = 4 \/ y4 = x4)
      /\ (i = 5 \/ y5 = x5) /\ (i = 6 \/ y6 = x6) /\ (i = 7 \/ y7 = x7) /\ (i = 8 \/ y8 = x8)
  <2>1. \A h \in 1..8 : h = i \/ Places(a)'[h] = Places(a)[h]
    BY DEF Still
  <2> QED
    BY <2>1
<1>3. /\ Total(a) = x1 + x2 + x3 + x4 + x5 + x6 + x7 + x8
      /\ Total(a)' = y1 + y2 + y3 + y4 + y5 + y6 + y7 + y8
  BY DEF Total
<1>4. /\ i = 1 => y1 + d = x1 + c
      /\ i = 2 => y2 + d = x2 + c
      /\ i = 3 => y3 + d = x3 + c
      /\ i = 4 => y4 + d = x4 + c
      /\ i = 5 => y5 + d = x5 + c
      /\ i = 6 => y6 + d = x6 + c
      /\ i = 7 => y7 + d = x7 + c
      /\ i = 8 => y8 + d = x8 + c
  OBVIOUS
<1> HIDE DEF x1, x2, x3, x4, x5, x6, x7, x8, y1, y2, y3, y4, y5, y6, y7, y8
<1>5. Total(a)' + d = Total(a) + c
  BY ONLY <1>1, <1>2, <1>3, <1>4, i \in 1..8, c \in Nat, d \in Nat
<1> QED
  BY <1>5, Losing

LEMMA Exchange ==
  ASSUME TypeOK, TypeOK', NEW a \in Apps, NEW i \in 1..7,
         Still(a, (1..8) \ {i, i + 1}), count'[Sender(a)] = count[Sender(a)],
         Size(Places(a)'[i]) + Size(Places(a)'[i + 1])
           = Size(Places(a)[i]) + Size(Places(a)[i + 1])
  PROVE  Loses(a, TRUE)
PROOF
<1> DEFINE x1 == Size(Places(a)[1])
           x2 == Size(Places(a)[2])
           x3 == Size(Places(a)[3])
           x4 == Size(Places(a)[4])
           x5 == Size(Places(a)[5])
           x6 == Size(Places(a)[6])
           x7 == Size(Places(a)[7])
           x8 == Size(Places(a)[8])
           y1 == Size(Places(a)'[1])
           y2 == Size(Places(a)'[2])
           y3 == Size(Places(a)'[3])
           y4 == Size(Places(a)'[4])
           y5 == Size(Places(a)'[5])
           y6 == Size(Places(a)'[6])
           y7 == Size(Places(a)'[7])
           y8 == Size(Places(a)'[8])
<1>1. /\ x1 \in Nat /\ x2 \in Nat /\ x3 \in Nat /\ x4 \in Nat
      /\ x5 \in Nat /\ x6 \in Nat /\ x7 \in Nat /\ x8 \in Nat
      /\ y1 \in Nat /\ y2 \in Nat /\ y3 \in Nat /\ y4 \in Nat
      /\ y5 \in Nat /\ y6 \in Nat /\ y7 \in Nat /\ y8 \in Nat
  BY SizesType
<1>2. /\ i = 1 \/ i + 1 = 1 \/ y1 = x1
      /\ i = 2 \/ i + 1 = 2 \/ y2 = x2
      /\ i = 3 \/ i + 1 = 3 \/ y3 = x3
      /\ i = 4 \/ i + 1 = 4 \/ y4 = x4
      /\ i = 5 \/ i + 1 = 5 \/ y5 = x5
      /\ i = 6 \/ i + 1 = 6 \/ y6 = x6
      /\ i = 7 \/ i + 1 = 7 \/ y7 = x7
      /\ i = 8 \/ i + 1 = 8 \/ y8 = x8
  <2>1. \A h \in 1..8 : h = i \/ h = i + 1 \/ Places(a)'[h] = Places(a)[h]
    BY DEF Still
  <2> QED
    BY <2>1
<1>3. /\ Total(a) = x1 + x2 + x3 + x4 + x5 + x6 + x7 + x8
      /\ Total(a)' = y1 + y2 + y3 + y4 + y5 + y6 + y7 + y8
  BY DEF Total
<1>4. /\ i = 1 => y1 + y2 = x1 + x2
      /\ i = 2 => y2 + y3 = x2 + x3
      /\ i = 3 => y3 + y4 = x3 + x4
      /\ i = 4 => y4 + y5 = x4 + x5
      /\ i = 5 => y5 + y6 = x5 + x6
      /\ i = 6 => y6 + y7 = x6 + x7
      /\ i = 7 => y7 + y8 = x7 + x8
  OBVIOUS
<1> HIDE DEF x1, x2, x3, x4, x5, x6, x7, x8, y1, y2, y3, y4, y5, y6, y7, y8
<1>5. Total(a)' + 0 = Total(a) + 0
  BY ONLY <1>1, <1>2, <1>3, <1>4, i \in 1..7
<1>6. count'[Sender(a)] = count[Sender(a)] + 0
  BY SizesType
<1> QED
  BY <1>5, <1>6, Losing

LEMMA NoneLost ==
  ASSUME TypeOK, TypeOK', NEW a \in Apps,
         Stays(a) \/ \E i \in 1..7 : Moves(a, i) \/ Flushes(a, i)
  PROVE  Loses(a, TRUE)
PROOF
<1>1. CASE Stays(a)
  <2>1. \A j \in {1, 2, 3, 4, 5, 6, 7, 8} : Places(a)'[j] = Places(a)[j]
    BY <1>1 DEF Stays, Still
  <2>2. Total(a)' = Total(a) /\ count'[Sender(a)] = count[Sender(a)]
    BY <1>1, <2>1 DEF Total, Stays
  <2> QED
    BY <2>2 DEF Loses, Within, Lossless
<1>2. ASSUME NEW i \in 1..7, Moves(a, i) \/ Flushes(a, i)
      PROVE  Loses(a, TRUE)
  <2> DEFINE u == Places(a)[i]
             t == Places(a)[i + 1]
  <2>1. u \in Stream /\ t \in Stream
    BY PlacesType
  <2>2. Size(Places(a)'[i]) + Size(Places(a)'[i + 1]) = Size(u) + Size(t)
    <3>1. Size(u) \in Nat /\ Size(t) \in Nat
      BY <2>1, SizeFacts
    <3>2. CASE Moves(a, i)
      <4>1. /\ t # <<>> /\ Places(a)'[i] = Append(u, Head(t))
            /\ Places(a)'[i + 1] = Tail(t)
        BY <3>2 DEF Moves
      <4> HIDE DEF u, t
      <4>2. /\ Size(Places(a)'[i]) = Size(u) + 1
            /\ Size(t) = Size(Places(a)'[i + 1]) + 1
        BY <2>1, <4>1, SizeFacts
      <4>3. Size(Tail(t)) \in Nat
        BY <2>1, <4>1, StreamFacts, SizeFacts
      <4> QED
        BY <3>1, <4>1, <4>2, <4>3
    <3>3. CASE Flushes(a, i)
      <4>1. Places(a)'[i] = u \o t /\ Places(a)'[i + 1] = <<>>
        BY <3>3 DEF Flushes
      <4> HIDE DEF u, t
      <4> QED
        BY <2>1, <3>1, <4>1, SizeFacts, RunFacts
    <3> QED
      BY <1>2, <3>2, <3>3
  <2>3. Still(a, (1..8) \ {i, i + 1}) /\ count'[Sender(a)] = count[Sender(a)]
    BY <1>2 DEF Moves, Flushes
  <2> QED
    BY <2>2, <2>3, Exchange
<1> QED
  BY <1>1, <1>2

\* What each step loses of what is on its way to a.
LEMMA SendLoses ==
  ASSUME TypeOK, TypeOK', NEW a \in Apps, NEW b \in Apps, Send(b)
  PROVE  Loses(a, b # a => Alive(Far(a)))
PROOF
<1> DEFINE y == Peer(b)
<1>1. /\ UNCHANGED <<app, rcvd, tr, held, wbuf>>
      /\ \A c \in Apps : count'[c] = IF c = b THEN count[c] + 1 ELSE count[c]
  BY DEF Send, loopVars, TypeOK
<1>2. \/ Alive(y) /\ inbox' = [inbox EXCEPT ![y] = Append(@, count[b] + 1)]
      \/ ~Alive(y) /\ UNCHANGED inbox
  BY DEF Send, Transmit
<1>3. y \in Ends /\ y = IF b = a THEN Near(a) ELSE Far(a)
  BY WayFacts, WayTypes
<1> HIDE DEF y
<1>4. /\ \A f \in Ends : f # y => inbox'[f] = inbox[f]
      /\ Alive(y) => inbox'[y] = Append(inbox[y], count[b] + 1)
      /\ ~Alive(y) => inbox' = inbox
  BY <1>2, <1>3 DEF TypeOK
<1>5. CASE b = a
  <2>1. /\ inbox'[a] = inbox[a] /\ inbox'[NearIn(a)] = inbox[NearIn(a)]
        /\ inbox'[Far(a)] = inbox[Far(a)]
    BY <1>3, <1>4, <1>5, WayFacts, WayTypes
  <2>2. \A j \in {1, 2, 3, 4, 5, 6, 7, 8} : Places(a)'[j] = Places(a)[j]
    BY ONLY <1>1, <2>1, PlacesFacts, a \in Apps
  <2>3. count'[Sender(a)] = count[Sender(a)]
    BY <1>1, <1>5, WayFacts
  <2>4. Stays(a)
    BY ONLY <2>2, <2>3 DEF Stays, Still
  <2> QED
    BY <1>5, <2>4, NoneLost DEF Loses
<1>6. CASE b # a
  <2>1. b = Sender(a) /\ y = Far(a) /\ count'[Sender(a)] = count[Sender(a)] + 1
    BY <1>1, <1>3, <1>6, WayFacts
  <2>2. inbox'[a] = inbox[a] /\ inbox'[NearIn(a)] = inbox[NearIn(a)]
    BY <1>4, <2>1, WayFacts, WayTypes
  <2>7. \A j \in {1, 2, 3, 4, 5, 6, 7} : Places(a)'[j] = Places(a)[j]
    BY ONLY <1>1, <2>2, PlacesFacts, a \in Apps
  <2>8. Still(a, (1..8) \ {8}) /\ 8 \in 1..8
    BY ONLY <2>7 DEF Still
  <2>9. inbox[Far(a)] \in Stream /\ Places(a)[8] = inbox[Far(a)]
        /\ Places(a)'[8] = inbox'[Far(a)] /\ count[b] + 1 \in Nat
        /\ Size(inbox[Far(a)]) \in Nat
    <3>1. inbox[Far(a)] \in Stream /\ count[b] + 1 \in Nat
      BY WayTypes DEF TypeOK
    <3> QED
      BY ONLY <3>1, PlacesFacts, SizeFacts, a \in Apps
  <2>10. CASE Alive(y)
    <3>1. inbox'[Far(a)] = Append(inbox[Far(a)], count[b] + 1)
      BY ONLY <1>4, <2>1, <2>10
    <3>2. Size(Places(a)'[8]) + 0 = Size(Places(a)[8]) + 1
      BY ONLY <2>9, <3>1, SizeFacts
    <3>3. Loses(a, 0 = 0)
      BY <2>1, <2>8, <3>2, Balance
    <3> QED
      BY <2>1, <2>10, <3>3 DEF Loses
  <2>11. CASE ~Alive(y)
    <3>1. Size(Places(a)'[8]) + 1 = Size(Places(a)[8]) + 1
      BY <1>4, <2>9, <2>11
    <3>2. Loses(a, 1 = 0)
      BY <2>1, <2>8, <3>1, Balance
    <3> QED
      BY <1>6, <2>1, <2>11, <3>2 DEF Loses
  <2> QED
    BY <2>10, <2>11
<1> QED
  BY <1>5, <1>6

LEMMA CloseLoses ==
  ASSUME TypeOK, TypeOK', NEW a \in Apps, NEW b \in Apps, Close(b)
  PROVE  Loses(a, b = a => inbox[a] = <<>>)
PROOF
<1>1. /\ UNCHANGED <<count, rcvd, held, wbuf>>
      /\ inbox'[b] = <<>> /\ \A f \in Ends : f # b => inbox'[f] = inbox[f]
  BY WayTypes DEF Close, CloseSocket, loopVars, TypeOK
<1>2. inbox'[NearIn(a)] = inbox[NearIn(a)] /\ inbox'[Far(a)] = inbox[Far(a)]
  BY <1>1, WayFacts, WayTypes
<1>0. count'[Sender(a)] = count[Sender(a)]
  BY <1>1
<1>3. CASE b # a
  <2>1. inbox'[a] = inbox[a]
    BY <1>1, <1>3, WayTypes
  <2>7. \A j \in {1, 2, 3, 4, 5, 6, 7, 8} : Places(a)'[j] = Places(a)[j]
    BY ONLY <1>1, <1>2, <2>1, PlacesFacts, a \in Apps
  <2>8. Stays(a)
    BY ONLY <1>0, <2>7 DEF Stays, Still
  <2> QED
    BY <2>8, <1>3, NoneLost DEF Loses
<1>4. CASE b = a
  <2> DEFINE d == Size(inbox[a])
  <2>7. \A j \in {1, 3, 4, 5, 6, 7, 8} : Places(a)'[j] = Places(a)[j]
    BY ONLY <1>1, <1>2, PlacesFacts, a \in Apps
  <2>8. Still(a, (1..8) \ {2}) /\ 2 \in 1..8
    BY ONLY <2>7 DEF Still
  <2>9. d \in Nat /\ (d = 0 <=> inbox[a] = <<>>)
    BY WayTypes, SizeFacts DEF TypeOK
  <2>10. Size(Places(a)'[2]) + d = Size(Places(a)[2]) + 0
    BY <1>1, <1>4, <2>9, PlacesFacts, RunFacts
  <2> HIDE DEF d
  <2>11. count'[Sender(a)] = count[Sender(a)] + 0
    BY <1>0, WayTypes
  <2>12. Loses(a, d = 0)
    BY <2>8, <2>9, <2>10, <2>11, Balance
  <2> QED
    BY <1>4, <2>9, <2>12 DEF Loses
<1> QED
  BY <1>3, <1>4

LEMMA WritesLoses ==
  ASSUME TypeOK, TypeOK', NEW a \in Apps, NEW e \in ProxyEnds, TransportWrites(e)
  PROVE  Loses(a, e \in {Near(a), FarOut(a)} => Alive(Peer(e)))
PROOF
<1>1. /\ ~Alive(Peer(e)) => /\ UNCHANGED inbox
                            /\ wbuf[e] # <<>> /\ wbuf'[e] = Tail(wbuf[e])
                            /\ \A f \in ProxyEnds : f # e => wbuf'[f] = wbuf[f]
      /\ UNCHANGED <<count, rcvd, held>>
  BY WritesPlaces
<1>0. count'[Sender(a)] = count[Sender(a)]
  BY <1>1
<1>2. CASE e \in {NearIn(a), Far(a)}
  <2>1. Stays(a) /\ e \notin {Near(a), FarOut(a)}
    BY <1>2, WritesPlaces, WayFacts
  <2> QED
    BY <2>1, NoneLost DEF Loses
<1>3. CASE e \in {Near(a), FarOut(a)} /\ Alive(Peer(e))
  <2>1. Moves(a, 2) \/ Moves(a, 5)
    BY <1>3, WritesPlaces, WayFacts
  <2>2. Loses(a, TRUE)
    <3>1. 2 \in 1..7 /\ 5 \in 1..7
      OBVIOUS
    <3>2. \E i \in 1..7 : Moves(a, i)
      BY ONLY <2>1, <3>1
    <3> QED
      BY <3>2, NoneLost
  <2> QED
    BY <1>3, <2>2 DEF Loses
<1>4. CASE e = Near(a) /\ ~Alive(Peer(e))
  <2>1. wbuf'[FarOut(a)] = wbuf[FarOut(a)] /\ UNCHANGED <<inbox, rcvd, held>>
    BY <1>1, <1>4, WayFacts, WayTypes
  <2>7. \A j \in {1, 2, 4, 5, 6, 7, 8} : Places(a)'[j] = Places(a)[j]
    BY ONLY <2>1, PlacesFacts, a \in Apps
  <2>8. Still(a, (1..8) \ {3}) /\ 3 \in 1..8
    BY ONLY <2>7 DEF Still
  <2>9. wbuf[Near(a)] \in Stream /\ wbuf[Near(a)] # <<>>
    BY <1>1, <1>4, WayTypes DEF TypeOK
  <2>10. Size(wbuf[Near(a)]) = Size(Tail(wbuf[Near(a)])) + 1 /\ Size(Tail(wbuf[Near(a)])) \in Nat
    BY <2>9, StreamFacts, SizeFacts
  <2>11. Size(Places(a)'[3]) + 1 = Size(Places(a)[3]) + 0
    BY <1>1, <1>4, <2>10, PlacesFacts
  <2>12. count'[Sender(a)] = count[Sender(a)] + 0
    BY <1>0, WayTypes
  <2>13. Loses(a, 1 = 0)
    BY <2>8, <2>11, <2>12, Balance
  <2> QED
    BY <1>4, <2>13 DEF Loses
<1>5. CASE e = FarOut(a) /\ ~Alive(Peer(e))
  <2>1. wbuf'[Near(a)] = wbuf[Near(a)] /\ UNCHANGED <<inbox, rcvd, held>>
    BY <1>1, <1>5, WayFacts, WayTypes
  <2>7. \A j \in {1, 2, 3, 4, 5, 7, 8} : Places(a)'[j] = Places(a)[j]
    BY ONLY <2>1, PlacesFacts, a \in Apps
  <2>8. Still(a, (1..8) \ {6}) /\ 6 \in 1..8
    BY ONLY <2>7 DEF Still
  <2>9. wbuf[FarOut(a)] \in Stream /\ wbuf[FarOut(a)] # <<>>
    BY <1>1, <1>5, WayTypes DEF TypeOK
  <2>10. Size(wbuf[FarOut(a)]) = Size(Tail(wbuf[FarOut(a)])) + 1 /\ Size(Tail(wbuf[FarOut(a)])) \in Nat
    BY <2>9, StreamFacts, SizeFacts
  <2>11. Size(Places(a)'[6]) + 1 = Size(Places(a)[6]) + 0
    BY <1>1, <1>5, <2>10, PlacesFacts
  <2>12. count'[Sender(a)] = count[Sender(a)] + 0
    BY <1>0, WayTypes
  <2>13. Loses(a, 1 = 0)
    BY <2>8, <2>11, <2>12, Balance
  <2> QED
    BY <1>5, <2>13 DEF Loses
<1> QED
  BY <1>2, <1>3, <1>4, <1>5, WayFacts

\* What an end of a's way held in its StreamReader is gone, and nothing else.
LEMMA HeldLoses ==
  ASSUME TypeOK, TypeOK', NEW a \in Apps, NEW e \in {NearIn(a), Far(a)},
         held'[e] = <<>>, \A f \in ProxyEnds : f # e => held'[f] = held[f],
         UNCHANGED <<count, rcvd, inbox, wbuf>>
  PROVE  Loses(a, held[e] = <<>>)
PROOF
<1>0. count'[Sender(a)] = count[Sender(a)]
  OBVIOUS
<1>1. CASE e = NearIn(a)
  <2>1. held'[Far(a)] = held[Far(a)] /\ UNCHANGED <<inbox, rcvd, wbuf>>
    BY <1>1, WayFacts, WayTypes
  <2> DEFINE d == Size(held[NearIn(a)])
  <2>7. \A j \in {1, 2, 3, 5, 6, 7, 8} : Places(a)'[j] = Places(a)[j]
    BY ONLY <2>1, PlacesFacts, a \in Apps
  <2>8. Still(a, (1..8) \ {4}) /\ 4 \in 1..8
    BY ONLY <2>7 DEF Still
  <2>9. d \in Nat /\ (d = 0 <=> held[NearIn(a)] = <<>>)
    BY WayTypes, SizeFacts DEF TypeOK
  <2>10. Size(Places(a)'[4]) + d = Size(Places(a)[4]) + 0
    BY <1>1, <2>9, PlacesFacts, RunFacts
  <2> HIDE DEF d
  <2>11. count'[Sender(a)] = count[Sender(a)] + 0
    BY <1>0, WayTypes
  <2>12. Loses(a, d = 0)
    BY ONLY TypeOK, TypeOK', a \in Apps, 0 \in Nat, <2>8, <2>9, <2>10, <2>11, Balance
  <2> QED
    BY <1>1, <2>9, <2>12 DEF Loses
<1>2. CASE e = Far(a)
  <2>1. held'[NearIn(a)] = held[NearIn(a)] /\ UNCHANGED <<inbox, rcvd, wbuf>>
    BY <1>2, WayFacts, WayTypes
  <2> DEFINE d == Size(held[Far(a)])
  <2>7. \A j \in {1, 2, 3, 4, 5, 6, 8} : Places(a)'[j] = Places(a)[j]
    BY ONLY <2>1, PlacesFacts, a \in Apps
  <2>8. Still(a, (1..8) \ {7}) /\ 7 \in 1..8
    BY ONLY <2>7 DEF Still
  <2>9. d \in Nat /\ (d = 0 <=> held[Far(a)] = <<>>)
    BY WayTypes, SizeFacts DEF TypeOK
  <2>10. Size(Places(a)'[7]) + d = Size(Places(a)[7]) + 0
    BY <1>2, <2>9, PlacesFacts, RunFacts
  <2> HIDE DEF d
  <2>11. count'[Sender(a)] = count[Sender(a)] + 0
    BY <1>0, WayTypes
  <2>12. Loses(a, d = 0)
    BY ONLY TypeOK, TypeOK', a \in Apps, 0 \in Nat, <2>8, <2>9, <2>10, <2>11, Balance
  <2> QED
    BY <1>2, <2>9, <2>12 DEF Loses
<1> QED
  BY <1>1, <1>2

LEMMA ForwardLoses ==
  ASSUME TypeOK, TypeOK', NEW a \in Apps, NEW e \in ProxyEnds, Forward(e)
  PROVE  Loses(a, e \in {NearIn(a), Far(a)} => held[e] = <<>> \/ tr[Across(e)] = "open")
PROOF
<1>1. CASE \/ e \in {Near(a), FarOut(a)}
           \/ e \in {NearIn(a), Far(a)} /\ tr[Across(e)] = "open"
  <2>1. Stays(a) \/ Flushes(a, 3) \/ Flushes(a, 6)
    BY <1>1, ForwardPlaces, WayFacts
  <2>2. Loses(a, TRUE)
    <3>1. 3 \in 1..7 /\ 6 \in 1..7
      OBVIOUS
    <3>2. Stays(a) \/ \E i \in 1..7 : Flushes(a, i)
      BY ONLY <2>1, <3>1
    <3> QED
      BY <3>2, NoneLost
  <2>3. e \in {NearIn(a), Far(a)} => tr[Across(e)] = "open"
    BY <1>1, WayFacts
  <2> QED
    BY <2>2, <2>3 DEF Loses
<1>2. CASE e \in {NearIn(a), Far(a)} /\ tr[Across(e)] # "open"
  <2>1. /\ held'[e] = <<>> /\ \A f \in ProxyEnds : f # e => held'[f] = held[f]
        /\ UNCHANGED <<count, rcvd, inbox, wbuf>>
    BY <1>2, ForwardPlaces
  <2>2. Loses(a, held[e] = <<>>)
    BY <1>2, <2>1, HeldLoses
  <2> QED
    BY <1>2, <2>2 DEF Loses
<1> QED
  BY <1>1, <1>2, WayFacts

LEMMA EndsLoses ==
  ASSUME TypeOK, TypeOK', NEW a \in Apps, NEW e \in ProxyEnds, DirectionEnds(e)
  PROVE  Loses(a, e \in {NearIn(a), Far(a)} => held[e] = <<>>)
PROOF
<1>1. /\ held'[e] = <<>> /\ \A f \in ProxyEnds : f # e => held'[f] = held[f]
      /\ UNCHANGED <<count, rcvd, inbox, wbuf>>
  BY DEF DirectionEnds, qemuVars, netVars, TypeOK
<1>2. CASE e \in {NearIn(a), Far(a)}
  <2>1. Loses(a, held[e] = <<>>)
    BY <1>1, <1>2, HeldLoses
  <2> QED
    BY <1>2, <2>1 DEF Loses
<1>3. CASE e \notin {NearIn(a), Far(a)}
  <2>1. held'[NearIn(a)] = held[NearIn(a)] /\ held'[Far(a)] = held[Far(a)]
    BY <1>1, <1>3, WayFacts
  <2>2. \A j \in {1, 2, 3, 4, 5, 6, 7, 8} : Places(a)'[j] = Places(a)[j]
    BY ONLY <1>1, <2>1, PlacesFacts, a \in Apps
  <2>3. Stays(a)
    BY ONLY <1>1, <2>2 DEF Stays, Still
  <2> QED
    BY <1>3, <2>3, NoneLost DEF Loses
<1> QED
  BY <1>2, <1>3

LEMMA GoneLoses ==
  ASSUME TypeOK, TypeOK', NEW a \in Apps,
         NEW e \in ProxyEnds, TransportFails(e) \/ TransportCloses(e)
  PROVE  Loses(a, IF e \in {NearIn(a), Far(a)} THEN inbox[e] = <<>> ELSE wbuf[e] = <<>>)
PROOF
<1>1. /\ wbuf'[e] = <<>> /\ \A f \in ProxyEnds : f # e => wbuf'[f] = wbuf[f]
      /\ inbox'[e] = <<>> /\ \A f \in Ends : f # e => inbox'[f] = inbox[f]
      /\ UNCHANGED <<count, rcvd, held>>
  BY EndFacts DEF TransportFails, TransportCloses, CloseSocket, qemuVars, TypeOK
<1>0. count'[Sender(a)] = count[Sender(a)]
  BY <1>1
<1>2. inbox'[a] = inbox[a]
  BY <1>1, WayTypes
<1>3. CASE e = NearIn(a)
  <2>1. /\ inbox'[Far(a)] = inbox[Far(a)]
        /\ wbuf'[Near(a)] = wbuf[Near(a)] /\ wbuf'[FarOut(a)] = wbuf[FarOut(a)]
        /\ UNCHANGED <<rcvd, held>>
    BY <1>1, <1>3, WayFacts, WayTypes
  <2> DEFINE d == Size(inbox[NearIn(a)])
  <2>7. \A j \in {1, 2, 3, 4, 6, 7, 8} : Places(a)'[j] = Places(a)[j]
    BY ONLY <1>2, <2>1, PlacesFacts, a \in Apps
  <2>8. Still(a, (1..8) \ {5}) /\ 5 \in 1..8
    BY ONLY <2>7 DEF Still
  <2>9. d \in Nat /\ (d = 0 <=> inbox[NearIn(a)] = <<>>)
    BY WayTypes, SizeFacts DEF TypeOK
  <2>10. Size(Places(a)'[5]) + d = Size(Places(a)[5]) + 0
    BY <1>1, <1>3, <2>9, PlacesFacts, RunFacts
  <2> HIDE DEF d
  <2>11. count'[Sender(a)] = count[Sender(a)] + 0
    BY <1>0, WayTypes
  <2>12. Loses(a, d = 0)
    BY <2>8, <2>9, <2>10, <2>11, Balance
  <2> QED
    BY <1>3, <2>9, <2>12, WayFacts DEF Loses
<1>4. CASE e = Far(a)
  <2>1. /\ inbox'[NearIn(a)] = inbox[NearIn(a)]
        /\ wbuf'[Near(a)] = wbuf[Near(a)] /\ wbuf'[FarOut(a)] = wbuf[FarOut(a)]
        /\ UNCHANGED <<rcvd, held>>
    BY <1>1, <1>4, WayFacts, WayTypes
  <2> DEFINE d == Size(inbox[Far(a)])
  <2>7. \A j \in {1, 2, 3, 4, 5, 6, 7} : Places(a)'[j] = Places(a)[j]
    BY ONLY <1>2, <2>1, PlacesFacts, a \in Apps
  <2>8. Still(a, (1..8) \ {8}) /\ 8 \in 1..8
    BY ONLY <2>7 DEF Still
  <2>9. d \in Nat /\ (d = 0 <=> inbox[Far(a)] = <<>>)
    BY WayTypes, SizeFacts DEF TypeOK
  <2>10. Size(Places(a)'[8]) + d = Size(Places(a)[8]) + 0
    BY <1>1, <1>4, <2>9, PlacesFacts, RunFacts
  <2> HIDE DEF d
  <2>11. count'[Sender(a)] = count[Sender(a)] + 0
    BY <1>0, WayTypes
  <2>12. Loses(a, d = 0)
    BY <2>8, <2>9, <2>10, <2>11, Balance
  <2> QED
    BY <1>4, <2>9, <2>12, WayFacts DEF Loses
<1>5. CASE e = Near(a)
  <2>1. /\ wbuf'[FarOut(a)] = wbuf[FarOut(a)]
        /\ inbox'[NearIn(a)] = inbox[NearIn(a)] /\ inbox'[Far(a)] = inbox[Far(a)]
        /\ UNCHANGED <<rcvd, held>>
    BY <1>1, <1>5, WayFacts, WayTypes
  <2> DEFINE d == Size(wbuf[Near(a)])
  <2>7. \A j \in {1, 2, 4, 5, 6, 7, 8} : Places(a)'[j] = Places(a)[j]
    BY ONLY <1>2, <2>1, PlacesFacts, a \in Apps
  <2>8. Still(a, (1..8) \ {3}) /\ 3 \in 1..8
    BY ONLY <2>7 DEF Still
  <2>9. d \in Nat /\ (d = 0 <=> wbuf[Near(a)] = <<>>)
    BY WayTypes, SizeFacts DEF TypeOK
  <2>10. Size(Places(a)'[3]) + d = Size(Places(a)[3]) + 0
    BY <1>1, <1>5, <2>9, PlacesFacts, RunFacts
  <2> HIDE DEF d
  <2>11. count'[Sender(a)] = count[Sender(a)] + 0
    BY <1>0, WayTypes
  <2>12. Loses(a, d = 0)
    BY <2>8, <2>9, <2>10, <2>11, Balance
  <2> QED
    BY <1>5, <2>9, <2>12, WayFacts DEF Loses
<1>6. CASE e = FarOut(a)
  <2>1. /\ wbuf'[Near(a)] = wbuf[Near(a)]
        /\ inbox'[NearIn(a)] = inbox[NearIn(a)] /\ inbox'[Far(a)] = inbox[Far(a)]
        /\ UNCHANGED <<rcvd, held>>
    BY <1>1, <1>6, WayFacts, WayTypes
  <2> DEFINE d == Size(wbuf[FarOut(a)])
  <2>7. \A j \in {1, 2, 3, 4, 5, 7, 8} : Places(a)'[j] = Places(a)[j]
    BY ONLY <1>2, <2>1, PlacesFacts, a \in Apps
  <2>8. Still(a, (1..8) \ {6}) /\ 6 \in 1..8
    BY ONLY <2>7 DEF Still
  <2>9. d \in Nat /\ (d = 0 <=> wbuf[FarOut(a)] = <<>>)
    BY WayTypes, SizeFacts DEF TypeOK
  <2>10. Size(Places(a)'[6]) + d = Size(Places(a)[6]) + 0
    BY <1>1, <1>6, <2>9, PlacesFacts, RunFacts
  <2> HIDE DEF d
  <2>11. count'[Sender(a)] = count[Sender(a)] + 0
    BY <1>0, WayTypes
  <2>12. Loses(a, d = 0)
    BY <2>8, <2>9, <2>10, <2>11, Balance
  <2> QED
    BY <1>6, <2>9, <2>12, WayFacts DEF Loses
<1> QED
  BY <1>3, <1>4, <1>5, <1>6, WayFacts

LEMMA OtherLoses ==
  ASSUME TypeOK, TypeOK', NEW a \in Apps, UNCHANGED <<count, rcvd, inbox, held, wbuf>>
  PROVE  Loses(a, TRUE)
PROOF
<1>1. \A j \in {1, 2, 3, 4, 5, 6, 7, 8} : Places(a)'[j] = Places(a)[j]
  BY PlacesFacts
<1>2. Stays(a)
  BY ONLY <1>1, UNCHANGED count DEF Stays, Still
<1> QED
  BY <1>2, NoneLost

LEMMA ReceiveLoses ==
  ASSUME TypeOK, TypeOK', NEW a \in Apps, NEW b \in Apps, Receive(b)
  PROVE  Loses(a, TRUE)
PROOF
<1>1. 1 \in 1..7
  OBVIOUS
<1>2. Stays(a) \/ \E i \in 1..7 : Moves(a, i)
  BY <1>1, ReceivePlaces
<1> QED
  BY <1>2, NoneLost

LEMMA ReadsLoses ==
  ASSUME TypeOK, TypeOK', NEW a \in Apps, NEW e \in ProxyEnds, TransportReads(e)
  PROVE  Loses(a, TRUE)
PROOF
<1>1. 4 \in 1..7 /\ 7 \in 1..7
  OBVIOUS
<1>2. Stays(a) \/ Moves(a, 4) \/ Moves(a, 7)
  BY ReadsPlaces, WayFacts
<1>3. Stays(a) \/ \E i \in 1..7 : Moves(a, i)
  BY ONLY <1>1, <1>2
<1> QED
  BY <1>3, NoneLost
-----------------------------------------------------------------------------
(* Why a stream is truncated.                                              *)

LEMMA Names ==
  /\ ProxyEnds = {"cu", "ct", "st", "su"} /\ Apps = {"S", "D"} /\ Proxies = {"C", "H"}
  /\ EndsOf("C") = {"cu", "ct"} /\ EndsOf("H") = {"st", "su"}
  /\ Outgoing("C") = "ct" /\ Accepted("C") = "cu"
  /\ Outgoing("H") = "su" /\ Accepted("H") = "st"
  /\ Peer("S") = "cu" /\ Peer("cu") = "S" /\ Peer("ct") = "st"
  /\ Peer("st") = "ct" /\ Peer("su") = "D" /\ Peer("D") = "su"
  /\ Across("cu") = "ct" /\ Across("ct") = "cu" /\ Across("st") = "su" /\ Across("su") = "st"
  /\ Sender("S") = "D" /\ Near("S") = "cu" /\ NearIn("S") = "ct"
  /\ FarOut("S") = "st" /\ Far("S") = "su"
  /\ Sender("D") = "S" /\ Near("D") = "su" /\ NearIn("D") = "st"
  /\ FarOut("D") = "ct" /\ Far("D") = "cu"
PROOF
BY DEF ProxyEnds, Apps, Proxies, EndsOf, Outgoing, Accepted, Peer, PeerOf, Across, AcrossOf,
   Sender, Near, NearIn, FarOut, Far

\* The tunnel is complete, or on the way to be.
Stage ==
  \/ app["D"] = "open"
  \/ handler["H"] = "connecting"
  \/ handler["H"] = "idle" /\ handler["C"] \in {"idle", "connecting"}

\* None of the causes has occurred: the network works, the destination has not closed
\* or shut down, and no reply has been lost.
Undisturbed == ~broken /\ Lossless("S") /\ Stage

Over(p) == handler[p] \in {"cancelling", "closingOut", "closingIn", "ended", "raised"}

\* Then nothing fails, ...
SoundEnd(e) ==
  /\ ~rst[e] /\ tr[e] # "lost"
  /\ tr[e] = "closed" => wbuf[e] = <<>>
  /\ eof[e] => fin[e] /\ inbox[e] = <<>>
  /\ dir[e] = "done" => eof[e] /\ held[e] = <<>>

\* ... a stream ends only because the end before it has closed, ...
SoundFin ==
  /\ fin["cu"] => app["S"] \in {"shut", "closed"}
  /\ fin["st"] => tr["ct"] = "closed"
  /\ fin["ct"] => tr["st"] = "closed"
  /\ ~fin["su"]
  /\ fin["D"] => tr["su"] = "closed"

\* ... and a handler gives up and closes its connections one after the other, when the
\* direction towards the destination has handed over everything.
SoundHandler(p) ==
  /\ Over(p) => dir[Accepted(p)] = "done"
  /\ tr[Outgoing(p)] \in {"closing", "closed"} => Over(p)
  /\ tr[Accepted(p)] \in {"closing", "closed"} => tr[Outgoing(p)] = "closed"
  /\ handler[p] \notin {"idle", "connecting"} => tr[Outgoing(p)] # "none"

\* So nothing is lost on the way to the destination.
Sound ==
  /\ \A e \in ProxyEnds : SoundEnd(e)
  /\ SoundFin
  /\ \A p \in Proxies : SoundHandler(p)
  /\ Lossless("D")

Steady ==
  /\ HandlerInv /\ Linked
  /\ Within("S") /\ Within("D")
  /\ Undisturbed => Sound

\* The connections close in one order, from the source to the destination and back.
LEMMA SoundFacts ==
  ASSUME TypeOK, Linked, Stage, Sound
  PROVE  /\ app["D"] # "none" => app["D"] = "open"
         /\ tr["su"] # "none" => app["D"] = "open"
         /\ tr["ct"] # "none" => tr["st"] # "none"
         /\ tr["ct"] \in {"closing", "closed"} =>
              app["S"] \in {"shut", "closed"} /\ inbox["cu"] = <<>> /\ held["cu"] = <<>>
         /\ tr["su"] \in {"closing", "closed"} =>
              tr["ct"] = "closed" /\ inbox["st"] = <<>> /\ held["st"] = <<>>
         /\ tr["cu"] \in {"closing", "closed"} => tr["ct"] = "closed"
         /\ tr["st"] \in {"closing", "closed"} => tr["su"] = "closed"
         /\ eof["cu"] => app["S"] \in {"shut", "closed"}
         /\ eof["st"] => tr["ct"] = "closed"
         /\ eof["ct"] => tr["st"] = "closed"
         /\ ~eof["su"] /\ dir["su"] # "done"
         /\ dir["ct"] = "done" => Over("C")
         /\ \A e \in ProxyEnds : ~rst[e] /\ tr[e] \in {"none", "open", "closing", "closed"}
PROOF
<1>1. /\ SoundEnd("cu") /\ SoundEnd("ct") /\ SoundEnd("st") /\ SoundEnd("su")
      /\ SoundHandler("C") /\ SoundHandler("H") /\ SoundFin
  BY Names DEF Sound
<1>2. /\ app["D"] # "none" => app["D"] = "open"
      /\ tr["su"] # "none" => app["D"] = "open"
      /\ tr["ct"] # "none" => tr["st"] # "none"
  BY Names DEF Linked, Stage
<1>3. /\ eof["cu"] => app["S"] \in {"shut", "closed"}
      /\ eof["st"] => tr["ct"] = "closed"
      /\ eof["ct"] => tr["st"] = "closed"
      /\ ~eof["su"] /\ dir["su"] # "done"
  BY <1>1 DEF SoundEnd, SoundFin
<1>4. tr["ct"] \in {"closing", "closed"} =>
        app["S"] \in {"shut", "closed"} /\ inbox["cu"] = <<>> /\ held["cu"] = <<>>
  BY <1>1, <1>3, Names DEF SoundHandler, SoundEnd
<1>5. /\ tr["su"] \in {"closing", "closed"} =>
           tr["ct"] = "closed" /\ inbox["st"] = <<>> /\ held["st"] = <<>>
      /\ tr["cu"] \in {"closing", "closed"} => tr["ct"] = "closed"
      /\ tr["st"] \in {"closing", "closed"} => tr["su"] = "closed"
  BY <1>1, <1>3, Names DEF SoundHandler, SoundEnd
<1>6. dir["ct"] = "done" => Over("C")
  <2>1. dir["ct"] = "done" => tr["ct"] = "closed"
    BY <1>1, <1>3, <1>5 DEF SoundEnd
  <2> QED
    BY <1>1, <2>1, Names DEF SoundHandler
<1>7. \A e \in ProxyEnds : ~rst[e] /\ tr[e] \in {"none", "open", "closing", "closed"}
  BY DEF Sound, SoundEnd, TypeOK
<1> QED
  BY <1>2, <1>3, <1>4, <1>5, <1>6, <1>7

LEMMA ReadsSound ==
  ASSUME TypeOK, TypeOK', Within("D"), Sound, NEW e \in ProxyEnds, TransportReads(e)
  PROVE  Sound'
PROOF
<1>1. /\ tr[e] = "open" /\ ~eof[e]
      /\ \A f \in ProxyEnds : f # e => held'[f] = held[f] /\ inbox'[f] = inbox[f]
      /\ UNCHANGED <<fin, rst, tr, eof, wbuf, app, dir, handler>>
  BY EndFacts DEF TransportReads, Reading, qemuVars, taskVars, TypeOK
<1>2. \A f \in ProxyEnds : SoundEnd(f)'
  BY <1>1 DEF Sound, SoundEnd
<1>3. SoundFin' /\ \A p \in Proxies : SoundHandler(p)'
  BY <1>1 DEF Sound, SoundFin, SoundHandler, Over
<1>4. Lossless("D")'
  BY Names, ReadsLoses DEF Sound, Loses
<1> QED
  BY <1>2, <1>3, <1>4 DEF Sound

LEMMA EofSound ==
  ASSUME TypeOK, TypeOK', Within("D"), Sound, NEW e \in ProxyEnds, TransportSeesEof(e)
  PROVE  Sound'
PROOF
<1>1. /\ inbox[e] = <<>> /\ fin[e]
      /\ \A f \in ProxyEnds : f # e => eof'[f] = eof[f]
      /\ UNCHANGED <<inbox, fin, rst, tr, held, wbuf, app, rcvd, count, dir, handler>>
      /\ eof'[e]
  BY DEF TransportSeesEof, netVars, qemuVars, taskVars, TypeOK
<1>2. \A f \in ProxyEnds : SoundEnd(f)'
  BY <1>1 DEF Sound, SoundEnd
<1>3. SoundFin' /\ \A p \in Proxies : SoundHandler(p)'
  BY <1>1 DEF Sound, SoundFin, SoundHandler, Over
<1>4. Lossless("D")'
  BY <1>1, Names, OtherLoses DEF Sound, Loses
<1> QED
  BY <1>2, <1>3, <1>4 DEF Sound

\* Who writes is still heard.
LEMMA WritesSound ==
  ASSUME TypeOK, TypeOK', Linked, Stage, Within("S"), Within("D"), Sound,
         Lossless("S"), Lossless("S")', NEW e \in ProxyEnds, TransportWrites(e)
  PROVE  Sound'
PROOF
<1>1. tr[e] \in {"open", "closing"} /\ UNCHANGED <<app, tr, held, dir>>
  BY Names, WritesPlaces
<1>2. Alive(Peer(e))
  <2>1. CASE e \in {"cu", "st"}
    BY <2>1, Names, WritesLoses DEF Loses
  <2>2. CASE e = "ct"
    <3>1. tr["st"] \in {"open", "closing"}
      BY <1>1, <2>2, Names, SoundFacts
    <3> QED
      BY <2>2, <3>1, Names DEF Alive
  <2>3. CASE e = "su"
    BY <1>1, <2>3, Names, SoundFacts DEF Alive
  <2> QED
    BY <2>1, <2>2, <2>3, Names
<1>3. /\ inbox' = [inbox EXCEPT ![Peer(e)] = Append(@, Head(wbuf[e]))]
      /\ wbuf' = [wbuf EXCEPT ![e] = Tail(@)]
      /\ UNCHANGED <<fin, rst, eof, handler>>
  BY <1>2 DEF TransportWrites, Transmit, taskVars
<1>4. ~(Peer(e) \in ProxyEnds /\ eof[Peer(e)])
  BY <1>1, Names, SoundFacts
<1>5. /\ \A f \in ProxyEnds : f # Peer(e) => inbox'[f] = inbox[f]
      /\ \A f \in ProxyEnds : f # e => wbuf'[f] = wbuf[f]
  BY <1>3, EndFacts DEF TypeOK
<1>6. \A f \in ProxyEnds : SoundEnd(f)'
  BY <1>1, <1>3, <1>4, <1>5 DEF Sound, SoundEnd
<1>7. SoundFin' /\ \A p \in Proxies : SoundHandler(p)'
  BY <1>1, <1>3 DEF Sound, SoundFin, SoundHandler, Over
<1>8. Lossless("D")'
  BY <1>2, Names, WritesLoses DEF Sound, Loses
<1> QED
  BY <1>6, <1>7, <1>8 DEF Sound

\* No transport fails, and one that closes has read and written everything.
LEMMA GoneSound ==
  ASSUME TypeOK, TypeOK', Linked, Stage, Within("S"), Within("D"), Sound,
         Lossless("S"), Lossless("S")',
         NEW e \in ProxyEnds, TransportFails(e) \/ TransportCloses(e)
  PROVE  Sound'
PROOF
<1>1. TransportCloses(e)
  BY SoundFacts DEF TransportFails
<1>2. /\ tr[e] = "closing" /\ wbuf[e] = <<>> /\ tr'[e] = "closed"
      /\ \A f \in ProxyEnds : f # e => tr'[f] = tr[f]
      /\ UNCHANGED <<held, eof, wbuf, app, rcvd, count, dir, handler>>
      /\ inbox' = [inbox EXCEPT ![e] = <<>>]
      /\ rst' = [rst EXCEPT ![Peer(e)] = @ \/ inbox[e] # <<>>]
      /\ fin' = [fin EXCEPT ![Peer(e)] = TRUE]
  BY <1>1 DEF TransportCloses, CloseSocket, qemuVars, taskVars, TypeOK
<1>3. inbox[e] = <<>>
  <2>1. CASE e \in {"ct", "su"}
    BY <2>1, Names, GoneLoses DEF Loses
  <2>2. CASE e \in {"cu", "st"}
    BY <1>2, <2>2, SoundFacts
  <2> QED
    BY <2>1, <2>2, Names
<1>4. /\ \A f \in ProxyEnds : inbox'[f] = inbox[f] /\ rst'[f] = rst[f]
      /\ \A f \in Ends : fin[f] => fin'[f]
      /\ \A f \in Ends : fin'[f] => fin[f] \/ f = Peer(e)
  BY <1>2, <1>3, EndFacts DEF TypeOK
<1>5. \A f \in ProxyEnds : SoundEnd(f)'
  BY <1>2, <1>4, EndFacts DEF Sound, SoundEnd
<1>6. SoundFin'
  <2>1. \A f \in ProxyEnds : tr[f] = "closed" => tr'[f] = "closed"
    BY <1>2
  <2>2. "su" # Peer(e) /\ "cu" # Peer(e)
    BY Names
  <2> QED
    BY <1>2, <1>4, <2>1, <2>2, Names, EndFacts DEF Sound, SoundFin
<1>7. ASSUME NEW p \in Proxies PROVE SoundHandler(p)'
  <2>1. SoundHandler(p) /\ Outgoing(p) \in ProxyEnds /\ Accepted(p) \in ProxyEnds
    BY EndFacts DEF Sound
  <2> QED
    BY <1>2, <2>1 DEF SoundHandler, Over
<1>8. Lossless("D")'
  BY <1>2, <1>3, Names, GoneLoses DEF Sound, Loses
<1> QED
  BY <1>5, <1>6, <1>7, <1>8 DEF Sound

\* forward_data has a transport to write to: it is cancelled before that one is closed.
LEMMA ForwardSound ==
  ASSUME TypeOK, TypeOK', AliveInHandler, OpenTillClose, Linked, Within("D"), Sound,
         NEW e \in ProxyEnds, Forward(e)
  PROVE  Sound'
PROOF
<1>1. /\ dir[e] = "running" /\ held'[e] = <<>>
      /\ \A f \in ProxyEnds : f # e => held'[f] = held[f]
      /\ \A f \in ProxyEnds : tr[f] # "open" => wbuf'[f] = wbuf[f]
      /\ UNCHANGED <<app, inbox, fin, rst, tr, eof, dir, handler>>
  BY EndFacts DEF Forward, qemuVars, netVars, taskVars, TypeOK
<1>2. \A f \in ProxyEnds : SoundEnd(f)'
  BY <1>1 DEF Sound, SoundEnd
<1>3. SoundFin' /\ \A p \in Proxies : SoundHandler(p)'
  BY <1>1 DEF Sound, SoundFin, SoundHandler, Over
<1>4. e \in {"cu", "st"} => tr[Across(e)] = "open"
  <2>1. ASSUME NEW p \in Proxies, e = Accepted(p)
        PROVE  tr[Outgoing(p)] = "open"
    <3>1. handler[p] \in {"forwarding", "cancelling"}
      BY <1>1, <2>1, EndFacts DEF AliveInHandler, Busy
    <3>2. SoundEnd(Outgoing(p)) /\ tr[Outgoing(p)] \in {"open", "lost"}
      BY <3>1, EndFacts DEF Sound, OpenTillClose
    <3> QED
      BY <3>2 DEF SoundEnd
  <2> QED
    BY <2>1, Names
<1>5. Lossless("D")'
  BY <1>4, Names, ForwardLoses DEF Sound, Loses
<1> QED
  BY <1>2, <1>3, <1>5 DEF Sound

LEMMA EndsSound ==
  ASSUME TypeOK, TypeOK', Within("D"), Sound, NEW e \in ProxyEnds, DirectionEnds(e)
  PROVE  Sound'
PROOF
<1>1. /\ tr[e] = "lost" \/ (eof[e] /\ held[e] = <<>>)
      /\ held'[e] = <<>> /\ dir'[e] = "done"
      /\ \A f \in ProxyEnds : f # e => held'[f] = held[f] /\ dir'[f] = dir[f]
      /\ UNCHANGED <<app, inbox, fin, rst, tr, eof, wbuf, handler>>
  BY DEF DirectionEnds, qemuVars, netVars, TypeOK
<1>2. eof[e] /\ held[e] = <<>>
  BY <1>1 DEF Sound, SoundEnd
<1>3. \A f \in ProxyEnds : SoundEnd(f)'
  BY <1>1, <1>2 DEF Sound, SoundEnd
<1>4. SoundFin' /\ \A p \in Proxies : SoundHandler(p)'
  BY <1>1, EndFacts DEF Sound, SoundFin, SoundHandler, Over
<1>5. Lossless("D")'
  BY <1>2, Names, EndsLoses DEF Sound, Loses
<1> QED
  BY <1>3, <1>4, <1>5 DEF Sound

\* A QEMU that sends has not ended its stream.
LEMMA SendSound ==
  ASSUME TypeOK, TypeOK', Linked, Stage, Within("S"), Within("D"), Sound,
         Lossless("S"), Lossless("S")', NEW b \in Apps, Send(b)
  PROVE  Sound'
PROOF
<1>1. app[b] = "open" /\ UNCHANGED <<app, tr, held, eof, wbuf, dir, handler>>
  BY DEF Send, loopVars, taskVars
<1>2. Alive(Peer(b))
  <2>1. CASE b = "S"
    <3>1. tr["cu"] # "none"
      BY <1>1, <2>1, Names DEF Linked
    <3>2. tr["cu"] \in {"open", "closing"}
      BY <1>1, <2>1, <3>1, Names, SoundFacts
    <3> QED
      BY <2>1, <3>2, Names DEF Alive
  <2>2. CASE b = "D"
    BY <2>2, Names, SendLoses DEF Loses
  <2> QED
    BY <2>1, <2>2, Names
<1>3. /\ inbox' = [inbox EXCEPT ![Peer(b)] = Append(@, count[b] + 1)]
      /\ UNCHANGED <<fin, rst>>
  BY <1>2 DEF Send, Transmit
<1>4. ~eof[Peer(b)]
  BY <1>1, Names, SoundFacts
<1>5. \A f \in ProxyEnds : SoundEnd(f)'
  BY <1>1, <1>3, <1>4, EndFacts DEF Sound, SoundEnd, TypeOK
<1>6. SoundFin' /\ \A p \in Proxies : SoundHandler(p)'
  BY <1>1, <1>3 DEF Sound, SoundFin, SoundHandler, Over
<1>7. Lossless("D")'
  BY <1>2, Names, SendLoses DEF Sound, Loses
<1> QED
  BY <1>5, <1>6, <1>7 DEF Sound

LEMMA ReceiveSound ==
  ASSUME TypeOK, TypeOK', Within("D"), Sound, NEW b \in Apps, Receive(b)
  PROVE  Sound'
PROOF
<1>1. /\ \A f \in ProxyEnds : inbox'[f] = inbox[f]
      /\ UNCHANGED <<app, fin, rst, tr, held, eof, wbuf, dir, handler>>
  <2>1. b \in Ends /\ b \notin ProxyEnds /\ ProxyEnds \subseteq Ends
    BY Names, EndFacts
  <2>2. /\ inbox' = [inbox EXCEPT ![b] = Tail(@)]
        /\ UNCHANGED <<app, fin, rst, tr, held, eof, wbuf, dir, handler>>
    BY DEF Receive, loopVars, taskVars
  <2>3. \A f \in Ends : f # b => inbox'[f] = inbox[f]
    BY <2>2 DEF TypeOK
  <2> QED
    BY <2>1, <2>2, <2>3
<1>2. \A f \in ProxyEnds : SoundEnd(f)'
  BY <1>1 DEF Sound, SoundEnd
<1>3. SoundFin' /\ \A p \in Proxies : SoundHandler(p)'
  BY <1>1 DEF Sound, SoundFin, SoundHandler, Over
<1>4. Lossless("D")'
  BY Names, ReceiveLoses DEF Sound, Loses
<1> QED
  BY <1>2, <1>3, <1>4 DEF Sound

\* Only the source closes or shuts down here, and it has read all replies.
LEMMA SourceEndsSound ==
  ASSUME TypeOK, TypeOK', Within("S"), Within("D"), Sound,
         Lossless("S"), Lossless("S")', Close("S") \/ ShutDown("S")
  PROVE  Sound'
PROOF
<1>1. Close("S") => inbox["S"] = <<>>
  BY Names, CloseLoses DEF Loses
<1>2. /\ app'["S"] \in {"shut", "closed"} /\ fin' = [fin EXCEPT !["cu"] = TRUE]
      /\ \A f \in ProxyEnds : inbox'[f] = inbox[f] /\ rst'[f] = rst[f]
      /\ UNCHANGED <<rcvd, count, tr, held, eof, wbuf, dir, handler>>
  <2>1. "S" \in Ends /\ "cu" \in Ends /\ ProxyEnds \subseteq Ends /\ "S" \notin ProxyEnds
        /\ Peer("S") = "cu"
    BY Names, EndFacts
  <2>2. CASE Close("S")
    <3>1. inbox["S"] = <<>>
      BY <1>1, <2>2
    <3>2. /\ app' = [app EXCEPT !["S"] = "closed"]
          /\ inbox' = [inbox EXCEPT !["S"] = <<>>]
          /\ rst' = [rst EXCEPT !["cu"] = @ \/ inbox["S"] # <<>>]
          /\ fin' = [fin EXCEPT !["cu"] = TRUE]
          /\ UNCHANGED <<rcvd, count, tr, held, eof, wbuf, dir, handler>>
      BY <2>1, <2>2 DEF Close, CloseSocket, loopVars, taskVars
    <3> QED
      BY <2>1, <3>1, <3>2, Names DEF TypeOK
  <2>3. CASE ShutDown("S")
    BY <2>1, <2>3, Names DEF ShutDown, loopVars, taskVars, TypeOK
  <2> QED
    BY <2>2, <2>3
<1>3. /\ \A f \in Ends : fin[f] => fin'[f]
      /\ \A f \in Ends : f # "cu" => fin'[f] = fin[f]
  BY <1>2 DEF TypeOK
<1>4. \A f \in ProxyEnds : SoundEnd(f)'
  BY <1>2, <1>3, EndFacts DEF Sound, SoundEnd
<1>5. SoundFin' /\ \A p \in Proxies : SoundHandler(p)'
  BY <1>2, <1>3, EndFacts, Names DEF Sound, SoundFin, SoundHandler, Over
<1>6. Lossless("D")'
  <2>1. CASE Close("S")
    BY <2>1, Names, CloseLoses DEF Sound, Loses
  <2>2. CASE ShutDown("S")
    BY <2>2, Names, OtherLoses DEF ShutDown, loopVars, Sound, Loses
  <2> QED
    BY <2>1, <2>2
<1> QED
  BY <1>4, <1>5, <1>6 DEF Sound

\* The handlers' steps: they move no chunk.
LEMMA HandlerMovesNothing ==
  ASSUME HandlerStep
  PROVE  UNCHANGED <<count, rcvd, seen, inbox, fin, rst, broken, held, eof, wbuf>>
PROOF
BY DEF HandlerStep, SourceConnects, ClientConnects, ClientConnectFails, ServerConnects,
   ServerGivesUp, CancelPending, CloseOutgoing, OutgoingClosed, OutgoingRaises,
   AcceptedClosed, qemuVars, netVars, loopVars

\* Of the steps that open connections, each finds them new; the two that give up
\* leave the stage.
LEMMA OpeningSound ==
  ASSUME TypeOK, TypeOK', HandlerOrder, Linked, Sound, Within("D"), Stage',
         \/ SourceConnects \/ ClientConnects \/ ClientConnectFails
         \/ ServerConnects \/ ServerGivesUp
  PROVE  Sound'
PROOF
<1>0. UNCHANGED <<count, rcvd, inbox, fin, rst, held, eof, wbuf>>
  BY HandlerMovesNothing DEF HandlerStep
<1>1. Lossless("D")'
  BY <1>0, Names, OtherLoses DEF Sound, Loses
<1>2. /\ SoundEnd("cu") /\ SoundEnd("ct") /\ SoundEnd("st") /\ SoundEnd("su")
      /\ SoundHandler("C") /\ SoundHandler("H") /\ SoundFin
  BY Names DEF Sound
<1>3. CASE SourceConnects
  <2>1. /\ app["S"] = "none" /\ app'["S"] = "open" /\ app'["D"] = app["D"]
        /\ tr["cu"] = "none" /\ tr'["cu"] = "open" /\ handler["C"] = "idle"
        /\ tr'["ct"] = tr["ct"] /\ tr'["st"] = tr["st"] /\ tr'["su"] = tr["su"]
        /\ handler'["C"] = "connecting" /\ handler'["H"] = handler["H"]
        /\ UNCHANGED dir
    BY <1>3, Names DEF SourceConnects, HandlerOrder, Linked, TypeOK
  <2>2. /\ SoundEnd("cu")' /\ SoundEnd("ct")' /\ SoundEnd("st")' /\ SoundEnd("su")'
    BY <1>0, <1>2, <2>1 DEF SoundEnd
  <2>3. SoundHandler("C")' /\ SoundHandler("H")'
    BY <1>2, <2>1, Names DEF SoundHandler, Over, Linked
  <2>4. SoundFin'
    BY <1>0, <1>2, <2>1 DEF SoundFin
  <2> QED
    BY <1>1, <2>2, <2>3, <2>4, Names DEF Sound
<1>4. CASE ClientConnects
  <2>1. /\ tr["ct"] = "none" /\ tr["st"] = "none" /\ tr["su"] = "none"
        /\ tr'["cu"] = tr["cu"] /\ tr'["ct"] = "open" /\ tr'["st"] = "open"
        /\ tr'["su"] = "none"
        /\ handler["H"] = "idle" /\ handler["C"] = "connecting"
        /\ handler'["C"] = "forwarding" /\ handler'["H"] = "connecting"
        /\ dir'["cu"] = "running" /\ dir'["ct"] = "running"
        /\ dir'["st"] = dir["st"] /\ dir'["su"] = dir["su"] /\ UNCHANGED app
    BY <1>4, Names DEF ClientConnects, StartForwarding, HandlerOrder, Linked, TypeOK, qemuVars
  <2>2. /\ SoundEnd("cu")' /\ SoundEnd("ct")' /\ SoundEnd("st")' /\ SoundEnd("su")'
    BY <1>0, <1>2, <2>1 DEF SoundEnd
  <2>3. SoundHandler("C")' /\ SoundHandler("H")'
    BY <1>2, <2>1, Names DEF SoundHandler, Over
  <2>4. SoundFin'
    BY <1>0, <1>2, <2>1 DEF SoundFin
  <2> QED
    BY <1>1, <2>2, <2>3, <2>4, Names DEF Sound
<1>5. CASE ServerConnects
  <2>1. /\ tr["su"] = "none" /\ tr'["su"] = "open"
        /\ tr'["cu"] = tr["cu"] /\ tr'["ct"] = tr["ct"] /\ tr'["st"] = tr["st"]
        /\ handler["H"] = "connecting" /\ handler'["H"] = "forwarding"
        /\ handler'["C"] = handler["C"] /\ app'["S"] = app["S"]
        /\ dir'["cu"] = dir["cu"] /\ dir'["ct"] = dir["ct"]
        /\ dir'["st"] = "running" /\ dir'["su"] = "running"
    BY <1>5, Names DEF ServerConnects, StartForwarding, Linked, TypeOK
  <2>2. /\ SoundEnd("cu")' /\ SoundEnd("ct")' /\ SoundEnd("st")' /\ SoundEnd("su")'
    BY <1>0, <1>2, <2>1 DEF SoundEnd
  <2>3. SoundHandler("C")' /\ SoundHandler("H")'
    BY <1>2, <2>1, Names DEF SoundHandler, Over
  <2>4. SoundFin'
    BY <1>0, <1>2, <2>1 DEF SoundFin
  <2> QED
    BY <1>1, <2>2, <2>3, <2>4, Names DEF Sound
<1>6. ~ClientConnectFails
  <2> SUFFICES ASSUME ClientConnectFails PROVE FALSE
    OBVIOUS
  <2>1. /\ handler["H"] = "idle" /\ UNCHANGED app
        /\ handler'["C"] = "closingIn" /\ handler'["H"] = handler["H"]
    BY Names DEF ClientConnectFails, HandlerOrder, TypeOK, qemuVars
  <2>2. app["D"] = "none"
    BY <2>1, Names DEF Linked
  <2> QED
    BY <2>1, <2>2 DEF Stage
<1>7. ~ServerGivesUp
  <2> SUFFICES ASSUME ServerGivesUp PROVE FALSE
    OBVIOUS
  <2>1. handler["H"] = "connecting" /\ UNCHANGED app /\ handler'["H"] = "closingIn"
    BY Names DEF ServerGivesUp, TypeOK, qemuVars
  <2>2. app["D"] = "none"
    BY <2>1, Names DEF Linked
  <2> QED
    BY <2>1, <2>2 DEF Stage
<1> QED
  BY <1>3, <1>4, <1>5, <1>6, <1>7

\* A handler closes when the direction towards the destination is done: the other one
\* cannot be the first to end.
LEMMA ClosingSound ==
  ASSUME TypeOK, TypeOK', Linked, Stage, Sound, Within("D"), NEW p \in Proxies,
         \/ CancelPending(p) \/ CloseOutgoing(p) \/ OutgoingClosed(p)
         \/ OutgoingRaises(p) \/ AcceptedClosed(p)
  PROVE  Sound'
PROOF
<1> DEFINE o == Outgoing(p)
           i == Accepted(p)
<1>0. UNCHANGED <<app, count, rcvd, inbox, fin, rst, held, eof, wbuf>>
  BY HandlerMovesNothing, HandlerSteps DEF HandlerStep
<1>1. /\ o \in ProxyEnds /\ i \in ProxyEnds /\ o # i
      /\ EndsOf(p) = {o, i}
      /\ SoundEnd(o) /\ SoundEnd(i) /\ SoundHandler(p)
      /\ \A q \in Proxies : q # p => Outgoing(q) \notin {o, i} /\ Accepted(q) \notin {o, i}
  BY EndFacts, Names DEF Sound
<1>2. CASE CancelPending(p)
  <2>1. /\ handler[p] = "forwarding" /\ (dir[o] = "done" \/ dir[i] = "done")
        /\ handler' = [handler EXCEPT ![p] = "cancelling"]
        /\ \A f \in ProxyEnds : dir'[f] = "done" <=> dir[f] = "done"
        /\ UNCHANGED tr
    BY <1>1, <1>2 DEF CancelPending, loopVars, TypeOK
  <2>2. dir[i] = "done"
    <3>1. dir[o] = "done" => Over(p)
      BY Names, SoundFacts
    <3> QED
      BY <2>1, <3>1 DEF Over
  <2>3. (\A f \in ProxyEnds : SoundEnd(f)') /\ SoundFin'
    BY <1>0, <2>1 DEF Sound, SoundEnd, SoundFin
  <2>4. SoundHandler(p)'
    BY <1>1, <2>1, <2>2 DEF SoundHandler, Over, TypeOK
  <2>5. ASSUME NEW q \in Proxies, q # p PROVE SoundHandler(q)'
    <3>1. SoundHandler(q) /\ Outgoing(q) \in ProxyEnds /\ Accepted(q) \in ProxyEnds
      BY EndFacts DEF Sound
    <3> HIDE DEF o, i
    <3> QED
      BY <2>1, <2>5, <3>1 DEF SoundHandler, Over, TypeOK
  <2> QED
    BY <1>0, <2>3, <2>4, <2>5, Names, OtherLoses DEF Sound, Loses
<1>6. CASE CloseOutgoing(p)
  <2>1. /\ handler[p] = "cancelling"
        /\ handler' = [handler EXCEPT ![p] = "closingOut"]
        /\ UNCHANGED dir
        /\ \A f \in ProxyEnds : f # o => tr'[f] = tr[f]
        /\ tr'[o] = IF tr[o] = "open" THEN "closing" ELSE tr[o]
    BY <1>1, <1>6 DEF CloseOutgoing, Closed, TypeOK
  <2>2. \A f \in ProxyEnds : SoundEnd(f)'
    BY <1>0, <2>1 DEF Sound, SoundEnd
  <2>3. \A f \in ProxyEnds : tr'[f] = "closed" <=> tr[f] = "closed"
    BY <2>1
  <2>4. SoundFin'
    BY <1>0, <2>3, Names DEF Sound, SoundFin
  <2>5. SoundHandler(p)'
    BY <1>1, <2>1 DEF SoundHandler, Over, TypeOK
  <2>6. ASSUME NEW q \in Proxies, q # p PROVE SoundHandler(q)'
    <3>1. SoundHandler(q) /\ Outgoing(q) \in ProxyEnds /\ Accepted(q) \in ProxyEnds
          /\ Outgoing(q) # o /\ Accepted(q) # o
      BY <1>1, <2>6, EndFacts DEF Sound
    <3> HIDE DEF o, i
    <3> QED
      BY <2>1, <2>6, <3>1 DEF SoundHandler, Over, TypeOK
  <2> QED
    BY <1>0, <2>2, <2>4, <2>5, <2>6, Names, OtherLoses DEF Sound, Loses
<1>3. CASE OutgoingClosed(p)
  <2>1. /\ handler[p] = "closingOut" /\ tr[o] = "closed"
        /\ handler' = [handler EXCEPT ![p] = "closingIn"]
        /\ UNCHANGED dir
        /\ \A f \in ProxyEnds : f # i => tr'[f] = tr[f]
        /\ tr'[i] = IF tr[i] = "open" THEN "closing" ELSE tr[i]
    BY <1>1, <1>3 DEF OutgoingClosed, Closed, TypeOK
  <2>2. \A f \in ProxyEnds : SoundEnd(f)'
    BY <1>0, <2>1 DEF Sound, SoundEnd
  <2>3. \A f \in ProxyEnds : tr'[f] = "closed" <=> tr[f] = "closed"
    BY <2>1
  <2>4. SoundFin'
    BY <1>0, <2>3, Names DEF Sound, SoundFin
  <2>5. SoundHandler(p)'
    BY <1>1, <2>1 DEF SoundHandler, Over, TypeOK
  <2>6. ASSUME NEW q \in Proxies, q # p PROVE SoundHandler(q)'
    <3>1. SoundHandler(q) /\ Outgoing(q) \in ProxyEnds /\ Accepted(q) \in ProxyEnds
          /\ Outgoing(q) # i /\ Accepted(q) # i
      BY <1>1, <2>6, EndFacts DEF Sound
    <3> HIDE DEF o, i
    <3> QED
      BY <2>1, <2>6, <3>1 DEF SoundHandler, Over, TypeOK
  <2> QED
    BY <1>0, <2>2, <2>4, <2>5, <2>6, Names, OtherLoses DEF Sound, Loses
<1>4. CASE AcceptedClosed(p)
  <2>1. /\ handler[p] = "closingIn" /\ handler'[p] \in {"ended", "raised"}
        /\ \A q \in Proxies : q # p => handler'[q] = handler[q]
        /\ UNCHANGED <<dir, tr>>
    BY <1>4 DEF AcceptedClosed, loopVars, TypeOK
  <2>2. (\A f \in ProxyEnds : SoundEnd(f)') /\ SoundFin'
    BY <1>0, <2>1 DEF Sound, SoundEnd, SoundFin
  <2>3. \A q \in Proxies : SoundHandler(q)'
    BY <2>1 DEF Sound, SoundHandler, Over
  <2> QED
    BY <1>0, <2>2, <2>3, Names, OtherLoses DEF Sound, Loses
<1>5. ~OutgoingRaises(p)
  BY <1>1 DEF OutgoingRaises, SoundEnd
<1> QED
  BY <1>2, <1>3, <1>4, <1>5, <1>6

\* No step loses track of what was sent, and what is lost stays lost.
LEMMA LossesStay ==
  ASSUME TypeOK, TypeOK', NEW a \in Apps, [Next]_vars
  PROVE  Within(a) => Within(a)' /\ (Lossless(a)' => Lossless(a))
PROOF
<1>1. ASSUME NEW b \in Apps,
             Send(b) \/ Receive(b) \/ SeeEnd(b) \/ Close(b) \/ ShutDown(b)
      PROVE  Within(a) => Within(a)' /\ (Lossless(a)' => Lossless(a))
  <2>1. CASE Send(b)
    BY <2>1, SendLoses DEF Loses
  <2>2. CASE Receive(b)
    BY <2>2, ReceiveLoses DEF Loses
  <2>3. CASE Close(b)
    BY <2>3, CloseLoses DEF Loses
  <2>4. CASE SeeEnd(b) \/ ShutDown(b)
    <3>1. UNCHANGED <<count, rcvd, inbox, held, wbuf>>
      BY <2>4 DEF SeeEnd, ShutDown, netVars, loopVars
    <3> QED
      BY <3>1, OtherLoses DEF Loses
  <2> QED
    BY <1>1, <2>1, <2>2, <2>3, <2>4
<1>2. ASSUME NEW e \in ProxyEnds,
             \/ TransportReads(e) \/ TransportSeesEof(e) \/ TransportWrites(e)
             \/ TransportFails(e) \/ TransportCloses(e)
             \/ Forward(e) \/ DirectionEnds(e) \/ DirectionCancelled(e)
      PROVE  Within(a) => Within(a)' /\ (Lossless(a)' => Lossless(a))
  <2>1. CASE TransportReads(e)
    BY <2>1, ReadsLoses DEF Loses
  <2>2. CASE TransportSeesEof(e)
    <3>1. UNCHANGED <<count, rcvd, inbox, held, wbuf>>
      BY <2>2 DEF TransportSeesEof, netVars, qemuVars
    <3> QED
      BY <3>1, OtherLoses DEF Loses
  <2>3. CASE TransportWrites(e)
    BY <2>3, WritesLoses DEF Loses
  <2>4. CASE TransportFails(e) \/ TransportCloses(e)
    BY <2>4, GoneLoses DEF Loses
  <2>5. CASE Forward(e)
    BY <2>5, ForwardLoses DEF Loses
  <2>6. CASE DirectionEnds(e)
    BY <2>6, EndsLoses DEF Loses
  <2>7. CASE DirectionCancelled(e)
    <3>1. UNCHANGED <<count, rcvd, inbox, held, wbuf>>
      BY <2>7 DEF DirectionCancelled, netVars, loopVars, qemuVars
    <3> QED
      BY <3>1, OtherLoses DEF Loses
  <2> QED
    BY <1>2, <2>1, <2>2, <2>3, <2>4, <2>5, <2>6, <2>7
<1>3. CASE DestinationListens \/ NetworkReset \/ ServerRetries \/ UNCHANGED vars
  <2>1. UNCHANGED <<count, rcvd, inbox, held, wbuf>>
    BY <1>3 DEF DestinationListens, NetworkReset, ServerRetries, vars, netVars, qemuVars,
       loopVars
  <2> QED
    BY <2>1, OtherLoses DEF Loses
<1>4. CASE HandlerStep
  BY <1>4, HandlerMovesNothing, OtherLoses DEF Loses
<1> QED
  BY <1>1, <1>2, <1>3, <1>4, StepGroups DEF QuietStep

\* The stage is left for good.
LEMMA StageBefore ==
  ASSUME HandlerInv, Linked, [Next]_vars, Stage'
  PROVE  Stage
PROOF
<1>1. CASE QuietStep
  <2>1. handler' = handler
    BY <1>1, QuietSteps DEF HandlerInv
  <2>2. app'["D"] = "open" => app["D"] = "open"
    <3>1. ASSUME NEW a \in Apps,
                 Send(a) \/ Receive(a) \/ SeeEnd(a) \/ Close(a) \/ ShutDown(a)
          PROVE  app'["D"] = "open" => app["D"] = "open"
      BY <3>1, Names DEF Send, Receive, SeeEnd, Close, ShutDown, HandlerInv, TypeOK
    <3>2. ASSUME NEW e \in ProxyEnds,
                 \/ TransportReads(e) \/ TransportSeesEof(e) \/ TransportWrites(e)
                 \/ TransportFails(e) \/ TransportCloses(e)
                 \/ Forward(e) \/ DirectionEnds(e) \/ DirectionCancelled(e)
          PROVE  app' = app
      BY <3>2 DEF TransportReads, TransportSeesEof, TransportWrites, TransportFails,
         TransportCloses, Forward, DirectionEnds, DirectionCancelled, qemuVars
    <3>3. CASE DestinationListens \/ NetworkReset \/ ServerRetries \/ UNCHANGED vars
      BY <3>3 DEF DestinationListens, NetworkReset, ServerRetries, vars, qemuVars
    <3> QED
      BY <1>1, <3>1, <3>2, <3>3 DEF QuietStep
  <2> QED
    BY <2>1, <2>2 DEF Stage
<1>2. CASE HandlerStep
  <2>1. CASE SourceConnects
    <3>1. handler["C"] = "idle" /\ handler["H"] = "idle"
      BY <2>1 DEF SourceConnects, HandlerInv, HandlerOrder
    <3> QED
      BY <3>1 DEF Stage
  <2>2. CASE ClientConnects \/ ClientConnectFails
    <3>1. handler["C"] = "connecting" /\ handler["H"] = "idle"
      BY <2>2 DEF ClientConnects, ClientConnectFails, HandlerInv, HandlerOrder
    <3> QED
      BY <3>1 DEF Stage
  <2>3. CASE ServerConnects \/ ServerGivesUp
    BY <2>3 DEF ServerConnects, ServerGivesUp, Stage
  <2>4. ASSUME NEW p \in Proxies,
               \/ CancelPending(p) \/ CloseOutgoing(p) \/ OutgoingClosed(p)
               \/ OutgoingRaises(p) \/ AcceptedClosed(p)
        PROVE  Stage
    <3>1. /\ app' = app /\ \A q \in Proxies : q # p => handler'[q] = handler[q]
          /\ handler'[p] \in {"cancelling", "closingOut", "closingIn", "ended",
                               "raised"}
      BY <2>4, HandlerSteps DEF HandlerInv
    <3> QED
      BY <3>1, Names DEF Stage
  <2> QED
    BY <1>2, <2>1, <2>2, <2>3, <2>4 DEF HandlerStep
<1> QED
  BY <1>1, <1>2, StepGroups

LEMMA UndisturbedBefore ==
  ASSUME HandlerInv, TypeOK', Linked, Within("S"), [Next]_vars, Undisturbed'
  PROVE  Undisturbed
PROOF
<1>1. Lossless("S")
  BY LossesStay, Names DEF HandlerInv, Undisturbed
<1>2. Stage
  BY StageBefore DEF Undisturbed
<1>3. broken' \/ ~broken
  <2>1. CASE HandlerStep
    BY <2>1, HandlerMovesNothing DEF HandlerInv, TypeOK
  <2>2. CASE QuietStep
    BY <2>2 DEF QuietStep, Send, Transmit, Receive, SeeEnd, Close, CloseSocket, ShutDown,
       TransportReads, TransportSeesEof, TransportWrites, TransportFails, TransportCloses,
       Forward, DirectionEnds, DirectionCancelled, DestinationListens, NetworkReset, ServerRetries, vars,
       netVars, HandlerInv, TypeOK
  <2> QED
    BY <2>1, <2>2, StepGroups
<1> QED
  BY <1>1, <1>2, <1>3 DEF Undisturbed

\* A direction that was cancelled is not done.
LEMMA CancelledSound ==
  ASSUME TypeOK, TypeOK', Linked, Stage, Within("D"), Sound, NEW e \in ProxyEnds,
         DirectionCancelled(e)
  PROVE  Sound'
PROOF
<1>1. /\ UNCHANGED <<app, count, rcvd, inbox, fin, rst, tr, held, eof, wbuf, handler>>
      /\ \A f \in ProxyEnds : dir'[f] = "done" <=> dir[f] = "done"
  BY DEF DirectionCancelled, qemuVars, netVars, loopVars, TypeOK
<1>2. \A f \in ProxyEnds : SoundEnd(f)'
  BY <1>1 DEF Sound, SoundEnd
<1>3. SoundFin' /\ \A p \in Proxies : SoundHandler(p)'
  BY <1>1, EndFacts DEF Sound, SoundFin, SoundHandler, Over
<1>4. Lossless("D")'
  BY <1>1, Names, OtherLoses DEF Sound, Loses
<1> QED
  BY <1>2, <1>3, <1>4 DEF Sound

LEMMA UnchangedSound ==
  ASSUME TypeOK, TypeOK', Within("D"), Sound,
         UNCHANGED <<app, count, rcvd, netVars, loopVars, dir, handler>>
  PROVE  Sound'
PROOF
<1>1. UNCHANGED <<app, count, rcvd, inbox, fin, rst, tr, held, eof, wbuf, dir, handler>>
  BY DEF netVars, loopVars
<1>2. Lossless("D")'
  BY <1>1, Names, OtherLoses DEF Sound, Loses
<1> QED
  BY <1>1, <1>2 DEF Sound, SoundEnd, SoundFin, SoundHandler, Over

\* Then every step keeps the tunnel sound.
LEMMA SoundStep ==
  ASSUME HandlerInv, TypeOK', Linked, Within("S"), Within("D"), [Next]_vars,
         Undisturbed, Undisturbed', Sound
  PROVE  Sound'
PROOF
<1>1. /\ TypeOK /\ HandlerOrder /\ AliveInHandler /\ OpenTillClose /\ Stage /\ Stage'
      /\ Lossless("S") /\ Lossless("S")' /\ ~broken'
  BY DEF HandlerInv, Undisturbed
<1>2. ASSUME NEW a \in Apps,
             Send(a) \/ Receive(a) \/ SeeEnd(a) \/ Close(a) \/ ShutDown(a)
      PROVE  Sound'
  <2>1. CASE Send(a)
    BY <1>1, <2>1, SendSound
  <2>2. CASE Receive(a)
    BY <1>1, <2>2, ReceiveSound
  <2>3. CASE SeeEnd(a)
    <3>1. UNCHANGED <<app, count, rcvd, netVars, loopVars, dir, handler>>
      BY <2>3 DEF SeeEnd, taskVars
    <3> QED
      BY <1>1, <3>1, UnchangedSound
  <2>4. CASE Close(a) \/ ShutDown(a)
    <3>1. a = "S"
      <4>1. SUFFICES ASSUME a = "D" PROVE FALSE
        BY Names
      <4>2. app["D"] \in {"open", "shut"} /\ app'["D"] \in {"shut", "closed"}
            /\ UNCHANGED handler
        BY <2>4, <4>1, Names DEF Close, ShutDown, taskVars, HandlerInv, TypeOK
      <4>3. handler["H"] \notin {"idle", "connecting"}
        BY <4>2, Names DEF Linked
      <4> QED
        BY <1>1, <4>2, <4>3 DEF Stage
    <3> QED
      BY <1>1, <2>4, <3>1, SourceEndsSound
  <2> QED
    BY <1>2, <2>1, <2>2, <2>3, <2>4
<1>3. ASSUME NEW e \in ProxyEnds,
             \/ TransportReads(e) \/ TransportSeesEof(e) \/ TransportWrites(e)
             \/ TransportFails(e) \/ TransportCloses(e)
             \/ Forward(e) \/ DirectionEnds(e) \/ DirectionCancelled(e)
      PROVE  Sound'
  BY <1>1, <1>3, ReadsSound, EofSound, WritesSound, GoneSound, ForwardSound, EndsSound,
     CancelledSound
<1>4. CASE DestinationListens \/ ServerRetries \/ UNCHANGED vars
  <2>1. UNCHANGED <<app, count, rcvd, netVars, loopVars, dir, handler>>
    BY <1>4 DEF DestinationListens, ServerRetries, vars, qemuVars, taskVars
  <2> QED
    BY <1>1, <2>1, UnchangedSound
<1>5. ~NetworkReset
  BY <1>1 DEF NetworkReset
<1>6. CASE HandlerStep
  BY <1>1, <1>6, OpeningSound, ClosingSound DEF HandlerStep
<1> QED
  BY <1>2, <1>3, <1>4, <1>5, <1>6, StepGroups DEF QuietStep

\* A total is at least what has been received, and no more just when nothing is on its
\* way.
LEMMA TotalFacts ==
  ASSUME TypeOK, NEW a \in Apps
  PROVE  /\ Total(a) \in Nat /\ count[a] \in Nat /\ Size(rcvd[a]) \in Nat
         /\ Size(rcvd[a]) <= Total(a)
         /\ (/\ inbox[a] = <<>> /\ wbuf[Near(a)] = <<>> /\ held[NearIn(a)] = <<>>
             /\ inbox[NearIn(a)] = <<>> /\ wbuf[FarOut(a)] = <<>>
             /\ held[Far(a)] = <<>> /\ inbox[Far(a)] = <<>>) <=> Total(a) = Size(rcvd[a])
PROOF
<1>1. \A i \in 1..8 : Places(a)[i] \in Stream
  BY PlacesType
<1>2. \A i \in {1, 2, 3, 4, 5, 6, 7, 8} : Size(Places(a)[i]) \in Nat
  <2>1. \A i \in 1..8 : Size(Places(a)[i]) \in Nat
    BY <1>1, SizeFacts
  <2> QED
    BY ONLY <2>1
<1>3. /\ Places(a)[1] = rcvd[a] /\ Places(a)[2] = inbox[a]
      /\ Places(a)[3] = wbuf[Near(a)] /\ Places(a)[4] = held[NearIn(a)]
      /\ Places(a)[5] = inbox[NearIn(a)] /\ Places(a)[6] = wbuf[FarOut(a)]
      /\ Places(a)[7] = held[Far(a)] /\ Places(a)[8] = inbox[Far(a)]
  BY PlacesFacts
<1>4. Total(a) \in Nat /\ Size(Places(a)[1]) <= Total(a)
  BY ONLY <1>2 DEF Total
<1>5. (\A i \in {2, 3, 4, 5, 6, 7, 8} : Size(Places(a)[i]) = 0)
      <=> Total(a) = Size(Places(a)[1])
  <2> DEFINE y1 == Size(Places(a)[1])
             y2 == Size(Places(a)[2])
             y3 == Size(Places(a)[3])
             y4 == Size(Places(a)[4])
             y5 == Size(Places(a)[5])
             y6 == Size(Places(a)[6])
             y7 == Size(Places(a)[7])
             y8 == Size(Places(a)[8])
  <2>1. /\ y1 \in Nat /\ y2 \in Nat /\ y3 \in Nat /\ y4 \in Nat
        /\ y5 \in Nat /\ y6 \in Nat /\ y7 \in Nat /\ y8 \in Nat
    BY ONLY <1>2
  <2>2. Total(a) = y1 + y2 + y3 + y4 + y5 + y6 + y7 + y8
    BY DEF Total
  <2>3. (\A i \in {2, 3, 4, 5, 6, 7, 8} : Size(Places(a)[i]) = 0) <=>
          y2 = 0 /\ y3 = 0 /\ y4 = 0 /\ y5 = 0 /\ y6 = 0 /\ y7 = 0 /\ y8 = 0
    OBVIOUS
  <2>4. y1 = Size(Places(a)[1])
    OBVIOUS
  <2> HIDE DEF y1, y2, y3, y4, y5, y6, y7, y8
  <2>5. y1 + y2 + y3 + y4 + y5 + y6 + y7 + y8 = y1 <=>
          y2 = 0 /\ y3 = 0 /\ y4 = 0 /\ y5 = 0 /\ y6 = 0 /\ y7 = 0 /\ y8 = 0
    BY ONLY <2>1
  <2> QED
    BY ONLY <2>2, <2>3, <2>4, <2>5
<1>6. \A i \in {2, 3, 4, 5, 6, 7, 8} : Size(Places(a)[i]) = 0 <=> Places(a)[i] = <<>>
  <2>1. \A i \in 1..8 : Size(Places(a)[i]) = 0 <=> Places(a)[i] = <<>>
    BY <1>1, SizeFacts
  <2> QED
    BY ONLY <2>1
<1>7. count[a] \in Nat /\ Size(rcvd[a]) \in Nat
  BY <1>2, <1>3, WayTypes
<1> QED
  BY ONLY <1>3, <1>4, <1>5, <1>6, <1>7

\* The destination reads end-of-stream after the last chunk.
LEMMA EndIsComplete ==
  ASSUME TypeOK, Linked, Stage, Sound, fin["D"], inbox["D"] = <<>>
  PROVE  Len(rcvd["D"]) = count["S"]
PROOF
<1>1. /\ \A e \in ProxyEnds : SoundEnd(e)
      /\ tr["su"] = "closed"
      /\ tr["ct"] = "closed" /\ inbox["st"] = <<>> /\ held["st"] = <<>>
      /\ inbox["cu"] = <<>> /\ held["cu"] = <<>>
  BY SoundFacts DEF Sound, SoundFin
<1>2. wbuf["su"] = <<>> /\ wbuf["ct"] = <<>>
  BY <1>1, EndFacts DEF SoundEnd
<1>3. Total("D") = Size(rcvd["D"])
  BY <1>1, <1>2, Names, TotalFacts
<1> QED
  BY <1>3, Names DEF Sound, Lossless, Size

LEMMA NothingLostYet ==
  ASSUME Init, NEW a \in Apps
  PROVE  Within(a) /\ Lossless(a)
PROOF
<1>1. TypeOK
  BY TypeInit
<1>2. /\ rcvd[a] = <<>> /\ inbox[a] = <<>> /\ wbuf[Near(a)] = <<>>
      /\ held[NearIn(a)] = <<>> /\ inbox[NearIn(a)] = <<>>
      /\ wbuf[FarOut(a)] = <<>> /\ held[Far(a)] = <<>> /\ inbox[Far(a)] = <<>>
  BY <1>1, WayTypes DEF Init
<1>3. \A j \in {1, 2, 3, 4, 5, 6, 7, 8} : Places(a)[j] = <<>>
  BY <1>2, PlacesFacts
<1>4. Size(<<>>) = 0
  BY SizeFacts, StreamFacts
<1>5. Total(a) = 0
  BY ONLY <1>3, <1>4 DEF Total
<1>6. count[Sender(a)] = 0
  BY WayFacts DEF Init
<1> QED
  BY <1>5, <1>6 DEF Within, Lossless

LEMMA SteadyInit == Init => Steady
PROOF
<1> SUFFICES ASSUME Init PROVE Steady
  OBVIOUS
<1>1. HandlerInv /\ Linked
  BY HandlerInit, LinkedInit
<1>2. Within("S") /\ Within("D") /\ Lossless("D")
  BY NothingLostYet, Names
<1>3. (\A e \in ProxyEnds : SoundEnd(e)) /\ SoundFin /\ \A p \in Proxies : SoundHandler(p)
  BY EndFacts, Names DEF Init, SoundEnd, SoundFin, SoundHandler, Over, Ends
<1> QED
  BY <1>1, <1>2, <1>3 DEF Steady, Sound

LEMMA SteadyStep == Steady /\ [Next]_vars => Steady'
PROOF
<1> SUFFICES ASSUME Steady, [Next]_vars PROVE Steady'
  OBVIOUS
<1>1. HandlerInv' /\ Linked'
  BY TypeStep, HandlerOrderStep, AliveStep, OpenStep, LinkedStep DEF Steady, HandlerInv
<1>2. TypeOK /\ TypeOK'
  BY <1>1 DEF Steady, HandlerInv
<1>3. Within("S")' /\ Within("D")'
  BY <1>2, Names, LossesStay DEF Steady
<1>4. ASSUME Undisturbed' PROVE Sound'
  BY <1>2, <1>4, UndisturbedBefore, SoundStep DEF Steady
<1> QED
  BY <1>1, <1>3, <1>4 DEF Steady

\* Only a QEMU that sees its stream end changes what it has seen.
LEMMA SeenSteps ==
  ASSUME [Next]_vars
  PROVE  seen' = seen \/ \E a \in Apps : SeeEnd(a)
PROOF
<1>1. \A a \in Apps : Send(a) \/ Receive(a) \/ Close(a) \/ ShutDown(a) => seen' = seen
  BY DEF Send, Receive, Close, ShutDown
<1>2. \A e \in ProxyEnds :
        (\/ TransportReads(e) \/ TransportSeesEof(e) \/ TransportWrites(e)
         \/ TransportFails(e) \/ TransportCloses(e)
         \/ Forward(e) \/ DirectionEnds(e) \/ DirectionCancelled(e)) => seen' = seen
  BY DEF TransportReads, TransportSeesEof, TransportWrites, TransportFails,
     TransportCloses, Forward, DirectionEnds, DirectionCancelled, qemuVars
<1>3. DestinationListens \/ NetworkReset \/ ServerRetries \/ UNCHANGED vars
      => seen' = seen
  BY DEF DestinationListens, NetworkReset, ServerRetries, vars, qemuVars
<1>4. HandlerStep => seen' = seen
  BY HandlerMovesNothing
<1>5. QuietStep \/ HandlerStep
  BY StepGroups
<1> QED
  BY ONLY <1>1, <1>2, <1>3, <1>4, <1>5 DEF QuietStep

\* When the destination reads end-of-stream after a truncated stream, the network has
\* failed, or the destination had shut down its sending side, or a reply was lost
\* because the source closed too early.
THEOREM TruncatesForCause == Spec => TruncationHasCause
PROOF
<1>1. Spec => []Steady
  BY SteadyInit, SteadyStep, PTL DEF Spec
<1>2. Steady /\ [Next]_vars =>
        [seen'["D"] = "eof" /\ seen["D"] = "no" /\ Truncated =>
           broken \/ app["D"] = "shut" \/ Len(rcvd["S"]) < count["D"]]_vars
  <2> SUFFICES ASSUME Steady, Next, seen'["D"] = "eof", seen["D"] = "no", Truncated,
                      ~broken, app["D"] # "shut", ~(Len(rcvd["S"]) < count["D"])
               PROVE  FALSE
    OBVIOUS
  <2>1. TypeOK
    BY DEF Steady, HandlerInv
  <2>2. SeeEnd("D")
    BY <2>1, SeenSteps, Names DEF SeeEnd, TypeOK
  <2>3. app["D"] = "open" /\ fin["D"] /\ inbox["D"] = <<>>
    BY <2>1, <2>2, Names DEF SeeEnd, TypeOK
  <2>4. Undisturbed
    <3>1. Size(rcvd["S"]) <= Total("S")
      BY <2>1, Names, TotalFacts
    <3>2. Total("S") <= count["D"] /\ Total("S") \in Nat /\ count["D"] \in Nat
          /\ Len(rcvd["S"]) \in Nat
      BY <2>1, Names, TotalFacts DEF Steady, Within, Size
    <3>3. Total("S") = count["D"]
      BY <3>1, <3>2 DEF Size
    <3> QED
      BY <2>3, <3>3, Names DEF Undisturbed, Lossless, Stage
  <2>5. Sound /\ Stage /\ Linked
    BY <2>4 DEF Steady, Undisturbed
  <2>6. Len(rcvd["D"]) = count["S"]
    BY <2>1, <2>3, <2>5, EndIsComplete
  <2> QED
    BY <2>1, <2>6, Names DEF Truncated, TypeOK
<1> QED
  BY <1>1, <1>2, PTL DEF Spec, TruncationHasCause
-----------------------------------------------------------------------------
(* An orderly migration.                                                   *)

\* The network works, no QEMU closes early and none shuts down one side only.
OrderlyRun == ~NetworkFails /\ ~EarlyClose /\ HalfClosers = {}

\* Until the destination closes no reply is lost, the source closes with all of them,
\* and is not cut off before that.
Calm ==
  /\ Lossless("S")
  /\ app["S"] = "closed" => Len(rcvd["S"]) = Replies
  /\ app["S"] # "closed" => seen["S"] = "no" /\ ~fin["S"] /\ ~rst["S"]
  /\ ~rst["D"]

\* The destination's stream ends after the source has closed, and is empty then.
Ended ==
  /\ seen["D"] # "error"
  /\ seen["D"] = "eof" => app["S"] = "closed" /\ tr["su"] = "closed" /\ inbox["D"] = <<>>

Ordered ==
  /\ Steady
  /\ ~broken
  /\ \A a \in Apps : app[a] # "shut"
  /\ count["D"] <= Replies
  /\ Ended
  /\ Stage => Calm

\* Nothing closes before the source, and by then its replies have all arrived.
LEMMA CalmFacts ==
  ASSUME Ordered, Stage
  PROVE  /\ TypeOK /\ Linked /\ Sound /\ Calm /\ Within("S")
         /\ \A e \in ProxyEnds : tr[e] \in {"closing", "closed"} => app["S"] = "closed"
         /\ Len(rcvd["S"]) = Replies =>
              /\ count["D"] = Replies
              /\ inbox["S"] = <<>> /\ wbuf["cu"] = <<>> /\ held["ct"] = <<>>
              /\ inbox["ct"] = <<>> /\ wbuf["st"] = <<>> /\ held["su"] = <<>>
              /\ inbox["su"] = <<>>
         /\ app["S"] = "closed" => Len(rcvd["S"]) = Replies
PROOF
<1>1. TypeOK /\ Linked /\ Sound /\ Calm /\ Within("S")
  BY DEF Ordered, Steady, HandlerInv, Undisturbed, Calm
<1>2. \A e \in ProxyEnds : tr[e] \in {"closing", "closed"} => app["S"] = "closed"
  BY <1>1, SoundFacts, Names DEF Ordered
<1>3. ASSUME Len(rcvd["S"]) = Replies
      PROVE  /\ count["D"] = Replies
             /\ inbox["S"] = <<>> /\ wbuf["cu"] = <<>> /\ held["ct"] = <<>>
             /\ inbox["ct"] = <<>> /\ wbuf["st"] = <<>> /\ held["su"] = <<>>
             /\ inbox["su"] = <<>>
  <2>1. Size(rcvd["S"]) <= Total("S") /\ Total("S") = count["D"] /\ count["D"] <= Replies
        /\ Total("S") \in Nat /\ count["D"] \in Nat
    BY <1>1, Names, TotalFacts DEF Calm, Lossless, Ordered
  <2>2. Total("S") = Size(rcvd["S"]) /\ count["D"] = Replies
    BY <1>3, <2>1, TunnelAssumption DEF Size
  <2> QED
    BY <1>1, <2>2, Names, TotalFacts
<1> QED
  BY <1>1, <1>2, <1>3 DEF Calm

\* Who sends is heard.
LEMMA CalmSend ==
  ASSUME Ordered, Stage, NEW b \in Apps, Send(b)
  PROVE  Alive(Peer(b))
PROOF
<1>1. app[b] = "open" /\ count[b] < Limit(b)
  BY DEF Send
<1>2. tr[Peer(b)] # "none"
  BY <1>1, CalmFacts DEF Linked
<1>3. Peer(b) \in ProxyEnds /\ Peer(b) \notin Apps
  BY Names
<1>4. tr[Peer(b)] # "closed"
  <2>1. CASE b = "S"
    BY <1>1, <1>3, <2>1, CalmFacts
  <2>2. CASE b = "D"
    <3>1. count["D"] \in Nat /\ count["D"] # Replies
      BY <1>1, <2>2, CalmFacts, Names, TunnelAssumption DEF Limit, TypeOK
    <3> QED
      BY <1>3, <3>1, CalmFacts
  <2> QED
    BY <2>1, <2>2, Names
<1> QED
  BY <1>2, <1>3, <1>4, CalmFacts, SoundFacts DEF Alive

LEMMA CalmLosesNone ==
  ASSUME Ordered, TypeOK', Stage, ~EarlyClose, [Next]_vars
  PROVE  Lossless("S")'
PROOF
<1>1. /\ TypeOK /\ Linked /\ Sound /\ Calm /\ Within("S") /\ Lossless("S")
  BY CalmFacts DEF Calm
<1>2. /\ \A e \in ProxyEnds : ~rst[e] /\ tr[e] \in {"none", "open", "closing", "closed"}
      /\ \A e \in ProxyEnds : tr[e] \in {"closing", "closed"} =>
           Len(rcvd["S"]) = Replies
  BY <1>1, SoundFacts, CalmFacts
<1>3. ASSUME NEW b \in Apps,
             Send(b) \/ Receive(b) \/ SeeEnd(b) \/ Close(b) \/ ShutDown(b)
      PROVE  Lossless("S")'
  <2>1. CASE Send(b)
    <3>1. b # "S" => Alive(Far("S"))
      BY <2>1, CalmSend, Names
    <3> QED
      BY <1>1, <2>1, <3>1, SendLoses, Names DEF Loses
  <2>2. CASE Receive(b)
    BY <1>1, <2>2, ReceiveLoses, Names DEF Loses
  <2>3. CASE Close(b)
    <3>1. b = "S" => inbox["S"] = <<>>
      <4>1. b = "S" => app["S"] # "closed" /\ MayClose("S")
        BY <2>3 DEF Close
      <4>2. b = "S" => Len(rcvd["S"]) = Replies
        BY <1>1, <4>1 DEF MayClose, Calm
      <4> QED
        BY <4>2, CalmFacts
    <3> QED
      BY <1>1, <2>3, <3>1, CloseLoses, Names DEF Loses
  <2>4. CASE SeeEnd(b) \/ ShutDown(b)
    <3>1. UNCHANGED <<count, rcvd, inbox, held, wbuf>>
      BY <2>4 DEF SeeEnd, ShutDown, netVars, loopVars
    <3> QED
      BY <1>1, <3>1, OtherLoses, Names DEF Loses
  <2> QED
    BY <1>3, <2>1, <2>2, <2>3, <2>4
<1>4. ASSUME NEW e \in ProxyEnds,
             \/ TransportReads(e) \/ TransportSeesEof(e) \/ TransportWrites(e)
             \/ TransportFails(e) \/ TransportCloses(e)
             \/ Forward(e) \/ DirectionEnds(e) \/ DirectionCancelled(e)
      PROVE  Lossless("S")'
  <2>1. CASE TransportReads(e)
    BY <1>1, <2>1, ReadsLoses, Names DEF Loses
  <2>2. CASE TransportSeesEof(e)
    <3>1. UNCHANGED <<count, rcvd, inbox, held, wbuf>>
      BY <2>2 DEF TransportSeesEof, netVars, qemuVars
    <3> QED
      BY <1>1, <3>1, OtherLoses, Names DEF Loses
  <2>3. CASE TransportWrites(e)
    <3>1. wbuf[e] # <<>> /\ tr[e] # "none" /\ tr[e] \in {"open", "closing"}
      BY <2>3, Names DEF TransportWrites, Alive
    <3>2. e \in {Near("S"), FarOut("S")} => Len(rcvd["S"]) # Replies
      BY <3>1, CalmFacts, Names
    <3>3. e = "cu" => Alive("S")
      <4>1. e = "cu" => app["S"] # "none" /\ app["S"] # "closed"
        BY <1>1, <3>1, <3>2, CalmFacts, Names DEF Linked
      <4> QED
        BY <1>1, <4>1, Names DEF Alive, TypeOK
    <3>4. e = "st" => Alive("ct")
      <4>1. e = "st" => handler["C"] \notin {"idle", "connecting"}
        BY <1>1, <3>1 DEF Linked
      <4>2. e = "st" => tr["ct"] # "none" /\ tr["ct"] # "closed"
        BY <1>1, <1>2, <3>2, <4>1, Names DEF Sound, SoundHandler
      <4> QED
        BY <1>2, <4>2, Names DEF Alive
    <3>5. e \in {Near("S"), FarOut("S")} => Alive(Peer(e))
      BY <3>3, <3>4, Names
    <3> QED
      BY <1>1, <2>3, <3>5, WritesLoses, Names DEF Loses
  <2>4. CASE TransportFails(e) \/ TransportCloses(e)
    <3>1. TransportCloses(e)
      BY <1>2, <2>4 DEF TransportFails
    <3>2. tr[e] = "closing" /\ wbuf[e] = <<>>
      BY <3>1 DEF TransportCloses
    <3>3. inbox["ct"] = <<>> /\ inbox["su"] = <<>>
      BY <1>2, <3>2, CalmFacts
    <3>4. IF e \in {NearIn("S"), Far("S")} THEN inbox[e] = <<>> ELSE wbuf[e] = <<>>
      BY <3>2, <3>3, Names
    <3> QED
      BY <1>1, <2>4, <3>4, GoneLoses, Names DEF Loses
  <2>5. CASE Forward(e)
    <3>1. dir[e] = "running" /\ Across(e) \in ProxyEnds
      BY <2>5, EndFacts DEF Forward
    <3>2. tr[Across(e)] = "open" \/ Len(rcvd["S"]) = Replies
      BY <1>1, <1>2, <3>1 DEF Linked
    <3>3. e \in {NearIn("S"), Far("S")} => held[e] = <<>> \/ tr[Across(e)] = "open"
      BY <3>2, CalmFacts, Names
    <3> QED
      BY <1>1, <2>5, <3>3, ForwardLoses, Names DEF Loses
  <2>6. CASE DirectionEnds(e)
    <3>1. held[e] = <<>>
      BY <1>2, <2>6 DEF DirectionEnds
    <3> QED
      BY <1>1, <2>6, <3>1, EndsLoses, Names DEF Loses
  <2>7. CASE DirectionCancelled(e)
    <3>1. UNCHANGED <<count, rcvd, inbox, held, wbuf>>
      BY <2>7 DEF DirectionCancelled, netVars, loopVars, qemuVars
    <3> QED
      BY <1>1, <3>1, OtherLoses, Names DEF Loses
  <2> QED
    BY <1>4, <2>1, <2>2, <2>3, <2>4, <2>5, <2>6, <2>7
<1>5. CASE DestinationListens \/ NetworkReset \/ ServerRetries \/ UNCHANGED vars
  <2>1. UNCHANGED <<count, rcvd, inbox, held, wbuf>>
    BY <1>5 DEF DestinationListens, NetworkReset, ServerRetries, vars, netVars, qemuVars,
       loopVars
  <2> QED
    BY <1>1, <2>1, OtherLoses, Names DEF Loses
<1>6. CASE HandlerStep
  BY <1>1, <1>6, HandlerMovesNothing, OtherLoses, Names DEF Loses
<1> QED
  BY <1>3, <1>4, <1>5, <1>6, StepGroups DEF QuietStep

LEMMA CalmStep ==
  ASSUME Ordered, TypeOK', Stage, Stage', OrderlyRun, [Next]_vars
  PROVE  Calm'
PROOF
<1>1. TypeOK /\ Linked /\ Calm /\ Lossless("S")'
  BY CalmFacts, CalmLosesNone DEF Calm, OrderlyRun
<1>2. ASSUME UNCHANGED <<app, rcvd, seen>>, fin'["S"] = fin["S"],
             rst'["S"] = rst["S"], rst'["D"] = rst["D"]
      PROVE  Calm'
  BY <1>1, <1>2 DEF Calm
<1>3. ASSUME NEW b \in Apps,
             Send(b) \/ Receive(b) \/ SeeEnd(b) \/ Close(b) \/ ShutDown(b)
      PROVE  Calm'
  <2>1. CASE Send(b)
    <3>1. UNCHANGED <<app, rcvd, seen, fin, rst>>
      BY <2>1, CalmSend DEF Send, Transmit
    <3> QED
      BY <1>2, <3>1
  <2>2. CASE Receive(b)
    <3>1. UNCHANGED <<app, seen, fin, rst>> /\ (b = "S" => app["S"] # "closed")
          /\ (b # "S" => rcvd'["S"] = rcvd["S"])
      BY <1>1, <2>2, Names DEF Receive, TypeOK
    <3> QED
      BY <1>1, <3>1 DEF Calm
  <2>3. CASE SeeEnd(b)
    <3>1. UNCHANGED <<app, rcvd, fin, rst>> /\ (b # "S" => seen'["S"] = seen["S"])
          /\ (b = "S" => app["S"] # "closed" /\ (fin["S"] \/ rst["S"]))
      BY <1>1, <2>3, Names DEF SeeEnd, netVars, TypeOK
    <3> QED
      BY <1>1, <3>1 DEF Calm
  <2>4. CASE Close(b)
    <3>1. b = "S"
      <4>1. SUFFICES ASSUME b = "D" PROVE FALSE
        BY Names
      <4>2. app["D"] \in {"open", "shut"} /\ app'["D"] = "closed" /\ UNCHANGED handler
        BY <1>1, <2>4, <4>1, Names DEF Close, taskVars, TypeOK
      <4>3. handler["H"] \notin {"idle", "connecting"}
        BY <1>1, <4>2, Names DEF Linked
      <4> QED
        BY <4>2, <4>3 DEF Stage
    <3>2. /\ app["S"] # "closed" /\ app' = [app EXCEPT !["S"] = "closed"]
          /\ rst' = [rst EXCEPT !["cu"] = @ \/ inbox["S"] # <<>>]
          /\ MayClose("S") /\ UNCHANGED rcvd
      BY <2>4, <3>1, Names DEF Close, CloseSocket
    <3>3. Len(rcvd["S"]) = Replies
      BY <1>1, <3>2 DEF MayClose, Calm, OrderlyRun
    <3>4. app'["S"] = "closed" /\ rst'["D"] = rst["D"]
      BY <1>1, <3>2, Names DEF TypeOK
    <3> QED
      BY <1>1, <3>2, <3>3, <3>4 DEF Calm
  <2>5. ~ShutDown(b)
    BY DEF ShutDown, OrderlyRun
  <2> QED
    BY <1>3, <2>1, <2>2, <2>3, <2>4, <2>5
<1>4. ASSUME NEW e \in ProxyEnds,
             \/ TransportReads(e) \/ TransportSeesEof(e) \/ TransportWrites(e)
             \/ TransportFails(e) \/ TransportCloses(e)
             \/ Forward(e) \/ DirectionEnds(e) \/ DirectionCancelled(e)
      PROVE  Calm'
  <2>1. CASE \/ TransportReads(e) \/ TransportSeesEof(e)
             \/ Forward(e) \/ DirectionEnds(e) \/ DirectionCancelled(e)
    <3>1. UNCHANGED <<app, rcvd, seen, fin, rst>>
      BY <2>1 DEF TransportReads, TransportSeesEof, Forward, DirectionEnds,
         DirectionCancelled, qemuVars, netVars
    <3> QED
      BY <1>2, <3>1
  <2>2. CASE TransportWrites(e)
    <3>1. UNCHANGED <<app, rcvd, seen, fin>> /\ (rst' = rst \/ rst' = [rst EXCEPT ![e] = TRUE])
      BY <2>2 DEF TransportWrites, Transmit, qemuVars
    <3>2. rst'["S"] = rst["S"] /\ rst'["D"] = rst["D"]
      <4>1. e # "S" /\ e # "D" /\ "S" \in Ends /\ "D" \in Ends
        BY Names, EndFacts
      <4> QED
        BY <1>1, <3>1, <4>1 DEF TypeOK
    <3> QED
      BY <1>2, <3>1, <3>2
  <2>3. CASE TransportFails(e) \/ TransportCloses(e)
    <3>1. TransportCloses(e)
      BY <1>1, <2>3, SoundFacts, CalmFacts DEF TransportFails
    <3>2. /\ tr[e] = "closing" /\ UNCHANGED <<app, rcvd, seen>>
          /\ rst' = [rst EXCEPT ![Peer(e)] = @ \/ inbox[e] # <<>>]
      BY <3>1 DEF TransportCloses, CloseSocket, qemuVars
    <3>3. app["S"] = "closed" /\ inbox["su"] = <<>>
      BY <3>2, CalmFacts
    <3>4. rst'["D"] = rst["D"]
      <4>1. e \in {"cu", "ct", "st"} => Peer(e) # "D"
        BY Names
      <4>2. e = "su" => Peer(e) = "D" /\ inbox[e] = <<>>
        BY <3>3, Names
      <4> QED
        BY <1>1, <3>2, <4>1, <4>2, Names, EndFacts DEF TypeOK
    <3> QED
      BY <1>1, <3>2, <3>3, <3>4 DEF Calm
  <2> QED
    BY <1>4, <2>1, <2>2, <2>3
<1>5. CASE DestinationListens \/ ServerRetries \/ UNCHANGED vars
  <2>1. UNCHANGED <<app, rcvd, seen, fin, rst>>
    BY <1>5 DEF DestinationListens, ServerRetries, vars, netVars, qemuVars
  <2> QED
    BY <1>2, <2>1
<1>6. ~NetworkReset
  BY DEF NetworkReset, OrderlyRun
<1>7. CASE HandlerStep
  <2>1. UNCHANGED <<rcvd, seen, fin, rst>>
    BY <1>7, HandlerMovesNothing
  <2>2. app'["S"] = app["S"] \/ (app["S"] # "closed" /\ app'["S"] # "closed")
    <3>1. SourceConnects => app["S"] # "closed" /\ app'["S"] # "closed"
      BY <1>1, Names DEF SourceConnects, TypeOK
    <3>2. ClientConnects \/ ClientConnectFails \/ ServerConnects \/ ServerGivesUp
          => app'["S"] = app["S"]
      BY <1>1, Names DEF ClientConnects, ClientConnectFails, ServerConnects, ServerGivesUp,
         qemuVars, TypeOK
    <3>3. \A p \in Proxies : CancelPending(p) \/ CloseOutgoing(p) \/ OutgoingClosed(p)
                             \/ OutgoingRaises(p) \/ AcceptedClosed(p) => app' = app
      BY <1>1, HandlerSteps
    <3> QED
      BY <1>7, <3>1, <3>2, <3>3 DEF HandlerStep
  <2> QED
    BY <1>1, <2>1, <2>2 DEF Calm
<1> QED
  BY <1>3, <1>4, <1>5, <1>6, <1>7, StepGroups DEF QuietStep

\* What closed stays closed.
LEMMA ClosedStays ==
  ASSUME TypeOK, Linked, [Next]_vars
  PROVE  /\ app["S"] = "closed" => app'["S"] = "closed"
         /\ tr["su"] = "closed" => tr'["su"] = "closed"
PROOF
<1>1. ASSUME NEW b \in Apps,
             Send(b) \/ Receive(b) \/ SeeEnd(b) \/ Close(b) \/ ShutDown(b)
      PROVE  UNCHANGED tr /\ (app["S"] = "closed" => app'["S"] = "closed")
  BY <1>1, Names DEF Send, Receive, SeeEnd, Close, ShutDown, loopVars, TypeOK
<1>2. ASSUME NEW e \in ProxyEnds,
             \/ TransportReads(e) \/ TransportSeesEof(e) \/ TransportWrites(e)
             \/ TransportFails(e) \/ TransportCloses(e)
             \/ Forward(e) \/ DirectionEnds(e) \/ DirectionCancelled(e)
      PROVE  UNCHANGED app /\ (tr["su"] = "closed" => tr'["su"] = "closed")
  <2>1. e \notin Apps
    BY <1>2, Names
  <2> QED
    BY <1>2, <2>1, EndFacts DEF TransportReads, TransportSeesEof, TransportWrites,
       TransportFails, TransportCloses, Forward, DirectionEnds, DirectionCancelled, Alive,
       qemuVars, netVars, loopVars, TypeOK
<1>3. DestinationListens \/ NetworkReset \/ ServerRetries \/ UNCHANGED vars
      => UNCHANGED <<app, tr>>
  BY DEF DestinationListens, NetworkReset, ServerRetries, vars, qemuVars, loopVars
<1>4. CASE HandlerStep
  <2>1. SourceConnects => tr'["su"] = tr["su"] /\ app["S"] = "none"
    BY Names DEF SourceConnects, TypeOK
  <2>2. ClientConnects \/ ClientConnectFails \/ ServerGivesUp
        => tr'["su"] = tr["su"] /\ UNCHANGED app
    BY Names DEF ClientConnects, ClientConnectFails, ServerGivesUp, Closed, qemuVars, TypeOK
  <2>3. ASSUME NEW p \in Proxies,
               \/ CancelPending(p) \/ CloseOutgoing(p) \/ OutgoingClosed(p)
               \/ OutgoingRaises(p) \/ AcceptedClosed(p)
        PROVE  UNCHANGED app /\ (tr["su"] = "closed" => tr'["su"] = "closed")
    <3>1. Outgoing(p) \in ProxyEnds /\ Accepted(p) \in ProxyEnds /\ "su" \in ProxyEnds
      BY EndFacts
    <3>2. app' = app
      BY <2>3, HandlerSteps
    <3> QED
      BY <2>3, <3>1, <3>2 DEF CancelPending, CloseOutgoing, OutgoingClosed, OutgoingRaises, AcceptedClosed,
         Closed, loopVars, TypeOK
  <2>4. ServerConnects => tr["su"] = "none" /\ app'["S"] = app["S"]
    BY Names DEF ServerConnects, Linked, TypeOK
  <2> QED
    BY <1>4, <2>1, <2>2, <2>3, <2>4 DEF HandlerStep
<1> QED
  BY <1>1, <1>2, <1>3, <1>4, StepGroups DEF QuietStep

\* What arrives for the destination comes from the server proxy's connection to it.
LEMMA InboxStays ==
  ASSUME TypeOK, [Next]_vars, tr["su"] = "closed", inbox["D"] = <<>>
  PROVE  inbox'["D"] = <<>>
PROOF
<1>1. ASSUME NEW b \in Apps,
             Send(b) \/ Receive(b) \/ SeeEnd(b) \/ Close(b) \/ ShutDown(b)
      PROVE  inbox'["D"] = <<>>
  <2>1. b \in Ends /\ Peer(b) \in Ends /\ Peer(b) # "D" /\ "D" \in Ends
    BY <1>1, Names, EndFacts
  <2> QED
    BY <1>1, <2>1 DEF Send, Transmit, Receive, SeeEnd, Close, CloseSocket, ShutDown,
       netVars, TypeOK
<1>2. ASSUME NEW e \in ProxyEnds,
             \/ TransportReads(e) \/ TransportSeesEof(e) \/ TransportWrites(e)
             \/ TransportFails(e) \/ TransportCloses(e)
             \/ Forward(e) \/ DirectionEnds(e) \/ DirectionCancelled(e)
      PROVE  inbox'["D"] = <<>>
  <2>1. e \in Ends /\ e # "D" /\ "D" \in Ends
    BY <1>2, Names, EndFacts
  <2>2. CASE TransportWrites(e)
    <3>1. Peer(e) \in Ends /\ Peer(e) # "D"
      <4>1. e # "su"
        BY <2>2, Names DEF TransportWrites, Alive
      <4> QED
        BY <2>1, <4>1, Names, EndFacts
    <3> QED
      BY <2>1, <2>2, <3>1 DEF TransportWrites, Transmit, TypeOK
  <2>3. CASE \/ TransportReads(e) \/ TransportSeesEof(e) \/ TransportFails(e)
             \/ TransportCloses(e) \/ Forward(e) \/ DirectionEnds(e) \/ DirectionCancelled(e)
    BY <2>1, <2>3 DEF TransportReads, TransportSeesEof, TransportFails, TransportCloses,
       CloseSocket, Forward, DirectionEnds, DirectionCancelled, netVars, TypeOK
  <2> QED
    BY <1>2, <2>2, <2>3
<1>3. DestinationListens \/ NetworkReset \/ ServerRetries \/ UNCHANGED vars
      => UNCHANGED inbox
  BY DEF DestinationListens, NetworkReset, ServerRetries, vars, netVars
<1>4. HandlerStep => UNCHANGED inbox
  BY HandlerMovesNothing
<1> QED
  BY <1>1, <1>2, <1>3, <1>4, StepGroups DEF QuietStep

LEMMA EndedStep ==
  ASSUME Ordered, [Next]_vars
  PROVE  Ended'
PROOF
<1>1. TypeOK /\ Linked
  BY DEF Ordered, Steady, HandlerInv
<1>2. CASE seen'["D"] = seen["D"]
  BY <1>1, <1>2, ClosedStays, InboxStays DEF Ordered, Ended
<1>3. CASE seen'["D"] # seen["D"]
  <2>1. SeeEnd("D")
    BY <1>1, <1>3, SeenSteps, Names DEF SeeEnd, TypeOK
  <2>2. /\ app["D"] = "open" /\ UNCHANGED <<app, inbox, tr>>
        /\ \/ rst["D"] /\ seen'["D"] = "error"
           \/ fin["D"] /\ inbox["D"] = <<>> /\ seen'["D"] = "eof"
    BY <1>1, <2>1, Names DEF SeeEnd, netVars, loopVars, TypeOK, Ordered
  <2>3. Stage
    BY <2>2 DEF Stage
  <2>4. ~rst["D"] /\ (fin["D"] => tr["su"] = "closed")
    BY <2>3, CalmFacts DEF Calm, Sound, SoundFin
  <2>5. tr["su"] = "closed" => app["S"] = "closed"
    BY <2>3, CalmFacts, Names
  <2> QED
    BY <2>2, <2>4, <2>5 DEF Ended
<1> QED
  BY <1>2, <1>3

LEMMA OrderedInit == Init => Ordered
PROOF
<1> SUFFICES ASSUME Init PROVE Ordered
  OBVIOUS
<1>1. Steady /\ ~broken /\ Lossless("S") /\ count["D"] = 0 /\ Ended
  BY SteadyInit, NothingLostYet, Names DEF Init, Ended
<1>2. (\A a \in Apps : app[a] = "none") /\ Calm
  BY <1>1, Names, EndFacts DEF Init, Calm
<1> QED
  BY <1>1, <1>2, TunnelAssumption DEF Ordered

LEMMA OrderedStep ==
  ASSUME OrderlyRun, Ordered, [Next]_vars
  PROVE  Ordered'
PROOF
<1>1. Steady' /\ TypeOK /\ TypeOK' /\ HandlerInv /\ Linked
  BY SteadyStep DEF Ordered, Steady, HandlerInv
<1>2. Ended'
  BY EndedStep
<1>3. ASSUME Stage' PROVE Calm'
  BY <1>1, <1>3, StageBefore, CalmStep
<1>4. ~broken' /\ (\A a \in Apps : app'[a] # "shut") /\ count'["D"] <= Replies
  <2>1. ASSUME NEW b \in Apps,
               Send(b) \/ Receive(b) \/ SeeEnd(b) \/ Close(b) \/ ShutDown(b)
        PROVE  /\ ~broken' /\ count'["D"] <= Replies
               /\ \A a \in Apps : app'[a] # "shut"
    <3>1. ~ShutDown(b)
      BY DEF ShutDown, OrderlyRun
    <3>2. UNCHANGED broken
      BY <2>1, <3>1 DEF Send, Transmit, Receive, SeeEnd, Close, CloseSocket, netVars
    <3>3. \A a \in Apps : app'[a] # "shut"
      BY <1>1, <2>1, <3>1 DEF Send, Receive, SeeEnd, Close, Ordered, TypeOK
    <3>4. count'["D"] <= Replies
      <4>1. CASE Send(b) /\ b = "D"
        <5>1. count["D"] \in Nat /\ count["D"] < Replies /\ count'["D"] = count["D"] + 1
          BY <1>1, <4>1, Names DEF Send, Limit, TypeOK
        <5> QED
          BY ONLY <5>1, TunnelAssumption
      <4>2. CASE ~(Send(b) /\ b = "D")
        <5>1. count'["D"] = count["D"]
          BY <1>1, <2>1, <3>1, <4>2, Names DEF Send, Receive, SeeEnd, Close, TypeOK
        <5> QED
          BY <5>1 DEF Ordered
      <4> QED
        BY <4>1, <4>2
    <3> QED
      BY <3>2, <3>3, <3>4 DEF Ordered
  <2>2. ASSUME NEW e \in ProxyEnds,
               \/ TransportReads(e) \/ TransportSeesEof(e) \/ TransportWrites(e)
               \/ TransportFails(e) \/ TransportCloses(e)
               \/ Forward(e) \/ DirectionEnds(e) \/ DirectionCancelled(e)
        PROVE  UNCHANGED <<broken, app, count>>
    BY <2>2 DEF TransportReads, TransportSeesEof, TransportWrites, Transmit, TransportFails,
       TransportCloses, CloseSocket, Forward, DirectionEnds, DirectionCancelled, qemuVars,
       netVars
  <2>3. DestinationListens \/ ServerRetries \/ UNCHANGED vars
        => UNCHANGED <<broken, app, count>>
    BY DEF DestinationListens, ServerRetries, vars, qemuVars, netVars
  <2>4. ~NetworkReset
    BY DEF NetworkReset, OrderlyRun
  <2>5. CASE HandlerStep
    <3>1. UNCHANGED <<broken, count>>
      BY <2>5, HandlerMovesNothing
    <3>2. SourceConnects \/ ServerConnects => \A a \in Apps : app'[a] \in {app[a], "open"}
      BY <1>1 DEF SourceConnects, ServerConnects, TypeOK
    <3>3. ClientConnects \/ ClientConnectFails \/ ServerGivesUp => app' = app
      BY DEF ClientConnects, ClientConnectFails, ServerGivesUp, qemuVars
    <3>4. \A p \in Proxies : CancelPending(p) \/ CloseOutgoing(p) \/ OutgoingClosed(p)
                             \/ OutgoingRaises(p) \/ AcceptedClosed(p) => app' = app
      BY <1>1, HandlerSteps
    <3> QED
      BY <2>5, <3>1, <3>2, <3>3, <3>4 DEF HandlerStep, Ordered
  <2>6. CASE QuietStep
    BY <2>1, <2>2, <2>3, <2>4, <2>6 DEF QuietStep, Ordered
  <2> QED
    BY <2>5, <2>6, StepGroups
<1> QED
  BY <1>1, <1>2, <1>3, <1>4 DEF Ordered
-----------------------------------------------------------------------------
(* The tunnel as a FIFO.                                                   *)

LEMMA NumbersFacts ==
  ASSUME NEW n \in Nat
  PROVE  /\ Len(Numbers(n)) = n
         /\ Numbers(n + 1) = Append(Numbers(n), n + 1)
         /\ \A m \in 0..n : Numbers(m) = SubSeq(Numbers(n), 1, m)
PROOF
<1>1. Numbers(n) \in Seq(Nat) /\ Len(Numbers(n)) = n
  BY DEF Numbers
<1>2. Numbers(n + 1) = Append(Numbers(n), n + 1)
  <2>1. Numbers(n + 1) \in Seq(Nat) /\ Len(Numbers(n + 1)) = n + 1
    BY DEF Numbers
  <2>2. Append(Numbers(n), n + 1) \in Seq(Nat) /\ Len(Append(Numbers(n), n + 1)) = n + 1
    BY <1>1
  <2>3. \A i \in 1..n + 1 : Numbers(n + 1)[i] = Append(Numbers(n), n + 1)[i]
    BY <1>1 DEF Numbers
  <2> QED
    BY <2>1, <2>2, <2>3, SeqEqual
<1>3. ASSUME NEW m \in 0..n PROVE Numbers(m) = SubSeq(Numbers(n), 1, m)
  <2>1. Numbers(m) \in Seq(Nat) /\ Len(Numbers(m)) = m
    BY DEF Numbers
  <2>2. /\ SubSeq(Numbers(n), 1, m) \in Seq(Nat) /\ Len(SubSeq(Numbers(n), 1, m)) = m
        /\ \A i \in 1..m : SubSeq(Numbers(n), 1, m)[i] = Numbers(n)[i]
    BY <1>1, SubSeqProperties
  <2>3. \A i \in 1..m : Numbers(m)[i] = SubSeq(Numbers(n), 1, m)[i]
    BY <2>2 DEF Numbers
  <2> QED
    BY <2>1, <2>2, <2>3, SeqEqual
<1> QED
  BY <1>1, <1>2, <1>3

\* Only the QEMUs count what they send and receive.
LEMMA CountSteps ==
  ASSUME [Next]_vars
  PROVE  /\ count' = count \/ \E a \in Apps : Send(a)
         /\ rcvd' = rcvd \/ \E a \in Apps : Receive(a)
PROOF
<1>1. \A a \in Apps : SeeEnd(a) \/ Close(a) \/ ShutDown(a) => UNCHANGED <<count, rcvd>>
  BY DEF SeeEnd, Close, ShutDown
<1>2. \A e \in ProxyEnds :
        (\/ TransportReads(e) \/ TransportSeesEof(e) \/ TransportWrites(e)
         \/ TransportFails(e) \/ TransportCloses(e)
         \/ Forward(e) \/ DirectionEnds(e) \/ DirectionCancelled(e)) => UNCHANGED <<count, rcvd>>
  BY DEF TransportReads, TransportSeesEof, TransportWrites, TransportFails,
     TransportCloses, Forward, DirectionEnds, DirectionCancelled, qemuVars
<1>3. DestinationListens \/ NetworkReset \/ ServerRetries \/ UNCHANGED vars
      => UNCHANGED <<count, rcvd>>
  BY DEF DestinationListens, NetworkReset, ServerRetries, vars, qemuVars
<1>4. HandlerStep => UNCHANGED <<count, rcvd>>
  BY HandlerMovesNothing
<1>5. QuietStep \/ HandlerStep
  BY StepGroups
<1>6. \A a \in Apps : (Send(a) => UNCHANGED rcvd) /\ (Receive(a) => UNCHANGED count)
  BY DEF Send, Receive
<1> QED
  BY ONLY <1>1, <1>2, <1>3, <1>4, <1>5, <1>6 DEF QuietStep

LEMMA FifoStarts == Init => Fifo!Init
PROOF
<1>1. Numbers(0) = <<>>
  BY DEF Numbers
<1> QED
  BY <1>1, Names DEF Init, Fifo!Init

\* Sending is accepting, receiving is delivering, and the end of the stream finishes.
LEMMA FifoSteps ==
  ASSUME Ordered, Ordered', PrefixDelivered, PrefixDelivered', [Next]_vars
  PROVE  [Fifo!Next]_(Fifo!vars)
PROOF
<1>1. TypeOK /\ TypeOK'
  BY DEF Ordered, Steady, HandlerInv
<1>2. CASE Send("S")
  <2>1. app["S"] # "closed" /\ UNCHANGED <<rcvd, seen>>
        /\ count["S"] \in Nat /\ count'["S"] = count["S"] + 1
    BY <1>1, <1>2, Names DEF Send, TypeOK
  <2>2. Numbers(count'["S"]) = Append(Numbers(count["S"]), Len(Numbers(count["S"])) + 1)
    BY <2>1, NumbersFacts
  <2>3. seen["D"] # "eof"
    BY <2>1 DEF Ordered, Ended
  <2> QED
    BY <2>1, <2>2, <2>3 DEF Fifo!Next, Fifo!Accept
<1>3. CASE Receive("D")
  <2>1. inbox["D"] # <<>> /\ UNCHANGED <<count, seen>>
        /\ rcvd'["D"] = Append(rcvd["D"], Head(inbox["D"]))
    BY <1>1, <1>3, Names DEF Receive, TypeOK
  <2>2. seen["D"] = "no"
    BY <1>1, <2>1, Names DEF Ordered, Ended, TypeOK
  <2>3. Len(rcvd'["D"]) = Len(rcvd["D"]) + 1 /\ Len(rcvd["D"]) \in Nat
    <3>1. rcvd["D"] \in Stream /\ Head(inbox["D"]) \in Nat
      BY <1>1, <2>1, Names, EndFacts, StreamFacts DEF TypeOK
    <3> QED
      BY ONLY <2>1, <3>1, AppendProperties, LenProperties DEF Stream
  <2>4. count["S"] \in Nat /\ Len(rcvd'["D"]) <= count["S"]
        /\ rcvd'["D"] = Numbers(Len(rcvd'["D"]))
    BY <1>1, <2>1, Names DEF PrefixDelivered, TypeOK
  <2>5. /\ Len(Numbers(count["S"])) = count["S"]
        /\ Len(rcvd'["D"]) \in Len(rcvd["D"]) .. count["S"]
        /\ rcvd'["D"] = SubSeq(Numbers(count["S"]), 1, Len(rcvd'["D"]))
    <3>1. Len(rcvd'["D"]) \in 0..count["S"] /\ Len(rcvd'["D"]) \in Len(rcvd["D"])..count["S"]
      BY ONLY <2>3, <2>4
    <3> QED
      BY <2>4, <3>1, NumbersFacts
  <2> QED
    BY <2>1, <2>2, <2>5 DEF Fifo!Next, Fifo!Deliver
<1>4. CASE SeeEnd("D")
  <2>1. UNCHANGED <<count, rcvd>> /\ seen["D"] = "no" /\ seen'["D"] = "eof"
        /\ app["D"] = "open" /\ fin["D"] /\ inbox["D"] = <<>>
    BY <1>1, <1>4, Names DEF SeeEnd, TypeOK, Ordered, Ended
  <2>2. Stage
    BY <2>1 DEF Stage
  <2>3. Len(rcvd["D"]) = count["S"]
    BY <2>1, <2>2, CalmFacts, EndIsComplete
  <2>4. rcvd["D"] = Numbers(count["S"])
    BY <2>3, Names DEF PrefixDelivered
  <2> QED
    BY <2>1, <2>4 DEF Fifo!Next, Fifo!Finish
<1>5. CASE UNCHANGED <<count["S"], rcvd["D"], seen["D"]>>
  BY <1>5 DEF Fifo!vars
<1>6. ~Send("S") => count'["S"] = count["S"]
  BY <1>1, CountSteps, Names DEF Send, TypeOK
<1>7. ~Receive("D") => rcvd'["D"] = rcvd["D"]
  BY <1>1, CountSteps, Names DEF Receive, TypeOK
<1>8. ~SeeEnd("D") => seen'["D"] = seen["D"]
  BY <1>1, SeenSteps, Names DEF SeeEnd, TypeOK
<1> QED
  BY <1>2, <1>3, <1>4, <1>5, <1>6, <1>7, <1>8

\* In an orderly migration the tunnel is a lossless FIFO from the source QEMU to the
\* destination QEMU, and an end-of-stream tells that all has arrived.
THEOREM Refinement ==
  ASSUME ~NetworkFails, ~EarlyClose, HalfClosers = {}
  PROVE  Spec => TunnelIsFifo
PROOF
<1>1. OrderlyRun
  BY DEF OrderlyRun
<1>2. Ordered /\ [Next]_vars => Ordered'
  BY <1>1, OrderedStep
<1>3. Spec => []Ordered
  BY <1>2, OrderedInit, PTL DEF Spec
<1>4. Init => Fifo!Init
  BY FifoStarts
<1>5. Ordered /\ Ordered' /\ PrefixDelivered /\ PrefixDelivered' /\ [Next]_vars
      => [Fifo!Next]_(Fifo!vars)
  BY FifoSteps
<1> QED
  BY <1>3, <1>4, <1>5, Delivers, PTL DEF Spec, TunnelIsFifo, Fifo!Spec
=============================================================================
