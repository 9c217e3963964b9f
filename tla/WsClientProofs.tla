--------------------------- MODULE WsClientProofs ---------------------------
(***************************************************************************)
(* What is proved of WsClient for any number of connections.               *)
(***************************************************************************)
EXTENDS WsClient, TLAPS

\* The WebSocket exists from the moment the handler has connected.
Opened ==
  \A c \in Conns :
    /\ handler[c] = "idle" => unix[c] = "none"
    /\ handler[c] \in {"idle", "connecting"} => ws[c] = "none" /\ c \notin active
    /\ c \in active => ws[c] # "none"

\* Both callers of cleanup_connection come to its last step only with a
\* closed WebSocket; what the loop has in hand it does not list any more.
CleanupOrder ==
  /\ \A c \in Conns : handler[c] = "closingUnix" => ws[c] = "closed"
  /\ main = "closingUnix" => \A c \in current : ws[c] = "closed"
  /\ current \cap todo = {}

IInv == TypeOK /\ Opened /\ CleanupOrder /\ ClosedBeforeForgotten

WsStates == {"none", "open", "closing", "closed"}

LEMMA InitInv == Init => IInv
PROOF
BY DEF Init, IInv, TypeOK, Opened, CleanupOrder, ClosedBeforeForgotten

\* close() of a WebSocket only moves it forward.
LEMMA ClosingWs ==
  ASSUME TypeOK, NEW c \in Conns
  PROVE  /\ Closing(ws, c) \in [Conns -> WsStates]
         /\ \A d \in Conns : /\ Closing(ws, c)[d] = "none" <=> ws[d] = "none"
                             /\ ws[d] = "closed" => Closing(ws, c)[d] = "closed"
                             /\ d # c => Closing(ws, c)[d] = ws[d]
PROOF
BY DEF TypeOK, Closing, WsStates

\* The loop's next step, after active has become entries.
LEMMA NextKeyInv ==
  ASSUME TypeOK, NEW keys \in SUBSET Conns, NextKey(keys)
  PROVE  /\ ws' \in [Conns -> WsStates]
         /\ \A d \in Conns : /\ ws'[d] = "none" <=> ws[d] = "none"
                             /\ ws[d] = "closed" => ws'[d] = "closed"
                             /\ d \notin keys => ws'[d] = ws[d]
         /\ main' \in {"closingWs", "ended"}
         /\ todo' \subseteq keys
         /\ current' \in {{}} \cup {{c} : c \in Conns}
         /\ current' \cap todo' = {}
         /\ pending' \subseteq Conns
         /\ path' \in BOOLEAN
PROOF
<1>1. CASE keys = {} /\ path' = FALSE /\ main' = "ended"
           /\ pending' = CancelRest /\ todo' = {} /\ current' = {}
           /\ UNCHANGED ws
  BY <1>1 DEF TypeOK, CancelRest, WsStates
<1>2. ASSUME NEW c \in keys, ws' = Closing(ws, c), main' = "closingWs",
             current' = {c}, todo' = keys \ {c}, UNCHANGED <<path, pending>>
      PROVE  /\ ws' \in [Conns -> WsStates]
             /\ \A d \in Conns : /\ ws'[d] = "none" <=> ws[d] = "none"
                                 /\ ws[d] = "closed" => ws'[d] = "closed"
                                 /\ d \notin keys => ws'[d] = ws[d]
             /\ main' \in {"closingWs", "ended"}
             /\ todo' \subseteq keys
             /\ current' \in {{}} \cup {{x} : x \in Conns}
             /\ current' \cap todo' = {}
             /\ pending' \subseteq Conns
             /\ path' \in BOOLEAN
  <2>1. c \in Conns
    OBVIOUS
  <2>2. \A d \in Conns : d \notin keys => d # c
    OBVIOUS
  <2> QED
    BY <1>2, <2>1, <2>2, ClosingWs DEF TypeOK
<1> QED
  BY <1>1, <1>2 DEF NextKey

LEMMA OutsideStep ==
  ASSUME IInv, NEW c \in Conns,
         \/ QemuConnects(c) \/ QemuCloses(c) \/ WsFails(c) \/ WsCloses(c)
         \/ UnixFails(c) \/ UnixCloses(c) \/ Blocks(c) \/ GoesOn(c)
  PROVE  IInv'
PROOF
<1> USE DEF IInv, TypeOK, Opened, CleanupOrder, ClosedBeforeForgotten
<1>1. CASE QemuConnects(c)
  BY <1>1 DEF QemuConnects
<1>2. CASE QemuCloses(c)
  BY <1>2 DEF QemuCloses
<1>3. CASE WsFails(c)
  BY <1>3 DEF WsFails
<1>4. CASE WsCloses(c)
  BY <1>4 DEF WsCloses
<1>5. CASE UnixFails(c)
  BY <1>5 DEF UnixFails
<1>6. CASE UnixCloses(c)
  BY <1>6 DEF UnixCloses
<1>7. CASE Blocks(c)
  BY <1>7 DEF Blocks
<1>8. CASE GoesOn(c)
  BY <1>8 DEF GoesOn
<1> QED
  BY <1>1, <1>2, <1>3, <1>4, <1>5, <1>6, <1>7, <1>8

\* The test for the entry, for a handler that was forwarding.
LEMMA EnterStep ==
  ASSUME IInv, NEW c \in Conns, handler[c] = "forwarding", EnterCleanup(c),
         pending' \subseteq Conns
  PROVE  IInv'
PROOF
<1> USE DEF IInv, Opened, CleanupOrder, ClosedBeforeForgotten
<1>1. /\ ws' \in [Conns -> WsStates]
      /\ \A d \in Conns : /\ ws'[d] = "none" <=> ws[d] = "none"
                          /\ ws[d] = "closed" => ws'[d] = "closed"
                          /\ d \notin active => ws'[d] = ws[d]
  BY ClosingWs DEF EnterCleanup, TypeOK, WsStates
<1>2. TypeOK'
  BY <1>1 DEF EnterCleanup, TypeOK, WsStates
<1>3. /\ \A d \in Conns : d # c => handler'[d] = handler[d]
      /\ handler'[c] \in {"closingWs", "ended"}
  BY DEF EnterCleanup, TypeOK
<1>4. UNCHANGED <<qemu, unix, active, main, todo, current, path>>
  BY DEF EnterCleanup
<1> QED
  BY <1>1, <1>2, <1>3, <1>4 DEF TypeOK

LEMMA HandlerStep ==
  ASSUME IInv, NEW c \in Conns,
         \/ Connected(c) \/ NotConnected(c) \/ HandlerEnds(c)
         \/ HandlerClosesUnix(c) \/ HandlerForgets(c) \/ HandlerCancelled(c)
  PROVE  IInv'
PROOF
<1> USE DEF IInv, TypeOK, Opened, CleanupOrder, ClosedBeforeForgotten
<1>1. CASE Connected(c)
  BY <1>1 DEF Connected
<1>2. CASE NotConnected(c)
  BY <1>2 DEF NotConnected
<1>3. CASE HandlerEnds(c)
  BY <1>3, EnterStep DEF HandlerEnds
<1>4. CASE HandlerClosesUnix(c)
  BY <1>4 DEF HandlerClosesUnix, CloseUnix, Closing
<1>5. CASE HandlerForgets(c)
  BY <1>5 DEF HandlerForgets, Settled
<1>6. CASE HandlerCancelled(c)
  <2>1. CASE handler[c] = "forwarding" /\ EnterCleanup(c)
    BY <1>6, <2>1, EnterStep DEF HandlerCancelled
  <2>2. CASE handler[c] # "forwarding"
    BY <1>6, <2>2 DEF HandlerCancelled
  <2> QED
    BY <1>6, <2>1, <2>2 DEF HandlerCancelled
<1> QED
  BY <1>1, <1>2, <1>3, <1>4, <1>5, <1>6

LEMMA MainStep ==
  ASSUME IInv, NEW c \in Conns,
         \/ MainClosesUnix(c) \/ MainForgets(c) \/ MainRaises(c)
  PROVE  IInv'
PROOF
<1> USE DEF IInv, Opened, CleanupOrder, ClosedBeforeForgotten
<1>1. CASE MainClosesUnix(c)
  BY <1>1 DEF TypeOK, MainClosesUnix, CloseUnix, Closing
<1>2. CASE MainForgets(c)
  <2>1. /\ active' = active \ {c} /\ UNCHANGED <<qemu, unix, busy, handler>>
        /\ ws[c] = "closed" /\ unix[c] \in {"closed", "lost"} /\ c \notin todo
        /\ NextKey(todo)
    BY <1>2 DEF MainForgets, Settled
  <2>2. todo \in SUBSET Conns
    BY DEF TypeOK
  <2>3. TypeOK'
    BY <2>1, <2>2, NextKeyInv DEF TypeOK, WsStates
  <2>4. Opened' /\ CleanupOrder'
    BY <2>1, <2>2, NextKeyInv
  <2>5. ClosedBeforeForgotten'
    BY <2>1, <2>2, NextKeyInv DEF TypeOK
  <2> QED
    BY <2>3, <2>4, <2>5
<1>3. CASE MainRaises(c)
  BY <1>3 DEF TypeOK, MainRaises, CancelRest
<1> QED
  BY <1>1, <1>2, <1>3

LEMMA CtrlCStep == ASSUME IInv, CtrlC PROVE IInv'
PROOF
<1> USE DEF IInv, Opened, CleanupOrder, ClosedBeforeForgotten
<1>1. active \in SUBSET Conns /\ NextKey(active)
      /\ UNCHANGED <<busy, qemu, unix, active, handler>>
  BY DEF CtrlC, TypeOK
<1>2. TypeOK'
  BY <1>1, NextKeyInv DEF TypeOK, WsStates
<1>3. Opened' /\ CleanupOrder'
  BY <1>1, NextKeyInv
<1>4. ClosedBeforeForgotten'
  BY <1>1, NextKeyInv
<1> QED
  BY <1>2, <1>3, <1>4

LEMMA Invariance == Spec => []IInv
PROOF
<1>1. Init => IInv
  BY InitInv
<1>2. IInv /\ [Next]_vars => IInv'
  <2> SUFFICES ASSUME IInv, [Next]_vars PROVE IInv'
    OBVIOUS
  <2>1. CASE UNCHANGED vars
    BY <2>1 DEF vars, IInv, TypeOK, Opened, CleanupOrder, ClosedBeforeForgotten
  <2> QED
    BY <2>1, OutsideStep, HandlerStep, MainStep, CtrlCStep
    DEF Next, ProcessStep, Outside
<1> QED
  BY <1>1, <1>2, PTL DEF Spec

\* Type correctness; in particular what the stopping program's loop has still
\* to come to always has its entry.
THEOREM TypeCorrect == Spec => []TypeOK
PROOF
BY Invariance, PTL DEF IInv

\* Whoever deletes an entry, both of its connections are closed by then, for
\* any number of connections and any overlap of the clean-ups.
THEOREM ForgetsOnlyClosed == Spec => []ClosedBeforeForgotten
PROOF
BY Invariance, PTL DEF IInv
-----------------------------------------------------------------------------
(* While the program serves.                                               *)

\* Until Ctrl-C only its own handler deletes an entry and nothing is cancelled:
\* a handler that is in its clean-up still has its entry.
OwnEntry ==
  main = "serving" =>
    /\ pending = {}
    /\ \A c \in Conns :
         handler[c] \in {"forwarding", "closingWs", "closingUnix"} => c \in active

\* The connection that the loop has in hand has its entry until one of the two
\* clean-ups has done it; while there is one nothing has been cancelled.
LoopEntry ==
  /\ current # {} => pending = {}
  /\ \A c \in current : c \in active \/ handler[c] = "ended"

ServingInv == IInv /\ OwnEntry /\ LoopEntry /\ StaleEntriesHaveCause

\* What FailuresHaveCause says of a step.
FailsForCause ==
  /\ main # "raised" /\ main' = "raised" =>
       \E c \in current : unix[c] = "lost" \/ handler[c] = "ended"
  /\ \A c \in Conns : handler[c] # "raised" /\ handler'[c] = "raised" =>
       \/ unix[c] = "lost" \/ c \in pending
       \/ main # "serving" /\ c \notin current \cup todo

\* The connections' own steps, and those of the main program.
LEMMA ServingOutside ==
  ASSUME ServingInv, NEW c \in Conns,
         \/ QemuConnects(c) \/ QemuCloses(c) \/ WsFails(c) \/ WsCloses(c)
         \/ UnixFails(c) \/ UnixCloses(c) \/ Blocks(c) \/ GoesOn(c)
  PROVE  OwnEntry' /\ LoopEntry' /\ StaleEntriesHaveCause' /\ FailsForCause
PROOF
<1> USE DEF ServingInv, IInv, TypeOK, OwnEntry, LoopEntry,
        StaleEntriesHaveCause, FailsForCause, Over
<1>1. CASE QemuConnects(c)
  <2>1. unix[c] # "lost" /\ c \notin active
    BY <1>1 DEF QemuConnects, Opened
  <2>2. \A d \in Conns : d # c => unix'[d] = unix[d] /\ handler'[d] = handler[d]
    BY <1>1 DEF QemuConnects
  <2>3. /\ handler[c] = "idle" /\ handler'[c] = "connecting"
        /\ UNCHANGED <<active, main, todo, current, pending>>
    BY <1>1 DEF QemuConnects
  <2>4. c \notin current
    BY <2>1, <2>3
  <2> QED
    BY <2>1, <2>2, <2>3, <2>4
<1>2. CASE QemuCloses(c)
  BY <1>2 DEF QemuCloses
<1>3. CASE WsFails(c)
  BY <1>3 DEF WsFails
<1>4. CASE WsCloses(c)
  BY <1>4 DEF WsCloses
<1>5. CASE UnixFails(c)
  BY <1>5 DEF UnixFails
<1>6. CASE UnixCloses(c)
  BY <1>6 DEF UnixCloses
<1>7. CASE Blocks(c)
  BY <1>7 DEF Blocks
<1>8. CASE GoesOn(c)
  BY <1>8 DEF GoesOn
<1> QED
  BY <1>1, <1>2, <1>3, <1>4, <1>5, <1>6, <1>7, <1>8

\* The loop takes the next entry, or it is over; the loop's raising.
LEMMA ServingMain ==
  ASSUME ServingInv, NEW c \in Conns,
         MainClosesUnix(c) \/ MainForgets(c) \/ MainRaises(c)
  PROVE  OwnEntry' /\ LoopEntry' /\ StaleEntriesHaveCause' /\ FailsForCause
PROOF
<1> USE DEF ServingInv, IInv, TypeOK, OwnEntry, LoopEntry,
        StaleEntriesHaveCause, FailsForCause
<1>1. CASE MainClosesUnix(c)
  BY <1>1 DEF MainClosesUnix, CloseUnix
<1>2. CASE MainForgets(c)
  <2>1. /\ todo \in SUBSET Conns /\ NextKey(todo) /\ handler' = handler
        /\ active' = active \ {c} /\ c \in current
    BY <1>2 DEF MainForgets
  <2>2. main' \in {"closingWs", "ended"} /\ c \notin todo
    BY <2>1, NextKeyInv DEF CleanupOrder
  <2>3. LoopEntry'
    BY <2>1, <2>2 DEF NextKey
  <2> QED
    BY <2>1, <2>2, <2>3
<1>3. CASE MainRaises(c)
  <2>1. /\ c \in current /\ main' = "raised" /\ current' = {} /\ handler' = handler
        /\ unix[c] = "lost" \/ c \notin active
    BY <1>3 DEF MainRaises, Raises
  <2> QED
    BY <2>1
<1> QED
  BY <1>1, <1>2, <1>3

LEMMA ServingCtrlC ==
  ASSUME ServingInv, CtrlC
  PROVE  OwnEntry' /\ LoopEntry' /\ StaleEntriesHaveCause' /\ FailsForCause
PROOF
<1>1. active \in SUBSET Conns /\ NextKey(active) /\ handler' = handler
  BY DEF CtrlC, ServingInv, IInv, TypeOK
<1>2. main' \in {"closingWs", "ended"}
  BY <1>1, NextKeyInv DEF ServingInv, IInv
<1>3. main = "serving" /\ UNCHANGED active
  BY DEF CtrlC
<1>4. LoopEntry'
  BY <1>1, <1>3 DEF NextKey, LoopEntry, ServingInv, OwnEntry
<1> QED
  BY <1>1, <1>2, <1>4 DEF OwnEntry, StaleEntriesHaveCause, FailsForCause

\* The handlers' steps: HandlerForgets raises only with the connection's exception,
\* since the entry is there.
LEMMA ServingHandler ==
  ASSUME ServingInv, NEW c \in Conns,
         \/ Connected(c) \/ NotConnected(c) \/ HandlerEnds(c)
         \/ HandlerClosesUnix(c) \/ HandlerForgets(c) \/ HandlerCancelled(c)
  PROVE  OwnEntry' /\ LoopEntry' /\ StaleEntriesHaveCause' /\ FailsForCause
PROOF
<1> USE DEF ServingInv, IInv, TypeOK, OwnEntry, LoopEntry,
        StaleEntriesHaveCause, FailsForCause, Over
<1>1. CASE Connected(c)
  BY <1>1 DEF Connected
<1>2. CASE NotConnected(c)
  BY <1>2 DEF NotConnected, Opened
<1>3. CASE HandlerEnds(c)
  BY <1>3 DEF HandlerEnds, EnterCleanup
<1>4. CASE HandlerClosesUnix(c)
  <2>1. \A d \in Conns : unix[d] = "lost" => unix'[d] = "lost"
    BY <1>4 DEF HandlerClosesUnix, CloseUnix, Closing
  <2>2. /\ handler' = [handler EXCEPT ![c] = "closingUnix"]
        /\ handler[c] = "closingWs" /\ UNCHANGED <<active, main, current, pending>>
    BY <1>4 DEF HandlerClosesUnix, CloseUnix
  <2> QED
    BY <2>1, <2>2
<1>5. CASE HandlerForgets(c)
  <2>1. CASE Raises(c)
    BY <1>5, <2>1 DEF HandlerForgets, Raises
  <2>2. CASE ~Raises(c)
    BY <1>5, <2>2 DEF HandlerForgets
  <2> QED
    BY <2>1, <2>2
<1>6. CASE HandlerCancelled(c)
  <2>1. main # "serving" /\ UNCHANGED <<main, current>> /\ current = {}
    BY <1>6 DEF HandlerCancelled, EnterCleanup
  <2>2. c \in pending /\ \A d \in Conns : d # c => handler'[d] = handler[d]
    BY <1>6 DEF HandlerCancelled, EnterCleanup
  <2> QED
    BY <2>1, <2>2
<1> QED
  BY <1>1, <1>2, <1>3, <1>4, <1>5, <1>6

LEMMA ServingInvariance == Spec => []ServingInv /\ [][FailsForCause]_vars
PROOF
<1>1. Init => OwnEntry /\ LoopEntry /\ StaleEntriesHaveCause
  BY DEF Init, OwnEntry, LoopEntry, StaleEntriesHaveCause
<1>2. ASSUME ServingInv, [Next]_vars
      PROVE  OwnEntry' /\ LoopEntry' /\ StaleEntriesHaveCause' /\ [FailsForCause]_vars
  <2>1. CASE UNCHANGED vars
    BY <1>2, <2>1 DEF vars, ServingInv, OwnEntry, LoopEntry, StaleEntriesHaveCause, Over
  <2> QED
    BY <1>2, <2>1, ServingOutside, ServingMain, ServingCtrlC, ServingHandler
    DEF Next, ProcessStep, Outside
<1> QED
  BY <1>1, <1>2, Invariance, PTL DEF Spec, ServingInv

\* An entry that is left behind while the program serves belongs to a unix connection
\* that was lost, for any number of connections.
THEOREM StaleForCause == Spec => []StaleEntriesHaveCause
PROOF
BY ServingInvariance, PTL DEF ServingInv

\* Of two overlapping clean-ups of a connection only one fails for want of the
\* entry, and then the other has finished, for any number of connections: the
\* loop's only for a handler that has ended, a handler's only behind the loop.
THEOREM FailsOnlyForCause == Spec => FailuresHaveCause
PROOF
BY ServingInvariance, PTL DEF FailuresHaveCause, FailsForCause
=============================================================================
