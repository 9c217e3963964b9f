-------------------------- MODULE FdHandoverProofs --------------------------
(***************************************************************************)
(* What is proved of FdHandover for any number of starts, with and without *)
(* an operator who stops programs.                                         *)
(***************************************************************************)
EXTENDS FdHandover, TLAPS

\* Who has a copy when: a TLS program from its connection on, and it alone
\* until the handshake is done; a script from the message on.
CopiesFollow ==
  \A h \in Hosts :
    /\ program[h] \in {"off", "accepting"} => copies[h] = {}
    /\ program[h] = "handshake" => copies[h] = {"program"}
    /\ program[h] \in {"offering", "connected", "sent"} =>
         "program" \in copies[h] /\ done[h] /\ done["src"]
    /\ script[h] \in {"main", "getfd", "migrate"} => "script" \in copies[h]

\* The client comes to tcp_close with nothing, or with what it alone has; it
\* has no connection while one is shut down.
ClosesAlone ==
  /\ program["src"] = "closing" /\ "program" \in copies["src"] =>
       copies["src"] = {"program"}
  /\ shut => program["src"] = "over"

IInv == TypeOK /\ CopiesFollow /\ ClosesAlone /\ ShutsNothingShared /\ HandshakeFirst

LEMMA InitInv == Init => IInv
PROOF
<1> SUFFICES ASSUME Init PROVE IInv
  OBVIOUS
<1>1. TypeOK
  <2>1. starts \in 0..MaxStarts
    BY StartsAssumption DEF Init
  <2>2. \A h \in Hosts : /\ path[h] = "bound" <=> script[h] \in {"listening", "receiving"}
                         /\ link[h] # "none" \/ left[h] > 0 => path[h] = "bound"
                         /\ link[h] = "accepted" => script[h] = "receiving"
                         /\ left[h] = Queue => link[h] # "queued"
    BY DEF Init, Queue
  <2>3. left \in [Hosts -> 0..Queue]
    BY DEF Init, Queue
  <2> QED
    BY <2>1, <2>2, <2>3 DEF Init, TypeOK, Holders
<1>2. CopiesFollow
  BY DEF Init, CopiesFollow, Hosts
<1>3. ClosesAlone /\ ShutsNothingShared /\ HandshakeFirst
  BY DEF Init, ClosesAlone, ShutsNothingShared, HandshakeFirst, Hosts
<1> QED
  BY <1>1, <1>2, <1>3 DEF IInv

LEMMA ProgramSteps ==
  ASSUME IInv, NEW h \in Hosts,
         \/ ServerStarts \/ ClientStarts \/ ServerAccepts
         \/ HandshakeEnds(h) \/ HandshakeFails(h) \/ ProgramKilled(h)
  PROVE  IInv'
PROOF
<1> USE DEF IInv, TypeOK, CopiesFollow, ClosesAlone, ShutsNothingShared,
            HandshakeFirst, Hosts, Holders, tls, unix, Gives
<1>1. CASE ServerStarts
  BY <1>1 DEF ServerStarts
<1>2. CASE ClientStarts
  <2>1. CASE program["dst"] \in {"off", "over"}
    BY <1>2, <2>1, StartsAssumption DEF ClientStarts
  <2>2. CASE program["dst"] \notin {"off", "over"}
    <3>1. TypeOK'
      <4>1. copies' \in [Hosts -> SUBSET Holders]
        BY <1>2, <2>2 DEF ClientStarts
      <4>2. done' \in [Hosts -> BOOLEAN]
        <5>1. done' = [g \in Hosts |-> FALSE]
          BY <1>2, <2>2 DEF ClientStarts
        <5> QED
          BY ONLY <5>1, Zenon
      <4>3. starts' \in 0..MaxStarts
        BY <1>2, <2>2, StartsAssumption DEF ClientStarts
      <4>4. shut' \in BOOLEAN /\ backlog' \in BOOLEAN
        BY <1>2, <2>2 DEF ClientStarts
      <4>5. /\ program' \in [Hosts -> {"off", "accepting", "handshake", "offering",
                                       "connected", "sent", "closing", "over"}]
            /\ UNCHANGED <<script, path, link, left>>
        BY <1>2, <2>2 DEF ClientStarts
      <4> QED
        BY <4>1, <4>2, <4>3, <4>4, <4>5
    <3>2. CopiesFollow'
      BY <1>2, <2>2 DEF ClientStarts
    <3>3. (ClosesAlone /\ ShutsNothingShared /\ HandshakeFirst)'
      BY <1>2, <2>2 DEF ClientStarts
    <3> QED
      BY <3>1, <3>2, <3>3
  <2> QED
    BY <2>1, <2>2
<1>3. CASE ServerAccepts
  <2>1. TypeOK'
    BY <1>3 DEF ServerAccepts
  <2>2. CopiesFollow'
    BY <1>3 DEF ServerAccepts
  <2>3. (ClosesAlone /\ ShutsNothingShared /\ HandshakeFirst)'
    BY <1>3 DEF ServerAccepts
  <2> QED
    BY <2>1, <2>2, <2>3
<1>4. CASE HandshakeEnds(h)
  BY <1>4 DEF HandshakeEnds
<1>5. CASE HandshakeFails(h)
  BY <1>5 DEF HandshakeFails
<1>6. CASE ProgramKilled(h)
  <2>1. /\ program' = [program EXCEPT ![h] = "over"]
        /\ copies' = [copies EXCEPT ![h] = (@ \ {"program"}) \cup {}]
        /\ UNCHANGED <<script, done, shut, backlog, path, starts>>
    BY <1>6 DEF ProgramKilled
  <2>2. \/ UNCHANGED <<link, left>>
        \/ /\ link' = [link EXCEPT ![h] = "none"]
           /\ left' = [left EXCEPT ![h] = IF link[h] = "queued" THEN @ + 1 ELSE @]
    BY <1>6 DEF ProgramKilled
  <2>3. /\ link' \in [Hosts -> {"none", "queued", "accepted"}]
        /\ left' \in [Hosts -> 0..Queue]
        /\ \A g \in Hosts : /\ link'[g] # "none" \/ left'[g] > 0 => path[g] = "bound"
                            /\ link'[g] = "accepted" => script[g] = "receiving"
                            /\ left'[g] = Queue => link'[g] # "queued"
    BY <2>2 DEF Queue
  <2>4. TypeOK'
    BY <2>1, <2>3
  <2> QED
    BY <2>1, <2>4
<1> QED
  BY <1>1, <1>2, <1>3, <1>4, <1>5, <1>6

LEMMA OfferSteps ==
  ASSUME IInv, NEW h \in Hosts,
         Offer(h) \/ SendFd(h) \/ Answered(h) \/ TcpClose
  PROVE  IInv'
PROOF
<1> USE DEF IInv, TypeOK, CopiesFollow, ClosesAlone, ShutsNothingShared,
            HandshakeFirst, Hosts, Holders, tls, unix, Gives
<1>1. CASE Offer(h)
  <2>1. TypeOK'
    <3>1. copies' \in [Hosts -> SUBSET Holders]
      BY <1>1 DEF Offer
    <3>2. link' \in [Hosts -> {"none", "queued", "accepted"}]
      BY <1>1 DEF Offer
    <3>3. \A g \in Hosts :
            /\ link'[g] # "none" \/ left'[g] > 0 => path'[g] = "bound"
            /\ link'[g] = "accepted" => script'[g] = "receiving"
            /\ left'[g] = Queue => link'[g] # "queued"
      BY <1>1 DEF Offer, Queue
    <3> QED
      BY <1>1, <3>1, <3>2, <3>3 DEF Offer
  <2>2. CopiesFollow'
    BY <1>1 DEF Offer
  <2>3. (ClosesAlone /\ ShutsNothingShared /\ HandshakeFirst)'
    BY <1>1 DEF Offer
  <2> QED
    BY <2>1, <2>2, <2>3
<1>2. CASE SendFd(h)
  BY <1>2 DEF SendFd
<1>3. CASE Answered(h)
  BY <1>3 DEF Answered, Returns
<1>4. CASE TcpClose
  BY <1>4 DEF TcpClose
<1> QED
  BY <1>1, <1>2, <1>3, <1>4

LEMMA ScriptSteps ==
  ASSUME IInv, NEW h \in Hosts,
         \/ ScriptStarts(h) \/ Accept(h) \/ ReceiveFd(h) \/ OwnConnection(h)
         \/ ScriptKilled(h)
  PROVE  IInv'
PROOF
<1> USE DEF IInv, TypeOK, CopiesFollow, ClosesAlone, ShutsNothingShared,
            HandshakeFirst, Hosts, Holders, tls, unix, Gives, Ends, NoMoreLinks, Queue
<1>1. CASE ScriptStarts(h)
  BY <1>1, StartsAssumption DEF ScriptStarts
<1>2. CASE Accept(h)
  BY <1>2 DEF Accept
<1>3. CASE ReceiveFd(h)
  BY <1>3 DEF ReceiveFd
<1>4. CASE OwnConnection(h)
  BY <1>4 DEF OwnConnection
<1>5. CASE ScriptKilled(h)
  BY <1>5 DEF ScriptKilled
<1> QED
  BY <1>1, <1>2, <1>3, <1>4, <1>5

LEMMA QemuSteps ==
  ASSUME IInv, NEW h \in Hosts,
         SendFdScm(h) \/ GetFd(h) \/ Migrate(h) \/ QemuCloses(h)
  PROVE  IInv'
PROOF
<1> USE DEF IInv, TypeOK, CopiesFollow, ClosesAlone, ShutsNothingShared,
            HandshakeFirst, Hosts, Holders, tls, unix, Gives, Ends, NoMoreLinks, Queue
<1>1. CASE SendFdScm(h)
  BY <1>1 DEF SendFdScm
<1>2. CASE GetFd(h)
  BY <1>2 DEF GetFd
<1>3. CASE Migrate(h)
  BY <1>3 DEF Migrate
<1>4. CASE QemuCloses(h)
  BY <1>4 DEF QemuCloses
<1> QED
  BY <1>1, <1>2, <1>3, <1>4

LEMMA NextInv == IInv /\ [Next]_vars => IInv'
PROOF
<1> SUFFICES ASSUME IInv, [Next]_vars PROVE IInv'
  OBVIOUS
<1>1. CASE UNCHANGED vars
  BY <1>1 DEF vars, tls, unix, IInv, TypeOK, CopiesFollow, ClosesAlone,
              ShutsNothingShared, HandshakeFirst
<1>2. CASE ServerStarts \/ ClientStarts \/ ServerAccepts
  BY <1>2, ProgramSteps DEF Hosts
<1>3. ASSUME NEW h \in Hosts,
             \/ ProgramStep(h) \/ ScriptStep(h) \/ ScriptStarts(h)
             \/ QemuCloses(h) \/ ProgramKilled(h) \/ ScriptKilled(h)
      PROVE  IInv'
  BY <1>3, ProgramSteps, OfferSteps, ScriptSteps, QemuSteps DEF ProgramStep, ScriptStep
<1> QED
  BY <1>1, <1>2, <1>3 DEF Next

\* The inductive invariant holds of every behaviour.
THEOREM Invariance == Spec => []IInv
PROOF
BY InitInv, NextInv, PTL DEF Spec

\* The variables keep their types; a program's connection to the script exists
\* only while the path does, and the path only while the script listens.
THEOREM TypeCorrect == Spec => []TypeOK
PROOF
<1>1. IInv => TypeOK
  BY DEF IInv
<1> QED
  BY <1>1, Invariance, PTL

\* tcp_close, which follows the hand-over as well as a failed handshake, never
\* shuts down a connection of which another has a copy.
THEOREM NothingShared == Spec => []ShutsNothingShared
PROOF
<1>1. IInv => ShutsNothingShared
  BY DEF IInv
<1> QED
  BY <1>1, Invariance, PTL

\* Only a connection with a completed handshake leaves a TLS program.
THEOREM OnlyAfterHandshake == Spec => []HandshakeFirst
PROOF
<1>1. IInv => HandshakeFirst
  BY DEF IInv
<1> QED
  BY <1>1, Invariance, PTL
=============================================================================
