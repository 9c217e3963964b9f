--------------------------- MODULE WsTunnelProofs ---------------------------
(***************************************************************************)
(* Proofs about WsTunnel: its types, and that the tunnel implements        *)
(* ForwardFifo, for any stream, any sizes of the buffers and any number of *)
(* attempts.                                                               *)
(***************************************************************************)
EXTENDS WsTunnel, SequenceTheorems, TLAPS

\* The chunks of s are those that follow the k-th, in order.
Run(s, k) == \A i \in 1..Len(s) : s[i] = k + i

(* The inductive invariant.                                                *)

CausesOK == causes \subseteq {"source", "destination", "connect", "absent",
                              "network", "timeout", "stop", "reply"}

\* Where the two handlers, the WebSocket and the unix connection can be together.
Places ==
  /\ ws = "none" <=> server = "off"
  /\ client = "connecting" => ws = "none"
  /\ ws = "none" /\ client # "connecting" => client = "over" /\ causes # {}
  /\ client \in {"closing", "over"} => ws # "open"
  /\ ws = "closing" => client = "closing"
  /\ server \in {"off", "connecting"} => unix = "none"
  /\ server = "forwarding" => unix = "open"
  /\ server = "closing" => unix = "closing"
  /\ server = "over" => ws = "gone" /\ net = <<>>
  /\ unix = "closed" => server = "over"
  /\ dest = "ended" => unix = "closed" /\ out = <<>>

\* What a hop still passes on follows what is in front of it.
NetPasses == server \in {"off", "connecting", "forwarding"} /\ dest # "closed"
WsPasses == NetPasses /\ ws \in {"none", "open"}

InOrder ==
  /\ Run(got, 0)
  /\ Run(out, Len(got))
  /\ NetPasses => Run(net, Len(got) + Len(out))
  /\ WsPasses =>
       /\ Run(held, Len(got) + Len(out) + Len(net))
       /\ Run(in, Len(got) + Len(out) + Len(net) + Len(held))
       /\ sent = Len(got) + Len(out) + Len(net) + Len(held) + Len(in)

\* As long as there is no cause, nothing is missing, and the stream's end is all
\* that can have ended anything.
Complete ==
  causes = {} =>
    /\ dest \notin {"half", "closed"}
    /\ source = "closed" => sent = Chunks
    /\ client = "forwarding" => ws = "open"
    /\ client \in {"closing", "over"} =>
         source = "closed" /\ in = <<>> /\ held = <<>>
    /\ server = "closing" => ws = "gone" /\ net = <<>>
    /\ sent = Len(got) + Len(out) + Len(net) + Len(held) + Len(in)

\* What the destination has is of the stream, whatever has been lost behind it.
NoMoreThanSent ==
  /\ Len(got) + Len(out) <= sent
  /\ NetPasses => Len(got) + Len(out) + Len(net) <= sent

IInv == TypeOK /\ Places /\ InOrder /\ Complete /\ NoMoreThanSent
-----------------------------------------------------------------------------
(* Sequences of chunks.                                                    *)

\* The beginning of a sequence.
LEMMA CutFacts ==
  ASSUME NEW s \in Stream, NEW n \in 0..Len(s)
  PROVE  /\ SubSeq(s, 1, n) \in Stream
         /\ Len(SubSeq(s, 1, n)) = n
         /\ \A k \in Nat : Run(s, k) => Run(SubSeq(s, 1, n), k)
PROOF
<1>1. n \in Nat /\ \A i \in 1..n : s[i] \in 1..Chunks
  <2>1. Len(s) \in Nat /\ s \in [1..Len(s) -> 1..Chunks]
    BY LenProperties DEF Stream
  <2> QED
    BY <2>1
<1>2. /\ SubSeq(s, 1, n) \in Seq(1..Chunks)
      /\ Len(SubSeq(s, 1, n)) = n
      /\ \A i \in 1..n : SubSeq(s, 1, n)[i] = s[i]
  BY <1>1, SubSeqProperties DEF Stream
<1> QED
  BY <1>1, <1>2 DEF Stream, Run

\* One more chunk at the end.
LEMMA AppendFacts ==
  ASSUME NEW s \in Stream, NEW c \in 1..Chunks
  PROVE  /\ Append(s, c) \in Stream
         /\ Len(Append(s, c)) = Len(s) + 1
         /\ \A k \in Nat : Run(s, k) /\ c = k + Len(s) + 1 => Run(Append(s, c), k)
BY DEF Stream, Run

\* The first chunk, and the rest.
LEMMA TailFacts ==
  ASSUME NEW s \in Stream, s # <<>>
  PROVE  /\ Head(s) \in 1..Chunks
         /\ Tail(s) \in Stream
         /\ Len(Tail(s)) = Len(s) - 1
         /\ Len(s) \in Nat \ {0}
         /\ \A k \in Nat : Run(s, k) => Head(s) = k + 1 /\ Run(Tail(s), k + 1)
PROOF
<1>1. /\ Head(s) \in 1..Chunks /\ Tail(s) \in Seq(1..Chunks)
      /\ Len(Tail(s)) = Len(s) - 1
      /\ \A i \in 1..Len(Tail(s)) : Tail(s)[i] = s[i + 1]
  BY HeadTailProperties DEF Stream
<1>2. Len(s) \in Nat \ {0}
  BY EmptySeq DEF Stream
<1>3. Head(s) = s[1]
  OBVIOUS
<1>4. ASSUME NEW k \in Nat, Run(s, k)
      PROVE  Head(s) = k + 1 /\ Run(Tail(s), k + 1)
  BY <1>1, <1>2, <1>3, <1>4 DEF Run
<1> QED
  BY <1>1, <1>2, <1>4 DEF Stream

\* One sequence behind another.
LEMMA ConcatFacts ==
  ASSUME NEW s \in Stream, NEW t \in Stream
  PROVE  /\ s \o t \in Stream
         /\ Len(s \o t) = Len(s) + Len(t)
         /\ \A k \in Nat : Run(s, k) /\ Run(t, k + Len(s)) => Run(s \o t, k)
BY DEF Stream, Run

\* No chunk.
LEMMA EmptyFacts ==
  /\ <<>> \in Stream /\ Len(<<>>) = 0
  /\ \A k \in Nat : Run(<<>>, k)
  /\ \A s \in Stream : Len(s) \in Nat /\ (Len(s) = 0 => s = <<>>)
BY DEF Stream, Run
-----------------------------------------------------------------------------
(* Types and places.                                                       *)

\* No action leads out of the types: what a hop takes in fits into it.
LEMMA TypeSteps ==
  ASSUME IInv, Next
  PROVE  TypeOK'
PROOF
<1> USE SizesAssumption DEF IInv, TypeOK, CausesOK, srcSide, dstSide
<1>1. CASE SourceSends
  BY <1>1, EmptyFacts, AppendFacts DEF SourceSends
<1>2. CASE SourceCloses
  <2>1. CausesOK'
    BY <1>2 DEF SourceCloses
  <2> QED
    BY <1>2, <2>1 DEF SourceCloses
<1>3. CASE Connects
  BY <1>3 DEF Connects
<1>4. CASE ClientReads
  BY <1>4, EmptyFacts DEF ClientReads
<1>5. CASE ClientSends
  BY <1>5, EmptyFacts, ConcatFacts DEF ClientSends
<1>6. CASE ClientEnds
  <2>1. CausesOK'
    BY <1>6 DEF ClientEnds
  <2> QED
    BY <1>6, <2>1, EmptyFacts DEF ClientEnds
<1>7. CASE ClientCloses
  BY <1>7 DEF ClientCloses
<1>8. CASE WsCloses
  BY <1>8 DEF WsCloses
<1>9. CASE CloseTimesOut
  <2>1. CausesOK'
    BY <1>9 DEF CloseTimesOut, Cut
  <2>2. net' \in Stream /\ Len(net') \in 0..NetSize
    BY <1>9, EmptyFacts, CutFacts DEF CloseTimesOut, Cut
  <2> QED
    BY <1>9, <2>1, <2>2, EmptyFacts DEF CloseTimesOut
<1>10. CASE WsFails
  <2>1. CausesOK'
    BY <1>10 DEF WsFails
  <2> QED
    BY <1>10, <2>1, CutFacts DEF WsFails
<1>11. CASE UnixConnects
  BY <1>11 DEF UnixConnects
<1>12. CASE Retries
  BY <1>12 DEF Retries
<1>13. CASE GivesUp
  <2>1. CausesOK'
    BY <1>13 DEF GivesUp, HandlerOver
  <2>2. net' \in Stream /\ Len(net') \in 0..NetSize
    BY <1>13, EmptyFacts DEF GivesUp, HandlerOver
  <2>3. \A q \in {in', held', net', out', got'} : q \in Stream
    BY <1>13, <2>2 DEF GivesUp
  <2>4. server' = "over" /\ ws' = "gone"
    BY <1>13 DEF GivesUp, HandlerOver
  <2> QED
    BY <1>13, <2>1, <2>2, <2>3, <2>4 DEF GivesUp
<1>14. CASE ForwardsMessage
  BY <1>14, EmptyFacts, AppendFacts, TailFacts DEF ForwardsMessage, BelowLimit
<1>15. CASE HandlerEnds
  <2>1. CausesOK'
    BY <1>15 DEF HandlerEnds, MessagesEnd
  <2> QED
    BY <1>15, <2>1 DEF HandlerEnds, MessagesEnd
<1>16. CASE UnixCloses
  <2>1. net' \in Stream /\ Len(net') \in 0..NetSize
    BY <1>16, EmptyFacts DEF UnixCloses, HandlerOver
  <2>2. \A q \in {in', held', net', out', got'} : q \in Stream
    BY <1>16, <2>1 DEF UnixCloses
  <2>3. server' = "over" /\ ws' = "gone"
    BY <1>16 DEF UnixCloses, HandlerOver
  <2> QED
    BY <1>16, <2>1, <2>2, <2>3 DEF UnixCloses
<1>17. CASE ServerStops
  <2>1. CausesOK'
    BY <1>17 DEF ServerStops, HandlerOver
  <2>2. net' \in Stream /\ Len(net') \in 0..NetSize
    BY <1>17, EmptyFacts DEF ServerStops, HandlerOver
  <2>3. \A q \in {in', held', net', out', got'} : q \in Stream
    BY <1>17, <2>2 DEF ServerStops
  <2>4. server' = "over" /\ ws' = "gone"
    BY <1>17 DEF ServerStops, HandlerOver
  <2> QED
    BY <1>17, <2>1, <2>2, <2>3, <2>4 DEF ServerStops
<1>18. CASE DestinationListens
  BY <1>18 DEF DestinationListens
<1>19. CASE DestinationReads
  BY <1>19, EmptyFacts, AppendFacts, TailFacts DEF DestinationReads
<1>20. CASE DestinationSeesEnd
  BY <1>20 DEF DestinationSeesEnd
<1>21. CASE DestinationCloses
  <2>1. CausesOK'
    BY <1>21 DEF DestinationCloses
  <2> QED
    BY <1>21, <2>1, EmptyFacts DEF DestinationCloses
<1>22. CASE ConnectFails
  <2>1. CausesOK'
    BY <1>22 DEF ConnectFails
  <2> QED
    BY <1>22, <2>1 DEF ConnectFails
<1>23. CASE ServerExits
  <2>1. out' \in Stream /\ Len(out') \in 0..Len(out)
    BY <1>23, CutFacts DEF ServerExits
  <2>2. \A q \in {in', held', net', out', got'} : q \in Stream
    BY <1>23, <2>1 DEF ServerExits
  <2> QED
    BY <1>23, <2>1, <2>2, EmptyFacts DEF ServerExits
<1>24. CASE DestinationEndsReplies
  <2>1. CausesOK'
    BY <1>24 DEF DestinationEndsReplies
  <2> QED
    BY <1>24, <2>1 DEF DestinationEndsReplies
<1> QED
  BY <1>1, <1>2, <1>3, <1>4, <1>5, <1>6, <1>7, <1>8, <1>9, <1>10, <1>11,
     <1>12, <1>13, <1>14, <1>15, <1>16, <1>17, <1>18, <1>19, <1>20, <1>21,
     <1>22, <1>23, <1>24
     DEF Next, ClientStep, ServerStep, Outside

\* What the ends of the handlers have in common: the other side cannot go back.
LEMMA PlacesSteps ==
  ASSUME IInv, Next
  PROVE  Places'
PROOF
<1> USE SizesAssumption DEF IInv, TypeOK, Places, srcSide, dstSide
<1>1. CASE SourceSends
  BY <1>1, EmptyFacts, AppendFacts DEF SourceSends
<1>2. CASE SourceCloses
  BY <1>2 DEF SourceCloses
<1>3. CASE Connects
  BY <1>3 DEF Connects
<1>4. CASE ClientReads
  BY <1>4, EmptyFacts DEF ClientReads
<1>5. CASE ClientSends
  BY <1>5, EmptyFacts, ConcatFacts DEF ClientSends
<1>6. CASE ClientEnds
  BY <1>6, EmptyFacts DEF ClientEnds
<1>7. CASE ClientCloses
  BY <1>7 DEF ClientCloses
<1>8. CASE WsCloses
  BY <1>8 DEF WsCloses
<1>9. CASE CloseTimesOut
  BY <1>9, EmptyFacts, CutFacts DEF CloseTimesOut, Cut
<1>10. CASE WsFails
  BY <1>10, EmptyFacts, CutFacts DEF WsFails
<1>11. CASE UnixConnects
  BY <1>11 DEF UnixConnects
<1>12. CASE Retries
  BY <1>12 DEF Retries
<1>13. CASE GivesUp
  BY <1>13, EmptyFacts DEF GivesUp, HandlerOver
<1>14. CASE ForwardsMessage
  BY <1>14, EmptyFacts, AppendFacts, TailFacts DEF ForwardsMessage, BelowLimit
<1>15. CASE HandlerEnds
  BY <1>15 DEF HandlerEnds, MessagesEnd
<1>16. CASE UnixCloses
  BY <1>16, EmptyFacts DEF UnixCloses, HandlerOver
<1>17. CASE ServerStops
  BY <1>17, EmptyFacts, CutFacts DEF ServerStops, HandlerOver
<1>18. CASE DestinationListens
  BY <1>18 DEF DestinationListens
<1>19. CASE DestinationReads
  BY <1>19, EmptyFacts, AppendFacts, TailFacts DEF DestinationReads
<1>20. CASE DestinationSeesEnd
  BY <1>20 DEF DestinationSeesEnd
<1>21. CASE DestinationCloses
  BY <1>21, EmptyFacts DEF DestinationCloses
<1>22. CASE ConnectFails
  BY <1>22 DEF ConnectFails
<1>23. CASE ServerExits
  BY <1>23, EmptyFacts, CutFacts DEF ServerExits
<1>24. CASE DestinationEndsReplies
  BY <1>24 DEF DestinationEndsReplies
<1> QED
  BY <1>1, <1>2, <1>3, <1>4, <1>5, <1>6, <1>7, <1>8, <1>9, <1>10, <1>11,
     <1>12, <1>13, <1>14, <1>15, <1>16, <1>17, <1>18, <1>19, <1>20, <1>21,
     <1>22, <1>23, <1>24
     DEF Next, ClientStep, ServerStep, Outside

-----------------------------------------------------------------------------
(* Order and completeness.                                                 *)

\* The lengths of the five queues are numbers.
LEMMA Lengths ==
  ASSUME TypeOK
  PROVE  /\ in \in Stream /\ held \in Stream /\ net \in Stream
         /\ out \in Stream /\ got \in Stream
         /\ Len(in) \in Nat /\ Len(held) \in Nat /\ Len(net) \in Nat
         /\ Len(out) \in Nat /\ Len(got) \in Nat
BY EmptyFacts DEF TypeOK

\* A chunk is passed on from the front of one queue to the back of the next, and
\* once a hop has lost one it passes on no more.
LEMMA OrderSteps ==
  ASSUME IInv, Next
  PROVE  InOrder'
PROOF
<1> USE SizesAssumption DEF IInv, TypeOK, Places, InOrder, NetPasses, WsPasses, srcSide, dstSide
<1>1. CASE SourceSends
  <2>1. sent + 1 \in 1..Chunks /\ in' = Append(in, sent + 1) /\ sent' = sent + 1
    BY <1>1 DEF SourceSends
  <2>2. UNCHANGED <<held, net, out, got, ws, server, dest>>
    BY <1>1 DEF SourceSends
  <2>3. Len(in') = Len(in) + 1
    BY <2>1, Lengths, AppendFacts
  <2>4. ASSUME WsPasses
        PROVE  Run(in', Len(got) + Len(out) + Len(net) + Len(held))
    <3> DEFINE k == Len(got) + Len(out) + Len(net) + Len(held)
    <3>1. k \in Nat /\ Run(in, k) /\ sent + 1 = k + Len(in) + 1
      BY <2>4, Lengths
    <3> QED
      BY ONLY <3>1, <2>1, in \in Stream, AppendFacts
  <2>5. InOrder /\ sent \in Nat /\ Len(in) \in Nat
    BY Lengths
  <2> QED
    BY ONLY <2>1, <2>2, <2>3, <2>4, <2>5, Lengths
       DEF InOrder, NetPasses, WsPasses, srcSide, dstSide
<1>2. CASE SourceCloses
  BY <1>2, Lengths DEF SourceCloses
<1>3. CASE Connects
  BY <1>3, Lengths DEF Connects
<1>4. CASE ClientReads
  BY <1>4, Lengths, EmptyFacts DEF ClientReads
<1>5. CASE ClientSends
  BY <1>5, Lengths, EmptyFacts, ConcatFacts DEF ClientSends
<1>6. CASE ClientEnds
  BY <1>6, Lengths, EmptyFacts DEF ClientEnds
<1>7. CASE ClientCloses
  BY <1>7, Lengths DEF ClientCloses
<1>8. CASE WsCloses
  BY <1>8, Lengths DEF WsCloses
<1>9. CASE CloseTimesOut
  BY <1>9, Lengths, EmptyFacts, CutFacts DEF CloseTimesOut, Cut
<1>10. CASE WsFails
  BY <1>10, Lengths, EmptyFacts, CutFacts DEF WsFails
<1>11. CASE UnixConnects
  BY <1>11, Lengths DEF UnixConnects
<1>12. CASE Retries
  BY <1>12, Lengths DEF Retries
<1>13. CASE GivesUp
  BY <1>13, Lengths, EmptyFacts DEF GivesUp, HandlerOver
<1>14. CASE ForwardsMessage
  <2>1. NetPasses /\ net # <<>> /\ out' = Append(out, Head(net)) /\ net' = Tail(net)
    BY <1>14 DEF ForwardsMessage
  <2>2. UNCHANGED <<sent, in, held, got, ws, server, dest>>
    BY <1>14 DEF ForwardsMessage
  <2>3. Len(net') = Len(net) - 1 /\ Len(out') = Len(out) + 1
    BY <2>1, Lengths, AppendFacts, TailFacts
  <2>4. Head(net) = Len(got) + Len(out) + 1 /\ Run(net', Len(got) + Len(out) + 1)
    BY <2>1, Lengths, TailFacts
  <2>5. Run(out', Len(got))
    BY <2>1, <2>4, Lengths, AppendFacts, TailFacts
  <2>6. /\ Len(got') + Len(out') = Len(got) + Len(out) + 1
        /\ Len(got') + Len(out') + Len(net') = Len(got) + Len(out) + Len(net)
    BY <2>2, <2>3, Lengths
  <2> QED
    BY <2>2, <2>4, <2>5, <2>6
<1>15. CASE HandlerEnds
  BY <1>15, Lengths DEF HandlerEnds, MessagesEnd
<1>16. CASE UnixCloses
  BY <1>16, Lengths, EmptyFacts DEF UnixCloses, HandlerOver
<1>17. CASE ServerStops
  BY <1>17, Lengths, EmptyFacts, CutFacts DEF ServerStops, HandlerOver
<1>18. CASE DestinationListens
  BY <1>18, Lengths DEF DestinationListens
<1>19. CASE DestinationReads
  <2>1. out # <<>> /\ got' = Append(got, Head(out)) /\ out' = Tail(out)
    BY <1>19 DEF DestinationReads
  <2>2. UNCHANGED <<sent, in, held, net, ws, server, dest>>
    BY <1>19 DEF DestinationReads
  <2>3. Len(out') = Len(out) - 1 /\ Len(got') = Len(got) + 1
    BY <2>1, Lengths, AppendFacts, TailFacts
  <2>4. Head(out) = Len(got) + 1 /\ Run(out', Len(got) + 1)
    BY <2>1, Lengths, TailFacts
  <2>5. Run(got', 0)
    BY <2>1, <2>4, Lengths, AppendFacts, TailFacts
  <2>6. Len(got') + Len(out') = Len(got) + Len(out)
    BY <2>3, Lengths
  <2> QED
    BY <2>2, <2>3, <2>4, <2>5, <2>6
<1>20. CASE DestinationSeesEnd
  BY <1>20, Lengths DEF DestinationSeesEnd
<1>21. CASE DestinationCloses
  BY <1>21, Lengths, EmptyFacts DEF DestinationCloses
<1>22. CASE ConnectFails
  BY <1>22, Lengths DEF ConnectFails
<1>23. CASE ServerExits
  BY <1>23, Lengths, EmptyFacts, CutFacts DEF ServerExits
<1>24. CASE DestinationEndsReplies
  BY <1>24, Lengths DEF DestinationEndsReplies
<1> QED
  BY <1>1, <1>2, <1>3, <1>4, <1>5, <1>6, <1>7, <1>8, <1>9, <1>10, <1>11,
     <1>12, <1>13, <1>14, <1>15, <1>16, <1>17, <1>18, <1>19, <1>20, <1>21,
     <1>22, <1>23, <1>24
     DEF Next, ClientStep, ServerStep, Outside

\* Only steps that record a cause lose a chunk, or end a side that has more to do.
LEMMA CompleteSteps ==
  ASSUME IInv, Next
  PROVE  Complete'
PROOF
<1> USE SizesAssumption DEF IInv, TypeOK, Places, Complete, srcSide, dstSide
<1>1. CASE SourceSends
  BY <1>1, Lengths, EmptyFacts, AppendFacts DEF SourceSends
<1>2. CASE SourceCloses
  BY <1>2, Lengths DEF SourceCloses
<1>3. CASE Connects
  BY <1>3, Lengths DEF Connects
<1>4. CASE ClientReads
  BY <1>4, Lengths, EmptyFacts DEF ClientReads
<1>5. CASE ClientSends
  BY <1>5, Lengths, EmptyFacts, ConcatFacts DEF ClientSends
<1>6. CASE ClientEnds
  BY <1>6, Lengths, EmptyFacts DEF ClientEnds
<1>7. CASE ClientCloses
  BY <1>7, Lengths DEF ClientCloses
<1>8. CASE WsCloses
  BY <1>8, Lengths DEF WsCloses
<1>9. CASE CloseTimesOut
  <2>1. UNCHANGED <<source, sent, in, held, client, server, out, got, dest>>
    BY <1>9 DEF CloseTimesOut
  <2>2. PICK n \in 0..Len(net) :
          /\ net' = SubSeq(net, 1, n)
          /\ causes' = IF n < Len(net) THEN causes \cup {"timeout"} ELSE causes
    BY <1>9 DEF CloseTimesOut, Cut
  <2>3. causes' = {} => causes = {} /\ Len(net') = Len(net)
    BY <2>2, Lengths, CutFacts
  <2>4. net = <<>> => net' = <<>>
    BY <1>9 DEF CloseTimesOut
  <2> QED
    BY <1>9, <2>1, <2>3, <2>4 DEF CloseTimesOut
<1>10. CASE WsFails
  BY <1>10, Lengths, EmptyFacts, CutFacts DEF WsFails
<1>11. CASE UnixConnects
  BY <1>11, Lengths DEF UnixConnects
<1>12. CASE Retries
  BY <1>12, Lengths DEF Retries
<1>13. CASE GivesUp
  BY <1>13, Lengths, EmptyFacts DEF GivesUp, HandlerOver
<1>14. CASE ForwardsMessage
  BY <1>14, Lengths, EmptyFacts, AppendFacts, TailFacts DEF ForwardsMessage, BelowLimit
<1>15. CASE HandlerEnds
  BY <1>15, Lengths DEF HandlerEnds, MessagesEnd
<1>16. CASE UnixCloses
  BY <1>16, Lengths, EmptyFacts DEF UnixCloses, HandlerOver
<1>17. CASE ServerStops
  BY <1>17, Lengths, EmptyFacts, CutFacts DEF ServerStops, HandlerOver
<1>18. CASE DestinationListens
  BY <1>18, Lengths DEF DestinationListens
<1>19. CASE DestinationReads
  BY <1>19, Lengths, EmptyFacts, AppendFacts, TailFacts DEF DestinationReads
<1>20. CASE DestinationSeesEnd
  BY <1>20, Lengths DEF DestinationSeesEnd
<1>21. CASE DestinationCloses
  BY <1>21, Lengths, EmptyFacts DEF DestinationCloses
<1>22. CASE ConnectFails
  BY <1>22, Lengths DEF ConnectFails
<1>23. CASE ServerExits
  BY <1>23, Lengths, EmptyFacts, CutFacts DEF ServerExits
<1>24. CASE DestinationEndsReplies
  BY <1>24, Lengths DEF DestinationEndsReplies
<1> QED
  BY <1>1, <1>2, <1>3, <1>4, <1>5, <1>6, <1>7, <1>8, <1>9, <1>10, <1>11,
     <1>12, <1>13, <1>14, <1>15, <1>16, <1>17, <1>18, <1>19, <1>20, <1>21,
     <1>22, <1>23, <1>24
     DEF Next, ClientStep, ServerStep, Outside

\* What is thrown away makes the sum smaller, never larger.
LEMMA CountSteps ==
  ASSUME IInv, Next
  PROVE  NoMoreThanSent'
PROOF
<1> USE SizesAssumption DEF IInv, TypeOK, Places, InOrder, NoMoreThanSent, NetPasses, WsPasses, srcSide, dstSide
<1>1. CASE SourceSends
  <2>1. sent' = sent + 1 /\ UNCHANGED <<net, out, got, server, dest>>
    BY <1>1 DEF SourceSends
  <2> QED
    BY <2>1, Lengths
<1>2. CASE SourceCloses
  BY <1>2, Lengths DEF SourceCloses
<1>3. CASE Connects
  BY <1>3, Lengths DEF Connects
<1>4. CASE ClientReads
  BY <1>4, Lengths, EmptyFacts DEF ClientReads
<1>5. CASE ClientSends
  BY <1>5, Lengths, EmptyFacts, ConcatFacts DEF ClientSends
<1>6. CASE ClientEnds
  BY <1>6, Lengths, EmptyFacts DEF ClientEnds
<1>7. CASE ClientCloses
  BY <1>7, Lengths DEF ClientCloses
<1>8. CASE WsCloses
  BY <1>8, Lengths DEF WsCloses
<1>9. CASE CloseTimesOut
  BY <1>9, Lengths, EmptyFacts, CutFacts DEF CloseTimesOut, Cut
<1>10. CASE WsFails
  <2>1. UNCHANGED <<sent, out, got, server, dest>>
    BY <1>10 DEF WsFails
  <2>2. Len(net') \in 0..Len(net)
    BY <1>10, Lengths, CutFacts DEF WsFails
  <2> QED
    BY <2>1, <2>2, Lengths
<1>11. CASE UnixConnects
  BY <1>11, Lengths DEF UnixConnects
<1>12. CASE Retries
  BY <1>12, Lengths DEF Retries
<1>13. CASE GivesUp
  BY <1>13, Lengths, EmptyFacts DEF GivesUp, HandlerOver
<1>14. CASE ForwardsMessage
  <2>1. /\ NetPasses /\ net # <<>> /\ UNCHANGED <<sent, got, server, dest>>
        /\ out' = Append(out, Head(net)) /\ net' = Tail(net)
    BY <1>14 DEF ForwardsMessage
  <2>2. Len(net') = Len(net) - 1 /\ Len(out') = Len(out) + 1
    BY <2>1, Lengths, AppendFacts, TailFacts
  <2> QED
    BY <2>1, <2>2, Lengths
<1>15. CASE HandlerEnds
  BY <1>15, Lengths DEF HandlerEnds, MessagesEnd
<1>16. CASE UnixCloses
  BY <1>16, Lengths, EmptyFacts DEF UnixCloses, HandlerOver
<1>17. CASE ServerStops
  BY <1>17, Lengths, EmptyFacts DEF ServerStops, HandlerOver
<1>18. CASE DestinationListens
  BY <1>18, Lengths DEF DestinationListens
<1>19. CASE DestinationReads
  <2>1. /\ out # <<>> /\ UNCHANGED <<sent, net, server, dest>>
        /\ got' = Append(got, Head(out)) /\ out' = Tail(out)
    BY <1>19 DEF DestinationReads
  <2>2. Len(out') = Len(out) - 1 /\ Len(got') = Len(got) + 1
    BY <2>1, Lengths, AppendFacts, TailFacts
  <2> QED
    BY <2>1, <2>2, Lengths
<1>20. CASE DestinationSeesEnd
  BY <1>20, Lengths DEF DestinationSeesEnd
<1>21. CASE DestinationCloses
  BY <1>21, Lengths, EmptyFacts DEF DestinationCloses
<1>22. CASE ConnectFails
  BY <1>22, Lengths DEF ConnectFails
<1>23. CASE ServerExits
  <2>1. UNCHANGED <<sent, got, server>> /\ server = "over"
    BY <1>23 DEF ServerExits
  <2>2. Len(out') \in 0..Len(out)
    BY <1>23, Lengths, CutFacts DEF ServerExits
  <2> QED
    BY <2>1, <2>2, Lengths
<1>24. CASE DestinationEndsReplies
  BY <1>24, Lengths DEF DestinationEndsReplies
<1> QED
  BY <1>1, <1>2, <1>3, <1>4, <1>5, <1>6, <1>7, <1>8, <1>9, <1>10, <1>11,
     <1>12, <1>13, <1>14, <1>15, <1>16, <1>17, <1>18, <1>19, <1>20, <1>21,
     <1>22, <1>23, <1>24
     DEF Next, ClientStep, ServerStep, Outside

-----------------------------------------------------------------------------
(* The theorems.                                                           *)

\* Nothing is on its way yet.
LEMMA InitIInv == Init => IInv
PROOF
<1> SUFFICES ASSUME Init PROVE IInv
  OBVIOUS
<1> USE SizesAssumption, EmptyFacts DEF Init
<1>1. TypeOK
  <2>1. \A q \in {in, held, net, out, got} : q \in Stream
    OBVIOUS
  <2>2. /\ Len(in) <= 1 /\ Len(held) <= 1 /\ Len(net) <= NetSize
        /\ Len(out) <= HighWater + 1
    OBVIOUS
  <2>3. sent \in 0..Chunks
    OBVIOUS
  <2>4. attempt \in 0..Attempts
    OBVIOUS
  <2>5. causes = {}
    OBVIOUS
  <2> QED
    BY <2>1, <2>2, <2>3, <2>4, <2>5 DEF TypeOK
<1>2. Places
  BY DEF Places
<1>3. InOrder
  BY DEF InOrder
<1>4. Complete
  BY DEF Complete
<1>5. NoMoreThanSent
  BY DEF NoMoreThanSent
<1> QED
  BY <1>1, <1>2, <1>3, <1>4, <1>5 DEF IInv

\* The conjuncts, put together.
LEMMA NextIInv == IInv /\ [Next]_vars => IInv'
PROOF
<1> SUFFICES ASSUME IInv, [Next]_vars PROVE IInv'
  OBVIOUS
<1>1. CASE UNCHANGED vars
  BY <1>1 DEF vars, IInv, TypeOK, Places, InOrder, Complete, NoMoreThanSent,
     NetPasses, WsPasses
<1>2. CASE Next
  BY <1>2, TypeSteps, PlacesSteps, OrderSteps, CompleteSteps, CountSteps DEF IInv
<1> QED
  BY <1>1, <1>2

\* The inductive invariant holds in every state.
THEOREM Invariance == Spec => []IInv
BY InitIInv, NextIInv, PTL DEF Spec

\* Every variable has its type; with it every buffer has its bound, also the one
\* that drain limits.
THEOREM TypeCorrect == Spec => []TypeOK
BY Invariance, PTL DEF IInv

-----------------------------------------------------------------------------
(* The refinement.                                                         *)

\* One more chunk sent is one more in the abstract stream.
LEMMA NumbersAppend ==
  ASSUME NEW n \in Nat
  PROVE  /\ [i \in 1..n |-> i] \in Seq(Nat) /\ Len([i \in 1..n |-> i]) = n
         /\ [i \in 1..(n + 1) |-> i] = Append([i \in 1..n |-> i], n + 1)
OBVIOUS

\* What is in order is the beginning of the abstract stream.
LEMMA RunIsPrefix ==
  ASSUME NEW s \in Stream, Run(s, 0), NEW n \in Nat, Len(s) <= n
  PROVE  s = SubSeq([i \in 1..n |-> i], 1, Len(s))
PROOF
<1> DEFINE t == SubSeq([i \in 1..n |-> i], 1, Len(s))
<1>1. Len(s) \in Nat /\ s \in Seq(Nat)
  <2>1. Len(s) \in Nat /\ s \in [1..Len(s) -> 1..Chunks]
    BY LenProperties DEF Stream
  <2>2. s \in [1..Len(s) -> Nat]
    BY <2>1
  <2> QED
    BY <2>1, <2>2
<1>2. /\ t \in Seq(Nat) /\ Len(t) = Len(s)
      /\ \A i \in 1..Len(s) : t[i] = i
  BY <1>1, SubSeqProperties
<1>3. \A i \in 1..Len(s) : s[i] = i
  BY <1>1 DEF Run
<1> QED
  BY <1>1, <1>2, <1>3, SeqEqual

\* What is in order and as long as the stream is the stream.
LEMMA RunIsAll ==
  ASSUME NEW s \in Stream, Run(s, 0), NEW n \in Nat, Len(s) = n
  PROVE  s = [i \in 1..n |-> i]
PROOF
<1>1. s \in [1..n -> 1..Chunks]
  BY LenProperties DEF Stream
<1>2. \A i \in 1..n : s[i] = i
  BY DEF Run
<1> QED
  BY <1>1, <1>2

\* Nothing is sent yet, and nothing read.
LEMMA FifoInit == Init => Fifo!Init
BY DEF Init, Fifo!Init

\* An end-of-stream without a cause is behind the source's own, and final.
LEMMA EndedIsFinal ==
  ASSUME IInv, dest = "ended", causes = {}
  PROVE  /\ source = "closed" /\ sent = Len(got)
         /\ client \in {"closing", "over"} /\ server = "over" /\ ws = "gone"
BY Lengths, EmptyFacts DEF IInv, TypeOK, Places, Complete

\* The steps that neither send nor read nor end leave the abstract state alone.
LEMMA OtherSteps ==
  ASSUME IInv, Next, ~SourceSends, ~DestinationReads, ~DestinationSeesEnd
  PROVE  /\ UNCHANGED <<sent, got>>
         /\ dest' = "ended" <=> dest = "ended"
         /\ dest = "ended" => (causes' = {} <=> causes = {})
PROOF
<1> USE DEF srcSide, dstSide
<1>1. CASE SourceCloses
  BY <1>1, EndedIsFinal DEF SourceCloses
<1>2. CASE Connects \/ ClientReads \/ ClientSends \/ ClientCloses \/ WsCloses
  BY <1>2 DEF Connects, ClientReads, ClientSends, ClientCloses, WsCloses
<1>3. CASE ClientEnds
  BY <1>3, EndedIsFinal DEF ClientEnds
<1>4. CASE CloseTimesOut \/ WsFails
  BY <1>4 DEF CloseTimesOut, WsFails, IInv, Places
<1>5. CASE UnixConnects \/ Retries \/ ForwardsMessage \/ UnixCloses
  BY <1>5 DEF UnixConnects, Retries, ForwardsMessage, UnixCloses
<1>6. CASE GivesUp \/ HandlerEnds \/ ServerStops
  BY <1>6 DEF GivesUp, HandlerEnds, ServerStops, IInv, Places
<1>7. CASE DestinationListens \/ DestinationCloses
  BY <1>7 DEF DestinationListens, DestinationCloses
<1>8. CASE ConnectFails \/ ServerExits \/ DestinationEndsReplies
  BY <1>8 DEF ConnectFails, ServerExits, DestinationEndsReplies, IInv, Places
<1> QED
  BY <1>1, <1>2, <1>3, <1>4, <1>5, <1>6, <1>7, <1>8
     DEF Next, ClientStep, ServerStep, Outside

\* A chunk sent is accepted, one read is delivered, and the end of the stream
\* finishes or gives up; every other step is a stutter.
LEMMA FifoStep ==
  ASSUME IInv, IInv', [Next]_vars
  PROVE  [Fifo!Next]_(Fifo!vars)
PROOF
<1> USE DEF Fifo!vars, Fifo!Next, srcSide, dstSide
<1>1. sent \in Nat /\ sent' \in Nat
  BY SizesAssumption DEF IInv, TypeOK
<1>2. CASE SourceSends
  <2>1. sent' = sent + 1 /\ UNCHANGED <<got, dest, causes>>
    BY <1>2 DEF SourceSends
  <2>2. ~(dest = "ended" /\ causes = {})
    BY <1>2, EndedIsFinal DEF SourceSends
  <2>3. [i \in 1..sent' |-> i]
          = Append([i \in 1..sent |-> i], Len([i \in 1..sent |-> i]) + 1)
    BY <1>1, <2>1, NumbersAppend
  <2> QED
    BY <2>1, <2>2, <2>3 DEF Fifo!Accept
<1>3. CASE DestinationReads
  <2>1. dest \in {"open", "half"} /\ UNCHANGED <<sent, dest, causes>>
    BY <1>3 DEF DestinationReads
  <2>2. Len(got') = Len(got) + 1
    BY <1>3, Lengths, AppendFacts, TailFacts DEF DestinationReads, IInv
  <2>3. got' \in Stream /\ Run(got', 0) /\ Len(got') \in Nat /\ Len(got') <= sent
    <3>1. TypeOK' /\ InOrder' /\ NoMoreThanSent'
      BY DEF IInv
    <3>2. got' \in Stream /\ Len(got') \in Nat /\ Len(out') \in Nat
      BY <3>1, EmptyFacts DEF TypeOK
    <3> QED
      BY <1>1, <2>1, <3>1, <3>2 DEF InOrder, NoMoreThanSent
  <2>4. got' = SubSeq([i \in 1..sent |-> i], 1, Len(got'))
    BY <1>1, <2>3, RunIsPrefix
  <2>5. Len([i \in 1..sent |-> i]) = sent /\ Len(got) \in Nat
    BY <1>1, NumbersAppend, Lengths DEF IInv
  <2>6. Len(got') \in Len(got)..Len([i \in 1..sent |-> i])
    BY <1>1, <2>2, <2>3, <2>5
  <2> QED
    BY <2>1, <2>4, <2>6 DEF Fifo!Deliver
<1>4. CASE DestinationSeesEnd
  <2>1. dest \in {"open", "half"} /\ dest' = "ended" /\ UNCHANGED <<sent, got, causes>>
    BY <1>4 DEF DestinationSeesEnd
  <2>2. CASE causes = {}
    <3>1. sent = Len(got)
      BY <2>1, <2>2, EndedIsFinal, EmptyFacts DEF IInv, TypeOK, Places, Complete
    <3>2. Len(got) \in Nat /\ got \in Stream /\ Run(got, 0)
      BY Lengths DEF IInv, InOrder
    <3>3. got = [i \in 1..sent |-> i]
      BY <1>1, <3>1, <3>2, RunIsAll
    <3> QED
      BY <2>1, <2>2, <3>3 DEF Fifo!Finish
  <2>3. CASE causes # {}
    BY <2>1, <2>3 DEF Fifo!GiveUp
  <2> QED
    BY <2>2, <2>3
<1>5. CASE Next /\ ~SourceSends /\ ~DestinationReads /\ ~DestinationSeesEnd
  BY <1>5, OtherSteps
<1>6. CASE UNCHANGED vars
  BY <1>6 DEF vars
<1> QED
  BY <1>2, <1>3, <1>4, <1>5, <1>6

\* The tunnel through the WebSocket pair is the abstract FIFO from QEMU to QEMU:
\* whatever fails, the destination reads a prefix of what was sent, and without
\* a cause its end-of-stream means all of it.
THEOREM Refinement == Spec => ImplementsFifo
PROOF
<1>1. Init => Fifo!Init
  BY FifoInit
<1>2. IInv /\ IInv' /\ [Next]_vars => [Fifo!Next]_(Fifo!vars)
  BY FifoStep
<1> QED
  BY <1>1, <1>2, Invariance, PTL DEF Spec, ImplementsFifo, Fifo!Spec
=============================================================================
