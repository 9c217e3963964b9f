------------------------- MODULE ForwardDataProofs -------------------------
(***************************************************************************)
(* What is proved of ForwardData for every MaxSize, FillChunks and         *)
(* StreamLen with FillChunks <= MaxSize.                                   *)
(***************************************************************************)
EXTENDS ForwardData, SequenceTheorems, TLAPS

\* A task that does not run and is not scheduled.
Parked(pc) == pc \in {"waiting", "done"}

\* Which handles are queued, and in which order, against the three program
\* counters.
ReadySets ==
  /\ fwd = "new" =>
       /\ ready = <<"fwd">> /\ rpc = "new" /\ wpc = "new"
       /\ queue = <<>> /\ ~closed /\ ~cancelled
  /\ fwd = "done" => ready = <<>> /\ rpc = "done" /\ wpc = "done"
  /\ fwd = "gather" =>
       \/ /\ ready = <<>> /\ Parked(rpc) /\ Parked(wpc)
          /\ ~(rpc = "done" /\ wpc = "done")
       \/ ready = <<"fwd">> /\ rpc = "done" /\ wpc = "done"
       \/ ready = <<"read">> /\ rpc = "ready" /\ Parked(wpc)
       \/ ready = <<"write">> /\ Parked(rpc) /\ wpc \in {"new", "ready"}
       \/ /\ ready = <<"read", "write">>
          /\ rpc \in {"new", "ready"} /\ wpc \in {"new", "ready"}
       \/ ready = <<"write", "read">> /\ rpc = "ready" /\ wpc \in {"new", "ready"}

\* The order of the handles is what keeps the queue short: when read_task is
\* the next to run, whatever it put before has been written.
WriterFirst ==
  ~cancelled /\ Runs("read") => queue = <<>>

\* The ends of the two tasks.
Ends ==
  /\ closed <=> rpc = "done"
  /\ ~cancelled /\ rpc = "done" => input # "open"
  /\ ~cancelled /\ rpc = "done" /\ input = "eof" => buffer = <<>>
  /\ ~cancelled /\ wpc = "done" => closed /\ queue = <<>>

Bounds == Len(buffer) <= FillChunks /\ Len(queue) <= FillChunks

IInv ==
  /\ TypeOK
  /\ ReadySets
  /\ WriterFirst
  /\ Ends
  /\ Bounds
  /\ NoIdleWork
  /\ Lossless
-----------------------------------------------------------------------------
(* Facts about sequences.                                                  *)

\* The handles that can be queued, put together.
LEMMA OneHandle ==
  ASSUME NEW h \in Handles
  PROVE  /\ <<h>> \in Seq(Handles) /\ <<h>> # <<>>
         /\ Head(<<h>>) = h /\ Tail(<<h>>) = <<>>
         /\ <<>> \o <<h>> = <<h>> /\ <<h>> \o <<>> = <<h>>
PROOF
<1>1. <<h>> \in Seq(Handles) /\ <<h>> # <<>>
  OBVIOUS
<1>2. Head(<<h>>) = h
  OBVIOUS
<1>3. Tail(<<h>>) = <<>>
  OBVIOUS
<1> QED
  BY <1>1, <1>2, <1>3, ConcatEmptySeq

LEMMA TwoHandles ==
  ASSUME NEW g \in Handles, NEW h \in Handles
  PROVE  /\ <<g, h>> \in Seq(Handles) /\ <<g, h>> # <<>>
         /\ Head(<<g, h>>) = g /\ Tail(<<g, h>>) = <<h>>
         /\ <<g>> \o <<h>> = <<g, h>>
         /\ <<>> \o <<g, h>> = <<g, h>> /\ <<g, h>> \o <<>> = <<g, h>>
PROOF
<1>1. <<g, h>> \in Seq(Handles) /\ <<g, h>> # <<>>
  OBVIOUS
<1>2. Head(<<g, h>>) = g
  OBVIOUS
<1>3. Tail(<<g, h>>) = <<h>>
  OBVIOUS
<1>4. <<g>> \o <<h>> = <<g, h>>
  <2> DEFINE one == <<g>>
             other == <<h>>
             both == <<g, h>>
  <2>1. one \in Seq(Handles) /\ Len(one) = 1 /\ one[1] = g
    OBVIOUS
  <2>2. other \in Seq(Handles) /\ Len(other) = 1 /\ other[1] = h
    OBVIOUS
  <2>3. both \in Seq(Handles) /\ Len(both) = 2 /\ both[1] = g /\ both[2] = h
    OBVIOUS
  <2> HIDE DEF one, other, both
  <2>4. /\ one \o other \in Seq(Handles)
        /\ Len(one \o other) = 2
        /\ \A i \in 1 .. 2 : (one \o other)[i] = IF i <= 1 THEN one[i] ELSE other[i - 1]
    BY <2>1, <2>2, ConcatProperties
  <2>5. \A i \in 1 .. 2 : (one \o other)[i] = both[i]
    BY <2>1, <2>2, <2>3, <2>4
  <2>6. one \o other = both
    BY <2>3, <2>4, <2>5, SeqEqual
  <2> QED
    BY <2>6 DEF one, other, both
<1> QED
  BY <1>1, <1>2, <1>3, <1>4, ConcatEmptySeq

LEMMA NoHandles == <<>> \o <<>> = <<>> /\ <<>> \in Seq(Handles)
PROOF BY ConcatEmptySeq, EmptySeq

\* The stream grows by its next number.
LEMMA NumbersGrow ==
  ASSUME NEW n \in Nat
  PROVE  Numbers(n + 1) = Append(Numbers(n), n + 1)
PROOF
<1>1. Numbers(n) \in Seq(Nat) /\ Len(Numbers(n)) = n
  BY DEF Numbers
<1>2. Numbers(n + 1) \in Seq(Nat) /\ Len(Numbers(n + 1)) = n + 1
  BY DEF Numbers
<1>3. Append(Numbers(n), n + 1) \in Seq(Nat)
      /\ Len(Append(Numbers(n), n + 1)) = n + 1
  BY <1>1
<1>4. \A i \in 1 .. n + 1 :
        Numbers(n + 1)[i] = Append(Numbers(n), n + 1)[i]
  BY <1>1 DEF Numbers
<1> QED
  BY <1>2, <1>3, <1>4, SeqEqual

LEMMA ConcatAppend ==
  ASSUME NEW S, NEW s \in Seq(S), NEW t \in Seq(S), NEW e \in S
  PROVE  s \o Append(t, e) = Append(s \o t, e)
PROOF
<1>1. Append(t, e) = t \o <<e>> /\ Append(s \o t, e) = (s \o t) \o <<e>>
  BY AppendIsConcat, ConcatProperties
<1>2. <<e>> \in Seq(S)
  OBVIOUS
<1> QED
  BY <1>1, <1>2, ConcatAssociative

LEMMA RegroupConcat ==
  \A s, q, b \in Seq(Nat) : (s \o q) \o b = s \o (q \o b)
PROOF
<1> TAKE s, q, b \in Seq(Nat)
<1> QED
  BY ConcatAssociative

LEMMA HeadTailConcat ==
  ASSUME NEW s \in Seq(Nat), s # <<>>
  PROVE  <<Head(s)>> \o Tail(s) = s
PROOF
<1>1. <<Head(s)>> \in Seq(Nat) /\ Tail(s) \in Seq(Nat)
  OBVIOUS
<1>2. /\ <<Head(s)>> \o Tail(s) \in Seq(Nat)
      /\ Len(<<Head(s)>> \o Tail(s)) = Len(s)
  OBVIOUS
<1>3. \A i \in 1 .. Len(s) : (<<Head(s)>> \o Tail(s))[i] = s[i]
  OBVIOUS
<1> QED
  BY <1>2, <1>3, SeqEqual

\* The concrete sums that the actions form.
LEMMA Queued ==
  /\ <<"fwd">> \in Seq(Handles) /\ <<"read">> \in Seq(Handles)
  /\ <<"write">> \in Seq(Handles) /\ <<"read", "write">> \in Seq(Handles)
  /\ <<"write", "read">> \in Seq(Handles) /\ <<>> \in Seq(Handles)
  /\ Tail(<<"fwd">>) = <<>> /\ Tail(<<"read">>) = <<>>
  /\ Tail(<<"write">>) = <<>> /\ Tail(<<"read", "write">>) = <<"write">>
  /\ Tail(<<"write", "read">>) = <<"read">>
  /\ Head(<<"fwd">>) = "fwd" /\ Head(<<"read">>) = "read"
  /\ Head(<<"write">>) = "write" /\ Head(<<"read", "write">>) = "read"
  /\ Head(<<"write", "read">>) = "write"
  /\ <<"read">> \o <<"write">> = <<"read", "write">>
  /\ <<"write">> \o <<"read">> = <<"write", "read">>
  /\ \A s \in Seq(Handles) : s \o <<>> = s /\ <<>> \o s = s
PROOF
<1>1. "fwd" \in Handles /\ "read" \in Handles /\ "write" \in Handles
  BY DEF Handles
<1> QED
  BY <1>1, OneHandle, TwoHandles, NoHandles, ConcatEmptySeq
-----------------------------------------------------------------------------
(* The invariant holds initially, and every action keeps it.               *)

LEMMA InitIInv == Init => IInv
PROOF
<1> SUFFICES ASSUME Init PROVE IInv
  OBVIOUS
<1> USE DEF Init
<1>1. TypeOK
  <2>1. ready \in Seq(Handles)
    BY Queued
  <2>2. buffer \in Seq(Nat) /\ queue \in Seq(Nat) /\ sent \in Seq(Nat)
    BY EmptySeq
  <2>3. arrived \in 0 .. StreamLen
    BY SizesAssumption
  <2>4. rpc \in TaskStates /\ wpc \in TaskStates
    BY DEF TaskStates
  <2> QED
    BY <2>1, <2>2, <2>3, <2>4 DEF TypeOK
<1>2. ReadySets /\ WriterFirst /\ Ends /\ NoIdleWork
  BY Queued DEF ReadySets, WriterFirst, Runs, Ends, NoIdleWork
<1>3. Bounds
  BY SizesAssumption DEF Bounds
<1>4. Lossless
  <2>1. Numbers(0) = <<>>
    BY DEF Numbers
  <2> QED
    BY <2>1, ConcatEmptySeq, EmptySeq DEF Lossless
<1> QED
  BY <1>1, <1>2, <1>3, <1>4 DEF IInv

LEMMA WakeReaderKeeps ==
  ASSUME IInv, WakeReader, UNCHANGED <<fwd, wpc, cancelled, queue, closed>>
  PROVE  /\ ready' \in Seq(Handles) /\ rpc' \in TaskStates
         /\ ReadySets' /\ WriterFirst'
         /\ rpc' # "waiting" /\ (rpc' = "done" <=> rpc = "done")
PROOF
<1> USE DEF IInv, WakeReader, Woken, Wakeup
<1>1. CASE rpc = "waiting"
  <2>1. rpc' = "ready" /\ ready' = ready \o <<"read">>
    BY <1>1
  <2>2. /\ fwd = "gather"
        /\ wpc = "waiting" => queue = <<>>
        /\ \/ ready = <<>> /\ ready' = <<"read">> /\ Parked(wpc)
           \/ /\ ready = <<"write">> /\ ready' = <<"write", "read">>
              /\ wpc \in {"new", "ready"}
    BY <1>1, <2>1, Queued DEF ReadySets, Parked, NoIdleWork, TypeOK
  <2>3. ~cancelled /\ wpc = "done" => queue = <<>>
    BY DEF Ends
  <2> QED
    BY <1>1, <2>1, <2>2, <2>3, Queued
    DEF ReadySets, Parked, WriterFirst, Runs, TaskStates, TypeOK, Ends
<1>2. CASE rpc # "waiting"
  <2>1. rpc' = rpc /\ ready' = ready
    BY <1>2, Queued DEF TypeOK
  <2> QED
    BY <1>2, <2>1 DEF ReadySets, Parked, WriterFirst, Runs, TypeOK
<1> QED
  BY <1>1, <1>2

LEMMA FeedDataKeeps == IInv /\ FeedData => IInv'
PROOF
<1> SUFFICES ASSUME IInv, FeedData PROVE IInv'
  OBVIOUS
<1> USE DEF IInv, FeedData
<1>1. /\ ready' \in Seq(Handles) /\ rpc' \in TaskStates
      /\ ReadySets' /\ WriterFirst'
      /\ rpc' # "waiting" /\ (rpc' = "done" <=> rpc = "done")
  BY WakeReaderKeeps
<1>2. /\ arrived \in Nat /\ buffer \in Seq(Nat) /\ queue \in Seq(Nat)
      /\ sent \in Seq(Nat) /\ arrived + 1 \in Nat
  BY DEF TypeOK
<1>3. TypeOK'
  BY <1>1, <1>2, SizesAssumption DEF TypeOK
<1>4. Ends'
  BY <1>1 DEF Ends
<1>5. Bounds'
  BY <1>2, SizesAssumption DEF Bounds
<1>6. NoIdleWork'
  BY <1>1 DEF NoIdleWork
<1>7. Lossless'
  <2>1. sent \o queue \in Seq(Nat)
    BY <1>2, ConcatProperties
  <2>2. sent \o queue \o buffer = Numbers(arrived)
    BY DEF Lossless
  <2>3. (sent \o queue) \o Append(buffer, arrived + 1)
          = Append((sent \o queue) \o buffer, arrived + 1)
    BY ONLY <1>2, <2>1, ConcatAppend
  <2>4. Append(Numbers(arrived), arrived + 1) = Numbers(arrived + 1)
    BY <1>2, NumbersGrow
  <2>5. sent' = sent /\ queue' = queue /\ arrived' = arrived + 1
        /\ buffer' = Append(buffer, arrived + 1)
    OBVIOUS
  <2>6. (sent \o queue) \o Append(buffer, arrived + 1) = Numbers(arrived + 1)
    BY ONLY <2>2, <2>3, <2>4
  <2> QED
    BY <2>5, <2>6 DEF Lossless
<1> QED
  BY <1>1, <1>3, <1>4, <1>5, <1>6, <1>7

LEMMA FeedEofKeeps == IInv /\ FeedEof => IInv'
PROOF
<1> SUFFICES ASSUME IInv, FeedEof PROVE IInv'
  OBVIOUS
<1> USE DEF IInv, FeedEof
<1>1. /\ ready' \in Seq(Handles) /\ rpc' \in TaskStates
      /\ ReadySets' /\ WriterFirst'
      /\ rpc' # "waiting" /\ (rpc' = "done" <=> rpc = "done")
  BY WakeReaderKeeps
<1>2. TypeOK'
  BY <1>1 DEF TypeOK
<1>3. Ends'
  BY <1>1 DEF Ends
<1>4. Bounds' /\ NoIdleWork' /\ Lossless'
  BY <1>1 DEF Bounds, NoIdleWork, Lossless
<1> QED
  BY <1>1, <1>2, <1>3, <1>4

LEMMA SetExceptionKeeps == IInv /\ SetException => IInv'
PROOF
<1> SUFFICES ASSUME IInv, SetException PROVE IInv'
  OBVIOUS
<1> USE DEF IInv, SetException
<1>1. /\ ready' \in Seq(Handles) /\ rpc' \in TaskStates
      /\ ReadySets' /\ WriterFirst'
      /\ rpc' # "waiting" /\ (rpc' = "done" <=> rpc = "done")
  BY WakeReaderKeeps
<1>2. TypeOK'
  BY <1>1 DEF TypeOK
<1>3. Ends'
  BY <1>1 DEF Ends
<1>4. Bounds' /\ NoIdleWork' /\ Lossless'
  BY <1>1 DEF Bounds, NoIdleWork, Lossless
<1> QED
  BY <1>1, <1>2, <1>3, <1>4

\* read_task is the next to run only in two arrangements of the handles.
LEMMA ReaderIsNext ==
  ASSUME IInv, Runs("read")
  PROVE  /\ fwd = "gather" /\ rpc \in {"new", "ready"}
         /\ \/ ready = <<"read">> /\ Parked(wpc)
            \/ ready = <<"read", "write">> /\ wpc \in {"new", "ready"}
PROOF
<1>1. Head(<<"fwd">>) # "read" /\ Head(<<"write">>) # "read"
      /\ Head(<<"write", "read">>) # "read"
  BY Queued
<1>2. ready # <<>> /\ Head(ready) = "read"
  BY DEF Runs
<1>3. fwd \in {"new", "gather", "done"}
  BY DEF IInv, TypeOK
<1> QED
  BY <1>1, <1>2, <1>3 DEF IInv, ReadySets

LEMMA ReadTaskKeeps == IInv /\ ReadTask => IInv'
PROOF
<1> SUFFICES ASSUME IInv, ReadTask PROVE IInv'
  OBVIOUS
<1> USE DEF IInv, ReadTask
<1>1. /\ fwd = "gather" /\ rpc \in {"new", "ready"} /\ ~closed
      /\ \/ ready = <<"read">> /\ Parked(wpc)
         \/ ready = <<"read", "write">> /\ wpc \in {"new", "ready"}
  BY ReaderIsNext DEF Ends
<1>2. /\ buffer \in Seq(Nat) /\ queue \in Seq(Nat) /\ sent \in Seq(Nat)
      /\ wpc \in TaskStates
  BY DEF TypeOK
<1>3. ~cancelled => queue = <<>> /\ wpc # "done"
  BY <1>1 DEF WriterFirst, Ends
\* What the slice does to the data.
<1>4. /\ queue' \in Seq(Nat) /\ buffer' \in Seq(Nat)
      /\ (sent \o queue) \o buffer = (sent \o queue') \o buffer'
      /\ Len(queue') <= FillChunks /\ Len(buffer') <= FillChunks
      /\ closed' \in BOOLEAN /\ rpc' \in {"waiting", "done"}
      /\ (closed' <=> rpc' = "done")
      /\ ~cancelled /\ input # "error" => buffer' = <<>>
      /\ rpc' = "waiting" => ~cancelled /\ input = "open" /\ buffer' = <<>>
      /\ ~cancelled /\ rpc' = "done" => input # "open"
  <2>1. CASE cancelled
    BY <1>1, <1>2, <2>1 DEF ReadAborted, Bounds
  <2>3. CASE ~cancelled /\ input = "error"
    <3>1. queue = <<>> /\ closed' = TRUE /\ rpc' = "done"
      BY <1>3, <2>3 DEF ReadFails
    <3>2. CASE ReadWoken
      <4> DEFINE h == Head(buffer)
      <4>1. /\ buffer # <<>> /\ h \in Nat /\ Tail(buffer) \in Seq(Nat)
            /\ Len(Tail(buffer)) <= Len(buffer)
            /\ <<h>> \in Seq(Nat) /\ Len(<<h>>) = 1
        BY <1>2, <3>2 DEF ReadWoken
      <4>2. queue' = <<h>>
        <5>1. <<>> \o <<h>> = <<h>>
          BY <4>1, ConcatEmptySeq
        <5>2. queue' = Put(queue, <<h>>)
          BY <2>3, <3>2 DEF ReadFails
        <5> QED
          BY <1>1, <3>1, <4>1, <5>1, <5>2, SizesAssumption DEF Put, Newest
      <4>3. buffer' = Tail(buffer)
        BY <2>3, <3>2 DEF ReadFails
      <4>4. <<h>> \o Tail(buffer) = buffer
        BY <1>2, <4>1, HeadTailConcat
      <4>5. (sent \o queue) \o buffer = (sent \o <<h>>) \o Tail(buffer)
        <5>1. sent \o queue = sent
          BY <1>2, <3>1, ConcatEmptySeq
        <5>2. (sent \o <<h>>) \o Tail(buffer) = sent \o (<<h>> \o Tail(buffer))
          BY <1>2, <4>1, RegroupConcat
        <5> QED
          BY ONLY <4>4, <5>1, <5>2
      <4> HIDE DEF h
      <4>6. Len(queue') <= FillChunks
        BY <4>1, <4>2, SizesAssumption
      <4>7. Len(buffer') <= FillChunks
        BY <1>2, <4>1, <4>3, SizesAssumption DEF Bounds
      <4>8. (sent \o queue) \o buffer = (sent \o queue') \o buffer'
        BY ONLY <4>2, <4>3, <4>5
      <4>9. queue' \in Seq(Nat) /\ buffer' \in Seq(Nat)
        BY ONLY <4>1, <4>2, <4>3
      <4> QED
        BY ONLY <2>3, <3>1, <4>6, <4>7, <4>8, <4>9
    <3>3. CASE ~ReadWoken
      <4>1. UNCHANGED <<queue, buffer>>
        BY <2>3, <3>3 DEF ReadFails
      <4> QED
        BY <1>2, <2>3, <3>1, <4>1 DEF Bounds
    <3> QED
      BY <3>2, <3>3
  <2>2. CASE ~(cancelled \/ input = "error")
    <3>1. queue = <<>> /\ ReadChunks
      BY <1>3, <2>2 DEF ReadFails, ReadAborted
    <3>2. <<>> \o buffer = buffer /\ sent \o <<>> = sent
      BY <1>2, ConcatEmptySeq
    <3>3. Len(buffer) <= MaxSize
      BY <1>2, FillAssumption, SizesAssumption DEF Bounds
    <3>4. queue' = buffer
      BY <1>1, <3>1, <3>2, <3>3 DEF ReadChunks, Put, Newest
    <3>5. (sent \o buffer) \o <<>> = sent \o buffer
      BY <1>2, ConcatProperties, ConcatEmptySeq
    <3>6. Len(<<>>) <= FillChunks /\ <<>> \in Seq(Nat)
      BY SizesAssumption
    <3>7. input \in {"open", "eof"}
      BY <2>2 DEF TypeOK
    <3> QED
      BY <1>1, <1>2, <2>2, <3>1, <3>2, <3>4, <3>5, <3>6, <3>7
      DEF ReadChunks, Bounds
  <2> QED
    BY <2>1, <2>2, <2>3
\* What it does to the handles.
<1>5. /\ wpc' # "waiting" \/ (queue' = <<>> /\ ~closed')
      /\ wpc' = wpc \/ (wpc = "waiting" /\ wpc' = "ready")
  BY <1>2, <1>4 DEF NotifyWriter, Woken, NoIdleWork
<1>6. \/ ready' = <<>> /\ wpc' = wpc /\ Parked(wpc) /\ ~(rpc' = "done" /\ wpc' = "done")
      \/ ready' = <<"fwd">> /\ rpc' = "done" /\ wpc' = "done"
      \/ ready' = <<"write">> /\ wpc' \in {"new", "ready"}
  <2> DEFINE woken == IF wpc' # wpc THEN <<"write">> ELSE <<>>
             result == GatherResult(rpc', wpc')
  <2>1. ready' = Tail(ready) \o woken \o result
    OBVIOUS
  <2>2. CASE ready = <<"read">> /\ wpc' # wpc
    <3>1. woken = <<"write">> /\ result = <<>> /\ wpc' = "ready"
      BY <1>5, <2>2 DEF GatherResult
    <3> QED
      BY <2>1, <2>2, <3>1, Queued
  <2>3. CASE ready = <<"read">> /\ wpc' = wpc
    <3>1. woken = <<>> /\ Parked(wpc)
      BY <1>1, <2>3 DEF Parked
    <3>2. ready' = result
      <4>1. result \in Seq(Handles)
        BY Queued DEF GatherResult
      <4>2. Tail(ready) = <<>>
        BY <2>3, Queued
      <4> HIDE DEF woken, result
      <4> QED
        BY <2>1, <3>1, <4>1, <4>2, Queued
    <3> QED
      BY <2>3, <3>1, <3>2 DEF GatherResult
  <2>4. CASE ready = <<"read", "write">> /\ wpc \in {"new", "ready"}
    <3>1. wpc' = wpc /\ woken = <<>> /\ result = <<>>
      BY <1>5, <2>4 DEF GatherResult
    <3> QED
      BY <2>1, <2>4, <3>1, Queued
  <2> QED
    BY <1>1, <2>2, <2>3, <2>4
<1>7. TypeOK'
  BY <1>4, <1>5, <1>6, Queued DEF TypeOK, TaskStates
<1>8. ReadySets' /\ WriterFirst'
  BY <1>1, <1>4, <1>5, <1>6, Queued DEF ReadySets, WriterFirst, Runs, Parked
<1>9. Ends'
  BY <1>3, <1>4, <1>5 DEF Ends
<1>10. Bounds' /\ NoIdleWork'
  BY <1>4, <1>5 DEF Bounds, NoIdleWork
<1>11. Lossless'
  BY <1>4 DEF Lossless
<1> QED
  BY <1>7, <1>8, <1>9, <1>10, <1>11

\* write_task is the next to run only in two arrangements of the handles.
LEMMA WriterIsNext ==
  ASSUME IInv, Runs("write")
  PROVE  /\ fwd = "gather" /\ wpc \in {"new", "ready"}
         /\ \/ ready = <<"write">> /\ Parked(rpc)
            \/ ready = <<"write", "read">> /\ rpc = "ready"
PROOF
<1>1. Head(<<"fwd">>) # "write" /\ Head(<<"read">>) # "write"
      /\ Head(<<"read", "write">>) # "write"
  BY Queued
<1>2. ready # <<>> /\ Head(ready) = "write"
  BY DEF Runs
<1>3. fwd \in {"new", "gather", "done"}
  BY DEF IInv, TypeOK
<1> QED
  BY <1>1, <1>2, <1>3 DEF IInv, ReadySets

LEMMA WriteTaskKeeps == IInv /\ WriteTask => IInv'
PROOF
<1> SUFFICES ASSUME IInv, WriteTask PROVE IInv'
  OBVIOUS
<1> USE DEF IInv, WriteTask
<1>1. /\ fwd = "gather" /\ wpc \in {"new", "ready"}
      /\ \/ ready = <<"write">> /\ Parked(rpc)
         \/ ready = <<"write", "read">> /\ rpc = "ready"
  BY WriterIsNext
<1>2. /\ buffer \in Seq(Nat) /\ queue \in Seq(Nat) /\ sent \in Seq(Nat)
      /\ rpc \in TaskStates
  BY DEF TypeOK
<1>3. /\ queue' \in Seq(Nat) /\ sent' \in Seq(Nat)
      /\ sent' \o queue' = sent \o queue
      /\ Len(queue') <= FillChunks
      /\ ~cancelled => queue' = <<>>
      /\ wpc' \in {"waiting", "done"}
      /\ wpc' = "waiting" => queue' = <<>> /\ ~closed /\ ~cancelled
      /\ ~cancelled /\ wpc' = "done" => closed
  <2>1. CASE cancelled
    BY <1>2, <2>1 DEF WriteAborted, Bounds
  <2>2. CASE ~cancelled
    <3>1. /\ sent' = sent \o queue /\ queue' = <<>>
          /\ wpc' = IF closed THEN "done" ELSE "waiting"
      BY <2>2 DEF WriteItems, GotItems, GotNone
    <3>2. sent \o queue \in Seq(Nat) /\ (sent \o queue) \o <<>> = sent \o queue
      BY <1>2, ConcatProperties, ConcatEmptySeq
    <3>3. Len(<<>>) <= FillChunks /\ <<>> \in Seq(Nat)
      BY SizesAssumption
    <3> QED
      BY <2>2, <3>1, <3>2, <3>3
  <2> QED
    BY <2>1, <2>2
<1>4. \/ ready' = <<>> /\ Parked(rpc) /\ ~(rpc = "done" /\ wpc' = "done")
      \/ ready' = <<"fwd">> /\ rpc = "done" /\ wpc' = "done"
      \/ ready' = <<"read">> /\ rpc = "ready"
  <2> DEFINE result == GatherResult(rpc, wpc')
  <2>1. ready' = Tail(ready) \o result /\ result \in Seq(Handles)
    BY Queued DEF GatherResult
  <2>2. CASE ready = <<"write">> /\ Parked(rpc)
    <3>1. ready' = result
      BY <2>1, <2>2, Queued
    <3> QED
      BY <2>2, <3>1 DEF GatherResult
  <2>3. CASE ready = <<"write", "read">> /\ rpc = "ready"
    <3>1. result = <<>>
      BY <2>3 DEF GatherResult
    <3> QED
      BY <2>1, <2>3, <3>1, Queued
  <2> QED
    BY <1>1, <2>2, <2>3
<1>5. TypeOK'
  BY <1>3, <1>4, Queued DEF TypeOK, TaskStates
<1>6. ReadySets' /\ WriterFirst'
  BY <1>1, <1>3, <1>4, Queued DEF ReadySets, WriterFirst, Runs, Parked
<1>7. Ends'
  BY <1>1, <1>3 DEF Ends
<1>8. Bounds' /\ NoIdleWork'
  BY <1>3 DEF Bounds, NoIdleWork
<1>9. Lossless'
  BY <1>3 DEF Lossless
<1> QED
  BY <1>5, <1>6, <1>7, <1>8, <1>9

LEMMA StartTasksKeeps == IInv /\ StartTasks => IInv'
PROOF
<1> SUFFICES ASSUME IInv, StartTasks PROVE IInv'
  OBVIOUS
<1> USE DEF IInv, StartTasks
<1>1. ready = <<"fwd">> /\ rpc = "new" /\ wpc = "new" /\ queue = <<>>
      /\ ~closed /\ ~cancelled
  BY DEF ReadySets
<1>2. ready' = <<"read", "write">>
  BY <1>1, Queued
<1>3. TypeOK'
  BY <1>2, Queued DEF TypeOK
<1>4. ReadySets' /\ WriterFirst'
  BY <1>1, <1>2 DEF ReadySets, WriterFirst
<1>5. Ends' /\ Bounds' /\ NoIdleWork' /\ Lossless'
  BY <1>1 DEF Ends, Bounds, NoIdleWork, Lossless
<1> QED
  BY <1>3, <1>4, <1>5

LEMMA ReturnKeeps == IInv /\ Return => IInv'
PROOF
<1> SUFFICES ASSUME IInv, Return PROVE IInv'
  OBVIOUS
<1> USE DEF IInv, Return
<1>1. ready = <<"fwd">> /\ rpc = "done" /\ wpc = "done"
  <2>1. Head(<<"read">>) # "fwd" /\ Head(<<"write">>) # "fwd"
        /\ Head(<<"read", "write">>) # "fwd" /\ Head(<<"write", "read">>) # "fwd"
    BY Queued
  <2>2. ready # <<>> /\ Head(ready) = "fwd" /\ fwd = "gather"
    BY DEF Runs
  <2> QED
    BY <2>1, <2>2 DEF ReadySets
<1>2. ready' = <<>>
  BY <1>1, Queued
<1>3. TypeOK'
  BY <1>2, Queued DEF TypeOK
<1>4. ReadySets' /\ WriterFirst'
  BY <1>1, <1>2 DEF ReadySets, WriterFirst, Runs
<1>5. Ends' /\ Bounds' /\ NoIdleWork' /\ Lossless'
  BY <1>1 DEF Ends, Bounds, NoIdleWork, Lossless
<1> QED
  BY <1>3, <1>4, <1>5

LEMMA CancelKeeps == IInv /\ Cancel => IInv'
PROOF
<1> SUFFICES ASSUME IInv, Cancel PROVE IInv'
  OBVIOUS
<1> USE DEF IInv, Cancel
<1>1. /\ rpc \in {"waiting", "ready", "done"} /\ wpc \in {"waiting", "ready", "done"}
      /\ rpc' = IF rpc = "waiting" THEN "ready" ELSE rpc
      /\ wpc' = IF wpc = "waiting" THEN "ready" ELSE wpc
  BY DEF TypeOK, TaskStates, Woken
<1>2. ready' = (ready \o (IF rpc = "waiting" THEN <<"read">> ELSE <<>>))
                 \o (IF wpc = "waiting" THEN <<"write">> ELSE <<>>)
  BY DEF Wakeup
<1>3. ready' \in Seq(Handles) /\ ReadySets'
  <2>1. CASE ready = <<>> /\ Parked(rpc) /\ Parked(wpc)
             /\ ~(rpc = "done" /\ wpc = "done")
    BY <1>1, <1>2, <2>1, Queued DEF ReadySets, Parked
  <2>2. CASE ready = <<"fwd">> /\ rpc = "done" /\ wpc = "done"
    BY <1>1, <1>2, <2>2, Queued DEF ReadySets
  <2>3. CASE ready = <<"read">> /\ rpc = "ready" /\ Parked(wpc)
    BY <1>1, <1>2, <2>3, Queued DEF ReadySets, Parked
  <2>4. CASE ready = <<"write">> /\ Parked(rpc) /\ wpc \in {"new", "ready"}
    BY <1>1, <1>2, <2>4, Queued DEF ReadySets, Parked
  <2>5. CASE \/ /\ ready = <<"read", "write">>
                /\ rpc \in {"new", "ready"} /\ wpc \in {"new", "ready"}
             \/ /\ ready = <<"write", "read">>
                /\ rpc = "ready" /\ wpc \in {"new", "ready"}
    BY <1>1, <1>2, <2>5, Queued DEF ReadySets
  <2> QED
    BY <2>1, <2>2, <2>3, <2>4, <2>5 DEF ReadySets
<1>4. TypeOK'
  BY <1>1, <1>3 DEF TypeOK, TaskStates
<1>5. WriterFirst' /\ Ends' /\ Bounds' /\ NoIdleWork' /\ Lossless'
  BY <1>1 DEF WriterFirst, Ends, Bounds, NoIdleWork, Lossless
<1> QED
  BY <1>3, <1>4, <1>5
-----------------------------------------------------------------------------
(* Theorems.                                                               *)

LEMMA NextKeeps == IInv /\ [Next]_vars => IInv'
PROOF
<1> SUFFICES ASSUME IInv, [Next]_vars PROVE IInv'
  OBVIOUS
<1>1. CASE LoopStep
  BY <1>1, StartTasksKeeps, ReadTaskKeeps, WriteTaskKeeps, ReturnKeeps
  DEF LoopStep
<1>2. CASE Outside
  BY <1>2, FeedDataKeeps, FeedEofKeeps, SetExceptionKeeps, CancelKeeps
  DEF Outside
<1>3. CASE UNCHANGED vars
  BY <1>3 DEF vars, IInv, TypeOK, ReadySets, WriterFirst, Runs, Ends, Bounds,
              NoIdleWork, Lossless
<1> QED
  BY <1>1, <1>2, <1>3 DEF Next

THEOREM Invariance == Spec => []IInv
PROOF
<1> QED
  BY InitIInv, NextKeeps, PTL DEF Spec

\* Every variable keeps its type, and `ready` is a FIFO of handles.
THEOREM TypeCorrect == Spec => []TypeOK
PROOF
<1>1. IInv => TypeOK
  BY DEF IInv
<1> QED
  BY <1>1, Invariance, PTL

\* For every queue capacity and every StreamReader that fits it, forward_data
\* neither loses, nor duplicates, nor reorders a chunk: the drop-oldest append
\* of CircularQueue.put never drops anything.
THEOREM NeverDrops == Spec => []Lossless
PROOF
<1>1. IInv => Lossless
  BY DEF IInv
<1> QED
  BY <1>1, Invariance, PTL

\* The backlog of write_task is at most what one StreamReader holds, whatever
\* the capacity of the queue.
THEOREM BacklogIsBounded == Spec => []BacklogBounded
PROOF
<1>1. IInv => BacklogBounded
  BY DEF IInv, Bounds, BacklogBounded
<1> QED
  BY <1>1, Invariance, PTL

\* No wakeup is lost between put, get, close, feed_data and read.
THEOREM NoLostWakeup == Spec => []NoIdleWork
PROOF
<1>1. IInv => NoIdleWork
  BY DEF IInv
<1> QED
  BY <1>1, Invariance, PTL

\* forward_data returns by itself only after everything was flushed.
THEOREM ReturnsFlushed == Spec => []FlushedOnReturn
PROOF
<1>1. IInv => FlushedOnReturn
  <2> SUFFICES ASSUME IInv, fwd = "done", ~cancelled
               PROVE  /\ closed /\ queue = <<>>
                      /\ input = "eof" => sent = Numbers(arrived)
    BY DEF FlushedOnReturn
  <2>1. rpc = "done" /\ wpc = "done" /\ closed /\ queue = <<>>
    BY DEF IInv, ReadySets, Ends
  <2>2. ASSUME input = "eof" PROVE sent = Numbers(arrived)
    <3>1. buffer = <<>>
      BY <2>1, <2>2 DEF IInv, Ends
    <3>2. sent \in Seq(Nat) /\ sent \o <<>> = sent
      BY ConcatEmptySeq DEF IInv, TypeOK
    <3> QED
      BY <2>1, <3>1, <3>2 DEF IInv, Lossless
  <2> QED
    BY <2>1, <2>2
<1> QED
  BY <1>1, Invariance, PTL
-----------------------------------------------------------------------------
(* forward_data implements the FIFO.                                       *)

LEMMA PrefixOfConcat ==
  ASSUME NEW S, NEW s \in Seq(S), NEW t \in Seq(S)
  PROVE  /\ s = SubSeq(s \o t, 1, Len(s))
         /\ Len(s) <= Len(s \o t)
PROOF
<1>1. /\ s \o t \in Seq(S) /\ Len(s \o t) = Len(s) + Len(t)
      /\ \A i \in 1 .. Len(s) : (s \o t)[i] = s[i]
  BY ConcatProperties
<1>2. /\ SubSeq(s \o t, 1, Len(s)) \in Seq(S)
      /\ Len(SubSeq(s \o t, 1, Len(s))) = Len(s)
      /\ \A i \in 1 .. Len(s) : SubSeq(s \o t, 1, Len(s))[i] = s[i]
  BY <1>1
<1>3. s = SubSeq(s \o t, 1, Len(s))
  BY <1>2, SeqEqual
<1> QED
  BY <1>1, <1>3

\* What was written is always a prefix of what has arrived.
LEMMA SentIsPrefix ==
  ASSUME NEW s \in Seq(Nat), NEW q \in Seq(Nat), NEW b \in Seq(Nat), NEW n \in Nat,
         s \o q \o b = Numbers(n)
  PROVE  /\ s = SubSeq(Numbers(n), 1, Len(s))
         /\ Len(s) \in Nat /\ Len(s) <= Len(Numbers(n))
PROOF
<1> DEFINE rest == q \o b
<1>1. rest \in Seq(Nat)
  BY ConcatProperties
<1>2. s \o rest = Numbers(n)
  <2>1. (s \o q) \o b = s \o (q \o b)
    BY RegroupConcat
  <2> QED
    BY <2>1
<1>3. Len(s) \in Nat
  OBVIOUS
<1> HIDE DEF rest
<1> QED
  BY <1>1, <1>2, <1>3, PrefixOfConcat

LEMMA FifoInit == Init => Fifo!Init
PROOF
<1>1. Numbers(0) = <<>>
  BY DEF Numbers
<1> QED
  BY <1>1 DEF Init, Fifo!Init

LEMMA FifoStep ==
  ASSUME IInv, IInv', [Next]_vars
  PROVE  [Fifo!Next]_(Fifo!vars)
PROOF
<1> USE DEF Fifo!vars, Fifo!Next
<1>1. CASE FeedData
  <2>1. arrived \in Nat
    BY DEF IInv, TypeOK
  <2>2. Numbers(arrived + 1) = Append(Numbers(arrived), arrived + 1)
    BY <2>1, NumbersGrow
  <2>3. Len(Numbers(arrived)) = arrived
    BY <2>1 DEF Numbers
  <2>4. ~(fwd = "done" /\ ~cancelled /\ input # "error")
    BY <1>1 DEF FeedData, IInv, ReadySets, Ends
  <2> QED
    BY <1>1, <2>2, <2>3, <2>4 DEF FeedData, Fifo!Accept
<1>2. CASE FeedEof
  BY <1>2 DEF FeedEof, IInv, ReadySets, Ends
<1>3. CASE SetException
  BY <1>3 DEF SetException, IInv, ReadySets
<1>4. CASE StartTasks
  BY <1>4 DEF StartTasks
<1>5. CASE ReadTask
  <2>1. fwd = "gather"
    BY <1>5, ReaderIsNext DEF ReadTask
  <2> QED
    BY <1>5, <2>1 DEF ReadTask
<1>6. CASE WriteTask
  <2>1. fwd = "gather" /\ fwd' = fwd /\ arrived' = arrived
    BY <1>6, WriterIsNext DEF WriteTask
  <2>2. sent' = SubSeq(Numbers(arrived), 1, Len(sent'))
        /\ Len(sent') \in Nat /\ Len(sent') <= Len(Numbers(arrived))
    <3>1. /\ sent' \in Seq(Nat) /\ queue' \in Seq(Nat) /\ buffer' \in Seq(Nat)
          /\ arrived' \in Nat
          /\ sent' \o queue' \o buffer' = Numbers(arrived')
      BY DEF IInv, TypeOK, Lossless
    <3>2. /\ sent' = SubSeq(Numbers(arrived'), 1, Len(sent'))
          /\ Len(sent') \in Nat /\ Len(sent') <= Len(Numbers(arrived'))
      BY ONLY <3>1, SentIsPrefix
    <3> QED
      BY ONLY <2>1, <3>2
  <2>3. Len(sent) \in Nat /\ Len(sent) <= Len(sent')
    <3>1. sent \in Seq(Nat) /\ queue \in Seq(Nat)
      BY DEF IInv, TypeOK
    <3>2. sent' = sent \/ sent' = sent \o queue
      BY <1>6 DEF WriteTask, WriteItems, WriteAborted, GotItems
    <3> QED
      BY ONLY <3>1, <3>2, ConcatProperties
  <2>4. Len(Numbers(arrived)) \in Nat
    BY DEF IInv, TypeOK, Numbers
  <2>5. Len(sent') \in Len(sent) .. Len(Numbers(arrived))
    BY <2>2, <2>3, <2>4
  <2> QED
    BY <2>1, <2>2, <2>5 DEF Fifo!Deliver
<1>7. CASE Return
  <2>1. fwd = "gather" /\ fwd' = "done"
    BY <1>7 DEF Return
  <2>2. rpc' = "done" /\ input' = input /\ cancelled' = cancelled
        /\ sent' = sent /\ arrived' = arrived
    BY <1>7, <2>1 DEF Return, IInv, ReadySets
  <2>3. CASE cancelled \/ input = "error"
    BY <2>1, <2>2, <2>3 DEF Fifo!GiveUp
  <2>4. CASE ~(cancelled \/ input = "error")
    <3>1. input' = "eof" /\ ~cancelled' /\ closed' /\ queue' = <<>>
          /\ buffer' = <<>>
      BY <2>1, <2>2, <2>4 DEF IInv, TypeOK, Ends, ReadySets
    <3>2. sent' \in Seq(Nat) /\ sent' \o <<>> = sent'
      BY ConcatEmptySeq DEF IInv, TypeOK
    <3>3. sent = Numbers(arrived)
      BY <2>2, <3>1, <3>2 DEF IInv, Lossless
    <3> QED
      BY <2>1, <2>2, <2>4, <3>3 DEF Fifo!Finish
  <2> QED
    BY <2>3, <2>4
<1>8. CASE Cancel
  BY <1>8 DEF Cancel
<1>9. CASE UNCHANGED vars
  BY <1>9 DEF vars
<1> QED
  BY <1>1, <1>2, <1>3, <1>4, <1>5, <1>6, <1>7, <1>8, <1>9
  DEF Next, LoopStep, Outside

\* forward_data implements the lossless FIFO of ForwardFifo.
THEOREM Refinement == Spec => ImplementsFifo
PROOF
<1>1. Init => Fifo!Init
  BY FifoInit
<1>2. IInv /\ IInv' /\ [Next]_vars => [Fifo!Next]_(Fifo!vars)
  BY FifoStep
<1> QED
  BY <1>1, <1>2, Invariance, PTL DEF Spec, ImplementsFifo, Fifo!Spec
=============================================================================
