--------------------------- MODULE PerfRelayProofs ---------------------------
(***************************************************************************)
(* Proofs about PerfRelay: its types, that the receiver's data has no gap, *)
(* and that the reports agree, for any set of relays, any amount of data   *)
(* and any size of the buffers.                                            *)
(***************************************************************************)
EXTENDS PerfRelay, SequenceTheorems, TLAPS

\* The chunks of s are those that follow the k-th, in order.
Run(s, k) == \A i \in 1..Len(s) : s[i] = k + i
\* Its length: a name of its own keeps the sums of lengths apart from sequences.
Size(s) == Len(s)
-----------------------------------------------------------------------------
(* The inductive invariant.                                                *)

Readers == {"relay", "thread"}

Typed ==
  /\ sender \in [Relays -> {"off", "refused", "sending", "over"}]
  /\ relay \in [Relays -> {"off", "connecting", "waiting", "relaying", "over"}]
  /\ server \in {"accepting", "handshake", "over"}
  /\ queue \in Seq(Relays) /\ links \in Seq(Relays)
  /\ thread \in [Relays -> {"none", "started", "forwarding", "over"}]
  /\ receiver \in {"off", "accepting", "reading", "over"}
  /\ running \in BOOLEAN
  /\ data \in [Pipes -> [Relays -> Queue]]
  /\ held \in [Readers -> [Relays -> Queue]]
  /\ count \in [Programs -> [Relays -> Nat]]
  /\ got \in Queue /\ cut \subseteq Relays

\* A pipe holds no more than its size, and a program one chunk.
Bounded(r) ==
  /\ Size(data["unix"][r]) <= Buffer /\ Size(data["tls"][r]) <= Buffer
  /\ Size(data["out"][r]) <= Buffer
  /\ Size(held["relay"][r]) <= 1 /\ Size(held["thread"][r]) <= 1

\* A relay's connection waits for the server once, and has a thread when the
\* server has accepted it.  The receiver has its connection before it reads.
Places ==
  /\ server = "handshake" => queue # <<>>
  /\ server = "over" => queue = <<>> /\ \A r \in Relays : thread[r] = "over"
  /\ \A i \in 1..Len(queue) :
       /\ relay[queue[i]] = "connecting" /\ thread[queue[i]] = "none"
       /\ \A j \in 1..Len(queue) : queue[i] = queue[j] => i = j
  /\ \A r \in Relays :
       server # "over" /\ relay[r] \in {"off", "connecting"} => thread[r] = "none"
  /\ receiver = "reading" => links # <<>>
  /\ links = <<>> => got = <<>>

\* What the receiver has of r's chunks.
Base(r) == IF links # <<>> /\ Head(links) = r THEN Size(got) ELSE 0

\* And what lies before the hands of the thread, the TLS connection, the hands of
\* send.py, and the unix connection to it.
AtThread(r) == Base(r) + Size(data["out"][r])
AtTls(r) == AtThread(r) + Size(held["thread"][r])
AtRelay(r) == AtTls(r) + Size(data["tls"][r])
AtUnix(r) == AtRelay(r) + Size(held["relay"][r])

\* The chunks of a pipe, or in a program's hands, follow those in front of them.
\* A program that is over passes nothing on.
InOrder(r) ==
  receiver # "over" =>
    /\ Run(data["out"][r], Base(r))
    /\ thread[r] # "over" =>
         /\ Run(held["thread"][r], AtThread(r))
         /\ Run(data["tls"][r], AtTls(r))
         /\ relay[r] # "over" =>
              /\ Run(held["relay"][r], AtRelay(r))
              /\ Run(data["unix"][r], AtUnix(r))
              /\ count["sender"][r] = AtUnix(r) + Size(data["unix"][r])

\* Nobody counts what it has not been given.
Counted(r) ==
  /\ count["sender"][r] <= Chunks
  /\ count["relay"][r] + Size(held["relay"][r]) + Size(data["unix"][r])
       <= count["sender"][r]
  /\ count["thread"][r] + Size(held["thread"][r]) + Size(data["tls"][r])
       <= count["relay"][r]

\* As long as nothing has cut the data off, the reports differ by what is on its
\* way, and the ends have come in order: the sender's, the relay's, the thread's.
Uncut(r) ==
  r \notin cut =>
    /\ relay[r] = "over" => /\ sender[r] = "over"
                            /\ held["relay"][r] = <<>> /\ data["unix"][r] = <<>>
    /\ thread[r] = "over" => /\ relay[r] = "over"
                             /\ held["thread"][r] = <<>> /\ data["tls"][r] = <<>>
    /\ count["sender"][r] = count["relay"][r] + Size(held["relay"][r])
                              + Size(data["unix"][r])
    /\ count["relay"][r] = count["thread"][r] + Size(held["thread"][r])
                             + Size(data["tls"][r])

PerRelay(r) == Bounded(r) /\ InOrder(r) /\ Counted(r) /\ Uncut(r)

IInv == Typed /\ Places /\ Run(got, 0) /\ \A r \in Relays : PerRelay(r)
-----------------------------------------------------------------------------
(* Sequences of chunks.                                                    *)

\* No chunk.
LEMMA EmptyFacts ==
  /\ <<>> \in Queue /\ Size(<<>>) = 0
  /\ \A k \in Nat : Run(<<>>, k)
  /\ \A s \in Queue : Size(s) \in Nat /\ (Size(s) = 0 <=> s = <<>>)
PROOF
BY DEF Queue, Run, Size

\* The first n chunks.
LEMMA CutFacts ==
  ASSUME NEW s \in Queue, NEW n \in 0..Len(s)
  PROVE  /\ SubSeq(s, 1, n) \in Queue
         /\ n \in Nat /\ n <= Size(s) /\ Size(SubSeq(s, 1, n)) = n
         /\ n = Len(s) => SubSeq(s, 1, n) = s
         /\ \A k \in Nat : Run(s, k) => Run(SubSeq(s, 1, n), k)
PROOF
<1>1. Len(s) \in Nat /\ n \in Nat /\ \A i \in 1..n : s[i] \in 1..Chunks
  <2>1. Len(s) \in Nat /\ s \in [1..Len(s) -> 1..Chunks]
    BY LenProperties DEF Queue
  <2> QED
    BY <2>1
<1>2. /\ SubSeq(s, 1, n) \in Seq(1..Chunks)
      /\ Len(SubSeq(s, 1, n)) = n
      /\ \A i \in 1..n : SubSeq(s, 1, n)[i] = s[i]
  BY <1>1, SubSeqProperties DEF Queue
<1>3. n = Len(s) => SubSeq(s, 1, n) = s
  BY <1>1, SubSeqFull DEF Queue
<1> QED
  BY <1>1, <1>2, <1>3 DEF Queue, Run, Size

\* One more at the end.
LEMMA AppendFacts ==
  ASSUME NEW s \in Queue, NEW c \in 1..Chunks
  PROVE  /\ Append(s, c) \in Queue
         /\ Size(Append(s, c)) = Size(s) + 1
         /\ Append(s, c) # <<>>
         /\ \A k \in Nat : Run(s, k) /\ c = k + Size(s) + 1 => Run(Append(s, c), k)
PROOF
BY DEF Queue, Run, Size

\* The first one, and the rest.
LEMMA TailFacts ==
  ASSUME NEW s \in Queue, s # <<>>
  PROVE  /\ Head(s) \in 1..Chunks /\ <<Head(s)>> \in Queue
         /\ Size(<<Head(s)>>) = 1
         /\ Tail(s) \in Queue
         /\ Size(Tail(s)) \in Nat /\ Size(s) = Size(Tail(s)) + 1
         /\ \A k \in Nat : Run(s, k) =>
              Head(s) = k + 1 /\ Run(<<Head(s)>>, k) /\ Run(Tail(s), k + 1)
PROOF
<1>1. /\ Head(s) \in 1..Chunks /\ Tail(s) \in Seq(1..Chunks)
      /\ Len(Tail(s)) = Len(s) - 1
      /\ \A i \in 1..Len(Tail(s)) : Tail(s)[i] = s[i + 1]
  BY HeadTailProperties DEF Queue
<1>2. Len(s) \in Nat \ {0} /\ Head(s) = s[1]
  BY EmptyFacts DEF Size
<1>3. <<Head(s)>> \in Queue /\ Len(<<Head(s)>>) = 1 /\ <<Head(s)>>[1] = Head(s)
  BY <1>1 DEF Queue
<1>4. ASSUME NEW k \in Nat, Run(s, k)
      PROVE  Head(s) = k + 1 /\ Run(<<Head(s)>>, k) /\ Run(Tail(s), k + 1)
  <2>1. Head(s) = k + 1
    BY <1>2, <1>4 DEF Run
  <2>2. Run(<<Head(s)>>, k)
    BY <1>3, <2>1 DEF Run
  <2>3. Run(Tail(s), k + 1)
    BY <1>1, <1>2, <1>4 DEF Run
  <2> QED
    BY <2>1, <2>2, <2>3
<1> QED
  BY <1>1, <1>2, <1>3, <1>4 DEF Queue, Size
-----------------------------------------------------------------------------
(* What the actions do to one relay's pipes, hands and counters.           *)

LEMMA PutEffect ==
  ASSUME Typed, NEW p \in Pipes, NEW r \in Relays, NEW c \in 1..Chunks, Put(p, r, c)
  PROVE  /\ data' \in [Pipes -> [Relays -> Queue]]
         /\ data'[p][r] = Append(data[p][r], c)
         /\ Size(data'[p][r]) = Size(data[p][r]) + 1
         /\ \A q \in Pipes, s \in Relays : q # p \/ s # r => data'[q][s] = data[q][s]
PROOF
<1>1. Append(data[p][r], c) \in Queue
      /\ Size(Append(data[p][r], c)) = Size(data[p][r]) + 1
  BY AppendFacts DEF Typed
<1>2. data' = [data EXCEPT ![p] = [data[p] EXCEPT ![r] = Append(data[p][r], c)]]
  BY DEF Put, Typed
<1> QED
  BY <1>1, <1>2 DEF Typed

LEMMA TakesEffect ==
  ASSUME Typed, NEW p \in Readers, NEW q \in Pipes, NEW r \in Relays, Takes(p, q, r)
  PROVE  /\ data' \in [Pipes -> [Relays -> Queue]]
         /\ held' \in [Readers -> [Relays -> Queue]]
         /\ data[q][r] # <<>> /\ held[p][r] = <<>>
         /\ data'[q][r] = Tail(data[q][r])
         /\ held'[p][r] = <<Head(data[q][r])>>
         /\ \A x \in Pipes, s \in Relays : x # q \/ s # r => data'[x][s] = data[x][s]
         /\ \A x \in Readers, s \in Relays : x # p \/ s # r => held'[x][s] = held[x][s]
PROOF
<1>1. Tail(data[q][r]) \in Queue /\ <<Head(data[q][r])>> \in Queue
  BY TailFacts DEF Typed, Takes
<1>2. /\ data' = [data EXCEPT ![q] = [data[q] EXCEPT ![r] = Tail(data[q][r])]]
      /\ held' = [held EXCEPT ![p] = [held[p] EXCEPT ![r] = <<Head(data[q][r])>>]]
  BY DEF Takes, Typed
<1> QED
  BY <1>1, <1>2 DEF Typed, Takes

\* p has sent, or lost, what it had read.
Drops(p, r) == held' = [held EXCEPT ![p][r] = <<>>]

LEMMA DropEffect ==
  ASSUME Typed, NEW p \in Readers, NEW r \in Relays, Drops(p, r)
  PROVE  /\ held' \in [Readers -> [Relays -> Queue]]
         /\ held'[p][r] = <<>>
         /\ \A x \in Readers, s \in Relays : x # p \/ s # r => held'[x][s] = held[x][s]
PROOF
<1>1. held' = [held EXCEPT ![p] = [held[p] EXCEPT ![r] = <<>>]]
  BY DEF Drops, Typed
<1> QED
  BY <1>1, EmptyFacts DEF Typed

LEMMA CountsEffect ==
  ASSUME Typed, NEW p \in Programs, NEW r \in Relays, Counts(p, r)
  PROVE  /\ count' \in [Programs -> [Relays -> Nat]]
         /\ count'[p][r] = count[p][r] + 1
         /\ \A x \in Programs, s \in Relays : x # p \/ s # r => count'[x][s] = count[x][s]
PROOF
<1>1. count' = [count EXCEPT ![p] = [count[p] EXCEPT ![r] = count[p][r] + 1]]
  BY DEF Counts, Typed
<1> QED
  BY <1>1 DEF Typed

\* All that the invariant says of s alone, but for what the receiver has.
Here(s) ==
  <<sender[s], relay[s], thread[s], data["unix"][s], data["tls"][s], data["out"][s],
    held["relay"][s], held["thread"][s],
    count["sender"][s], count["relay"][s], count["thread"][s]>>

\* A step that does not touch s keeps what holds of s.
LEMMA Elsewhere ==
  ASSUME NEW s \in Relays, PerRelay(s), Here(s)' = Here(s),
         s \in cut => s \in cut', Base(s)' = Base(s) \/ receiver' = "over",
         receiver' # "over" => receiver # "over"
  PROVE  PerRelay(s)'
PROOF
<1>1. /\ sender'[s] = sender[s] /\ relay'[s] = relay[s] /\ thread'[s] = thread[s]
      /\ data'["unix"][s] = data["unix"][s] /\ data'["tls"][s] = data["tls"][s]
      /\ data'["out"][s] = data["out"][s]
      /\ held'["relay"][s] = held["relay"][s] /\ held'["thread"][s] = held["thread"][s]
      /\ count'["sender"][s] = count["sender"][s]
      /\ count'["relay"][s] = count["relay"][s]
      /\ count'["thread"][s] = count["thread"][s]
  BY DEF Here
<1>2. Bounded(s)'
  BY <1>1 DEF PerRelay, Bounded
<1>3. InOrder(s)'
  BY <1>1 DEF PerRelay, InOrder, AtThread, AtTls, AtRelay, AtUnix
<1>4. Counted(s)'
  BY <1>1 DEF PerRelay, Counted
<1>5. Uncut(s)'
  BY <1>1 DEF PerRelay, Uncut
<1> QED
  BY <1>2, <1>3, <1>4, <1>5 DEF PerRelay

\* The sequences and the numbers that the invariant adds up.
Sized(r) ==
  /\ data["unix"][r] \in Queue /\ Size(data["unix"][r]) \in Nat
  /\ data["tls"][r] \in Queue /\ Size(data["tls"][r]) \in Nat
  /\ data["out"][r] \in Queue /\ Size(data["out"][r]) \in Nat
  /\ held["relay"][r] \in Queue /\ Size(held["relay"][r]) \in Nat
  /\ held["thread"][r] \in Queue /\ Size(held["thread"][r]) \in Nat
  /\ count["sender"][r] \in Nat /\ count["relay"][r] \in Nat
  /\ count["thread"][r] \in Nat
  /\ Base(r) \in Nat /\ AtThread(r) \in Nat /\ AtTls(r) \in Nat
  /\ AtRelay(r) \in Nat /\ AtUnix(r) \in Nat

LEMMA Lengths ==
  ASSUME Typed, NEW r \in Relays
  PROVE  Sized(r)
PROOF
<1>1. /\ \A p \in Pipes : data[p][r] \in Queue
      /\ \A p \in Readers : held[p][r] \in Queue
      /\ \A p \in Programs : count[p][r] \in Nat
      /\ got \in Queue
  BY DEF Typed
<1>2. /\ \A p \in Pipes : Size(data[p][r]) \in Nat
      /\ \A p \in Readers : Size(held[p][r]) \in Nat
      /\ Base(r) \in Nat
  BY <1>1, EmptyFacts DEF Base
<1>3. AtThread(r) \in Nat
  BY <1>2 DEF AtThread, Pipes
<1>4. AtTls(r) \in Nat
  BY <1>2, <1>3 DEF AtTls, Readers
<1>5. AtRelay(r) \in Nat
  BY <1>2, <1>4 DEF AtRelay, Pipes
<1>6. AtUnix(r) \in Nat
  BY <1>2, <1>5 DEF AtUnix, Readers
<1> QED
  BY <1>1, <1>2, <1>3, <1>4, <1>5, <1>6 DEF Sized, Pipes, Readers, Programs

\* The same after a step.
LEMMA LengthsNext ==
  ASSUME Typed', NEW r \in Relays
  PROVE  Sized(r)'
PROOF
<1>1. /\ \A p \in Pipes : data'[p][r] \in Queue
      /\ \A p \in Readers : held'[p][r] \in Queue
      /\ \A p \in Programs : count'[p][r] \in Nat
      /\ got' \in Queue
  BY DEF Typed
<1>2. /\ \A p \in Pipes : Size(data'[p][r]) \in Nat
      /\ \A p \in Readers : Size(held'[p][r]) \in Nat
      /\ Base(r)' \in Nat
  BY <1>1, EmptyFacts DEF Base
<1>3. AtThread(r)' \in Nat
  BY <1>2 DEF AtThread, Pipes
<1>4. AtTls(r)' \in Nat
  BY <1>2, <1>3 DEF AtTls, Readers
<1>5. AtRelay(r)' \in Nat
  BY <1>2, <1>4 DEF AtRelay, Pipes
<1>6. AtUnix(r)' \in Nat
  BY <1>2, <1>5 DEF AtUnix, Readers
<1> QED
  BY <1>1, <1>2, <1>3, <1>4, <1>5, <1>6 DEF Sized, Pipes, Readers, Programs
-----------------------------------------------------------------------------
(* Steps that change no data: connections are made, and programs end.      *)

\* What holds of s alone survives a step that moves none of its chunks, if nobody
\* that was over is not, and whose relay ends has lost data.
LEMMA ControlStays ==
  ASSUME Typed, NEW s \in Relays, PerRelay(s), UNCHANGED <<data, held, count, cut>>,
         Base(s)' = Base(s),
         receiver' # "over" => receiver # "over",
         thread'[s] = "over" <=> thread[s] = "over",
         relay'[s] = relay[s] \/ (relay[s] # "over" /\ (relay'[s] = "over" => s \in cut)),
         sender[s] = "over" => sender'[s] = "over"
  PROVE  PerRelay(s)'
PROOF
<1>1. Bounded(s)'
  BY DEF PerRelay, Bounded
<1>2. InOrder(s)'
  BY DEF PerRelay, InOrder, AtThread, AtTls, AtRelay, AtUnix
<1>3. Counted(s)'
  BY RelayAssumption DEF PerRelay, Counted
<1>4. Uncut(s)'
  BY DEF PerRelay, Uncut
<1> QED
  BY <1>1, <1>2, <1>3, <1>4 DEF PerRelay

\* The places and the receiver's data depend on nothing that a step inside a pipe
\* changes.
LEMMA PlacesStay ==
  ASSUME Places, Run(got, 0), UNCHANGED <<server, queue, thread, relay, links, got>>,
         receiver' = "reading" => receiver = "reading"
  PROVE  Places' /\ Run(got, 0)'
PROOF
BY DEF Places, Run

LEMMA SenderSteps ==
  ASSUME IInv, NEW r \in Relays, SenderStarts(r) \/ SenderEnds(r)
  PROVE  IInv'
PROOF
<1> USE DEF IInv, SenderStarts, SenderEnds, rest
<1>1. Typed'
  BY DEF Typed
<1>2. Places' /\ Run(got, 0)'
  BY PlacesStay
<1>3. ASSUME NEW s \in Relays PROVE PerRelay(s)'
  <2>1. sender[s] = "over" => sender'[s] = "over"
    BY DEF Typed
  <2> QED
    BY <2>1, ControlStays DEF Base
<1> QED
  BY <1>1, <1>2, <1>3

LEMMA RelayAcceptsStep ==
  ASSUME IInv, NEW r \in Relays, RelayAccepts(r)
  PROVE  IInv'
PROOF
<1> USE DEF IInv, RelayAccepts, rest
<1>1. Typed'
  BY DEF Typed
<1>2. \A s \in Relays : relay'[s] = relay[s]
                          \/ (relay[s] = "waiting" /\ relay'[s] = "relaying")
  BY DEF Typed
<1>3. Places'
  <2>1. \A i \in 1..Len(queue) : queue[i] \in Relays
    BY DEF Typed
  <2> QED
    BY <1>2, <2>1 DEF Places
<1>4. Run(got, 0)'
  BY DEF Run
<1>5. ASSUME NEW s \in Relays PROVE PerRelay(s)'
  BY <1>2, ControlStays DEF Base
<1> QED
  BY <1>1, <1>3, <1>4, <1>5

LEMMA RelayStartsStep ==
  ASSUME IInv, NEW r \in Relays, RelayStarts(r)
  PROVE  IInv'
PROOF
<1> USE DEF IInv
<1>1. /\ relay[r] = "off"
      /\ UNCHANGED <<sender, server, thread, receiver, running, links, data, held,
                     count, got, cut>>
      /\ \/ /\ server = "over" /\ queue' = queue
            /\ relay' = [relay EXCEPT ![r] = "over"]
         \/ /\ server # "over" /\ queue' = Append(queue, r)
            /\ relay' = [relay EXCEPT ![r] = "connecting"]
  BY DEF RelayStarts, rest
<1>2. /\ queue' \in Seq(Relays) /\ Len(queue) \in Nat
      /\ server # "over" =>
           /\ Len(queue') = Len(queue) + 1 /\ queue' # <<>>
           /\ \A i \in 1..Len(queue) : queue'[i] = queue[i]
           /\ queue'[Len(queue) + 1] = r
  <2>1. queue \in Seq(Relays) /\ Len(queue) \in Nat
    BY DEF Typed
  <2>2. /\ Append(queue, r) \in Seq(Relays) /\ Append(queue, r) # <<>>
        /\ Len(Append(queue, r)) = Len(queue) + 1
        /\ \A i \in 1..Len(queue) : Append(queue, r)[i] = queue[i]
        /\ Append(queue, r)[Len(queue) + 1] = r
    BY ONLY <2>1, r \in Relays, AppendProperties
  <2> QED
    BY ONLY <1>1, <2>1, <2>2
<1>3. Typed'
  BY <1>1, <1>2 DEF Typed
<1>4. /\ relay'[r] = IF server = "over" THEN "over" ELSE "connecting"
      /\ \A s \in Relays : s # r => relay'[s] = relay[s]
  BY <1>1 DEF Typed
<1>5. Places'
  <2>1. \A i \in 1..Len(queue) : queue[i] \in Relays /\ queue[i] # r
    BY <1>1 DEF Typed, Places
  <2>2. CASE server = "over"
    BY <1>1, <1>4, <2>1, <2>2 DEF Places
  <2>3. CASE server # "over"
    <3>1. /\ Len(queue') = Len(queue) + 1 /\ Len(queue) \in Nat /\ queue' # <<>>
          /\ \A i \in 1..Len(queue) : queue'[i] = queue[i]
          /\ queue'[Len(queue) + 1] = r
      BY <1>2, <2>3
    <3>2. \A i \in 1..Len(queue') : i \in 1..Len(queue) \/ i = Len(queue) + 1
      BY <3>1
    <3>3. thread[r] = "none"
      BY <1>1, <2>3 DEF Places
    <3>4. ASSUME NEW i \in 1..Len(queue')
          PROVE  /\ relay'[queue'[i]] = "connecting" /\ thread[queue'[i]] = "none"
                 /\ \A j \in 1..Len(queue') : queue'[i] = queue'[j] => i = j
      BY <1>4, <2>1, <2>3, <3>1, <3>2, <3>3 DEF Places
    <3> QED
      BY <1>1, <1>4, <2>3, <3>1, <3>3, <3>4 DEF Places
  <2> QED
    BY <2>2, <2>3
<1>6. Run(got, 0)'
  BY <1>1 DEF Run
<1>7. server = "over" => r \in cut
  BY <1>1 DEF Places, PerRelay, Uncut
<1>8. ASSUME NEW s \in Relays PROVE PerRelay(s)'
  <2>1. relay'[s] = relay[s] \/ (relay[s] # "over" /\ (relay'[s] = "over" => s \in cut))
    BY <1>1, <1>4, <1>7
  <2> QED
    BY <1>1, <2>1, ControlStays DEF Base
<1> QED
  BY <1>3, <1>5, <1>6, <1>8

LEMMA HandshakeEndsStep ==
  ASSUME IInv, HandshakeEnds
  PROVE  IInv'
PROOF
<1> USE DEF IInv
<1> DEFINE h == Head(queue)
<1>1. /\ server = "handshake" /\ server' = "accepting" /\ queue' = Tail(queue)
      /\ relay' = [relay EXCEPT ![h] = "waiting"]
      /\ thread' = [thread EXCEPT ![h] = "started"]
      /\ UNCHANGED <<sender, receiver, running, links, data, held, count, got, cut>>
  BY DEF HandshakeEnds, rest
<1>2. /\ Len(queue) \in Nat \ {0} /\ h = queue[1] /\ h \in Relays
      /\ Tail(queue) \in Seq(Relays) /\ Len(Tail(queue)) = Len(queue) - 1
      /\ \A i \in 1..Len(Tail(queue)) : Tail(queue)[i] = queue[i + 1]
      /\ \A i \in 1..Len(queue) : queue[i] \in Relays
  <2>1. queue \in Seq(Relays) /\ queue # <<>>
    BY <1>1 DEF Places, Typed
  <2>2. Len(queue) \in Nat \ {0} /\ h = queue[1] /\ h \in Relays
        /\ \A i \in 1..Len(queue) : queue[i] \in Relays
    BY <2>1
  <2> QED
    BY <2>1, <2>2, HeadTailProperties
<1>3. Typed'
  BY <1>1, <1>2 DEF Typed
<1>4. /\ relay[h] = "connecting" /\ thread[h] = "none"
      /\ relay'[h] = "waiting" /\ thread'[h] = "started"
      /\ \A s \in Relays : s # h => relay'[s] = relay[s] /\ thread'[s] = thread[s]
  BY <1>1, <1>2 DEF Typed, Places
<1> HIDE DEF h
<1>5. Places'
  <2>1. ASSUME NEW i \in 1..Len(queue')
        PROVE  /\ relay'[queue'[i]] = "connecting" /\ thread'[queue'[i]] = "none"
               /\ \A j \in 1..Len(queue') : queue'[i] = queue'[j] => i = j
    <3>1. \A j \in 1..Len(queue') : j + 1 \in 1..Len(queue) /\ queue'[j] = queue[j + 1]
      BY <1>1, <1>2
    <3>2. \A j, k \in 1..Len(queue) : queue[j] = queue[k] => j = k
      BY DEF Places
    <3>3. queue[i + 1] # h
      <4>1. i + 1 \in 1..Len(queue) /\ 1 \in 1..Len(queue) /\ i + 1 # 1
        BY ONLY <1>2, <3>1, i \in 1..Len(queue')
      <4> QED
        BY ONLY <1>2, <3>2, <4>1
    <3>4. relay'[queue'[i]] = "connecting" /\ thread'[queue'[i]] = "none"
      BY <1>2, <1>4, <3>1, <3>3 DEF Places
    <3>5. \A j \in 1..Len(queue') : queue'[i] = queue'[j] => i = j
      BY <3>1, <3>2
    <3> QED
      BY <3>4, <3>5
  <2> QED
    BY <1>1, <1>4, <2>1 DEF Places
<1>6. Run(got, 0)'
  BY <1>1 DEF Run
<1>7. ASSUME NEW s \in Relays PROVE PerRelay(s)'
  BY <1>1, <1>4, ControlStays DEF Base
<1> QED
  BY <1>3, <1>5, <1>6, <1>7

\* The steps of the server and the receiver that only wait or start.
LEMMA WaitingSteps ==
  ASSUME IInv, ServerAccepts \/ ReceiverStarts \/ Signal \/ ReceiverAccepts
  PROVE  IInv'
PROOF
<1> USE DEF IInv, ServerAccepts, ReceiverStarts, Signal, ReceiverAccepts, rest
<1>1. Typed'
  BY DEF Typed
<1>2. Places' /\ Run(got, 0)'
  BY DEF Places, Run
<1>3. ASSUME NEW s \in Relays PROVE PerRelay(s)'
  BY ControlStays DEF Base
<1> QED
  BY <1>1, <1>2, <1>3
-----------------------------------------------------------------------------
(* unix-sender.py and send.py.                                             *)

LEMMA SenderSendsStep ==
  ASSUME IInv, NEW r \in Relays, SenderSends(r)
  PROVE  IInv'
PROOF
<1> USE DEF IInv
<1>1. /\ sender[r] = "sending" /\ relay[r] # "over" /\ Size(data["unix"][r]) < Buffer
      /\ Put("unix", r, count["sender"][r] + 1) /\ Counts("sender", r)
      /\ count["sender"][r] < Chunks
      /\ UNCHANGED <<sender, relay, server, queue, thread, receiver, running, links,
                     held, got, cut>>
  BY DEF SenderSends, Fits, rest, Size
<1>2. count["sender"][r] \in Nat /\ count["sender"][r] + 1 \in 1..Chunks
  BY <1>1, Lengths, RelayAssumption DEF PerRelay, Counted, Sized
<1>3. "unix" \in Pipes /\ "sender" \in Programs
  BY DEF Pipes, Programs
<1>4. /\ data' \in [Pipes -> [Relays -> Queue]]
      /\ data'["unix"][r] = Append(data["unix"][r], count["sender"][r] + 1)
      /\ Size(data'["unix"][r]) = Size(data["unix"][r]) + 1
      /\ \A q \in Pipes, s \in Relays : q # "unix" \/ s # r => data'[q][s] = data[q][s]
  BY ONLY <1>1, <1>2, <1>3, Typed, r \in Relays, PutEffect
<1>5. /\ count' \in [Programs -> [Relays -> Nat]]
      /\ count'["sender"][r] = count["sender"][r] + 1
      /\ \A x \in Programs, s \in Relays :
           x # "sender" \/ s # r => count'[x][s] = count[x][s]
  BY ONLY <1>1, <1>3, Typed, r \in Relays, CountsEffect
<1>7. Typed'
  BY <1>1, <1>4, <1>5 DEF Typed
<1>8. Places' /\ Run(got, 0)'
  BY <1>1, PlacesStay
<1>9. ASSUME NEW s \in Relays, s # r PROVE PerRelay(s)'
  <2>1. Here(s)' = Here(s)
    BY <1>1, <1>4, <1>5, <1>9 DEF Here, Pipes, Programs
  <2> QED
    BY <1>1, <2>1, Elsewhere DEF Base
<1>10. PerRelay(r)'
  <2>1. UNCHANGED <<relay[r], thread[r], data["tls"][r], data["out"][r],
                       held["relay"][r], held["thread"][r],
                       count["relay"][r], count["thread"][r], Base(r)>>
    BY <1>1, <1>4, <1>5 DEF Pipes, Programs, Base, Typed
  <2>2. Sized(r)
    BY Lengths
  <2>3. PerRelay(r)
    OBVIOUS
  <2>4. UNCHANGED <<AtThread(r), AtTls(r), AtRelay(r), AtUnix(r)>>
    BY <2>1 DEF AtThread, AtTls, AtRelay, AtUnix
  <2>5. Bounded(r)'
    <3>1. Size(data["unix"][r]) + 1 <= Buffer
      BY <1>1, <2>2, RelayAssumption DEF Sized
    <3> QED
      BY ONLY <1>4, <2>1, <2>3, <3>1 DEF PerRelay, Bounded
  <2>6. InOrder(r)'
    <3>1. ASSUME Run(data["unix"][r], AtUnix(r)),
                 count["sender"][r] = AtUnix(r) + Size(data["unix"][r])
          PROVE  Run(data'["unix"][r], AtUnix(r))
      <4> DEFINE k == AtUnix(r)
                 u == data["unix"][r]
                 c == count["sender"][r] + 1
      <4>1. /\ k \in Nat /\ u \in Queue /\ c \in 1..Chunks
            /\ data'["unix"][r] = Append(u, c)
        BY ONLY <1>2, <1>4, <2>2 DEF Sized
      <4>2. Run(u, k) /\ c = k + Size(u) + 1
        BY ONLY <3>1
      <4> HIDE DEF k, u, c
      <4>3. Run(Append(u, c), k)
        BY ONLY <4>1, <4>2, AppendFacts
      <4> QED
        BY ONLY <4>1, <4>3 DEF k
    <3>2. count["sender"][r] = AtUnix(r) + Size(data["unix"][r]) =>
            count'["sender"][r] = AtUnix(r) + Size(data'["unix"][r])
      BY ONLY <1>4, <1>5, <2>2 DEF Sized
    <3> QED
      BY ONLY <1>1, <2>1, <2>3, <2>4, <3>1, <3>2 DEF PerRelay, InOrder
  <2> DEFINE n == count["sender"][r]
             m == count'["sender"][r]
             k == Size(data["unix"][r])
             l == Size(data'["unix"][r])
  <2>7. n \in Nat /\ m = n + 1 /\ k \in Nat /\ l = k + 1 /\ n + 1 <= Chunks
    BY <1>2, <1>4, <1>5, <2>2 DEF Sized
  <2>8. Counted(r)'
    <3>1. m <= Chunks
      BY ONLY <2>7
    <3>3. count["relay"][r] + Size(held["relay"][r]) + l <= m
      BY ONLY <2>2, <2>3, <2>7 DEF PerRelay, Counted, Sized
    <3>4. count["thread"][r] + Size(held["thread"][r]) + Size(data["tls"][r])
            <= count["relay"][r]
      BY <2>3 DEF PerRelay, Counted
    <3> QED
      BY ONLY <2>1, <3>1, <3>3, <3>4 DEF Counted
  <2>9. Uncut(r)'
    <3>1. cut' = cut /\ relay[r] # "over"
      BY <1>1
    <3>2. r \notin cut => /\ thread[r] # "over"
                          /\ n = count["relay"][r] + Size(held["relay"][r]) + k
                          /\ count["relay"][r] = count["thread"][r]
                               + Size(held["thread"][r]) + Size(data["tls"][r])
      BY ONLY <2>3, <3>1 DEF PerRelay, Uncut
    <3>3. r \notin cut => m = count["relay"][r] + Size(held["relay"][r]) + l
      BY ONLY <2>2, <2>7, <3>2 DEF Sized
    <3> QED
      BY ONLY <2>1, <3>1, <3>2, <3>3 DEF Uncut
  <2> QED
    BY <2>5, <2>6, <2>8, <2>9 DEF PerRelay
<1> QED
  BY <1>7, <1>8, <1>9, <1>10

LEMMA RelayReadsStep ==
  ASSUME IInv, NEW r \in Relays, RelayReads(r)
  PROVE  IInv'
PROOF
<1> USE DEF IInv
<1>1. /\ relay[r] = "relaying" /\ Takes("relay", "unix", r)
      /\ UNCHANGED <<sender, relay, server, queue, thread, receiver, running, links,
                     count, got, cut>>
  BY DEF RelayReads, rest
<1>2. "unix" \in Pipes /\ "relay" \in Readers
  BY DEF Pipes, Readers
<1> DEFINE u == data["unix"][r]
           c == <<Head(u)>>
<1>3. /\ data' \in [Pipes -> [Relays -> Queue]] /\ held' \in [Readers -> [Relays -> Queue]]
      /\ u # <<>> /\ held["relay"][r] = <<>>
      /\ data'["unix"][r] = Tail(u) /\ held'["relay"][r] = c
      /\ \A x \in Pipes, s \in Relays : x # "unix" \/ s # r => data'[x][s] = data[x][s]
      /\ \A x \in Readers, s \in Relays : x # "relay" \/ s # r => held'[x][s] = held[x][s]
  BY ONLY <1>1, <1>2, Typed, r \in Relays, TakesEffect
<1>4. Typed'
  BY <1>1, <1>3 DEF Typed
<1>5. Places' /\ Run(got, 0)'
  BY <1>1, PlacesStay
<1>6. ASSUME NEW s \in Relays, s # r PROVE PerRelay(s)'
  <2>1. Here(s)' = Here(s)
    BY <1>1, <1>3, <1>6 DEF Here, Pipes, Readers
  <2> QED
    BY <1>1, <2>1, Elsewhere DEF Base
<1>7. PerRelay(r)'
  <2>1. UNCHANGED <<sender[r], relay[r], thread[r], data["tls"][r], data["out"][r],
                    held["thread"][r], count["sender"][r], count["relay"][r],
                    count["thread"][r], Base(r), receiver, cut>>
    BY <1>1, <1>3 DEF Pipes, Readers, Base
  <2>2. Sized(r) /\ PerRelay(r)
    BY Lengths
  <2> HIDE DEF u, c
  <2>3. /\ Size(c) = 1 /\ Size(Tail(u)) \in Nat /\ Size(u) = Size(Tail(u)) + 1
        /\ \A k \in Nat : Run(u, k) => Run(c, k) /\ Run(Tail(u), k + 1)
        /\ Size(held["relay"][r]) = 0
    BY <1>3, <2>2, TailFacts, EmptyFacts DEF Sized, u, c
  <2>4. /\ UNCHANGED <<AtThread(r), AtTls(r), AtRelay(r)>>
        /\ AtUnix(r) = AtRelay(r) /\ AtUnix(r)' = AtUnix(r) + 1
    BY <1>3, <2>1, <2>2, <2>3 DEF AtThread, AtTls, AtRelay, AtUnix, Sized
  <2>5. Bounded(r)'
    <3>1. Size(Tail(u)) <= Size(u)
      BY <2>3
    <3>2. Size(Tail(u)) <= Buffer
      BY <2>2, <2>3, <3>1, RelayAssumption DEF PerRelay, Bounded, Sized, u
    <3> QED
      BY ONLY <1>3, <2>1, <2>2, <2>3, <3>2 DEF PerRelay, Bounded
  <2>6. InOrder(r)'
    <3>1. count["sender"][r] = AtUnix(r) + Size(u) =>
            count["sender"][r] = AtUnix(r) + 1 + Size(Tail(u))
      BY <2>2, <2>3 DEF Sized
    <3>2. Run(u, AtUnix(r)) => Run(c, AtRelay(r)) /\ Run(Tail(u), AtUnix(r) + 1)
      BY <2>2, <2>3, <2>4 DEF Sized
    <3> QED
      BY ONLY <1>3, <2>1, <2>2, <2>4, <3>1, <3>2 DEF PerRelay, InOrder, u
  <2>7. Size(held'["relay"][r]) + Size(data'["unix"][r])
          = Size(held["relay"][r]) + Size(u)
    BY <1>3, <2>3
  <2>8. (Counted(r) /\ Uncut(r))'
    <3> DEFINE n == count["relay"][r]
               a == Size(held["relay"][r])
               b == Size(u)
               x == Size(held'["relay"][r])
               y == Size(data'["unix"][r])
    <3>1. n \in Nat /\ a \in Nat /\ b \in Nat /\ x \in Nat /\ y \in Nat /\ x + y = a + b
      BY <1>3, <2>2, <2>3, <2>7 DEF Sized, u
    <3>2. n + x + y = n + a + b
      BY ONLY <3>1
    <3> QED
      BY ONLY <1>1, <2>1, <2>2, <3>2 DEF PerRelay, Counted, Uncut, u
  <2> QED
    BY <2>5, <2>6, <2>8 DEF PerRelay
<1> QED
  BY <1>4, <1>5, <1>6, <1>7

LEMMA RelaySendsStep ==
  ASSUME IInv, NEW r \in Relays, RelaySends(r)
  PROVE  IInv'
PROOF
<1> USE DEF IInv
<1> DEFINE h == held["relay"][r]
           t == data["tls"][r]
<1>1. /\ relay[r] = "relaying" /\ h # <<>> /\ Delivers(r)
      /\ Drops("relay", r)
      /\ UNCHANGED <<sender, relay, server, queue, thread, receiver, running, links,
                     got, cut>>
  BY DEF RelaySends, Drops, rest
<1>2. "tls" \in Pipes /\ "relay" \in Readers /\ "relay" \in Programs
  BY DEF Pipes, Readers, Programs
<1>3. /\ held' \in [Readers -> [Relays -> Queue]] /\ held'["relay"][r] = <<>>
      /\ \A x \in Readers, s \in Relays : x # "relay" \/ s # r => held'[x][s] = held[x][s]
  BY ONLY <1>1, <1>2, Typed, r \in Relays, DropEffect
<1>4. Sized(r) /\ PerRelay(r)
  BY Lengths
<1>5. /\ Head(h) \in 1..Chunks /\ Size(h) = 1
      /\ \A k \in Nat : Run(h, k) => Head(h) = k + 1
  <2>1. /\ Head(h) \in 1..Chunks /\ Size(Tail(h)) \in Nat /\ Size(h) = Size(Tail(h)) + 1
        /\ \A k \in Nat : Run(h, k) => Head(h) = k + 1
    BY <1>1, <1>4, TailFacts DEF Sized
  <2> QED
    BY <1>4, <2>1 DEF PerRelay, Bounded
<1>6. /\ count' \in [Programs -> [Relays -> Nat]]
      /\ count'["relay"][r] = count["relay"][r]
           \/ count'["relay"][r] = count["relay"][r] + 1
      /\ \A x \in Programs, s \in Relays :
           x # "relay" \/ s # r => count'[x][s] = count[x][s]
  <2>1. Counts("relay", r) \/ count' = count
    BY <1>1 DEF Delivers
  <2>2. CASE count' = count
    BY <2>2 DEF Typed
  <2>3. CASE Counts("relay", r)
    BY ONLY <1>2, <2>3, Typed, r \in Relays, CountsEffect
  <2> QED
    BY <2>1, <2>2, <2>3
<1>7. \/ data' = data /\ thread[r] = "over"
      \/ /\ thread[r] # "over" /\ Size(t) < Buffer
         /\ count'["relay"][r] = count["relay"][r] + 1
         /\ data' \in [Pipes -> [Relays -> Queue]]
         /\ data'["tls"][r] = Append(t, Head(h)) /\ Size(data'["tls"][r]) = Size(t) + 1
         /\ \A q \in Pipes, s \in Relays : q # "tls" \/ s # r => data'[q][s] = data[q][s]
  <2>1. \/ data' = data /\ thread[r] = "over"
        \/ /\ thread[r] # "over" /\ Size(t) < Buffer
           /\ Put("tls", r, Head(h)) /\ Counts("relay", r)
    BY <1>1 DEF Delivers, Fits, Size
  <2>2. CASE Put("tls", r, Head(h)) /\ Counts("relay", r)
               /\ thread[r] # "over" /\ Size(t) < Buffer
    BY ONLY <1>2, <1>5, <2>2, Typed, r \in Relays, PutEffect, CountsEffect
  <2> QED
    BY <2>1, <2>2
<1>8. Typed'
  BY <1>1, <1>3, <1>6, <1>7 DEF Typed
<1>9. Places' /\ Run(got, 0)'
  BY <1>1, PlacesStay
<1>10. ASSUME NEW s \in Relays, s # r PROVE PerRelay(s)'
  <2>1. Here(s)' = Here(s)
    BY <1>1, <1>3, <1>6, <1>7, <1>10 DEF Here, Pipes, Readers, Programs
  <2> QED
    BY <1>1, <2>1, Elsewhere DEF Base
<1>11. PerRelay(r)'
  <2>1. UNCHANGED <<sender[r], relay[r], thread[r], data["unix"][r], data["out"][r],
                    held["thread"][r], count["sender"][r], count["thread"][r],
                    Base(r), receiver, cut>>
    BY <1>1, <1>3, <1>6, <1>7 DEF Pipes, Readers, Programs, Base
  <2>2. Size(held'["relay"][r]) = 0 /\ \A k \in Nat : Run(held'["relay"][r], k)
    BY <1>3, EmptyFacts
  <2>3. UNCHANGED <<AtThread(r), AtTls(r)>>
    BY <2>1 DEF AtThread, AtTls
  <2> HIDE DEF t, h
  <2>4. Sized(r)'
    BY <1>8, LengthsNext
  <2>5. CASE data' = data /\ thread[r] = "over"
    <3>1. r \in cut
      BY <1>1, <1>4, <2>5 DEF PerRelay, Uncut
    <3>2. (Bounded(r) /\ InOrder(r))'
      BY ONLY <1>4, <2>1, <2>2, <2>5 DEF PerRelay, Bounded, InOrder
    <3>3. count'["relay"][r] + Size(held'["relay"][r])
            <= count["relay"][r] + Size(held["relay"][r])
      BY <1>4, <1>5, <1>6, <2>2 DEF Sized, h
    <3>4. Counted(r)'
      <4>1. count'["relay"][r] + Size(held'["relay"][r]) + Size(data["unix"][r])
              <= count["sender"][r]
        BY ONLY <1>4, <2>4, <3>3 DEF PerRelay, Counted, Sized
      <4>2. count["thread"][r] + Size(held["thread"][r]) + Size(data["tls"][r])
              <= count'["relay"][r]
        <5>1. count["relay"][r] <= count'["relay"][r]
          BY <1>4, <1>6 DEF Sized
        <5> QED
          BY ONLY <1>4, <2>4, <5>1 DEF PerRelay, Counted, Sized
      <4> QED
        BY ONLY <1>4, <2>1, <2>5, <4>1, <4>2 DEF PerRelay, Counted
    <3>5. Uncut(r)'
      BY ONLY <2>1, <3>1 DEF Uncut
    <3> QED
      BY <3>2, <3>4, <3>5 DEF PerRelay
  <2>6. CASE thread[r] # "over"
    <3>1. /\ thread[r] # "over" /\ Size(t) < Buffer
          /\ count'["relay"][r] = count["relay"][r] + 1
          /\ data'["tls"][r] = Append(t, Head(h)) /\ Size(data'["tls"][r]) = Size(t) + 1
      BY <1>7, <2>6
    <3>2. AtRelay(r)' = AtRelay(r) + 1 /\ AtUnix(r)' = AtUnix(r)
      <4>1. AtRelay(r)' = AtRelay(r) + 1
        BY <1>4, <2>3, <3>1 DEF AtRelay, Sized, t
      <4> QED
        BY <1>4, <1>5, <2>2, <4>1 DEF AtUnix, Sized, h
    <3>3. Bounded(r)'
      <4>1. Size(t) + 1 <= Buffer
        BY <1>4, <3>1, RelayAssumption DEF Sized, t
      <4> QED
        BY ONLY <1>4, <2>1, <2>2, <3>1, <4>1 DEF PerRelay, Bounded
    <3>4. InOrder(r)'
      <4>1. Run(t, AtTls(r)) /\ Run(h, AtRelay(r)) => Run(data'["tls"][r], AtTls(r))
        <5>1. /\ AtRelay(r) \in Nat /\ AtTls(r) \in Nat /\ t \in Queue
              /\ AtRelay(r) = AtTls(r) + Size(t)
          BY <1>4 DEF AtRelay, Sized, t
        <5>2. Run(h, AtRelay(r)) => Head(h) = AtTls(r) + Size(t) + 1
          BY ONLY <1>5, <5>1
        <5> QED
          BY ONLY <1>5, <3>1, <5>1, <5>2, AppendFacts
      <4> QED
        BY ONLY <1>1, <1>4, <2>1, <2>2, <2>3, <2>4, <3>2, <4>1
           DEF PerRelay, InOrder, Sized, t, h
    <3> DEFINE n == count["relay"][r]
               a == Size(held["thread"][r])
               b == Size(data'["tls"][r])
               m == count'["relay"][r]
    <3>5. /\ n \in Nat /\ m = n + 1 /\ Size(t) \in Nat /\ b = Size(t) + 1
          /\ a \in Nat /\ Size(h) = 1 /\ count["thread"][r] \in Nat
      BY <1>4, <1>5, <3>1 DEF Sized, t
    <3>6. m + 0 = n + Size(h) /\ count["thread"][r] + a + b = count["thread"][r] + a + Size(t) + 1
      BY ONLY <3>5
    <3>7. Counted(r)'
      <4>1. count["thread"][r] + a + Size(t) <= n => count["thread"][r] + a + b <= m
        BY ONLY <3>5
      <4> QED
        BY ONLY <1>4, <2>1, <2>2, <3>6, <4>1 DEF PerRelay, Counted, t, h
    <3>8. Uncut(r)'
      <4>1. n = count["thread"][r] + a + Size(t) => m = count["thread"][r] + a + b
        BY ONLY <3>5
      <4> QED
        BY ONLY <1>1, <1>4, <2>1, <2>2, <3>1, <3>6, <4>1 DEF PerRelay, Uncut, t, h
    <3> QED
      BY <3>3, <3>4, <3>7, <3>8 DEF PerRelay
  <2> QED
    BY <1>7, <2>5, <2>6
<1> QED
  BY <1>8, <1>9, <1>10, <1>11

LEMMA RelayEndsStep ==
  ASSUME IInv, NEW r \in Relays, RelayEnds(r)
  PROVE  IInv'
PROOF
<1> USE DEF IInv
<1> DEFINE t == data["tls"][r]
<1>1. PICK n \in 0..Len(t) :
        /\ data' = [data EXCEPT !["tls"][r] = SubSeq(@, 1, n), !["unix"][r] = <<>>]
        /\ cut' = IF AtEof(r) /\ n = Len(t) THEN cut ELSE cut \cup {r}
  BY DEF RelayEnds
<1>2. /\ relay[r] = "relaying" /\ held["relay"][r] = <<>>
      /\ relay' = [relay EXCEPT ![r] = "over"]
      /\ UNCHANGED <<sender, server, queue, thread, receiver, running, links, held,
                     count, got>>
  BY DEF RelayEnds, rest
<1>3. Sized(r) /\ PerRelay(r)
  BY Lengths
<1>4. /\ SubSeq(t, 1, n) \in Queue /\ Size(SubSeq(t, 1, n)) \in Nat
      /\ Size(SubSeq(t, 1, n)) <= Size(t)
      /\ n = Len(t) => SubSeq(t, 1, n) = t
      /\ \A k \in Nat : Run(t, k) => Run(SubSeq(t, 1, n), k)
  <2>1. t \in Queue /\ n \in 0..Len(t)
    BY <1>3 DEF Sized
  <2>2. /\ SubSeq(t, 1, n) \in Queue
        /\ n \in Nat /\ n <= Size(t) /\ Size(SubSeq(t, 1, n)) = n
        /\ n = Len(t) => SubSeq(t, 1, n) = t
        /\ \A k \in Nat : Run(t, k) => Run(SubSeq(t, 1, n), k)
    BY ONLY <2>1, CutFacts
  <2> HIDE DEF t
  <2> QED
    BY ONLY <2>2
<1>5. /\ data' \in [Pipes -> [Relays -> Queue]]
      /\ data'["tls"][r] = SubSeq(t, 1, n) /\ data'["unix"][r] = <<>>
      /\ data'["out"] = data["out"]
      /\ \A q \in Pipes, s \in Relays : s # r => data'[q][s] = data[q][s]
  <2> HIDE DEF t
  <2>1. "tls" \in Pipes /\ "unix" \in Pipes /\ "out" \in Pipes
    BY DEF Pipes
  <2>2. data' = [data EXCEPT !["tls"] = [data["tls"] EXCEPT ![r] = SubSeq(t, 1, n)],
                             !["unix"] = [data["unix"] EXCEPT ![r] = <<>>]]
    BY <1>1, <2>1 DEF Typed, t
  <2> QED
    BY <1>4, <2>1, <2>2, EmptyFacts DEF Typed
<1>6. /\ relay'[r] = "over"
      /\ \A s \in Relays : relay'[s] = relay[s] \/ (relay[s] = "relaying" /\ relay'[s] = "over")
      /\ \A s \in Relays : s # r => relay'[s] = relay[s]
  BY <1>2 DEF Typed
<1>7. cut' \subseteq Relays /\ cut \subseteq cut'
  BY <1>1 DEF Typed
<1>8. Typed'
  BY <1>2, <1>5, <1>7 DEF Typed
<1>9. Places'
  <2>1. \A i \in 1..Len(queue) : queue[i] \in Relays
    BY DEF Typed
  <2> QED
    BY <1>2, <1>6, <2>1 DEF Places
<1>10. Run(got, 0)'
  BY <1>2 DEF Run
<1>11. ASSUME NEW s \in Relays, s # r PROVE PerRelay(s)'
  <2>1. Here(s)' = Here(s)
    BY <1>2, <1>5, <1>6, <1>11 DEF Here, Pipes
  <2> QED
    BY <1>2, <1>7, <2>1, Elsewhere DEF Base
<1>12. PerRelay(r)'
  <2>1. UNCHANGED <<sender[r], thread[r], data["out"][r], held["relay"][r],
                    held["thread"][r], count["sender"][r], count["relay"][r],
                    count["thread"][r], Base(r), receiver>>
    BY <1>2, <1>5 DEF Base
  <2>2. UNCHANGED <<AtThread(r), AtTls(r)>>
    BY <2>1 DEF AtThread, AtTls
  <2>3. Size(<<>>) = 0
    BY EmptyFacts
  <2>4. Bounded(r)'
    <3>1. Size(data'["tls"][r]) <= Buffer
      <4>1. Size(t) <= Buffer /\ Size(t) \in Nat
        BY <1>3 DEF PerRelay, Bounded, Sized
      <4> QED
        BY <1>4, <1>5, <4>1, RelayAssumption
    <3>2. 0 <= Buffer
      BY RelayAssumption
    <3> QED
      BY ONLY <1>3, <1>5, <2>1, <2>3, <3>1, <3>2 DEF PerRelay, Bounded
  <2>5. InOrder(r)'
    BY ONLY <1>2, <1>3, <1>4, <1>5, <1>6, <2>1, <2>2 DEF PerRelay, InOrder, Sized
  <2>6. Counted(r)'
    <3>1. count["relay"][r] + Size(held["relay"][r]) + 0 <= count["sender"][r]
      <4> DEFINE c == count["relay"][r]
                 h == Size(held["relay"][r])
                 u == Size(data["unix"][r])
                 m == count["sender"][r]
      <4>1. c \in Nat /\ h \in Nat /\ u \in Nat /\ m \in Nat /\ c + h + u <= m
        BY <1>3 DEF PerRelay, Counted, Sized
      <4> HIDE DEF c, h, u, m
      <4>2. c + h + 0 <= m
        BY ONLY <4>1
      <4> QED
        BY <4>2 DEF c, h, m
    <3>2. count["thread"][r] + Size(held["thread"][r]) + Size(data'["tls"][r])
            <= count["relay"][r]
      <4> DEFINE c == count["thread"][r]
                 h == Size(held["thread"][r])
                 a == Size(data["tls"][r])
                 b == Size(data'["tls"][r])
                 m == count["relay"][r]
      <4>1. /\ c \in Nat /\ h \in Nat /\ a \in Nat /\ b \in Nat /\ m \in Nat
            /\ b <= a /\ c + h + a <= m
        BY <1>3, <1>4, <1>5 DEF PerRelay, Counted, Sized
      <4> HIDE DEF c, h, a, b, m
      <4>2. c + h + b <= m
        BY ONLY <4>1
      <4> QED
        BY <4>2 DEF c, h, b, m
    <3> QED
      BY ONLY <1>3, <1>5, <2>1, <2>3, <3>1, <3>2 DEF PerRelay, Counted
  <2>7. Uncut(r)'
    <3>1. r \notin cut' => /\ r \notin cut /\ n = Len(t)
                           /\ sender[r] = "over" /\ data["unix"][r] = <<>>
      BY <1>1 DEF AtEof
    <3>2. r \notin cut' => data'["tls"][r] = data["tls"][r]
      BY <1>4, <1>5, <3>1
    <3> QED
      BY ONLY <1>2, <1>3, <1>5, <2>1, <3>1, <3>2 DEF PerRelay, Uncut
  <2> QED
    BY <2>4, <2>5, <2>6, <2>7 DEF PerRelay
<1> QED
  BY <1>8, <1>9, <1>10, <1>11, <1>12
-----------------------------------------------------------------------------
(* receive.py                                                              *)

LEMMA ThreadReadsStep ==
  ASSUME IInv, NEW r \in Relays, ThreadReads(r)
  PROVE  IInv'
PROOF
<1> USE DEF IInv
<1>1. /\ thread[r] = "forwarding" /\ Takes("thread", "tls", r)
      /\ UNCHANGED <<sender, relay, server, queue, thread, receiver, running, links,
                     count, got, cut>>
  BY DEF ThreadReads, rest
<1>2. "tls" \in Pipes /\ "thread" \in Readers
  BY DEF Pipes, Readers
<1> DEFINE u == data["tls"][r]
           c == <<Head(u)>>
<1>3. /\ data' \in [Pipes -> [Relays -> Queue]] /\ held' \in [Readers -> [Relays -> Queue]]
      /\ u # <<>> /\ held["thread"][r] = <<>>
      /\ data'["tls"][r] = Tail(u) /\ held'["thread"][r] = c
      /\ \A x \in Pipes, s \in Relays : x # "tls" \/ s # r => data'[x][s] = data[x][s]
      /\ \A x \in Readers, s \in Relays : x # "thread" \/ s # r => held'[x][s] = held[x][s]
  BY ONLY <1>1, <1>2, Typed, r \in Relays, TakesEffect
<1>4. Typed'
  BY <1>1, <1>3 DEF Typed
<1>5. Places' /\ Run(got, 0)'
  BY <1>1, PlacesStay
<1>6. ASSUME NEW s \in Relays, s # r PROVE PerRelay(s)'
  <2>1. Here(s)' = Here(s)
    BY <1>1, <1>3, <1>6 DEF Here, Pipes, Readers
  <2> QED
    BY <1>1, <2>1, Elsewhere DEF Base
<1>7. PerRelay(r)'
  <2>1. UNCHANGED <<sender[r], relay[r], thread[r], data["unix"][r], data["out"][r],
                    held["relay"][r], count["sender"][r], count["relay"][r],
                    count["thread"][r], Base(r), receiver, cut>>
    BY <1>1, <1>3 DEF Pipes, Readers, Base
  <2>2. Sized(r) /\ PerRelay(r)
    BY Lengths
  <2> HIDE DEF u, c
  <2>3. /\ Size(c) = 1 /\ Size(Tail(u)) \in Nat /\ Size(u) = Size(Tail(u)) + 1
        /\ \A k \in Nat : Run(u, k) => Run(c, k) /\ Run(Tail(u), k + 1)
        /\ Size(held["thread"][r]) = 0
    BY <1>3, <2>2, TailFacts, EmptyFacts DEF Sized, u, c
  <2>4. /\ AtThread(r)' = AtThread(r)
        /\ AtTls(r) = AtThread(r) /\ AtTls(r)' = AtTls(r) + 1
    BY <1>3, <2>1, <2>2, <2>3 DEF AtThread, AtTls, Sized
  <2>5. AtRelay(r)' = AtRelay(r) /\ AtUnix(r)' = AtUnix(r)
    <3>1. AtRelay(r) = AtTls(r) + Size(u) /\ AtRelay(r)' = AtTls(r)' + Size(Tail(u))
      BY <1>3 DEF AtRelay, u
    <3> QED
      BY <2>1, <2>2, <2>3, <2>4, <3>1 DEF AtUnix, Sized
  <2>6. Bounded(r)'
    <3>1. Size(Tail(u)) <= Size(u)
      BY <2>3
    <3>2. Size(Tail(u)) <= Buffer
      BY <2>2, <2>3, <3>1, RelayAssumption DEF PerRelay, Bounded, Sized, u
    <3> QED
      BY ONLY <1>3, <2>1, <2>2, <2>3, <3>2 DEF PerRelay, Bounded
  <2>7. InOrder(r)'
    <3>1. Run(u, AtTls(r)) => Run(c, AtThread(r)) /\ Run(Tail(u), AtTls(r) + 1)
      BY <2>2, <2>3, <2>4 DEF Sized
    <3> QED
      BY ONLY <1>3, <2>1, <2>2, <2>4, <2>5, <3>1 DEF PerRelay, InOrder, u
  <2>8. Size(held'["thread"][r]) + Size(data'["tls"][r])
          = Size(held["thread"][r]) + Size(u)
    BY <1>3, <2>3
  <2>9. (Counted(r) /\ Uncut(r))'
    <3> DEFINE n == count["thread"][r]
               a == Size(held["thread"][r])
               b == Size(u)
               x == Size(held'["thread"][r])
               y == Size(data'["tls"][r])
    <3>1. n \in Nat /\ a \in Nat /\ b \in Nat /\ x \in Nat /\ y \in Nat /\ x + y = a + b
      BY <1>3, <2>2, <2>3, <2>8 DEF Sized, u
    <3>2. n + x + y = n + a + b
      BY ONLY <3>1
    <3> QED
      BY ONLY <1>1, <2>1, <2>2, <3>2 DEF PerRelay, Counted, Uncut, u
  <2> QED
    BY <2>6, <2>7, <2>9 DEF PerRelay
<1> QED
  BY <1>4, <1>5, <1>6, <1>7

LEMMA ThreadSendsStep ==
  ASSUME IInv, NEW r \in Relays, ThreadSends(r)
  PROVE  IInv'
PROOF
<1> USE DEF IInv
<1> DEFINE h == held["thread"][r]
           o == data["out"][r]
<1>1. /\ thread[r] = "forwarding" /\ h # <<>> /\ Size(o) < Buffer
      /\ Put("out", r, Head(h)) /\ Counts("thread", r)
      /\ Drops("thread", r)
      /\ UNCHANGED <<sender, relay, server, queue, thread, receiver, running, links,
                     got, cut>>
  BY DEF ThreadSends, Fits, Size, Drops, rest
<1>2. "out" \in Pipes /\ "thread" \in Readers /\ "thread" \in Programs
  BY DEF Pipes, Readers, Programs
<1>3. /\ held' \in [Readers -> [Relays -> Queue]] /\ held'["thread"][r] = <<>>
      /\ \A x \in Readers, s \in Relays : x # "thread" \/ s # r => held'[x][s] = held[x][s]
  BY ONLY <1>1, <1>2, Typed, r \in Relays, DropEffect
<1>4. Sized(r) /\ PerRelay(r)
  BY Lengths
<1>5. /\ Head(h) \in 1..Chunks /\ Size(h) = 1
      /\ \A k \in Nat : Run(h, k) => Head(h) = k + 1
  <2>1. /\ Head(h) \in 1..Chunks /\ Size(Tail(h)) \in Nat /\ Size(h) = Size(Tail(h)) + 1
        /\ \A k \in Nat : Run(h, k) => Head(h) = k + 1
    BY <1>1, <1>4, TailFacts DEF Sized
  <2> QED
    BY <1>4, <2>1 DEF PerRelay, Bounded
<1>6. /\ count' \in [Programs -> [Relays -> Nat]]
      /\ count'["thread"][r] = count["thread"][r] + 1
      /\ \A x \in Programs, s \in Relays :
           x # "thread" \/ s # r => count'[x][s] = count[x][s]
  BY ONLY <1>1, <1>2, Typed, r \in Relays, CountsEffect
<1>7. /\ data' \in [Pipes -> [Relays -> Queue]]
      /\ data'["out"][r] = Append(o, Head(h)) /\ Size(data'["out"][r]) = Size(o) + 1
      /\ \A q \in Pipes, s \in Relays : q # "out" \/ s # r => data'[q][s] = data[q][s]
  BY ONLY <1>1, <1>2, <1>5, Typed, r \in Relays, PutEffect
<1>8. Typed'
  BY <1>1, <1>3, <1>6, <1>7 DEF Typed
<1>9. Places' /\ Run(got, 0)'
  BY <1>1, PlacesStay
<1>10. ASSUME NEW s \in Relays, s # r PROVE PerRelay(s)'
  <2>1. Here(s)' = Here(s)
    BY <1>1, <1>3, <1>6, <1>7, <1>10 DEF Here, Pipes, Readers, Programs
  <2> QED
    BY <1>1, <2>1, Elsewhere DEF Base
<1>11. PerRelay(r)'
  <2>1. UNCHANGED <<sender[r], relay[r], thread[r], data["unix"][r], data["tls"][r],
                    held["relay"][r], count["sender"][r], count["relay"][r],
                    Base(r), receiver, cut>>
    BY <1>1, <1>3, <1>6, <1>7 DEF Pipes, Readers, Programs, Base
  <2>2. Size(held'["thread"][r]) = 0 /\ \A k \in Nat : Run(held'["thread"][r], k)
    BY <1>3, EmptyFacts
  <2> HIDE DEF o, h
  <2>3. AtThread(r)' = AtThread(r) + 1 /\ AtTls(r)' = AtTls(r)
    <3>1. AtThread(r)' = AtThread(r) + 1
      BY <1>4, <1>7, <2>1 DEF AtThread, Sized, o
    <3> QED
      BY <1>4, <1>5, <2>2, <3>1 DEF AtTls, Sized, h
  <2>4. UNCHANGED <<AtRelay(r), AtUnix(r)>>
    BY <2>1, <2>3 DEF AtRelay, AtUnix
  <2>5. Sized(r)'
    BY <1>8, LengthsNext
  <2>6. Bounded(r)'
    <3>1. Size(o) + 1 <= Buffer
      BY <1>1, <1>4, RelayAssumption DEF Sized, o
    <3> QED
      BY ONLY <1>4, <1>7, <2>1, <2>2, <3>1 DEF PerRelay, Bounded
  <2>7. InOrder(r)'
    <3>1. /\ AtThread(r) \in Nat /\ Base(r) \in Nat /\ o \in Queue
          /\ AtThread(r) = Base(r) + Size(o)
      BY <1>4 DEF AtThread, Sized, o
    <3>2. Run(h, AtThread(r)) => Head(h) = Base(r) + Size(o) + 1
      BY ONLY <1>5, <3>1
    <3>3. Run(o, Base(r)) /\ Run(h, AtThread(r)) => Run(data'["out"][r], Base(r))
      BY ONLY <1>5, <1>7, <3>1, <3>2, AppendFacts
    <3> QED
      BY ONLY <1>1, <1>4, <2>1, <2>2, <2>3, <2>4, <2>5, <3>3
         DEF PerRelay, InOrder, Sized, o, h
  <2> DEFINE n == count["thread"][r]
             m == count'["thread"][r]
             b == Size(data["tls"][r])
  <2>8. m + 0 + b = n + Size(h) + b
    <3>1. n \in Nat /\ m = n + 1 /\ b \in Nat /\ Size(h) = 1
      BY <1>4, <1>5, <1>6 DEF Sized
    <3> QED
      BY ONLY <3>1
  <2>9. (Counted(r) /\ Uncut(r))'
    BY ONLY <1>1, <1>4, <2>1, <2>2, <2>8 DEF PerRelay, Counted, Uncut, h
  <2> QED
    BY <2>6, <2>7, <2>9 DEF PerRelay
<1> QED
  BY <1>8, <1>9, <1>10, <1>11

\* A thread ends, at the end of the stream or with its data cut off.
LEMMA ThreadOver ==
  ASSUME IInv, NEW r \in Relays, thread[r] \in {"started", "forwarding"},
         thread' = [thread EXCEPT ![r] = "over"],
         held' = held \/ Drops("thread", r),
         data' = [data EXCEPT !["tls"][r] = <<>>],
         \/ cut' = cut \cup {r}
         \/ /\ cut' = cut /\ relay[r] = "over"
            /\ data["tls"][r] = <<>> /\ held["thread"][r] = <<>>,
         UNCHANGED <<sender, relay, server, queue, receiver, running, links, count, got>>
  PROVE  IInv'
PROOF
<1> USE DEF IInv
<1>1. Sized(r) /\ PerRelay(r)
  BY Lengths
<1>2. /\ data' \in [Pipes -> [Relays -> Queue]]
      /\ data'["tls"][r] = <<>>
      /\ \A q \in Pipes, s \in Relays : q # "tls" \/ s # r => data'[q][s] = data[q][s]
  <2>1. "tls" \in Pipes /\ data \in [Pipes -> [Relays -> Queue]] /\ <<>> \in Queue
    BY EmptyFacts DEF Typed, Pipes
  <2>2. data' = [data EXCEPT !["tls"] = [data["tls"] EXCEPT ![r] = <<>>]]
    BY ONLY <2>1, data' = [data EXCEPT !["tls"][r] = <<>>], r \in Relays
  <2> QED
    BY ONLY <2>1, <2>2, r \in Relays
<1>3. /\ held' \in [Readers -> [Relays -> Queue]]
      /\ held'["thread"][r] = <<>> \/ held'["thread"][r] = held["thread"][r]
      /\ \A x \in Readers, s \in Relays : x # "thread" \/ s # r => held'[x][s] = held[x][s]
  <2>1. "thread" \in Readers
    BY DEF Readers
  <2>2. CASE held' = held
    <3>1. held \in [Readers -> [Relays -> Queue]]
      BY DEF Typed
    <3> QED
      BY ONLY <2>2, <3>1
  <2>3. CASE Drops("thread", r)
    BY ONLY <2>1, <2>3, Typed, r \in Relays, DropEffect
  <2> QED
    BY <2>2, <2>3
<1>4. /\ thread' \in [Relays -> {"none", "started", "forwarding", "over"}]
      /\ thread'[r] = "over" /\ \A s \in Relays : s # r => thread'[s] = thread[s]
  <2>1. thread \in [Relays -> {"none", "started", "forwarding", "over"}]
    BY DEF Typed
  <2> QED
    BY ONLY <2>1, thread' = [thread EXCEPT ![r] = "over"], r \in Relays
<1>5. cut' \subseteq Relays /\ cut \subseteq cut'
  <2>1. cut \subseteq Relays
    BY DEF Typed
  <2>2. cut' = cut \cup {r} \/ cut' = cut
    OBVIOUS
  <2> QED
    BY ONLY <2>1, <2>2, r \in Relays
<1>6. Typed'
  BY <1>2, <1>3, <1>4, <1>5 DEF Typed
<1>7. Places'
  <2>1. server # "over" /\ relay[r] \notin {"off", "connecting"}
    BY DEF Places
  <2>2. \A i \in 1..Len(queue) : queue[i] \in Relays /\ queue[i] # r
    BY <2>1 DEF Typed, Places
  <2> QED
    BY <1>4, <2>1, <2>2 DEF Places
<1>8. Run(got, 0)'
  BY DEF Run
<1>9. ASSUME NEW s \in Relays, s # r PROVE PerRelay(s)'
  <2>1. Here(s)' = Here(s)
    BY <1>2, <1>3, <1>4, <1>9 DEF Here, Pipes, Readers
  <2> QED
    BY <1>5, <2>1, Elsewhere DEF Base
<1>10. PerRelay(r)'
  <2>1. UNCHANGED <<sender[r], relay[r], data["unix"][r], data["out"][r],
                    held["relay"][r], count["sender"][r], count["relay"][r],
                    count["thread"][r], Base(r), receiver>>
    BY <1>2, <1>3 DEF Base, Pipes, Readers
  <2>2. Size(<<>>) = 0 /\ 0 <= Buffer
    BY EmptyFacts, RelayAssumption
  <2>3. Size(held'["thread"][r]) \in Nat
        /\ Size(held'["thread"][r]) <= Size(held["thread"][r])
    BY <1>1, <1>3, <2>2 DEF Sized
  <2>4. Bounded(r)'
    <3>1. Size(held'["thread"][r]) <= 1
      BY <1>3, <1>1, <2>2 DEF PerRelay, Bounded
    <3> QED
      BY ONLY <1>1, <1>2, <2>1, <2>2, <3>1 DEF PerRelay, Bounded
  <2>5. InOrder(r)'
    BY ONLY <1>1, <1>4, <2>1 DEF PerRelay, InOrder
  <2>6. Counted(r)'
    <3> DEFINE c == count["thread"][r]
               a == Size(held["thread"][r])
               h == Size(held'["thread"][r])
               t == Size(data["tls"][r])
               m == count["relay"][r]
    <3>1. /\ c \in Nat /\ a \in Nat /\ h \in Nat /\ t \in Nat /\ m \in Nat
          /\ h <= a /\ c + a + t <= m
      BY <1>1, <2>3 DEF PerRelay, Counted, Sized
    <3> HIDE DEF c, a, h, t, m
    <3>2. c + h + 0 <= m
      BY ONLY <3>1
    <3> QED
      BY ONLY <1>1, <1>2, <2>1, <2>2, <3>2 DEF PerRelay, Counted, c, h, m
  <2>7. Uncut(r)'
    <3>1. CASE r \in cut'
      BY <3>1 DEF Uncut
    <3>2. CASE r \notin cut'
      <4>1. /\ r \notin cut /\ relay[r] = "over"
            /\ data["tls"][r] = <<>> /\ held["thread"][r] = <<>>
        BY <3>2
      <4>2. data'["tls"][r] = data["tls"][r] /\ held'["thread"][r] = held["thread"][r]
        BY <1>2, <1>3, <4>1
      <4> QED
        BY ONLY <1>1, <2>1, <4>1, <4>2 DEF PerRelay, Uncut
    <3> QED
      BY <3>1, <3>2
  <2> QED
    BY <2>4, <2>5, <2>6, <2>7 DEF PerRelay
<1> QED
  BY <1>6, <1>7, <1>8, <1>9, <1>10

LEMMA ThreadEndsStep ==
  ASSUME IInv, NEW r \in Relays, ThreadEnds(r)
  PROVE  IInv'
PROOF
BY ThreadOver DEF ThreadEnds, Drops, rest

LEMMA ThreadConnectsStep ==
  ASSUME IInv, NEW r \in Relays, ThreadConnects(r)
  PROVE  IInv'
PROOF
<1> USE DEF IInv
<1>1. /\ thread[r] = "started"
      /\ UNCHANGED <<sender, relay, server, queue, receiver, running, held, count, got>>
  BY DEF ThreadConnects
<1>2. CASE receiver \notin {"accepting", "reading"}
  BY ONLY IInv, r \in Relays, ThreadConnects(r), <1>2, ThreadOver DEF ThreadConnects
<1>3. CASE receiver \in {"accepting", "reading"}
  <2>1. /\ thread' = [thread EXCEPT ![r] = "forwarding"]
        /\ links' = Append(links, r)
        /\ UNCHANGED <<data, cut>>
    BY <1>3 DEF ThreadConnects
  <2>2. /\ links' \in Seq(Relays) /\ links' # <<>>
        /\ Head(links') = IF links = <<>> THEN r ELSE Head(links)
    <3>1. links \in Seq(Relays)
      BY DEF Typed
    <3>2. links = <<>> \/ Len(links) \in Nat \ {0}
      BY <3>1, EmptySeq
    <3>3. /\ Append(links, r) \in Seq(Relays) /\ Append(links, r) # <<>>
          /\ links = <<>> => Append(links, r)[1] = r
          /\ links # <<>> => Append(links, r)[1] = links[1]
      BY ONLY <3>1, <3>2, r \in Relays, AppendProperties
    <3> QED
      BY <2>1, <3>1, <3>3
  <2>3. /\ thread' \in [Relays -> {"none", "started", "forwarding", "over"}]
        /\ thread'[r] = "forwarding" /\ \A s \in Relays : s # r => thread'[s] = thread[s]
    BY <2>1 DEF Typed
  <2>4. Typed'
    BY <1>1, <2>1, <2>2, <2>3 DEF Typed
  <2>5. Places'
    <3>1. server # "over" /\ relay[r] \notin {"off", "connecting"}
      BY <1>1 DEF Places
    <3>2. \A i \in 1..Len(queue) : queue[i] \in Relays /\ queue[i] # r
      BY <3>1 DEF Typed, Places
    <3> QED
      BY <1>1, <2>2, <2>3, <3>1, <3>2 DEF Places
  <2>6. Run(got, 0)'
    BY <1>1 DEF Run
  <2>7. ASSUME NEW s \in Relays PROVE PerRelay(s)'
    <3>1. Base(s)' = Base(s)
      <4>1. links = <<>> => Size(got) = 0
        BY EmptyFacts DEF Places
      <4> QED
        BY <1>1, <2>2, <4>1 DEF Base
    <3> QED
      BY <1>1, <2>1, <2>3, <3>1, ControlStays
  <2> QED
    BY <2>4, <2>5, <2>6, <2>7
<1> QED
  BY <1>2, <1>3

\* Whoever is over already when the server goes has nothing left that could be cut off.
LEMMA ServerOverStep ==
  ASSUME IInv, HandshakeFails \/ CtrlC
  PROVE  IInv'
PROOF
<1> USE DEF IInv
<1>1. /\ server # "over" /\ ServerOver
      /\ UNCHANGED <<sender, receiver, running, links, count, got>>
  BY DEF HandshakeFails, CtrlC, rest
<1>2. PICK late \in SUBSET (IF server = "handshake" THEN {Head(queue)} ELSE {}) :
        relay' = [r \in Relays |-> IF r \in late THEN "waiting"
                                   ELSE IF r \in Range(queue) THEN "over" ELSE relay[r]]
  BY <1>1 DEF ServerOver
<1>3. /\ server' = "over" /\ queue' = <<>>
      /\ thread' = [r \in Relays |-> "over"]
      /\ held' = [held EXCEPT !["thread"] = [r \in Relays |-> <<>>]]
      /\ data' = [data EXCEPT !["tls"] = [r \in Relays |-> <<>>]]
      /\ cut' = cut \cup {r \in Relays : thread[r] # "over"}
  BY <1>1 DEF ServerOver
<1>4. \A r \in Relays : relay'[r] \in {relay[r], "waiting", "over"}
        /\ (thread[r] = "over" => relay'[r] = relay[r])
  <2>1. \A i \in 1..Len(queue) : thread[queue[i]] = "none"
    BY DEF Places
  <2>2. \A r \in Range(queue) : thread[r] = "none"
    BY <2>1 DEF Range
  <2>3. \A r \in late : thread[r] = "none"
    <3>1. CASE server = "handshake"
      <4>1. queue \in Seq(Relays) /\ queue # <<>>
        BY <3>1 DEF Places, Typed
      <4>2. Head(queue) = queue[1] /\ 1 \in 1..Len(queue)
        BY <4>1
      <4> QED
        BY <1>2, <2>1, <3>1, <4>2
    <3>2. CASE server # "handshake"
      BY <1>2, <3>2
    <3> QED
      BY <3>1, <3>2
  <2> QED
    BY <1>2, <2>2, <2>3
<1>5. /\ data' \in [Pipes -> [Relays -> Queue]] /\ held' \in [Readers -> [Relays -> Queue]]
      /\ \A s \in Relays :
           /\ data'["tls"][s] = <<>> /\ held'["thread"][s] = <<>>
           /\ data'["unix"][s] = data["unix"][s] /\ data'["out"][s] = data["out"][s]
           /\ held'["relay"][s] = held["relay"][s] /\ thread'[s] = "over"
  BY <1>3, EmptyFacts DEF Typed, Pipes, Readers
<1>6. relay' \in [Relays -> {"off", "connecting", "waiting", "relaying", "over"}]
  BY <1>2 DEF Typed
<1>7. queue' \in Seq(Relays) /\ cut' \subseteq Relays
      /\ thread' \in [Relays -> {"none", "started", "forwarding", "over"}]
  BY <1>3 DEF Typed
<1>8. Typed'
  BY <1>1, <1>3, <1>5, <1>6, <1>7 DEF Typed
<1>9. Places'
  BY <1>1, <1>3 DEF Places
<1>10. Run(got, 0)'
  BY <1>1 DEF Run
<1>11. ASSUME NEW r \in Relays PROVE PerRelay(r)'
  <2>1. Sized(r) /\ PerRelay(r)
    BY Lengths
  <2>2. Size(<<>>) = 0 /\ 0 <= Buffer /\ 0 <= 1
    BY EmptyFacts, RelayAssumption
  <2>3. /\ UNCHANGED <<sender[r], data["unix"][r], data["out"][r], held["relay"][r],
                       count["sender"][r], count["relay"][r], count["thread"][r],
                       Base(r), receiver>>
        /\ data'["tls"][r] = <<>> /\ held'["thread"][r] = <<>> /\ thread'[r] = "over"
    BY <1>1, <1>5 DEF Base
  <2>4. (Bounded(r) /\ InOrder(r))'
    BY ONLY <2>1, <2>2, <2>3 DEF PerRelay, Bounded, InOrder
  <2>5. Counted(r)'
    <3> DEFINE c == count["thread"][r]
               a == Size(held["thread"][r])
               t == Size(data["tls"][r])
               m == count["relay"][r]
    <3>1. c \in Nat /\ a \in Nat /\ t \in Nat /\ m \in Nat /\ c + a + t <= m
      BY <2>1 DEF PerRelay, Counted, Sized
    <3> HIDE DEF c, a, t, m
    <3>2. c + 0 + 0 <= m
      BY ONLY <3>1
    <3> QED
      BY ONLY <2>1, <2>2, <2>3, <3>2 DEF PerRelay, Counted, c, m
  <2>6. Uncut(r)'
    <3>1. CASE r \in cut'
      BY <3>1 DEF Uncut
    <3>2. CASE r \notin cut'
      <4>1. r \notin cut /\ thread[r] = "over" /\ relay'[r] = relay[r]
        BY <1>3, <1>4, <3>2
      <4>2. data["tls"][r] = <<>> /\ held["thread"][r] = <<>>
        BY <2>1, <4>1 DEF PerRelay, Uncut
      <4> QED
        BY ONLY <2>1, <2>3, <4>1, <4>2 DEF PerRelay, Uncut
    <3> QED
      BY <3>1, <3>2
  <2> QED
    BY <2>4, <2>5, <2>6 DEF PerRelay
<1> QED
  BY <1>8, <1>9, <1>10, <1>11
-----------------------------------------------------------------------------
(* unix-receiver.py                                                        *)

LEMMA ReceiverEndsStep ==
  ASSUME IInv, ReceiverEnds
  PROVE  IInv'
PROOF
<1> USE DEF IInv
<1>1. /\ receiver = "reading" /\ receiver' = "over"
      /\ data' = [data EXCEPT !["out"] = [r \in Relays |-> <<>>]]
      /\ UNCHANGED <<sender, relay, server, queue, thread, running, links, held,
                     count, got, cut>>
  BY DEF ReceiverEnds, LoopWakes, rest
<1>2. /\ data' \in [Pipes -> [Relays -> Queue]]
      /\ \A s \in Relays : /\ data'["out"][s] = <<>>
                           /\ data'["tls"][s] = data["tls"][s]
                           /\ data'["unix"][s] = data["unix"][s]
  BY <1>1, EmptyFacts DEF Typed, Pipes
<1>3. Typed'
  BY <1>1, <1>2 DEF Typed
<1>4. Places' /\ Run(got, 0)'
  BY <1>1, PlacesStay
<1>5. ASSUME NEW r \in Relays PROVE PerRelay(r)'
  <2>1. PerRelay(r) /\ Size(<<>>) = 0 /\ 0 <= Buffer
    BY EmptyFacts, RelayAssumption
  <2>2. (Bounded(r) /\ InOrder(r))'
    BY ONLY <1>1, <1>2, <2>1, r \in Relays DEF PerRelay, Bounded, InOrder
  <2>3. (Counted(r) /\ Uncut(r))'
    BY ONLY <1>1, <1>2, <2>1, r \in Relays DEF PerRelay, Counted, Uncut
  <2> QED
    BY <2>2, <2>3 DEF PerRelay
<1> QED
  BY <1>3, <1>4, <1>5

\* What the receiver reads is the head of the only connection it has.
LEMMA ReceiverReadsStep ==
  ASSUME IInv, ReceiverReads
  PROVE  IInv'
PROOF
<1> USE DEF IInv
<1>1. links # <<>> /\ Head(links) \in Relays
  BY DEF ReceiverReads, Places, Typed
<1> PICK r \in Relays : r = Head(links)
  BY <1>1
<1> DEFINE o == data["out"][r]
<1>2. /\ receiver = "reading" /\ receiver' \in {"reading", "over"} /\ o # <<>>
      /\ got' = Append(got, Head(o))
      /\ data' = [data EXCEPT !["out"][r] = Tail(@)]
      /\ UNCHANGED <<sender, relay, server, queue, thread, running, links, held,
                     count, cut>>
  BY DEF ReceiverReads, rest
<1>3. Sized(r) /\ PerRelay(r) /\ Base(r) = Size(got)
  BY <1>1, Lengths DEF Base
<1>4. /\ Head(o) \in 1..Chunks /\ Tail(o) \in Queue /\ Size(Tail(o)) \in Nat
      /\ Size(o) = Size(Tail(o)) + 1
      /\ \A k \in Nat : Run(o, k) => Head(o) = k + 1 /\ Run(Tail(o), k + 1)
  BY ONLY <1>2, <1>3, TailFacts DEF Sized
<1>5. /\ data' \in [Pipes -> [Relays -> Queue]]
      /\ data'["out"][r] = Tail(o)
      /\ \A q \in Pipes, s \in Relays : q # "out" \/ s # r => data'[q][s] = data[q][s]
  <2>1. "out" \in Pipes /\ data \in [Pipes -> [Relays -> Queue]]
    BY DEF Typed, Pipes
  <2>2. data' = [data EXCEPT !["out"] = [data["out"] EXCEPT ![r] = Tail(o)]]
    BY ONLY <1>2, r \in Relays, <2>1
  <2> QED
    BY ONLY r \in Relays, <1>4, <2>1, <2>2
<1>6. Run(o, Size(got)) /\ Head(o) = Size(got) + 1 /\ Run(Tail(o), Size(got) + 1)
  <2>1. Run(o, Size(got)) /\ Size(got) \in Nat
    BY <1>2, <1>3 DEF PerRelay, InOrder, Sized
  <2> QED
    BY ONLY <1>4, <2>1
<1>7. /\ got' \in Queue /\ Size(got') = Size(got) + 1 /\ got' # <<>> /\ Run(got', 0)
  <2>1. got \in Queue /\ Size(got) \in Nat /\ Run(got, 0)
        /\ Head(o) = 0 + Size(got) + 1
    BY <1>3, <1>6 DEF Typed, Sized
  <2> QED
    BY ONLY <1>2, <1>4, <2>1, AppendFacts
<1>8. Typed'
  BY <1>2, <1>5, <1>7 DEF Typed
<1>9. Places'
  BY <1>1, <1>2 DEF Places
<1>10. ASSUME NEW s \in Relays, s # r PROVE PerRelay(s)'
  <2>1. Here(s)' = Here(s)
    BY <1>2, <1>5, <1>10 DEF Here, Pipes
  <2>2. Base(s)' = Base(s)
    BY <1>1, <1>2, <1>10 DEF Base
  <2> QED
    BY <1>2, <2>1, <2>2, Elsewhere
<1>11. PerRelay(r)'
  <2>1. UNCHANGED <<sender[r], relay[r], thread[r], data["unix"][r], data["tls"][r],
                    held["relay"][r], held["thread"][r], count["sender"][r],
                    count["relay"][r], count["thread"][r], cut>>
    BY <1>1, <1>2, <1>5 DEF Pipes
  <2>2. Base(r)' = Base(r) + 1
    BY <1>1, <1>2, <1>3, <1>7 DEF Base
  <2> HIDE DEF o
  <2>3. AtThread(r)' = AtThread(r)
    BY <1>3, <1>4, <1>5, <2>2 DEF AtThread, Sized, o
  <2>4. UNCHANGED <<AtTls(r), AtRelay(r), AtUnix(r)>>
    BY <2>1, <2>3 DEF AtTls, AtRelay, AtUnix
  <2>5. Bounded(r)'
    <3>1. Size(Tail(o)) <= Buffer
      BY <1>3, <1>4, RelayAssumption DEF PerRelay, Bounded, o
    <3> QED
      BY ONLY <1>3, <1>5, <2>1, <3>1 DEF PerRelay, Bounded
  <2>6. InOrder(r)'
    BY ONLY <1>2, <1>3, <1>5, <1>6, <2>1, <2>2, <2>3, <2>4 DEF PerRelay, InOrder
  <2>7. (Counted(r) /\ Uncut(r))'
    BY ONLY <1>3, <2>1 DEF PerRelay, Counted, Uncut
  <2> QED
    BY <2>5, <2>6, <2>7 DEF PerRelay
<1> QED
  BY <1>7, <1>8, <1>9, <1>10, <1>11
-----------------------------------------------------------------------------
(* The induction, and what follows.                                        *)

LEMMA InitIInv == Init => IInv
PROOF
<1> SUFFICES ASSUME Init PROVE IInv
  OBVIOUS
<1>1. Typed
  BY EmptyFacts DEF Init, Typed, Pipes, Readers, Programs
<1>2. Places
  BY DEF Init, Places
<1>3. Run(got, 0) /\ got = <<>>
  BY EmptyFacts DEF Init
<1>4. ASSUME NEW r \in Relays PROVE PerRelay(r)
  <2>1. /\ data["unix"][r] = <<>> /\ data["tls"][r] = <<>> /\ data["out"][r] = <<>>
        /\ held["relay"][r] = <<>> /\ held["thread"][r] = <<>>
        /\ count["sender"][r] = 0 /\ count["relay"][r] = 0 /\ count["thread"][r] = 0
        /\ sender[r] = "off" /\ relay[r] = "off" /\ thread[r] = "none" /\ Base(r) = 0
    BY DEF Init, Pipes, Programs, Base
  <2>2. Size(<<>>) = 0 /\ 0 <= Buffer /\ 0 <= Chunks /\ Run(<<>>, 0)
    BY EmptyFacts, RelayAssumption
  <2>3. AtThread(r) = 0 /\ AtTls(r) = 0 /\ AtRelay(r) = 0 /\ AtUnix(r) = 0
    BY ONLY <2>1, <2>2 DEF AtThread, AtTls, AtRelay, AtUnix
  <2>4. Bounded(r) /\ InOrder(r)
    BY ONLY <2>1, <2>2, <2>3 DEF Bounded, InOrder
  <2>5. Counted(r) /\ Uncut(r)
    BY ONLY <2>1, <2>2 DEF Counted, Uncut
  <2> QED
    BY <2>4, <2>5 DEF PerRelay
<1> QED
  BY <1>1, <1>2, <1>3, <1>4 DEF IInv

LEMMA NextIInv == IInv /\ [Next]_vars => IInv'
PROOF
<1> SUFFICES ASSUME IInv, [Next]_vars PROVE IInv'
  OBVIOUS
<1>1. ASSUME NEW r \in Relays, Loops(r) PROVE IInv'
  BY <1>1, SenderSteps, SenderSendsStep, RelayAcceptsStep, RelayReadsStep,
     RelaySendsStep, RelayEndsStep, ThreadConnectsStep, ThreadReadsStep,
     ThreadSendsStep, ThreadEndsStep DEF Loops
<1>2. ASSUME NEW r \in Relays, SenderStarts(r) \/ RelayStarts(r) PROVE IInv'
  BY <1>2, SenderSteps, RelayStartsStep
<1>3. CASE Serves \/ CtrlC
  BY <1>3, WaitingSteps, HandshakeEndsStep, ServerOverStep DEF Serves
<1>4. CASE Receives \/ ReceiverStarts \/ Signal
  BY <1>4, WaitingSteps, ReceiverReadsStep, ReceiverEndsStep DEF Receives
<1>5. CASE UNCHANGED vars
  <2> USE <1>5 DEF vars, rest, IInv
  <2>1. Typed'
    BY DEF Typed
  <2>2. Places' /\ Run(got, 0)'
    BY PlacesStay
  <2>3. ASSUME NEW s \in Relays PROVE PerRelay(s)'
    BY Elsewhere DEF Here, Base
  <2> QED
    BY <2>1, <2>2, <2>3
<1> QED
  BY <1>1, <1>2, <1>3, <1>4, <1>5 DEF Next

THEOREM Invariance == Spec => []IInv
PROOF
BY InitIInv, NextIInv, PTL DEF Spec

\* No pipe holds more than fits and no counter passes what a sender sends.
THEOREM TypeCorrect == Spec => []TypeOK
PROOF
<1>1. ASSUME IInv PROVE TypeOK
  <2> USE <1>1 DEF IInv
  <2>1. ASSUME NEW r \in Relays
        PROVE  /\ \A p \in Pipes : data[p][r] \in Queue /\ Len(data[p][r]) <= Buffer
               /\ \A p \in {"relay", "thread"} :
                    held[p][r] \in Queue /\ Len(held[p][r]) <= 1
               /\ \A p \in Programs : count[p][r] \in 0..Chunks
    <3>1. Sized(r) /\ PerRelay(r)
      BY Lengths
    <3>2. \A p \in Pipes : data[p][r] \in Queue /\ Len(data[p][r]) <= Buffer
      BY <3>1 DEF PerRelay, Bounded, Sized, Pipes, Size
    <3>3. \A p \in {"relay", "thread"} : held[p][r] \in Queue /\ Len(held[p][r]) <= 1
      BY <3>1 DEF PerRelay, Bounded, Sized, Size
    <3> DEFINE a == count["sender"][r]
               b == count["relay"][r]
               c == count["thread"][r]
               u == Size(data["unix"][r])
               h == Size(held["relay"][r])
               t == Size(data["tls"][r])
               k == Size(held["thread"][r])
    <3>4. /\ a \in Nat /\ b \in Nat /\ c \in Nat /\ u \in Nat /\ h \in Nat /\ t \in Nat
          /\ k \in Nat /\ a <= Chunks /\ b + h + u <= a /\ c + k + t <= b
      BY ONLY <3>1 DEF PerRelay, Counted, Sized
    <3> HIDE DEF a, b, c, u, h, t, k
    <3>5. a \in 0..Chunks /\ b \in 0..Chunks /\ c \in 0..Chunks
      BY <3>4, RelayAssumption
    <3> QED
      BY <3>2, <3>3, <3>5 DEF Programs, a, b, c
  <2> QED
    BY <2>1 DEF TypeOK, Typed
<1> QED
  BY <1>1, Invariance, PTL

\* Failed sends, lost connections and half of a stream thrown away: the receiver's
\* data is still the beginning of one sender's.
THEOREM NoGap == Spec => []PrefixReceived
PROOF
<1>1. ASSUME IInv PROVE PrefixReceived
  <2>1. got \in Seq(1..Chunks) /\ \A i \in 1..Len(got) : got[i] = i
    BY <1>1, RelayAssumption DEF IInv, Typed, Queue, Run
  <2> QED
    BY <2>1 DEF PrefixReceived
<1> QED
  BY <1>1, Invariance, PTL

\* What nothing has cut off, all three have counted.
THEOREM SameReports == Spec => []ReportsAgree
PROOF
<1>1. ASSUME IInv PROVE ReportsAgree
  <2> SUFFICES ASSUME NEW r \in Relays, relay[r] = "over", thread[r] = "over",
                      r \notin cut
               PROVE  \A p \in Programs : count[p][r] = count["sender"][r]
    BY DEF ReportsAgree
  <2>1. Sized(r) /\ PerRelay(r)
    BY <1>1, Lengths DEF IInv
  <2>2. /\ Size(<<>>) = 0 /\ held["relay"][r] = <<>> /\ data["unix"][r] = <<>>
        /\ held["thread"][r] = <<>> /\ data["tls"][r] = <<>>
    BY <2>1, EmptyFacts DEF PerRelay, Uncut
  <2>3. /\ count["sender"][r] = count["relay"][r] + 0 + 0
        /\ count["relay"][r] = count["thread"][r] + 0 + 0
    BY ONLY <2>1, <2>2, r \notin cut DEF PerRelay, Uncut
  <2> QED
    BY ONLY <2>1, <2>3 DEF Programs, Sized
<1> QED
  BY <1>1, Invariance, PTL
=============================================================================
