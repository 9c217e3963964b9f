---------------------------- MODULE ForwardData ----------------------------
(***************************************************************************)
(* One call of forward_data in migrate-proxy: read_task moves what the     *)
(* StreamReader holds into a CircularQueue, write_task moves the queue     *)
(* into the outgoing transport.  The same code is in tcp-migration-        *)
(* server.py and tcp-migration-client.py.                                  *)
(*                                                                         *)
(* The tasks run on one asyncio event loop.  A task runs until it awaits   *)
(* something that is not ready:                                            *)
(*   - reader.read suspends only when the StreamReader is empty and has    *)
(*     neither end-of-stream nor an exception, so one slice of read_task   *)
(*     empties the StreamReader;                                           *)
(*   - the queue's lock is never held across a suspension, so put, get     *)
(*     and close take it at once, and get suspends only on a queue that    *)
(*     is empty and open: one slice of write_task empties the queue;       *)
(*   - writer.write never suspends, and no drain is awaited.               *)
(* Tasks that became runnable run in the order they did: `ready` is the    *)
(* part of the loop's FIFO of handles that belongs to this call.           *)
(*                                                                         *)
(* A chunk is what one read(8192) returns; chunks are numbered as they     *)
(* arrive.  The transport stops reading while the StreamReader holds more  *)
(* than twice its limit, which bounds the chunks it can hold at once by    *)
(* FillChunks (at most 48 with asyncio's 64 KiB limit and 256 KiB recv).   *)
(***************************************************************************)
EXTENDS Integers, Sequences

CONSTANTS
  MaxSize,     \* capacity of the CircularQueue: deque(maxlen=1000)
  FillChunks,  \* most chunks the StreamReader can hold
  StreamLen    \* length of the longest stream considered, in chunks

ASSUME SizesAssumption ==
  /\ MaxSize \in Nat \ {0}
  /\ FillChunks \in Nat \ {0}
  /\ StreamLen \in Nat

\* A full StreamReader fits the queue: 48 chunks against 1000.
ASSUME FillAssumption == FillChunks <= MaxSize

VARIABLES
  ready,      \* handles of this call in the event loop, oldest first
  fwd,        \* the coroutine forward_data itself
  rpc, wpc,   \* read_task and write_task: "new" until their first slice
  cancelled,  \* forward_data was cancelled while it awaited gather
  arrived,    \* number of chunks fed to the StreamReader so far
  buffer,     \* chunks in the StreamReader
  input,      \* its end: "open", "eof", or "error" once set_exception ran
  queue,      \* CircularQueue.queue
  closed,     \* CircularQueue.closed
  sent        \* chunks passed to writer.write so far

vars == <<ready, fwd, rpc, wpc, cancelled, arrived, buffer, input, queue,
          closed, sent>>

Handles == {"fwd", "read", "write"}
TaskStates == {"new", "waiting", "ready", "done"}

Numbers(n) == [i \in 1 .. n |-> i]

TypeOK ==
  /\ ready \in Seq(Handles)
  /\ fwd \in {"new", "gather", "done"}
  /\ rpc \in TaskStates
  /\ wpc \in TaskStates
  /\ cancelled \in BOOLEAN
  /\ arrived \in 0 .. StreamLen
  /\ buffer \in Seq(Nat)
  /\ input \in {"open", "eof", "error"}
  /\ queue \in Seq(Nat)
  /\ closed \in BOOLEAN
  /\ sent \in Seq(Nat)

Init ==
  /\ ready = <<"fwd">>
  /\ fwd = "new"
  /\ rpc = "new"
  /\ wpc = "new"
  /\ cancelled = FALSE
  /\ arrived = 0
  /\ buffer = <<>>
  /\ input = "open"
  /\ queue = <<>>
  /\ closed = FALSE
  /\ sent = <<>>
-----------------------------------------------------------------------------
(* The event loop.                                                         *)

\* The oldest handle belongs to task h: it runs now.
Runs(h) == ready # <<>> /\ Head(ready) = h

\* A task whose future was resolved is scheduled once.
Woken(pc) == IF pc = "waiting" THEN "ready" ELSE pc
Wakeup(pc, h) == IF pc = "waiting" THEN <<h>> ELSE <<>>

\* gather resolves, and forward_data is scheduled, when the last child ends.
GatherResult(r, w) == IF r = "done" /\ w = "done" THEN <<"fwd">> ELSE <<>>
-----------------------------------------------------------------------------
(* The StreamReader: callbacks of the incoming transport.  They run        *)
(* between two slices of the tasks, at any point.                          *)

WakeReader ==
  /\ rpc' = Woken(rpc)
  /\ ready' = ready \o Wakeup(rpc, "read")

\* data_received; the transport reads only while the StreamReader has room.
FeedData ==
  /\ input = "open"
  /\ arrived < StreamLen
  /\ Len(buffer) < FillChunks
  /\ arrived' = arrived + 1
  /\ buffer' = Append(buffer, arrived + 1)
  /\ WakeReader
  /\ UNCHANGED <<fwd, wpc, cancelled, input, queue, closed, sent>>

FeedEof ==
  /\ input = "open"
  /\ Len(buffer) < FillChunks
  /\ input' = "eof"
  /\ WakeReader
  /\ UNCHANGED <<fwd, wpc, cancelled, arrived, buffer, queue, closed, sent>>

\* connection_lost with an exception, while somebody can still observe it.
SetException ==
  /\ input # "error"
  /\ rpc # "done"
  /\ input' = "error"
  /\ WakeReader
  /\ UNCHANGED <<fwd, wpc, cancelled, arrived, buffer, queue, closed, sent>>
-----------------------------------------------------------------------------
(* CircularQueue.                                                          *)

\* A deque with a maxlen keeps its newest elements.
Newest(q) ==
  IF Len(q) <= MaxSize THEN q ELSE SubSeq(q, Len(q) - MaxSize + 1, Len(q))

\* put, once for each item: nothing happens once the queue is closed.
Put(q, items) == IF closed THEN q ELSE Newest(q \o items)

\* Mutant: get gives up as soon as the queue is closed.
GotItemsIfOpen == IF closed THEN <<>> ELSE queue

\* Mutant: pop instead of popleft.
GotItemsNewestFirst == [i \in 1 .. Len(queue) |-> queue[Len(queue) + 1 - i]]

\* What get returns until it would suspend or returns None: every item.
GotItems == queue

\* get returned None rather than suspending.
GotNone == closed
-----------------------------------------------------------------------------
(* read_task.  Its slice ends suspended in reader.read, or done.           *)

\* Mutant: the queue is not closed at end-of-stream.
ReadChunksLeavingOpen ==
  /\ queue' = Put(queue, buffer)
  /\ buffer' = <<>>
  /\ rpc' = IF input = "eof" THEN "done" ELSE "waiting"
  /\ UNCHANGED closed

\* read returns what the buffer holds, then suspends or returns b''.
ReadChunks ==
  /\ queue' = Put(queue, buffer)
  /\ buffer' = <<>>
  /\ closed' = (closed \/ input = "eof")
  /\ rpc' = IF input = "eof" THEN "done" ELSE "waiting"

\* Mutant: the loop swallows the exception and reads again.
ReadAgain ==
  /\ rpc' = "waiting"
  /\ UNCHANGED <<closed, queue, buffer>>

\* CancelledError surfaces in reader.read, before anything the buffer still
\* holds; the finally clause closes.
ReadAborted ==
  /\ closed' = TRUE
  /\ rpc' = "done"
  /\ UNCHANGED <<queue, buffer>>

\* feed_data woke the read that is about to go on.
ReadWoken == rpc = "ready" /\ buffer # <<>>

\* reader.read raises the connection's exception, whatever the buffer holds;
\* but a read woken before the exception came still returns its chunk first.
ReadFails ==
  /\ \/ /\ ReadWoken
        /\ queue' = Put(queue, <<Head(buffer)>>)
        /\ buffer' = Tail(buffer)
     \/ ~ReadWoken /\ UNCHANGED <<queue, buffer>>
  /\ closed' = TRUE
  /\ rpc' = "done"

\* Mutant: put does not notify.
NotifyWriterOnClose == IF closed' THEN Woken(wpc) ELSE wpc

\* Mutant: close does not notify.
NotifyWriterOnPut == IF queue' # queue THEN Woken(wpc) ELSE wpc

\* notify in put, notify_all in close.
NotifyWriter ==
  IF closed' \/ queue' # queue THEN Woken(wpc) ELSE wpc

ReadTask ==
  /\ Runs("read")
  /\ \/ cancelled /\ ReadAborted
     \/ ~cancelled /\ input = "error" /\ ReadFails
     \/ ~cancelled /\ input # "error" /\ ReadChunks
  /\ wpc' = NotifyWriter
  /\ ready' = Tail(ready)
                \o (IF wpc' # wpc THEN <<"write">> ELSE <<>>)
                \o GatherResult(rpc', wpc')
  /\ UNCHANGED <<fwd, cancelled, arrived, input, sent>>
-----------------------------------------------------------------------------
(* write_task.  Its slice ends suspended in queue.get, or done.            *)

\* Mutant: the None of a closed queue is written too, as chunk -1.
WriteItemsAndNone ==
  /\ sent' = sent \o GotItems \o (IF GotNone THEN <<-1>> ELSE <<>>)
  /\ queue' = <<>>
  /\ wpc' = IF GotNone THEN "done" ELSE "waiting"

WriteItems ==
  /\ sent' = sent \o GotItems
  /\ queue' = <<>>
  /\ wpc' = IF GotNone THEN "done" ELSE "waiting"

\* CancelledError surfaces in queue.get: what is queued stays unwritten.
WriteAborted ==
  /\ wpc' = "done"
  /\ UNCHANGED <<sent, queue>>

\* Mutant: drain is awaited after each write, so the task yields with items
\* left in the queue.
WriteTaskDraining ==
  /\ Runs("write")
  /\ \/ cancelled /\ WriteAborted
     \/ ~cancelled /\ queue = <<>> /\ WriteItems
     \/ /\ ~cancelled /\ queue # <<>>
        /\ sent' = Append(sent, Head(queue))
        /\ queue' = Tail(queue)
        /\ wpc' = "ready"
  /\ ready' = Tail(ready)
                \o (IF wpc' = "ready" THEN <<"write">> ELSE <<>>)
                \o GatherResult(rpc, wpc')
  /\ UNCHANGED <<fwd, rpc, cancelled, arrived, buffer, input, closed>>

WriteTask ==
  /\ Runs("write")
  /\ IF cancelled THEN WriteAborted ELSE WriteItems
  /\ ready' = Tail(ready) \o GatherResult(rpc, wpc')
  /\ UNCHANGED <<fwd, rpc, cancelled, arrived, buffer, input, closed>>
-----------------------------------------------------------------------------
(* forward_data.                                                           *)

\* It creates both tasks and awaits gather.
StartTasks ==
  /\ Runs("fwd")
  /\ fwd = "new"
  /\ fwd' = "gather"
  /\ ready' = Tail(ready) \o <<"read", "write">>
  /\ UNCHANGED <<rpc, wpc, cancelled, arrived, buffer, input, queue, closed, sent>>

\* gather returned, or raised the CancelledError that is caught here.
Return ==
  /\ Runs("fwd")
  /\ fwd = "gather"
  /\ fwd' = "done"
  /\ ready' = Tail(ready)
  /\ UNCHANGED <<rpc, wpc, cancelled, arrived, buffer, input, queue, closed,
                 sent>>

\* task.cancel() by the connection's handler: gather cancels both children;
\* one that waits is scheduled, one already scheduled is marked.  By then
\* both have run: the loop starts them before the tasks of the direction
\* whose end makes the handler cancel this one can finish.
Cancel ==
  /\ fwd = "gather"
  /\ ~cancelled
  /\ rpc # "new" /\ wpc # "new"
  /\ cancelled' = TRUE
  /\ rpc' = Woken(rpc)
  /\ wpc' = Woken(wpc)
  /\ ready' = ready \o Wakeup(rpc, "read") \o Wakeup(wpc, "write")
  /\ UNCHANGED <<fwd, arrived, buffer, input, queue, closed, sent>>
-----------------------------------------------------------------------------
\* A scheduled handle of this call runs.
LoopStep == StartTasks \/ ReadTask \/ WriteTask \/ Return

\* What happens around the call.
Outside == FeedData \/ FeedEof \/ SetException \/ Cancel

Next == LoopStep \/ Outside

\* The event loop runs every handle it was given; nothing is assumed of the
\* peer or of the handler that may cancel.
Spec == Init /\ [][Next]_vars /\ WF_vars(LoopStep)
-----------------------------------------------------------------------------
(* Properties.                                                             *)

\* Nothing is lost, duplicated or reordered between reader.read and
\* writer.write: what was written, then what is queued, then what the
\* StreamReader holds is the stream as it arrived.  In particular the
\* drop-oldest append of the deque (CircularQueue.put) never drops.
Lossless == sent \o queue \o buffer = Numbers(arrived)

\* The queue never holds more than one StreamReader-full: write_task is
\* scheduled before read_task can run again, so a slice of read_task that
\* puts anything finds the queue empty.
BacklogBounded == Len(queue) <= FillChunks

\* No lost wakeup: a task that waits has nothing to do (get's while
\* condition, and StreamReader.read's).
NoIdleWork ==
  /\ wpc = "waiting" => queue = <<>> /\ ~closed
  /\ rpc = "waiting" => buffer = <<>> /\ input = "open"

\* forward_data that was not cancelled returns with the queue closed and
\* flushed; and with the whole stream written unless the read failed.
FlushedOnReturn ==
  fwd = "done" /\ ~cancelled =>
    /\ closed /\ queue = <<>>
    /\ input = "eof" => sent = Numbers(arrived)

\* End-of-stream, or a failed read, makes forward_data return.
EofReturns == input # "open" ~> fwd = "done"

\* A cancelled forward_data returns: the handler awaits it before it closes
\* the connection's sockets.
CancelReturns == cancelled ~> fwd = "done"

\* forward_data implements the lossless FIFO.
Fifo == INSTANCE ForwardFifo WITH
  accepted  <- Numbers(arrived),
  delivered <- sent,
  outcome   <- IF fwd # "done" THEN "running"
               ELSE IF cancelled \/ input = "error" THEN "partial"
               ELSE "complete"

ImplementsFifo == Fifo!Spec
=============================================================================
