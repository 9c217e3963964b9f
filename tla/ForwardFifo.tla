---------------------------- MODULE ForwardFifo ----------------------------
(***************************************************************************)
(* What forward_data promises for one direction of one connection: the     *)
(* chunks taken from the reader come out of the writer in the same order,  *)
(* none twice and none left out, and a call that ends by itself after      *)
(* end-of-stream has delivered every one of them.  A call that was         *)
(* cancelled, or whose reader failed, may stop anywhere.                   *)
(*                                                                         *)
(* Chunks are numbered in the order in which they arrive.                  *)
(***************************************************************************)
EXTENDS Naturals, Sequences

VARIABLES
  accepted,   \* chunks that have arrived from the peer, in order
  delivered,  \* chunks handed to the outgoing transport, in order
  outcome     \* "running", then "complete" or "partial"

vars == <<accepted, delivered, outcome>>

Init ==
  /\ accepted = <<>>
  /\ delivered = <<>>
  /\ outcome = "running"

Accept ==
  /\ outcome # "complete"
  /\ accepted' = Append(accepted, Len(accepted) + 1)
  /\ UNCHANGED <<delivered, outcome>>

\* Any number of the chunks not delivered yet, the oldest first.
Deliver ==
  /\ outcome = "running"
  /\ \E n \in Len(delivered) .. Len(accepted) :
       delivered' = SubSeq(accepted, 1, n)
  /\ UNCHANGED <<accepted, outcome>>

Finish ==
  /\ outcome = "running"
  /\ delivered = accepted
  /\ outcome' = "complete"
  /\ UNCHANGED <<accepted, delivered>>

GiveUp ==
  /\ outcome = "running"
  /\ outcome' = "partial"
  /\ UNCHANGED <<accepted, delivered>>

Next == Accept \/ Deliver \/ Finish \/ GiveUp

Spec == Init /\ [][Next]_vars
=============================================================================
