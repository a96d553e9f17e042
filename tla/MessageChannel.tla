--------------------------- MODULE MessageChannel ---------------------------
(***************************************************************************)
(* What the message layer promises to the algorithms above it: two         *)
(* reliable queues of whole messages, one per direction.  A message is     *)
(* handed over complete, unaltered, once, and in the order it was sent.    *)
(* Channel, with its frames, headers, sequence numbers and partial reads,  *)
(* is shown to implement this module.                                      *)
(***************************************************************************)
EXTENDS Naturals, Sequences

CONSTANT Message

VARIABLES
  requests,   \* messages the client has passed to channel::write
  served,     \* messages the server has received
  replies,    \* messages the server has sent
  delivered   \* messages channel::read has returned without an error

vars == <<requests, served, replies, delivered>>

Init ==
  /\ requests = <<>>
  /\ served = <<>>
  /\ replies = <<>>
  /\ delivered = <<>>

\* The receiver of a queue gets the first message it has not had yet.
Deliver(sent, received) ==
  /\ Len(received) < Len(sent)
  /\ received' = Append(received, sent[Len(received) + 1])

SendRequest ==
  /\ \E m \in Message : requests' = Append(requests, m)
  /\ UNCHANGED <<served, replies, delivered>>

ServeRequest ==
  /\ Deliver(requests, served)
  /\ UNCHANGED <<requests, replies, delivered>>

SendReply ==
  /\ \E m \in Message : replies' = Append(replies, m)
  /\ UNCHANGED <<requests, served, delivered>>

DeliverReply ==
  /\ Deliver(replies, delivered)
  /\ UNCHANGED <<requests, served, replies>>

Next == SendRequest \/ ServeRequest \/ SendReply \/ DeliverReply

Spec == Init /\ [][Next]_vars
=============================================================================
