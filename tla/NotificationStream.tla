------------------------- MODULE NotificationStream -------------------------
(***************************************************************************)
(* What the WebSocket client promises to IngestLoop: the notifications of  *)
(* the server, each at most once and in the order they were sent.  What is *)
(* lost is lost from the end: with a connection, or when nobody receives   *)
(* any more; a slow receiver loses nothing.                                *)
(***************************************************************************)
EXTENDS Naturals, Sequences

VARIABLES
  sent,      \* how many notifications the server has sent; they are numbered
  pending,   \* sent and still to be received
  received   \* what IngestLoop has received

Init == sent = 0 /\ pending = <<>> /\ received = <<>>

\* A notification is sent; it may be lost on the spot.
Send ==
  /\ sent' = sent + 1
  /\ pending' \in {pending, Append(pending, sent + 1)}
  /\ UNCHANGED received

Receive ==
  /\ pending # <<>>
  /\ received' = Append(received, Head(pending))
  /\ pending' = Tail(pending)
  /\ UNCHANGED sent

\* The latest notifications are lost.
Lose ==
  /\ \E k \in 0 .. Len(pending) - 1 : pending' = SubSeq(pending, 1, k)
  /\ UNCHANGED <<sent, received>>

Next == Send \/ Receive \/ Lose

Spec == Init /\ [][Next]_<<sent, pending, received>>
=============================================================================
