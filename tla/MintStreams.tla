----------------------------- MODULE MintStreams -----------------------------
(***************************************************************************)
(* What the processing engine promises, without shards, goroutines or      *)
(* channels.  The swaps accepted for a mint form a stream that is          *)
(* processed strictly in the order of acceptance, each swap exactly once.  *)
(* Processing a swap raises at most one alert; alerts reach the sink in    *)
(* the order they were raised, each at most once, and none is invented.    *)
(* A swap may be refused and an alert may be lost, but only at these       *)
(* points: when it is offered, when it is raised and when it is sent.      *)
(***************************************************************************)
EXTENDS Integers, Sequences

CONSTANTS Mints, Ids

VARIABLES
  offered,    \* ids of the swaps offered so far
  pending,    \* per mint, the accepted swaps not processed yet, oldest first
  outbox,     \* alerts raised and not yet taken by the sink, oldest first
  delivered   \* alerts the sink has delivered, in order

svars == <<offered, pending, outbox, delivered>>

Init ==
  /\ offered = {}
  /\ pending = [m \in Mints |-> <<>>]
  /\ outbox = <<>>
  /\ delivered = <<>>

Offer(m, id) ==
  /\ id \notin offered
  /\ offered' = offered \cup {id}
  /\ \/ pending' = [pending EXCEPT ![m] = Append(@, id)]
     \/ pending' = pending                    \* refused
  /\ UNCHANGED <<outbox, delivered>>

Handle(m) ==
  /\ pending[m] # <<>>
  /\ pending' = [pending EXCEPT ![m] = Tail(@)]
  /\ \/ outbox' = Append(outbox, Head(pending[m]))
     \/ outbox' = outbox                      \* no alert, or no room for it
  /\ UNCHANGED <<offered, delivered>>

Take ==
  /\ outbox # <<>>
  /\ outbox' = Tail(outbox)
  /\ \/ delivered' = Append(delivered, Head(outbox))
     \/ delivered' = delivered                \* the sink failed
  /\ UNCHANGED <<offered, pending>>

Next ==
  \/ \E m \in Mints, id \in Ids : Offer(m, id)
  \/ \E m \in Mints : Handle(m)
  \/ Take

Spec == Init /\ [][Next]_svars
=============================================================================
