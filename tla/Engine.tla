------------------------------- MODULE Engine -------------------------------
(***************************************************************************)
(* The processing engine, processor.Engine: the goroutines that call       *)
(* IngestSwapInfo, one goroutine per shard (runShard), the alert worker    *)
(* (runAlertWorker), the bounded channels between them and the atomic      *)
(* counters Stats() reads.  Every channel operation and every atomic add   *)
(* is a step of its own, so another goroutine can run in between; the      *)
(* select/default sends of the code never block.                           *)
(*                                                                         *)
(* Whether a trade raises an alert is decided by shardState.process on     *)
(* the window of the mint (MintWindow.tla); here it is a free choice.      *)
(***************************************************************************)
EXTENDS Integers, Sequences, FiniteSets, Functions, Selection

CONSTANTS
  Callers,        \* goroutines that call IngestSwapInfo (webhook requests, enrichers)
  Mints,
  Shards,         \* indices of Engine.shards
  ShardOf,        \* shardForMint as a function of the mint
  QueuePerShard,  \* capacity of each shard channel
  AlertQueue,     \* capacity of the alerts channel
  Sinks,          \* what New may be given as AlertSink, see SinkKinds
  MaxIngests      \* bound: calls of IngestSwapInfo in a behaviour

(***************************************************************************)
(* "nil" is a nil interface: no worker is started.  "typed_nil" is what    *)
(* main passes when Telegram is not configured: NewTelegramSink returns a  *)
(* nil *TelegramSink, which as an AlertSink is not equal to nil.           *)
(***************************************************************************)
SinkKinds == {"nil", "typed_nil", "telegram"}

ASSUME EngineAssumption ==
  /\ ShardOf \in [Mints -> Shards]
  /\ QueuePerShard \in Nat \ {0}
  /\ AlertQueue \in Nat \ {0}
  /\ Sinks \subseteq SinkKinds
  /\ MaxIngests \in Nat

Ids == 1 .. MaxIngests
Event == [id : Ids, mint : Mints]

VARIABLES
  sink,          \* Engine.sink, which never changes
  ingests,       \* calls of IngestSwapInfo so far; numbers the events
  callerPc,      \* IngestSwapInfo: "idle", "sent" or "full" (counter not bumped yet)
  shards,        \* Engine.shards: the content of each channel
  shardPc,       \* runShard: "recv", "process", "alert", "queued", "lost", "count"
  shardEv,       \* runShard: the event in hand, <<>> or <<ev>>
  alerts,        \* Engine.alerts; an alert is named by the event that raised it
  workerPc,      \* runAlertWorker: "recv", "name", "send", "sent"
  workerAlert,   \* runAlertWorker: the alert in hand, <<>> or <<ev>>
  enqueued, dropped, handled, alertQueued, alertDropped, alertSent,  \* the counters
  sendFailed,    \* history: sends that returned an error
  delivered      \* history: ids of the messages that reached the chat, in order

counters == <<enqueued, dropped, handled, alertQueued, alertDropped, alertSent>>
vars == <<sink, ingests, callerPc, shards, shardPc, shardEv, alerts, workerPc,
          workerAlert, enqueued, dropped, handled, alertQueued, alertDropped,
          alertSent, sendFailed, delivered>>

Init ==
  /\ sink \in Sinks
  /\ ingests = 0
  /\ callerPc = [c \in Callers |-> "idle"]
  /\ shards = [s \in Shards |-> <<>>]
  /\ shardPc = [s \in Shards |-> "recv"]
  /\ shardEv = [s \in Shards |-> <<>>]
  /\ alerts = <<>>
  /\ workerPc = "recv"
  /\ workerAlert = <<>>
  /\ enqueued = 0 /\ dropped = 0 /\ handled = 0
  /\ alertQueued = 0 /\ alertDropped = 0 /\ alertSent = 0
  /\ sendFailed = 0
  /\ delivered = <<>>

-----------------------------------------------------------------------------
(* IngestSwapInfo, for a swap that passes its validation.  A swap that does *)
(* not is logged and dropped without touching the state.                    *)

\* Bug: one event more than the channel holds.
HasRoomForOneMore(s) == Len(shards[s]) <= QueuePerShard

HasRoom(s) == Len(shards[s]) < QueuePerShard

\* select { case e.shards[sh] <- ev: ... default: ... }
Offer(c, m, s) ==
  LET ev == [id |-> ingests + 1, mint |-> m]
  IN  /\ callerPc[c] = "idle"
      /\ ingests < MaxIngests
      /\ ingests' = ingests + 1
      /\ \/ /\ HasRoom(s)
            /\ shards' = [shards EXCEPT ![s] = Append(@, ev)]
            /\ callerPc' = [callerPc EXCEPT ![c] = "sent"]
         \/ /\ ~HasRoom(s)
            /\ callerPc' = [callerPc EXCEPT ![c] = "full"]
            /\ UNCHANGED shards
      /\ UNCHANGED <<shardPc, shardEv, alerts, workerPc, workerAlert, counters,
                     sendFailed, delivered>>

\* Bug: shards are taken in turn instead of by mint.
IngestRoundRobin(c, m) == \E s \in Shards : s = ingests % Cardinality(Shards) /\ Offer(c, m, s)

Ingest(c, m) == Offer(c, m, ShardOf[m])

\* The atomic add after the select; the call returns nil or ErrShardQueueFull.
CountIngest(c) ==
  /\ \/ callerPc[c] = "sent" /\ enqueued' = enqueued + 1 /\ UNCHANGED dropped
     \/ callerPc[c] = "full" /\ dropped' = dropped + 1 /\ UNCHANGED enqueued
  /\ callerPc' = [callerPc EXCEPT ![c] = "idle"]
  /\ UNCHANGED <<ingests, shards, shardPc, shardEv, alerts, workerPc, workerAlert,
                 handled, alertQueued, alertDropped, alertSent, sendFailed, delivered>>

-----------------------------------------------------------------------------
(* runShard *)

\* for ev := range ch
Receive(s) ==
  /\ shardPc[s] = "recv"
  /\ shards[s] # <<>>
  /\ shardEv' = [shardEv EXCEPT ![s] = <<Head(shards[s])>>]
  /\ shards' = [shards EXCEPT ![s] = Tail(@)]
  /\ shardPc' = [shardPc EXCEPT ![s] = "process"]
  /\ UNCHANGED <<ingests, callerPc, alerts, workerPc, workerAlert, counters,
                 sendFailed, delivered>>

\* state.process(ev): an alert, to be enqueued if there is a sink, or none.
Process(s) ==
  /\ shardPc[s] = "process"
  /\ \/ shardPc' = [shardPc EXCEPT ![s] = "count"]
     \/ sink # "nil" /\ shardPc' = [shardPc EXCEPT ![s] = "alert"]
  /\ UNCHANGED <<ingests, callerPc, shards, shardEv, alerts, workerPc, workerAlert,
                 counters, sendFailed, delivered>>

AlertQueued(s) ==
  /\ Len(alerts) < AlertQueue
  /\ alerts' = Append(alerts, shardEv[s][1])
  /\ shardPc' = [shardPc EXCEPT ![s] = "queued"]

\* Bug: enqueueAlert waits for room instead of dropping the alert.
AlertLostNever(s) == FALSE

\* Bug: the alert that finds the channel full takes the place of the oldest one.
AlertLostOldest(s) ==
  /\ Len(alerts) >= AlertQueue
  /\ alerts' = Append(Tail(alerts), shardEv[s][1])
  /\ shardPc' = [shardPc EXCEPT ![s] = "lost"]

AlertLost(s) ==
  /\ Len(alerts) >= AlertQueue
  /\ shardPc' = [shardPc EXCEPT ![s] = "lost"]
  /\ UNCHANGED alerts

\* The select of enqueueAlert.
EnqueueAlert(s) ==
  /\ shardPc[s] = "alert"
  /\ AlertQueued(s) \/ AlertLost(s)
  /\ UNCHANGED <<ingests, callerPc, shards, shardEv, workerPc, workerAlert, counters,
                 sendFailed, delivered>>

\* Bug: an alert that is dropped skips the rest of the loop, the count included.
CountAlertContinue(s) ==
  /\ \/ shardPc[s] = "queued" /\ alertQueued' = alertQueued + 1 /\ UNCHANGED alertDropped
        /\ shardPc' = [shardPc EXCEPT ![s] = "count"] /\ UNCHANGED shardEv
     \/ shardPc[s] = "lost" /\ alertDropped' = alertDropped + 1 /\ UNCHANGED alertQueued
        /\ shardPc' = [shardPc EXCEPT ![s] = "recv"]
        /\ shardEv' = [shardEv EXCEPT ![s] = <<>>]
  /\ UNCHANGED <<ingests, callerPc, shards, alerts, workerPc, workerAlert,
                 enqueued, dropped, handled, alertSent, sendFailed, delivered>>

\* Bug: alerts are counted as queued whether the channel took them or not.
CountAlertAlways(s) ==
  /\ shardPc[s] \in {"queued", "lost"}
  /\ alertQueued' = alertQueued + 1
  /\ shardPc' = [shardPc EXCEPT ![s] = "count"]
  /\ UNCHANGED <<ingests, callerPc, shards, shardEv, alerts, workerPc, workerAlert,
                 enqueued, dropped, handled, alertDropped, alertSent, sendFailed, delivered>>

\* The atomic add that ends enqueueAlert.
CountAlert(s) ==
  /\ \/ shardPc[s] = "queued" /\ alertQueued' = alertQueued + 1 /\ UNCHANGED alertDropped
     \/ shardPc[s] = "lost" /\ alertDropped' = alertDropped + 1 /\ UNCHANGED alertQueued
  /\ shardPc' = [shardPc EXCEPT ![s] = "count"]
  /\ UNCHANGED <<ingests, callerPc, shards, shardEv, alerts, workerPc, workerAlert,
                 enqueued, dropped, handled, alertSent, sendFailed, delivered>>

CountHandled(s) ==
  /\ shardPc[s] = "count"
  /\ handled' = handled + 1
  /\ shardPc' = [shardPc EXCEPT ![s] = "recv"]
  /\ shardEv' = [shardEv EXCEPT ![s] = <<>>]
  /\ UNCHANGED <<ingests, callerPc, shards, alerts, workerPc, workerAlert, enqueued,
                 dropped, alertQueued, alertDropped, alertSent, sendFailed, delivered>>

-----------------------------------------------------------------------------
(* runAlertWorker, started by New only when sink != nil *)

\* Bug: a nil *TelegramSink is taken for no sink, and no worker is started.
WorkerReceiveTelegramOnly ==
  /\ sink = "telegram"
  /\ workerPc = "recv"
  /\ alerts # <<>>
  /\ workerAlert' = <<Head(alerts)>>
  /\ alerts' = Tail(alerts)
  /\ workerPc' = "name"
  /\ UNCHANGED <<ingests, callerPc, shards, shardPc, shardEv, counters, sendFailed,
                 delivered>>

WorkerReceive ==
  /\ sink # "nil"
  /\ workerPc = "recv"
  /\ alerts # <<>>
  /\ workerAlert' = <<Head(alerts)>>
  /\ alerts' = Tail(alerts)
  /\ workerPc' = "name"
  /\ UNCHANGED <<ingests, callerPc, shards, shardPc, shardEv, counters, sendFailed,
                 delivered>>

\* FetchTokenMetadata returns, with a symbol or without: the alert is sent anyway.
WorkerLookup ==
  /\ workerPc = "name"
  /\ workerPc' = "send"
  /\ UNCHANGED <<ingests, callerPc, shards, shardPc, shardEv, alerts, workerAlert,
                 counters, sendFailed, delivered>>

\* sink.Send on a nil *TelegramSink returns nil at once.
SendDiscarded ==
  /\ sink = "typed_nil"
  /\ workerPc' = "sent"
  /\ UNCHANGED <<workerAlert, delivered, sendFailed>>

SendAccepted ==
  /\ sink = "telegram"
  /\ delivered' = Append(delivered, workerAlert[1].id)
  /\ workerPc' = "sent"
  /\ UNCHANGED <<workerAlert, sendFailed>>

\* Bug: the error is logged and the alert counted all the same.
SendRefusedCounted ==
  /\ sink = "telegram"
  /\ workerPc' = "sent"
  /\ UNCHANGED <<workerAlert, delivered, sendFailed>>

\* Bug: the worker returns on the first error.
SendRefusedReturn ==
  /\ sink = "telegram"
  /\ sendFailed' = sendFailed + 1
  /\ workerPc' = "returned"
  /\ UNCHANGED <<workerAlert, delivered>>

\* The message is refused, or accepted with an answer that comes after the
\* three seconds of the context: the worker takes both for a failure.
SendRefused ==
  /\ sink = "telegram"
  /\ \/ delivered' = Append(delivered, workerAlert[1].id)
     \/ UNCHANGED delivered
  /\ sendFailed' = sendFailed + 1
  /\ workerPc' = "recv"
  /\ workerAlert' = <<>>

Send ==
  /\ workerPc = "send"
  /\ SendDiscarded \/ SendAccepted \/ SendRefused
  /\ UNCHANGED <<ingests, callerPc, shards, shardPc, shardEv, alerts, counters>>

CountSent ==
  /\ workerPc = "sent"
  /\ alertSent' = alertSent + 1
  /\ workerPc' = "recv"
  /\ workerAlert' = <<>>
  /\ UNCHANGED <<ingests, callerPc, shards, shardPc, shardEv, alerts, enqueued, dropped,
                 handled, alertQueued, alertDropped, sendFailed, delivered>>

-----------------------------------------------------------------------------
CallerStep(c) == (\E m \in Mints : Ingest(c, m)) \/ CountIngest(c)
ShardStep(s) == Receive(s) \/ Process(s) \/ EnqueueAlert(s) \/ CountAlert(s) \/ CountHandled(s)
WorkerStep == WorkerReceive \/ WorkerLookup \/ Send \/ CountSent

Next ==
  /\ UNCHANGED sink
  /\ \/ \E c \in Callers : CallerStep(c)
     \/ \E s \in Shards : ShardStep(s)
     \/ WorkerStep

Spec == Init /\ [][Next]_vars

\* The Go scheduler runs every runnable goroutine again, and nothing a caller
\* or a shard does waits for anybody.  Nothing obliges a client to post swaps.
FairSpec ==
  /\ Spec
  /\ \A s \in Shards : WF_vars(UNCHANGED sink /\ ShardStep(s))
  /\ \A c \in Callers : WF_vars(UNCHANGED sink /\ CountIngest(c))

\* What holds only if the worker is not stuck in an external call: two seconds
\* bound the metadata lookup and three the send.
WorkerFairness == WF_vars(UNCHANGED sink /\ WorkerStep)

-----------------------------------------------------------------------------
(* Properties *)

\* Type invariant: program counters, channel contents within their capacity
\* and counters (processor.Engine).
TypeOK ==
  /\ sink \in Sinks
  /\ ingests \in 0 .. MaxIngests
  /\ callerPc \in [Callers -> {"idle", "sent", "full"}]
  /\ shards \in [Shards -> Seq(Event)]
  /\ \A s \in Shards : Len(shards[s]) <= QueuePerShard
  /\ shardPc \in [Shards -> {"recv", "process", "alert", "queued", "lost", "count"}]
  /\ shardEv \in [Shards -> {<<>>} \cup {<<ev>> : ev \in Event}]
  /\ \A s \in Shards : shardEv[s] = <<>> <=> shardPc[s] = "recv"
  /\ alerts \in Seq(Event)
  /\ Len(alerts) <= AlertQueue
  /\ workerPc \in {"recv", "name", "send", "sent"}
  /\ workerAlert \in {<<>>} \cup {<<ev>> : ev \in Event}
  /\ workerAlert = <<>> <=> workerPc = "recv"
  /\ enqueued \in Nat /\ dropped \in Nat /\ handled \in Nat
  /\ alertQueued \in Nat /\ alertDropped \in Nat /\ alertSent \in Nat
  /\ sendFailed \in Nat
  /\ delivered \in Seq(Ids)

CallersAt(pc) == Cardinality({c \in Callers : callerPc[c] = pc})
ShardsAt(pcs) == Cardinality({s \in Shards : shardPc[s] \in pcs})
Queued == SumFunction([s \in Shards |-> Len(shards[s])])
One(b) == IF b THEN 1 ELSE 0

\* No swap is lost or counted twice between IngestSwapInfo and runShard: the
\* calls that chose a branch of the select are exactly those counted or about
\* to be, and what went into the channels is handled, in hand or still queued.
\* Stats() can show Handled above Enqueued, but only by the calls in between.
IngestAccounted ==
  /\ enqueued + CallersAt("sent") + dropped + CallersAt("full") = ingests
  /\ enqueued + CallersAt("sent")
       = handled + Queued + ShardsAt({"process", "alert", "queued", "lost", "count"})

\* The same for alerts: what enqueueAlert put into the channel has been sent,
\* has failed, is in the worker's hands or is still queued.
AlertsAccounted ==
  alertQueued + ShardsAt({"queued"})
    = alertSent + sendFailed + Len(alerts) + One(workerPc # "recv")

\* All the swaps of a mint go through one shard, so two goroutines never work
\* on the same mint: shardState.byMint and its windows need no lock.
OneGoroutinePerMint ==
  \A s, t \in Shards :
    shardEv[s] # <<>> /\ shardEv[t] # <<>> /\ shardEv[s][1].mint = shardEv[t][1].mint
      => s = t

\* The counter AlertSent (logged as alert_sent_success) never runs ahead of the
\* messages that reached the chat.
SentMeansDelivered == alertSent + One(workerPc = "sent") <= Len(delivered)

\* It does not when Telegram is configured (runAlertWorker, TelegramSink.Send).
TelegramSentMeansDelivered == sink = "telegram" => SentMeansDelivered

IdsOf(q) == [i \in 1 .. Len(q) |-> q[i].id]

\* What a shard has in hand, unless it is done with it, and in its channel.
InHand(s) == IF shardPc[s] \in {"process", "alert"} THEN shardEv[s] ELSE <<>>
Waiting(s) == InHand(s) \o shards[s]

\* The swaps of mint m that were accepted and not processed yet, oldest first.
Unprocessed(m) == IdsOf(Select(Waiting(ShardOf[m]), {ev \in Event : ev.mint = m}))

\* The alerts raised and not handed to the sink yet, oldest first.
BeingSent == IF workerPc \in {"name", "send"} THEN workerAlert ELSE <<>>
Outgoing == BeingSent \o alerts
Unsent == IdsOf(Outgoing)

Streams == INSTANCE MintStreams WITH
  offered   <- 1 .. ingests,
  pending   <- [m \in Mints |-> Unprocessed(m)],
  outbox    <- Unsent

\* The engine implements the per-mint streams of MintStreams: sharding, the
\* channels and the interleaving of goroutines never reorder, repeat or invent
\* the swaps of a mint, nor the alerts on their way to the sink.
ImplementsMintStreams == Streams!Spec

\* Every accepted swap is eventually processed, even when the sink hangs for
\* ever and the alert channel stays full: enqueueAlert drops instead of waiting.
AcceptedIsHandled ==
  \A id \in Ids : (\E s \in Shards : \E i \in 1 .. Len(shards[s]) : shards[s][i].id = id)
    ~> (\A s \in Shards : /\ \A i \in 1 .. Len(shards[s]) : shards[s][i].id # id
                          /\ shardPc[s] = "recv" \/ shardEv[s][1].id # id)

\* Every alert in the channel is eventually handed to the sink, also when the
\* metadata lookup fails and when earlier sends fail.
AlertIsAttempted ==
  WorkerFairness => \A id \in Ids : (\E i \in 1 .. Len(alerts) : alerts[i].id = id)
    ~> (/\ \A i \in 1 .. Len(alerts) : alerts[i].id # id
        /\ workerPc = "recv" \/ workerAlert[1].id # id)

\* Once the callers stop, the counters settle and add up: everything enqueued
\* is handled, and everything queued for the sink was sent or has failed.
CountersSettle ==
  WorkerFairness =>
  <>[](/\ enqueued + dropped = ingests
       /\ enqueued = handled
       /\ alertQueued = alertSent + sendFailed)
=============================================================================
