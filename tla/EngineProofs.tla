---------------------------- MODULE EngineProofs ----------------------------
(***************************************************************************)
(* Theorems about Engine.tla for every number of callers, mints, shards    *)
(* and events, every capacity and every kind of sink.                      *)
(***************************************************************************)
EXTENDS Engine, FoldLemmas

\* Every event lies in the channel, or in the hands, of the shard its mint
\* hashes to.  This is what makes OneGoroutinePerMint inductive.
Routed ==
  \A s \in Shards :
    /\ \A i \in 1 .. Len(shards[s]) : ShardOf[shards[s][i].mint] = s
    /\ shardEv[s] # <<>> => ShardOf[shardEv[s][1].mint] = s

LEMMA InitTypeOK == Init => TypeOK
BY EngineAssumption DEF Init, TypeOK, SinkKinds, Event, Ids

\* The types are kept by each operation of the engine.
LEMMA IngestTypeOK ==
  ASSUME TypeOK, UNCHANGED sink, NEW c \in Callers, NEW m \in Mints, Ingest(c, m)
  PROVE  TypeOK'
<1> DEFINE s == ShardOf[m]
           ev == [id |-> ingests + 1, mint |-> m]
<1>1. s \in Shards
  BY EngineAssumption
<1>2. ev \in Event
  BY EngineAssumption DEF Ingest, Offer, TypeOK, Event, Ids
<1>3. ingests' \in 0 .. MaxIngests /\ callerPc' \in [Callers -> {"idle", "sent", "full"}]
  <2>1. ingests' \in 0 .. MaxIngests
    BY EngineAssumption DEF Ingest, Offer, TypeOK
  <2>2. \/ callerPc' = [callerPc EXCEPT ![c] = "sent"]
        \/ callerPc' = [callerPc EXCEPT ![c] = "full"]
    BY DEF Ingest, Offer
  <2>. QED BY <2>1, <2>2 DEF TypeOK
<1>4. /\ shards' \in [Shards -> Seq(Event)]
      /\ \A t \in Shards : Len(shards'[t]) <= QueuePerShard
  <2>1. CASE HasRoom(s) /\ shards' = [shards EXCEPT ![s] = Append(@, ev)]
    BY <1>1, <1>2, <2>1, EngineAssumption DEF TypeOK, HasRoom
  <2>2. CASE shards' = shards
    BY <2>2 DEF TypeOK
  <2>. QED BY <2>1, <2>2 DEF Ingest, Offer
<1>. QED
  BY <1>3, <1>4 DEF Ingest, Offer, TypeOK, counters

LEMMA ShardTypeOK ==
  ASSUME TypeOK, UNCHANGED sink, NEW s \in Shards, ShardStep(s)
  PROVE  TypeOK'
<1>1. CASE Receive(s)
  <2>1. shards[s] \in Seq(Event) /\ shards[s] # <<>> /\ Len(shards[s]) <= QueuePerShard
    BY <1>1 DEF Receive, TypeOK
  <2>2. Head(shards[s]) \in Event /\ Tail(shards[s]) \in Seq(Event)
        /\ Len(Tail(shards[s])) <= QueuePerShard
    BY <2>1, EngineAssumption
  <2>. QED
    BY <1>1, <2>2 DEF Receive, TypeOK, counters
<1>5. CASE Process(s)
  BY <1>5 DEF Process, TypeOK, counters
<1>2. CASE EnqueueAlert(s)
  <2>1. \E ev \in Event : shardEv[s] = <<ev>>
    BY <1>2 DEF EnqueueAlert, TypeOK
  <2>2. shardEv[s][1] \in Event
    BY <2>1
  <2>3. alerts' \in Seq(Event) /\ Len(alerts') <= AlertQueue
    <3>1. CASE Len(alerts) < AlertQueue /\ alerts' = Append(alerts, shardEv[s][1])
      BY <2>2, <3>1, EngineAssumption DEF TypeOK
    <3>2. CASE alerts' = alerts
      BY <3>2 DEF TypeOK
    <3>. QED BY <1>2, <3>1, <3>2 DEF EnqueueAlert, AlertQueued, AlertLost
  <2>. QED
    BY <1>2, <2>3 DEF EnqueueAlert, AlertQueued, AlertLost, TypeOK, counters
<1>3. CASE CountAlert(s)
  BY <1>3 DEF CountAlert, TypeOK
<1>4. CASE CountHandled(s)
  BY <1>4 DEF CountHandled, TypeOK
<1>. QED BY <1>1, <1>2, <1>3, <1>4, <1>5 DEF ShardStep

LEMMA WorkerTypeOK ==
  ASSUME TypeOK, UNCHANGED sink, WorkerStep
  PROVE  TypeOK'
<1>1. CASE WorkerReceive
  <2>1. Head(alerts) \in Event /\ Tail(alerts) \in Seq(Event)
        /\ Len(Tail(alerts)) <= AlertQueue
    BY <1>1, EngineAssumption DEF WorkerReceive, TypeOK
  <2>. QED
    BY <1>1, <2>1 DEF WorkerReceive, TypeOK, counters
<1>2. CASE WorkerLookup
  BY <1>2 DEF WorkerLookup, TypeOK, counters
<1>3. CASE Send
  <2>1. \E ev \in Event : workerAlert = <<ev>>
    BY <1>3 DEF Send, TypeOK
  <2>2. workerAlert[1].id \in Ids
    BY <2>1 DEF Event
  <2>3. delivered' \in Seq(Ids) /\ sendFailed' \in Nat
    <3>1. \/ delivered' = delivered
          \/ delivered' = Append(delivered, workerAlert[1].id)
      BY <1>3 DEF Send, SendDiscarded, SendAccepted, SendRefused
    <3>2. sendFailed' = sendFailed \/ sendFailed' = sendFailed + 1
      BY <1>3 DEF Send, SendDiscarded, SendAccepted, SendRefused
    <3>3. ASSUME NEW id \in Ids PROVE Append(delivered, id) \in Seq(Ids)
      BY DEF TypeOK
    <3>4. delivered \in Seq(Ids) /\ sendFailed \in Nat
      BY DEF TypeOK
    <3>5. delivered' \in Seq(Ids)
      BY <2>2, <3>1, <3>3, <3>4
    <3>. QED BY <3>2, <3>4, <3>5
  <2>4. /\ workerPc' \in {"recv", "sent"}
        /\ workerPc' = "recv" => workerAlert' = <<>>
        /\ workerPc' = "sent" => workerAlert' = workerAlert
    BY <1>3 DEF Send, SendDiscarded, SendAccepted, SendRefused
  <2>. QED
    BY <1>3, <2>1, <2>3, <2>4 DEF Send, TypeOK, counters
<1>4. CASE CountSent
  BY <1>4 DEF CountSent, TypeOK
<1>. QED BY <1>1, <1>2, <1>3, <1>4 DEF WorkerStep

LEMMA NextTypeOK == TypeOK /\ [Next]_vars => TypeOK'
<1> SUFFICES ASSUME TypeOK, [Next]_vars
             PROVE  TypeOK'
  OBVIOUS
<1>0. UNCHANGED sink
  BY DEF Next, vars
<1>1. CASE \E c \in Callers : CallerStep(c)
  <2>1. PICK c \in Callers : CallerStep(c)
    BY <1>1
  <2>2. CASE \E m \in Mints : Ingest(c, m)
    BY <1>0, <2>2, IngestTypeOK
  <2>3. CASE CountIngest(c)
    BY <1>0, <2>3 DEF CountIngest, TypeOK
  <2>. QED BY <2>1, <2>2, <2>3 DEF CallerStep
<1>2. CASE \E s \in Shards : ShardStep(s)
  BY <1>0, <1>2, ShardTypeOK
<1>3. CASE WorkerStep
  BY <1>0, <1>3, WorkerTypeOK
<1>4. CASE UNCHANGED vars
  BY <1>4 DEF vars, TypeOK
<1>. QED BY <1>1, <1>2, <1>3, <1>4 DEF Next

\* Channels never exceed their capacities, and the program counters agree with
\* what each goroutine holds (processor.Engine, runShard, runAlertWorker).
THEOREM TypeCorrect == Spec => []TypeOK
BY InitTypeOK, NextTypeOK, PTL DEF Spec

-----------------------------------------------------------------------------

LEMMA InitRouted == Init => Routed
BY DEF Init, Routed

LEMMA NextRouted == TypeOK /\ Routed /\ [Next]_vars => Routed'
<1> SUFFICES ASSUME TypeOK, Routed, [Next]_vars
             PROVE  Routed'
  OBVIOUS
<1>0. CASE UNCHANGED <<shards, shardEv>>
  BY <1>0 DEF Routed
<1>1. ASSUME NEW c \in Callers, NEW m \in Mints, Ingest(c, m)
      PROVE  Routed'
  <2> DEFINE s == ShardOf[m]
             ev == [id |-> ingests + 1, mint |-> m]
  <2>1. s \in Shards /\ shards[s] \in Seq(Event) /\ shardEv' = shardEv
    BY <1>1, EngineAssumption DEF Ingest, Offer, TypeOK
  <2>2. CASE shards' = [shards EXCEPT ![s] = Append(@, ev)]
    <3>1. \A i \in 1 .. Len(shards'[s]) :
            shards'[s][i] = IF i <= Len(shards[s]) THEN shards[s][i] ELSE ev
      BY <2>1, <2>2 DEF TypeOK
    <3>2. Len(shards'[s]) = Len(shards[s]) + 1 /\ Len(shards[s]) \in Nat
      BY <2>1, <2>2 DEF TypeOK
    <3>3. \A i \in 1 .. Len(shards'[s]) : ShardOf[shards'[s][i].mint] = s
      BY <2>1, <3>1, <3>2 DEF Routed
    <3>4. \A t \in Shards : t # s => shards'[t] = shards[t]
      BY <2>1, <2>2 DEF TypeOK
    <3>. QED BY <2>1, <3>3, <3>4 DEF Routed
  <2>. QED BY <1>0, <1>1, <2>1, <2>2 DEF Ingest, Offer
<1>2. ASSUME NEW s \in Shards, Receive(s)
      PROVE  Routed'
  <2>1. shards[s] \in Seq(Event) /\ shards[s] # <<>>
    BY <1>2 DEF Receive, TypeOK
  <2>2. /\ shards'[s] = Tail(shards[s])
        /\ shardEv'[s] = <<Head(shards[s])>>
        /\ \A t \in Shards : t # s => shards'[t] = shards[t] /\ shardEv'[t] = shardEv[t]
    BY <1>2 DEF Receive, TypeOK
  <2>3. /\ Len(shards'[s]) = Len(shards[s]) - 1 /\ Len(shards[s]) \in Nat \ {0}
        /\ \A i \in 1 .. Len(shards'[s]) : shards'[s][i] = shards[s][i + 1]
        /\ shardEv'[s][1] = shards[s][1]
    <3>1. Tail(shards[s]) = [i \in 1 .. Len(shards[s]) - 1 |-> shards[s][i + 1]]
      BY <2>1
    <3>2. Len(shards'[s]) = Len(shards[s]) - 1 /\ Len(shards[s]) \in Nat \ {0}
      <4>1. /\ Len(Tail(shards[s])) = Len(shards[s]) - 1
            /\ Len(shards[s]) \in Nat /\ Len(shards[s]) # 0
        BY <2>1
      <4> QED BY <2>2, <4>1
    <3>3. shardEv'[s][1] = shards[s][1]
      BY <2>1, <2>2
    <3> QED BY <2>2, <3>1, <3>2, <3>3
  <2>4. /\ \A i \in 1 .. Len(shards'[s]) : ShardOf[shards'[s][i].mint] = s
        /\ ShardOf[shardEv'[s][1].mint] = s
    BY <2>3 DEF Routed
  <2>5. ASSUME NEW t \in Shards
        PROVE  /\ \A i \in 1 .. Len(shards'[t]) : ShardOf[shards'[t][i].mint] = t
               /\ shardEv'[t] # <<>> => ShardOf[shardEv'[t][1].mint] = t
    <3>1. CASE t = s
      BY <2>4, <3>1
    <3>2. CASE t # s
      <4>1. shards'[t] = shards[t] /\ shardEv'[t] = shardEv[t]
        BY <2>2, <3>2
      <4> QED BY <4>1 DEF Routed
    <3> QED BY <3>1, <3>2
  <2>. QED BY <2>5 DEF Routed
<1>3. ASSUME NEW s \in Shards, CountHandled(s)
      PROVE  Routed'
  BY <1>3 DEF CountHandled, Routed, TypeOK
<1>. QED
  BY <1>0, <1>1, <1>2, <1>3
  DEF Next, CallerStep, CountIngest, ShardStep, Process, EnqueueAlert, AlertQueued, AlertLost,
      CountAlert, WorkerStep, WorkerReceive, WorkerLookup, Send, CountSent, vars

LEMMA RoutedImpliesOne == TypeOK /\ Routed => OneGoroutinePerMint
BY DEF Routed, OneGoroutinePerMint

\* Two shard goroutines never work on the same mint, whatever the callers do:
\* byMint needs no lock (shardForMint, runShard).
THEOREM OneGoroutine == Spec => []OneGoroutinePerMint
<1>1. Spec => [](TypeOK /\ Routed)
  BY InitTypeOK, NextTypeOK, InitRouted, NextRouted, PTL DEF Spec
<1>. QED BY <1>1, RoutedImpliesOne, PTL

-----------------------------------------------------------------------------

LEMMA InitSent == Init => TelegramSentMeansDelivered
BY DEF Init, TelegramSentMeansDelivered, SentMeansDelivered, One

LEMMA NextSent ==
  TypeOK /\ TelegramSentMeansDelivered /\ [Next]_vars => TelegramSentMeansDelivered'
<1> SUFFICES ASSUME TypeOK, SentMeansDelivered, [Next]_vars, sink = "telegram"
             PROVE  SentMeansDelivered'
  BY DEF TelegramSentMeansDelivered, Next, vars
<1>1. CASE UNCHANGED <<alertSent, workerPc, delivered>>
  BY <1>1 DEF SentMeansDelivered, One
<1>2. CASE WorkerReceive
  BY <1>2 DEF WorkerReceive, SentMeansDelivered, One, TypeOK, counters
<1>3. CASE WorkerLookup
  BY <1>3 DEF WorkerLookup, SentMeansDelivered, One, TypeOK, counters
<1>4. CASE Send
  <2>1. \E ev \in Event : workerAlert = <<ev>>
    BY <1>4 DEF Send, TypeOK
  <2>2. workerAlert[1].id \in Ids
    BY <2>1 DEF Event
  <2>3. CASE SendAccepted
    <3>1. Len(delivered') = Len(delivered) + 1 /\ Len(delivered) \in Nat
      BY <2>2, <2>3 DEF SendAccepted, TypeOK
    <3>. QED
      BY <1>4, <2>3, <3>1 DEF Send, SendAccepted, SentMeansDelivered, One, TypeOK, counters
  <2>4. CASE SendRefused
    <3>1. Len(delivered') >= Len(delivered) /\ Len(delivered') \in Nat /\ Len(delivered) \in Nat
      BY <2>2, <2>4 DEF SendRefused, TypeOK
    <3>. QED
      BY <1>4, <2>4, <3>1 DEF Send, SendRefused, SentMeansDelivered, One, TypeOK, counters
  <2>5. ~SendDiscarded
    BY DEF SendDiscarded
  <2>. QED BY <1>4, <2>3, <2>4, <2>5 DEF Send
<1>5. CASE CountSent
  BY <1>5 DEF CountSent, SentMeansDelivered, One, TypeOK
<1>. QED
  BY <1>1, <1>2, <1>3, <1>4, <1>5
  DEF Next, CallerStep, Ingest, Offer, CountIngest, ShardStep, Receive, Process, EnqueueAlert,
      CountAlert, CountHandled, WorkerStep, counters, vars

\* With a configured TelegramSink the counter of sent alerts never exceeds the
\* messages that reached the chat (runAlertWorker).
THEOREM SentIsDelivered == Spec => []TelegramSentMeansDelivered
BY InitTypeOK, NextTypeOK, InitSent, NextSent, PTL DEF Spec

-----------------------------------------------------------------------------
(***************************************************************************)
(* The counters account for every swap and every alert, for any finite     *)
(* number of callers and shards: nothing is lost or counted twice in any   *)
(* interleaving of the selects and the atomic adds.                        *)
(***************************************************************************)

(* Counting goroutines by what they are at *)

\* The states of a shard goroutine that has taken a swap and not counted it yet.
Busy == {"process", "alert", "queued", "lost", "count"}

\* The counts of the two accounts, by the functions they count in.
LEMMA CountsNamed ==
  /\ CallersAt("sent") = NumAt(callerPc, Callers, {"sent"})
  /\ CallersAt("sent")' = NumAt(callerPc', Callers, {"sent"})
  /\ CallersAt("full") = NumAt(callerPc, Callers, {"full"})
  /\ CallersAt("full")' = NumAt(callerPc', Callers, {"full"})
  /\ ShardsAt(Busy) = NumAt(shardPc, Shards, Busy)
  /\ ShardsAt(Busy)' = NumAt(shardPc', Shards, Busy)
  /\ ShardsAt({"queued"}) = NumAt(shardPc, Shards, {"queued"})
  /\ ShardsAt({"queued"})' = NumAt(shardPc', Shards, {"queued"})
<1>1. ASSUME NEW f, NEW S, NEW v
      PROVE  {x \in S : f[x] \in {v}} = {x \in S : f[x] = v}
  OBVIOUS
<1>2. /\ CallersAt("sent") = NumAt(callerPc, Callers, {"sent"})
      /\ CallersAt("full") = NumAt(callerPc, Callers, {"full"})
  BY <1>1 DEF CallersAt, NumAt
<1>3. /\ CallersAt("sent")' = NumAt(callerPc', Callers, {"sent"})
      /\ CallersAt("full")' = NumAt(callerPc', Callers, {"full"})
  BY <1>1 DEF CallersAt, NumAt
<1>4. /\ ShardsAt(Busy) = NumAt(shardPc, Shards, Busy)
      /\ ShardsAt(Busy)' = NumAt(shardPc', Shards, Busy)
      /\ ShardsAt({"queued"}) = NumAt(shardPc, Shards, {"queued"})
      /\ ShardsAt({"queued"})' = NumAt(shardPc', Shards, {"queued"})
  BY Zenon DEF ShardsAt, NumAt, Busy
<1> QED BY <1>2, <1>3, <1>4

\* Caller c moves.
LEMMA CallersMove ==
  ASSUME IsFiniteSet(Callers), TypeOK, NEW c \in Callers,
         NEW to \in {"idle", "sent", "full"},
         callerPc' = [callerPc EXCEPT ![c] = to]
  PROVE  Moves(callerPc, callerPc', Callers, callerPc[c], to)
<1> SUFFICES ASSUME NEW P
             PROVE  /\ NumAt(callerPc, Callers, P) \in Nat
                    /\ NumAt(callerPc', Callers, P)
                         = NumAt(callerPc, Callers, P) - Bit(callerPc[c], P) + Bit(to, P)
  BY DEF Moves
<1> DEFINE f == callerPc
           g == callerPc'
           V == {"idle", "sent", "full"}
<1>1. /\ f \in [Callers -> V] /\ g \in [Callers -> V]
      /\ g[c] = to /\ \A x \in Callers \ {c} : g[x] = f[x]
  BY DEF TypeOK
<1> HIDE DEF f, g, V
<1>2. /\ NumAt(f, Callers, P) \in Nat
      /\ NumAt(g, Callers, P) = NumAt(f, Callers, P) - Bit(f[c], P) + Bit(g[c], P)
  BY <1>1, IsFiniteSet(Callers), CountUpdate
<1> QED BY <1>1, <1>2 DEF f, g

\* Shard s moves.
LEMMA ShardsMove ==
  ASSUME IsFiniteSet(Shards), TypeOK, NEW s \in Shards,
         NEW to \in {"recv", "process", "alert", "queued", "lost", "count"},
         shardPc' = [shardPc EXCEPT ![s] = to]
  PROVE  Moves(shardPc, shardPc', Shards, shardPc[s], to)
<1> SUFFICES ASSUME NEW P
             PROVE  /\ NumAt(shardPc, Shards, P) \in Nat
                    /\ NumAt(shardPc', Shards, P)
                         = NumAt(shardPc, Shards, P) - Bit(shardPc[s], P) + Bit(to, P)
  BY DEF Moves
<1> DEFINE f == shardPc
           g == shardPc'
           V == {"recv", "process", "alert", "queued", "lost", "count"}
<1>1. /\ f \in [Shards -> V] /\ g \in [Shards -> V]
      /\ g[s] = to /\ \A x \in Shards \ {s} : g[x] = f[x]
  BY DEF TypeOK
<1> HIDE DEF f, g, V
<1>2. /\ NumAt(f, Shards, P) \in Nat
      /\ NumAt(g, Shards, P) = NumAt(f, Shards, P) - Bit(f[s], P) + Bit(g[s], P)
  BY <1>1, IsFiniteSet(Shards), CountUpdate
<1> QED BY <1>1, <1>2 DEF f, g

\* The number of swaps in the channels is an integer.
LEMMA QueuedIsInt == ASSUME IsFiniteSet(Shards), TypeOK PROVE Queued \in Int
<1> DEFINE n == [s \in Shards |-> Len(shards[s])]
<1>1. DOMAIN n = Shards /\ \A s \in Shards : n[s] \in Int
  BY DEF TypeOK
<1>2. Queued = SumFunctionOnSet(n, Shards)
  BY <1>1 DEF Queued, SumFunction
<1> HIDE DEF n
<1> QED BY <1>1, <1>2, IsFiniteSet(Shards), SumInt

\* The counts and the sum the accounts are made of are integers.
LEMMA CountsTyped ==
  ASSUME IsFiniteSet(Callers), IsFiniteSet(Shards), TypeOK
  PROVE  /\ \A pc : CallersAt(pc) \in Nat
         /\ \A pcs : ShardsAt(pcs) \in Nat
         /\ Queued \in Int
<1>1. \A pc : CallersAt(pc) \in Nat
  <2> TAKE pc
  <2>1. {c \in Callers : callerPc[c] = pc} \subseteq Callers
    OBVIOUS
  <2> HIDE DEF TypeOK
  <2> QED BY <2>1, IsFiniteSet(Callers), FS_Subset, FS_CardinalityType DEF CallersAt
<1>2. \A pcs : ShardsAt(pcs) \in Nat
  <2> TAKE pcs
  <2>1. {s \in Shards : shardPc[s] \in pcs} \subseteq Shards
    OBVIOUS
  <2> QED BY <2>1, IsFiniteSet(Shards), FS_Subset, FS_CardinalityType DEF ShardsAt
<1> QED BY <1>1, <1>2, IsFiniteSet(Shards), QueuedIsInt

\* One channel changes: the number of swaps in channels changes by its length.
LEMMA QueueMoves ==
  ASSUME IsFiniteSet(Shards), TypeOK, NEW s \in Shards, NEW q \in Seq(Event),
         shards' = [shards EXCEPT ![s] = q]
  PROVE  Queued' = Queued - Len(shards[s]) + Len(q)
<1> DEFINE n == [t \in Shards |-> Len(shards[t])]
           k == [t \in Shards |-> Len(shards'[t])]
<1>1. \A t \in Shards : shards'[t] = IF t = s THEN q ELSE shards[t]
  BY DEF TypeOK
<1>2. n \in [Shards -> Int] /\ k \in [Shards -> Int]
  BY <1>1 DEF TypeOK
<1>3. \A t \in Shards \ {s} : k[t] = n[t]
  BY <1>1
<1>4. n[s] = Len(shards[s]) /\ k[s] = Len(q)
  BY <1>1
<1>5. Queued = SumFunctionOnSet(n, Shards) /\ Queued' = SumFunctionOnSet(k, Shards)
  BY DEF Queued, SumFunction
<1> HIDE DEF n, k
<1>6. SumFunctionOnSet(k, Shards) = SumFunctionOnSet(n, Shards) - n[s] + k[s]
  BY <1>2, <1>3, IsFiniteSet(Shards), SumUpdate
<1> QED BY <1>4, <1>5, <1>6

\* A swap enters a channel.
LEMMA QueueGrows ==
  ASSUME IsFiniteSet(Shards), TypeOK, NEW s \in Shards, NEW ev \in Event,
         shards' = [shards EXCEPT ![s] = Append(@, ev)]
  PROVE  Queued' = Queued + 1
<1> DEFINE l == Len(shards[s])
           q == Append(shards[s], ev)
<1>1. shards[s] \in Seq(Event)
  BY DEF TypeOK
<1>2. q \in Seq(Event) /\ l \in Nat
  BY <1>1
<1>3. Len(q) = l + 1
  BY <1>1
<1>4. Queued' = Queued - l + Len(q)
  BY <1>2, IsFiniteSet(Shards), QueueMoves
<1> HIDE DEF l, q
<1>5. Queued' = Queued - l + (l + 1)
  BY <1>3, <1>4, Zenon
<1>6. \A a \in Int : \A i \in Nat : a - i + (i + 1) = a + 1
  OBVIOUS
<1>7. Queued - l + (l + 1) = Queued + 1
  BY <1>2, <1>6, QueuedIsInt, IsFiniteSet(Shards), Zenon
<1> QED BY <1>5, <1>7, Zenon

-----------------------------------------------------------------------------
(* The account of swaps *)

\* One choice of the select in IngestSwapInfo: a swap in the channel and a
\* caller about to say so, or neither.
LEMMA IngestKeepsAccount ==
  ASSUME IsFiniteSet(Callers), IsFiniteSet(Shards), TypeOK, IngestAccounted,
         NEW c \in Callers, NEW m \in Mints, Ingest(c, m)
  PROVE  IngestAccounted'
<1> DEFINE s == ShardOf[m]
           ev == [id |-> ingests + 1, mint |-> m]
<1>1. s \in Shards /\ shards[s] \in Seq(Event) /\ ev \in Event
  <2>1. s \in Shards /\ shards[s] \in Seq(Event)
    BY EngineAssumption DEF TypeOK
  <2>2. ev \in Event
    BY EngineAssumption DEF Ingest, Offer, TypeOK, Event, Ids
  <2> QED BY <2>1, <2>2
<1>2. /\ callerPc[c] = "idle" /\ ingests' = ingests + 1
      /\ enqueued' = enqueued /\ dropped' = dropped /\ handled' = handled
      /\ shardPc' = shardPc
  BY DEF Ingest, Offer, counters
<1>3. ShardsAt(Busy)' = ShardsAt(Busy)
  BY <1>2 DEF ShardsAt, Busy
<1>4. /\ CallersAt("sent") \in Nat /\ CallersAt("full") \in Nat
      /\ ShardsAt(Busy) \in Nat /\ Queued \in Int
  BY IsFiniteSet(Callers), IsFiniteSet(Shards), CountsTyped
<1>5. /\ enqueued \in Nat /\ dropped \in Nat /\ handled \in Nat /\ ingests \in Nat
  BY EngineAssumption DEF TypeOK
<1>6. CASE /\ shards' = [shards EXCEPT ![s] = Append(@, ev)]
           /\ callerPc' = [callerPc EXCEPT ![c] = "sent"]
  <2>3. Queued' = Queued + 1
    BY <1>1, <1>6, IsFiniteSet(Shards), QueueGrows
  <2>4. /\ CallersAt("sent")' = CallersAt("sent") + 1
        /\ CallersAt("full")' = CallersAt("full")
    <3>1. Moves(callerPc, callerPc', Callers, callerPc[c], "sent")
      BY <1>2, <1>4, <1>6, IsFiniteSet(Callers), CallersMove
    <3> QED BY <1>2, <1>4, <1>6, <3>1, CountsNamed DEF Moves, Bit
  <2> QED BY <1>2, <1>3, <1>4, <1>5, <2>3, <2>4 DEF IngestAccounted, Busy
<1>7. CASE /\ shards' = shards
           /\ callerPc' = [callerPc EXCEPT ![c] = "full"]
  <2>1. Queued' = Queued
    BY <1>7 DEF Queued
  <2>2. /\ CallersAt("sent")' = CallersAt("sent")
        /\ CallersAt("full")' = CallersAt("full") + 1
    <3>1. Moves(callerPc, callerPc', Callers, callerPc[c], "full")
      BY <1>2, <1>4, <1>7, IsFiniteSet(Callers), CallersMove
    <3> QED BY <1>2, <1>4, <1>7, <3>1, CountsNamed DEF Moves, Bit
  <2> QED BY <1>2, <1>3, <1>4, <1>5, <2>1, <2>2 DEF IngestAccounted, Busy
<1> QED BY <1>6, <1>7 DEF Ingest, Offer

\* The add that follows the select.
LEMMA CountIngestKeepsAccount ==
  ASSUME IsFiniteSet(Callers), IsFiniteSet(Shards), TypeOK, IngestAccounted,
         NEW c \in Callers, CountIngest(c)
  PROVE  IngestAccounted'
<1>1. /\ ingests' = ingests /\ handled' = handled /\ shards' = shards
      /\ shardPc' = shardPc /\ callerPc' = [callerPc EXCEPT ![c] = "idle"]
  BY DEF CountIngest
<1>2. ShardsAt(Busy)' = ShardsAt(Busy) /\ Queued' = Queued
  BY <1>1 DEF ShardsAt, Queued, Busy
<1>3. /\ CallersAt("sent") \in Nat /\ CallersAt("full") \in Nat
      /\ ShardsAt(Busy) \in Nat /\ Queued \in Int
  BY IsFiniteSet(Callers), IsFiniteSet(Shards), CountsTyped
<1>4. /\ enqueued \in Nat /\ dropped \in Nat /\ handled \in Nat /\ ingests \in Nat
  BY EngineAssumption DEF TypeOK
<1>5. CASE callerPc[c] = "sent" /\ enqueued' = enqueued + 1 /\ dropped' = dropped
  <2>1. /\ CallersAt("sent")' = CallersAt("sent") - 1
        /\ CallersAt("full")' = CallersAt("full")
    <3>1. Moves(callerPc, callerPc', Callers, callerPc[c], "idle")
      BY <1>1, <1>3, <1>5, IsFiniteSet(Callers), CallersMove
    <3> QED BY <1>1, <1>3, <1>5, <3>1, CountsNamed DEF Moves, Bit
  <2> QED BY <1>1, <1>2, <1>3, <1>4, <1>5, <2>1 DEF IngestAccounted, Busy
<1>6. CASE callerPc[c] = "full" /\ dropped' = dropped + 1 /\ enqueued' = enqueued
  <2>1. /\ CallersAt("sent")' = CallersAt("sent")
        /\ CallersAt("full")' = CallersAt("full") - 1
    <3>1. Moves(callerPc, callerPc', Callers, callerPc[c], "idle")
      BY <1>1, <1>3, <1>6, IsFiniteSet(Callers), CallersMove
    <3> QED BY <1>1, <1>3, <1>6, <3>1, CountsNamed DEF Moves, Bit
  <2> QED BY <1>1, <1>2, <1>3, <1>4, <1>6, <2>1 DEF IngestAccounted, Busy
<1> QED BY <1>5, <1>6 DEF CountIngest

\* A shard takes a swap out of its channel, works on it and counts it.
LEMMA ShardKeepsAccount ==
  ASSUME IsFiniteSet(Callers), IsFiniteSet(Shards), TypeOK, IngestAccounted,
         NEW s \in Shards, ShardStep(s)
  PROVE  IngestAccounted'
<1>1. ingests' = ingests /\ enqueued' = enqueued /\ dropped' = dropped /\ callerPc' = callerPc
  BY DEF ShardStep, Receive, Process, EnqueueAlert, CountAlert, CountHandled, counters
<1>2. CallersAt("sent")' = CallersAt("sent") /\ CallersAt("full")' = CallersAt("full")
  BY <1>1 DEF CallersAt
<1>3. /\ CallersAt("sent") \in Nat /\ CallersAt("full") \in Nat
      /\ ShardsAt(Busy) \in Nat /\ Queued \in Int
  BY IsFiniteSet(Callers), IsFiniteSet(Shards), CountsTyped
<1>4. /\ enqueued \in Nat /\ dropped \in Nat /\ handled \in Nat /\ ingests \in Nat
  BY EngineAssumption DEF TypeOK
<1>5. CASE Receive(s)
  <2>1. shards[s] \in Seq(Event) /\ shards[s] # <<>> /\ shardPc[s] = "recv"
          /\ handled' = handled
    BY <1>5 DEF Receive, TypeOK, counters
  <2>2. Tail(shards[s]) \in Seq(Event) /\ Len(Tail(shards[s])) = Len(shards[s]) - 1
          /\ Len(shards[s]) \in Nat
    BY <2>1
  <2>3. shards' = [shards EXCEPT ![s] = Tail(shards[s])]
          /\ shardPc' = [shardPc EXCEPT ![s] = "process"]
    BY <1>5 DEF Receive
  <2>4. Queued' = Queued - 1
    <3>1. Queued' = Queued - Len(shards[s]) + Len(Tail(shards[s]))
      BY <2>2, <2>3, IsFiniteSet(Shards), QueueMoves
    <3> QED BY <1>3, <2>2, <3>1
  <2>5. ShardsAt(Busy)' = ShardsAt(Busy) + 1
    <3>1. Moves(shardPc, shardPc', Shards, shardPc[s], "process")
      BY <1>3, <2>1, <2>3, IsFiniteSet(Shards), ShardsMove
    <3> QED BY <1>3, <2>1, <2>3, <3>1, CountsNamed DEF Moves, Bit, Busy
  <2> QED BY <1>1, <1>2, <1>3, <1>4, <2>1, <2>4, <2>5 DEF IngestAccounted, Busy
<1>6. CASE Process(s) \/ EnqueueAlert(s) \/ CountAlert(s)
  <2>1. PICK to \in Busy : shardPc' = [shardPc EXCEPT ![s] = to]
    BY <1>6 DEF Process, EnqueueAlert, AlertQueued, AlertLost, CountAlert, Busy
  <2>2. shardPc[s] \in Busy /\ shards' = shards /\ handled' = handled
    BY <1>6 DEF Process, EnqueueAlert, CountAlert, Busy, counters
  <2>3. Queued' = Queued
    BY <2>2 DEF Queued
  <2>4. ShardsAt(Busy)' = ShardsAt(Busy)
    <3>1. to \in {"recv", "process", "alert", "queued", "lost", "count"}
      BY DEF Busy
    <3>2. Moves(shardPc, shardPc', Shards, shardPc[s], to)
      BY <2>1, <3>1, IsFiniteSet(Shards), ShardsMove
    <3> QED BY <1>3, <2>2, <3>2, CountsNamed DEF Moves, Bit
  <2> QED BY <1>1, <1>2, <1>3, <1>4, <2>2, <2>3, <2>4 DEF IngestAccounted, Busy
<1>7. CASE CountHandled(s)
  <2>1. /\ shardPc[s] = "count" /\ shardPc' = [shardPc EXCEPT ![s] = "recv"]
        /\ shards' = shards /\ handled' = handled + 1
    BY <1>7 DEF CountHandled
  <2>2. Queued' = Queued
    BY <2>1 DEF Queued
  <2>3. ShardsAt(Busy)' = ShardsAt(Busy) - 1
    <3>1. Moves(shardPc, shardPc', Shards, shardPc[s], "recv")
      BY <1>3, <2>1, IsFiniteSet(Shards), ShardsMove
    <3> QED BY <1>3, <2>1, <3>1, CountsNamed DEF Moves, Bit, Busy
  <2> QED BY <1>1, <1>2, <1>3, <1>4, <2>1, <2>2, <2>3 DEF IngestAccounted, Busy
<1> QED BY <1>5, <1>6, <1>7 DEF ShardStep

LEMMA InitAccounts ==
  ASSUME IsFiniteSet(Callers), IsFiniteSet(Shards), Init
  PROVE  IngestAccounted /\ AlertsAccounted
<1>1. \A pc : pc # "idle" => {c \in Callers : callerPc[c] = pc} = {}
  BY DEF Init
<1>2. \A pcs : "recv" \notin pcs => {s \in Shards : shardPc[s] \in pcs} = {}
  BY DEF Init
<1>3. CallersAt("sent") = 0 /\ CallersAt("full") = 0
  BY <1>1, FS_EmptySet DEF CallersAt
<1>4. ShardsAt(Busy) = 0 /\ ShardsAt({"queued"}) = 0
  BY <1>2, FS_EmptySet DEF ShardsAt, Busy
<1>5. Queued = 0
  <2> DEFINE n == [s \in Shards |-> Len(shards[s])]
  <2>1. DOMAIN n = Shards /\ \A s \in Shards : n[s] = 0
    BY DEF Init
  <2>2. Queued = SumFunctionOnSet(n, Shards)
    BY <2>1 DEF Queued, SumFunction
  <2> HIDE DEF n
  <2> QED BY <2>1, <2>2, IsFiniteSet(Shards), SumZero
<1>6. IngestAccounted
  BY <1>3, <1>4, <1>5 DEF Init, IngestAccounted, Busy
<1>7. AlertsAccounted
  BY <1>4 DEF Init, AlertsAccounted, One
<1> QED BY <1>6, <1>7

LEMMA NextIngestAccounted ==
  ASSUME IsFiniteSet(Callers), IsFiniteSet(Shards), TypeOK, IngestAccounted, [Next]_vars
  PROVE  IngestAccounted'
<1>1. CASE \E c \in Callers : CallerStep(c)
  BY <1>1, IsFiniteSet(Callers), IsFiniteSet(Shards), IngestKeepsAccount,
     CountIngestKeepsAccount DEF CallerStep
<1>2. CASE \E s \in Shards : ShardStep(s)
  BY <1>2, IsFiniteSet(Callers), IsFiniteSet(Shards), ShardKeepsAccount
<1>3. ASSUME UNCHANGED <<ingests, callerPc, shards, shardPc, enqueued, dropped, handled>>
      PROVE  IngestAccounted'
  BY <1>3 DEF IngestAccounted, CallersAt, ShardsAt, Queued
<1>4. CASE WorkerStep
  BY <1>3, <1>4
  DEF WorkerStep, WorkerReceive, WorkerLookup, Send, CountSent, counters
<1>5. CASE UNCHANGED vars
  BY <1>3, <1>5 DEF vars
<1> QED BY <1>1, <1>2, <1>4, <1>5 DEF Next

\* No swap is lost or counted twice between IngestSwapInfo and runShard, in any
\* interleaving of any finite number of callers and shards.
THEOREM SwapsAccounted ==
  ASSUME IsFiniteSet(Callers), IsFiniteSet(Shards)
  PROVE  Spec => []IngestAccounted
<1>1. Init => IngestAccounted
  BY IsFiniteSet(Callers), IsFiniteSet(Shards), InitAccounts
<1>2. TypeOK /\ IngestAccounted /\ [Next]_vars => IngestAccounted'
  BY IsFiniteSet(Callers), IsFiniteSet(Shards), NextIngestAccounted
<1> QED BY <1>1, <1>2, InitTypeOK, NextTypeOK, PTL DEF Spec

-----------------------------------------------------------------------------
(* The account of alerts *)

\* A step of a shard.  Only enqueueAlert and its atomic add take part: the
\* others move between states that hold no queued alert.
LEMMA ShardKeepsAlertsAccount ==
  ASSUME IsFiniteSet(Callers), IsFiniteSet(Shards), TypeOK, AlertsAccounted,
         NEW s \in Shards, ShardStep(s)
  PROVE  AlertsAccounted'
<1> DEFINE QueuedAlerts == ShardsAt({"queued"})
<1>1. alertSent' = alertSent /\ sendFailed' = sendFailed /\ workerPc' = workerPc
  BY DEF ShardStep, Receive, Process, EnqueueAlert, CountAlert, CountHandled, counters
<1>2. QueuedAlerts \in Nat
  BY IsFiniteSet(Callers), IsFiniteSet(Shards), CountsTyped
<1>3. /\ alertQueued \in Nat /\ alertSent \in Nat /\ sendFailed \in Nat
      /\ Len(alerts) \in Nat /\ One(workerPc # "recv") \in Nat
  BY DEF TypeOK, One
<1>4. CASE Receive(s) \/ Process(s) \/ (AlertLost(s) /\ EnqueueAlert(s)) \/ CountHandled(s)
  <2>1. alerts' = alerts /\ alertQueued' = alertQueued
    BY <1>4 DEF Receive, Process, AlertLost, EnqueueAlert, CountHandled, counters
  <2>2. shardPc[s] \in {"recv", "process", "alert", "count"}
    BY <1>4 DEF Receive, Process, EnqueueAlert, CountHandled
  <2>3. PICK to \in {"process", "alert", "lost", "count", "recv"} :
               shardPc' = [shardPc EXCEPT ![s] = to]
    BY <1>4 DEF Receive, Process, AlertLost, EnqueueAlert, CountHandled
  <2>4. QueuedAlerts' = QueuedAlerts
    <3>1. Moves(shardPc, shardPc', Shards, shardPc[s], to)
      BY <2>3, IsFiniteSet(Shards), ShardsMove
    <3> QED BY <1>2, <2>2, <3>1, CountsNamed DEF Moves, Bit
  <2> QED BY <1>1, <2>1, <2>4 DEF AlertsAccounted
<1>5. CASE EnqueueAlert(s) /\ AlertQueued(s)
  <2>1. /\ shardPc[s] = "alert" /\ shardPc' = [shardPc EXCEPT ![s] = "queued"]
        /\ alertQueued' = alertQueued
    BY <1>5 DEF EnqueueAlert, AlertQueued, counters
  <2>2. Len(alerts') = Len(alerts) + 1
    <3>1. \E ev \in Event : shardEv[s] = <<ev>>
      BY <2>1 DEF TypeOK
    <3>2. alerts \in Seq(Event) /\ shardEv[s][1] \in Event
            /\ alerts' = Append(alerts, shardEv[s][1])
      BY <1>5, <3>1 DEF AlertQueued, TypeOK
    <3> QED BY <3>2
  <2>3. QueuedAlerts' = QueuedAlerts + 1
    <3>1. Moves(shardPc, shardPc', Shards, shardPc[s], "queued")
      BY <2>1, IsFiniteSet(Shards), ShardsMove
    <3> QED BY <1>2, <2>1, <3>1, CountsNamed DEF Moves, Bit
  <2> QED BY <1>1, <1>2, <1>3, <2>1, <2>2, <2>3 DEF AlertsAccounted
<1>6. CASE CountAlert(s)
  <2>1. alerts' = alerts /\ shardPc' = [shardPc EXCEPT ![s] = "count"]
    BY <1>6 DEF CountAlert
  <2>2. Moves(shardPc, shardPc', Shards, shardPc[s], "count")
    BY <2>1, IsFiniteSet(Shards), ShardsMove
  <2>3. CASE shardPc[s] = "queued" /\ alertQueued' = alertQueued + 1
    <3>1. QueuedAlerts' = QueuedAlerts - 1
      BY <1>2, <2>2, <2>3, CountsNamed DEF Moves, Bit
    <3> QED BY <1>1, <1>2, <1>3, <2>1, <2>3, <3>1 DEF AlertsAccounted
  <2>4. CASE shardPc[s] = "lost" /\ alertQueued' = alertQueued
    <3>1. QueuedAlerts' = QueuedAlerts
      BY <1>2, <2>2, <2>4, CountsNamed DEF Moves, Bit
    <3> QED BY <1>1, <2>1, <2>4, <3>1 DEF AlertsAccounted
  <2> QED BY <1>6, <2>3, <2>4 DEF CountAlert
<1>7. EnqueueAlert(s) => AlertQueued(s) \/ AlertLost(s)
  BY DEF EnqueueAlert
<1> QED BY <1>4, <1>5, <1>6, <1>7 DEF ShardStep

\* A step of the alert worker: the alert in its hands was the first of the
\* channel, and leaves them as sent or as failed.
LEMMA WorkerKeepsAlertsAccount ==
  ASSUME TypeOK, AlertsAccounted, IsFiniteSet(Callers), IsFiniteSet(Shards), WorkerStep
  PROVE  AlertsAccounted'
<1>1. alertQueued' = alertQueued /\ shardPc' = shardPc
  BY DEF WorkerStep, WorkerReceive, WorkerLookup, Send, CountSent, counters
<1>2. ShardsAt({"queued"})' = ShardsAt({"queued"}) /\ ShardsAt({"queued"}) \in Nat
  BY <1>1, IsFiniteSet(Callers), IsFiniteSet(Shards), CountsTyped DEF ShardsAt
<1>3. /\ alertQueued \in Nat /\ alertSent \in Nat /\ sendFailed \in Nat
      /\ Len(alerts) \in Nat
  BY DEF TypeOK
<1>4. CASE WorkerReceive
  <2>1. Len(alerts') = Len(alerts) - 1
    <3>1. alerts \in Seq(Event) /\ alerts # <<>> /\ alerts' = Tail(alerts)
      BY <1>4 DEF WorkerReceive, TypeOK
    <3> QED BY <3>1
  <2>2. workerPc = "recv" /\ workerPc' = "name" /\ alertSent' = alertSent
          /\ sendFailed' = sendFailed
    BY <1>4 DEF WorkerReceive, counters
  <2> QED BY <1>1, <1>2, <1>3, <2>1, <2>2 DEF AlertsAccounted, One
<1>5. CASE WorkerLookup
  BY <1>1, <1>2, <1>5 DEF WorkerLookup, AlertsAccounted, One, counters
<1>6. CASE Send
  <2>1. alerts' = alerts /\ workerPc = "send" /\ alertSent' = alertSent
    BY <1>6 DEF Send, counters
  <2>2. \/ workerPc' = "sent" /\ sendFailed' = sendFailed
        \/ workerPc' = "recv" /\ sendFailed' = sendFailed + 1
    BY <1>6 DEF Send, SendDiscarded, SendAccepted, SendRefused
  <2> QED BY <1>1, <1>2, <1>3, <2>1, <2>2 DEF AlertsAccounted, One
<1>7. CASE CountSent
  BY <1>1, <1>2, <1>3, <1>7 DEF CountSent, AlertsAccounted, One
<1> QED BY <1>4, <1>5, <1>6, <1>7 DEF WorkerStep

LEMMA NextAlertsAccounted ==
  ASSUME IsFiniteSet(Callers), IsFiniteSet(Shards), TypeOK, AlertsAccounted, [Next]_vars
  PROVE  AlertsAccounted'
<1>1. ASSUME UNCHANGED <<shardPc, alertQueued, alertSent, sendFailed, alerts, workerPc>>
      PROVE  AlertsAccounted'
  BY <1>1 DEF AlertsAccounted, ShardsAt
<1>2. CASE \E c \in Callers : CallerStep(c)
  BY <1>1, <1>2 DEF CallerStep, Ingest, Offer, CountIngest, counters
<1>3. CASE \E s \in Shards : ShardStep(s)
  BY <1>3, IsFiniteSet(Callers), IsFiniteSet(Shards), ShardKeepsAlertsAccount
<1>4. CASE WorkerStep
  BY <1>4, IsFiniteSet(Callers), IsFiniteSet(Shards), WorkerKeepsAlertsAccount
<1>5. CASE UNCHANGED vars
  BY <1>1, <1>5 DEF vars
<1> QED BY <1>2, <1>3, <1>4, <1>5 DEF Next

\* Every alert enqueueAlert put into the channel is sent, has failed, is in the
\* worker's hands or is still queued, whatever the sink does.
THEOREM AlertsAreAccounted ==
  ASSUME IsFiniteSet(Callers), IsFiniteSet(Shards)
  PROVE  Spec => []AlertsAccounted
<1>1. Init => AlertsAccounted
  BY IsFiniteSet(Callers), IsFiniteSet(Shards), InitAccounts
<1>2. TypeOK /\ AlertsAccounted /\ [Next]_vars => AlertsAccounted'
  BY IsFiniteSet(Callers), IsFiniteSet(Shards), NextAlertsAccounted
<1> QED BY <1>1, <1>2, InitTypeOK, NextTypeOK, PTL DEF Spec

-----------------------------------------------------------------------------
(* The counters when nobody is working *)

AtRest ==
  /\ \A c \in Callers : callerPc[c] = "idle"
  /\ \A s \in Shards : shardPc[s] = "recv" /\ shards[s] = <<>>
  /\ workerPc = "recv" /\ alerts = <<>>

\* Whenever the engine is at rest, not only in the end, the numbers Stats() logs
\* agree: every call was enqueued or dropped, what was enqueued is handled, and
\* what was queued for the sink was sent or has failed.
AgreeAtRest ==
  AtRest => /\ enqueued + dropped = ingests
            /\ enqueued = handled
            /\ alertQueued = alertSent + sendFailed

\* The counters are atomics that are bumped after the fact and read one by one;
\* they can be off only while somebody is between an operation and its count.
THEOREM CountersAgree ==
  ASSUME IsFiniteSet(Callers), IsFiniteSet(Shards)
  PROVE  Spec => []AgreeAtRest
<1>1. TypeOK /\ IngestAccounted /\ AlertsAccounted => AgreeAtRest
  <2> SUFFICES ASSUME TypeOK, IngestAccounted, AlertsAccounted, AtRest
               PROVE  /\ enqueued + dropped = ingests
                      /\ enqueued = handled
                      /\ alertQueued = alertSent + sendFailed
    BY DEF AgreeAtRest
  <2>1. CallersAt("sent") = 0 /\ CallersAt("full") = 0
    <3>1. ASSUME NEW pc, pc # "idle" PROVE CallersAt(pc) = 0
      <4>1. {c \in Callers : callerPc[c] = pc} = {}
        BY <3>1 DEF AtRest
      <4>. QED BY <4>1, FS_EmptySet DEF CallersAt
    <3>. QED BY <3>1
  <2>2. ShardsAt(Busy) = 0 /\ ShardsAt({"queued"}) = 0
    <3>1. ASSUME NEW pcs, "recv" \notin pcs PROVE ShardsAt(pcs) = 0
      <4>1. {s \in Shards : shardPc[s] \in pcs} = {}
        BY <3>1 DEF AtRest
      <4>. QED BY <4>1, FS_EmptySet DEF ShardsAt
    <3>. QED BY <3>1 DEF Busy
  <2>3. Queued = 0
    <3> DEFINE n == [s \in Shards |-> Len(shards[s])]
    <3>1. DOMAIN n = Shards /\ \A s \in Shards : n[s] = 0
      BY DEF AtRest
    <3>2. Queued = SumFunctionOnSet(n, Shards)
      BY <3>1 DEF Queued, SumFunction
    <3> HIDE DEF n
    <3>. QED BY <3>1, <3>2, IsFiniteSet(Shards), SumZero
  <2>4. Len(alerts) = 0 /\ One(workerPc # "recv") = 0
    BY DEF AtRest, One
  <2>5. /\ enqueued \in Nat /\ dropped \in Nat /\ handled \in Nat /\ ingests \in Nat
        /\ alertQueued \in Nat /\ alertSent \in Nat /\ sendFailed \in Nat
    BY EngineAssumption DEF TypeOK
  <2>6. /\ enqueued + 0 + dropped + 0 = ingests
        /\ enqueued + 0 = handled + 0 + 0
    BY <2>1, <2>2, <2>3 DEF IngestAccounted, Busy
  <2>7. alertQueued + 0 = alertSent + sendFailed + 0 + 0
    BY <2>2, <2>4 DEF AlertsAccounted
  <2>. QED BY <2>5, <2>6, <2>7
<1>. QED BY <1>1, SwapsAccounted, AlertsAreAccounted, InitTypeOK, NextTypeOK, PTL DEF Spec

-----------------------------------------------------------------------------
(***************************************************************************)
(* The engine implements the per-mint streams of MintStreams, step by      *)
(* step.  Routed is what the mapping needs of the reachable states: the    *)
(* swap a shard has in hand is of a mint that hashes to that shard, so it  *)
(* is the first of its mint's unprocessed swaps.                           *)
(***************************************************************************)

Mine(m) == {ev \in Event : ev.mint = m}

LEMMA IdsAppend ==
  ASSUME NEW q \in Seq(Event), NEW e \in Event
  PROVE  IdsOf(Append(q, e)) = Append(IdsOf(q), e.id)
BY DEF IdsOf

LEMMA TailIs ==
  ASSUME NEW S, NEW t \in Seq(S), NEW u \in Seq(S), Len(t) = Len(u) + 1,
         \A i \in 1 .. Len(u) : t[i + 1] = u[i]
  PROVE  Tail(t) = u
<1>1. Len(u) \in Nat /\ t # <<>>
  OBVIOUS
<1>2. Tail(t) \in Seq(S) /\ Len(Tail(t)) = Len(u) /\ \A i \in 1 .. Len(u) : Tail(t)[i] = t[i + 1]
  BY <1>1
<1>3. ASSUME NEW q \in Seq(S) PROVE q = [i \in 1 .. Len(q) |-> q[i]]
  BY <1>3
<1>4. Tail(t) = [i \in 1 .. Len(u) |-> Tail(t)[i]] /\ u = [i \in 1 .. Len(u) |-> u[i]]
  BY <1>2, <1>3
<1> QED BY <1>2, <1>4

LEMMA IdsCons ==
  ASSUME NEW q \in Seq(Event), NEW e \in Event
  PROVE  /\ IdsOf(<<e>> \o q) # <<>>
         /\ Head(IdsOf(<<e>> \o q)) = e.id
         /\ Tail(IdsOf(<<e>> \o q)) = IdsOf(q)
<1> DEFINE r == <<e>> \o q
<1>1. r \in Seq(Event) /\ Len(r) = Len(q) + 1 /\ r[1] = e /\ Len(q) \in Nat
      /\ \A i \in 1 .. Len(q) : r[i + 1] = q[i]
  OBVIOUS
<1> HIDE DEF r
<1>2. Len(IdsOf(r)) = Len(q) + 1 /\ IdsOf(r) \in Seq({ev.id : ev \in Event})
      /\ \A i \in 1 .. Len(q) + 1 : IdsOf(r)[i] = r[i].id
  BY <1>1 DEF IdsOf
<1>3. IdsOf(r) # <<>> /\ Head(IdsOf(r)) = e.id
  BY <1>1, <1>2
<1>4. /\ IdsOf(q) \in Seq({ev.id : ev \in Event}) /\ Len(IdsOf(q)) = Len(q)
      /\ \A i \in 1 .. Len(q) : IdsOf(q)[i] = q[i].id
  BY DEF IdsOf
<1>5. Tail(IdsOf(r)) = IdsOf(q)
  <2>1. \A i \in 1 .. Len(q) : i + 1 \in 1 .. Len(q) + 1
    BY <1>1
  <2>2. \A i \in 1 .. Len(q) : IdsOf(r)[i + 1] = IdsOf(q)[i]
    BY <1>1, <1>2, <1>4, <2>1
  <2> QED BY <1>2, <1>4, <2>2, TailIs
<1> QED BY <1>3, <1>5 DEF r

LEMMA IdsEmpty == IdsOf(<<>>) = <<>>
BY DEF IdsOf


\* What the mapping reads has the types of sequences of events.
LEMMA WaitingTypes ==
  ASSUME TypeOK
  PROVE  /\ \A s \in Shards : /\ InHand(s) \in Seq(Event) /\ shards[s] \in Seq(Event)
                              /\ Waiting(s) \in Seq(Event)
         /\ BeingSent \in Seq(Event) /\ alerts \in Seq(Event) /\ Outgoing \in Seq(Event)
<1>1. <<>> \in Seq(Event)
  OBVIOUS
<1>2. ASSUME NEW ev \in Event PROVE <<ev>> \in Seq(Event)
  OBVIOUS
<1>3. \A q \in {<<>>} \cup {<<ev>> : ev \in Event} : q \in Seq(Event)
  BY <1>1, <1>2, Zenon
<1>4. ASSUME NEW s \in Shards PROVE InHand(s) \in Seq(Event) /\ shards[s] \in Seq(Event)
  <2>1. shardEv[s] \in {<<>>} \cup {<<ev>> : ev \in Event} /\ shards[s] \in Seq(Event)
    BY DEF TypeOK
  <2> QED BY <1>1, <1>3, <2>1, Zenon DEF InHand
<1>5. BeingSent \in Seq(Event) /\ alerts \in Seq(Event)
  <2>1. workerAlert \in {<<>>} \cup {<<ev>> : ev \in Event} /\ alerts \in Seq(Event)
    BY DEF TypeOK
  <2> QED BY <1>1, <1>3, <2>1, Zenon DEF BeingSent
<1>6. ASSUME NEW p \in Seq(Event), NEW q \in Seq(Event) PROVE p \o q \in Seq(Event)
  OBVIOUS
<1> QED BY <1>4, <1>5, <1>6, Zenon DEF Waiting, Outgoing

\* Only what waits in the shard of a mint and whether it was handled matters.
LEMMA SameWaiting ==
  ASSUME \A s \in Shards : Waiting(s)' = Waiting(s)
  PROVE  [m \in Mints |-> Unprocessed(m)]' = [m \in Mints |-> Unprocessed(m)]
<1>1. \A m \in Mints : ShardOf[m] \in Shards
  BY EngineAssumption
<1>2. \A m \in Mints : Unprocessed(m)' = Unprocessed(m)
  BY <1>1 DEF Unprocessed
<1> QED BY <1>2

\* A step that changes nothing of this is no step of the streams.
LEMMA Stutters ==
  ASSUME \A s \in Shards : Waiting(s)' = Waiting(s),
         Outgoing' = Outgoing, ingests' = ingests, delivered' = delivered
  PROVE  UNCHANGED Streams!svars
<1>1. [m \in Mints |-> Unprocessed(m)]' = [m \in Mints |-> Unprocessed(m)]
  BY SameWaiting
<1>2. Unsent' = Unsent
  BY DEF Unsent
<1> QED BY <1>1, <1>2 DEF Streams!svars

LEMMA InitStreams == Init => Streams!Init
<1> SUFFICES ASSUME Init PROVE Streams!Init
  OBVIOUS
<1>1. \A m \in Mints : ShardOf[m] \in Shards
  BY EngineAssumption
<1>2. <<>> \o <<>> = <<>> /\ 1 .. 0 = {}
  OBVIOUS
<1>3. \A s \in Shards : Waiting(s) = <<>>
  BY <1>2 DEF Init, Waiting, InHand
<1>4. \A m \in Mints : Unprocessed(m) = <<>>
  BY <1>1, <1>3, SelectEmpty, IdsEmpty DEF Unprocessed
<1>5. Unsent = <<>>
  BY <1>2, IdsEmpty DEF Init, Unsent, Outgoing, BeingSent
<1> QED BY <1>2, <1>4, <1>5 DEF Init, Streams!Init

\* The select of IngestSwapInfo offers the swap to the stream of its mint.
LEMMA IngestStreams ==
  ASSUME TypeOK, NEW c \in Callers, NEW m \in Mints, Ingest(c, m)
  PROVE  Streams!Offer(m, ingests + 1) /\ ingests + 1 \in Ids
<1> DEFINE id == ingests + 1
           ev == [id |-> id, mint |-> m]
           s  == ShardOf[m]
<1>1. ingests \in Nat /\ ingests < MaxIngests /\ ingests' = ingests + 1
  BY EngineAssumption DEF TypeOK, Ingest, Offer
<1>2. id \in Ids /\ id \notin 1 .. ingests /\ 1 .. ingests' = (1 .. ingests) \cup {id}
  BY <1>1, EngineAssumption DEF Ids
<1>3. ev \in Event /\ s \in Shards
  BY <1>2, EngineAssumption DEF Event
<1>4. /\ UNCHANGED <<shardPc, shardEv, alerts, workerPc, workerAlert, delivered>>
      /\ \/ shards' = [shards EXCEPT ![s] = Append(@, ev)]
         \/ shards' = shards
  BY DEF Ingest, Offer
<1>5. Unsent' = Unsent
  BY <1>4 DEF Unsent, Outgoing, BeingSent
<1> DEFINE pending == [n \in Mints |-> Unprocessed(n)]
<1>6. CASE shards' = shards
  <2>1. \A t \in Shards : Waiting(t)' = Waiting(t)
    BY <1>4, <1>6 DEF Waiting, InHand
  <2>2. pending' = pending
    BY <2>1, SameWaiting
  <2> QED BY <1>2, <1>4, <1>5, <2>2 DEF Streams!Offer
<1>7. CASE shards' = [shards EXCEPT ![s] = Append(@, ev)]
  <2>1. /\ \A t \in Shards : t # s => shards'[t] = shards[t]
        /\ shards'[s] = Append(shards[s], ev)
    BY <1>3, <1>7 DEF TypeOK
  <2>2. \A t \in Shards : t # s => Waiting(t)' = Waiting(t)
    BY <1>4, <2>1 DEF Waiting, InHand
  <2>3. Waiting(s)' = Append(Waiting(s), ev)
    <3>1. InHand(s) \in Seq(Event) /\ shards[s] \in Seq(Event)
      BY <1>3, WaitingTypes
    <3>2. InHand(s)' = InHand(s)
      BY <1>4 DEF InHand
    <3> HIDE DEF ev, s
    <3>3. InHand(s) \o Append(shards[s], ev) = Append(InHand(s) \o shards[s], ev)
      BY <1>3, <3>1, ConcatAppend
    <3> QED BY <2>1, <3>2, <3>3 DEF Waiting
  <2>4. ASSUME NEW n \in Mints
        PROVE  Unprocessed(n)' = IF n = m THEN Append(Unprocessed(n), id) ELSE Unprocessed(n)
    <3>1. CASE ShardOf[n] # s
      BY <2>2, <3>1, EngineAssumption DEF Unprocessed
    <3>2. CASE ShardOf[n] = s
      <4>1. Waiting(s) \in Seq(Event) /\ Select(Waiting(s), Mine(n)) \in Seq(Event)
        BY <1>3, WaitingTypes, SelectIn
      <4>2. Select(Waiting(s)', Mine(n)) =
              IF ev \in Mine(n) THEN Append(Select(Waiting(s), Mine(n)), ev)
                                ELSE Select(Waiting(s), Mine(n))
        <5> HIDE DEF ev, s
        <5> QED BY <1>3, <2>3, <4>1, SelectAppend
      <4>3. ev \in Mine(n) <=> n = m
        BY <1>3 DEF Mine
      <4>4. IdsOf(Append(Select(Waiting(s), Mine(n)), ev)) =
              Append(IdsOf(Select(Waiting(s), Mine(n))), id)
        BY <1>3, <4>1, IdsAppend
      <4>5. /\ Unprocessed(n) = IdsOf(Select(Waiting(s), Mine(n)))
            /\ Unprocessed(n)' = IdsOf(Select(Waiting(s)', Mine(n)))
        BY <3>2 DEF Unprocessed, Mine
      <4> QED BY <4>2, <4>3, <4>4, <4>5
    <3> QED BY <3>1, <3>2
  <2>5. pending' = [pending EXCEPT ![m] = Append(@, id)]
    BY <2>4
  <2> QED BY <1>2, <1>4, <1>5, <2>5 DEF Streams!Offer
<1> QED BY <1>2, <1>4, <1>6, <1>7

\* The swap in a shard's hands is the oldest unprocessed one of its mint, and of
\* no other: the shard is done with it when it leaves "process" or "alert" for
\* a state in which nothing is in hand any more.
LEMMA HandleStreams ==
  ASSUME TypeOK, Routed, NEW s \in Shards, shardPc[s] \in {"process", "alert"},
         shards' = shards, ingests' = ingests, delivered' = delivered,
         shardPc'[s] \notin {"process", "alert"},
         \A t \in Shards : t # s => shardPc'[t] = shardPc[t],
         shardEv' = shardEv,
         Unsent' \in {Unsent, Append(Unsent, shardEv[s][1].id)}
  PROVE  \E m \in Mints : Streams!Handle(m)
<1> DEFINE pending == [n \in Mints |-> Unprocessed(n)]
<1>1. PICK ev \in Event : shardEv[s] = <<ev>>
  BY DEF TypeOK
<1> DEFINE m == ev.mint
<1>2. m \in Mints /\ ShardOf[m] = s /\ shardEv[s][1] = ev
  <2>1. shardEv[s] # <<>> /\ shardEv[s][1] = ev
    BY <1>1
  <2> QED BY <1>1, <2>1 DEF Routed, Event
<1>3. \A t \in Shards : t # s => Waiting(t)' = Waiting(t)
  BY DEF Waiting, InHand
<1>4. /\ shards[s] \in Seq(Event)
      /\ Waiting(s) = <<ev>> \o shards[s]
      /\ Waiting(s)' = shards[s]
  <2>1. shards[s] \in Seq(Event)
    BY WaitingTypes
  <2>2. <<>> \o shards[s] = shards[s]
    BY <2>1
  <2> QED BY <1>1, <2>1, <2>2 DEF Waiting, InHand
<1>5. ASSUME NEW n \in Mints
      PROVE  Select(Waiting(s), Mine(n)) =
               IF n = m THEN <<ev>> \o Select(shards[s], Mine(n)) ELSE Select(shards[s], Mine(n))
  <2>1. /\ Waiting(s) \in Seq(Event) /\ Waiting(s) # <<>>
        /\ Head(Waiting(s)) = ev /\ Tail(Waiting(s)) = shards[s]
    BY <1>4
  <2>2. ev \in Mine(n) <=> n = m
    BY <1>1 DEF Mine
  <2>3. Select(Waiting(s), Mine(n)) =
          IF Head(Waiting(s)) \in Mine(n)
            THEN <<Head(Waiting(s))>> \o Select(Tail(Waiting(s)), Mine(n))
            ELSE Select(Tail(Waiting(s)), Mine(n))
    BY <2>1, SelectTail, Zenon
  <2> QED BY <2>1, <2>2, <2>3, Zenon
<1>6. \A n \in Mints : ShardOf[n] = s =>
        /\ Unprocessed(n) = IdsOf(Select(Waiting(s), Mine(n)))
        /\ Unprocessed(n)' = IdsOf(Select(shards[s], Mine(n)))
  BY <1>4 DEF Unprocessed, Mine
<1>7. \A n \in Mints : n # m => Unprocessed(n)' = Unprocessed(n)
  <2> SUFFICES ASSUME NEW n \in Mints, n # m PROVE Unprocessed(n)' = Unprocessed(n)
    OBVIOUS
  <2>1. CASE ShardOf[n] = s
    BY <1>5, <1>6, <2>1
  <2>2. CASE ShardOf[n] # s
    BY <1>3, <2>2, EngineAssumption DEF Unprocessed
  <2> QED BY <2>1, <2>2
<1>8. /\ Unprocessed(m) # <<>>
      /\ Head(Unprocessed(m)) = ev.id
      /\ Unprocessed(m)' = Tail(Unprocessed(m))
  <2> DEFINE rest == Select(shards[s], Mine(m))
  <2>1. rest \in Seq(Event)
    BY <1>4, SelectIn
  <2>2. Unprocessed(m) = IdsOf(<<ev>> \o rest) /\ Unprocessed(m)' = IdsOf(rest)
    BY <1>2, <1>5, <1>6
  <2> HIDE DEF rest
  <2> QED BY <1>1, <2>1, <2>2, IdsCons
<1> HIDE DEF m
<1>9. pending' = [pending EXCEPT ![m] = Tail(@)]
  BY <1>2, <1>7, <1>8
<1>10. pending[m] = Unprocessed(m)
  BY <1>2
<1>11. Unsent' \in {Unsent, Append(Unsent, Head(pending[m]))}
  BY <1>2, <1>8, <1>10
<1> QED BY <1>2, <1>8, <1>9, <1>10, <1>11 DEF Streams!Handle

\* What a goroutine of a shard does is a step of the stream of the swap in its
\* hands, or none.
LEMMA ShardStreams ==
  ASSUME TypeOK, Routed, NEW s \in Shards, ShardStep(s)
  PROVE  (\E m \in Mints : Streams!Handle(m)) \/ UNCHANGED Streams!svars
<1>0. \A t \in Shards : shards[t] \in Seq(Event)
  BY DEF TypeOK
<1>1. CASE Receive(s)
  <2>1. shards[s] \in Seq(Event) /\ shards[s] # <<>> /\ shardPc[s] = "recv"
    BY <1>1 DEF Receive, TypeOK
  <2>2. /\ shards'[s] = Tail(shards[s]) /\ shardEv'[s] = <<Head(shards[s])>>
        /\ shardPc'[s] = "process"
        /\ \A t \in Shards : t # s =>
             shards'[t] = shards[t] /\ shardEv'[t] = shardEv[t] /\ shardPc'[t] = shardPc[t]
    BY <1>1 DEF Receive, TypeOK
  <2>3. <<Head(shards[s])>> \o Tail(shards[s]) = shards[s] /\ <<>> \o shards[s] = shards[s]
    BY <2>1
  <2>4. Waiting(s)' = Waiting(s)
    BY <2>1, <2>2, <2>3 DEF Waiting, InHand
  <2>5. \A t \in Shards : Waiting(t)' = Waiting(t)
    BY <2>2, <2>4 DEF Waiting, InHand
  <2>6. Outgoing' = Outgoing
    BY <1>1 DEF Receive, Outgoing, BeingSent
  <2> QED BY <1>1, <2>5, <2>6, Stutters DEF Receive
<1>2. CASE Process(s)
  <2>1. /\ shardPc[s] = "process"
        /\ \/ shardPc' = [shardPc EXCEPT ![s] = "count"]
           \/ shardPc' = [shardPc EXCEPT ![s] = "alert"]
        /\ UNCHANGED <<ingests, shards, shardEv, alerts, workerPc, workerAlert, delivered>>
    BY <1>2 DEF Process
  <2>2. Outgoing' = Outgoing /\ Unsent' = Unsent
    BY <2>1 DEF Unsent, Outgoing, BeingSent
  <2>3. CASE shardPc' = [shardPc EXCEPT ![s] = "count"]
    <3>1. shardPc'[s] = "count" /\ \A t \in Shards : t # s => shardPc'[t] = shardPc[t]
      BY <2>3 DEF TypeOK
    <3> QED BY <2>1, <2>2, <3>1, HandleStreams
  <2>4. CASE shardPc' = [shardPc EXCEPT ![s] = "alert"]
    <3>1. shardPc'[s] = "alert" /\ \A t \in Shards : t # s => shardPc'[t] = shardPc[t]
      BY <2>4 DEF TypeOK
    <3>2. \A t \in Shards : Waiting(t)' = Waiting(t)
      BY <2>1, <3>1 DEF Waiting, InHand
    <3> QED BY <2>1, <2>2, <3>2, Stutters
  <2> QED BY <2>1, <2>3, <2>4
<1>3. CASE EnqueueAlert(s)
  <2>1. /\ shardPc[s] = "alert"
        /\ \/ shardPc' = [shardPc EXCEPT ![s] = "queued"] /\ alerts' = Append(alerts, shardEv[s][1])
           \/ shardPc' = [shardPc EXCEPT ![s] = "lost"] /\ alerts' = alerts
        /\ UNCHANGED <<ingests, shards, shardEv, workerPc, workerAlert, delivered>>
    BY <1>3 DEF EnqueueAlert, AlertQueued, AlertLost
  <2>2. shardPc'[s] \in {"queued", "lost"} /\ \A t \in Shards : t # s => shardPc'[t] = shardPc[t]
    BY <2>1 DEF TypeOK
  <2>3. shardEv[s][1] \in Event
    <3>1. PICK ev \in Event : shardEv[s] = <<ev>>
      BY <2>1 DEF TypeOK
    <3> QED BY <3>1
  <2>4. BeingSent \o Append(alerts, shardEv[s][1]) = Append(Outgoing, shardEv[s][1])
    BY <2>3, WaitingTypes, ConcatAppend DEF Outgoing
  <2>5. BeingSent' = BeingSent
    BY <2>1 DEF BeingSent
  <2>6. Outgoing' \in {Outgoing, Append(Outgoing, shardEv[s][1])}
    BY <2>1, <2>4, <2>5 DEF Outgoing
  <2>7. Unsent' \in {Unsent, Append(Unsent, shardEv[s][1].id)}
    BY <2>3, <2>6, WaitingTypes, IdsAppend DEF Unsent
  <2> QED BY <2>1, <2>2, <2>7, HandleStreams
<1>4. CASE CountAlert(s)
  <2>1. /\ shardPc[s] \in {"queued", "lost"} /\ shardPc' = [shardPc EXCEPT ![s] = "count"]
        /\ UNCHANGED <<ingests, shards, shardEv, alerts, workerPc, workerAlert, delivered>>
    BY <1>4 DEF CountAlert
  <2>2. \A t \in Shards : Waiting(t)' = Waiting(t)
    BY <2>1 DEF Waiting, InHand, TypeOK
  <2>3. Outgoing' = Outgoing
    BY <2>1 DEF Outgoing, BeingSent
  <2> QED BY <2>1, <2>2, <2>3, Stutters
<1>5. CASE CountHandled(s)
  <2>1. /\ shardPc[s] = "count" /\ shardPc' = [shardPc EXCEPT ![s] = "recv"]
        /\ shardEv' = [shardEv EXCEPT ![s] = <<>>]
        /\ UNCHANGED <<ingests, shards, alerts, workerPc, workerAlert, delivered>>
    BY <1>5 DEF CountHandled
  <2>2. \A t \in Shards : Waiting(t)' = Waiting(t)
    BY <2>1 DEF Waiting, InHand, TypeOK
  <2>3. Outgoing' = Outgoing
    BY <2>1 DEF Outgoing, BeingSent
  <2> QED BY <2>1, <2>2, <2>3, Stutters
<1> QED BY <1>1, <1>2, <1>3, <1>4, <1>5 DEF ShardStep

\* The worker takes the oldest alert out of the outbox when it sends it.
LEMMA WorkerStreams ==
  ASSUME TypeOK, WorkerStep
  PROVE  Streams!Take \/ UNCHANGED Streams!svars
<1>1. UNCHANGED <<ingests, shards, shardPc, shardEv>>
  BY DEF WorkerStep, WorkerReceive, WorkerLookup, Send, CountSent
<1>2. \A t \in Shards : Waiting(t)' = Waiting(t)
  BY <1>1 DEF Waiting, InHand
<1>3. CASE WorkerReceive
  <2>1. /\ workerPc = "recv" /\ alerts # <<>> /\ workerAlert' = <<Head(alerts)>>
        /\ alerts' = Tail(alerts) /\ workerPc' = "name" /\ delivered' = delivered
    BY <1>3 DEF WorkerReceive
  <2>2. <<Head(alerts)>> \o Tail(alerts) = alerts /\ <<>> \o alerts = alerts
    BY <2>1 DEF TypeOK
  <2>3. Outgoing' = Outgoing
    BY <2>1, <2>2 DEF Outgoing, BeingSent
  <2> QED BY <1>1, <1>2, <2>1, <2>3, Stutters
<1>4. CASE WorkerLookup
  <2>1. Outgoing' = Outgoing
    BY <1>4 DEF WorkerLookup, Outgoing, BeingSent
  <2> QED BY <1>1, <1>2, <1>4, <2>1, Stutters DEF WorkerLookup
<1>5. CASE CountSent
  <2>1. Outgoing' = Outgoing
    BY <1>5 DEF CountSent, Outgoing, BeingSent
  <2> QED BY <1>1, <1>2, <1>5, <2>1, Stutters DEF CountSent
<1>6. CASE Send
  <2>1. /\ workerPc = "send" /\ workerPc' \in {"sent", "recv"} /\ alerts' = alerts
        /\ delivered' \in {delivered, Append(delivered, workerAlert[1].id)}
    BY <1>6 DEF Send, SendDiscarded, SendAccepted, SendRefused
  <2>2. PICK ev \in Event : workerAlert = <<ev>>
    BY <2>1 DEF TypeOK
  <2>3. alerts \in Seq(Event) /\ <<>> \o alerts = alerts
    BY DEF TypeOK
  <2>4. Outgoing = <<ev>> \o alerts /\ Outgoing' = alerts
    BY <2>1, <2>2, <2>3 DEF Outgoing, BeingSent
  <2>5. Unsent # <<>> /\ Head(Unsent) = ev.id /\ Unsent' = Tail(Unsent)
    BY <2>3, <2>4, IdsCons DEF Unsent
  <2>6. delivered' \in {delivered, Append(delivered, Head(Unsent))}
    <3>1. workerAlert[1] = ev
      BY <2>2
    <3> QED BY <2>1, <2>5, <3>1
  <2>7. [m \in Mints |-> Unprocessed(m)]' = [m \in Mints |-> Unprocessed(m)]
    BY <1>2, SameWaiting
  <2> QED BY <1>1, <2>5, <2>6, <2>7 DEF Streams!Take
<1> QED BY <1>3, <1>4, <1>5, <1>6 DEF WorkerStep

LEMMA StepStreams ==
  ASSUME TypeOK, Routed, [Next]_vars
  PROVE  [Streams!Next]_(Streams!svars)
<1>1. CASE \E c \in Callers : CallerStep(c)
  <2>1. PICK c \in Callers : CallerStep(c)
    BY <1>1
  <2>2. CASE \E m \in Mints : Ingest(c, m)
    BY <2>2, IngestStreams DEF Streams!Next
  <2>3. CASE CountIngest(c)
    <3>1. UNCHANGED <<ingests, shards, shardPc, shardEv, alerts, workerPc, workerAlert, delivered>>
      BY <2>3 DEF CountIngest
    <3> QED BY <3>1, Stutters DEF Waiting, InHand, Outgoing, BeingSent
  <2> QED BY <2>1, <2>2, <2>3 DEF CallerStep
<1>2. CASE \E s \in Shards : ShardStep(s)
  BY <1>2, ShardStreams DEF Streams!Next
<1>3. CASE WorkerStep
  BY <1>3, WorkerStreams DEF Streams!Next
<1>4. CASE UNCHANGED vars
  <2>1. UNCHANGED <<ingests, shards, shardPc, shardEv, alerts, workerPc, workerAlert, delivered>>
    BY <1>4 DEF vars
  <2> QED BY <2>1, Stutters DEF Waiting, InHand, Outgoing, BeingSent
<1> QED BY <1>1, <1>2, <1>3, <1>4 DEF Next

\* Sharding, the bounded channels and every interleaving of the callers, the
\* shards and the worker keep the promise of MintStreams: the accepted swaps of
\* a mint are processed in order and once each, and the alerts reach the sink
\* in the order they were raised, none invented or repeated.
THEOREM EngineImplementsStreams == Spec => ImplementsMintStreams
<1>1. Spec => [](TypeOK /\ Routed)
  BY InitTypeOK, NextTypeOK, InitRouted, NextRouted, PTL DEF Spec
<1>2. TypeOK /\ Routed /\ [Next]_vars => [Streams!Next]_(Streams!svars)
  BY StepStreams
<1> QED
  BY <1>1, <1>2, InitStreams, PTL DEF Spec, ImplementsMintStreams, Streams!Spec
-----------------------------------------------------------------------------
(* What the streams promise of the chat *)

\* The ids of the swaps wherever they are: each is in one place at most, once,
\* and was offered.
Distinct(off, pend, out, del) ==
  /\ pend \in [Mints -> Seq(Ids)] /\ out \in Seq(Ids) /\ del \in Seq(Ids)
  /\ NoRepeat(out) /\ NoRepeat(del) /\ \A m \in Mints : NoRepeat(pend[m])
  /\ Range(out) \subseteq off /\ Range(del) \subseteq off
  /\ Range(out) \cap Range(del) = {}
  /\ \A m \in Mints : /\ Range(pend[m]) \subseteq off
                      /\ Range(pend[m]) \cap (Range(out) \cup Range(del)) = {}
  /\ \A m, n \in Mints : m # n => Range(pend[m]) \cap Range(pend[n]) = {}

\* A step changes the stream of one mint.
Becomes(pend, pend2, m, q) == pend2 = [pend EXCEPT ![m] = q]

LEMMA OfferDistinct ==
  ASSUME NEW off, NEW pend, NEW out, NEW del, Distinct(off, pend, out, del),
         NEW m \in Mints, NEW id \in Ids, id \notin off,
         NEW pend2, pend2 = pend \/ Becomes(pend, pend2, m, Append(pend[m], id))
  PROVE  Distinct(off \cup {id}, pend2, out, del)
<1>1. CASE pend2 = pend
  BY <1>1 DEF Distinct
<1>2. CASE Becomes(pend, pend2, m, Append(pend[m], id))
  <2>1. pend \in [Mints -> Seq(Ids)] /\ pend[m] \in Seq(Ids)
    BY DEF Distinct
  <2>2. /\ Append(pend[m], id) \in Seq(Ids)
        /\ Range(Append(pend[m], id)) = Range(pend[m]) \cup {id}
        /\ NoRepeat(Append(pend[m], id))
    BY <2>1, AppendFacts DEF Distinct
  <2>3. /\ pend2 \in [Mints -> Seq(Ids)] /\ pend2[m] = Append(pend[m], id)
        /\ \A n \in Mints : n # m => pend2[n] = pend[n]
    BY <1>2, <2>1, <2>2 DEF Becomes
  <2>4. \A n \in Mints : /\ NoRepeat(pend2[n])
                         /\ Range(pend2[n]) \subseteq Range(pend[n]) \cup {id}
                         /\ n # m => Range(pend2[n]) = Range(pend[n])
    BY <2>2, <2>3 DEF Distinct
  <2>5. /\ id \notin Range(out) /\ id \notin Range(del)
        /\ \A n \in Mints : id \notin Range(pend[n])
    BY DEF Distinct
  <2>6. /\ Range(out) \subseteq off \cup {id} /\ Range(del) \subseteq off \cup {id}
        /\ \A n \in Mints : /\ Range(pend2[n]) \subseteq off \cup {id}
                            /\ Range(pend2[n]) \cap (Range(out) \cup Range(del)) = {}
    BY <2>4, <2>5 DEF Distinct
  <2>7. ASSUME NEW n \in Mints, NEW k \in Mints, n # k
        PROVE  Range(pend2[n]) \cap Range(pend2[k]) = {}
    <3>1. Range(pend[n]) \cap Range(pend[k]) = {}
      BY <2>7 DEF Distinct
    <3>2. n # m \/ k # m
      BY <2>7
    <3>. QED BY <2>4, <2>5, <3>1, <3>2
  <2>8. /\ out \in Seq(Ids) /\ del \in Seq(Ids) /\ NoRepeat(out) /\ NoRepeat(del)
        /\ Range(out) \cap Range(del) = {}
    BY DEF Distinct
  <2>. QED BY <2>3, <2>4, <2>6, <2>7, <2>8 DEF Distinct
<1>. QED BY <1>1, <1>2

LEMMA HandleDistinct ==
  ASSUME NEW off, NEW pend, NEW out, NEW del, Distinct(off, pend, out, del),
         NEW m \in Mints, pend[m] # <<>>,
         NEW pend2, Becomes(pend, pend2, m, Tail(pend[m])),
         NEW out2, out2 = out \/ out2 = Append(out, Head(pend[m]))
  PROVE  Distinct(off, pend2, out2, del)
<1> DEFINE id == Head(pend[m])
<1>1. pend \in [Mints -> Seq(Ids)] /\ pend[m] \in Seq(Ids) /\ NoRepeat(pend[m])
  BY DEF Distinct
<1>2. /\ id \in Ids /\ id \in Range(pend[m]) /\ id \notin Range(Tail(pend[m]))
      /\ Tail(pend[m]) \in Seq(Ids) /\ Range(Tail(pend[m])) \subseteq Range(pend[m])
      /\ NoRepeat(Tail(pend[m]))
  BY <1>1, TailFacts
<1>3. /\ pend2 \in [Mints -> Seq(Ids)] /\ pend2[m] = Tail(pend[m])
      /\ \A n \in Mints : n # m => pend2[n] = pend[n]
  BY <1>1, <1>2 DEF Becomes
<1>4. out2 \in {out, Append(out, id)}
  OBVIOUS
<1> HIDE DEF id
<1>5. id \notin Range(out) /\ id \notin Range(del) /\ id \in off
  BY <1>2 DEF Distinct
<1>6. \A n \in Mints : id \notin Range(pend2[n]) /\ Range(pend2[n]) \subseteq Range(pend[n])
                      /\ NoRepeat(pend2[n])
  BY <1>2, <1>3 DEF Distinct
<1>7. out2 \in Seq(Ids) /\ NoRepeat(out2) /\ Range(out2) \subseteq Range(out) \cup {id}
  <2>1. out \in Seq(Ids) /\ NoRepeat(out)
    BY DEF Distinct
  <2>2. /\ Append(out, id) \in Seq(Ids) /\ NoRepeat(Append(out, id))
        /\ Range(Append(out, id)) = Range(out) \cup {id}
    BY <1>2, <1>5, <2>1, AppendFacts
  <2>. QED BY <1>4, <2>1, <2>2
<1>8. Range(out2) \subseteq off /\ Range(out2) \cap Range(del) = {}
  BY <1>5, <1>7 DEF Distinct
<1>9. \A n \in Mints : /\ Range(pend2[n]) \subseteq off
                       /\ Range(pend2[n]) \cap (Range(out2) \cup Range(del)) = {}
  BY <1>6, <1>7 DEF Distinct
<1>10. \A n, k \in Mints : n # k => Range(pend2[n]) \cap Range(pend2[k]) = {}
  BY <1>6 DEF Distinct
<1>. QED BY <1>3, <1>6, <1>7, <1>8, <1>9, <1>10 DEF Distinct

LEMMA TakeDistinct ==
  ASSUME NEW off, NEW pend, NEW out, NEW del, Distinct(off, pend, out, del), out # <<>>,
         NEW del2, del2 = del \/ del2 = Append(del, Head(out))
  PROVE  Distinct(off, pend, Tail(out), del2)
<1> DEFINE id == Head(out)
           out2 == Tail(out)
<1>1. out \in Seq(Ids) /\ NoRepeat(out) /\ del \in Seq(Ids) /\ NoRepeat(del)
  BY DEF Distinct
<1>2. /\ id \in Ids /\ id \in Range(out) /\ id \notin Range(out2)
      /\ out2 \in Seq(Ids) /\ Range(out2) \subseteq Range(out) /\ NoRepeat(out2)
  BY <1>1, TailFacts
<1>3. del2 \in {del, Append(del, id)}
  OBVIOUS
<1> HIDE DEF id, out2
<1>4. id \in off /\ id \notin Range(del) /\ \A m \in Mints : id \notin Range(pend[m])
  BY <1>2 DEF Distinct
<1>5. del2 \in Seq(Ids) /\ NoRepeat(del2) /\ Range(del2) \subseteq Range(del) \cup {id}
  <2>1. /\ Append(del, id) \in Seq(Ids) /\ NoRepeat(Append(del, id))
        /\ Range(Append(del, id)) = Range(del) \cup {id}
    BY <1>1, <1>2, <1>4, AppendFacts
  <2>. QED BY <1>1, <1>3, <2>1
<1>6. /\ Range(out2) \subseteq off /\ Range(del2) \subseteq off
      /\ Range(out2) \cap Range(del2) = {}
  BY <1>2, <1>4, <1>5 DEF Distinct
<1>7. \A m \in Mints : /\ Range(pend[m]) \subseteq off
                       /\ Range(pend[m]) \cap (Range(out2) \cup Range(del2)) = {}
  BY <1>2, <1>4, <1>5 DEF Distinct
<1>8. Distinct(off, pend, out2, del2)
  BY <1>2, <1>5, <1>6, <1>7 DEF Distinct
<1>. QED BY <1>8 DEF out2

Backlog == [m \in Mints |-> Unprocessed(m)]

LEMMA StepDistinct ==
  ASSUME Distinct(1 .. ingests, Backlog, Unsent, delivered), [Streams!Next]_(Streams!svars)
  PROVE  Distinct((1 .. ingests)', Backlog', Unsent', delivered')
<1>1. ASSUME NEW m \in Mints, NEW id \in Ids, Streams!Offer(m, id)
      PROVE  Distinct((1 .. ingests)', Backlog', Unsent', delivered')
  <2>1. /\ id \notin 1 .. ingests /\ (1 .. ingests)' = (1 .. ingests) \cup {id}
        /\ Backlog' = Backlog \/ Becomes(Backlog, Backlog', m, Append(Backlog[m], id))
        /\ Unsent' = Unsent /\ delivered' = delivered
    BY <1>1 DEF Streams!Offer, Backlog, Becomes
  <2>2. PICK off : off = 1 .. ingests
    OBVIOUS
  <2>3. id \notin off /\ Distinct(off, Backlog, Unsent, delivered)
    BY <2>1, <2>2
  <2>4. Distinct(off \cup {id}, Backlog', Unsent, delivered)
    BY <2>1, <2>3, OfferDistinct
  <2>. QED BY <2>1, <2>2, <2>4
<1>2. ASSUME NEW m \in Mints, Streams!Handle(m)
      PROVE  Distinct((1 .. ingests)', Backlog', Unsent', delivered')
  <2>1. /\ (1 .. ingests)' = 1 .. ingests /\ Backlog[m] # <<>>
        /\ Becomes(Backlog, Backlog', m, Tail(Backlog[m]))
        /\ Unsent' = Unsent \/ Unsent' = Append(Unsent, Head(Backlog[m]))
        /\ delivered' = delivered
    BY <1>2 DEF Streams!Handle, Backlog, Becomes
  <2>. QED BY <2>1, HandleDistinct
<1>3. CASE Streams!Take
  <2>1. /\ (1 .. ingests)' = 1 .. ingests /\ Backlog' = Backlog /\ Unsent # <<>>
        /\ Unsent' = Tail(Unsent)
        /\ delivered' = delivered \/ delivered' = Append(delivered, Head(Unsent))
    BY <1>3 DEF Streams!Take, Backlog
  <2>. QED BY <2>1, TakeDistinct
<1>4. CASE UNCHANGED Streams!svars
  BY <1>4 DEF Streams!svars, Backlog
<1>. QED BY <1>1, <1>2, <1>3, <1>4 DEF Streams!Next

\* No message reaches the chat twice, and each is about a swap that was accepted.
DeliveredOnce == NoRepeat(delivered) /\ Range(delivered) \subseteq 1 .. ingests

\* A swap raises at most one message in the chat, however callers, shards and the
\* worker interleave, and also when Telegram accepts a message and answers too
\* late for Send, which takes it for a failure: nothing sends it again.
THEOREM ChatHearsOnce == Spec => []DeliveredOnce
<1> DEFINE Inv == Distinct(1 .. ingests, Backlog, Unsent, delivered)
<1>1. Streams!Init => Inv
  <2> SUFFICES ASSUME Streams!Init PROVE Inv
    OBVIOUS
  <2>1. <<>> \in Seq(Ids) /\ NoRepeat(<<>>) /\ Range(<<>>) = {}
    <3>1. Len(<<>>) = 0 /\ 1 .. 0 = {} /\ DOMAIN <<>> = {}
      OBVIOUS
    <3>. QED BY <3>1 DEF NoRepeat, Range
  <2>2. Backlog = [m \in Mints |-> <<>>] /\ Unsent = <<>> /\ delivered = <<>>
    BY DEF Streams!Init, Backlog
  <2> HIDE DEF Inv
  <2>3. Backlog \in [Mints -> Seq(Ids)] /\ \A m \in Mints : Backlog[m] = <<>>
    BY <2>1, <2>2
  <2>. QED BY <2>1, <2>2, <2>3 DEF Inv, Distinct
<1>2. Inv /\ [Streams!Next]_(Streams!svars) => Inv'
  BY StepDistinct
<1>3. Inv => DeliveredOnce
  BY DEF Distinct, DeliveredOnce
<1>. QED
  BY <1>1, <1>2, <1>3, EngineImplementsStreams, PTL DEF ImplementsMintStreams, Streams!Spec

=============================================================================
