------------------------- MODULE EnrichmentProofs -------------------------
(***************************************************************************)
(* Theorems about Enrichment.tla for any signatures, any number of         *)
(* workers, any queue and any number of attempts.                          *)
(***************************************************************************)
EXTENDS Enrichment, FoldLemmas

WorkerSteps == {"select", "check", "try", "ingest", "store", "returned"}

Tasks == {<<>>} \cup {<<g>> : g \in Sigs}

\* TypeOK in parts, so that a step has to look at one of them at a time.
QueueTypes ==
  /\ ingesting \in BOOLEAN /\ cancelled \in BOOLEAN
  /\ notified \in 0 .. MaxNotifs /\ named \in 0 .. notified
  /\ entries \in [Sigs -> {"absent", "live", "expired"}]
  /\ queue \in Seq(Sigs) /\ Len(queue) <= QueueSize

WorkerTypes ==
  /\ pc \in [Workers -> WorkerSteps]
  /\ task \in [Workers -> Tasks]
  /\ \A w \in Workers : task[w] = <<>> <=> pc[w] \in {"select", "returned"}
  /\ attempt \in [Workers -> 0 .. Retries - 1]
  /\ processed \subseteq Sigs

CounterTypes ==
  /\ dedupDrops \in Nat /\ queueDrops \in Nat
  /\ successes \in Nat /\ failures \in Nat /\ dedupHits \in Nat
  /\ handed \in [Sigs -> Nat]
  /\ accepted \in Nat

LEMMA TypesSplit == TypeOK <=> QueueTypes /\ WorkerTypes /\ CounterTypes
BY DEF TypeOK, QueueTypes, WorkerTypes, CounterTypes, WorkerSteps, Tasks

LEMMA TypesSplitNext == TypeOK' <=> QueueTypes' /\ WorkerTypes' /\ CounterTypes'
BY DEF TypeOK, QueueTypes, WorkerTypes, CounterTypes, WorkerSteps, Tasks

-----------------------------------------------------------------------------
(* Tasks and queues *)

LEMMA TaskFacts ==
  /\ <<>> \in Tasks /\ Range(<<>>) = {}
  /\ \A g \in Sigs : /\ <<g>> \in Tasks /\ <<g>> # <<>> /\ <<g>>[1] = g
                     /\ Range(<<g>>) = {g}
                     /\ \A h \in Sigs : <<g>> = <<h>> => g = h
  /\ \A t \in Tasks : t # <<>> => \E g \in Sigs : t = <<g>>
<1>1. ASSUME NEW g \in Sigs PROVE Range(<<g>>) = {g}
  <2>1. DOMAIN <<g>> = {1} /\ <<g>>[1] = g
    OBVIOUS
  <2>. QED BY <2>1 DEF Range
<1>2. Range(<<>>) = {}
  BY DEF Range
<1>. QED BY <1>1, <1>2 DEF Tasks

-----------------------------------------------------------------------------
(* Types *)

LEMMA InitTypeOK == Init => TypeOK
<1> SUFFICES ASSUME Init PROVE TypeOK
  OBVIOUS
<1>1. QueueTypes
  <2>1. queue \in Seq(Sigs) /\ Len(queue) = 0
    BY DEF Init
  <2>2. 0 \in 0 .. MaxNotifs /\ 0 \in 0 .. 0 /\ 0 <= QueueSize
    BY EnrichmentAssumption
  <2>. QED BY <2>1, <2>2 DEF Init, QueueTypes
<1>2. WorkerTypes
  <2>1. 0 \in 0 .. Retries - 1
    BY EnrichmentAssumption
  <2>2. pc \in [Workers -> WorkerSteps] /\ attempt \in [Workers -> 0 .. Retries - 1]
    BY <2>1 DEF Init, WorkerSteps
  <2>3. task \in [Workers -> Tasks]
    BY TaskFacts DEF Init
  <2>4. \A w \in Workers : task[w] = <<>> <=> pc[w] \in {"select", "returned"}
    BY DEF Init
  <2>. QED BY <2>2, <2>3, <2>4 DEF Init, WorkerTypes
<1>3. CounterTypes
  BY DEF Init, CounterTypes
<1>. QED BY <1>1, <1>2, <1>3, TypesSplit

\* What a step leaves alone keeps its types.
LEMMA QueueStays ==
  ASSUME TypeOK, UNCHANGED <<received, entries, queue>>,
         ingesting' \in BOOLEAN, cancelled' \in BOOLEAN
  PROVE  QueueTypes'
BY DEF TypeOK, QueueTypes, received

LEMMA WorkersStay ==
  ASSUME TypeOK, UNCHANGED <<pc, task, attempt, processed>>
  PROVE  WorkerTypes'
BY DEF TypeOK, WorkerTypes, WorkerSteps, Tasks

LEMMA CountersStay ==
  ASSUME TypeOK, UNCHANGED <<counters, handed, accepted>>
  PROVE  CounterTypes'
BY DEF TypeOK, CounterTypes, counters

\* A worker moves, with a task exactly when its new step is one of a task.
LEMMA WorkerMoves ==
  ASSUME TypeOK, NEW w \in Workers, NEW step \in WorkerSteps, NEW t \in Tasks,
         t = <<>> <=> step \in {"select", "returned"},
         pc' = [pc EXCEPT ![w] = step], task' = [task EXCEPT ![w] = t],
         attempt' \in [Workers -> 0 .. Retries - 1], processed' \subseteq Sigs
  PROVE  WorkerTypes'
<1>0. pc \in [Workers -> WorkerSteps] /\ task \in [Workers -> Tasks]
  BY DEF TypeOK, WorkerSteps, Tasks
<1>1. pc' \in [Workers -> WorkerSteps] /\ task' \in [Workers -> Tasks]
  BY <1>0
<1>2. ASSUME NEW v \in Workers PROVE task'[v] = <<>> <=> pc'[v] \in {"select", "returned"}
  <2>1. CASE v = w
    BY <1>0, <2>1
  <2>2. CASE v # w
    BY <1>0, <2>2 DEF TypeOK
  <2>. QED BY <2>1, <2>2
<1>. QED BY <1>1, <1>2 DEF WorkerTypes

\* A worker that keeps its task.
LEMMA WorkerKeeps ==
  ASSUME TypeOK, NEW w \in Workers, NEW step \in WorkerSteps,
         pc[w] \notin {"select", "returned"}, step \notin {"select", "returned"},
         pc' = [pc EXCEPT ![w] = step], task' = task,
         attempt' \in [Workers -> 0 .. Retries - 1], processed' = processed
  PROVE  WorkerTypes'
<1>1. task[w] \in Tasks /\ task[w] # <<>> /\ task' = [task EXCEPT ![w] = task[w]]
  BY DEF TypeOK, Tasks
<1>. QED BY <1>1, WorkerMoves DEF TypeOK

\* A message that names a signature, and one that names none.
LEMMA NotificationCases ==
  ASSUME NEW n \in Sigs \cup {NoSig}, ProcessNotification(n)
  PROVE  \/ n \in Sigs /\ Named(n)
         \/ UNCHANGED <<named, entries, queue, dedupDrops, queueDrops>>
BY DEF ProcessNotification, Nameless, Named

LEMMA NotificationTypeOK ==
  ASSUME TypeOK, NEW g \in Sigs \cup {NoSig}, ProcessNotification(g)
  PROVE  TypeOK'
<1>1. WorkerTypes'
  BY WorkersStay DEF ProcessNotification, workers
<1>2. CounterTypes'
  BY DEF ProcessNotification, Nameless, Named, Duplicate, Enqueue, DropOnFull, workers,
         CounterTypes, TypeOK
<1>3. QueueTypes'
  <2>1. /\ notified' \in 0 .. MaxNotifs /\ named' \in 0 .. notified'
        /\ UNCHANGED <<ingesting, cancelled>>
    BY EnrichmentAssumption DEF ProcessNotification, Nameless, Named, TypeOK
  <2>2. Remembered(g) \in [Sigs -> {"absent", "live", "expired"}]
    BY DEF Remembered, TypeOK
  <2>3. entries' \in [Sigs -> {"absent", "live", "expired"}]
    BY <2>2 DEF ProcessNotification, Nameless, Named, Duplicate, Enqueue, DropOnFull, TypeOK
  <2>4. queue' \in Seq(Sigs) /\ Len(queue') <= QueueSize
    <3>1. queue \in Seq(Sigs) /\ Len(queue) \in Nat /\ Len(queue) <= QueueSize
      BY DEF TypeOK
    <3>2. CASE g \in Sigs /\ Enqueue(g)
      <4>1. queue' = Append(queue, g) /\ Len(queue) < QueueSize
        BY <3>2 DEF Enqueue
      <4>2. Append(queue, g) \in Seq(Sigs) /\ Len(Append(queue, g)) = Len(queue) + 1
        BY <3>1, <3>2, AppendFacts
      <4>. QED BY <3>1, <4>1, <4>2, EnrichmentAssumption
    <3>3. CASE queue' = queue
      BY <3>1, <3>3
    <3>. QED BY <3>2, <3>3, NotificationCases DEF Named, Duplicate, DropOnFull
  <2>. QED BY <2>1, <2>3, <2>4 DEF QueueTypes, TypeOK
<1>. QED BY <1>1, <1>2, <1>3, TypesSplitNext

LEMMA ReceiveTypeOK ==
  ASSUME TypeOK, NEW w \in Workers, Receive(w)
  PROVE  TypeOK'
<1>1. queue \in Seq(Sigs) /\ queue # <<>> /\ queue' = Tail(queue) /\ Len(queue) <= QueueSize
  BY DEF Receive, TypeOK
<1>2. Head(queue) \in Sigs /\ Tail(queue) \in Seq(Sigs) /\ Len(Tail(queue)) = Len(queue) - 1
  BY <1>1, TailFacts
<1>3. QueueTypes'
  <2>1. Len(queue') <= QueueSize
    <3>1. Len(queue) \in Nat
      BY <1>1
    <3>. QED BY <1>1, <1>2, <3>1, EnrichmentAssumption
  <2>. QED BY <1>1, <1>2, <2>1 DEF Receive, received, QueueTypes, TypeOK
<1>4. WorkerTypes'
  <2>1. <<Head(queue)>> \in Tasks /\ <<Head(queue)>> # <<>>
    BY <1>2, TaskFacts
  <2>. QED BY <2>1, WorkerMoves DEF Receive, WorkerSteps, TypeOK
<1>5. CounterTypes'
  BY CountersStay DEF Receive
<1>. QED BY <1>3, <1>4, <1>5, TypesSplitNext

LEMMA ReturnTypeOK ==
  ASSUME TypeOK, NEW w \in Workers, WorkerReturn(w)
  PROVE  TypeOK'
<1>1. QueueTypes' /\ CounterTypes'
  BY QueueStays, CountersStay DEF WorkerReturn, TypeOK
<1>2. WorkerTypes'
  <2>1. task[w] = <<>> /\ task' = [task EXCEPT ![w] = <<>>]
    BY DEF WorkerReturn, TypeOK
  <2>. QED BY <2>1, TaskFacts, WorkerMoves DEF WorkerReturn, WorkerSteps, TypeOK
<1>. QED BY <1>1, <1>2, TypesSplitNext

LEMMA CheckTypeOK ==
  ASSUME TypeOK, NEW w \in Workers, Check(w)
  PROVE  TypeOK'
<1>1. QueueTypes'
  BY QueueStays DEF Check, TypeOK
<1>2. CounterTypes'
  BY DEF Check, CounterTypes, TypeOK
<1>3. WorkerTypes'
  <2>1. CASE task' = [task EXCEPT ![w] = <<>>] /\ pc' = [pc EXCEPT ![w] = "select"] /\ attempt' = attempt
    BY <2>1, TaskFacts, WorkerMoves DEF Check, WorkerSteps, TypeOK
  <2>2. CASE pc' = [pc EXCEPT ![w] = "try"] /\ attempt' = [attempt EXCEPT ![w] = 0] /\ task' = task
    <3>1. attempt' \in [Workers -> 0 .. Retries - 1]
      BY <2>2, EnrichmentAssumption DEF TypeOK
    <3>. QED BY <2>2, <3>1, WorkerKeeps DEF Check, WorkerSteps
  <2>. QED BY <2>1, <2>2 DEF Check
<1>. QED BY <1>1, <1>2, <1>3, TypesSplitNext

LEMMA TryTypeOK ==
  ASSUME TypeOK, NEW w \in Workers, Try(w)
  PROVE  TypeOK'
<1>1. QueueTypes'
  BY QueueStays DEF Try, TypeOK
<1>2. CounterTypes'
  BY DEF Try, Fail, AnotherAttempt, GiveUp, CounterTypes, TypeOK
<1>3. WorkerTypes'
  <2>1. CASE AnotherAttempt(w)
    <3>1. attempt' \in [Workers -> 0 .. Retries - 1]
      <4>1. attempt[w] \in 0 .. Retries - 1
        BY DEF TypeOK
      <4>2. attempt[w] + 1 \in 0 .. Retries - 1
        BY <2>1, <4>1, EnrichmentAssumption DEF AnotherAttempt
      <4>. QED BY <2>1, <4>2 DEF AnotherAttempt, TypeOK
    <3>2. pc' = [pc EXCEPT ![w] = "try"]
      BY <2>1 DEF AnotherAttempt, Try, TypeOK
    <3>. QED BY <3>1, <3>2, WorkerKeeps DEF Try, WorkerSteps
  <2>2. CASE attempt' = attempt /\ \E step \in {"store", "ingest"} : pc' = [pc EXCEPT ![w] = step]
    BY <2>2, WorkerKeeps DEF Try, WorkerSteps, TypeOK
  <2>. QED BY <2>1, <2>2 DEF Try, Fail, GiveUp
<1>. QED BY <1>1, <1>2, <1>3, TypesSplitNext

LEMMA IngestTypeOK ==
  ASSUME TypeOK, NEW w \in Workers, Ingest(w)
  PROVE  TypeOK'
<1>1. QueueTypes'
  BY QueueStays DEF Ingest, TypeOK
<1>2. CounterTypes'
  <2>1. handed' \in [Sigs -> Nat]
    <3> DEFINE g == task[w][1]
    <3>1. handed \in [Sigs -> Nat] /\ handed' = [handed EXCEPT ![g] = handed[g] + 1]
      BY DEF Ingest, TypeOK
    <3> HIDE DEF g
    <3>2. DOMAIN handed' = Sigs /\ \A x \in Sigs : handed'[x] \in Nat
      BY <3>1
    <3>. QED BY <3>1, <3>2
  <2>2. accepted \in Nat /\ accepted' \in {accepted, accepted + 1}
    BY DEF Ingest, TypeOK
  <2>3. /\ successes \in Nat /\ successes' = successes + 1
        /\ dedupDrops' = dedupDrops /\ queueDrops' = queueDrops
        /\ failures' = failures /\ dedupHits' = dedupHits
    BY DEF Ingest, TypeOK
  <2>. QED BY <2>1, <2>2, <2>3 DEF CounterTypes, TypeOK
<1>3. WorkerTypes'
  <2>1. /\ pc[w] = "ingest" /\ pc' = [pc EXCEPT ![w] = "store"]
        /\ task' = task /\ attempt' = attempt /\ processed' = processed
    BY DEF Ingest
  <2>2. attempt \in [Workers -> 0 .. Retries - 1]
    BY DEF TypeOK
  <2>. QED BY <2>1, <2>2, WorkerKeeps DEF WorkerSteps
<1>. QED BY <1>1, <1>2, <1>3, TypesSplitNext

LEMMA StoreTypeOK ==
  ASSUME TypeOK, NEW w \in Workers, Store(w)
  PROVE  TypeOK'
<1>1. QueueTypes' /\ CounterTypes'
  BY QueueStays, CountersStay DEF Store, TypeOK
<1>2. WorkerTypes'
  <2>1. Range(task[w]) \subseteq Sigs
    BY TaskFacts DEF TypeOK, Tasks
  <2>2. processed' \subseteq Sigs
    BY <2>1 DEF Store, TypeOK
  <2>. QED BY <2>2, TaskFacts, WorkerMoves DEF Store, WorkerSteps, TypeOK
<1>. QED BY <1>1, <1>2, TypesSplitNext

LEMMA OtherTypeOK ==
  ASSUME TypeOK,
         \/ \E g \in Sigs : Expire(g)
         \/ IngestReturn \/ CancelContexts \/ UNCHANGED vars
  PROVE  TypeOK'
<1>1. WorkerTypes' /\ CounterTypes'
  BY WorkersStay, CountersStay DEF Expire, IngestReturn, CancelContexts, vars, workers
<1>2. QueueTypes'
  BY DEF Expire, IngestReturn, CancelContexts, vars, received, QueueTypes, TypeOK
<1>. QED BY <1>1, <1>2, TypesSplitNext

LEMMA StepTypeOK == TypeOK /\ [Next]_vars => TypeOK'
<1> SUFFICES ASSUME TypeOK, [Next]_vars PROVE TypeOK'
  OBVIOUS
<1>1. ASSUME NEW w \in Workers, WorkerStep(w) PROVE TypeOK'
  BY <1>1, ReceiveTypeOK, ReturnTypeOK, CheckTypeOK, TryTypeOK, IngestTypeOK, StoreTypeOK
     DEF WorkerStep
<1>. QED BY <1>1, NotificationTypeOK, OtherTypeOK DEF Next, Shutdown, GroupCancel

\* A worker holds a task exactly while it works on one, attempts stay below Retries
\* and the queue within its capacity, for every instance.
THEOREM TypeCorrect == Spec => []TypeOK
BY InitTypeOK, StepTypeOK, PTL DEF Spec

-----------------------------------------------------------------------------
(* One worker per signature *)

\* The signature w has in hand is g.
Holds(w, g) == task[w] = <<g>>

\* A signature is queued once or in one worker's hands, not both, and as long as
\* it is the cache remembers it: that is why no second task is made for it.
Once ==
  /\ NoRepeat(queue)
  /\ \A g \in Range(queue) : entries[g] = "live" /\ \A w \in Workers : ~Holds(w, g)
  /\ \A w \in Workers, g \in Sigs : Holds(w, g) => entries[g] = "live"
  /\ \A v, w \in Workers, g \in Sigs : Holds(v, g) /\ Holds(w, g) => v = w

LEMMA InitOnce == Init => Once
<1> SUFFICES ASSUME Init PROVE Once
  OBVIOUS
<1>1. queue = <<>> /\ \A w \in Workers : task[w] = <<>>
  BY DEF Init
<1>2. \A w \in Workers, g \in Sigs : ~Holds(w, g)
  BY <1>1, TaskFacts DEF Holds
<1>3. Range(queue) = {} /\ NoRepeat(queue)
  BY <1>1, TaskFacts DEF NoRepeat
<1>. QED BY <1>2, <1>3 DEF Once

\* A worker that gives its task up, or does nothing with it.
LEMMA TasksEndOnce ==
  ASSUME TypeOK, Once, UNCHANGED <<queue, entries>>,
         \A v \in Workers : task'[v] = task[v] \/ task'[v] = <<>>
  PROVE  Once'
<1>1. \A v \in Workers, g \in Sigs : Holds(v, g)' => Holds(v, g)
  BY TaskFacts DEF Holds
<1>2. Range(queue) \subseteq Sigs
  BY DEF TypeOK, Range
<1>. QED BY <1>1, <1>2 DEF Once

LEMMA NotificationOnce ==
  ASSUME TypeOK, Once, NEW g \in Sigs \cup {NoSig}, ProcessNotification(g)
  PROVE  Once'
<1>0. \A w \in Workers, h \in Sigs : Holds(w, h)' <=> Holds(w, h)
  BY DEF ProcessNotification, workers, Holds
<1>1. Range(queue) \subseteq Sigs /\ queue \in Seq(Sigs)
  BY DEF TypeOK, Range
<1>2. CASE UNCHANGED <<queue, entries>>
  BY <1>2, TasksEndOnce DEF ProcessNotification, workers
<1>3. CASE g \in Sigs /\ Named(g) /\ entries[g] # "live" /\ entries' = Remembered(g)
  <2>1. entries'[g] = "live" /\ \A h \in Sigs : entries[h] = "live" => entries'[h] = "live"
    BY <1>3 DEF Remembered
  <2>2. g \notin Range(queue) /\ \A w \in Workers : ~Holds(w, g)
    BY <1>3 DEF Once
  <2>3. CASE queue' = queue
    BY <1>0, <1>1, <2>1, <2>3 DEF Once
  <2>4. CASE queue' = Append(queue, g)
    <3>1. NoRepeat(queue') /\ Range(queue') = Range(queue) \cup {g}
      BY <1>1, <1>3, <2>2, <2>4, AppendFacts DEF Once
    <3>. QED BY <1>0, <1>1, <1>3, <2>1, <2>2, <3>1 DEF Once
  <2>. QED BY <1>3, <2>3, <2>4 DEF Named, Duplicate, Enqueue, DropOnFull
<1>. QED BY <1>2, <1>3, NotificationCases DEF Named, Duplicate, Enqueue, DropOnFull

LEMMA ExpireOnce ==
  ASSUME TypeOK, Once, NEW g \in Sigs, Expire(g)
  PROVE  Once'
<1>1. g \notin Range(queue) /\ g \notin InHand /\ UNCHANGED <<queue, task>>
  BY DEF Expire, workers
<1>2. ASSUME NEW w \in Workers PROVE ~Holds(w, g)
  <2>1. Range(task[w]) \subseteq InHand
    BY DEF InHand
  <2>2. task[w] = <<g>> => Range(task[w]) = {g}
    BY TaskFacts
  <2>. QED BY <1>1, <2>1, <2>2 DEF Holds
<1>3. \A h \in Sigs \ {g} : entries'[h] = entries[h]
  BY DEF Expire, TypeOK
<1>4. Range(queue) \subseteq Sigs
  BY DEF TypeOK, Range
<1>5. \A w \in Workers, h \in Sigs : Holds(w, h)' <=> Holds(w, h)
  BY <1>1 DEF Holds
<1>. QED BY <1>1, <1>2, <1>3, <1>4, <1>5 DEF Once

LEMMA ReceiveOnce ==
  ASSUME TypeOK, Once, NEW w \in Workers, Receive(w)
  PROVE  Once'
<1> DEFINE g == Head(queue)
<1>1. queue \in Seq(Sigs) /\ queue # <<>> /\ queue' = Tail(queue) /\ entries' = entries
  BY DEF Receive, TypeOK
<1>2. /\ g \in Sigs /\ g \in Range(queue) /\ Range(queue') \subseteq Range(queue)
      /\ NoRepeat(queue') /\ g \notin Range(queue')
  BY <1>1, TailFacts DEF Once
<1>3. task' = [task EXCEPT ![w] = <<g>>] /\ task \in [Workers -> Tasks]
  BY DEF Receive, TypeOK, Tasks
<1>4. Range(queue) \subseteq Sigs
  BY <1>1 DEF Range
<1> HIDE DEF g
<1>5. \A v \in Workers, h \in Sigs : Holds(v, h)' => Holds(v, h) \/ (v = w /\ h = g)
  BY <1>2, <1>3, TaskFacts DEF Holds
<1>. QED BY <1>1, <1>2, <1>4, <1>5 DEF Once

LEMMA StepOnce == TypeOK /\ Once /\ [Next]_vars => Once'
<1> SUFFICES ASSUME TypeOK, Once, [Next]_vars PROVE Once'
  OBVIOUS
<1>1. ASSUME NEW w \in Workers, WorkerStep(w), ~Receive(w) PROVE Once'
  <2>1. \A v \in Workers : task'[v] = task[v] \/ task'[v] = <<>>
    BY <1>1 DEF WorkerStep, WorkerReturn, Check, Try, Ingest, Store, TypeOK
  <2>2. UNCHANGED <<queue, entries>>
    BY <1>1 DEF WorkerStep, WorkerReturn, Check, Try, Ingest, Store
  <2>. QED BY <2>1, <2>2, TasksEndOnce
<1>2. CASE IngestReturn \/ CancelContexts \/ UNCHANGED vars
  BY <1>2, TasksEndOnce DEF IngestReturn, CancelContexts, vars, workers
<1>. QED BY <1>1, <1>2, NotificationOnce, ExpireOnce, ReceiveOnce
         DEF Next, Shutdown, GroupCancel

\* The signature a worker has in hand.
LEMMA HasTask ==
  ASSUME TypeOK, NEW w \in Workers, pc[w] \notin {"select", "returned"}
  PROVE  \E g \in Sigs : Holds(w, g) /\ task[w][1] = g /\ Range(task[w]) = {g}
<1>1. task[w] # <<>> /\ task[w] \in Tasks
  BY DEF TypeOK, Tasks
<1>. QED BY <1>1, TaskFacts DEF Holds

\* No two workers fetch the same signature at a time, nor one that waits in the
\* queue again, for any number of workers and any interleaving of their steps
\* with IngestLoop's (alchemy_tx_enricher.go:107-114).
THEOREM SignatureFetchedByOne == Spec => []FetchedByOne
<1>1. TypeOK /\ Once => FetchedByOne
  <2> SUFFICES ASSUME TypeOK, Once,
                      NEW w \in Workers, pc[w] \in {"try", "ingest", "store"}
               PROVE  /\ task[w][1] \notin Range(queue)
                      /\ \A v \in Workers \ {w} : task[v] # task[w]
    BY DEF FetchedByOne
  <2>1. PICK g \in Sigs : Holds(w, g) /\ task[w][1] = g
    BY HasTask
  <2>. QED BY <2>1 DEF Once, Holds
<1>. QED BY <1>1, InitOnce, StepOnce, TypeCorrect, PTL DEF Spec

-----------------------------------------------------------------------------
(* Handed over at most once *)

\* A swap is handed over only for a signature that is not recorded yet, and once
\* it is the signature is recorded or about to be, by the worker that did it.
HandedOrStored ==
  /\ \A w \in Workers, g \in Sigs :
       Holds(w, g) /\ pc[w] \in {"try", "ingest"} => g \notin processed
  /\ \A g \in Sigs :
       \/ handed[g] = 0
       \/ /\ handed[g] = 1
          /\ g \in processed \/ \E w \in Workers : Holds(w, g) /\ pc[w] = "store"

LEMMA InitHanded == Init => HandedOrStored
BY DEF Init, HandedOrStored

\* Steps that record nothing, hand over nothing, and start no work on a task.
LEMMA QuietHanded ==
  ASSUME TypeOK, HandedOrStored, UNCHANGED <<processed, handed>>,
         \A w \in Workers :
           \/ pc'[w] = pc[w] /\ task'[w] = task[w]
           \/ pc[w] # "store" /\ pc'[w] \notin {"try", "ingest"}
  PROVE  HandedOrStored'
<1>1. ASSUME NEW w \in Workers, NEW g \in Sigs, Holds(w, g)', pc'[w] \in {"try", "ingest"}
      PROVE  g \notin processed'
  BY <1>1 DEF HandedOrStored, Holds
<1>2. ASSUME NEW w \in Workers, NEW g \in Sigs, Holds(w, g), pc[w] = "store"
      PROVE  Holds(w, g)' /\ pc'[w] = "store"
  BY <1>2 DEF Holds
<1>. QED BY <1>1, <1>2 DEF HandedOrStored

LEMMA CheckHanded ==
  ASSUME TypeOK, HandedOrStored, NEW w \in Workers, Check(w)
  PROVE  HandedOrStored'
<1>1. pc[w] = "check" /\ UNCHANGED <<processed, handed>>
  BY DEF Check
<1>2. CASE task' = [task EXCEPT ![w] = <<>>] /\ pc' = [pc EXCEPT ![w] = "select"]
  <2>1. \A v \in Workers : \/ pc'[v] = pc[v] /\ task'[v] = task[v]
                           \/ pc[v] # "store" /\ pc'[v] \notin {"try", "ingest"}
    BY <1>1, <1>2 DEF TypeOK
  <2>. QED BY <1>1, <2>1, QuietHanded
<1>3. CASE task[w][1] \notin processed /\ pc' = [pc EXCEPT ![w] = "try"] /\ task' = task
  <2>1. \A v \in Workers : pc'[v] = IF v = w THEN "try" ELSE pc[v]
    BY <1>3 DEF TypeOK
  <2>2. \A v \in Workers, g \in Sigs : Holds(v, g)' <=> Holds(v, g)
    BY <1>3 DEF Holds
  <2>3. \A g \in Sigs : Holds(w, g) => g \notin processed
    BY <1>3 DEF Holds
  <2>4. \A v \in Workers : pc[v] = "store" => pc'[v] = "store"
    BY <1>1, <2>1
  <2>. QED BY <1>1, <2>1, <2>2, <2>3, <2>4 DEF HandedOrStored
<1>. QED BY <1>2, <1>3 DEF Check

\* A try ends where it is, at the ingestion or at the record.
LEMMA TryHanded ==
  ASSUME TypeOK, HandedOrStored, NEW w \in Workers, Try(w)
  PROVE  HandedOrStored'
<1>1. /\ pc[w] = "try" /\ UNCHANGED <<processed, handed, task>>
      /\ \E step \in {"try", "ingest", "store"} : pc' = [pc EXCEPT ![w] = step]
  <2>1. pc = [pc EXCEPT ![w] = pc[w]]
    BY DEF TypeOK
  <2>. QED BY <2>1 DEF Try, Fail, AnotherAttempt, GiveUp
<1>2. \A v \in Workers : v # w => pc'[v] = pc[v]
  BY <1>1 DEF TypeOK
<1>3. \A v \in Workers, g \in Sigs : Holds(v, g)' <=> Holds(v, g)
  BY <1>1 DEF Holds
<1>4. \A v \in Workers : pc[v] = "store" => pc'[v] = "store"
  BY <1>1, <1>2
<1>5. \A v \in Workers : pc'[v] \in {"try", "ingest"} => pc[v] \in {"try", "ingest"}
  BY <1>1, <1>2
<1>. QED BY <1>1, <1>3, <1>4, <1>5 DEF HandedOrStored

LEMMA IngestHanded ==
  ASSUME TypeOK, Once, HandedOrStored, NEW w \in Workers, Ingest(w)
  PROVE  HandedOrStored'
<1>1. /\ pc[w] = "ingest" /\ pc' = [pc EXCEPT ![w] = "store"]
      /\ UNCHANGED <<processed, task>>
      /\ handed' = [handed EXCEPT ![task[w][1]] = @ + 1]
  BY DEF Ingest
<1>2. PICK g \in Sigs : Holds(w, g) /\ task[w][1] = g
  BY <1>1, HasTask
<1>3. g \notin processed /\ \A v \in Workers : Holds(v, g) => v = w
  BY <1>1, <1>2 DEF HandedOrStored, Once
<1>4. handed[g] = 0
  BY <1>1, <1>3 DEF HandedOrStored
<1>5. handed'[g] = 1 /\ \A h \in Sigs \ {g} : handed'[h] = handed[h]
  BY <1>1, <1>2, <1>4 DEF TypeOK
<1>6. \A v \in Workers : pc'[v] = IF v = w THEN "store" ELSE pc[v]
  BY <1>1 DEF TypeOK
<1>7. \A v \in Workers, h \in Sigs : Holds(v, h)' <=> Holds(v, h)
  BY <1>1 DEF Holds
<1>. QED BY <1>1, <1>2, <1>5, <1>6, <1>7 DEF HandedOrStored

LEMMA StoreHanded ==
  ASSUME TypeOK, Once, HandedOrStored, NEW w \in Workers, Store(w)
  PROVE  HandedOrStored'
<1>1. /\ pc[w] = "store" /\ pc' = [pc EXCEPT ![w] = "select"]
      /\ processed' = processed \cup Range(task[w]) /\ handed' = handed
      /\ task' = [task EXCEPT ![w] = <<>>]
  BY DEF Store
<1>2. PICK g \in Sigs : Holds(w, g) /\ Range(task[w]) = {g}
  BY <1>1, HasTask
<1>3. \A v \in Workers : pc'[v] = IF v = w THEN "select" ELSE pc[v]
  BY <1>1 DEF TypeOK
<1>4. \A v \in Workers : v # w => task'[v] = task[v]
  BY <1>1 DEF TypeOK
<1>5. \A v \in Workers, h \in Sigs : v # w => (Holds(v, h)' <=> Holds(v, h))
  BY <1>4 DEF Holds
<1>6. processed' = processed \cup {g} /\ \A h \in Sigs : Holds(w, h) => h = g
  BY <1>1, <1>2, TaskFacts DEF Holds
<1>7. \A v \in Workers : v # w => ~Holds(v, g)
  BY <1>2 DEF Once
<1>8. ASSUME NEW v \in Workers, NEW h \in Sigs, Holds(v, h)', pc'[v] \in {"try", "ingest"}
      PROVE  h \notin processed'
  <2>1. v # w /\ Holds(v, h) /\ pc[v] \in {"try", "ingest"}
    BY <1>3, <1>5, <1>8
  <2>2. h # g /\ h \notin processed
    BY <1>7, <2>1 DEF HandedOrStored
  <2>. QED BY <1>6, <2>2
<1>9. ASSUME NEW h \in Sigs, h \notin processed',
             NEW v \in Workers, Holds(v, h), pc[v] = "store"
      PROVE  Holds(v, h)' /\ pc'[v] = "store"
  BY <1>3, <1>5, <1>6, <1>9
<1>. QED BY <1>1, <1>6, <1>8, <1>9 DEF HandedOrStored

LEMMA StepHanded == TypeOK /\ Once /\ HandedOrStored /\ [Next]_vars => HandedOrStored'
<1> SUFFICES ASSUME TypeOK, Once, HandedOrStored, [Next]_vars PROVE HandedOrStored'
  OBVIOUS
<1>1. ASSUME NEW w \in Workers, Receive(w) \/ WorkerReturn(w) PROVE HandedOrStored'
  <2>1. UNCHANGED <<processed, handed>>
    BY <1>1 DEF Receive, WorkerReturn
  <2>2. \A v \in Workers : \/ pc'[v] = pc[v] /\ task'[v] = task[v]
                           \/ pc[v] # "store" /\ pc'[v] \notin {"try", "ingest"}
    BY <1>1 DEF Receive, WorkerReturn, TypeOK
  <2>. QED BY <2>1, <2>2, QuietHanded
<1>2. CASE \/ \E n \in Sigs \cup {NoSig} : ProcessNotification(n)
           \/ \E g \in Sigs : Expire(g)
           \/ IngestReturn \/ CancelContexts \/ UNCHANGED vars
  BY <1>2, QuietHanded
     DEF ProcessNotification, Expire, IngestReturn, CancelContexts, vars, workers
<1>. QED BY <1>1, <1>2, CheckHanded, TryHanded, IngestHanded, StoreHanded
         DEF Next, WorkerStep, Shutdown, GroupCancel

\* The swap of a signature is handed to the engine at most once, although the
\* record is looked up and written in two steps around the calls to the RPC node
\* and the cache may forget a signature and let it in again.
THEOREM SwapHandedOnce == Spec => []HandedOnce
<1>1. HandedOrStored => HandedOnce
  BY DEF HandedOrStored, HandedOnce
<1>. QED BY <1>1, InitOnce, StepOnce, InitHanded, StepHanded, TypeCorrect, PTL DEF Spec

-----------------------------------------------------------------------------
(* Every notification that names a signature is accounted for *)

\* The steps of a task that no counter has seen yet.
Uncounted == {"check", "try", "ingest"}

\* NotificationsAccounted with the count of workers as a number of its own.
Balance(workersBusy) ==
  named = dedupDrops + queueDrops + dedupHits + successes + failures
               + Len(queue) + workersBusy

LEMMA AccountedNamed ==
  /\ NotificationsAccounted <=> Balance(NumAt(pc, Workers, Uncounted))
  /\ NotificationsAccounted' <=> Balance(NumAt(pc, Workers, Uncounted))'
BY DEF NotificationsAccounted, Balance, NumAt, Uncounted

\* The numbers the balance is made of.
LEMMA Numbers ==
  ASSUME TypeOK
  PROVE  /\ named \in Nat /\ dedupDrops \in Nat /\ queueDrops \in Nat
         /\ dedupHits \in Nat /\ successes \in Nat /\ failures \in Nat
         /\ Len(queue) \in Nat
<1>1. queue \in Seq(Sigs) /\ named \in Nat
  BY EnrichmentAssumption DEF TypeOK
<1>2. Len(queue) \in Nat
  BY <1>1
<1>. QED BY <1>1, <1>2 DEF TypeOK

LEMMA BusyChange ==
  ASSUME TypeOK, NEW w \in Workers, NEW step \in WorkerSteps,
         pc' = [pc EXCEPT ![w] = step]
  PROVE  /\ NumAt(pc, Workers, Uncounted) \in Nat
         /\ NumAt(pc', Workers, Uncounted)
              = NumAt(pc, Workers, Uncounted) - Bit(pc[w], Uncounted) + Bit(step, Uncounted)
<1>1. pc \in [Workers -> WorkerSteps]
  BY DEF TypeOK, WorkerSteps
<1>2. IsFiniteSet(Workers)
  BY EnrichmentAssumption
<1>3. Moves(pc, [pc EXCEPT ![w] = step], Workers, pc[w], step)
  BY <1>1, <1>2, MovesOne
<1>. QED BY <1>3 DEF Moves

LEMMA InitAccounted == Init => NotificationsAccounted
<1> SUFFICES ASSUME Init PROVE NotificationsAccounted
  OBVIOUS
<1>1. NumAt(pc, Workers, Uncounted) = 0
  <2>1. {w \in Workers : pc[w] \in Uncounted} = {}
    BY DEF Init, Uncounted
  <2>. QED BY <2>1, FS_EmptySet DEF NumAt
<1>2. Len(queue) = 0
  BY DEF Init
<1>3. Balance(0)
  BY <1>2 DEF Init, Balance
<1>. QED BY <1>1, <1>3, AccountedNamed

\* A notification that names a signature is a duplicate, is lost to a full queue
\* or waits in it.
LEMMA NamedAccounted ==
  ASSUME TypeOK, NotificationsAccounted, NEW g \in Sigs, ProcessNotification(g), Named(g)
  PROVE  NotificationsAccounted'
<1> DEFINE n == NumAt(pc, Workers, Uncounted)
           length == Len(queue)
           lengthNext == Len(queue')
<1>1. Balance(n) /\ pc' = pc
  BY AccountedNamed DEF ProcessNotification, workers
<1>2. queue \in Seq(Sigs)
  BY DEF TypeOK
<1>3. Len(Append(queue, g)) = Len(queue) + 1
  BY <1>2, AppendFacts
<1>4. n \in Nat
  <2>1. {w \in Workers : pc[w] \in Uncounted} \subseteq Workers
    OBVIOUS
  <2>. QED BY <2>1, EnrichmentAssumption, FS_Subset, FS_CardinalityType DEF NumAt
<1>5. /\ named \in Nat /\ dedupDrops \in Nat /\ queueDrops \in Nat /\ dedupHits \in Nat
      /\ successes \in Nat /\ failures \in Nat /\ length \in Nat
  BY Numbers
<1>6. /\ named' = named + 1 /\ UNCHANGED <<dedupHits, successes, failures>>
      /\ named = dedupDrops + queueDrops + dedupHits + successes + failures + length + n
  BY <1>1 DEF ProcessNotification, Named, Balance
<1>7. \/ dedupDrops' = dedupDrops + 1 /\ queueDrops' = queueDrops /\ lengthNext = length
      \/ dedupDrops' = dedupDrops /\ queueDrops' = queueDrops + 1 /\ lengthNext = length
      \/ dedupDrops' = dedupDrops /\ queueDrops' = queueDrops /\ lengthNext = length + 1
  BY <1>3 DEF Named, Duplicate, Enqueue, DropOnFull
<1> HIDE DEF n, length, lengthNext
<1>8. named' = dedupDrops' + queueDrops' + dedupHits' + successes' + failures'
                    + lengthNext + n
  BY <1>4, <1>5, <1>6, <1>7
<1>. QED BY <1>1, <1>8, AccountedNamed DEF Balance, n, lengthNext

\* One that names none leaves all of it alone.
LEMMA NotificationAccounted ==
  ASSUME TypeOK, NotificationsAccounted,
         NEW n \in Sigs \cup {NoSig}, ProcessNotification(n)
  PROVE  NotificationsAccounted'
<1>1. CASE n \in Sigs /\ Named(n)
  BY <1>1, NamedAccounted
<1>2. CASE UNCHANGED <<named, queue, dedupDrops, queueDrops>>
  BY <1>2 DEF ProcessNotification, workers, NotificationsAccounted
<1>. QED BY <1>1, <1>2, NotificationCases

\* Three counters can be added up first.
LEMMA ThreeAdd ==
  \A a, b, c \in Nat : /\ a + b + c \in Nat
                       /\ \A d, e \in Nat, f \in Nat, g \in Int :
                            d + e + a + b + c + f + g = d + e + (a + b + c) + f + g
OBVIOUS

\* A worker's step takes a task out of the queue, or one of the counters up as the
\* task leaves the uncounted steps, or neither.
LEMMA WorkerAccounted ==
  ASSUME TypeOK, NotificationsAccounted, NEW w \in Workers, WorkerStep(w)
  PROVE  NotificationsAccounted'
<1> DEFINE n == NumAt(pc, Workers, Uncounted)
           next == NumAt(pc', Workers, Uncounted)
           counted == dedupHits + successes + failures
           countedNext == dedupHits' + successes' + failures'
           length == Len(queue)
           lengthNext == Len(queue')
<1>0. /\ named = dedupDrops + queueDrops + dedupHits + successes + failures + length + n
      /\ UNCHANGED <<named, dedupDrops, queueDrops>>
  BY AccountedNamed
     DEF Balance, WorkerStep, Receive, WorkerReturn, Check, Try, Ingest, Store, counters, received
<1>1. ASSUME NEW step \in WorkerSteps, pc' = [pc EXCEPT ![w] = step],
             \/ /\ lengthNext = length - 1 /\ countedNext = counted
                /\ pc[w] \notin Uncounted /\ step \in Uncounted
             \/ /\ lengthNext = length /\ countedNext = counted + 1
                /\ pc[w] \in Uncounted /\ step \notin Uncounted
             \/ /\ lengthNext = length /\ countedNext = counted
                /\ pc[w] \in Uncounted <=> step \in Uncounted,
             dedupHits' \in Nat, successes' \in Nat, failures' \in Nat, lengthNext \in Nat
      PROVE  NotificationsAccounted'
  <2>1. n \in Nat /\ next = n - Bit(pc[w], Uncounted) + Bit(step, Uncounted)
    BY <1>1, BusyChange
  <2>2. \/ lengthNext = length - 1 /\ countedNext = counted /\ next = n + 1
        \/ lengthNext = length /\ countedNext = counted + 1 /\ next = n - 1
        \/ lengthNext = length /\ countedNext = counted /\ next = n
    BY <1>1, <2>1 DEF Bit
  <2>3. /\ named \in Nat /\ dedupDrops \in Nat /\ queueDrops \in Nat /\ dedupHits \in Nat
        /\ successes \in Nat /\ failures \in Nat /\ length \in Nat
    BY Numbers
  <2> HIDE DEF n, next, length, lengthNext
  <2>4. named' = dedupDrops' + queueDrops' + dedupHits' + successes' + failures'
                      + lengthNext + next
    <3>1. named' = named /\ dedupDrops' = dedupDrops /\ queueDrops' = queueDrops
      BY <1>0
    <3>2. named = dedupDrops + queueDrops + counted + length + n
      BY <1>0, <2>1, <2>3
    <3>3. counted \in Nat /\ countedNext \in Nat
      BY <1>1, <2>3, ThreeAdd
    <3>4. dedupDrops + queueDrops + dedupHits' + successes' + failures' + lengthNext + next
            = dedupDrops + queueDrops + countedNext + lengthNext + next
      <4>1. next \in Int /\ lengthNext \in Nat
        BY <1>1, <2>1, <2>2
      <4>. QED BY <1>1, <2>3, <4>1, ThreeAdd
    <3> HIDE DEF counted, countedNext
    <3>5. named = dedupDrops + queueDrops + countedNext + lengthNext + next
      BY <2>1, <2>2, <2>3, <3>2, <3>3
    <3>. QED BY <3>1, <3>4, <3>5
  <2>. QED BY <2>4, AccountedNamed DEF Balance, next, lengthNext
<1>2. pc[w] \in WorkerSteps /\ pc = [pc EXCEPT ![w] = pc[w]]
  BY DEF TypeOK, WorkerSteps
<1>3. TypeOK'
  BY StepTypeOK DEF Next
<1>4. dedupHits' \in Nat /\ successes' \in Nat /\ failures' \in Nat /\ Len(queue') \in Nat
  <2>1. queue' \in Seq(Sigs)
    BY <1>3 DEF TypeOK
  <2>2. Len(queue') \in Nat
    BY <2>1
  <2>. QED BY <1>3, <2>2 DEF TypeOK
<1>5. CASE Receive(w)
  <2>1. queue \in Seq(Sigs) /\ queue # <<>> /\ queue' = Tail(queue)
    BY <1>5 DEF Receive, TypeOK
  <2>2. Len(queue') = Len(queue) - 1
    BY <2>1, TailFacts
  <2>. QED BY <1>1, <1>4, <1>5, <2>2 DEF Receive, counters, Uncounted, WorkerSteps
<1>6. CASE WorkerReturn(w) \/ Store(w)
  BY <1>1, <1>4, <1>6 DEF WorkerReturn, Store, counters, Uncounted, WorkerSteps
<1>7. CASE Check(w)
  BY <1>1, <1>4, <1>7, Numbers DEF Check, Uncounted, WorkerSteps
<1>8. CASE Try(w)
  BY <1>1, <1>2, <1>4, <1>8, Numbers
     DEF Try, Fail, AnotherAttempt, GiveUp, Uncounted, WorkerSteps
<1>9. CASE Ingest(w)
  BY <1>1, <1>4, <1>9, Numbers DEF Ingest, Uncounted, WorkerSteps
<1>. QED BY <1>5, <1>6, <1>7, <1>8, <1>9 DEF WorkerStep

\* Every notification that names a signature ends in exactly one counter of the
\* ingestor or of the enricher, or is still queued or in a worker's hands: none of
\* them is lost unseen and none is counted twice, for any number of workers.
THEOREM Accounted == Spec => []NotificationsAccounted
<1>1. TypeOK /\ NotificationsAccounted /\ [Next]_vars => NotificationsAccounted'
  <2> SUFFICES ASSUME TypeOK, NotificationsAccounted, [Next]_vars
               PROVE  NotificationsAccounted'
    OBVIOUS
  <2>1. CASE \/ \E g \in Sigs : Expire(g)
             \/ IngestReturn \/ CancelContexts \/ UNCHANGED vars
    BY <2>1 DEF Expire, IngestReturn, CancelContexts, vars, workers, counters, received,
                NotificationsAccounted
  <2>. QED BY <2>1, NotificationAccounted, WorkerAccounted DEF Next, Shutdown, GroupCancel
<1>. QED BY <1>1, InitAccounted, TypeCorrect, PTL DEF Spec
=============================================================================
