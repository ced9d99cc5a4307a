----------------------------- MODULE Enrichment -----------------------------
(***************************************************************************)
(* The Alchemy side path between the WebSocket and the engine: IngestLoop  *)
(* and ProcessNotification with the dedup cache (ws/alchemy_ingestor.go),  *)
(* the bounded task queue, and the enrichment workers with their retries   *)
(* and their own record of processed signatures                            *)
(* (enrichment/alchemy_tx_enricher.go).                                    *)
(*                                                                         *)
(* A transaction is notified once per subscribed program it mentions, so   *)
(* repeated signatures are the normal case.  One goroutine runs            *)
(* IngestLoop and only it touches the cache; the workers run concurrently. *)
(***************************************************************************)
EXTENDS Integers, Sequences, FiniteSets, Functions

CONSTANTS
  Sigs,          \* transaction signatures
  NoSig,         \* what a message names that has no value or an empty signature
  Workers,       \* the MaxWorkers goroutines of EnrichLoop
  QueueSize,     \* capacity of Ingestor.enrichmentQueue
  Retries,       \* AlchemyTxEnricherConfig.Retries
  MaxNotifs      \* bound: messages ProcessNotification is given in a behaviour

ASSUME EnrichmentAssumption ==
  /\ IsFiniteSet(Sigs) /\ IsFiniteSet(Workers)
  /\ NoSig \notin Sigs
  /\ QueueSize \in Nat \ {0}
  /\ Retries \in Nat \ {0}
  /\ MaxNotifs \in Nat

VARIABLES
  ingesting,   \* IngestLoop has not returned
  notified,    \* history: messages ProcessNotification was given
  named,       \* history: those of them that named a signature
  entries,     \* DedupCache.entries: "absent", "live" or "expired"
  queue,       \* Ingestor.enrichmentQueue
  pc,          \* worker: "select", "check", "try", "ingest", "store", "returned"
  task,        \* worker: the signature in hand, <<>> or <<sig>>
  attempt,     \* worker: attempt of getTransactionWithRetry
  processed,   \* AlchemyTxEnricher.processedSigs
  cancelled,   \* ingestCtx and enrichCtx are done
  dedupDrops, queueDrops,               \* Ingestor counters
  successes, failures, dedupHits,       \* AlchemyTxEnricher counters
  handed,      \* history: swaps handed to IngestSwapInfo, per signature
  accepted     \* history: swaps IngestSwapInfo let through its validation

counters == <<dedupDrops, queueDrops, successes, failures, dedupHits>>
workers == <<pc, task, attempt, processed, handed, accepted>>
received == <<notified, named>>
vars == <<ingesting, received, entries, queue, workers, cancelled, counters>>

Init ==
  /\ ingesting = TRUE
  /\ notified = 0 /\ named = 0
  /\ entries = [g \in Sigs |-> "absent"]
  /\ queue = <<>>
  /\ pc = [w \in Workers |-> "select"]
  /\ task = [w \in Workers |-> <<>>]
  /\ attempt = [w \in Workers |-> 0]
  /\ processed = {}
  /\ cancelled = FALSE
  /\ dedupDrops = 0 /\ queueDrops = 0
  /\ successes = 0 /\ failures = 0 /\ dedupHits = 0
  /\ handed = [g \in Sigs |-> 0]
  /\ accepted = 0

-----------------------------------------------------------------------------
(* IngestLoop and ProcessNotification *)

\* IsDuplicate on a miss: the signature is stored and every other entry whose
\* time is over is deleted.
Remembered(sig) ==
  [g \in Sigs |-> IF g = sig THEN "live"
                  ELSE IF entries[g] = "expired" THEN "absent" ELSE entries[g]]

Duplicate(sig) ==
  /\ entries[sig] = "live"
  /\ dedupDrops' = dedupDrops + 1
  /\ UNCHANGED <<entries, queue, queueDrops>>

Enqueue(sig) ==
  /\ entries[sig] # "live"
  /\ entries' = Remembered(sig)
  /\ Len(queue) < QueueSize
  /\ queue' = Append(queue, sig)
  /\ UNCHANGED <<dedupDrops, queueDrops>>

\* The queue is full: the notification is lost and its signature remembered.
DropOnFull(sig) ==
  /\ entries[sig] # "live"
  /\ entries' = Remembered(sig)
  /\ Len(queue) >= QueueSize
  /\ queueDrops' = queueDrops + 1
  /\ UNCHANGED <<queue, dedupDrops>>

\* A message without params, result or value, as the answer to a subscription
\* is, or with an empty signature: it is not remembered, queued or counted.
Nameless(n) ==
  /\ n = NoSig
  /\ UNCHANGED <<named, entries, queue, dedupDrops, queueDrops>>

Named(n) ==
  /\ n # NoSig
  /\ named' = named + 1
  /\ Duplicate(n) \/ Enqueue(n) \/ DropOnFull(n)

ProcessNotification(n) ==
  /\ ingesting
  /\ notified < MaxNotifs
  /\ notified' = notified + 1
  /\ Nameless(n) \/ Named(n)
  /\ UNCHANGED <<ingesting, workers, cancelled, successes, failures, dedupHits>>

\* IngestLoop returns because its context is done, or with an error because
\* ReadLoop has closed the notification channel.
IngestReturn ==
  /\ ingesting
  /\ ingesting' = FALSE
  /\ UNCHANGED <<received, entries, queue, workers, cancelled, counters>>

\* The tasks taken from the queue and not yet recorded as processed.
InHand == UNION {Range(task[w]) : w \in Workers}

\* Bug: a time to live shorter than a task can wait for its worker.
ExpireEarly(sig) ==
  /\ entries[sig] = "live"
  /\ entries' = [entries EXCEPT ![sig] = "expired"]
  /\ UNCHANGED <<ingesting, received, queue, workers, cancelled, counters>>

\* DedupTTL passes for an entry.  It outlives the task of the signature: 2048
\* queued tasks of at most 15.3 s each on five workers take less than 1h45 of
\* the two hours main configures.
Expire(sig) ==
  /\ entries[sig] = "live"
  /\ sig \notin Range(queue) \cup InHand
  /\ entries' = [entries EXCEPT ![sig] = "expired"]
  /\ UNCHANGED <<ingesting, received, queue, workers, cancelled, counters>>

-----------------------------------------------------------------------------
(* AlchemyTxEnricher.worker *)

Receive(w) ==
  /\ pc[w] = "select"
  /\ queue # <<>>
  /\ task' = [task EXCEPT ![w] = <<Head(queue)>>]
  /\ queue' = Tail(queue)
  /\ pc' = [pc EXCEPT ![w] = "check"]
  /\ UNCHANGED <<ingesting, received, entries, attempt, processed, handed, accepted,
                 cancelled, counters>>

\* case <-ctx.Done(), which Go may or may not choose while tasks are queued.
WorkerReturn(w) ==
  /\ pc[w] = "select"
  /\ cancelled
  /\ pc' = [pc EXCEPT ![w] = "returned"]
  /\ UNCHANGED <<ingesting, received, entries, queue, task, attempt, processed, handed,
                 accepted, cancelled, counters>>

\* Bug: the record of processed signatures is not consulted.
CheckNothing(w) ==
  /\ pc[w] = "check"
  /\ pc' = [pc EXCEPT ![w] = "try"]
  /\ attempt' = [attempt EXCEPT ![w] = 0]
  /\ UNCHANGED <<ingesting, received, entries, queue, task, processed, handed, accepted,
                 cancelled, counters>>

\* processedSigs.Load
Check(w) ==
  /\ pc[w] = "check"
  /\ \/ /\ task[w][1] \in processed
        /\ dedupHits' = dedupHits + 1
        /\ task' = [task EXCEPT ![w] = <<>>]
        /\ pc' = [pc EXCEPT ![w] = "select"]
        /\ UNCHANGED attempt
     \/ /\ task[w][1] \notin processed
        /\ pc' = [pc EXCEPT ![w] = "try"]
        /\ attempt' = [attempt EXCEPT ![w] = 0]
        /\ UNCHANGED <<dedupHits, task>>
  /\ UNCHANGED <<ingesting, received, entries, queue, processed, handed, accepted, cancelled,
                 dedupDrops, queueDrops, successes, failures>>

Fail(w) ==
  /\ failures' = failures + 1
  /\ pc' = [pc EXCEPT ![w] = "store"]
  /\ UNCHANGED attempt

\* Bug: one attempt too many.
OneAttemptTooMany(w) ==
  /\ attempt[w] < Retries
  /\ attempt' = [attempt EXCEPT ![w] = @ + 1]
  /\ UNCHANGED <<pc, failures>>

\* getTransaction failed: the next attempt, or the error after the last one.
AnotherAttempt(w) ==
  /\ attempt[w] + 1 < Retries
  /\ attempt' = [attempt EXCEPT ![w] = @ + 1]
  /\ UNCHANGED <<pc, failures>>

\* Bug: the count of attempts starts again after the last one.
GiveUpNever(w) ==
  /\ attempt[w] + 1 >= Retries
  /\ attempt' = [attempt EXCEPT ![w] = 0]
  /\ UNCHANGED <<pc, failures>>

GiveUp(w) ==
  /\ attempt[w] + 1 >= Retries
  /\ Fail(w)

\* One turn of the loop of getTransactionWithRetry and, when it ends, the rest
\* of processTask up to the call of IngestSwapInfo.  Once the context is done
\* every attempt ends with an error, the first of a task included.
Try(w) ==
  /\ pc[w] = "try"
  /\ \/ /\ cancelled
        /\ Fail(w)
     \/ AnotherAttempt(w)
     \/ GiveUp(w)
     \/ \* a transaction without metadata, or without a swap in its balances
        Fail(w)
     \/ /\ pc' = [pc EXCEPT ![w] = "ingest"]
        /\ UNCHANGED <<attempt, failures>>
  /\ UNCHANGED <<ingesting, received, entries, queue, task, processed, handed, accepted,
                 cancelled, dedupDrops, queueDrops, successes, dedupHits>>

\* The Timestamp of the SwapInfo that extractSwapInfo builds: it is not set.
ExtractedTimestamp == 0

\* What the validation of IngestSwapInfo asks of the timestamp.
Acceptable(timestamp) == timestamp > 0

\* Bug: a swap the engine rejects is counted nowhere.
IngestCountAccepted(w) ==
  /\ pc[w] = "ingest"
  /\ handed' = [handed EXCEPT ![task[w][1]] = @ + 1]
  /\ IF Acceptable(ExtractedTimestamp)
       THEN accepted' = accepted + 1 /\ successes' = successes + 1
       ELSE UNCHANGED <<accepted, successes>>
  /\ pc' = [pc EXCEPT ![w] = "store"]
  /\ UNCHANGED <<ingesting, received, entries, queue, task, attempt, processed, cancelled,
                 dedupDrops, queueDrops, failures, dedupHits>>

\* engine.IngestSwapInfo(swapInfo), its result ignored, and the success count.
Ingest(w) ==
  /\ pc[w] = "ingest"
  /\ handed' = [handed EXCEPT ![task[w][1]] = @ + 1]
  /\ accepted' = IF Acceptable(ExtractedTimestamp) THEN accepted + 1 ELSE accepted
  /\ successes' = successes + 1
  /\ pc' = [pc EXCEPT ![w] = "store"]
  /\ UNCHANGED <<ingesting, received, entries, queue, task, attempt, processed, cancelled,
                 dedupDrops, queueDrops, failures, dedupHits>>

\* processedSigs.Store, after a failure as well as after a success.
Store(w) ==
  /\ pc[w] = "store"
  /\ processed' = processed \cup Range(task[w])
  /\ task' = [task EXCEPT ![w] = <<>>]
  /\ pc' = [pc EXCEPT ![w] = "select"]
  /\ UNCHANGED <<ingesting, received, entries, queue, attempt, handed, accepted, cancelled,
                 counters>>

CancelContexts ==
  /\ ~cancelled
  /\ cancelled' = TRUE
  /\ UNCHANGED <<ingesting, received, entries, queue, workers, counters>>

\* A signal: main calls the cancel functions.
Shutdown == CancelContexts

\* Bug: a group without a context, whose members do not know of each other.
GroupCancelNever == FALSE

\* The errgroup cancels egCtx when IngestLoop has returned its error.
GroupCancel == ~ingesting /\ CancelContexts

-----------------------------------------------------------------------------
WorkerStep(w) ==
  Receive(w) \/ WorkerReturn(w) \/ Check(w) \/ Try(w) \/ Ingest(w) \/ Store(w)

Next ==
  \/ \E n \in Sigs \cup {NoSig} : ProcessNotification(n)
  \/ \E g \in Sigs : Expire(g)
  \/ IngestReturn
  \/ \E w \in Workers : WorkerStep(w)
  \/ Shutdown
  \/ GroupCancel

Spec == Init /\ [][Next]_vars

\* Workers are goroutines whose calls all time out; a select that finds two
\* cases ready over and over chooses each of them in the end.
FairSpec ==
  /\ Spec
  /\ WF_vars(cancelled /\ IngestReturn) /\ WF_vars(GroupCancel)
  /\ \A w \in Workers : WF_vars(WorkerStep(w)) /\ SF_vars(WorkerReturn(w))

-----------------------------------------------------------------------------
(* Properties *)

\* Type invariant of the pipeline (Ingestor and AlchemyTxEnricher).
TypeOK ==
  /\ ingesting \in BOOLEAN /\ cancelled \in BOOLEAN
  /\ notified \in 0 .. MaxNotifs /\ named \in 0 .. notified
  /\ entries \in [Sigs -> {"absent", "live", "expired"}]
  /\ queue \in Seq(Sigs) /\ Len(queue) <= QueueSize
  /\ pc \in [Workers -> {"select", "check", "try", "ingest", "store", "returned"}]
  /\ task \in [Workers -> {<<>>} \cup {<<g>> : g \in Sigs}]
  /\ \A w \in Workers : task[w] = <<>> <=> pc[w] \in {"select", "returned"}
  /\ attempt \in [Workers -> 0 .. Retries - 1]
  /\ processed \subseteq Sigs
  /\ dedupDrops \in Nat /\ queueDrops \in Nat
  /\ successes \in Nat /\ failures \in Nat /\ dedupHits \in Nat
  /\ handed \in [Sigs -> Nat]
  /\ accepted \in Nat

\* However often a signature is notified, and although a worker looks it up
\* (line 107) and records it (line 114) in two steps around the RPC calls, its
\* swap is handed to the engine at most once.
HandedOnce == \A g \in Sigs : handed[g] <= 1

\* The reason: no two workers fetch one signature at a time, nor does a worker
\* fetch one that is queued again.
FetchedByOne ==
  \A w \in Workers : pc[w] \in {"try", "ingest", "store"} =>
    /\ task[w][1] \notin Range(queue)
    /\ \A v \in Workers \ {w} : task[v] # task[w]

\* Every notification that names a signature is counted exactly once at the point
\* where it ends, or is still queued or in a worker's hands.  Those that name none
\* are counted nowhere (alchemy_ingestor.go:155-162).
NotificationsAccounted ==
  named = dedupDrops + queueDrops + dedupHits + successes + failures
               + Len(queue)
               + Cardinality({w \in Workers : pc[w] \in {"check", "try", "ingest"}})

\* A signature the cache remembers has been queued for enrichment.
RememberedWasQueued ==
  \A g \in Sigs : entries[g] = "live" => g \in processed \cup Range(queue) \cup InHand

\* Every swap the enricher counts as a success has entered the engine.
SuccessIsAccepted == accepted = successes

\* A queued task ends however often the RPC fails, unless the workers have
\* been cancelled.
QueuedIsSettled ==
  \A g \in Sigs : g \in Range(queue) ~> g \in processed \/ cancelled

\* When the context is cancelled, or IngestLoop has failed, EnrichLoop returns:
\* every worker does, also one between two attempts, although the queue may
\* still hold tasks and is never closed.
WorkersStop ==
  cancelled \/ ~ingesting ~> \A w \in Workers : pc[w] = "returned"
=============================================================================
