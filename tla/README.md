# A TLA+ verification project for sol-whisperer

sol-whisperer watches Solana swaps for meme tokens whose traded volume jumps and
reports them to a Telegram chat. Swaps arrive on two paths: a webhook (Helius), and
optionally an Alchemy WebSocket whose notifications are enriched by RPC calls. Both
end in one in-memory engine that keeps a rolling window per token and raises alerts.

The modules in this directory model that program from its Go source: the parts where
goroutines, bounded channels, caches and counters meet, and the arithmetic of the
detector. TLC checks them on small instances; theorems checked by TLAPS hold for
every value of the constants. `PROJECT.json` maps every definition to the lines it
stands for.

Paths below are relative to `src/core/internal/` unless they begin with `src/`.

## 1. Inventory

### 1.1 Components, their state and their operations

| component | state | operations | status |
|---|---|---|---|
| Spike detector, `processor/processor.go` (`shardState`, `mintWindow`) | per mint: ring of volume and count slots, running totals, last second, EWMA, last alert second | `process`, `advance` | `MintWindow`, `SlidingWindow` |
| Engine, `processor/processor.go` (`Engine`) | one bounded channel per shard, the bounded alert channel, six atomic counters | `New`, `IngestSwapInfo`, `runShard`, `enqueueAlert`, `runAlertWorker`, `Stats` | `Engine`, `MintStreams` |
| Telegram sink, `alert/telegram.go` | none but its configuration (possibly a nil pointer) | `Send` | outcomes in `Engine` |
| Metadata fetcher, `metadata/fetcher.go` | Jupiter cache behind an atomic pointer, DexScreener `sync.Map` with a 24 h limit, a context | `FetchTokenMetadata`, `upsertJupiterCache`, `fetchFromDexScreener`, `Stop` | `Metadata` |
| Swap detector, `detector/detector.go`, and cap filter, `filter/marketcap.go` | none | `ExtractSwapInfoWithOptions`, `pick…ForSwapper`, `IsAllowed`; `DetectProgramsFromInstructions` | `Detector`, without the program scan |
| Webhook handler, `handler/webhook.go` | the request in progress, `acceptedCount` | `WebHookHandler` | `Webhook` |
| Alchemy ingestor, `ws/alchemy_ingestor.go` | dedup cache, enrichment queue, two drop counters | `ProcessNotification`, `IsDuplicate`, `IngestLoop` | `Enrichment` |
| Alchemy enricher, `enrichment/alchemy_tx_enricher.go` | processed signatures, four counters | `EnrichLoop`, `worker`, `processTask`, `getTransactionWithRetry`; `extractSwapInfo` | `Enrichment`, `Balances` |
| Alchemy client, `ws/alchemy_client.go` | connection, `isConnected`, subscriptions, notification channel, circuit breaker | `Connect`, `Disconnect`, `Subscribe`, `ReadLoop`, `ReconnectWithBackoff`, `Stop` | `AlchemyClient`, `NotificationStream` |
| Wiring and shutdown, `src/core/cmd/main.go` | cancel functions, errgroup | `main` | `Service`; its contexts also in `Enrichment` |
| pprof server, payload types, program tables | none | none | not modelled |

### 1.2 How they interact

* Webhook requests run in goroutines of the HTTP server. Each transaction goes
  through the detector, which may call the fetcher (and wait two seconds), and then
  into `Engine.IngestSwapInfo`, which never waits.
* Enrichment workers call `IngestSwapInfo` as well. They share nothing with the
  webhook path but the engine.
* A shard goroutine owns the windows of its mints without a lock, which is sound only
  because routing is by mint. It hands alerts to the alert channel without waiting.
* The alert worker asks the fetcher for the token's name and calls the sink. Fetcher
  calls of the worker and of the requests run concurrently on the same caches.
* `IngestLoop` subscribes program by program and then starts `ReadLoop`, the only reader
  of the connection from then on. `ReadLoop` hands notifications over through a bounded
  channel, waits while it is full and closes it when it returns, which ends `IngestLoop`.
  Nothing reconnects: `ReconnectWithBackoff` and `Stop` have no caller.
* `IngestLoop`, `EnrichLoop` and the metrics loop form an errgroup: the error of one
  cancels the contexts of the others. A signal cancels them too; `main` then waits
  for the group, stops the fetcher and shuts the HTTP server down, in this order.

### 1.3 What is hard, and what must hold

The complete list, with lines, is `hazards` in `PROJECT.json`. By component:

* **Window.** Out-of-order and late trades, a ring indexed by time, unsigned counters
  that wrap, an EWMA that already contains the trade it judges. It must count exactly
  the trades of the last `WindowSec` seconds, keep alerts a cooldown apart, and its
  totals must agree with its slots.
* **Engine.** Callers, shards and the worker interleave around channel operations and
  separate counter updates; channels fill up; the sink fails, answers late or hangs.
  Nothing may be lost, repeated or reordered except where a counter says so, and a
  slow sink must not stop the shards.
* **Metadata.** Unlocked read-modify-write of caches, requests that answer for another
  token, goroutines left behind, `Stop` during a call.
* **Detector and webhook.** Thresholds, missing and unreadable fields, a variable
  (`AmountInSOL`) assigned on two sides; one transaction that fails among many.
* **Enrichment.** Repeated notifications meet a cache that forgets, a bounded queue, and
  workers whose check and record of a signature are two steps; errors, retries and
  cancellation. A signature must be enriched at most once and workers must stop.
* **Alchemy client.** Subscription answers are read from the connection notifications
  arrive on, and no id is compared; a full channel whose receiver has gone. (If the
  program called `ReconnectWithBackoff`, a read could also fail on a connection that has
  been replaced meanwhile.) An id must belong to its
  program, notifications must reach `IngestLoop` in order and without a gap, and a
  cancelled reader must give its connection back.
* **Service.** `main` joins the group before it stops anything else. A signal must end the
  process wherever the goroutines are, and a lost connection must end the whole path
  rather than leave goroutines waiting.
* **Balances.** The swap is guessed from balance lists with several accounts per owner and
  mint, closed accounts and maps without an order. The guess must be right at least when
  the lists show every change, and must depend on the map order only for ties.

## 2. The modules

| module | what it is | composes |
|---|---|---|
| `MintWindow` | the window of one mint: `process` and `advance` as one action | |
| `SlidingWindow` | abstract: a table of the last `WindowSec` seconds and alerts that report it | implemented by `MintWindow` |
| `Engine` | callers, shards, alert worker, channels, counters | |
| `MintStreams` | abstract: per-mint streams, processed in order, and an outbox | implemented by `Engine` |
| `Selection` | the elements of a sequence that lie in a set; used by the refinement mappings | |
| `FoldLemmas` | lemmas about the fold `SumFunctionOnSet`, counting, `Select`, and sequences without repetition | extends `Selection` |
| `EngineProofs` | theorems about `Engine`: its invariants, and that it implements `MintStreams` | extends `Engine`, `FoldLemmas` |
| `MintWindowProofs` | theorems about `MintWindow`: its properties, and that it implements `SlidingWindow` | extends `MintWindow`, `FoldLemmas` |
| `Metadata` | fetcher with concurrent callers | |
| `MetadataProofs` | theorems about `Metadata`: types, truth of the cache, goroutines left behind | extends `Metadata`, `FoldLemmas` |
| `Detector` | the transactions, the detector and the cap filter as pure operators | |
| `Webhook` | one request | extends `Detector` |
| `WebhookProofs` | theorems about `Webhook`, and lemmas about what the detector picks and lets through | extends `Webhook` |
| `Enrichment` | ingestor, queue and workers | |
| `EnrichmentProofs` | theorems about `Enrichment`: types, one worker per signature, the account of notifications | extends `Enrichment`, `FoldLemmas` |
| `Balances` | `extractSwapInfo`: the result as a set of possible answers | |
| `BalancesProofs` | theorems about `Balances` | extends `Balances`, `FoldLemmas` |
| `AlchemyClient` | the client, `IngestLoop`, the server and the network | |
| `NotificationStream` | abstract: a stream that is received in order and loses only its end | implemented by `AlchemyClient` |
| `AlchemyClientProofs` | theorems about `AlchemyClient`: its invariants, and that it implements `NotificationStream`; that `Service` runs the client, and its shutdown | extends `Service`, `FoldLemmas` |
| `Service` | `main`, the group and the webhook server around the client | extends `AlchemyClient` |
| `MC…` | small instances for TLC | extend the module of that name |

### 2.1 MintWindow and SlidingWindow

`Process(ts, amt)` is all of `shardState.process`: the lookup in `byMint` (`StandsAt`),
`advance` (`Expired`, `Cleared`, `Remaining`, `NewLastSec`), the slot update, the EWMA
(`BlendedNum / BlendedDen`), the thresholds (`Fires`) and the new `lastAlertSec`. A
shard is a product of independent windows, so one mint is enough. `alerts`, `counted`
and `trades` are history: no guard but the bounds reads them.

Volumes wrap at `VolMod` and counts at `CntMod` (2^64 and 2^32 in the code). As in the
code, totals and slots wrap independently.

`SlidingWindow` has no ring: it has a table indexed by second. The refinement mapping
reads second `s` from slot `s % WindowSec`. It says that the totals tested against the
thresholds are the sums over exactly the last `WindowSec` seconds, whatever order
trades arrive in, provided that none is `WindowSec` or more seconds late.

### 2.2 Engine and MintStreams

| code | model |
|---|---|
| the `select` of `IngestSwapInfo`, then `atomic.AddUint64` | `Ingest`, `CountIngest` |
| `for ev := range ch` | `Receive` |
| `state.process` and `if e.sink != nil`, the `select` of `enqueueAlert` | `Process`, `EnqueueAlert` |
| the adds in `enqueueAlert` and at the end of `runShard` | `CountAlert`, `CountHandled` |
| `range e.alerts`, `FetchTokenMetadata`, `sink.Send`, the add | `WorkerReceive`, `WorkerLookup`, `Send`, `CountSent` |

Each channel operation and each atomic add is a step, so counters lag behind channels
as they can in the program. `sink` tells a nil interface from the typed nil pointer
`main` passes when Telegram is not configured. `Send` has the outcomes the worker can
see; an error may come after the message was accepted (the answer came too late).

`MintStreams` knows mints, a stream of accepted swaps for each and an outbox. Per mint,
swaps are processed in the order of acceptance, and alerts leave in the order they
were raised, at most once each.

### 2.3 Metadata

Every access to a cache is a step: the hit test (`Call`), `dexCache.Load` (`LoadDex`),
`Delete` (`DeleteDex`), the end of the search request (`Search`), and in
`upsertJupiterCache` the load and copy (`Copy`) and the store (`Publish`).
`background[m]` counts the goroutines `go f.fetchFromDexScreener(m)` leaves behind.
Metadata is named by the mint it describes. `Age` lets 24 hours pass for an entry, when
no request older than the entry is still running: requests take seconds.
`LoadJupiterList` and `StartAutoRefresh` only log; `fetchFromJupiterSearch` has no
caller.

### 2.4 Detector and Webhook

`ExtractSwapInfo` composes `InputSide`, `OutputSide`, `CapSeen` and `Filtered` in the
order of the code, a native output overwriting the lamports paid included. An amount
is the number its text denotes, or `NotANumber` for a text `ParseUint` rejects.
`Webhook` takes one request through authorization, parsing and the loop. `Examine` is
one turn of the loop, `IngestInvalid`, `IngestFull` and `IngestEnqueued` the outcomes
of `IngestSwapInfo`. What the fetcher answers (`knownCap`) and whether a shard has room
are free choices: `Metadata` and `Engine` model them.

### 2.5 Enrichment

`ProcessNotification` is one step, because a single goroutine runs `IngestLoop` and only
it touches the dedup cache. A message may name no signature (`Nameless`): it has no params,
result or value, as an answer to a subscription that `ReadLoop` passes on, or its signature is
empty. The code returns before it remembers, queues or counts such a message
(`ws/alchemy_ingestor.go:155-162`), so `notified` counts all messages and `named` those the
account of notifications is about; both are history. `Remembered` contains the cleanup at the end of
`IsDuplicate`. A worker's steps are `Receive`, `Check` (`processedSigs.Load`), `Try`
(one attempt of `getTransactionWithRetry`), `Ingest` and `Store`. `WorkerReturn` is the
`ctx.Done()` case, which Go's `select` may or may not take while tasks are queued.
`Shutdown` and `GroupCancel` are the two ways the contexts end. `Expire` lets the time
to live of two hours pass for an entry, but not while its task is queued or in a
worker's hands: 2048 tasks of at most 15.3 s (three attempts of 5 s and two pauses) on
five workers take under 1 h 45 min.

### 2.6 AlchemyClient and NotificationStream

| code | model |
|---|---|
| `Subscribe` up to `sendRequest` | `SendRequest` |
| `readResponse` and the rest of `Subscribe` | `ReadResponse`: `ReadAnswer`, `ReadOther`, `ReadNothing` |
| `go ReadLoop`, the `select` of `IngestLoop` | `StartReader`, `IngestReceive`, `IngestReturn` |
| the turn of `ReadLoop` up to the nil check, `ReadMessage`, the send | `ReaderTop`, `ReaderReads` or `ReaderFails`, `ReaderPush` |
| `Disconnect`, `Connect`, `Stop` | `Disconnect`, `ConnectSucceeds` or `ConnectFails`, `Stop` |
| `ReconnectWithBackoff` | `Reconnect`, then `Cooldown`, or `Dial` and `Resubscribe` |

Connections are numbered, so that `ReadLoop`'s copy of `conn` (`held`) can be an old one.
Messages of the server wait in `wire`; a broken connection may still hold some. Any read
may time out, and gorilla's connections cannot be read after an error, so a time-out is
the end of a connection as well (`HangUp`). Every message that unmarshals goes to
the channel, answers included. The owner of the client, who may call
`ReconnectWithBackoff` and `Stop`, is any other goroutine; the constant `Exported` says
whether there is one. In the program there is none.

`NotificationStream` has no connection: notifications are sent, received in order, and
lost only from the end. It says that neither a full channel nor an unreadable message
nor the switch from subscribing to reading costs a notification that arrived
before one that is received.

### 2.7 Service

`Service` extends `AlchemyClient`: the group's context is its variable `cancelled`.
`EnrichLoop` and the metrics loop are reduced to running or returned (that the workers
return is `WorkersStop` of `Enrichment`), a webhook request to its wait for metadata and
its answer. A request in `posts` has been read: an idle connection is closed by the server's
shutdown, and a peer that stalls in the middle of sending a request, for which `main` sets no
read timeout, is not modelled. `Signal`, `Join`, `StopFetcher`, `Drain` and `Exit` are the end of `main`, in
its order; `ListenFails` is the `os.Exit(1)` of the two server goroutines. `ReadLoop` is
no member of the group: `main` does not wait for it.

### 2.8 Balances

A state is a pair of balance lists; `ExtractSwapInfo` is the whole function. `Extracted` is
the set of results the iteration orders of the maps allow. The properties compare
it with what an owner holds in all its accounts before and after (`Holding`), under the
hypothesis `Visible`: no account is closed and of several accounts for one mint only the
last one changes.

## 3. The runs

Passing runs:

| run | instance | shows |
|---|---|---|
| `window` | window of 3 s, seconds 1..7, a dust and a large amount, 5 trades, 2 s late at most, counters modulo 16 and 4 | `TotalsMatchSlots`, `WindowIsRecent`, `AlertsSpaced`, `BaselineBounded`, `AlertNeedsJump`, and `MintWindow` implements `SlidingWindow` |
| `engine` | 2 callers, 2 shards with a mint each, channels of 1, 3 calls, each kind of sink | `IngestAccounted`, `AlertsAccounted`, `OneGoroutinePerMint`, `TelegramSentMeansDelivered`; `Engine` implements `MintStreams`; `AcceptedIsHandled` although the worker may be stuck for ever; `AlertIsAttempted` and `CountersSettle` when it is not |
| `metadata` | 2 callers, 2 mints, 4 calls, one entry may age | `JupiterCacheTruthful`, `BackgroundBounded`, `CallReturns`, `BackgroundEnds` |
| `webhook` | transactions on every side of the thresholds, payloads of up to 2 | `EnqueuedIsEligible`, `OutputIsSwappers`, `AllExamined` |
| `enrichment` | 2 signatures, 2 workers, a queue of 1, 2 attempts, 5 messages with or without a signature | `HandedOnce`, `FetchedByOne`, `NotificationsAccounted`, `QueuedIsSettled`, `WorkersStop` |
| `client` | 2 programs, a channel of 1, 3 notifications, 3 reconnections, breaker at 3 | `SubscriptionsAreServers`; `AlchemyClient` implements `NotificationStream`; `ReaderDropsOnlyItsOwn`, `ReaderEndsOnCancel` |
| `service` | the same without the owner, path off, failed or on, 1 request | `ShutdownCompletes`, `PathEnds` |
| `balances` | a user and a pool, a token and a stablecoin, a second account of the user, 2 amounts | `SwapperMovedMost`, `UntiedIsDetermined` |

The passing runs but `service` and `balances` also check the `TypeOK` of their module.
`Service` adds only flags to `AlchemyClient`, and the state of `Balances` is its input.

Runs that refute a statement of the repository (the statement and the line are in
`findings`):

| run | refuted | because |
|---|---|---|
| `client_subscribe` | "Subscribes to tracked DEX programs" | a notification of the first program is read as the answer for the second, and `IngestLoop` ends |
| `enrichment_rejected` | swaps re-enter the pipeline | the swap has no timestamp, so the engine rejects all of them |
| `enrichment_dropped` | signatures are deduplicated and queued | one dropped on a full queue is remembered as seen |
| `metadata_lost_update` | the search "caches result" | two copy-on-write updates, and the later store erases the earlier one |

Four more disagreements have a configuration beside the runs, which TLC refutes in
seconds (section 7):

| configuration | property | because |
|---|---|---|
| `MintWindowLate.cfg` | `WindowIsRecent` for any lag: "rolling windows" (`src/README.md:16`) | `advance` returns early for a trade of the past (`processor/processor.go:317`), which is then counted in the slot of a later second |
| `EngineNoTelegram.cfg` | `SentMeansDelivered`: `alert_sent_success` (`processor/processor.go:214`) | without Telegram configured a typed nil sink answers nil to every alert (`alert/telegram.go:39`) |
| `MetadataOtherToken.cfg` | `AnswerIsAboutMint`: "market cap in USD for OutputMint" (`detector/detector.go:43`) | the first hit of the search is taken unseen (`metadata/fetcher.go:194`) |
| `WebhookMinSol.cfg` | `MinSolEnforced`: the SOL minimum is enforced (`src/README.md:14`) | a native output overwrites the amount before it is compared (`detector/detector.go:165`, 181) |

Seen while modelling, and without a property of their own:

* A native output sets `AmountInSOL` although `detector/detector.go:42` says it belongs to a
  SOL input (the cause of `WebhookMinSol.cfg`).
* The handler logs as accepted what the engine rejected (`handler/webhook.go:57`, the same
  nil answer as in `enrichment_rejected`).
* Two callers that saw one expired DexScreener entry can delete the fresh one
  (`metadata/fetcher.go:93`, the steps `LoadDex` and `DeleteDex`).
* The dedup cache, called an LRU cache in `ws/alchemy_ingestor.go:17`, evicts nothing that
  is alive. Its counters are incremented by `IngestLoop` and read by the metrics loop
  without synchronisation (`ws/alchemy_ingestor.go:231`); they are only logged.
* Nothing calls `ReconnectWithBackoff`, so the first read error ends the Alchemy path for
  good (`PathEnds` shows that it ends entirely). If it were called: "Resubscribe to all
  programs" (`ws/alchemy_client.go:296`) subscribes to none, since `Subscribe` finds each in
  the map (`Resubscribe`); the breaker unlocks a mutex it does not hold, which is fatal
  (276, `Cooldown`); a `Connect` that fails leaves `isConnected` true (`ConnectFails`).
* `ReadLoop` closes its channel when it returns, so it cannot be started twice, and a read
  error forgets the connection without closing it (`ws/alchemy_client.go:224-232`).
* In a plain swap the user and the pool move the same amounts, so the order of a map decides
  which of them is the swapper (`enrichment/alchemy_tx_enricher.go:316`); `UntiedIsDetermined`
  shows that only ties are decided that way. A closed account and all but the last of
  several accounts for one mint are not seen (254, 262), so `SwapperMovedMost` has the
  hypothesis `Visible`.
* The extracted amount is a float's text (356): with a fraction `IngestSwapInfo` would
  reject it even with a timestamp.
* Swaps and alerts that are still queued when `main` returns are lost; no part of the
  repository says they are not.

### 3.1 Bounds, and why they are enough

* `MaxTrades` 5, `MaxLag` 2, window 3, seconds 1..7: five trades fill the ring, leave it,
  turn it more than once (a silence of up to six seconds) and come back late, and two
  alerts a cooldown apart fit between them. The volume total wraps to zero with two large
  trades and the count with four.
* `MaxIngests` 3 with an alert channel of 1: one alert is in the worker's hands, one is
  queued, one is dropped. A shard channel of 1 is full at the second call. Mints that
  share a shard go through its channel like two swaps of one mint.
* Metadata: two callers suffice for every race of a read and a write; four calls let
  one fill a cache before two race and one look at the result.
* Enrichment: a queue of one overflows at the second signature; five messages, any of which may
  name none, let a signature be notified again after its entry expired, while it is processed and the
  other is queued. Two attempts give a first and a last one.
* Client: two programs give a notification of the first a chance to precede the answer
  for the second. A channel of one is full with the first of three notifications,
  another is in `ReadLoop`'s hands and the third on the wire. Three calls of
  `ReconnectWithBackoff` reach the breaker's threshold or replace the connection twice.
* Service: no owner, as in the program; the other bounds are the client's. One request is
  enough, since `main` waits for each of them in the same way.
* Balances: two owners and two mints give every comparison a winner, a loser and a tie;
  amounts 1 and 3 and an absent account give gains of different size, losses and zero;
  the fifth account repeats an owner and mint.
* Webhook: a list of three outputs covers first, own and other; amounts lie below and
  at the threshold, are zero or no number. Two transactions show that the first does
  not end the loop.

No run uses symmetry: most check liveness or action properties. Deadlock checking is off
in all of them: every model stops when its bound is reached, and the program's goroutines
wait for input for ever.

### 3.2 Fairness, and why the code justifies it

Shards, callers that are about to bump a counter, fetcher calls and enrichment workers
are goroutines that never block for ever in these steps: the Go scheduler runs them
again, and their HTTP calls have timeouts (2, 3 and 5 seconds). So weak fairness of
their steps is assumed. `WorkerReturn` has strong fairness: a `select` with several
ready cases chooses at random, and so takes `ctx.Done()` in the end, though processing a
task disables it in between. Nothing is assumed of clients, of the WebSocket, of the
passing of a time to live, of a signal or of RPC success.

`IngestLoop` and `ReadLoop` have weak fairness: a read of the connection ends after five
seconds or a minute at the latest, a send on the notification channel is abandoned when
the context ends. `main`, the group and the other members are fair as well, and so is a
request, which waits two seconds at most. The owner of the client, the server, the network
and the signal are not.

The alert worker has no fairness in `Engine!FairSpec`, so that `AcceptedIsHandled` does
not depend on the sink. `AlertIsAttempted` and `CountersSettle` do: they carry
`WorkerFairness` as their hypothesis, which the timeouts of `FetchTokenMetadata` (two
seconds) and of the send (three) justify.

## 4. What is proved

### 4.1 The engine

For any sets of callers, mints and shards, any capacities, any sink and any bound, from
`EngineAssumption` (routing is a function from mints to shards, capacities are positive):

* `TypeCorrect`: `Spec => []TypeOK`. Channels never exceed their capacity, and a
  goroutine holds an event exactly when its program counter says so. One lemma for
  each operation.
* `OneGoroutine`: `Spec => []OneGoroutinePerMint`. The property is not inductive: it
  says nothing of events that are still in a channel. `Routed` strengthens it: every
  event in a shard's channel or hands has a mint that hashes to that shard. `Routed` is
  preserved because only `Ingest` adds events, at `ShardOf[m]`, and implies the property
  because `ShardOf` is a function.
* `SentIsDelivered`: `Spec => []TelegramSentMeansDelivered`. It is inductive together
  with `TypeOK`: an accepted send appends to `delivered` and enters the state whose later
  add raises the counter. `EngineNoTelegram.cfg` shows that its hypothesis on the
  sink is needed.
* `SwapsAccounted` and `AlertsAreAccounted`, for finite sets of callers
  and shards, without which there is nothing to count: `IngestAccounted` and
  `AlertsAccounted`. Both are inductive together with `TypeOK`; the work is in the counting.
  `CountUpdate` (in `FoldLemmas`) says how the number of goroutines at some states changes when
  one of them moves, `QueueMoves` how the number of queued swaps changes when one channel does.
* `EngineImplementsStreams`: `Spec => ImplementsMintStreams`, step by step: `Ingest` accepts,
  `Process` handles, an alert that enters the channel joins the outbox, `Send` delivers the
  first of it, and every other step changes nothing the streams can see. It needs
  `Routed`: a mint's swaps wait in the hands and the channel of one shard, so
  what that shard takes next is the first of that mint's stream, and of no other.
* `ChatHearsOnce`: a swap raises at most one message in the chat (`DeliveredOnce`), also
  when Telegram accepts a message and answers too late. The proof is about `MintStreams`,
  and the refinement carries it over. Its invariant `Distinct` says where an id can be:
  in its mint's stream, in the outbox or in the chat, in one of them and once.
* `CountersAgree`, for finite sets of callers and shards: whenever the engine is at rest
  the counters that `Stats()` logs agree (`AgreeAtRest`). It is what safety can say of
  `CountersSettle`, and follows from the two accounts: at rest no goroutine is at a step they
  count, and no channel holds anything.

### 4.2 The window

For any window length, thresholds, multiplier, weight, cooldown, counter widths, amounts,
seconds and number of trades, from `ConfigAssumption` (what `New` leaves in the `Config`)
and `InputAssumption` (what `IngestSwapInfo` lets through):

* `TypeCorrect`, and `TotalsAreSums`: the totals are the sums of the slots modulo their
  widths, although totals and slots wrap independently.
* `CooldownHolds`: `AlertsSpaced`. It needs that every past alert is at or before
  `lastAlertSec` (`AlertsBehind`). The lag of trades plays no part in the proof.
* `BaselineInRange`: `BaselineBounded`, strengthened by `Fresh` (an unknown mint has a
  volume and a baseline of zero). From it `AlertsNeedJump` and `SilentConfiguration`: a configuration `New`
  accepts, with `EWMAAlpha * SpikeMultiple >= 1`, never raises an alert.
* `WindowStaysRecent`: `WindowIsRecent`, with the hypothesis `MaxLag < WindowSec`, which the
  configuration `MintWindowLate.cfg` shows to be needed. The strengthening is that every second counted is
  in the slot of that second (`SlotHoldsItsSeconds`) and an unknown mint has none.
* `RingImplementsWindow`, with the same hypothesis:
  `ImplementsSlidingWindow`. A window of `WindowSec` seconds meets every slot exactly once
  (`ModInjective`, `WindowFillsRing`), so the sum over the ring is the sum over the table
  (`SumOverWindow`); `advance` clears exactly the slots of the seconds that leave the table.

`FoldLemmas` carries both. `SumFunctionOnSet` is a fold that removes one chosen element at a
time. That a sum does not depend on the choice is an induction over finite sets, and an
induction theorem that takes the property as an operator cannot be used here. So the
property is a set: `SubsetInduction` says that a collection that contains a subset as soon
as it contains the strict subsets contains all of them, which follows from a minimal
subset outside it (`MinimalSubset`, from the well-foundedness of strict inclusion in
`FiniteSetTheorems`).

The two refinement mappings that filter a queue (4.1 and 4.3) use `Select` instead of
`SelectSeq`: the provers cannot see inside `SelectSeq`, and `Select` takes the test as a set and
is a recursive function. That the function exists is again shown with a set in place of an
operator (`NumberInduction`, `PrefixesExist`); `SelectAppend` and `SelectTail` then say how the
selection follows a queue that grows or is read.

### 4.3 The client

For any set of programs, any capacity, threshold and number of messages and reconnections,
with or without an owner, from `ClientAssumption`:

* `TypeCorrect`: the notification channel never exceeds its capacity and is closed exactly
  when `ReadLoop` has returned; `conn` is nil or the last connection.
* `SubscriptionsMatch`: `SubscriptionsAreServers`. `Subscribe` compares no ids, so the proof
  has to say why an answer is the answer to the last request: while `IngestLoop` awaits
  one, the only request and the only answer on the connection are for the program it
  asked about (`Outstanding`, `OneReply`), and at any other time there is none (`NoReply`).
  Any other message ends the loop, which is what the run `client_subscribe` objects to.
* `NewConnectionStays`: `ReaderDropsOnlyItsOwn`, from the type invariant, since the
  comparison at `ws/alchemy_client.go:226` is with `held`.
* `ClientImplementsStream`: `Spec => ImplementsNotificationStream`, one lemma each for the steps
  of the server, `IngestLoop`, `ReadLoop` and the owner that reconnects.
  Two strengthenings carry it. `Forgotten`: without a connection nothing is left on the
  wire, so a new connection starts empty. `Outstanding`: no answer is left on the wire when
  `ReadLoop` reads, which would pass it on as a notification.
* `ReceivedIsOrdered`: what `IngestLoop` receives was sent, in that order and never twice
  (`ReceivedInOrder`). This is a fact about `NotificationStream`: what was received and what is
  pending rises from end to end (`InOrder`). The refinement makes it one about the client.
* `ReconnectIsDeaf`: a reconnect after `IngestLoop` has subscribed leaves a connection without
  a subscription, and it never gets one (`DeafAfterReconnect`), since `Subscribe` finds every
  program in the map and returns (`ws/alchemy_client.go:296`). No run checks this
  property. The program does not call `ReconnectWithBackoff`, so the theorem is a warning to
  whoever calls it first.

About the process, whose client has no owner (`~Exported`, as in the program):

* `ServiceRunsClient`: `ServiceSpec => Spec`. What `main`, the group and the webhook server do
  is a `Cancel` of the client or leaves it alone, so the theorems above hold in the process.
  `OneConnection` shows that the steps `Service` leaves out, those of an owner, are not missed.
* `LostForGood`: a lost connection never comes back and the server sends nothing more
  (`NotRevived`), from `OneConnection`: there is one connection, and the client has dropped it
  only if it is down.
* `ShutdownIsOrderly` (this one with an owner as well): `main` stops the fetcher only after every
  member of the group has returned, and closes the listener after that. When it returns,
  unless by `os.Exit`, every request it accepted is answered (`ShutdownInOrder`). `Phases` is
  the strengthening: what `main` has done and waited for in each phase, which no
  goroutine that still runs can undo.

### 4.4 The enrichment path

For any finite sets of signatures and workers, any queue size, number of attempts and number
of messages, from `EnrichmentAssumption`:

* `TypeCorrect`: a worker holds a task exactly while it works on one.
* `SignatureFetchedByOne`: `FetchedByOne`. It says nothing of tasks that wait, so the
  strengthening `Once` does: the queue repeats no signature, a signature is queued or in one
  worker's hands but not both, and as long as it is, the dedup cache remembers it. That
  last part rests on the guard of `Expire`, that is, on the time to live of section 2.5.
* `SwapHandedOnce`: `HandedOnce`. The cache may forget a signature that has been recorded,
  and let it in again. `HandedOrStored` says why that does no harm: a worker about to
  hand over has a signature that is not recorded, and a signature that was handed over is
  recorded or in the hands of the worker about to record it, which `Once` makes unique.
* `Accounted`: `NotificationsAccounted`. It is about the notifications that name a signature: one
  that names none is counted nowhere, and so changes nothing of the account. The rest is
  `MovesOne` of `FoldLemmas`: a worker's step takes
  a task out of the queue, or it raises one counter as the task leaves the steps that no
  counter has seen, or it does neither.

### 4.5 The metadata fetcher

For any mints and callers and any bounds, from `MetadataAssumption`:

* `TypeCorrect`: in particular `upsertJupiterCache` never runs without a result.
* `CacheIsTruthful`: `JupiterCacheTruthful`, together with the same of every caller's copy of
  the map (`CopiesTruthful`), since a copy becomes the cache when it is published.
* `BackgroundIsBounded`: `BackgroundBounded`, for finitely many callers. A search without a
  result takes its caller out of the call as it leaves a goroutine behind.
* `AloneNothingIsForgotten`: `JupiterCacheGrows`, which `metadata_lost_update` refutes with two
  callers, holds when one goroutine makes all the calls, whatever the searches find. So the
  overlap of two calls causes the loss. The strengthening is `CopyIsFresh`: a copy
  about to be published holds every token of the cache it replaces.

### 4.6 The webhook

For any set of transactions of the type `WebhookTx` (what the payload types admit: lists of any
length, texts that are no number, missing pointers), any market caps, stablecoins and
thresholds and payloads of any length, from `DetectorAssumption` and `WebhookAssumption`:

* `TypeCorrect`, `OnlyEligibleEnters` (`EnqueuedIsEligible`) and `ReportsOwnOutput`
  (`OutputIsSwappers`). None of them is inductive, since they say nothing of how `info` came
  about. `Examined` does: the request knows the last transaction, `info` is what the detector
  makes of it, and what was enqueued was validated. From there they are statements
  about the detector: `PickFinds` (a pick returns an element of its account if there is one,
  else the first), and the number and pointer types of a transaction.
* `NothingIsLeft`: `AllExamined`, which is inductive.

### 4.7 The balances

For any accounts, owners, mints, stablecoins and amounts, from `BalancesAssumption`:

* `SwapperIsGreatest`: `SwapperMovedMost`. The code compares the last entries of an owner and a
  mint; the property speaks of what the owner holds in all its accounts. `DeltaIsChange`
  is the bridge: when the lists show every change (`Visible`), the other accounts cancel
  out of the two sums. `TotalIsMoved` carries that over to an owner's total, and the rest is
  what the loops for the greatest value keep.
* `OrderDecidesTies`: `UntiedIsDetermined`. Two different answers come from two swappers, from two
  outputs of one, or from a swapper with outputs and one without; each is a tie.
* `AlwaysAnswers`: there is an answer for any two lists (`Answers`). The loops over the maps
  leave a swapper when there are owners, and an output when there are gains
  (`GreatestExists` of `FoldLemmas`). Without it the other theorems could hold of nothing.
* `NoSwapHasAReason`: where the lists show every change, nil is returned only if the list
  beforehand is empty, no balance changed, or an owner that moved most of all gained nothing
  (`MissedForAReason`).

The inductive part is `Returned`: the lists do not change and the answer is one they allow.

### 4.8 Only model-checked

Every safety property and every refinement that a passing run checks is a theorem. The
liveness properties stay with TLC, since neither fairness nor ENABLED is in the
prover's reach: those of `Engine`, `Enrichment`, `Metadata`, `AlchemyClient` and `Service`. So do
the refuted properties, whose counterexamples TLC finds. What a recursive definition computes
for every input would need an induction theorem over an operator; `Select` and the sums
are proved about through sets instead (4.2).

## 5. Abstractions

* The EWMA is an exact fraction and the float parameters are fractions. The code uses
  `float64`, so a comparison within a rounding error of a threshold, or a volume above
  2^53, may differ.
* In `Engine` whether a trade raises an alert is a free choice; `MintWindow` decides it.
  Rejected swaps, which change nothing in the engine, are left out there and appear in
  `Webhook` and `Enrichment`.
* A token, a signature and a metadata record are identities. Symbols, names, messages
  and logs are left out.
* Critical sections under `connMu`, `subscriptionMu` and `nextIDMu` are never nested and
  become (parts of) one step. Pings, the length of the backoff and request ids are left
  out: nothing reads a ping's error, waits on the backoff or compares an id.
* UI amounts are integers; the code adds and subtracts `float64`.
* Time passes by steps (`Expire`, `Age`) rather than by a clock; section 2 gives the
  arithmetic behind their guards.
* The text of an extracted amount (a formatted float) is left out of `Enrichment`: the
  missing timestamp already decides the fate of those swaps.
* `Metadata` takes the metadata a request finds to be about some mint. A Jupiter answer
  whose ID is empty counts as no answer, as in the code.

## 6. Not modelled, and plan

Not modelled: the program scan `DetectProgramsFromInstructions`, which its only caller
switches off (`handler/webhook.go:43`); `LoadJupiterList`, `StartAutoRefresh` and
`fetchFromJupiterSearch`, which log or have no caller; the metrics loops' contents and all
logging; the layout of the Telegram message; the configuration in `main`; the pprof server;
and of the payload types the fields the detector does not read.

Done, in this order, the most important first: window and engine with their abstract
specifications and the proofs of both; enrichment; metadata; detector and webhook; client, its
abstract stream and its proofs; service; balances; proofs about enrichment, metadata, webhook,
balances and the shutdown. Left:

1. `AlchemyPath`: client and enrichment composed, from notification to engine.
2. `Alerting`: windows and engine composed for two mints, so that an alert lost on a full
   channel is seen to start the cooldown (`processor/processor.go:299`).

## 7. Running

    tlc -config Engine.cfg MCEngine
    tlapm FoldLemmas.tla
    tlapm EngineProofs.tla
    tlapm MintWindowProofs.tla
    tlapm AlchemyClientProofs.tla
    tlapm EnrichmentProofs.tla
    tlapm MetadataProofs.tla
    tlapm WebhookProofs.tla
    tlapm BalancesProofs.tla

Every other run of `PROJECT.json` names its module and configuration in the same way. The
configurations of section 3 that belong to no run go with the MC module of that name, as in

    tlc -config EngineNoTelegram.cfg MCEngine
