------------------------------ MODULE Metadata ------------------------------
(***************************************************************************)
(* The token metadata fetcher, metadata.Fetcher: FetchTokenMetadata called *)
(* from webhook requests and from the alert worker at the same time, the   *)
(* copy-on-write Jupiter cache behind an atomic pointer, the DexScreener   *)
(* cache with its time to live, the goroutine every unanswered call leaves *)
(* behind, and Stop.  Each access to a cache and each end of an HTTP       *)
(* request is a step of its own.                                           *)
(*                                                                         *)
(* A token's metadata is named by the mint it describes, and the day it    *)
(* was stored where that matters; symbols and market caps are left out.    *)
(***************************************************************************)
EXTENDS Integers, FiniteSets

CONSTANTS
  Mints,
  Callers,    \* goroutines that call FetchTokenMetadata
  Unknown,    \* a nil *TokenMetadata
  MaxCalls,   \* bound: calls in a behaviour
  MaxAge      \* bound: times an entry of the DexScreener cache outlives 24 hours

ASSUME MetadataAssumption ==
  /\ IsFiniteSet(Mints)
  /\ Unknown \notin Mints
  /\ MaxCalls \in Nat
  /\ MaxAge \in Nat

Meta == Mints \cup {Unknown}

VARIABLES
  jupiterCache,  \* what the pointer shows: mint -> mint described, or Unknown
  dexCache,      \* mint -> mint described, or Unknown
  dexExpired,    \* mints whose entry of dexCache is older than 24 hours
  pc,            \* caller: "idle", "dex", "delete", "search", "upsert", "publish"
  mint,          \* caller: the argument of the call in progress
  found,         \* caller: tokens[0].ID of the search
  copy,          \* caller: newCache of upsertJupiterCache
  answer,        \* caller: the mint described by the last result
  background,    \* per mint, fetchFromDexScreener goroutines running
  stopped,       \* Fetcher.ctx is cancelled
  calls, aged    \* steps taken towards MaxCalls and MaxAge

callerVars == <<pc, mint, found, copy, answer>>
vars == <<jupiterCache, dexCache, dexExpired, callerVars, background, stopped, calls, aged>>

Init ==
  /\ jupiterCache = [m \in Mints |-> Unknown]
  /\ dexCache = [m \in Mints |-> Unknown]
  /\ dexExpired = {}
  /\ pc = [c \in Callers |-> "idle"]
  /\ mint \in [Callers -> Mints]
  /\ found = [c \in Callers |-> Unknown]
  /\ copy = [c \in Callers |-> jupiterCache]
  /\ answer = mint
  /\ background = [m \in Mints |-> 0]
  /\ stopped = FALSE
  /\ calls = 0 /\ aged = 0

Return(c, meta) ==
  /\ answer' = [answer EXCEPT ![c] = meta]
  /\ pc' = [pc EXCEPT ![c] = "idle"]

GoTo(c, step) == pc' = [pc EXCEPT ![c] = step]

-----------------------------------------------------------------------------
(* FetchTokenMetadata *)

\* The call, up to the test of the Jupiter cache; a hit never expires.
Call(c, m) ==
  /\ pc[c] = "idle"
  /\ calls < MaxCalls
  /\ calls' = calls + 1
  /\ mint' = [mint EXCEPT ![c] = m]
  /\ \/ jupiterCache[m] # Unknown /\ Return(c, jupiterCache[m])
     \/ jupiterCache[m] = Unknown /\ GoTo(c, "dex") /\ UNCHANGED answer
  /\ UNCHANGED <<jupiterCache, dexCache, dexExpired, found, copy, background, stopped, aged>>

\* dexCache.Load
LoadDex(c) ==
  LET m == mint[c]
  IN  /\ pc[c] = "dex"
      /\ \/ dexCache[m] # Unknown /\ m \notin dexExpired /\ Return(c, dexCache[m])
         \/ dexCache[m] # Unknown /\ m \in dexExpired /\ GoTo(c, "delete") /\ UNCHANGED answer
         \/ dexCache[m] = Unknown /\ GoTo(c, "search") /\ UNCHANGED answer
      /\ UNCHANGED <<jupiterCache, dexCache, dexExpired, mint, found, copy, background,
                     stopped, calls, aged>>

\* dexCache.Delete, of whatever the cache holds by now.
DeleteDex(c) ==
  /\ pc[c] = "delete"
  /\ dexCache' = [dexCache EXCEPT ![mint[c]] = Unknown]
  /\ dexExpired' = dexExpired \ {mint[c]}
  /\ GoTo(c, "search")
  /\ UNCHANGED <<jupiterCache, mint, found, copy, answer, background, stopped, calls, aged>>

\* Bug: a search without a result is taken for one.
SearchFoundNothing(c) ==
  /\ ~stopped
  /\ \E token \in Meta : found' = [found EXCEPT ![c] = token]
  /\ GoTo(c, "upsert")
  /\ UNCHANGED <<answer, background>>

\* Bug: the background lookup is started whether the search succeeds or not.
SearchFoundAndSpawned(c) ==
  /\ ~stopped
  /\ \E token \in Mints : found' = [found EXCEPT ![c] = token]
  /\ GoTo(c, "upsert")
  /\ background' = [background EXCEPT ![mint[c]] = @ + 1]
  /\ UNCHANGED answer

\* fetchFromJupiterSearchBlocking ends: the first token of the search, which
\* need not be the one asked for, or none because of an error, a timeout of
\* two seconds, an empty answer or the cancelled context.
SearchFound(c) ==
  /\ ~stopped
  /\ \E token \in Mints : found' = [found EXCEPT ![c] = token]
  /\ GoTo(c, "upsert")
  /\ UNCHANGED <<answer, background>>

\* Bug: the search is repeated until it succeeds.
SearchFailedRetry(c) == UNCHANGED <<pc, found, answer, background>>

SearchFailed(c) ==
  /\ Return(c, Unknown)
  /\ background' = [background EXCEPT ![mint[c]] = @ + 1]
  /\ UNCHANGED found

Search(c) ==
  /\ pc[c] = "search"
  /\ SearchFound(c) \/ SearchFailed(c)
  /\ UNCHANGED <<jupiterCache, dexCache, dexExpired, mint, copy, stopped, calls, aged>>

\* Bug: the metadata found is cached under the mint that was asked for.
CopyUnderAsked(c) ==
  /\ pc[c] = "upsert"
  /\ copy' = [copy EXCEPT ![c] = [jupiterCache EXCEPT ![mint[c]] = found[c]]]
  /\ GoTo(c, "publish")
  /\ UNCHANGED <<jupiterCache, dexCache, dexExpired, mint, found, answer, background, stopped,
                 calls, aged>>

\* upsertJupiterCache: the map is loaded and copied ...
Copy(c) ==
  /\ pc[c] = "upsert"
  /\ copy' = [copy EXCEPT ![c] = [jupiterCache EXCEPT ![found[c]] = found[c]]]
  /\ GoTo(c, "publish")
  /\ UNCHANGED <<jupiterCache, dexCache, dexExpired, mint, found, answer, background, stopped,
                 calls, aged>>

\* ... and the copy stored, whatever the pointer shows by then.
Publish(c) ==
  /\ pc[c] = "publish"
  /\ jupiterCache' = copy[c]
  /\ Return(c, found[c])
  /\ UNCHANGED <<dexCache, dexExpired, mint, found, copy, background, stopped, calls, aged>>

-----------------------------------------------------------------------------
(* fetchFromDexScreener, in a goroutine of its own *)

\* Bug: a goroutine that found nothing tries again.
DexFailedRetry(m) == UNCHANGED <<dexCache, dexExpired, background>>

DexFailed(m) ==
  /\ background' = [background EXCEPT ![m] = @ - 1]
  /\ UNCHANGED <<dexCache, dexExpired>>

\* The base token of the first pair may be the other token of the pair.
DexStored(m) ==
  /\ ~stopped
  /\ \E token \in Mints : dexCache' = [dexCache EXCEPT ![m] = token]
  /\ dexExpired' = dexExpired \ {m}
  /\ background' = [background EXCEPT ![m] = @ - 1]

FetchFromDexScreener(m) ==
  /\ background[m] > 0
  /\ DexStored(m) \/ DexFailed(m)
  /\ UNCHANGED <<jupiterCache, callerVars, stopped, calls, aged>>

\* An entry of dexCache passes the age of 24 hours.  By then the searches and
\* goroutines that were under way when it was stored, which take seconds, have
\* ended, and calls made since were answered from the cache.
Age(m) ==
  /\ background[m] = 0
  /\ \A c \in Callers : mint[c] = m => pc[c] \in {"idle", "dex"}
  /\ dexCache[m] # Unknown /\ m \notin dexExpired
  /\ aged < MaxAge
  /\ aged' = aged + 1
  /\ dexExpired' = dexExpired \cup {m}
  /\ UNCHANGED <<jupiterCache, dexCache, callerVars, background, stopped, calls>>

\* Stop cancels the context of every request and waits for refreshWg, to which
\* nothing is ever added; main calls it while requests may still be running.
Stop ==
  /\ ~stopped
  /\ stopped' = TRUE
  /\ UNCHANGED <<jupiterCache, dexCache, dexExpired, callerVars, background, calls, aged>>

-----------------------------------------------------------------------------
CallStep(c) == LoadDex(c) \/ DeleteDex(c) \/ Search(c) \/ Copy(c) \/ Publish(c)

Next ==
  \/ \E c \in Callers : (\E m \in Mints : Call(c, m)) \/ CallStep(c)
  \/ \E m \in Mints : FetchFromDexScreener(m) \/ Age(m)
  \/ Stop

Spec == Init /\ [][Next]_vars

\* Requests end within two and three seconds; clients need not ask again.
FairSpec ==
  /\ Spec
  /\ \A c \in Callers : WF_vars(CallStep(c))
  /\ \A m \in Mints : WF_vars(FetchFromDexScreener(m))

-----------------------------------------------------------------------------
(* Properties *)

\* Type invariant of the fetcher (metadata.Fetcher).
TypeOK ==
  /\ jupiterCache \in [Mints -> Meta]
  /\ dexCache \in [Mints -> Meta]
  /\ dexExpired \subseteq {m \in Mints : dexCache[m] # Unknown}
  /\ pc \in [Callers -> {"idle", "dex", "delete", "search", "upsert", "publish"}]
  /\ mint \in [Callers -> Mints]
  /\ found \in [Callers -> Meta]
  /\ \A c \in Callers : pc[c] \in {"upsert", "publish"} => found[c] # Unknown
  /\ copy \in [Callers -> [Mints -> Meta]]
  /\ answer \in [Callers -> Meta]
  /\ background \in [Mints -> Nat]
  /\ stopped \in BOOLEAN
  /\ calls \in 0 .. MaxCalls /\ aged \in 0 .. MaxAge

\* The Jupiter cache, whose entries never expire, is never poisoned: whatever
\* the search answers and however calls interleave, a mint is only ever cached
\* with its own metadata.
JupiterCacheTruthful ==
  \A m \in Mints : jupiterCache[m] \in {m, Unknown}

\* What the Jupiter cache has learned it does not forget.
JupiterCacheGrows ==
  [][\A m \in Mints : jupiterCache[m] # Unknown => jupiterCache'[m] # Unknown]_vars

\* The metadata a call returns is that of the token it was asked for.
AnswerIsAboutMint ==
  \A c \in Callers : pc[c] = "idle" => answer[c] \in {mint[c], Unknown}

\* Goroutines left behind are those of calls that returned nothing, so the
\* calls made bound them (nothing else does: there is no limit per mint).
BackgroundBounded ==
  \A m \in Mints : background[m] <= calls - Cardinality({c \in Callers : pc[c] # "idle"})

\* Every call returns, also one that runs into Stop.
CallReturns == \A c \in Callers : pc[c] # "idle" ~> pc[c] = "idle"

\* The goroutines left behind all end.
BackgroundEnds == <>[](\A m \in Mints : background[m] = 0)
=============================================================================
