-------------------------- MODULE MetadataProofs --------------------------
(***************************************************************************)
(* Theorems about Metadata.tla for any mints, any callers and any bounds.  *)
(***************************************************************************)
EXTENDS Metadata, FoldLemmas

Steps == {"idle", "dex", "delete", "search", "upsert", "publish"}

\* TypeOK in two parts: the caches with what is left behind, and the callers.
CacheTypes ==
  /\ jupiterCache \in [Mints -> Meta]
  /\ dexCache \in [Mints -> Meta]
  /\ dexExpired \subseteq {m \in Mints : dexCache[m] # Unknown}
  /\ background \in [Mints -> Nat]
  /\ stopped \in BOOLEAN
  /\ calls \in 0 .. MaxCalls /\ aged \in 0 .. MaxAge

CallerTypes ==
  /\ pc \in [Callers -> Steps]
  /\ mint \in [Callers -> Mints]
  /\ found \in [Callers -> Meta]
  /\ \A c \in Callers : pc[c] \in {"upsert", "publish"} => found[c] # Unknown
  /\ copy \in [Callers -> [Mints -> Meta]]
  /\ answer \in [Callers -> Meta]

LEMMA TypesSplit == TypeOK <=> CacheTypes /\ CallerTypes
BY DEF TypeOK, CacheTypes, CallerTypes, Steps

LEMMA TypesSplitNext == TypeOK' <=> CacheTypes' /\ CallerTypes'
BY DEF TypeOK, CacheTypes, CallerTypes, Steps

LEMMA MetaTyped == Unknown \in Meta /\ Mints \subseteq Meta /\ \A m \in Mints : m # Unknown
BY MetadataAssumption DEF Meta

LEMMA InitTypeOK == Init => TypeOK
<1> SUFFICES ASSUME Init PROVE TypeOK
  OBVIOUS
<1>1. jupiterCache \in [Mints -> Meta]
  BY MetaTyped DEF Init
<1>2. CacheTypes
  <2>1. dexCache \in [Mints -> Meta] /\ background \in [Mints -> Nat]
    BY MetaTyped DEF Init
  <2>2. calls \in 0 .. MaxCalls /\ aged \in 0 .. MaxAge
    BY MetadataAssumption DEF Init
  <2>3. dexExpired = {} /\ stopped \in BOOLEAN
    BY DEF Init
  <2>. QED BY <1>1, <2>1, <2>2, <2>3 DEF CacheTypes
<1>3. CallerTypes
  <2>1. copy \in [Callers -> [Mints -> Meta]]
    BY <1>1 DEF Init
  <2>2. mint \in [Callers -> Mints] /\ answer = mint
    BY DEF Init
  <2>3. answer \in [Callers -> Meta]
    BY <2>2, MetaTyped
  <2>. QED BY <2>1, <2>2, <2>3, MetaTyped DEF Init, CallerTypes, Steps
<1>. QED BY <1>2, <1>3, TypesSplit

\* What a step leaves alone keeps its types.
LEMMA CacheStays ==
  ASSUME TypeOK,
         UNCHANGED <<jupiterCache, dexCache, dexExpired, background, stopped, calls, aged>>
  PROVE  CacheTypes'
BY DEF TypeOK, CacheTypes

LEMMA CallersStay ==
  ASSUME TypeOK, UNCHANGED callerVars
  PROVE  CallerTypes'
BY DEF TypeOK, CallerTypes, Steps, callerVars

\* A caller moves and nothing else about the callers changes but, perhaps, its
\* answer.
LEMMA CallerMoves ==
  ASSUME TypeOK, NEW c \in Callers, NEW step \in Steps \ {"upsert", "publish"},
         pc' = [pc EXCEPT ![c] = step],
         mint' \in [Callers -> Mints],
         answer' \in [Callers -> Meta],
         UNCHANGED <<found, copy>>
  PROVE  CallerTypes'
<1>1. pc' \in [Callers -> Steps]
  BY DEF TypeOK, Steps
<1>2. \A d \in Callers : pc'[d] \in {"upsert", "publish"} => pc[d] \in {"upsert", "publish"}
  BY DEF TypeOK
<1>. QED BY <1>1, <1>2 DEF TypeOK, CallerTypes

LEMMA CallTypeOK ==
  ASSUME TypeOK, NEW c \in Callers, NEW m \in Mints, Call(c, m)
  PROVE  TypeOK'
<1>1. CacheTypes'
  BY MetadataAssumption DEF Call, CacheTypes, TypeOK
<1>2. CallerTypes'
  <2>1. mint' \in [Callers -> Mints] /\ UNCHANGED <<found, copy>>
    BY DEF Call, TypeOK
  <2>2. CASE Return(c, jupiterCache[m])
    <3>1. jupiterCache[m] \in Meta
      BY DEF TypeOK
    <3>2. answer' \in [Callers -> Meta] /\ pc' = [pc EXCEPT ![c] = "idle"]
      BY <2>2, <3>1 DEF Return, TypeOK
    <3>. QED BY <2>1, <3>2, CallerMoves DEF Steps
  <2>3. CASE GoTo(c, "dex") /\ UNCHANGED answer
    BY <2>1, <2>3, CallerMoves DEF GoTo, Steps, TypeOK
  <2>. QED BY <2>2, <2>3 DEF Call
<1>. QED BY <1>1, <1>2, TypesSplitNext

LEMMA LoadDexTypeOK ==
  ASSUME TypeOK, NEW c \in Callers, LoadDex(c)
  PROVE  TypeOK'
<1>1. CacheTypes'
  BY CacheStays DEF LoadDex
<1>2. CallerTypes'
  <2>1. mint' \in [Callers -> Mints] /\ UNCHANGED <<found, copy>>
    BY DEF LoadDex, TypeOK
  <2>2. CASE Return(c, dexCache[mint[c]])
    <3>1. dexCache[mint[c]] \in Meta
      BY DEF TypeOK
    <3>2. answer' \in [Callers -> Meta] /\ pc' = [pc EXCEPT ![c] = "idle"]
      BY <2>2, <3>1 DEF Return, TypeOK
    <3>. QED BY <2>1, <3>2, CallerMoves DEF Steps
  <2>3. CASE (GoTo(c, "delete") \/ GoTo(c, "search")) /\ UNCHANGED answer
    BY <2>1, <2>3, CallerMoves DEF GoTo, Steps, TypeOK
  <2>. QED BY <2>2, <2>3 DEF LoadDex
<1>. QED BY <1>1, <1>2, TypesSplitNext

LEMMA DeleteDexTypeOK ==
  ASSUME TypeOK, NEW c \in Callers, DeleteDex(c)
  PROVE  TypeOK'
<1>1. CacheTypes'
  <2>1. /\ dexCache' = [dexCache EXCEPT ![mint[c]] = Unknown]
        /\ dexExpired' = dexExpired \ {mint[c]}
        /\ UNCHANGED <<jupiterCache, background, stopped, calls, aged>>
    BY DEF DeleteDex
  <2>2. dexCache' \in [Mints -> Meta]
    BY <2>1, MetaTyped DEF TypeOK
  <2>3. dexExpired' \subseteq {m \in Mints : dexCache'[m] # Unknown}
    BY <2>1 DEF TypeOK
  <2>. QED BY <2>1, <2>2, <2>3 DEF CacheTypes, TypeOK
<1>2. CallerTypes'
  BY CallerMoves DEF DeleteDex, GoTo, Steps, TypeOK
<1>. QED BY <1>1, <1>2, TypesSplitNext

LEMMA SearchTypeOK ==
  ASSUME TypeOK, NEW c \in Callers, Search(c)
  PROVE  TypeOK'
<1>1. CASE SearchFound(c)
  <2>1. CacheTypes'
    BY <1>1, CacheStays DEF Search, SearchFound
  <2>2. CallerTypes'
    <3>1. PICK token \in Mints : found' = [found EXCEPT ![c] = token]
      BY <1>1 DEF SearchFound
    <3>2. /\ pc' = [pc EXCEPT ![c] = "upsert"]
          /\ UNCHANGED <<mint, copy, answer>>
      BY <1>1 DEF Search, SearchFound, GoTo
    <3>3. found' \in [Callers -> Meta] /\ pc' \in [Callers -> Steps]
      BY <3>1, <3>2, MetaTyped DEF TypeOK, Steps
    <3>4. \A d \in Callers : pc'[d] \in {"upsert", "publish"} => found'[d] # Unknown
      BY <3>1, <3>2, MetaTyped DEF TypeOK
    <3>. QED BY <3>2, <3>3, <3>4 DEF CallerTypes, TypeOK
  <2>. QED BY <2>1, <2>2, TypesSplitNext
<1>2. CASE SearchFailed(c)
  <2>1. CacheTypes'
    <3>1. background' \in [Mints -> Nat]
      BY <1>2 DEF SearchFailed, TypeOK
    <3>. QED BY <3>1 DEF Search, CacheTypes, TypeOK
  <2>2. CallerTypes'
    <3>1. answer' \in [Callers -> Meta] /\ pc' = [pc EXCEPT ![c] = "idle"] /\ found' = found
      BY <1>2, MetaTyped DEF SearchFailed, Return, TypeOK
    <3>. QED BY <3>1, CallerMoves DEF Search, Steps, TypeOK
  <2>. QED BY <2>1, <2>2, TypesSplitNext
<1>. QED BY <1>1, <1>2 DEF Search

LEMMA CopyTypeOK ==
  ASSUME TypeOK, NEW c \in Callers, Copy(c)
  PROVE  TypeOK'
<1>1. CacheTypes'
  BY CacheStays DEF Copy
<1>2. CallerTypes'
  <2>1. /\ pc[c] = "upsert" /\ pc' = [pc EXCEPT ![c] = "publish"]
        /\ copy' = [copy EXCEPT ![c] = [jupiterCache EXCEPT ![found[c]] = found[c]]]
        /\ UNCHANGED <<mint, found, answer>>
    BY DEF Copy, GoTo
  <2>2. [jupiterCache EXCEPT ![found[c]] = found[c]] \in [Mints -> Meta]
    BY DEF TypeOK
  <2>3. copy' \in [Callers -> [Mints -> Meta]]
    BY <2>1, <2>2 DEF TypeOK
  <2>4. pc' \in [Callers -> Steps]
    BY <2>1 DEF TypeOK, Steps
  <2>5. \A d \in Callers : pc'[d] \in {"upsert", "publish"} => found'[d] # Unknown
    BY <2>1 DEF TypeOK
  <2>. QED BY <2>1, <2>3, <2>4, <2>5 DEF CallerTypes, TypeOK
<1>. QED BY <1>1, <1>2, TypesSplitNext

LEMMA PublishTypeOK ==
  ASSUME TypeOK, NEW c \in Callers, Publish(c)
  PROVE  TypeOK'
<1>1. CacheTypes'
  <2>1. jupiterCache' \in [Mints -> Meta]
    BY DEF Publish, TypeOK
  <2>. QED BY <2>1 DEF Publish, CacheTypes, TypeOK
<1>2. CallerTypes'
  <2>1. answer' \in [Callers -> Meta] /\ pc' = [pc EXCEPT ![c] = "idle"]
    BY DEF Publish, Return, TypeOK
  <2>. QED BY <2>1, CallerMoves DEF Publish, Steps, TypeOK
<1>. QED BY <1>1, <1>2, TypesSplitNext

LEMMA FetchTypeOK ==
  ASSUME TypeOK, NEW m \in Mints, FetchFromDexScreener(m)
  PROVE  TypeOK'
<1>1. CallerTypes'
  BY CallersStay DEF FetchFromDexScreener
<1>2. background' \in [Mints -> Nat]
  BY DEF FetchFromDexScreener, DexStored, DexFailed, TypeOK
<1>3. CASE DexStored(m)
  <2>1. PICK token \in Mints : dexCache' = [dexCache EXCEPT ![m] = token]
    BY <1>3 DEF DexStored
  <2>2. dexCache' \in [Mints -> Meta]
    BY <2>1, MetaTyped DEF TypeOK
  <2>3. dexExpired' \subseteq {n \in Mints : dexCache'[n] # Unknown}
    BY <1>3, <2>1, MetaTyped DEF DexStored, TypeOK
  <2>4. CacheTypes'
    BY <1>2, <2>2, <2>3 DEF FetchFromDexScreener, CacheTypes, TypeOK
  <2>. QED BY <1>1, <2>4, TypesSplitNext
<1>4. CASE DexFailed(m)
  <2>1. CacheTypes'
    BY <1>2, <1>4 DEF DexFailed, FetchFromDexScreener, CacheTypes, TypeOK
  <2>. QED BY <1>1, <2>1, TypesSplitNext
<1>. QED BY <1>3, <1>4 DEF FetchFromDexScreener

LEMMA AgeTypeOK ==
  ASSUME TypeOK, NEW m \in Mints, Age(m)
  PROVE  TypeOK'
<1>1. CallerTypes'
  BY CallersStay DEF Age
<1>2. dexExpired' \subseteq {n \in Mints : dexCache'[n] # Unknown}
  BY DEF Age, TypeOK
<1>3. aged' \in 0 .. MaxAge
  BY MetadataAssumption DEF Age, TypeOK
<1>4. CacheTypes'
  BY <1>2, <1>3 DEF Age, CacheTypes, TypeOK
<1>. QED BY <1>1, <1>4, TypesSplitNext

\* The fetcher's state stays what its declarations say, for every instance; in
\* particular upsertJupiterCache never runs without a result (fetcher.go:193).
THEOREM TypeCorrect == Spec => []TypeOK
<1>1. TypeOK /\ [Next]_vars => TypeOK'
  <2> SUFFICES ASSUME TypeOK, [Next]_vars PROVE TypeOK'
    OBVIOUS
  <2>1. ASSUME NEW c \in Callers, CallStep(c) PROVE TypeOK'
    BY <2>1, LoadDexTypeOK, DeleteDexTypeOK, SearchTypeOK, CopyTypeOK, PublishTypeOK
       DEF CallStep
  <2>2. CASE Stop
    <3>1. CallerTypes'
      BY <2>2, CallersStay DEF Stop
    <3>2. CacheTypes'
      BY <2>2 DEF Stop, CacheTypes, TypeOK
    <3>. QED BY <3>1, <3>2, TypesSplitNext
  <2>3. CASE UNCHANGED vars
    <3>1. CallerTypes' /\ CacheTypes'
      BY <2>3, CallersStay, CacheStays DEF vars
    <3>. QED BY <3>1, TypesSplitNext
  <2>. QED BY <2>1, <2>2, <2>3, CallTypeOK, FetchTypeOK, AgeTypeOK DEF Next
<1>. QED BY <1>1, InitTypeOK, PTL DEF Spec

-----------------------------------------------------------------------------
\* A copy that is about to be published holds no token under another's mint
\* either, and neither do copies that have been: this is what makes the truth of
\* the cache inductive.
CopiesTruthful ==
  \A c \in Callers, m \in Mints : copy[c][m] \in {m, Unknown}

\* The Jupiter cache never holds a token under another's mint, whatever searches
\* answer and however the copies of upsertJupiterCache overtake each other.
THEOREM CacheIsTruthful == Spec => []JupiterCacheTruthful
<1> DEFINE Inv == CopiesTruthful /\ JupiterCacheTruthful
<1>1. Init => Inv
  BY DEF Init, CopiesTruthful, JupiterCacheTruthful
<1>2. TypeOK /\ Inv /\ [Next]_vars => Inv'
  <2> SUFFICES ASSUME TypeOK, CopiesTruthful, JupiterCacheTruthful, [Next]_vars
               PROVE  CopiesTruthful' /\ JupiterCacheTruthful'
    OBVIOUS
  <2>1. ASSUME NEW c \in Callers, Copy(c) PROVE CopiesTruthful' /\ JupiterCacheTruthful'
    <3>1. /\ copy' = [copy EXCEPT ![c] = [jupiterCache EXCEPT ![found[c]] = found[c]]]
          /\ jupiterCache' = jupiterCache
      BY <2>1 DEF Copy
    <3>2. ASSUME NEW d \in Callers, NEW m \in Mints PROVE copy'[d][m] \in {m, Unknown}
      <4>1. CASE d = c
        <5>1. copy'[d] = [jupiterCache EXCEPT ![found[c]] = found[c]]
          BY <3>1, <4>1 DEF TypeOK
        <5>2. [jupiterCache EXCEPT ![found[c]] = found[c]][m] \in {m, Unknown}
          BY DEF TypeOK, JupiterCacheTruthful
        <5>. QED BY <5>1, <5>2
      <4>2. CASE d # c
        BY <3>1, <4>2 DEF TypeOK, CopiesTruthful
      <4>. QED BY <4>1, <4>2
    <3>. QED BY <3>1, <3>2 DEF CopiesTruthful, JupiterCacheTruthful
  <2>2. ASSUME NEW c \in Callers, Publish(c) PROVE CopiesTruthful' /\ JupiterCacheTruthful'
    BY <2>2 DEF Publish, CopiesTruthful, JupiterCacheTruthful
  <2>3. CASE UNCHANGED <<copy, jupiterCache>>
    BY <2>3 DEF CopiesTruthful, JupiterCacheTruthful
  <2>4. \/ \E c \in Callers : Copy(c) \/ Publish(c)
        \/ UNCHANGED <<copy, jupiterCache>>
    BY DEF Next, Call, CallStep, LoadDex, DeleteDex, Search, FetchFromDexScreener, Age, Stop,
           vars, callerVars
  <2>. QED BY <2>1, <2>2, <2>3, <2>4
<1>. QED BY <1>1, <1>2, TypeCorrect, PTL DEF Spec

-----------------------------------------------------------------------------
\* The callers in a call.
Away == Steps \ {"idle"}

LEMMA InCall ==
  /\ CallerTypes => {c \in Callers : pc[c] # "idle"} = {c \in Callers : pc[c] \in Away}
  /\ CallerTypes' => {c \in Callers : pc'[c] # "idle"} = {c \in Callers : pc'[c] \in Away}
BY DEF CallerTypes, Away

\* A caller's move from one step to another changes the number of those in a call.
LEMMA CallersMove ==
  ASSUME IsFiniteSet(Callers), TypeOK, NEW c \in Callers, NEW step \in Steps,
         pc' = [pc EXCEPT ![c] = step]
  PROVE  /\ NumAt(pc, Callers, Away) \in Nat
         /\ NumAt(pc', Callers, Away)
              = NumAt(pc, Callers, Away) - Bit(pc[c], Away) + Bit(step, Away)
<1>1. pc \in [Callers -> Steps]
  BY DEF TypeOK, Steps
<1>2. Moves(pc, [pc EXCEPT ![c] = step], Callers, pc[c], step)
  BY <1>1, IsFiniteSet(Callers), MovesOne
<1>. QED BY <1>2 DEF Moves

\* The bound of BackgroundBounded, by the function it counts in.
Bounded(m) == background[m] <= calls - NumAt(pc, Callers, Away)

LEMMA BoundedNamed ==
  /\ CallerTypes => (BackgroundBounded <=> \A m \in Mints : Bounded(m))
  /\ CallerTypes' => (BackgroundBounded' <=> \A m \in Mints : Bounded(m)')
BY InCall DEF BackgroundBounded, Bounded, NumAt

\* A search that ends without a result takes its caller out of the call and leaves
\* one goroutine; every other step lets the bound grow or leaves it.
LEMMA StepBounded ==
  ASSUME IsFiniteSet(Callers), TypeOK, [Next]_vars, NEW m \in Mints, Bounded(m)
  PROVE  Bounded(m)'
<1>0. background \in [Mints -> Nat] /\ calls \in Nat /\ background[m] \in Nat
  BY MetadataAssumption DEF TypeOK
<1>1. ASSUME NEW c \in Callers, NEW step \in Steps, pc' = [pc EXCEPT ![c] = step],
             background' = background,
             \/ pc[c] = "idle" /\ calls' = calls + 1
             \/ pc[c] # "idle" /\ calls' = calls
      PROVE  Bounded(m)'
  <2>1. /\ NumAt(pc, Callers, Away) \in Nat
        /\ NumAt(pc', Callers, Away)
             = NumAt(pc, Callers, Away) - Bit(pc[c], Away) + Bit(step, Away)
    BY <1>1, CallersMove
  <2>2. pc[c] \in Steps
    BY DEF TypeOK, Steps
  <2>3. /\ Bit(step, Away) \in {0, 1}
        /\ Bit(pc[c], Away) = IF pc[c] = "idle" THEN 0 ELSE 1
    BY <2>2 DEF Bit, Away
  <2>4. NumAt(pc', Callers, Away) <= NumAt(pc, Callers, Away) + (calls' - calls)
    BY <1>0, <1>1, <2>1, <2>3
  <2>5. NumAt(pc', Callers, Away) \in Int /\ calls' \in Int
    BY <1>0, <1>1, <2>1, <2>3
  <2>. QED BY <1>0, <1>1, <2>1, <2>4, <2>5 DEF Bounded
<1>2. ASSUME NEW c \in Callers, pc[c] = "search", pc' = [pc EXCEPT ![c] = "idle"],
             NEW n \in Mints, background' = [background EXCEPT ![n] = @ + 1], calls' = calls
      PROVE  Bounded(m)'
  <2>1. /\ NumAt(pc, Callers, Away) \in Nat
        /\ NumAt(pc', Callers, Away)
             = NumAt(pc, Callers, Away) - Bit(pc[c], Away) + Bit("idle", Away)
    BY <1>2, CallersMove DEF Steps
  <2>2. Bit(pc[c], Away) = 1 /\ Bit("idle", Away) = 0
    BY <1>2 DEF Bit, Away, Steps
  <2>3. background'[m] \in Nat /\ background'[m] <= background[m] + 1
    BY <1>0, <1>2
  <2>4. NumAt(pc', Callers, Away) = NumAt(pc, Callers, Away) - 1
    BY <2>1, <2>2
  <2>. QED BY <1>0, <1>2, <2>1, <2>3, <2>4 DEF Bounded
<1>3. ASSUME pc' = pc, calls' = calls, background'[m] \in Nat, background'[m] <= background[m]
      PROVE  Bounded(m)'
  <2>1. NumAt(pc, Callers, Away) \in Nat
    BY IsFiniteSet(Callers), FS_Subset, FS_CardinalityType DEF NumAt
  <2>. QED BY <1>0, <1>3, <2>1 DEF Bounded
<1>4. ASSUME NEW c \in Callers, NEW n \in Mints, Call(c, n) PROVE Bounded(m)'
  <2>1. PICK step \in Steps : pc' = [pc EXCEPT ![c] = step]
    BY <1>4 DEF Call, Return, GoTo, Steps
  <2>. QED BY <1>1, <1>4, <2>1 DEF Call
<1>5. ASSUME NEW c \in Callers, CallStep(c), ~(Search(c) /\ SearchFailed(c)) PROVE Bounded(m)'
  <2>1. /\ \E step \in Steps : pc' = [pc EXCEPT ![c] = step]
        /\ background' = background /\ pc[c] # "idle" /\ calls' = calls
    BY <1>5 DEF CallStep, LoadDex, DeleteDex, Search, SearchFound, Copy, Publish, Return, GoTo,
                Steps
  <2>. QED BY <1>1, <2>1
<1>6. ASSUME NEW c \in Callers, Search(c), SearchFailed(c) PROVE Bounded(m)'
  <2>1. mint[c] \in Mints
    BY DEF TypeOK
  <2>. QED BY <1>2, <1>6, <2>1 DEF Search, SearchFailed, Return
<1>7. ASSUME NEW n \in Mints, FetchFromDexScreener(n) PROVE Bounded(m)'
  <2>1. /\ background[n] > 0 /\ background' = [background EXCEPT ![n] = @ - 1]
        /\ pc' = pc /\ calls' = calls
    BY <1>7 DEF FetchFromDexScreener, DexStored, DexFailed, callerVars
  <2>2. background'[m] \in Nat /\ background'[m] <= background[m]
    BY <1>0, <2>1
  <2>. QED BY <1>3, <2>1, <2>2
<1>8. CASE (\E n \in Mints : Age(n)) \/ Stop \/ UNCHANGED vars
  <2>1. pc' = pc /\ calls' = calls /\ background' = background
    BY <1>8 DEF Age, Stop, vars, callerVars
  <2>. QED BY <1>0, <1>3, <2>1
<1>. QED BY <1>4, <1>5, <1>6, <1>7, <1>8 DEF Next, CallStep

\* However calls for one mint pile up, each leaves at most one goroutine behind and
\* only when it has returned without an answer (fetcher.go:103).
THEOREM BackgroundIsBounded ==
  ASSUME IsFiniteSet(Callers)
  PROVE  Spec => []BackgroundBounded
<1>1. Init => BackgroundBounded
  <2> SUFFICES ASSUME Init PROVE BackgroundBounded
    OBVIOUS
  <2>1. {c \in Callers : pc[c] # "idle"} = {}
    BY DEF Init
  <2>2. Cardinality({c \in Callers : pc[c] # "idle"}) = 0
    BY <2>1, FS_EmptySet
  <2>. QED BY <2>2 DEF Init, BackgroundBounded
<1>2. TypeOK /\ TypeOK' /\ BackgroundBounded /\ [Next]_vars => BackgroundBounded'
  <2> SUFFICES ASSUME TypeOK, TypeOK', BackgroundBounded, [Next]_vars
               PROVE  BackgroundBounded'
    OBVIOUS
  <2>1. CallerTypes /\ CallerTypes'
    BY TypesSplit, TypesSplitNext
  <2>2. \A m \in Mints : Bounded(m)
    BY <2>1, BoundedNamed
  <2>3. \A m \in Mints : Bounded(m)'
    BY <2>2, StepBounded, IsFiniteSet(Callers)
  <2>. QED BY <2>1, <2>3, BoundedNamed
<1>. QED BY <1>1, <1>2, TypeCorrect, PTL DEF Spec
-----------------------------------------------------------------------------
\* A copy about to be published holds every token the cache has learned.
CopyIsFresh ==
  \A c \in Callers, m \in Mints :
    pc[c] = "publish" /\ jupiterCache[m] # Unknown => copy[c][m] # Unknown

\* Only overlapping calls lose entries of the Jupiter cache: where one goroutine
\* makes all the calls, the copy upsertJupiterCache stores is never behind the
\* pointer it replaces (fetcher.go:199), whatever searches answer.
THEOREM AloneNothingIsForgotten ==
  ASSUME \A c, d \in Callers : c = d
  PROVE  Spec => JupiterCacheGrows
<1> DEFINE Learned == \A m \in Mints : jupiterCache[m] # Unknown => jupiterCache'[m] # Unknown
<1>1. Init => CopyIsFresh
  BY DEF Init, CopyIsFresh
<1>2. TypeOK /\ CopyIsFresh /\ [Next]_vars => CopyIsFresh' /\ Learned
  <2> SUFFICES ASSUME TypeOK, CopyIsFresh, [Next]_vars PROVE CopyIsFresh' /\ Learned
    OBVIOUS
  <2>1. ASSUME NEW c \in Callers, Copy(c) PROVE CopyIsFresh' /\ Learned
    <3>1. /\ copy' = [copy EXCEPT ![c] = [jupiterCache EXCEPT ![found[c]] = found[c]]]
          /\ jupiterCache' = jupiterCache /\ found[c] # Unknown
      BY <2>1 DEF Copy, TypeOK
    <3>2. copy'[c] = [jupiterCache EXCEPT ![found[c]] = found[c]]
      BY <3>1 DEF TypeOK
    <3>3. \A m \in Mints : jupiterCache[m] # Unknown => copy'[c][m] # Unknown
      BY <3>1, <3>2 DEF TypeOK
    <3>. QED BY <3>1, <3>3 DEF CopyIsFresh
  <2>2. ASSUME NEW c \in Callers, Publish(c) PROVE CopyIsFresh' /\ Learned
    <3>1. /\ pc[c] = "publish" /\ jupiterCache' = copy[c]
          /\ pc' = [pc EXCEPT ![c] = "idle"]
      BY <2>2 DEF Publish, Return
    <3>2. \A d \in Callers : pc'[d] # "publish"
      BY <3>1 DEF TypeOK
    <3>. QED BY <3>1, <3>2 DEF CopyIsFresh
  <2>3. ASSUME NEW c \in Callers, NEW step \in Steps \ {"publish"},
               pc' = [pc EXCEPT ![c] = step], UNCHANGED <<copy, jupiterCache>>
        PROVE  CopyIsFresh' /\ Learned
    <3>1. \A d \in Callers : pc'[d] = "publish" => pc[d] = "publish"
      BY <2>3 DEF TypeOK
    <3>. QED BY <2>3, <3>1 DEF CopyIsFresh
  <2>4. CASE UNCHANGED <<pc, copy, jupiterCache>>
    BY <2>4 DEF CopyIsFresh
  <2>5. \/ \E c \in Callers : Copy(c) \/ Publish(c)
        \/ \E c \in Callers, step \in Steps \ {"publish"} :
             pc' = [pc EXCEPT ![c] = step] /\ UNCHANGED <<copy, jupiterCache>>
        \/ UNCHANGED <<pc, copy, jupiterCache>>
    <3>1. ASSUME NEW c \in Callers, (\E m \in Mints : Call(c, m)) \/ CallStep(c)
          PROVE  \/ Copy(c) \/ Publish(c)
                 \/ \E step \in Steps \ {"publish"} :
                      pc' = [pc EXCEPT ![c] = step] /\ UNCHANGED <<copy, jupiterCache>>
      BY <3>1 DEF Call, CallStep, LoadDex, DeleteDex, Search, SearchFound, SearchFailed, Return,
                  GoTo, Steps
    <3>2. ASSUME \/ \E m \in Mints : FetchFromDexScreener(m) \/ Age(m)
                 \/ Stop \/ UNCHANGED vars
          PROVE  UNCHANGED <<pc, copy, jupiterCache>>
      BY <3>2 DEF FetchFromDexScreener, Age, Stop, callerVars, vars
    <3>. QED BY <3>1, <3>2 DEF Next
  <2>. QED BY <2>1, <2>2, <2>3, <2>4, <2>5
<1>. QED BY <1>1, <1>2, TypeCorrect, PTL DEF Spec, JupiterCacheGrows

=============================================================================
