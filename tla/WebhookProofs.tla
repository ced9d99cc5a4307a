---------------------------- MODULE WebhookProofs ----------------------------
(***************************************************************************)
(* Theorems about a request to WebHookHandler, for payloads of any length  *)
(* with any transactions, and for every set of stablecoins, minimum input  *)
(* and maximum market cap.  The lemmas are about the detector: what its    *)
(* picks return, and what ExtractSwapInfo lets through.                    *)
(***************************************************************************)
EXTENDS Webhook, WellFoundedInduction, TLAPS

-----------------------------------------------------------------------------
(* The detector *)

\* A set of numbers that is not empty has a least one.
LEMMA MinIn ==
  ASSUME NEW I, I \subseteq Nat, I # {}
  PROVE  Min(I) \in I
<1> DEFINE R == OpToRel(<, Nat)
<1>1. IsWellFoundedOn(R, Nat)
  BY NatLessThanWellFounded
<1>2. \A m, n \in Nat : n < m => <<n, m>> \in R
  BY DEF OpToRel
<1> HIDE DEF R
<1>3. \E m \in I : \A n \in I : ~(<<n, m>> \in R)
  BY <1>1, WFMin, Zenon
<1>4. PICK m \in I : \A n \in I : ~(<<n, m>> \in R)
  BY <1>3
<1>5. ASSUME NEW n \in I PROVE m <= n
  <2>1. n \in Nat /\ m \in Nat /\ ~(<<n, m>> \in R)
    BY <1>4
  <2>2. ~(n < m)
    BY <1>2, <2>1
  <2> QED BY <2>1, <2>2
<1> QED BY <1>4, <1>5 DEF Min

\* Place k of the list is the account's own wherever the list has one, and the
\* first where there is no account to look for.
Owned(q, a, k) ==
  /\ a = "" => k = 1
  /\ a # "" /\ (\E j \in 1 .. Len(q) : q[j].userAccount = a) => q[k].userAccount = a

\* The two picks of the detector return such an element.
LEMMA PickFinds ==
  ASSUME NEW S, NEW q \in Seq(S), q # <<>>, NEW a
  PROVE  \E k \in 1 .. Len(q) : Pick(q, a) = q[k] /\ Owned(q, a, k)
<1> DEFINE I == {i \in 1 .. Len(q) : q[i].userAccount = a}
           own == IF I # {} THEN Min(I) ELSE 0
           k == IF a = "" \/ own = 0 THEN 1 ELSE own
<1>1. Pick(q, a) = q[k]
  BY DEF Pick, SelectInSeq
<1>2. 1 \in 1 .. Len(q) /\ Len(q) \in Nat
  OBVIOUS
<1>3. I \subseteq 1 .. Len(q) /\ I \subseteq Nat
  BY <1>2
<1>4. I # {} => own \in I /\ own # 0
  <2>1. I # {} => Min(I) \in I
    <3> HIDE DEF I
    <3> QED BY <1>3, MinIn
  <2> QED BY <1>3, <2>1
<1>5. k \in 1 .. Len(q)
  <2>1. CASE I = {}
    BY <1>2, <2>1
  <2>2. CASE I # {}
    <3> HIDE DEF I, own
    <3> QED BY <1>2, <1>3, <1>4, <2>2
  <2> QED BY <2>1, <2>2
<1>6. a = "" => k = 1
  OBVIOUS
<1>7. ASSUME a # "", NEW j \in 1 .. Len(q), q[j].userAccount = a
      PROVE  q[k].userAccount = a
  <2>1. j \in I
    BY <1>7
  <2>2. own \in I /\ own # 0
    BY <1>4, <2>1
  <2>3. k = own
    BY <1>7, <2>2
  <2> HIDE DEF k, own
  <2> QED BY <2>2, <2>3
<1> HIDE DEF k, own, I
<1>8. Owned(q, a, k)
  BY <1>6, <1>7 DEF Owned
<1> QED BY <1>1, <1>5, <1>8

\* What the detector reads of the lists and pointers of a transaction.
LEMMA TxTypes ==
  ASSUME NEW t \in WebhookTx
  PROVE  /\ t.tokenInputs \in Seq(TokenAmountEvent) /\ t.tokenOutputs \in Seq(TokenAmountEvent)
         /\ t.nativeInput # <<>> => t.nativeInput[1].amount \in Amount
         /\ t.nativeOutput # <<>> => t.nativeOutput[1].amount \in Amount
<1>1. ASSUME NEW q \in Pointer(NativeAmount), q # <<>> PROVE q[1].amount \in Amount
  <2>1. q \in Seq(NativeAmount) /\ q # <<>>
    BY <1>1 DEF Pointer
  <2>2. q[1] \in NativeAmount
    BY <2>1
  <2> QED BY <2>2 DEF NativeAmount
<1>2. /\ t.tokenInputs \in Seq(TokenAmountEvent) /\ t.tokenOutputs \in Seq(TokenAmountEvent)
      /\ t.nativeInput \in Pointer(NativeAmount) /\ t.nativeOutput \in Pointer(NativeAmount)
  BY DEF WebhookTx
<1> QED BY <1>1, <1>2

LEMMA InputTypes ==
  ASSUME NEW t \in WebhookTx
  PROVE  InputSide(t).sol \in Nat
<1>1. t.nativeInput # <<>> => t.nativeInput[1].amount \in Amount
  BY TxTypes
<1>2. \A n \in Amount : Parses(n) => n \in Nat
  BY DEF Amount, Parses, NotANumber
<1>3. CASE t.tokenInputs # <<>>
  BY <1>3 DEF InputSide
<1>4. CASE t.tokenInputs = <<>> /\ t.nativeInput # <<>>
  BY <1>1, <1>2, <1>4 DEF InputSide
<1>5. CASE t.tokenInputs = <<>> /\ t.nativeInput = <<>>
  BY <1>5 DEF InputSide
<1> QED BY <1>3, <1>4, <1>5

LEMMA OutputTypes ==
  ASSUME NEW t \in WebhookTx, NEW in, in.sol \in Nat
  PROVE  OutputSide(t, in).sol \in Nat /\ OutputSide(t, in).amount \in Amount
<1>1. t.nativeOutput # <<>> => t.nativeOutput[1].amount \in Amount
  BY TxTypes
<1>2. \A n \in Amount : Parses(n) => n \in Nat
  BY DEF Amount, Parses, NotANumber
<1>3. CASE t.tokenOutputs # <<>>
  <2>1. t.tokenOutputs \in Seq(TokenAmountEvent)
    BY TxTypes
  <2>2. PICK k \in 1 .. Len(t.tokenOutputs) : Pick(t.tokenOutputs, in.swapper) = t.tokenOutputs[k]
    BY <1>3, <2>1, PickFinds
  <2>3. t.tokenOutputs[k] \in TokenAmountEvent
    BY <2>1
  <2>4. t.tokenOutputs[k].amount \in Amount
    BY <2>3 DEF TokenAmountEvent
  <2> QED BY <1>3, <2>2, <2>4 DEF OutputSide
<1>4. CASE t.tokenOutputs = <<>> /\ t.nativeOutput # <<>>
  BY <1>1, <1>2, <1>4 DEF OutputSide
<1>5. CASE t.tokenOutputs = <<>> /\ t.nativeOutput = <<>>
  BY <1>5 DEF OutputSide, Amount
<1> QED BY <1>3, <1>4, <1>5

\* A swap that is extracted is that of the output side, and passed the filters.
LEMMA Extracted ==
  ASSUME NEW t, NEW cap, ExtractSwapInfo(t, cap) # NoInfo
  PROVE  LET in  == InputSide(t)
             out == OutputSide(t, in)
             i   == ExtractSwapInfo(t, cap)
         IN  /\ ~Filtered(t, out, cap)
             /\ i.timestamp = t.timestamp /\ i.swapper = out.swapper
             /\ i.inputMint = in.mint /\ i.outputMint = out.mint
             /\ i.outputAmount = out.amount /\ i.amountInSOL = out.sol
             /\ i.marketCap = CapSeen(out, cap)
BY DEF ExtractSwapInfo

-----------------------------------------------------------------------------
(* A request *)

\* The request knows the transaction it examined last, what the detector made of
\* it and that it validated what it enqueued.  TypeOK and the two properties of
\* what is enqueued and reported follow from it, whatever the transactions are.
Examined ==
  /\ tx = <<>> => info = NoInfo /\ outcome = "none" /\ knownCap = 0
  /\ tx # <<>> => \E t \in Txs : /\ tx = <<t>> /\ knownCap \in Caps
                                 /\ info = ExtractSwapInfo(t, knownCap)
  /\ outcome = "enqueued" => info # NoInfo /\ Valid(info)

\* The status and the counters of a request.
Progress ==
  /\ status \in {"none", "401", "400", "200"}
  /\ left \in 0 .. MaxPayload
  /\ outcome \in {"none", "filtered", "invalid", "full", "enqueued"}
  /\ accepted \in Nat /\ enqueued \in Nat

LEMMA InitExamined == Init => Examined /\ Progress
BY DEF Init, Examined, Progress

LEMMA ExamineStep ==
  ASSUME Progress, NEW t \in Txs, NEW cap \in Caps, Examine(t, cap)
  PROVE  Examined' /\ Progress'
<1> DEFINE i == ExtractSwapInfo(t, cap)
<1>1. /\ left > 0 /\ left' = left - 1 /\ tx' = <<t>> /\ knownCap' = cap /\ info' = i
      /\ Filter(i) \/ IngestInvalid(i) \/ IngestFull(i) \/ IngestEnqueued(i)
  BY DEF Examine
<1> HIDE DEF i
<1>2. /\ outcome' \in {"filtered", "invalid", "full", "enqueued"}
      /\ outcome' = "enqueued" => i # NoInfo /\ Valid(i)
      /\ status' = status /\ accepted' \in {accepted, accepted + 1}
      /\ enqueued' \in {enqueued, enqueued + 1}
  BY <1>1 DEF Filter, IngestInvalid, IngestFull, IngestEnqueued
<1>3. Progress'
  BY <1>1, <1>2, WebhookAssumption DEF Progress
<1>4. tx' # <<>>
  BY <1>1
<1>5. info' = ExtractSwapInfo(t, cap)
  BY <1>1 DEF i
<1>6. outcome' = "enqueued" => info' # NoInfo /\ Valid(info')
  BY <1>1, <1>2
<1>7. Examined'
  BY <1>1, <1>4, <1>5, <1>6 DEF Examined
<1> QED BY <1>3, <1>7

LEMMA NextExamined == Examined /\ Progress /\ [Next]_vars => (Examined /\ Progress)'
<1> SUFFICES ASSUME Examined, Progress, [Next]_vars PROVE Examined' /\ Progress'
  OBVIOUS
<1>1. CASE Refuse
  BY <1>1 DEF Refuse, Examined, Progress
<1>2. ASSUME NEW t \in Txs, NEW cap \in Caps, Examine(t, cap) PROVE Examined' /\ Progress'
  BY <1>2, ExamineStep
<1>3. CASE Respond
  BY <1>3 DEF Respond, Examined, Progress
<1>4. CASE UNCHANGED vars
  BY <1>4 DEF vars, Examined, Progress
<1> QED BY <1>1, <1>2, <1>3, <1>4 DEF Next

LEMMA AlwaysExamined == Spec => [](Examined /\ Progress)
BY InitExamined, NextExamined, PTL DEF Spec

\* The numbers of what was extracted, whichever transaction it was.
LEMMA InfoTypes ==
  ASSUME Examined, info # NoInfo
  PROVE  \E t \in Txs :
           /\ tx = <<t>> /\ tx[1] = t /\ t \in WebhookTx /\ knownCap \in Caps
           /\ LET in  == InputSide(t)
                  out == OutputSide(t, in)
              IN  /\ in.sol \in Nat /\ out.sol \in Nat /\ out.amount \in Amount
                  /\ ~Filtered(t, out, knownCap)
                  /\ info.timestamp = t.timestamp /\ info.swapper = out.swapper
                  /\ info.inputMint = in.mint /\ info.outputMint = out.mint
                  /\ info.outputAmount = out.amount /\ info.amountInSOL = out.sol
                  /\ info.marketCap = CapSeen(out, knownCap)
<1>1. PICK t \in Txs : tx = <<t>> /\ knownCap \in Caps /\ info = ExtractSwapInfo(t, knownCap)
  BY DEF Examined
<1>2. t \in WebhookTx /\ tx[1] = t
  BY <1>1, WebhookAssumption
<1>3. InputSide(t).sol \in Nat
  BY <1>2, InputTypes
<1>4. OutputSide(t, InputSide(t)).sol \in Nat /\ OutputSide(t, InputSide(t)).amount \in Amount
  BY <1>2, <1>3, OutputTypes
<1> QED BY <1>1, <1>2, <1>3, <1>4, Extracted

LEMMA ExaminedTypes == Examined /\ Progress => TypeOK
<1> SUFFICES ASSUME Examined, Progress PROVE TypeOK
  OBVIOUS
<1>1. tx = <<>> \/ tx[1] \in Txs
  BY DEF Examined
<1>2. knownCap \in Caps \cup {0}
  BY DEF Examined
<1>3. ASSUME info # NoInfo
      PROVE  /\ info.amountInSOL \in Nat /\ info.outputAmount \in Nat \cup {NotANumber}
             /\ info.marketCap \in Caps \cup {0}
  <2>1. info.amountInSOL \in Nat /\ info.outputAmount \in Amount
    BY <1>3, InfoTypes
  <2>2. info.marketCap \in {0, knownCap}
    BY <1>3, InfoTypes DEF CapSeen
  <2> QED BY <1>2, <2>1, <2>2 DEF Amount
<1> QED BY <1>1, <1>2, <1>3 DEF Progress, TypeOK

\* The request's variables keep their types: the amounts the detector reports
\* are numbers whatever the texts of the payload are (parseUint64).
THEOREM TypeCorrect == Spec => []TypeOK
BY AlwaysExamined, ExaminedTypes, PTL

LEMMA ExaminedEligible == Examined => EnqueuedIsEligible
<1> SUFFICES ASSUME Examined, outcome = "enqueued"
             PROVE  /\ info.outputAmount > 0 /\ info.timestamp > 0
                    /\ info.outputMint \notin StablecoinMints
                    /\ info.outputMint = "SOL" \/ tx[1].tokenOutputs # <<>>
                    /\ knownCap < MaxCapUSD
                    /\ info.inputMint = "SOL" /\ tx[1].tokenOutputs # <<>>
                         => info.amountInSOL = 0 \/ info.amountInSOL >= MinInputSOL
  BY DEF EnqueuedIsEligible
<1>1. /\ info # NoInfo /\ info.outputMint # "" /\ info.timestamp > 0 /\ info.outputAmount > 0
  BY DEF Examined, Valid
<1>2. PICK t \in Txs :
        /\ tx[1] = t
        /\ OutputSide(t, InputSide(t)).sol \in Nat
        /\ ~Filtered(t, OutputSide(t, InputSide(t)), knownCap)
        /\ info.outputMint = OutputSide(t, InputSide(t)).mint
        /\ info.amountInSOL = OutputSide(t, InputSide(t)).sol
  BY <1>1, InfoTypes
<1> DEFINE out == OutputSide(t, InputSide(t))
<1>3. t.tokenOutputs = <<>> => out.mint \in {"SOL", ""}
  BY DEF OutputSide
<1> HIDE DEF out
<1>4. /\ out.sol \in Nat /\ info.outputMint = out.mint /\ info.amountInSOL = out.sol
      /\ ~(t.tokenOutputs # <<>> /\ out.mint \in StablecoinMints)
      /\ ~(0 < out.sol /\ out.sol < MinInputSOL)
      /\ IsAllowed(CapSeen(out, knownCap))
  BY <1>2 DEF Filtered, out
<1>5. info.outputMint = "SOL" \/ t.tokenOutputs # <<>>
  BY <1>1, <1>3, <1>4
<1>6. info.outputMint \notin StablecoinMints
  BY <1>4, <1>5, DetectorAssumption
<1>7. knownCap < MaxCapUSD
  BY <1>1, <1>4 DEF CapSeen, IsAllowed
<1>8. info.amountInSOL = 0 \/ info.amountInSOL >= MinInputSOL
  BY <1>4, DetectorAssumption
<1> QED BY <1>1, <1>2, <1>5, <1>6, <1>7, <1>8

\* Whatever the payload and the metadata, only what the filters and the
\* validation together allow enters the engine (ExtractSwapInfoWithOptions,
\* IngestSwapInfo): no transaction slips between the two.
THEOREM OnlyEligibleEnters == Spec => []EnqueuedIsEligible
BY AlwaysExamined, ExaminedEligible, PTL

LEMMA ExaminedOutput == Examined => OutputIsSwappers
<1> SUFFICES ASSUME Examined, info # NoInfo, tx[1].tokenOutputs # <<>>,
                    NEW j \in DOMAIN tx[1].tokenOutputs,
                    tx[1].tokenOutputs[j].userAccount = info.swapper
             PROVE  \E k \in DOMAIN tx[1].tokenOutputs :
                      /\ tx[1].tokenOutputs[k].userAccount = info.swapper
                      /\ tx[1].tokenOutputs[k].mint = info.outputMint
                      /\ tx[1].tokenOutputs[k].amount = info.outputAmount
  BY DEF OutputIsSwappers
<1>1. PICK t \in Txs :
        /\ tx[1] = t /\ t \in WebhookTx
        /\ info.swapper = OutputSide(t, InputSide(t)).swapper
        /\ info.outputMint = OutputSide(t, InputSide(t)).mint
        /\ info.outputAmount = OutputSide(t, InputSide(t)).amount
  BY InfoTypes
<1> DEFINE outs == t.tokenOutputs
           a == InputSide(t).swapper
<1>2. outs \in Seq(TokenAmountEvent) /\ outs # <<>>
  BY <1>1, TxTypes
<1>3. DOMAIN outs = 1 .. Len(outs)
  BY <1>2
<1>4. /\ info.outputMint = Pick(outs, a).mint /\ info.outputAmount = Pick(outs, a).amount
      /\ info.swapper = IF a = "" THEN Pick(outs, a).userAccount ELSE a
  BY <1>1, <1>2 DEF OutputSide, OrElse
<1> HIDE DEF outs, a
<1>5. PICK k \in 1 .. Len(outs) :
        /\ Pick(outs, a) = outs[k]
        /\ a = "" => k = 1
        /\ a # "" /\ (\E i \in 1 .. Len(outs) : outs[i].userAccount = a) => outs[k].userAccount = a
  <2>1. PICK k \in 1 .. Len(outs) : Pick(outs, a) = outs[k] /\ Owned(outs, a, k)
    BY <1>2, PickFinds
  <2> QED BY <2>1 DEF Owned
<1>6. j \in 1 .. Len(outs) /\ outs[j].userAccount = info.swapper
  BY <1>1, <1>3 DEF outs
<1>7. outs[k].userAccount = info.swapper
  BY <1>4, <1>5, <1>6
<1>8. /\ outs[k].userAccount = info.swapper /\ outs[k].mint = info.outputMint
      /\ outs[k].amount = info.outputAmount /\ k \in DOMAIN outs
  BY <1>3, <1>4, <1>5, <1>7
<1> QED BY <1>1, <1>8 DEF outs

\* The output that is reported belongs to the reported swapper whenever the
\* swapper has any, however many outputs and inputs the transaction lists.
THEOREM ReportsOwnOutput == Spec => []OutputIsSwappers
BY AlwaysExamined, ExaminedOutput, PTL

\* A request that was let in ends with 200 and nothing left, whatever the engine
\* and the detector make of its transactions (the loop of WebHookHandler).
THEOREM NothingIsLeft == Spec => []AllExamined
<1>1. Init => AllExamined
  BY DEF Init, AllExamined
<1>2. AllExamined /\ [Next]_vars => AllExamined'
  <2> SUFFICES ASSUME AllExamined, [Next]_vars PROVE AllExamined'
    OBVIOUS
  <2>1. CASE Refuse
    BY <2>1 DEF Refuse, AllExamined
  <2>2. ASSUME NEW t \in Txs, NEW cap \in Caps, Examine(t, cap) PROVE AllExamined'
    <3>1. status = "none" /\ status' = status
      BY <2>2 DEF Examine, Filter, IngestInvalid, IngestFull, IngestEnqueued
    <3> QED BY <3>1 DEF AllExamined
  <2>3. CASE Respond
    BY <2>3 DEF Respond, AllExamined
  <2>4. CASE UNCHANGED vars
    BY <2>4 DEF vars, AllExamined
  <2> QED BY <2>1, <2>2, <2>3, <2>4 DEF Next
<1> QED BY <1>1, <1>2, PTL DEF Spec
=============================================================================
