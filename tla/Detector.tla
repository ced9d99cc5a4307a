------------------------------ MODULE Detector ------------------------------
(***************************************************************************)
(* The swap detector and the market cap filter as pure operators:          *)
(* ExtractSwapInfoWithOptions with its two picks                           *)
(* (core/internal/detector/detector.go) and IsAllowed                      *)
(* (core/internal/filter/marketcap.go).                                    *)
(*                                                                         *)
(* A transaction keeps the fields that decide what is detected: whether it *)
(* is a swap at all, its timestamp and fee payer, its token inputs and     *)
(* outputs, and its native input and output, a pointer being a sequence of *)
(* length at most one.  An account or mint may be "", as in the code.  An  *)
(* amount is the number its text denotes; NotANumber stands for every text *)
(* ParseUint rejects, the empty one included.                              *)
(***************************************************************************)
EXTENDS Integers, Sequences, SequencesExt

CONSTANTS
  StablecoinMints,  \* core.StablecoinMints
  MinInputSOL,      \* minInputSOL, 0.3 SOL in lamports
  MaxCapUSD,        \* MarketCapFilter.maxCapUSD
  NoInfo            \* a nil *SwapInfo

ASSUME DetectorAssumption ==
  /\ "SOL" \notin StablecoinMints
  /\ MinInputSOL \in Nat \ {0}
  /\ MaxCapUSD \in Nat \ {0}

NotANumber == -1
Parses(amount) == amount >= 0

\* What the detector reads of HeliusEnhancedWebhookTx and of the types in it.
Amount == Nat \cup {NotANumber}
TokenAmountEvent == [userAccount : STRING, mint : STRING, amount : Amount]
NativeAmount == [account : STRING, amount : Amount]
Pointer(S) == {q \in Seq(S) : Len(q) <= 1}

WebhookTx ==
  [ isSwap : BOOLEAN, timestamp : Int, feePayer : STRING,
    tokenInputs  : Seq(TokenAmountEvent), nativeInput  : Pointer(NativeAmount),
    tokenOutputs : Seq(TokenAmountEvent), nativeOutput : Pointer(NativeAmount) ]

IsAllowed(cap) == cap < MaxCapUSD

\* Bug: the first event of the list, whoever it belongs to.
PickFirst(events, swapper) == events[1]

\* pickOutputForSwapper and pickInputForSwapper, for a list that is not empty:
\* the first event of the swapper, or the first of all.
Pick(events, swapper) ==
  LET own == SelectInSeq(events, LAMBDA e : e.userAccount = swapper)
  IN  events[IF swapper = "" \/ own = 0 THEN 1 ELSE own]

\* The account, or a later candidate where it is empty.
OrElse(account, candidate) == IF account = "" THEN candidate ELSE account

\* Bug: the error of parseUint64 is ignored.
InputSideUnchecked(tx) ==
  IF tx.tokenInputs # <<>>
    THEN LET in == Pick(tx.tokenInputs, tx.feePayer)
         IN  [mint |-> in.mint, sol |-> 0, swapper |-> OrElse(tx.feePayer, in.userAccount)]
  ELSE IF tx.nativeInput # <<>>
    THEN LET in == tx.nativeInput[1]
         IN  [mint |-> "SOL", sol |-> in.amount, swapper |-> OrElse(tx.feePayer, in.account)]
  ELSE [mint |-> "", sol |-> 0, swapper |-> tx.feePayer]

\* Input side: the swapper known after it and the lamports paid.
InputSide(tx) ==
  IF tx.tokenInputs # <<>>
    THEN LET in == Pick(tx.tokenInputs, tx.feePayer)
         IN  [mint |-> in.mint, sol |-> 0, swapper |-> OrElse(tx.feePayer, in.userAccount)]
  ELSE IF tx.nativeInput # <<>>
    THEN LET in == tx.nativeInput[1]
         IN  [mint |-> "SOL", sol |-> IF Parses(in.amount) THEN in.amount ELSE 0,
              swapper |-> OrElse(tx.feePayer, in.account)]
  ELSE [mint |-> "", sol |-> 0, swapper |-> tx.feePayer]

\* Output side, given what the input side left; a native output overwrites the
\* lamports paid with the lamports received.
OutputSide(tx, in) ==
  IF tx.tokenOutputs # <<>>
    THEN LET out == Pick(tx.tokenOutputs, in.swapper)
         IN  [mint |-> out.mint, amount |-> out.amount, sol |-> in.sol,
              swapper |-> OrElse(in.swapper, out.userAccount)]
  ELSE IF tx.nativeOutput # <<>>
    THEN LET out == tx.nativeOutput[1]
         IN  [mint |-> "SOL", amount |-> out.amount,
              sol |-> IF Parses(out.amount) THEN out.amount ELSE in.sol,
              swapper |-> OrElse(in.swapper, out.account)]
  ELSE [mint |-> "", amount |-> NotANumber, sol |-> in.sol, swapper |-> in.swapper]

\* The market cap the filter sees: zero when there is no metadata, or no output
\* mint to look up.
CapSeen(out, knownCap) == IF out.mint = "" THEN 0 ELSE knownCap

\* Bug: a cap that equals the threshold is let through.
FilteredLoosely(tx, out, knownCap) ==
  \/ tx.tokenOutputs # <<>> /\ out.mint \in StablecoinMints
  \/ 0 < out.sol /\ out.sol < MinInputSOL
  \/ CapSeen(out, knownCap) > MaxCapUSD

\* The three filters that end the extraction with nil.
Filtered(tx, out, knownCap) ==
  \/ tx.tokenOutputs # <<>> /\ out.mint \in StablecoinMints
  \/ 0 < out.sol /\ out.sol < MinInputSOL
  \/ ~IsAllowed(CapSeen(out, knownCap))

\* ExtractSwapInfoWithOptions; knownCap is the cap of the metadata fetched for
\* the output mint, zero when there is none.
ExtractSwapInfo(tx, knownCap) ==
  LET in  == InputSide(tx)
      out == OutputSide(tx, in)
  IN  IF ~tx.isSwap \/ Filtered(tx, out, knownCap) THEN NoInfo
      ELSE [timestamp |-> tx.timestamp, swapper |-> out.swapper, inputMint |-> in.mint,
            outputMint |-> out.mint, outputAmount |-> out.amount,
            amountInSOL |-> out.sol, marketCap |-> CapSeen(out, knownCap)]
=============================================================================
