------------------------------- MODULE Webhook -------------------------------
(***************************************************************************)
(* One request to WebHookHandler (core/internal/handler/webhook.go): the   *)
(* transactions of the payload go through the detector (Detector.tla) and  *)
(* into the engine one after another, and the status is decided.  Requests *)
(* share nothing but the engine and the metadata, so one is enough; what   *)
(* the engine's queues and the metadata answer is left open.               *)
(***************************************************************************)
EXTENDS Detector, TLC

CONSTANTS
  Txs,         \* transactions a payload may hold
  Caps,        \* market caps the metadata may show, 0 for none
  MaxPayload   \* bound: transactions in a payload

ASSUME WebhookAssumption ==
  /\ Txs \subseteq WebhookTx
  /\ Caps \subseteq Nat
  /\ MaxPayload \in Nat

VARIABLES
  status,    \* "none" while the request runs, then 401, 400 or 200 as a string
  left,      \* transactions of the payload still to be examined
  tx,        \* the last transaction examined, <<>> or <<tx>>
  knownCap,  \* the market cap of its output token, known or 0
  info,      \* what the detector made of it
  outcome,   \* "none", "filtered", "invalid", "full" or "enqueued"
  accepted,  \* acceptedCount
  enqueued   \* history: swaps of this request that entered a shard

vars == <<status, left, tx, knownCap, info, outcome, accepted, enqueued>>

Init ==
  /\ status = "none"
  /\ left \in 0 .. MaxPayload
  /\ tx = <<>>
  /\ knownCap = 0
  /\ info = NoInfo
  /\ outcome = "none"
  /\ accepted = 0
  /\ enqueued = 0

\* The Authorization header does not match, or the body does not parse.
Refuse ==
  /\ status = "none"
  /\ tx = <<>>
  /\ status' \in {"401", "400"}
  /\ UNCHANGED <<left, tx, knownCap, info, outcome, accepted, enqueued>>

\* The validation of IngestSwapInfo.
Valid(i) == i.outputMint # "" /\ i.timestamp > 0 /\ i.outputAmount > 0

\* One turn of the loop over the payload.
Filter(i) ==
  /\ i = NoInfo
  /\ outcome' = "filtered"
  /\ UNCHANGED <<status, accepted, enqueued>>

\* IngestSwapInfo logs an invalid swap and returns nil.
IngestInvalid(i) ==
  /\ i # NoInfo
  /\ ~Valid(i)
  /\ outcome' = "invalid"
  /\ accepted' = accepted + 1
  /\ UNCHANGED <<status, enqueued>>

\* Bug: the error of the engine is returned to the client at once.
IngestFullReturn(i) ==
  /\ i # NoInfo
  /\ Valid(i)
  /\ outcome' = "full"
  /\ status' = "503"
  /\ UNCHANGED <<accepted, enqueued>>

\* IngestSwapInfo returns ErrShardQueueFull; the loop goes on.
IngestFull(i) ==
  /\ i # NoInfo
  /\ Valid(i)
  /\ outcome' = "full"
  /\ UNCHANGED <<status, accepted, enqueued>>

IngestEnqueued(i) ==
  /\ i # NoInfo
  /\ Valid(i)
  /\ outcome' = "enqueued"
  /\ accepted' = accepted + 1
  /\ enqueued' = enqueued + 1
  /\ UNCHANGED status

Examine(t, cap) ==
  LET i == ExtractSwapInfo(t, cap)
  IN  /\ status = "none"
      /\ left > 0
      /\ left' = left - 1
      /\ tx' = <<t>>
      /\ knownCap' = cap
      /\ info' = i
      /\ Filter(i) \/ IngestInvalid(i) \/ IngestFull(i) \/ IngestEnqueued(i)

Respond ==
  /\ status = "none"
  /\ left = 0
  /\ status' = "200"
  /\ UNCHANGED <<left, tx, knownCap, info, outcome, accepted, enqueued>>

Next ==
  \/ Refuse
  \/ \E t \in Txs, cap \in Caps : Examine(t, cap)
  \/ Respond

Spec == Init /\ [][Next]_vars

-----------------------------------------------------------------------------
(* Properties *)

\* Type invariant of a request.
TypeOK ==
  /\ status \in {"none", "401", "400", "200"}
  /\ left \in 0 .. MaxPayload
  /\ tx = <<>> \/ tx[1] \in Txs
  /\ knownCap \in Caps \cup {0}
  /\ info # NoInfo => /\ info.amountInSOL \in Nat
                      /\ info.outputAmount \in Nat \cup {NotANumber}
                      /\ info.marketCap \in Caps \cup {0}
  /\ outcome \in {"none", "filtered", "invalid", "full", "enqueued"}
  /\ accepted \in Nat /\ enqueued \in Nat

\* What enters the engine is a positive amount of a token output that is no
\* stablecoin, or of native SOL, and never known to be worth the maximum market
\* cap; a token bought with SOL was paid with the minimum at least, or with a
\* number of lamports that is zero or cannot be read (WebHookHandler and
\* ExtractSwapInfoWithOptions together).
EnqueuedIsEligible ==
  outcome = "enqueued" =>
    /\ info.outputAmount > 0 /\ info.timestamp > 0
    /\ info.outputMint \notin StablecoinMints
    /\ info.outputMint = "SOL" \/ tx[1].tokenOutputs # <<>>
    /\ knownCap < MaxCapUSD
    /\ info.inputMint = "SOL" /\ tx[1].tokenOutputs # <<>>
         => \/ info.amountInSOL = 0
            \/ info.amountInSOL >= MinInputSOL

\* The swap the detector reports is the swapper's own: when any token output
\* belongs to the swapper, mint and amount are taken from such an output, also
\* when the fee payer is missing and the swapper only found on the input side.
OutputIsSwappers ==
  info # NoInfo /\ tx[1].tokenOutputs # <<>> =>
    LET outs == tx[1].tokenOutputs
        own  == {k \in DOMAIN outs : outs[k].userAccount = info.swapper}
    IN  own # {} => \E k \in own : /\ outs[k].mint = info.outputMint
                                   /\ outs[k].amount = info.outputAmount

\* A refused, filtered or rejected transaction never keeps the rest of the
\* payload from being examined: an authorized request always ends with 200,
\* and with nothing left.
AllExamined == status \in {"401", "400"} \/ (status # "none" => status = "200" /\ left = 0)

\* The minimum SOL input is enforced when the input is native SOL.
MinSolEnforced ==
  outcome = "enqueued" /\ info.inputMint = "SOL" /\ tx[1].tokenInputs = <<>> =>
    LET paid == tx[1].nativeInput[1].amount
    IN  paid > 0 => paid >= MinInputSOL
=============================================================================
