SPECIFICATION Spec
CONSTANTS
  StablecoinMints = {"USD"}
  MinInputSOL = 3
  MaxCapUSD = 2
  NoInfo = NoInfo
  Txs <- MCTxs
  Caps = {0, 1, 2}
  MaxPayload = 2
CHECK_DEADLOCK FALSE
INVARIANTS
  TypeOK
  EnqueuedIsEligible
  OutputIsSwappers
  AllExamined
