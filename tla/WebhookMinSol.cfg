SPECIFICATION Spec
CONSTANTS
  StablecoinMints = {"USD"}
  MinInputSOL = 3
  MaxCapUSD = 2
  NoInfo = NoInfo
  Txs <- MCTxs
  Caps = {0, 1, 2}
  MaxPayload = 1
CHECK_DEADLOCK FALSE
INVARIANTS
  MinSolEnforced
