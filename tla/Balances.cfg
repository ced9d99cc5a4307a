SPECIFICATION Spec
CONSTANTS
  user = user
  pool = pool
  meme = meme
  usd = usd
  none = none
  Size = 5
  OwnerOf <- MCOwnerOf
  MintOf <- MCMintOf
  StableMints <- MCStableMints
  Amounts = {1, 3}
  Absent = none
CHECK_DEADLOCK FALSE
INVARIANTS
  SwapperMovedMost
  UntiedIsDetermined
