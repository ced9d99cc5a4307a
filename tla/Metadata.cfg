SPECIFICATION FairSpec
CONSTANTS
  m1 = m1
  m2 = m2
  Mints <- MCMints
  Callers = {c1, c2}
  Unknown = Unknown
  MaxCalls = 4
  MaxAge = 1
CHECK_DEADLOCK FALSE
INVARIANTS
  TypeOK
  JupiterCacheTruthful
  BackgroundBounded
PROPERTIES
  CallReturns
  BackgroundEnds
