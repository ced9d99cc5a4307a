SPECIFICATION Spec
CONSTANTS
  m1 = m1
  m2 = m2
  Mints <- MCMints
  Callers = {c1, c2}
  Unknown = Unknown
  MaxCalls = 2
  MaxAge = 0

CHECK_DEADLOCK FALSE
PROPERTIES
  JupiterCacheGrows
