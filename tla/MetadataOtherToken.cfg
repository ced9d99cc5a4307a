SPECIFICATION Spec
CONSTANTS
  m1 = m1
  m2 = m2
  Mints <- MCMints
  Callers = {c1}
  Unknown = Unknown
  MaxCalls = 1
  MaxAge = 0

CHECK_DEADLOCK FALSE
INVARIANTS
  AnswerIsAboutMint
