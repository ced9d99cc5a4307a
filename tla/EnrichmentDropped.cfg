SPECIFICATION Spec
CONSTANTS
  s1 = s1
  s2 = s2
  w1 = w1
  w2 = w2
  Sigs <- MCSigs
  NoSig = NoSig
  Workers <- MCWorkers
  QueueSize = 1
  Retries = 2
  MaxNotifs = 3

CHECK_DEADLOCK FALSE
INVARIANTS
  RememberedWasQueued
