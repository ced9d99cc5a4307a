SPECIFICATION Spec
CONSTANTS
  m1 = m1
  m2 = m2
  Callers = {c1, c2}
  Mints <- MCMints
  Shards <- MCShards
  ShardOf <- MCShardOf
  QueuePerShard = 1
  AlertQueue = 1
  Sinks = {"typed_nil"}
  MaxIngests = 2
CHECK_DEADLOCK FALSE
INVARIANTS
  SentMeansDelivered
