SPECIFICATION FairSpec
CONSTANTS
  m1 = m1
  m2 = m2
  Callers = {c1, c2}
  Mints <- MCMints
  Shards <- MCShards
  ShardOf <- MCShardOf
  QueuePerShard = 1
  AlertQueue = 1
  Sinks = {"nil", "typed_nil", "telegram"}
  MaxIngests = 3
CHECK_DEADLOCK FALSE
INVARIANTS
  TypeOK
  IngestAccounted
  AlertsAccounted
  OneGoroutinePerMint
  TelegramSentMeansDelivered
PROPERTIES
  ImplementsMintStreams
  AcceptedIsHandled
  AlertIsAttempted
  CountersSettle
