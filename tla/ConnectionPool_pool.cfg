\* Three requests at a time for two connections.
SPECIFICATION FairSpec
CONSTANTS
  r1 = r1
  r2 = r2
  r3 = r3
  Free = Free
  Requests = {r1, r2, r3}
  db_pool_size = 1
  db_max_overflow = 1
  Threads = 2
INVARIANTS PoolTypeOK ConnectionsAccounted
PROPERTIES OnlyTimeoutUnblocks RequestsAnswered
