CONSTANTS
  a1 = a1
  a2 = a2
  a3 = a3
  a4 = a4
  a5 = a5
  IP = {a1, a2}
  Worker = {w1, w2}
  NoIP = NoIP
  ShardCount = 2
  ShardOf <- MCShardOf
  MaxRequests = 1
  Window = 1
  MaxEntries = 1
  MaxTime = 2
  MaxChecks = 3
  MaxSetback = 0
SPECIFICATION FairSpec
INVARIANTS OwnEntryNotVictim
PROPERTIES ImplementsQuota QuietCallReturns
CHECK_DEADLOCK FALSE
