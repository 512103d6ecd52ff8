CONSTANTS
  a1 = a1
  a2 = a2
  a3 = a3
  a4 = a4
  a5 = a5
  IP = {a1}
  Worker = {w1, w2}
  NoIP = NoIP
  ShardCount = 1
  ShardOf <- MCShardOf
  MaxRequests = 1
  Window = 5
  MaxEntries = 1
  MaxTime = 7
  MaxChecks = 5
  MaxSetback = 0
SPECIFICATION Spec
INVARIANTS BurstBound RetryInReach
PROPERTIES RefusalJustified UnexpiredKept
SYMMETRY WorkersAlike
CHECK_DEADLOCK FALSE
