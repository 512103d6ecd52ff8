CONSTANTS
  a1 = a1
  a2 = a2
  a3 = a3
  a4 = a4
  a5 = a5
  IP = {a1}
  Worker = {w1}
  NoIP = NoIP
  ShardCount = 1
  ShardOf <- MCShardOf
  MaxRequests = 2
  Window = 2
  MaxEntries = 1
  MaxTime = 4
  MaxChecks = 4
  MaxSetback = 0
SPECIFICATION PromptSpec
INVARIANTS SlidingWindow
CHECK_DEADLOCK FALSE
