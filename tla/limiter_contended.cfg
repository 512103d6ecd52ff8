CONSTANTS
  a1 = a1
  a2 = a2
  a3 = a3
  a4 = a4
  a5 = a5
  IP = {a1, a2, a3}
  Worker = {w1, w2}
  NoIP = NoIP
  ShardCount = 2
  ShardOf <- MCShardOf
  MaxRequests = 1
  Window = 1
  MaxEntries = 2
  MaxTime = 1
  MaxChecks = 3
  MaxSetback = 1
SPECIFICATION Spec
INVARIANTS TypeOK EntriesCharged CapacityBound
PROPERTIES EvictionSlack
SYMMETRY WorkersAlike
CHECK_DEADLOCK FALSE
