CONSTANTS
  Conn = {c1, c2}
  Client = {k1}
  ClientOf <- MCClientOf
  Limit = 1
  MaxBytes = 3
  Meaning <- MCMeaning
SPECIFICATION FairSpec
INVARIANTS TypeOK LookupEarned LineAnswered NoLineRefused
PROPERTIES ConnectionEnds
CHECK_DEADLOCK FALSE
