CONSTANTS
  r1 = r1
  r2 = r2
  r3 = r3
  r4 = r4
  Request = {r1, r2, r3, r4}
  Permits = 2
  Threads = 2
  Nobody = Nobody
SPECIFICATION FairPoolSpec
INVARIANTS PoolInv QueuesBehindLate
PROPERTY Answered
CHECK_DEADLOCK FALSE
