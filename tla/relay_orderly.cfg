SPECIFICATION FairSpec
CONSTANTS
  Sessions = {s1}
  Workers = {w1}
  Sweepers = {x1}
  Agents = {a1}
  MaxSessions = 1
  MaxRequests = 4
  Recent = 8
  NullScans = TRUE
  Faults = {}
INVARIANTS InputInOrder NoOrphanShell
PROPERTY CloseTakesEffect
CHECK_DEADLOCK FALSE
