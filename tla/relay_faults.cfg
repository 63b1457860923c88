SPECIFICATION Spec
CONSTANTS
  Sessions = {s1}
  Workers = {w1, w2}
  Sweepers = {x1}
  Agents = {a1}
  MaxSessions = 1
  MaxRequests = 3
  Recent = 1
  NullScans = TRUE
  Faults = {"storage", "lost", "pty", "crash"}
SYMMETRY Symmetry
INVARIANTS TypeOK ExecutedOnceInOrder InputIsAudited
CHECK_DEADLOCK FALSE
