SPECIFICATION Spec
CONSTANTS
  Last = 1
  VMs = {1}
  Workers = {w1, w2}
  Sweepers = {s1}
  PassLimit = 1
  BridgeRecords = TRUE
  Reaping = FALSE
  Faults = {}
PROPERTY TerminatedNotStarted
