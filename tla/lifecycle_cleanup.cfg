SPECIFICATION FairSpec
CONSTANTS
  Last = 3
  VMs = {1, 2}
  Workers = {w1}
  Sweepers = {s1}
  PassLimit = 1
  BridgeRecords = TRUE
  Reaping = TRUE
  Faults = {}
PROPERTIES UsedInTimeIsReleased PodStatusFollowsDeletion
