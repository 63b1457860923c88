SPECIFICATION Spec
CONSTANTS
  Last = 2
  VMs = {1}
  Workers = {w1, w2}
  Sweepers = {s1}
  PassLimit = 2
  BridgeRecords = TRUE
  Reaping = TRUE
  Faults = {"storage", "refuse", "lost", "graphql"}
SYMMETRY Symmetry
INVARIANTS TypeOK LeaseHonoured AcknowledgedCreateIsTracked AcknowledgedTerminateReleased UsedInTimeIsReclaimable
PROPERTY LeaseSpec
