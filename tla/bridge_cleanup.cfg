SPECIFICATION FairSpec
CONSTANTS
  Last = 1
  Deletions = {}
  VMRequests = {1}
  Workers = {w1}
  Sweepers = {s1}
  MaxResources = 1
  BatchLimit = 2
  UniqueIndex = FALSE
  Faults = {}
PROPERTY EphemeralReaped
