SPECIFICATION Spec
CONSTANTS
  Last = 3
  Deletions = {3}
  VMRequests = {1}
  Workers = {w1, w2}
  Sweepers = {s1}
  MaxResources = 2
  BatchLimit = 2
  UniqueIndex = TRUE
  Faults = {"storage", "refuse", "lost", "graphql"}
SYMMETRY Symmetry
INVARIANTS TypeOK OneResourcePerRequest RecordedIsAcknowledged DeletedOnlyWhenDue RetiredIsGone
