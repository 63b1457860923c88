SPECIFICATION Spec
CONSTANTS
  Table <- ClientTable
  Providers = {p1, p2}
  NoProvider = none
  MaxVersion = 3
  MaxClicks = 1
  MaxLeaves = 1
INVARIANT NeverLockedUp
PROPERTY ComesFresh
CHECK_DEADLOCK FALSE
