SPECIFICATION Spec
CONSTANTS
  Table <- ClientTable
  Providers = {p1, p2}
  NoProvider = none
  MaxVersion = 3
  MaxClicks = 2
  MaxLeaves = 0
SYMMETRY Symmetry
INVARIANTS TypeOK SingleFlight SubmittedOnce KeepsWhatItSaid
PROPERTIES ListsInOrder
CHECK_DEADLOCK FALSE
