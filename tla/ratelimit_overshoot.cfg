SPECIFICATION Spec
CONSTANTS
  Users = {u1}
  Workers = {w1, w2, w3}
  Limit = 2
  Window = 2
  Horizon = 5
  MaxRows = 9
SYMMETRY Symmetry
INVARIANT OvershootBounded
