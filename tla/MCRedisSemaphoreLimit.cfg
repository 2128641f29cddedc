SPECIFICATION Spec
CONSTANTS
  Proc = {p1, p2}
  Limit = 1
  MaxFailures = 0
SYMMETRY Symmetry
INVARIANT AtMostLimit
