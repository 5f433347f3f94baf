SPECIFICATION Spec
CONSTANTS
  Call = {c1, c2, c3, c4}
  FailureThreshold = 2
  SuccessThreshold = 2
  Timeout = 2
  HalfOpenRequests = 1
SYMMETRY Symmetry
INVARIANT HalfOpenLimit
