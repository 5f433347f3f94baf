SPECIFICATION Spec
CONSTANTS
  Call = {c1, c2, c3, c4}
  FailureThreshold = 3
  SuccessThreshold = 2
  Timeout = 2
  HalfOpenRequests = 2
SYMMETRY Symmetry
INVARIANTS TypeOK BelowThresholds NoLeakedSlots OverrunBounded
PROPERTIES FailsFast TripsOnStreak
