SPECIFICATION Spec
CONSTANTS
  p1 = p1
  p2 = p2
  explicit = explicit
  auto = auto
  Proc = {p1, p2}
  Operator = p1
  Service = {explicit, auto}
  Explicit = {explicit}
  MaxVersion = 1
  MaxRuns = 2
  MaxFaults = 1

PROPERTY BackupsKept
CHECK_DEADLOCK FALSE
