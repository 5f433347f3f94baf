SPECIFICATION Spec
CONSTANTS
  c1 = c1
  c2 = c2
  svc = svc
  a = a
  b = b
  x = x
  y = y
  None = None
  Empty = Empty
  Torn = Torn
  Cluster = {c1, c2}
  Service = {svc}
  Secret <- Secrets
  Initial <- Starts
  Concurrency = 2
  MaxRuns = 1
  MaxEdits = 1
  MaxFaults = 1
INVARIANTS TypeOK StopsEarly ReportTrue FixRepairs
PROPERTIES ImplementsPool EveryCommandEnds Converges
CHECK_DEADLOCK FALSE
