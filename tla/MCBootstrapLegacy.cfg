SPECIFICATION Spec
CONSTANTS
  N = 2
  Invocations <- Flags
  OldRuns = {1}
  MaxFaults = 2
  MaxDestroys = 0
INVARIANT SkipsDone
