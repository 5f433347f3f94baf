SPECIFICATION FairSpec
CONSTANTS
  N = 3
  Invocations <- Flags
  OldRuns = {0, 2}
  MaxFaults = 2
  MaxDestroys = 1
INVARIANTS TypeOK SkipsOnlyDone EarlierDone
PROPERTIES KeepsProgress ImplementsResumption Completes
