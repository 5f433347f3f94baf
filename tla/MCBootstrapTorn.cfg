SPECIFICATION FairSpec
CONSTANTS
  N = 2
  Invocations <- JustPlain
  OldRuns = {}
  MaxFaults = 1
  MaxDestroys = 0
PROPERTY Completes
