SPECIFICATION FairSpec
CONSTANTS
  Client = {c1, c2}
  Token = {t1, t2}
  NoToken = NoToken
  TTL = 2
  AcquireTimeout = 1
INVARIANTS TypeOK LeaseBacked Exclusive
PROPERTIES ImplementsLease OrphanLapses
