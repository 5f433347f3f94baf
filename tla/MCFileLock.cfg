SPECIFICATION FairSpec
CONSTANTS
  Proc = {p1, p2}
  Inode = {i1, i2, i3}
  None = None
  TTL = 2
  AcquireTimeout = 2
  Answers = {"refuse", "break"}
INVARIANTS TypeOK HolderNamed NoFlockLeaks NoStaleFile
PROPERTY AcquireEnds
