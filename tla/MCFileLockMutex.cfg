SPECIFICATION Spec
CONSTANTS
  Proc = {p1, p2}
  Inode = {i1, i2, i3}
  None = None
  TTL = 2
  AcquireTimeout = 1
  Answers = {"refuse"}
INVARIANT MutualExclusion
