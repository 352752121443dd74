CONSTANTS
  w1 = w1
  w2 = w2
  d1 = d1
  d2 = d2
  None = None
  Window = {w1, w2}
  Pid = {d1, d2}
SPECIFICATION FairSpec
INVARIANT TypeOK
INVARIANT NoDuplicates
INVARIANT FilesAreOwn
PROPERTY WindowsAreServed
PROPERTY DaemonsEnd
CHECK_DEADLOCK FALSE
