CONSTANTS
  m1 = m1
  w1 = w1
  g1 = g1
  g2 = g2
  None = None
  Server = {m1}
  Worker = {w1}
  Spawn = {g1, g2}
  MaxRetries = 1
  MaxFailures = 2
SPECIFICATION Spec
INVARIANT TypeOK
INVARIANT OverlapNeedsStaleLock
INVARIANT RunningIsCancellable
CHECK_DEADLOCK FALSE
SYMMETRY Symmetry
