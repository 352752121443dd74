CONSTANTS
  m1 = m1
  w1 = w1
  g1 = g1
  g2 = g2
  None = None
  Server = {m1}
  Worker = {w1}
  Spawn = {g1}
  MaxRetries = 1
  MaxFailures = 2
SPECIFICATION Spec
PROPERTY WorkIsAttended
CHECK_DEADLOCK FALSE
