CONSTANTS
  c1 = c1
  c2 = c2
  c3 = c3
  Conn = {c1, c2, c3}
SPECIFICATION LifeSpec
INVARIANT LifeTypeOK
INVARIANT CountIsConnections
INVARIANT AbandonedHasTimer
PROPERTY AbandonedStops
CHECK_DEADLOCK FALSE
