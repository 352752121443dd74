CONSTANTS
  c1 = c1
  c2 = c2
  c3 = c3
  Conn = {c1, c2}
SPECIFICATION LifeSpec
PROPERTY SignalStops
CHECK_DEADLOCK FALSE
