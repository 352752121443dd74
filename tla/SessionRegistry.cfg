CONSTANTS
  s1 = s1
  s2 = s2
  s3 = s3
  drv = drv
  wrk = wrk
  None = None
  Session = {s1, s2, s3}
  Agent = {drv, wrk}
  Instance = {drv, wrk}
  Driver = drv
  NamesOf <- MCOneName
SPECIFICATION Spec
INVARIANT TypeOK
INVARIANT OneSessionPerAgent
INVARIANT ReverseLookup
PROPERTY DriverNeverPruned
PROPERTY SilentArePruned
CHECK_DEADLOCK FALSE
