CONSTANTS
  d = d
  w = w
  t1 = t1
  Agent = {d, w}
  Driver = d
  Task = {t1}
  MaxCount = 2
  Target = {"all"}
  Limits = {1}
  MaxBox = 3
  MaxLost = 1
SPECIFICATION FairSpec
INVARIANT TypeOK
INVARIANT ReadWasShown
INVARIANT NoSpam
PROPERTY RetentionTakesOldest
PROPERTY SilenceIsTold
CHECK_DEADLOCK FALSE
