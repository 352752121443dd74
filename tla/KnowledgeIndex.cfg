CONSTANTS
  f1 = f1
  f2 = f2
  File = {f1, f2}
  Watched = {f1}
  MaxVersion = 2
  MaxEvents = 2
SPECIFICATION FairSpec
INVARIANT TypeOK
INVARIANT StaleHasCause
PROPERTY SettlesUnlessMissed
PROPERTY ItemsAreIndexed
CHECK_DEADLOCK FALSE
