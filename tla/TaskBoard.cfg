CONSTANTS
  w1 = w1
  w2 = w2
  drv = drv
  g1 = g1
  Worker = {w1, w2}
  Driver = drv
  Guest = {g1}
  TypeOf <- MCTypeOf
  MaxTasks <- MCMaxTasks
  Active = {w1, w2}
  MayGoQuiet = {w1}
  TaskBound = 2
  Together <- MCTogether
SPECIFICATION FairSpec
INVARIANT TypeOK
INVARIANT OnlyBusyHolds
INVARIANT TrackedByAssignee
PROPERTY StartsAfterDependencies
PROPERTY SilentWorkerLosesTask
CHECK_DEADLOCK FALSE
