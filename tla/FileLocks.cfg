CONSTANTS
  a1 = a1
  a2 = a2
  t1 = t1
  r1 = r1
  r2 = r2
  rel = rel
  abs = abs
  p1 = p1
  p2 = p2
  Agent = {a1, a2}
  Task = {t1}
  Root = {r1, r2}
  Spelling = {rel, abs}
  Path = {p1, p2}
  PathOf <- MCPathOf
  Outside = Outside
  None = None
  Any = Any
  MaxMinutes = 2
  ClaimMinutes = 1
  Asked = {0, 3}
  Scopes <- MCScopes
SPECIFICATION FairSpec
INVARIANT TypeOK
INVARIANT ToldIsHeld
INVARIANT OneEditor
PROPERTY LocksEnd
CHECK_DEADLOCK FALSE
