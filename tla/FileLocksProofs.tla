-------------------------- MODULE FileLocksProofs --------------------------
(***************************************************************************)
(* The types and the promises of FileLocks, for any agents, tasks, paths,  *)
(* workspaces and durations.                                               *)
(***************************************************************************)
EXTENDS FileLocks, TLAPS

\* What cleanupExpiredLocks leaves: the lock as it was, or none where it had
\* run out.
LEMMA ExpireEffect ==
  ASSUME lock \in [Path -> LockState]
  PROVE  /\ Expire(lock) \in [Path -> LockState]
         /\ \A p \in Path : lock[p].left > 0 => Expire(lock)[p] = lock[p]
         /\ \A p \in Path : Expire(lock)[p].by \in {None, lock[p].by}
<1>1. Free \in LockState
  BY MinutesAssumption DEF Free, Held, LockState
<1>2. QED
  BY <1>1 DEF Expire, Free, Held, LockState

\* Durations are cut to what a lock may last.
LEMMA ClampRange == \A d \in Asked : Clamp(d) \in 1..MaxMinutes
BY MinutesAssumption DEF Clamp

LEMMA LessRange == \A n \in 0..MaxMinutes : Less(n) \in 0..MaxMinutes
BY MinutesAssumption DEF Less

LEMMA HeldType == \A a \in Agent \cup {None}, m \in 0..MaxMinutes : Held(a, m) \in LockState
BY DEF Held, LockState

LEMMA AutoLockType ==
  ASSUME lock \in [Path -> LockState], NEW a \in Agent, NEW P
  PROVE  AutoLock(a, P) \in [Path -> LockState]
<1>1. Held(a, ClaimMinutes) \in LockState
  BY HeldType, MinutesAssumption
<1>2. QED
  BY <1>1 DEF AutoLock

\* Every state has the declared types.
THEOREM TypeCorrect == Spec => []TypeOK
<1>1. Init => TypeOK
  <2>1. Free \in LockState
    BY MinutesAssumption DEF Free, Held, LockState
  <2>2. QED
    BY <2>1, MinutesAssumption, NamesAssumption DEF Init, TypeOK, Status
<1>2. TypeOK /\ [Next]_vars => TypeOK'
  <2> SUFFICES ASSUME TypeOK, [Next]_vars PROVE TypeOK'
    OBVIOUS
  <2> USE ExpireEffect, ClampRange, NamesAssumption
  <2>0. Free \in LockState
    BY MinutesAssumption DEF Free, Held, LockState
  <2>1. ASSUME NEW a \in Agent, NEW s \in Spelling, Validate(a, s) PROVE TypeOK'
    BY <2>1 DEF Validate, TypeOK, taskVars
  <2>2. ASSUME NEW a \in Agent, NEW d \in Asked, LockFile(a, d) PROVE TypeOK'
    <3>1. Held(a, Clamp(d)) \in LockState /\ Clamp(d) \in 0..MaxMinutes
      BY HeldType
    <3>2. QED
      BY <2>2, <3>1 DEF LockFile, TypeOK, taskVars
  <2>3. ASSUME NEW a \in Agent, NEW force \in BOOLEAN, Unlock(a, force) PROVE TypeOK'
    <3>1. 0 \in 0..MaxMinutes
      BY MinutesAssumption
    <3>2. overruled' \in SUBSET Path
      BY <2>3 DEF Unlock, Unsettled, TypeOK
    <3>3. QED
      BY <2>0, <2>3, <3>1, <3>2 DEF Unlock, TypeOK, taskVars
  <2>4. ASSUME NEW a \in Agent, Refuse(a) PROVE TypeOK'
    BY <2>4 DEF Refuse, TypeOK, taskVars
  <2>5. CASE Inspect
    BY <2>5 DEF Inspect, TypeOK, taskVars
  <2>6. ASSUME NEW t \in Task, NEW to \in Agent \cup {Any}, NEW files \in Scopes,
               CreateTask(t, to, files)
        PROVE  TypeOK'
    BY <2>6, ScopesAssumption DEF CreateTask, TypeOK, Status
  <2>7. ASSUME NEW t \in Task, NEW st \in Status \ {"absent"}, NEW to \in Agent \cup {Any},
               UpdateTask(t, st, to)
        PROVE  TypeOK'
    BY <2>7 DEF UpdateTask, TypeOK
  <2>8. ASSUME NEW a \in Agent, NEW t \in Task, ClaimNext(a, t) PROVE TypeOK'
    <3>1. lock' \in [Path -> LockState]
      BY <2>8, AutoLockType DEF ClaimNext, TypeOK
    <3>2. QED
      BY <2>8, <3>1 DEF ClaimNext, TypeOK, Status, Relevant
  <2>9. CASE Reset
    BY <2>0, <2>9 DEF Reset, TypeOK, Status, Unsettled
  <2>10. ASSUME NEW r \in Root, SetWorkspaceRoot(r) PROVE TypeOK'
    BY <2>10 DEF SetWorkspaceRoot, TypeOK, taskVars
  <2>11. CASE Elapse
    <3>1. lock' \in [Path -> LockState]
      BY <2>11, LessRange, HeldType DEF Elapse, TypeOK, LockState
    <3>2. told' \in [Agent -> [Path -> 0..MaxMinutes]]
      BY <2>11, LessRange DEF Elapse, TypeOK
    <3>3. QED
      BY <2>11, <3>1, <3>2 DEF Elapse, TypeOK, taskVars, Unsettled
  <2>12. CASE UNCHANGED vars
    BY <2>12 DEF vars, taskVars, TypeOK
  <2>13. QED
    BY <2>1, <2>2, <2>3, <2>4, <2>5, <2>6, <2>7, <2>8, <2>9, <2>10, <2>11, <2>12
       DEF Next, LockTool, Tasks
<1>3. QED
  BY <1>1, <1>2, PTL DEF Spec

-----------------------------------------------------------------------------
\* The promise of one agent about one path, which is what a step disturbs.
Kept(a, p) ==
  told[a][p] > 0 /\ p \notin overruled => lock[p].by = a /\ told[a][p] <= lock[p].left

\* A holder's unexpired lock is nobody else's to take.
LEMMA OnlyHolderMay ==
  ASSUME TypeOK, NEW a \in Agent, NEW b \in Agent, NEW p \in Path,
         lock[p].by = b, lock[p].left > 0, MayHold(a, p)
  PROVE  a = b
BY ExpireEffect, NamesAssumption DEF TypeOK, MayHold

\* lock_file's lock and unlock.
LEMMA LockKeeps ==
  ASSUME TypeOK, ToldIsHeld, NEW a \in Agent, NEW d \in Asked, LockFile(a, d)
  PROVE  ToldIsHeld'
<1> SUFFICES ASSUME NEW b \in Agent, NEW p \in Path PROVE Kept(b, p)'
  BY DEF ToldIsHeld, Kept
<1>1. Kept(b, p)
  BY DEF ToldIsHeld, Kept
<1>2. lock'[p] = IF p = call[a] THEN Held(a, Clamp(d)) ELSE Expire(lock)[p]
  BY ExpireEffect DEF LockFile, TypeOK
<1>3. told'[b][p] = IF b = a /\ p = call[a] THEN Clamp(d) ELSE told[b][p]
  BY DEF LockFile, TypeOK
<1>4. told[b][p] \in 0..MaxMinutes /\ lock[p].left \in 0..MaxMinutes /\ Clamp(d) \in 1..MaxMinutes
  BY ClampRange DEF TypeOK, LockState
<1>5. overruled' = overruled /\ MayHold(a, call[a]) /\ call[a] \in Path
  BY DEF LockFile
<1>6. CASE p # call[a]
  BY <1>1, <1>2, <1>3, <1>4, <1>5, <1>6, ExpireEffect, MinutesAssumption DEF Kept, TypeOK
<1>7. CASE p = call[a] /\ b = a
  BY <1>2, <1>3, <1>4, <1>7, MinutesAssumption DEF Kept, Held
<1>8. CASE p = call[a] /\ b # a
  BY <1>1, <1>3, <1>4, <1>5, <1>8, OnlyHolderMay, MinutesAssumption DEF Kept
<1>9. QED
  BY <1>6, <1>7, <1>8

LEMMA UnlockKeeps ==
  ASSUME TypeOK, ToldIsHeld, NEW a \in Agent, NEW force \in BOOLEAN, Unlock(a, force)
  PROVE  ToldIsHeld'
<1> SUFFICES ASSUME NEW b \in Agent, NEW p \in Path PROVE Kept(b, p)'
  BY DEF ToldIsHeld, Kept
<1>1. Kept(b, p)
  BY DEF ToldIsHeld, Kept
<1>2. lock'[p] = IF p = call[a] THEN Free ELSE Expire(lock)[p]
  BY ExpireEffect DEF Unlock, TypeOK
<1>3. told'[b][p] = IF b = a /\ p = call[a] THEN 0 ELSE told[b][p]
  BY DEF Unlock, TypeOK
<1>4. told[b][p] \in 0..MaxMinutes /\ lock[p].left \in 0..MaxMinutes
  BY DEF TypeOK, LockState
<1>5. told'[b][p] > 0 /\ p \notin overruled'
        => p \notin overruled /\ (p = call[a] => MayHold(a, p))
  BY DEF Unlock, Unsettled
<1>6. CASE p # call[a]
  BY <1>1, <1>2, <1>3, <1>4, <1>5, <1>6, ExpireEffect, MinutesAssumption DEF Kept, TypeOK
<1>7. CASE p = call[a] /\ b = a
  BY <1>3, <1>7 DEF Kept
<1>8. CASE p = call[a] /\ b # a
  BY <1>1, <1>3, <1>4, <1>5, <1>8, OnlyHolderMay, MinutesAssumption DEF Kept
<1>9. QED
  BY <1>6, <1>7, <1>8

\* A claim renews the claimer's own locks and takes free paths: a promise to
\* somebody else stays, one to the claimer is cut and counts as overruled, or
\* is no longer than the lock of the claim.
LEMMA ClaimKeeps ==
  ASSUME TypeOK, ToldIsHeld, NEW a \in Agent, NEW t \in Task, ClaimNext(a, t)
  PROVE  ToldIsHeld'
<1> SUFFICES ASSUME NEW b \in Agent, NEW p \in Path PROVE Kept(b, p)'
  BY DEF ToldIsHeld, Kept
<1>1. Kept(b, p) /\ told' = told
  BY DEF ToldIsHeld, Kept, ClaimNext
<1>2. lock'[p] = IF p \in Relevant(t) /\ lock[p].by \in {None, a}
                 THEN Held(a, ClaimMinutes) ELSE lock[p]
  BY DEF ClaimNext, AutoLock
<1>3. told[b][p] \in 0..MaxMinutes /\ lock[p].left \in 0..MaxMinutes
  BY DEF TypeOK, LockState
<1>4. p \notin overruled'
        => /\ p \notin overruled
           /\ p \in Relevant(t) /\ lock[p].by = a => ~(told[a][p] > ClaimMinutes)
  BY DEF ClaimNext
<1>5. QED
  BY <1>1, <1>2, <1>3, <1>4, NamesAssumption, MinutesAssumption DEF Kept, Held

LEMMA ElapseKeeps ==
  ASSUME TypeOK, ToldIsHeld, Elapse
  PROVE  ToldIsHeld'
<1> SUFFICES ASSUME NEW b \in Agent, NEW p \in Path PROVE Kept(b, p)'
  BY DEF ToldIsHeld, Kept
<1>1. Kept(b, p)
  BY DEF ToldIsHeld, Kept
<1>2. lock'[p] = Held(lock[p].by, Less(lock[p].left)) /\ told'[b][p] = Less(told[b][p])
  BY DEF Elapse
<1>3. told[b][p] \in 0..MaxMinutes /\ lock[p].left \in 0..MaxMinutes
  BY DEF TypeOK, LockState
<1>4. told'[b][p] > 0 /\ p \notin overruled' => p \notin overruled
  BY DEF Elapse, Unsettled
<1>5. QED
  BY <1>1, <1>2, <1>3, <1>4, MinutesAssumption DEF Kept, Held, Less

\* What an agent was promised it still holds, unless overruled.
THEOREM PromiseCorrect == Spec => []ToldIsHeld
<1>1. Init => ToldIsHeld
  BY DEF Init, ToldIsHeld
<1>2. TypeOK /\ ToldIsHeld /\ [Next]_vars => ToldIsHeld'
  <2> SUFFICES ASSUME TypeOK, ToldIsHeld, [Next]_vars PROVE ToldIsHeld'
    OBVIOUS
  <2>1. ASSUME NEW a \in Agent, NEW s \in Spelling, Validate(a, s) PROVE ToldIsHeld'
    BY <2>1 DEF Validate, ToldIsHeld
  <2>2. ASSUME NEW a \in Agent, NEW d \in Asked, LockFile(a, d) PROVE ToldIsHeld'
    BY <2>2, LockKeeps
  <2>3. ASSUME NEW a \in Agent, NEW force \in BOOLEAN, Unlock(a, force) PROVE ToldIsHeld'
    BY <2>3, UnlockKeeps
  <2>4. ASSUME NEW a \in Agent, Refuse(a) PROVE ToldIsHeld'
    BY <2>4 DEF Refuse, ToldIsHeld
  <2>5. CASE Inspect
    <3> SUFFICES ASSUME NEW b \in Agent, NEW p \in Path PROVE Kept(b, p)'
      BY DEF ToldIsHeld, Kept
    <3>1. Kept(b, p) /\ told[b][p] \in 0..MaxMinutes /\ lock[p].left \in 0..MaxMinutes
      BY DEF ToldIsHeld, Kept, TypeOK, LockState
    <3>2. QED
      BY <2>5, <3>1, ExpireEffect, MinutesAssumption DEF Inspect, Kept, TypeOK
  <2>6. ASSUME NEW t \in Task, NEW to \in Agent \cup {Any}, NEW files \in Scopes,
               CreateTask(t, to, files)
        PROVE  ToldIsHeld'
    BY <2>6 DEF CreateTask, ToldIsHeld
  <2>7. ASSUME NEW t \in Task, NEW st \in Status \ {"absent"}, NEW to \in Agent \cup {Any},
               UpdateTask(t, st, to)
        PROVE  ToldIsHeld'
    BY <2>7 DEF UpdateTask, ToldIsHeld
  <2>8. ASSUME NEW a \in Agent, NEW t \in Task, ClaimNext(a, t) PROVE ToldIsHeld'
    BY <2>8, ClaimKeeps
  <2>9. CASE Reset
    BY <2>9 DEF Reset, ToldIsHeld, Unsettled
  <2>10. ASSUME NEW r \in Root, SetWorkspaceRoot(r) PROVE ToldIsHeld'
    BY <2>10 DEF SetWorkspaceRoot, ToldIsHeld
  <2>11. CASE Elapse
    BY <2>11, ElapseKeeps
  <2>12. CASE UNCHANGED vars
    BY <2>12 DEF vars, ToldIsHeld
  <2>13. QED
    BY <2>1, <2>2, <2>3, <2>4, <2>5, <2>6, <2>7, <2>8, <2>9, <2>10, <2>11, <2>12
       DEF Next, LockTool, Tasks
<1>3. QED
  BY <1>1, <1>2, TypeCorrect, PTL DEF Spec

\* Two agents rely on one file only after a lock was overruled.
THEOREM EditorCorrect == Spec => []OneEditor
<1>1. ToldIsHeld => OneEditor
  BY DEF ToldIsHeld, OneEditor
<1>2. QED
  BY <1>1, PromiseCorrect, PTL
=============================================================================
