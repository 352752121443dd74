-------------------------- MODULE WorkerSpawnProofs --------------------------
(***************************************************************************)
(* Proofs about the worker manager, for any servers, workers and numbers   *)
(* of spawns, retries and failures.                                        *)
(***************************************************************************)
EXTENDS WorkerSpawn, TLAPS

\* A spawn that lives has a server and an instance, and a retry to make.
JobInv ==
  \A g \in Spawn :
    /\ job[g].pc # "free" => job[g].of \in Worker /\ job[g].on \in Server
    /\ job[g].pc \in {"ready", "sleeping"} => job[g].tries <= MaxRetries

\* A check that is taking a lock has an instance, and removes only lock
\* files that have aged.
CheckInv ==
  \A k \in Checker :
    /\ check[k].pc \in {"stat", "remove", "create"} => check[k].at \in Worker
    /\ check[k].pc = "remove" => check[k].at \in aged

\* The lock file of an instance is there for as long as a spawn of it lives,
\* unless it has once aged.
LockInv ==
  /\ \A w \in Worker : lock[w] = "stale" => w \in aged
  /\ \A g \in Spawn :
       job[g].pc # "free" /\ job[g].of \notin aged => lock[job[g].of] = "fresh"

Inv ==
  /\ TypeOK
  /\ JobInv
  /\ CheckInv
  /\ LockInv
  /\ OverlapNeedsStaleLock
  /\ RunningIsCancellable

-----------------------------------------------------------------------------
\* A check that moves on is in no step of taking a lock.
LEMMA RemainingType ==
  ASSUME TypeOK, NEW k \in Checker, NEW left \in SUBSET Worker
  PROVE  Remaining(k, left) \in CheckState /\ Remaining(k, left).pc \in {"idle", "next"}
  BY DEF TypeOK, Remaining, IdleCheck, CheckState

\* Steps that leave the lock files, checks and spawns alone.
LEMMA Frame ==
  ASSUME Inv, TypeOK', UNCHANGED <<registered, lock, check, job, aged>>
  PROVE  Inv'
  BY DEF Inv, JobInv, CheckInv, LockInv, OverlapNeedsStaleLock, RunningIsCancellable, Live

\* Steps of one check that leave the lock files and the spawns alone.
LEMMA CheckFrame ==
  ASSUME Inv, TypeOK', UNCHANGED <<registered, lock, job, aged>>,
         NEW k \in Checker, NEW c,
         check' = [check EXCEPT ![k] = c],
         c.pc \in {"stat", "remove", "create"} => c.at \in Worker,
         c.pc = "remove" => c.at \in aged
  PROVE  Inv'
<1>1. CheckInv'
  BY DEF Inv, CheckInv, TypeOK
<1>2. JobInv' /\ LockInv' /\ OverlapNeedsStaleLock' /\ RunningIsCancellable'
  BY DEF Inv, JobInv, LockInv, OverlapNeedsStaleLock, RunningIsCancellable, Live
<1> QED
  BY <1>1, <1>2 DEF Inv

LEMMA AroundStep ==
  ASSUME Inv, NEW w \in Worker, Around(w)
  PROVE  Inv'
<1>1. CASE Arrive(w)
  <2>1. TypeOK'
    BY <1>1 DEF Inv, TypeOK, Arrive, manager
  <2> QED
    BY <1>1, <2>1, Frame DEF Arrive, manager
<1>2. CASE WorkDone(w)
  <2>1. TypeOK'
    BY <1>2 DEF Inv, TypeOK, WorkDone, manager
  <2> QED
    BY <1>2, <2>1, Frame DEF WorkDone, manager
<1>3. CASE Connection(w)
  <2>1. TypeOK'
    BY <1>3 DEF Inv, TypeOK, Connection, manager
  <2> QED
    BY <1>3, <2>1, Frame DEF Connection, manager
<1>4. CASE LockAges(w)
  <2>1. TypeOK'
    BY <1>4 DEF Inv, TypeOK, LockAges, manager
  <2>2. JobInv' /\ CheckInv' /\ OverlapNeedsStaleLock' /\ RunningIsCancellable'
    BY <1>4 DEF Inv, JobInv, CheckInv, OverlapNeedsStaleLock, RunningIsCancellable, Live,
                LockAges, manager
  <2>3. LockInv'
    BY <1>4 DEF Inv, TypeOK, LockInv, JobInv, LockAges
  <2> QED
    BY <2>1, <2>2, <2>3 DEF Inv
<1>5. ASSUME NEW m \in Server, CooldownOver(m, w) \/ BackoffOver(m, w)
      PROVE  Inv'
  <2>1. TypeOK'
    <3>1. CASE CooldownOver(m, w)
      BY <1>5, <3>1 DEF Inv, TypeOK, CooldownOver
    <3>2. CASE BackoffOver(m, w)
      <4>1. waiting' \in [Server -> [Worker -> Wait]]
        BY <3>2 DEF Inv, TypeOK, BackoffOver, Wait
      <4> QED
        BY <3>2, <4>1 DEF Inv, TypeOK, BackoffOver
    <3> QED
      BY <1>5, <3>1, <3>2
  <2> QED
    BY <1>5, <2>1, Frame DEF CooldownOver, BackoffOver
<1> QED
  BY <1>1, <1>2, <1>3, <1>4, <1>5 DEF Around

LEMMA CheckStep ==
  ASSUME Inv, NEW k \in Checker, CheckSteps(k)
  PROVE  Inv'
<1>1. k[1] \in Server
  BY DEF Checker
<1>2. CASE LoadWork(k)
  <2> DEFINE c == [Begun EXCEPT !.new = newer[k[1]]]
  <2>1. c \in CheckState /\ c.pc = "next"
    BY <1>1 DEF Inv, TypeOK, Begun, CheckState
  <2>2. TypeOK'
    BY <1>2, <2>1 DEF Inv, TypeOK, LoadWork, manager
  <2> QED
    BY <1>2, <2>1, <2>2, CheckFrame DEF LoadWork, manager
<1>3. ASSUME NEW w \in Worker, Consider(k, w)
      PROVE  Inv'
  <2> DEFINE left == check[k].left \ {w}
  <2> DEFINE r == Remaining(k, left)
  <2> DEFINE s == [r EXCEPT !.pc = "stat", !.at = w]
  <2>1. r \in CheckState /\ r.pc \in {"idle", "next"}
    <3>1. left \in SUBSET Worker
      BY DEF Inv, TypeOK, CheckState
    <3> QED
      BY <3>1, RemainingType DEF Inv
  <2> HIDE DEF r
  <2>2. s \in CheckState /\ s.pc = "stat" /\ s.at = w
    BY <2>1 DEF CheckState
  <2>3. PICK c \in {r, s} : check' = [check EXCEPT ![k] = c]
    BY <1>3 DEF Consider, r
  <2>4. c \in CheckState /\ c.pc \in {"idle", "next", "stat"} /\ (c.pc = "stat" => c.at = w)
    BY <2>1, <2>2, <2>3
  <2>5. TypeOK'
    <3>1. check' \in [Checker -> CheckState]
      BY <2>3, <2>4 DEF Inv, TypeOK
    <3>2. failures' \in [Server -> [Worker -> 0 .. MaxFailures]]
      BY <1>1, <1>3, FailuresAssumption DEF Inv, TypeOK, Consider
    <3>3. waiting' \in [Server -> [Worker -> Wait]]
      BY <1>1, <1>3 DEF Inv, TypeOK, Consider, Wait
    <3> QED
      BY <1>3, <3>1, <3>2, <3>3 DEF Inv, TypeOK, Consider
  <2>6. UNCHANGED <<registered, lock, job, aged>>
    BY <1>3 DEF Consider
  <2> HIDE DEF s
  <2> QED
    BY <2>3, <2>4, <2>5, <2>6, CheckFrame
<1>4. CASE StatLock(k)
  <2> DEFINE r == Remaining(k, check[k].left)
  <2>1. r \in CheckState /\ r.pc \in {"idle", "next"}
    BY RemainingType DEF Inv, TypeOK, CheckState
  <2> HIDE DEF r
  <2>2. check[k].at \in Worker
    BY <1>4 DEF StatLock, Inv, CheckInv
  <2>3. PICK c \in CheckState :
          /\ check' = [check EXCEPT ![k] = c]
          /\ c.pc \in {"stat", "remove", "create"} => c.at \in Worker
          /\ c.pc = "remove" => c.at \in aged
    <3>1. CASE lock[check[k].at] = "fresh"
      BY <1>4, <2>1, <3>1 DEF StatLock, r
    <3>2. CASE lock[check[k].at] = "stale"
      <4> DEFINE c == [check[k] EXCEPT !.pc = "remove"]
      <4>1. c \in CheckState /\ c.pc = "remove" /\ c.at = check[k].at
        BY DEF Inv, TypeOK, CheckState
      <4>2. check' = [check EXCEPT ![k] = c]
        BY <1>4, <3>2 DEF StatLock
      <4> HIDE DEF c
      <4> QED
        BY <2>2, <3>2, <4>1, <4>2 DEF Inv, LockInv
    <3>3. CASE lock[check[k].at] = "none"
      <4> DEFINE c == [check[k] EXCEPT !.pc = "create"]
      <4>1. c \in CheckState /\ c.pc = "create" /\ c.at = check[k].at
        BY DEF Inv, TypeOK, CheckState
      <4>2. check' = [check EXCEPT ![k] = c]
        BY <1>4, <3>3 DEF StatLock
      <4> HIDE DEF c
      <4> QED
        BY <2>2, <4>1, <4>2
    <3> QED
      BY <2>2, <3>1, <3>2, <3>3 DEF Inv, TypeOK
  <2>4. TypeOK'
    BY <1>4, <2>3 DEF StatLock, Inv, TypeOK, manager
  <2> QED
    BY <1>4, <2>3, <2>4, CheckFrame DEF StatLock, manager
<1>5. CASE RemoveLock(k)
  <2> DEFINE c == [check[k] EXCEPT !.pc = "create"]
  <2>1. c \in CheckState /\ c.pc = "create" /\ c.at = check[k].at
    BY DEF Inv, TypeOK, CheckState
  <2>2. check' = [check EXCEPT ![k] = c]
    BY <1>5 DEF RemoveLock, Inv, TypeOK
  <2> HIDE DEF c
  <2>3. check[k].at \in Worker /\ check[k].at \in aged
    BY <1>5 DEF RemoveLock, Inv, CheckInv
  <2>4. TypeOK'
    BY <1>5, <2>1, <2>2 DEF RemoveLock, Inv, TypeOK, manager
  <2>5. CheckInv'
    BY <1>5, <2>1, <2>2, <2>3 DEF RemoveLock, Inv, CheckInv, TypeOK
  <2>6. LockInv'
    BY <1>5, <2>3 DEF RemoveLock, Inv, LockInv, JobInv, TypeOK
  <2>7. JobInv' /\ OverlapNeedsStaleLock' /\ RunningIsCancellable'
    BY <1>5 DEF RemoveLock, Inv, JobInv, OverlapNeedsStaleLock, RunningIsCancellable, Live,
                manager
  <2> QED
    BY <2>4, <2>5, <2>6, <2>7 DEF Inv
<1>6. CASE LockTaken(k)
  <2> DEFINE r == Remaining(k, check[k].left)
  <2>1. r \in CheckState /\ r.pc \in {"idle", "next"}
    BY RemainingType DEF Inv, TypeOK, CheckState
  <2>2. check' = [check EXCEPT ![k] = r]
    BY <1>6 DEF LockTaken
  <2> HIDE DEF r
  <2>3. TypeOK'
    BY <1>6, <2>1, <2>2 DEF LockTaken, Inv, TypeOK, manager
  <2> QED
    BY <1>6, <2>1, <2>2, <2>3, CheckFrame DEF LockTaken, manager
<1>7. ASSUME NEW g \in Spawn, CreateLock(k, g)
      PROVE  Inv'
  <2> DEFINE r == Remaining(k, check[k].left)
  <2> DEFINE j == [pc |-> "ready", on |-> k[1], of |-> check[k].at, tries |-> 0]
  <2>1. r \in CheckState /\ r.pc \in {"idle", "next"}
    BY RemainingType DEF Inv, TypeOK, CheckState
  <2>2. check' = [check EXCEPT ![k] = r]
    BY <1>7 DEF CreateLock
  <2> HIDE DEF r
  <2>3. check[k].at \in Worker
    BY <1>7 DEF CreateLock, Inv, CheckInv
  <2>4. j \in JobState
    BY <1>1, <2>3, RetriesAssumption DEF JobState
  <2>5. TypeOK'
    BY <1>7, <2>1, <2>2, <2>3, <2>4 DEF CreateLock, Inv, TypeOK, manager
  <2>6. JobInv'
    BY <1>1, <1>7, <2>3, RetriesAssumption DEF CreateLock, Inv, JobInv, TypeOK
  <2>7. CheckInv'
    BY <1>7, <2>1, <2>2 DEF CreateLock, Inv, CheckInv, TypeOK
  <2>8. LockInv'
    BY <1>7, <2>3 DEF CreateLock, Inv, LockInv, JobInv, TypeOK
  <2>9. OverlapNeedsStaleLock'
    <3>1. \A h \in Live : job[h].of = check[k].at => job[h].of \in aged
      BY <1>7 DEF CreateLock, Inv, LockInv, Live
    <3>2. job' = [job EXCEPT ![g] = j] /\ aged' = aged
      BY <1>7 DEF CreateLock
    <3>3. \A h \in Spawn \ {g} : job'[h] = job[h]
      BY <3>2 DEF Inv, TypeOK
    <3>4. job'[g].of = check[k].at
      BY <3>2 DEF Inv, TypeOK
    <3> QED
      BY <3>1, <3>2, <3>3, <3>4 DEF Inv, OverlapNeedsStaleLock, Live
  <2>10. RunningIsCancellable'
    BY <1>7 DEF CreateLock, Inv, RunningIsCancellable, TypeOK, manager
  <2> QED
    BY <2>5, <2>6, <2>7, <2>8, <2>9, <2>10 DEF Inv
<1> QED
  BY <1>2, <1>3, <1>4, <1>5, <1>6, <1>7 DEF CheckSteps, LockSteps

-----------------------------------------------------------------------------
LEMMA NoJobType == NoJob \in JobState /\ NoJob.pc = "free"
  BY RetriesAssumption DEF NoJob, JobState

\* A process that goes on after its server is still of the same instance.
LEMMA OrphanType ==
  ASSUME TypeOK, NEW g \in Spawn
  PROVE  LET o == At(g, "orphan", 0)
         IN o \in JobState /\ o.pc = "orphan" /\ o.of = job[g].of /\ o.on = job[g].on
  BY RetriesAssumption DEF At, TypeOK, JobState

\* Whatever outcome a process returns with, its spawn keeps the lock file.
LEMMA ReturnedStep ==
  ASSUME Inv, NEW g \in Spawn, NEW pc \in {"leaving", "sleeping"}, Returned(g, pc), TypeOK',
         pc = "sleeping" => job[g].tries <= MaxRetries,
         \A k \in Checker : check'[k].pc = check[k].pc /\ check'[k].at = check[k].at
  PROVE  Inv'
<1>1. job[g].of \in Worker /\ job[g].on \in Server /\ job[g].pc = "running"
  BY DEF Returned, Inv, JobInv
<1>2. job'[g].pc = pc /\ job'[g].of = job[g].of /\ job'[g].on = job[g].on
  BY <1>1 DEF Returned, At, Inv, TypeOK, JobState
<1>3. job'[g].tries = IF pc = "sleeping" THEN job[g].tries ELSE 0
  BY <1>1 DEF Returned, At, Inv, TypeOK, JobState
<1>4. \A h \in Spawn \ {g} : job'[h] = job[h]
  BY DEF Returned, Inv, TypeOK
<1>5. JobInv'
  BY <1>1, <1>2, <1>3, <1>4 DEF Inv, JobInv
<1>6. CheckInv'
  BY DEF Inv, CheckInv, Returned
<1>7. LockInv'
  BY <1>1, <1>2, <1>4 DEF Inv, LockInv, Returned
<1>8. OverlapNeedsStaleLock'
  BY <1>1, <1>2, <1>4 DEF Inv, OverlapNeedsStaleLock, Live, Returned
<1>9. RunningIsCancellable'
  <2> SUFFICES ASSUME NEW h \in Spawn, job'[h].pc = "running", job'[h].of \notin aged
               PROVE  registered'[job'[h].on][job'[h].of] = h
    BY DEF RunningIsCancellable, Returned
  <2>1. h # g /\ job'[h] = job[h]
    BY <1>2, <1>4
  <2>2. registered[job[h].on][job[h].of] = h /\ job[h].on \in Server /\ job[h].of \in Worker
    BY <2>1 DEF Inv, RunningIsCancellable, JobInv
  <2>3. job[h].of # job[g].of
    BY <1>1, <2>1 DEF Inv, OverlapNeedsStaleLock, Live
  <2> QED
    BY <1>1, <2>1, <2>2, <2>3 DEF Returned, Inv, TypeOK
<1> QED
  BY <1>5, <1>6, <1>7, <1>8, <1>9 DEF Inv

\* What a return leaves of the types.
LEMMA ReturnedType ==
  ASSUME Inv, NEW g \in Spawn, NEW pc \in {"leaving", "sleeping"}, Returned(g, pc)
  PROVE  /\ job' \in [Spawn -> JobState]
         /\ registered' \in [Server -> [Worker -> Spawn \cup {None}]]
         /\ killed' \subseteq Spawn
         /\ connected' = connected /\ lock' = lock /\ aged' = aged
         /\ job[g].on \in Server /\ job[g].of \in Worker
<1>1. job[g].of \in Worker /\ job[g].on \in Server
  BY DEF Returned, Inv, JobInv
<1>2. job' \in [Spawn -> JobState]
  BY RetriesAssumption DEF Returned, At, Inv, TypeOK, JobState
<1>3. registered' \in [Server -> [Worker -> Spawn \cup {None}]]
  BY <1>1 DEF Returned, Inv, TypeOK
<1> QED
  BY <1>1, <1>2, <1>3 DEF Returned, Inv, TypeOK

LEMMA FailedStep ==
  ASSUME Inv, NEW g \in Spawn, NEW n \in 0 .. MaxFailures, NEW wait \in Wait,
         Failed(g, n, wait)
  PROVE  Inv'
<1>1. Returned(g, "leaving")
  BY DEF Failed
<1>2. \A k \in Checker :
        check'[k] \in CheckState /\ check'[k].pc = check[k].pc /\ check'[k].at = check[k].at
  BY DEF Failed, Inv, TypeOK, CheckState
<1>3. TypeOK'
  <2>1. check' \in [Checker -> CheckState]
    BY <1>2 DEF Failed
  <2>2. /\ failures' \in [Server -> [Worker -> 0 .. MaxFailures]]
        /\ waiting' \in [Server -> [Worker -> Wait]]
        /\ newer' \in [Server -> SUBSET Worker]
    BY <1>1, ReturnedType DEF Failed, Inv, TypeOK, Wait
  <2> QED
    BY <1>1, <2>1, <2>2, ReturnedType DEF Failed, Inv, TypeOK
<1> QED
  BY <1>1, <1>2, <1>3, ReturnedStep

LEMMA JobStep ==
  ASSUME Inv, NEW g \in Spawn, JobSteps(g)
  PROVE  Inv'
<1>1. CASE Launch(g)
  <2>1. job[g].of \in Worker /\ job[g].on \in Server /\ job[g].tries <= MaxRetries
    BY <1>1 DEF Launch, Inv, JobInv
  <2>2. /\ job'[g].pc = "running" /\ job'[g].of = job[g].of /\ job'[g].on = job[g].on
        /\ job'[g].tries = job[g].tries + 1
    BY <1>1 DEF Launch, At, Inv, TypeOK, JobState
  <2>3. \A h \in Spawn \ {g} : job'[h] = job[h]
    BY <1>1 DEF Launch, Inv, TypeOK
  <2>4. TypeOK'
    <3>1. job' \in [Spawn -> JobState]
      BY <1>1, <2>1, RetriesAssumption DEF Launch, At, Inv, TypeOK, JobState
    <3>2. registered' \in [Server -> [Worker -> Spawn \cup {None}]]
      BY <1>1, <2>1 DEF Launch, Inv, TypeOK
    <3> QED
      BY <1>1, <3>1, <3>2 DEF Launch, Inv, TypeOK
  <2>5. JobInv' /\ CheckInv' /\ LockInv' /\ OverlapNeedsStaleLock'
    BY <1>1, <2>1, <2>2, <2>3 DEF Launch, Inv, JobInv, CheckInv, LockInv,
                                 OverlapNeedsStaleLock, Live
  <2>6. RunningIsCancellable'
    <3> SUFFICES ASSUME NEW h \in Spawn, job'[h].pc = "running", job'[h].of \notin aged
                 PROVE  registered'[job'[h].on][job'[h].of] = h
      BY <1>1 DEF RunningIsCancellable, Launch
    <3>1. CASE h = g
      BY <1>1, <2>1, <2>2, <3>1 DEF Launch, Inv, TypeOK
    <3>2. CASE h # g
      <4>1. job'[h] = job[h]
        BY <2>3, <3>2
      <4>2. registered[job[h].on][job[h].of] = h /\ job[h].on \in Server /\ job[h].of \in Worker
        BY <4>1 DEF Inv, RunningIsCancellable, JobInv
      <4>3. job[h].of # job[g].of
        BY <1>1, <3>2, <4>1 DEF Launch, Inv, OverlapNeedsStaleLock, Live
      <4> QED
        BY <1>1, <2>1, <4>1, <4>2, <4>3 DEF Launch, Inv, TypeOK
    <3> QED
      BY <3>1, <3>2
  <2> QED
    BY <2>4, <2>5, <2>6 DEF Inv
<1>2. CASE Succeed(g)
  <2>1. Returned(g, "leaving")
    BY <1>2 DEF Succeed
  <2>2. TypeOK'
    <3>1. /\ failures' \in [Server -> [Worker -> 0 .. MaxFailures]]
          /\ waiting' \in [Server -> [Worker -> Wait]]
          /\ cooling' \in [Server -> SUBSET Worker]
          /\ work' \subseteq Worker
      BY <1>2, <2>1, ReturnedType, FailuresAssumption DEF Succeed, Inv, TypeOK, Wait
    <3> QED
      BY <1>2, <2>1, <3>1, ReturnedType DEF Succeed, Inv, TypeOK
  <2> QED
    BY <1>2, <2>1, <2>2, ReturnedStep DEF Succeed
<1>3. CASE Retry(g)
  <2>1. Returned(g, "sleeping")
    BY <1>3 DEF Retry
  <2>2. TypeOK'
    BY <1>3, <2>1, ReturnedType DEF Retry, Inv, TypeOK
  <2> QED
    BY <1>3, <2>1, <2>2, ReturnedStep DEF Retry
<1>4. CASE GiveUp(g)
  <2> DEFINE n == failures[job[g].on][job[g].of]
  <2> DEFINE v == waiting[job[g].on][job[g].of]
  <2>1. Returned(g, "leaving")
    BY <1>4 DEF GiveUp, Failed
  <2>2. (IF n < MaxFailures THEN n + 1 ELSE n) \in 0 .. MaxFailures
    BY <2>1, ReturnedType, FailuresAssumption DEF Inv, TypeOK
  <2>3. (IF v \in {"deadline", "past"} THEN v ELSE "backoff") \in Wait
    BY DEF Wait
  <2> QED
    BY <1>4, <2>2, <2>3, FailedStep DEF GiveUp
<1>5. CASE Terminal(g)
  <2>1. 1 \in 0 .. MaxFailures /\ MaxFailures \in 0 .. MaxFailures
    BY FailuresAssumption
  <2>2. Returned(g, "leaving")
    BY <1>5 DEF Terminal, Failed
  <2>3. waiting[job[g].on][job[g].of] \in Wait /\ "deadline" \in Wait
    BY <2>2, ReturnedType DEF Inv, TypeOK, Wait
  <2> QED
    BY <1>5, <2>1, <2>3, FailedStep DEF Terminal
<1>6. CASE Release(g) \/ OrphanEnds(g)
  <2>1. job' = [job EXCEPT ![g] = NoJob]
    BY <1>6 DEF Release, OrphanEnds
  <2>2. job'[g].pc = "free" /\ job[g].pc # "free" /\ job[g].of \in Worker
    BY <1>6, <2>1 DEF Release, OrphanEnds, NoJob, Inv, TypeOK, JobInv
  <2>3. \A h \in Spawn \ {g} : job'[h] = job[h]
    BY <2>1 DEF Inv, TypeOK
  <2>4. TypeOK'
    <3>1. job' \in [Spawn -> JobState]
      BY <2>1, NoJobType DEF Inv, TypeOK
    <3>2. lock' \in [Worker -> {"none", "fresh", "stale"}]
      BY <1>6 DEF Release, OrphanEnds, Inv, TypeOK
    <3> QED
      BY <1>6, <3>1, <3>2 DEF Release, OrphanEnds, Inv, TypeOK, manager
  <2>5. JobInv' /\ CheckInv' /\ OverlapNeedsStaleLock' /\ RunningIsCancellable'
    BY <1>6, <2>2, <2>3 DEF Release, OrphanEnds, Inv, JobInv, CheckInv,
                           OverlapNeedsStaleLock, RunningIsCancellable, Live, manager
  <2>6. LockInv'
    <3>1. \A h \in Spawn \ {g} :
            job[h].pc # "free" /\ job[h].of \notin aged => job[h].of # job[g].of
      BY <2>2 DEF Inv, OverlapNeedsStaleLock, Live
    <3>2. \A w \in Worker : w # job[g].of => lock'[w] = lock[w]
      BY <1>6 DEF Release, OrphanEnds, Inv, TypeOK
    <3>3. \A w \in Worker : lock'[w] \in {lock[w], "none"}
      BY <1>6, <2>2 DEF Release, OrphanEnds, Inv, TypeOK
    <3>4. aged' = aged
      BY <1>6 DEF Release, OrphanEnds
    <3>5. \A h \in Spawn : job'[h].pc # "free" => h # g /\ job[h].of \in Worker
      BY <2>2, <2>3 DEF Inv, JobInv
    <3> QED
      BY <2>3, <3>1, <3>2, <3>3, <3>4, <3>5 DEF Inv, LockInv
  <2> QED
    BY <2>4, <2>5, <2>6 DEF Inv
<1> QED
  BY <1>1, <1>2, <1>3, <1>4, <1>5, <1>6 DEF JobSteps, Return

LEMMA OperatorStep ==
  ASSUME Inv, NEW m \in Server, Operator(m)
  PROVE  Inv'
<1>1. ASSUME NEW w \in Worker, CancelWorker(m, w)
      PROVE  Inv'
  <2>1. TypeOK'
    BY <1>1 DEF CancelWorker, Inv, TypeOK, manager
  <2> QED
    BY <1>1, <2>1, Frame DEF CancelWorker, manager
<1>2. CASE RestartWorkers(m)
  <2> DEFINE k == <<m, "restart">>
  <2> DEFINE c == [check[k] EXCEPT !.pc = "pause"]
  <2>1. k \in Checker
    BY DEF Checker
  <2>2. c \in CheckState /\ c.pc = "pause"
    BY <2>1 DEF Inv, TypeOK, CheckState
  <2>3. check' = [check EXCEPT ![k] = c]
    BY <1>2 DEF RestartWorkers
  <2> HIDE DEF c, k
  <2>4. TypeOK'
    <3>1. /\ failures' \in [Server -> [Worker -> 0 .. MaxFailures]]
          /\ waiting' \in [Server -> [Worker -> Wait]]
          /\ cooling' \in [Server -> SUBSET Worker]
          /\ killed' \subseteq Spawn
      BY <1>2, FailuresAssumption DEF RestartWorkers, Inv, TypeOK, Wait
    <3>2. check' \in [Checker -> CheckState]
      BY <2>2, <2>3 DEF Inv, TypeOK
    <3> QED
      BY <1>2, <3>1, <3>2 DEF RestartWorkers, Inv, TypeOK
  <2> QED
    BY <1>2, <2>1, <2>2, <2>3, <2>4, CheckFrame DEF RestartWorkers
<1>3. CASE ServerEnds(m)
  <2>1. \A g \in Spawn :
          \/ job'[g] = job[g] /\ (job[g].on # m \/ job[g].pc # "running")
          \/ job'[g] = NoJob
          \/ job[g].pc = "running" /\ job'[g] = At(g, "orphan", 0)
    BY <1>3 DEF ServerEnds
  <2>2. \A g \in Spawn : job'[g].pc # "free" =>
          job[g].pc # "free" /\ job'[g].of = job[g].of /\ job'[g].on = job[g].on
    BY <2>1, NoJobType, OrphanType DEF Inv
  <2>3. \A g \in Spawn : job'[g].pc \in {"ready", "sleeping", "running"} =>
          job'[g] = job[g]
    BY <2>1, NoJobType, OrphanType DEF Inv
  <2>4. \A g \in Spawn : job'[g].pc = "running" => job[g].on # m
    BY <2>1, NoJobType, OrphanType DEF Inv
  <2>5. \A k \in Checker : check'[k] = check[k] \/ check'[k] = IdleCheck
    BY <1>3 DEF ServerEnds
  <2>6. TypeOK'
    <3>1. job' \in [Spawn -> JobState]
      <4>1. \A g \in Spawn : job'[g] \in JobState
        BY <2>1, NoJobType, OrphanType DEF Inv, TypeOK
      <4> QED
        BY <1>3, <4>1 DEF ServerEnds
    <3>2. check' \in [Checker -> CheckState]
      BY <1>3, <2>5 DEF ServerEnds, Inv, TypeOK, CheckState, IdleCheck
    <3>3. /\ failures' \in [Server -> [Worker -> 0 .. MaxFailures]]
          /\ waiting' \in [Server -> [Worker -> Wait]]
          /\ cooling' \in [Server -> SUBSET Worker]
          /\ newer' \in [Server -> SUBSET Worker]
          /\ registered' \in [Server -> [Worker -> Spawn \cup {None}]]
      BY <1>3, FailuresAssumption DEF ServerEnds, Inv, TypeOK, Wait
    <3> QED
      BY <1>3, <3>1, <3>2, <3>3 DEF ServerEnds, Inv, TypeOK
  <2>7. JobInv'
    BY <2>2, <2>3 DEF Inv, JobInv
  <2>8. CheckInv'
    BY <1>3, <2>5 DEF ServerEnds, Inv, CheckInv, IdleCheck
  <2>9. LockInv' /\ OverlapNeedsStaleLock'
    BY <1>3, <2>2 DEF ServerEnds, Inv, LockInv, OverlapNeedsStaleLock, Live
  <2>10. RunningIsCancellable'
    BY <1>3, <2>3, <2>4 DEF ServerEnds, Inv, RunningIsCancellable, TypeOK
  <2> QED
    BY <2>6, <2>7, <2>8, <2>9, <2>10 DEF Inv
<1> QED
  BY <1>1, <1>2, <1>3 DEF Operator

LEMMA InvStep == Inv /\ [Next]_vars => Inv'
<1> SUFFICES ASSUME Inv, [Next]_vars PROVE Inv'
  OBVIOUS
<1>1. CASE UNCHANGED vars
  <2>1. TypeOK'
    BY <1>1 DEF vars, Inv, TypeOK
  <2> QED
    BY <1>1, <2>1, Frame DEF vars
<1> QED
  BY <1>1, CheckStep, JobStep, AroundStep, OperatorStep DEF Next

LEMMA InvInit == Init => Inv
<1> SUFFICES ASSUME Init PROVE Inv
  OBVIOUS
<1>1. TypeOK
  BY RetriesAssumption, FailuresAssumption
     DEF Init, TypeOK, IdleCheck, NoJob, CheckState, JobState, Wait
<1>2. JobInv /\ CheckInv /\ LockInv
  BY DEF Init, JobInv, CheckInv, LockInv, IdleCheck, NoJob
<1>3. OverlapNeedsStaleLock /\ RunningIsCancellable
  BY DEF Init, OverlapNeedsStaleLock, RunningIsCancellable, Live, NoJob
<1> QED
  BY <1>1, <1>2, <1>3 DEF Inv

\* The state of the worker manager has its types in every execution.
THEOREM TypeCorrect == Spec => []TypeOK
<1>1. Inv => TypeOK
  BY DEF Inv
<1> QED
  BY <1>1, InvInit, InvStep, PTL DEF Spec

\* Two spawns of one instance live at one time only if its lock file has
\* once gone stale, for any number of servers, checks, cancels and crashes.
THEOREM OverlapCorrect == Spec => []OverlapNeedsStaleLock
<1>1. Inv => OverlapNeedsStaleLock
  BY DEF Inv
<1> QED
  BY <1>1, InvInit, InvStep, PTL DEF Spec

\* A running process of an instance whose lock file never aged is in the map
\* that cancel_agent and RestartWorkers look in.
THEOREM CancellableCorrect == Spec => []RunningIsCancellable
<1>1. Inv => RunningIsCancellable
  BY DEF Inv
<1> QED
  BY <1>1, InvInit, InvStep, PTL DEF Spec

-----------------------------------------------------------------------------
(***************************************************************************)
(* What a cancel reaches                                                   *)
(***************************************************************************)

\* The entry of an instance in the map of cancels is of a process that runs
\* for it, and every process that was cancelled has yet to return.
CancelsOwn ==
  /\ \A m \in Server, w \in Worker :
       registered[m][w] # None =>
         LET g == registered[m][w]
         IN job[g].pc = "running" /\ job[g].on = m /\ job[g].of = w
  /\ \A g \in killed : job[g].pc = "running"

\* Steps that neither start nor end a process.
LEMMA CancelFrame ==
  ASSUME Inv, CancelsOwn, UNCHANGED <<registered, killed>>,
         \A g \in Spawn : job[g].pc = "running" => job'[g] = job[g]
  PROVE  CancelsOwn'
<1>1. \A m \in Server, w \in Worker : registered[m][w] # None => registered[m][w] \in Spawn
  BY DEF Inv, TypeOK
<1>2. killed \subseteq Spawn
  BY DEF Inv, TypeOK
<1> QED
  BY <1>1, <1>2 DEF CancelsOwn

LEMMA CancelReturned ==
  ASSUME Inv, CancelsOwn, NEW g \in Spawn, NEW pc, Returned(g, pc)
  PROVE  CancelsOwn'
<1>1. /\ job[g].pc = "running" /\ job[g].on \in Server /\ job[g].of \in Worker
      /\ registered' = [registered EXCEPT ![job[g].on][job[g].of] = None]
      /\ killed' = killed \ {g}
  BY DEF Returned, Inv, JobInv
<1>2. \A h \in Spawn \ {g} : job'[h] = job[h]
  BY DEF Returned, Inv, TypeOK
<1>3. ASSUME NEW m \in Server, NEW w \in Worker, registered'[m][w] # None
      PROVE  registered'[m][w] = registered[m][w] /\ registered[m][w] \in Spawn \ {g}
  BY <1>1, <1>3 DEF Inv, TypeOK, CancelsOwn
<1>4. killed' \subseteq Spawn \ {g}
  BY <1>1 DEF Inv, TypeOK
<1> QED
  BY <1>1, <1>2, <1>3, <1>4 DEF CancelsOwn

LEMMA CancelStep ==
  ASSUME Inv, CancelsOwn, [Next]_vars
  PROVE  CancelsOwn'
<1>1. ASSUME NEW k \in Checker, CheckSteps(k)
      PROVE  CancelsOwn'
  <2>1. UNCHANGED <<registered, killed>>
    BY <1>1 DEF CheckSteps, LockSteps, LoadWork, Consider, StatLock, RemoveLock, LockTaken,
                CreateLock, manager
  <2>2. \A g \in Spawn : job[g].pc = "running" => job'[g] = job[g]
    BY <1>1 DEF CheckSteps, LockSteps, LoadWork, Consider, StatLock, RemoveLock, LockTaken,
                CreateLock, manager, Inv, TypeOK
  <2> QED
    BY <2>1, <2>2, CancelFrame
<1>2. ASSUME NEW w \in Worker, Around(w)
      PROVE  CancelsOwn'
  <2>1. UNCHANGED <<registered, killed, job>>
    BY <1>2 DEF Around, Arrive, WorkDone, Connection, LockAges, CooldownOver, BackoffOver, manager
  <2> QED
    BY <2>1, CancelFrame
<1>3. ASSUME NEW g \in Spawn, Launch(g)
      PROVE  CancelsOwn'
  <2>1. job[g].pc # "running" /\ job[g].on \in Server /\ job[g].of \in Worker
    BY <1>3 DEF Launch, Inv, JobInv
  <2>2. /\ job'[g].pc = "running" /\ job'[g].on = job[g].on /\ job'[g].of = job[g].of
        /\ \A h \in Spawn \ {g} : job'[h] = job[h]
    BY <1>3 DEF Launch, At, Inv, TypeOK
  <2>3. killed' = killed /\ killed \subseteq Spawn \ {g}
    BY <1>3, <2>1 DEF Launch, Inv, TypeOK, CancelsOwn
  <2>4. ASSUME NEW m \in Server, NEW w \in Worker
        PROVE  registered'[m][w] = IF m = job[g].on /\ w = job[g].of THEN g
                                   ELSE registered[m][w]
    BY <1>3, <2>1 DEF Launch, Inv, TypeOK
  <2>5. ASSUME NEW m \in Server, NEW w \in Worker, registered[m][w] # None
        PROVE  registered[m][w] \in Spawn \ {g}
    BY <2>1, <2>5 DEF CancelsOwn, Inv, TypeOK
  <2> QED
    BY <2>2, <2>3, <2>4, <2>5 DEF CancelsOwn
<1>4. ASSUME NEW g \in Spawn, Return(g)
      PROVE  CancelsOwn'
  <2>1. \E pc \in {"leaving", "sleeping"} : Returned(g, pc)
    BY <1>4 DEF Return, Succeed, Retry, GiveUp, Terminal, Failed
  <2> QED
    BY <2>1, CancelReturned
<1>5. ASSUME NEW g \in Spawn, Release(g) \/ OrphanEnds(g)
      PROVE  CancelsOwn'
  <2>1. UNCHANGED <<registered, killed>> /\ job[g].pc # "running"
    BY <1>5 DEF Release, OrphanEnds, manager
  <2>2. \A h \in Spawn \ {g} : job'[h] = job[h]
    BY <1>5 DEF Release, OrphanEnds, Inv, TypeOK
  <2> QED
    BY <2>1, <2>2, CancelFrame
<1>6. ASSUME NEW m \in Server, NEW w \in Worker, CancelWorker(m, w)
      PROVE  CancelsOwn'
  BY <1>6 DEF CancelWorker, manager, CancelsOwn
<1>7. ASSUME NEW m \in Server, RestartWorkers(m)
      PROVE  CancelsOwn'
  BY <1>7 DEF RestartWorkers, CancelsOwn
\* The processes go on, and nobody holds their cancels any more.
<1>8. ASSUME NEW m \in Server, ServerEnds(m)
      PROVE  CancelsOwn'
  <2>1. ASSUME NEW g \in Spawn, job[g].on # m
        PROVE  job'[g] = job[g]
    BY <1>8, <2>1 DEF ServerEnds
  <2>2. ASSUME NEW n \in Server, NEW w \in Worker, registered'[n][w] # None
        PROVE  n # m /\ registered'[n][w] = registered[n][w] /\ registered[n][w] \in Spawn
    BY <1>8, <2>2 DEF ServerEnds, Inv, TypeOK
  <2>3. \A g \in killed' : g \in killed /\ g \in Spawn /\ job[g].on # m
    BY <1>8 DEF ServerEnds, Inv, TypeOK
  <2> QED
    BY <2>1, <2>2, <2>3 DEF CancelsOwn
<1>9. CASE UNCHANGED vars
  BY <1>9, CancelFrame DEF vars
<1> QED
  BY <1>1, <1>2, <1>3, <1>4, <1>5, <1>6, <1>7, <1>8, <1>9 DEF Next, JobSteps, Operator

\* cancel_agent and RestartWorkers reach only a running process of the instance
\* and the server they are for, and no mark of a cancel outlives its process,
\* even where stale lock files have let two spawns of one instance run.
THEOREM CancelCorrect == Spec => []CancelsOwn
<1>1. Init => CancelsOwn
  BY DEF Init, CancelsOwn
<1>2. Inv /\ CancelsOwn /\ [Next]_vars => CancelsOwn'
  BY CancelStep
<1> QED
  BY <1>1, <1>2, InvInit, InvStep, PTL DEF Spec

=============================================================================
