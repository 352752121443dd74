----------------------------- MODULE WorkerSpawn -----------------------------
(***************************************************************************)
(* The worker manager: who starts a process for a worker instance, how it  *)
(* is retried, cancelled and backed off, and the lock file that is meant   *)
(* to keep a second process of the same instance away.                     *)
(*                                                                         *)
(* Check runs in several goroutines of a server, from the notifier and     *)
(* from the start or restart of workers, and several servers may share the *)
(* lock files.  Its guards, each step of acquireLock, and a spawn's own    *)
(* steps interleave.  The maps of a manager are behind its mutex.          *)
(*                                                                         *)
(* Time is left out: a cooldown, a backoff or a lock file's five minutes   *)
(* are over when a step says so.  Work is what Check counts, unread        *)
(* messages and pending tasks, without its amount; that the newest of it   *)
(* is later than the last failure is a set of its own.                     *)
(***************************************************************************)
EXTENDS Naturals, FiniteSets

CONSTANTS
  Server,      \* processes with a worker manager, sharing the lock files
  Worker,      \* instance ids of the configuration
  Spawn,       \* bound: spawn goroutines alive at one time
  MaxRetries,  \* attempts after the first
  MaxFailures, \* failureBackoffMaxCount
  None

ASSUME RetriesAssumption == MaxRetries \in Nat
ASSUME FailuresAssumption == MaxFailures \in Nat \ {0}
ASSUME NoneAssumption == None \notin Worker \cup Spawn

\* The notifier's checks are serialized by pushMu; a start or restart of the
\* workers runs a check of its own beside them.
Checker == Server \X {"notifier", "restart"}

VARIABLES
  work,        \* instances with unread messages or pending tasks
  newer,       \* per server: the newest of it is after lastFailure
  connected,   \* instances with a session, own or of their type
  cooling,     \* per server: lastSpawn is within the cooldown
  failures,    \* WorkerManager.consecutiveFailures
  waiting,     \* per server: what an instance that failed is waiting for
  registered,  \* WorkerManager.runningWorkers: the goroutine whose cancel it holds
  lock,        \* the lock file of an instance: "none", "fresh" or "stale"
  check,       \* the checks: where each is, and what it read from the state
  job,         \* the spawn goroutines
  killed,      \* those whose running process has been cancelled
  aged         \* history: instances whose lock file has once gone stale

manager == <<cooling, failures, waiting, registered>>
vars == <<work, newer, connected, cooling, failures, waiting, registered,
          lock, check, job, killed, aged>>

\* "backoff": lastFailure's backoff is not over.  "deadline" and "past":
\* there is a backoffUntil, ahead or passed.
Wait == {"no", "backoff", "deadline", "past"}

IdleCheck == [pc |-> "idle", at |-> None, left |-> {}, seen |-> {}, new |-> {}]
NoJob     == [pc |-> "free", on |-> None, of |-> None, tries |-> 0]

CheckState ==
  [pc : {"idle", "pause", "next", "stat", "remove", "create"}, at : Worker \cup {None},
   left : SUBSET Worker, seen : SUBSET Worker, new : SUBSET Worker]

JobState ==
  [pc : {"free", "ready", "running", "sleeping", "leaving", "orphan"},
   on : Server \cup {None}, of : Worker \cup {None}, tries : 0 .. MaxRetries + 1]

TypeOK ==
  /\ work \subseteq Worker
  /\ newer \in [Server -> SUBSET Worker]
  /\ connected \subseteq Worker
  /\ cooling \in [Server -> SUBSET Worker]
  /\ failures \in [Server -> [Worker -> 0 .. MaxFailures]]
  /\ waiting \in [Server -> [Worker -> Wait]]
  /\ registered \in [Server -> [Worker -> Spawn \cup {None}]]
  /\ lock \in [Worker -> {"none", "fresh", "stale"}]
  /\ check \in [Checker -> CheckState]
  /\ job \in [Spawn -> JobState]
  /\ killed \subseteq Spawn
  /\ aged \subseteq Worker

Init ==
  /\ work = {}
  /\ newer = [m \in Server |-> {}]
  /\ connected = {}
  /\ cooling = [m \in Server |-> {}]
  /\ failures = [m \in Server |-> [w \in Worker |-> 0]]
  /\ waiting = [m \in Server |-> [w \in Worker |-> "no"]]
  /\ registered = [m \in Server |-> [w \in Worker |-> None]]
  /\ lock = [w \in Worker |-> "none"]
  /\ check = [k \in Checker |-> IdleCheck]
  /\ job = [g \in Spawn |-> NoJob]
  /\ killed = {}
  /\ aged = {}

-----------------------------------------------------------------------------
(***************************************************************************)
(* What goes on around the manager                                         *)
(***************************************************************************)
\* A message or a task; the STOP message of cancel_agent is one, too.
Arrive(w) ==
  /\ work' = work \cup {w}
  /\ newer' = [m \in Server |-> newer[m] \cup {w}]
  /\ UNCHANGED <<connected, manager, lock, check, job, killed, aged>>

\* It is read, claimed, completed or withdrawn by whoever does so.
WorkDone(w) ==
  /\ work' = work \ {w}
  /\ UNCHANGED <<newer, connected, manager, lock, check, job, killed, aged>>

Connection(w) ==
  /\ connected' = IF w \in connected THEN connected \ {w} ELSE connected \cup {w}
  /\ UNCHANGED <<work, newer, manager, lock, check, job, killed, aged>>

CooldownOver(m, w) ==
  /\ cooling' = [cooling EXCEPT ![m] = @ \ {w}]
  /\ UNCHANGED <<work, newer, connected, failures, waiting, registered, lock, check, job,
                 killed, aged>>

BackoffOver(m, w) ==
  /\ waiting[m][w] \in {"backoff", "deadline"}
  /\ waiting' = [waiting EXCEPT ![m][w] = IF @ = "deadline" THEN "past" ELSE "no"]
  /\ UNCHANGED <<work, newer, connected, cooling, failures, registered, lock, check, job,
                 killed, aged>>

\* workerLockfileStale has passed since the lock file was written, whether
\* or not the spawn it was written for has ended.
LockAges(w) ==
  /\ lock[w] = "fresh"
  /\ lock' = [lock EXCEPT ![w] = "stale"]
  /\ aged' = aged \cup {w}
  /\ UNCHANGED <<work, newer, connected, manager, check, job, killed>>

-----------------------------------------------------------------------------
(***************************************************************************)
(* Check                                                                   *)
(***************************************************************************)
Begun == [pc |-> "next", at |-> None, left |-> Worker, seen |-> work, new |-> {}]

\* The state is loaded once, without the service's mutex, for all instances.
LoadWork(k) ==
  /\ \/ check[k].pc = "idle"
     \/ check[k].pc = "pause"
  /\ check' = [check EXCEPT ![k] = [Begun EXCEPT !.new = newer[k[1]]]]
  /\ UNCHANGED <<work, newer, connected, manager, lock, job, killed, aged>>

\* failureBackoffBlocked: a deadline goes before the count of failures.
Blocked(m, w) ==
  /\ failures[m][w] > 0
  /\ waiting[m][w] # "past"
  /\ waiting[m][w] # "no" \/ failures[m][w] = MaxFailures

\* The check goes on with the instances that are left, or ends.
Remaining(k, left) ==
  IF left = {} THEN IdleCheck
  ELSE [check[k] EXCEPT !.pc = "next", !.at = None, !.left = left]

\* The guards of one instance, in any order of the instances; work that is
\* newer than the failure lifts the backoff (ResetFailureBackoff), and a
\* deadline that has passed is forgotten, whatever is left of the backoff.
Consider(k, w) ==
  LET m      == k[1]
      wanted == w \in check[k].seen \ (connected \cup cooling[m])
      start  == wanted /\ (Blocked(m, w) => w \in check[k].new)
      left   == check[k].left \ {w}
  IN /\ check[k].pc = "next"
     /\ w \in check[k].left
     /\ failures' = [failures EXCEPT ![m][w] = IF start /\ Blocked(m, w) THEN 0 ELSE @]
     /\ \E v \in IF waiting[m][w] = "past" THEN {"no", "backoff"} ELSE {"no"} :
          waiting' = [waiting EXCEPT ![m][w] = IF start THEN v ELSE @]
     /\ check' = [check EXCEPT ![k] =
          IF start THEN [Remaining(k, left) EXCEPT !.pc = "stat", !.at = w]
          ELSE Remaining(k, left)]
     /\ UNCHANGED <<work, newer, connected, cooling, registered, lock, job, killed, aged>>

\* Faulty definitions are seeded faults: each stands in for the definition
\* after it to see that a property notices.
FaultyStatLock(k) ==
  /\ check[k].pc = "stat"
  /\ check' = [check EXCEPT ![k] =
       IF lock[@.at] # "none" THEN Remaining(k, @.left) ELSE [@ EXCEPT !.pc = "create"]]
  /\ UNCHANGED <<work, newer, connected, manager, lock, job, killed, aged>>

\* acquireLock looks at the file, removes it if it is old, and creates it.
StatLock(k) ==
  LET was == lock[check[k].at]
  IN /\ check[k].pc = "stat"
     /\ check' = [check EXCEPT ![k] =
          IF was = "fresh" THEN Remaining(k, check[k].left)
          ELSE [@ EXCEPT !.pc = IF was = "stale" THEN "remove" ELSE "create"]]
     /\ UNCHANGED <<work, newer, connected, manager, lock, job, killed, aged>>

RemoveLock(k) ==
  /\ check[k].pc = "remove"
  /\ lock' = [lock EXCEPT ![check[k].at] = "none"]
  /\ check' = [check EXCEPT ![k].pc = "create"]
  /\ UNCHANGED <<work, newer, connected, manager, job, killed, aged>>

\* O_EXCL: it fails on a file that is there.
LockTaken(k) ==
  /\ check[k].pc = "create"
  /\ lock[check[k].at] # "none"
  /\ check' = [check EXCEPT ![k] = Remaining(k, check[k].left)]
  /\ UNCHANGED <<work, newer, connected, manager, lock, job, killed, aged>>

FaultyCreateLock(k, g) ==
  /\ check[k].pc = "create"
  /\ job[g].pc = "free"
  /\ lock' = [lock EXCEPT ![check[k].at] = "fresh"]
  /\ job' = [job EXCEPT ![g] = [pc |-> "ready", on |-> k[1], of |-> check[k].at, tries |-> 0]]
  /\ check' = [check EXCEPT ![k] = Remaining(k, check[k].left)]
  /\ UNCHANGED <<work, newer, connected, manager, killed, aged>>

\* With the lock, the worktree is prepared, the acknowledgement sent and the
\* goroutine started.
CreateLock(k, g) ==
  /\ check[k].pc = "create"
  /\ lock[check[k].at] = "none"
  /\ job[g].pc = "free"
  /\ lock' = [lock EXCEPT ![check[k].at] = "fresh"]
  /\ job' = [job EXCEPT ![g] = [pc |-> "ready", on |-> k[1], of |-> check[k].at, tries |-> 0]]
  /\ check' = [check EXCEPT ![k] = Remaining(k, check[k].left)]
  /\ UNCHANGED <<work, newer, connected, manager, killed, aged>>

-----------------------------------------------------------------------------
(***************************************************************************)
(* spawn and runOnce                                                       *)
(***************************************************************************)
\* The spawn goes on with what it is for.
At(g, pc, tries) == [pc |-> pc, on |-> job[g].on, of |-> job[g].of, tries |-> tries]

FaultyLaunch(g) ==
  /\ job[g].pc \in {"ready", "sleeping"}
  /\ job' = [job EXCEPT ![g] = At(g, "running", job[g].tries + 1)]
  /\ registered' = [registered EXCEPT ![job[g].on][job[g].of] =
                      IF job[g].tries = 0 THEN g ELSE @]
  /\ UNCHANGED <<work, newer, connected, cooling, failures, waiting, lock, check, killed, aged>>

\* The first attempt, or the next one after the delay: a process with a
\* context of its own, registered under the instance.
Launch(g) ==
  /\ job[g].pc \in {"ready", "sleeping"}
  /\ job' = [job EXCEPT ![g] = At(g, "running", job[g].tries + 1)]
  /\ registered' = [registered EXCEPT ![job[g].on][job[g].of] = g]
  /\ UNCHANGED <<work, newer, connected, cooling, failures, waiting, lock, check, killed, aged>>

\* runOnce has returned: whatever cancel is registered for the instance goes.
Returned(g, pc) ==
  /\ job[g].pc = "running"
  /\ job' = [job EXCEPT ![g] = At(g, pc, IF pc = "sleeping" THEN @.tries ELSE 0)]
  /\ registered' = [registered EXCEPT ![job[g].on][job[g].of] = None]
  /\ killed' = killed \ {g}
  /\ UNCHANGED <<connected, lock, aged>>

\* reconcileAfterExit may put tasks back to pending, which are no newer for
\* it.  Then the cooldown starts and the failures are forgotten.
Succeed(g) ==
  LET m == job[g].on
      w == job[g].of
  IN /\ g \notin killed
     /\ Returned(g, "leaving")
     /\ work' \in {work, work \cup {w}}
     /\ cooling' = [cooling EXCEPT ![m] = @ \cup {w}]
     /\ failures' = [failures EXCEPT ![m][w] = 0]
     /\ waiting' = [waiting EXCEPT ![m][w] = "no"]
     /\ UNCHANGED <<newer, check>>

FaultyRetry(g) ==
  /\ job[g].tries <= MaxRetries + 1
  /\ Returned(g, "sleeping")
  /\ UNCHANGED <<work, newer, cooling, failures, waiting, check>>

\* An error that is worth a retry: a time-out, an unknown exit, or a process
\* that was killed because the worker was cancelled or restarted.
Retry(g) ==
  /\ job[g].tries <= MaxRetries
  /\ Returned(g, "sleeping")
  /\ UNCHANGED <<work, newer, cooling, failures, waiting, check>>

\* lastFailure is now: all the work there is, seen by a check or not, is
\* older than that.
Failed(g, n, wait) ==
  LET m == job[g].on
      w == job[g].of
  IN /\ Returned(g, "leaving")
     /\ failures' = [failures EXCEPT ![m][w] = n]
     /\ waiting' = [waiting EXCEPT ![m][w] = wait]
     /\ newer' = [newer EXCEPT ![m] = @ \ {w}]
     /\ check' = [k \in Checker |->
          IF k[1] = m THEN [check[k] EXCEPT !.new = @ \ {w}] ELSE check[k]]
     /\ UNCHANGED <<work, cooling>>

\* The retries are used up: one more failure in a row.
GiveUp(g) ==
  LET n == failures[job[g].on][job[g].of]
      v == waiting[job[g].on][job[g].of]
  IN /\ job[g].tries > MaxRetries
     /\ Failed(g, IF n < MaxFailures THEN n + 1 ELSE n,
                  IF v \in {"deadline", "past"} THEN v ELSE "backoff")

\* recordTerminalFailure: with a time to wait it counts as one failure,
\* without one the instance is blocked as if it had failed too often.
Terminal(g) ==
  \/ Failed(g, 1, "deadline")
  \/ Failed(g, MaxFailures, waiting[job[g].on][job[g].of])

\* The deferred releaseLock removes the file, whoever wrote it.
Release(g) ==
  /\ job[g].pc = "leaving"
  /\ lock' = [lock EXCEPT ![job[g].of] = "none"]
  /\ job' = [job EXCEPT ![g] = NoJob]
  /\ UNCHANGED <<work, newer, connected, manager, check, killed, aged>>

-----------------------------------------------------------------------------
(***************************************************************************)
(* Cancelling, restarting, and the end of a server                         *)
(***************************************************************************)
\* CancelWorker finds a process by its registered cancel and by nothing else.
CancelWorker(m, w) ==
  /\ registered[m][w] # None
  /\ killed' = killed \cup {registered[m][w]}
  /\ UNCHANGED <<work, newer, connected, manager, lock, check, job, aged>>

\* RestartWorkers cancels what is registered, forgets cooldowns and
\* failures, pauses, and checks.
RestartWorkers(m) ==
  /\ check[<<m, "restart">>].pc = "idle"
  /\ killed' = killed \cup ({registered[m][w] : w \in Worker} \ {None})
  /\ cooling' = [cooling EXCEPT ![m] = {}]
  /\ failures' = [failures EXCEPT ![m] = [w \in Worker |-> 0]]
  /\ waiting' = [waiting EXCEPT ![m] = [w \in Worker |-> "no"]]
  /\ check' = [check EXCEPT ![<<m, "restart">>].pc = "pause"]
  /\ UNCHANGED <<work, newer, connected, registered, lock, job, aged>>

Live == {g \in Spawn : job[g].pc # "free"}

\* A server that stops or crashes cancels no worker and removes no lock
\* file: its goroutines are gone, the processes (Setpgid) go on.  The next
\* one starts with empty maps.
ServerEnds(m) ==
  /\ job' = [g \in Spawn |->
       IF job[g].on # m \/ job[g].pc = "orphan" THEN job[g]
       ELSE IF job[g].pc = "running" THEN At(g, "orphan", 0)
       ELSE NoJob]
  /\ killed' = {g \in killed : job[g].on # m}
  /\ check' = [k \in Checker |-> IF k[1] = m THEN IdleCheck ELSE check[k]]
  /\ cooling' = [cooling EXCEPT ![m] = {}]
  /\ failures' = [failures EXCEPT ![m] = [w \in Worker |-> 0]]
  /\ waiting' = [waiting EXCEPT ![m] = [w \in Worker |-> "no"]]
  /\ registered' = [registered EXCEPT ![m] = [w \in Worker |-> None]]
  /\ newer' = [newer EXCEPT ![m] = {}]
  /\ UNCHANGED <<work, connected, lock, aged>>

OrphanEnds(g) ==
  /\ job[g].pc = "orphan"
  /\ job' = [job EXCEPT ![g] = NoJob]
  /\ UNCHANGED <<work, newer, connected, manager, lock, check, killed, aged>>

-----------------------------------------------------------------------------
LockSteps(k) ==
  StatLock(k) \/ RemoveLock(k) \/ LockTaken(k) \/ \E g \in Spawn : CreateLock(k, g)

CheckSteps(k) == LoadWork(k) \/ (\E w \in Worker : Consider(k, w)) \/ LockSteps(k)

Return(g) == Succeed(g) \/ Retry(g) \/ GiveUp(g) \/ Terminal(g)

JobSteps(g) == Launch(g) \/ Return(g) \/ Release(g) \/ OrphanEnds(g)

Around(w) ==
  \/ Arrive(w) \/ WorkDone(w) \/ Connection(w) \/ LockAges(w)
  \/ \E m \in Server : CooldownOver(m, w) \/ BackoffOver(m, w)

Operator(m) == RestartWorkers(m) \/ ServerEnds(m) \/ \E w \in Worker : CancelWorker(m, w)

Next ==
  \/ \E k \in Checker : CheckSteps(k)
  \/ \E g \in Spawn : JobSteps(g)
  \/ \E w \in Worker : Around(w)
  \/ \E m \in Server : Operator(m)

\* The watchdog saves the state at every tick, which makes the notifier
\* check; a process ends at its time-out at the latest; time goes on.
Fairness ==
  /\ \A m \in Server : WF_vars(CheckSteps(<<m, "notifier">>))
  /\ \A g \in Spawn : WF_vars(JobSteps(g))
  /\ \A w \in Worker : WF_vars(LockAges(w))
  /\ \A m \in Server, w \in Worker : WF_vars(CooldownOver(m, w)) /\ WF_vars(BackoffOver(m, w))

Spec == Init /\ [][Next]_vars /\ Fairness

-----------------------------------------------------------------------------
(***************************************************************************)
(* Properties                                                              *)
(***************************************************************************)
\* policy.go on the instances of a worker type: "max concurrent instances
\* (default 1)".  A lock file that goes stale, as it does under a spawn of
\* more than five minutes, is the only way to two spawns of one instance:
\* whatever checks run beside each other, in however many servers, whoever
\* restarts, cancels or crashes, an instance whose lock never aged has one.
OverlapNeedsStaleLock ==
  \A g, h \in Live : job[g].of = job[h].of => g = h \/ job[g].of \in aged

\* cancel_agent and RestartWorkers reach a running process through the map
\* of cancels, in whose entry every attempt overwrites and every return
\* deletes: with no stale lock a running process is always found there.
RunningIsCancellable ==
  \A g \in Spawn :
    job[g].pc = "running" /\ job[g].of \notin aged
      => registered[job[g].on][job[g].of] = g

\* Work for an instance that nobody is connected as is attended to again and
\* again, despite cooldowns, backoffs, failures, cancels and lock files left
\* behind: unless the servers keep ending, or the failures block it for good.
WorkIsAttended ==
  \A m \in Server, w \in Worker :
    <>[](w \in work \ connected)
      => \/ []<>(\E g \in Live : job[g].of = w /\ job[g].pc = "running")
         \/ <>[](failures[m][w] = MaxFailures)
         \/ []<><<ServerEnds(m)>>_vars

=============================================================================
