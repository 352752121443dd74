----------------------------- MODULE FileLocks -----------------------------
(***************************************************************************)
(* The file locks that keep two agents from editing one file at a time:    *)
(* lock_file with its expiry and its force, the locks claim_next takes for *)
(* the files of a task, and the workspace root which turns what an agent   *)
(* writes into the path that is locked.                                    *)
(*                                                                         *)
(* Path names are validated before the handler enters CollabService.Run,   *)
(* under the root of that instant; everything inside Run is one step.  A   *)
(* handler that fails saves nothing, not even the clean-up of expired      *)
(* locks.  Time is counted down in every lock and in every promise.        *)
(*                                                                         *)
(* Left out: priorities and dependencies of tasks and unread messages,     *)
(* which only keep claim_next from taking a task.  The files of one claim  *)
(* are resolved under one root.  set_presence may move the root whatever   *)
(* workspace its agent gave before.                                        *)
(***************************************************************************)
EXTENDS Integers

CONSTANTS
  Agent,         \* the agents that call
  Task,          \* ids of tasks
  Root,          \* workspaces the server may be pointed at
  Spelling,      \* what agents and tasks write for a file
  Path,          \* absolute paths
  PathOf,        \* what a spelling stands for under a root, Outside if not in it
  Outside, None, Any,
  MaxMinutes,    \* the longest lock, 120
  ClaimMinutes,  \* the locks taken with a task, 60
  Asked,         \* the durations agents ask for
  Scopes         \* the sets of relevant files tasks are created with

ASSUME NamesAssumption ==
  /\ None \notin Agent \cup Path
  /\ Any \notin Agent
  /\ Outside \notin Path
ASSUME PathOfAssumption == PathOf \in [Root -> [Spelling -> Path \cup {Outside}]]
ASSUME MinutesAssumption ==
  /\ MaxMinutes \in Nat \ {0}
  /\ ClaimMinutes \in 1..MaxMinutes
  /\ Asked \subseteq Int
ASSUME ScopesAssumption == Scopes \subseteq SUBSET Spelling

VARIABLES
  root,       \* the workspace root of the policy
  call,       \* per agent: the path validated for its lock_file call, or None
  lock,       \* per path: holder and minutes to the expiry
  tstatus, assignee,
  scope,      \* per task: the relevant files of its work context
  told,       \* history, per agent and path: the minutes it was last promised
  overruled   \* history: paths whose lock was taken or cut in spite of a promise

taskVars == <<tstatus, assignee, scope>>
vars == <<root, call, lock, taskVars, told, overruled>>

Status == {"absent", "pending", "in_progress", "closed"}  \* completed, blocked and cancelled
Held(a, m) == [by |-> a, left |-> m]
Free == Held(None, 0)
LockState == [by : Agent \cup {None}, left : 0..MaxMinutes]

TypeOK ==
  /\ root \in Root
  /\ call \in [Agent -> Path \cup {None}]
  /\ lock \in [Path -> LockState]
  /\ tstatus \in [Task -> Status]
  /\ assignee \in [Task -> Agent \cup {Any}]
  /\ scope \in [Task -> SUBSET Spelling]
  /\ told \in [Agent -> [Path -> 0..MaxMinutes]]
  /\ overruled \in SUBSET Path

Init ==
  /\ root \in Root
  /\ call = [a \in Agent |-> None]
  /\ lock = [p \in Path |-> Free]
  /\ tstatus = [t \in Task |-> "absent"]
  /\ assignee = [t \in Task |-> Any]
  /\ scope = [t \in Task |-> {}]
  /\ told = [a \in Agent |-> [p \in Path |-> 0]]
  /\ overruled = {}
-----------------------------------------------------------------------------
(***************************************************************************)
(* lock_file                                                               *)
(***************************************************************************)

FaultyClamp(d) == IF d < 1 THEN 1 ELSE d

Clamp(d) == IF d > MaxMinutes THEN MaxMinutes ELSE IF d < 1 THEN 1 ELSE d

FaultyExpire(l) == [p \in Path |-> IF l[p].left <= 1 THEN Free ELSE l[p]]

\* cleanupExpiredLocks, which only lock_file calls.
Expire(l) == [p \in Path |-> IF l[p].left = 0 THEN Free ELSE l[p]]

\* A path stays overruled for as long as somebody relies on it.
Unsettled(P, promises) == {p \in P : \E a \in Agent : promises[a][p] > 0}

\* The handler validates the path and has not entered Run yet.
Validate(a, s) ==
  /\ call[a] = None
  /\ PathOf[root][s] \in Path
  /\ call' = [call EXCEPT ![a] = PathOf[root][s]]
  /\ UNCHANGED <<root, lock, taskVars, told, overruled>>

MayHold(a, p) == Expire(lock)[p].by \in {None, a}

\* A new lock, or its holder's extension, which may as well shorten it.
LockFile(a, d) ==
  /\ call[a] \in Path
  /\ MayHold(a, call[a])
  /\ lock' = [Expire(lock) EXCEPT ![call[a]] = Held(a, Clamp(d))]
  /\ told' = [told EXCEPT ![a][call[a]] = Clamp(d)]
  /\ call' = [call EXCEPT ![a] = None]
  /\ UNCHANGED <<root, taskVars, overruled>>

\* Also when the path is not locked, or its lock has expired.
Unlock(a, force) ==
  /\ call[a] \in Path
  /\ MayHold(a, call[a]) \/ force
  /\ lock' = [Expire(lock) EXCEPT ![call[a]] = Free]
  /\ told' = [told EXCEPT ![a][call[a]] = 0]
  /\ overruled' = Unsettled(overruled \cup (IF MayHold(a, call[a]) THEN {} ELSE {call[a]}), told')
  /\ call' = [call EXCEPT ![a] = None]
  /\ UNCHANGED <<root, taskVars>>

FaultyRefuse(a) ==
  /\ call[a] \in Path
  /\ ~MayHold(a, call[a])
  /\ lock' = [lock EXCEPT ![call[a]].left = MaxMinutes]
  /\ call' = [call EXCEPT ![a] = None]
  /\ UNCHANGED <<root, taskVars, told, overruled>>

\* Somebody else's lock: the handler returns an error, so Run does not save.
Refuse(a) ==
  /\ call[a] \in Path
  /\ ~MayHold(a, call[a])
  /\ call' = [call EXCEPT ![a] = None]
  /\ UNCHANGED <<root, lock, taskVars, told, overruled>>

\* The actions check and list.
Inspect ==
  /\ lock' = Expire(lock)
  /\ UNCHANGED <<root, call, taskVars, told, overruled>>
-----------------------------------------------------------------------------
(***************************************************************************)
(* Tasks, as far as locks depend on them                                   *)
(***************************************************************************)

\* create_task with relevant files, whose spellings are kept as they are.
CreateTask(t, to, files) ==
  /\ tstatus[t] = "absent"
  /\ tstatus' = [tstatus EXCEPT ![t] = "pending"]
  /\ assignee' = [assignee EXCEPT ![t] = to]
  /\ scope' = [scope EXCEPT ![t] = files]
  /\ UNCHANGED <<root, call, lock, told, overruled>>

\* Every other handler that changes a task: none of them touches a lock, so
\* locks outlive the work they were taken for.
UpdateTask(t, st, to) ==
  /\ tstatus[t] # "absent"
  /\ tstatus' = [tstatus EXCEPT ![t] = st]
  /\ assignee' = [assignee EXCEPT ![t] = to]
  /\ UNCHANGED <<root, call, lock, scope, told, overruled>>

Relevant(t) == {PathOf[root][s] : s \in scope[t]} \cap Path

FaultyAutoLock(a, P) == [p \in Path |-> IF p \in P THEN Held(a, ClaimMinutes) ELSE lock[p]]

\* No clean-up here: a lock of somebody else counts even when it has expired.
AutoLock(a, P) ==
  [p \in Path |-> IF p \in P /\ lock[p].by \in {None, a} THEN Held(a, ClaimMinutes) ELSE lock[p]]

\* The locks of a claim replace the claimer's own, which may have had longer
\* to go; the answer does not mention them.
ClaimNext(a, t) ==
  /\ \A u \in Task : ~(tstatus[u] = "in_progress" /\ assignee[u] = a)
  /\ tstatus[t] = "pending"
  /\ assignee[t] \in {a, Any}
  /\ tstatus' = [tstatus EXCEPT ![t] = "in_progress"]
  /\ assignee' = [assignee EXCEPT ![t] = a]
  /\ lock' = AutoLock(a, Relevant(t))
  /\ overruled' = overruled \cup {p \in Relevant(t) : lock[p].by = a /\ told[a][p] > ClaimMinutes}
  /\ UNCHANGED <<root, call, scope, told>>
-----------------------------------------------------------------------------
(***************************************************************************)
(* The dashboard, the workspace and time                                   *)
(***************************************************************************)

\* Resetting the state, or switching the project, drops every lock.
Reset ==
  /\ lock' = [p \in Path |-> Free]
  /\ tstatus' = [t \in Task |-> "absent"]
  /\ assignee' = [t \in Task |-> Any]
  /\ scope' = [t \in Task |-> {}]
  /\ overruled' = Unsettled(Path, told)
  /\ UNCHANGED <<root, call, told>>

\* set_presence of any agent, and the last step of a switch of project.
SetWorkspaceRoot(r) ==
  /\ root' = r
  /\ UNCHANGED <<call, lock, taskVars, told, overruled>>

Less(n) == IF n = 0 THEN 0 ELSE n - 1

Elapse ==
  /\ lock' = [p \in Path |-> Held(lock[p].by, Less(lock[p].left))]
  /\ told' = [a \in Agent |-> [p \in Path |-> Less(told[a][p])]]
  /\ overruled' = Unsettled(overruled, told')
  /\ UNCHANGED <<root, call, taskVars>>
-----------------------------------------------------------------------------
LockTool ==
  \/ \E a \in Agent, s \in Spelling : Validate(a, s)
  \/ \E a \in Agent, d \in Asked : LockFile(a, d)
  \/ \E a \in Agent, force \in BOOLEAN : Unlock(a, force)
  \/ \E a \in Agent : Refuse(a)
  \/ Inspect

Tasks ==
  \/ \E t \in Task, to \in Agent \cup {Any}, files \in Scopes : CreateTask(t, to, files)
  \/ \E t \in Task, st \in Status \ {"absent"}, to \in Agent \cup {Any} : UpdateTask(t, st, to)
  \/ \E a \in Agent, t \in Task : ClaimNext(a, t)

Next ==
  \/ LockTool
  \/ Tasks
  \/ Reset
  \/ \E r \in Root : SetWorkspaceRoot(r)
  \/ Elapse

Spec == Init /\ [][Next]_vars

\* Only time is certain to go on; no agent has to unlock, renew or ask.
FairSpec == Spec /\ WF_vars(Elapse)
-----------------------------------------------------------------------------
(***************************************************************************)
(* Properties                                                              *)
(***************************************************************************)

\* An agent that was promised a file still holds its lock, and for no less
\* than promised, whatever others lock, claim, inspect or fail to get while
\* the root moves, unless the file was force-unlocked, reset, or claimed by
\* the agent itself with a task for a shorter time.
ToldIsHeld ==
  \A a \in Agent, p \in Path :
    told[a][p] > 0 /\ p \notin overruled => lock[p].by = a /\ told[a][p] <= lock[p].left

\* README: "File locks -- prevent simultaneous edits across agents".  With the
\* same exceptions, no two agents rely on one file at a time.
OneEditor ==
  \A a, b \in Agent, p \in Path :
    told[a][p] > 0 /\ told[b][p] > 0 /\ p \notin overruled => a = b

Renewal(a, p) ==
  \/ \E d \in Asked : call[a] = p /\ LockFile(a, d)
  \/ \E t \in Task : p \in Relevant(t) /\ ClaimNext(a, t)

\* lock_file: "Locks auto-expire to prevent deadlocks".  A lock is not in the
\* way for ever unless its holder renews it again and again: not by refused
\* requests of others, nor because the holder unlocks under another root.
LocksEnd ==
  \A a \in Agent, p \in Path :
    \/ []<>~(lock[p].by = a /\ lock[p].left > 0)
    \/ []<><<Renewal(a, p)>>_vars
=============================================================================
