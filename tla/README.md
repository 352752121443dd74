# Verification of stringwork

stringwork is a Go server over which AI coding agents work as a pair: a *driver* creates tasks,
*workers* claim and complete them, a *watchdog* recovers what silent workers leave behind, and a
*worker manager* starts worker processes when there is work for them. All of it hangs on one shared
state document in SQLite, on a registry of MCP sessions in memory, and on a daemon process that
lives for as long as a driver window is open.

This directory holds TLA+ modules of the parts that have a logic of their own, TLC configurations
that check them on small instances, and TLAPS proofs for any values of the constants.

```
tlc -workers 2 -config TaskBoard.cfg MCTaskBoard     # likewise for the other configurations
tlapm TaskBoardProofs.tla                            # likewise for the other *Proofs modules
```

`PROJECT.json` lists the components, the runs, a seeded fault (mutant) for every checked property,
the source lines that every definition stands for, the hazards, the findings and the theorems.

## 1. Inventory of the system

Paths are below `src/`. `collab/` is `internal/tools/collab/`, `app/` is `internal/app/`.

| Component | State it keeps | Operations | What is hard about it |
| --- | --- | --- | --- |
| **Task board** (`collab/tasks.go`, `workflow.go`, `cancel.go`, `heartbeat.go`, `report_progress.go`, `session.go`, `agents.go`, `app/orchestrator.go`, `helpers.go`) | tasks (status, assignee, dependencies), agent instances (status, `CurrentTasks`, heartbeat), registered agents | create, update, claim, handoff, request review, cancel, heartbeat, progress, register, reset | seven handlers write the two fields of an instance by hand; tasks may be assigned to a type, an instance or `any`; map iteration has no order |
| **Watchdog** (`app/watchdog.go`) | nothing on disk; the alerts already sent, in memory | every minute: find dead instances, recover tasks, alert, prune sessions | liveness is judged from three clocks; locks are released between judging and acting; what was alerted is remembered before the save that may fail |
| **Session registry** (`app/session_registry.go`) | two maps between sessions and agents, last activity | bind, touch, remove, list | clients reconnect and rename themselves while the watchdog prunes |
| **Worker manager** (`app/worker_manager.go`) | running processes, cooldowns, failures and backoffs in memory; lock files in the temporary directory | check, spawn with retries, cancel, restart, reconcile | checks of several goroutines and servers share lock files; processes outlive the server; a lock file ages under its owner |
| **Daemon** (`cmd/mcp-server/daemon.go`) | count of connections, grace timer, socket, PID and lock files | accept, close, expire, signal, start | an atomic counter and a mutex guard two halves of one decision; the files are shared with the next daemon |
| **State service and store** (`app/service.go`, `internal/repository/sqlite/store.go`) | the state document | `Run` = load, change, save, signal; `Query` | the mutex is per process, a load is many selects outside a transaction, a save replaces everything |
| **Notifier** (`app/notifier.go`, `notify_signal.go`) | revision last pushed | trigger (debounced), poll, push, check workers | a push that is skipped skips the check for workers, too |
| **Messages** (`collab/messaging.go`, `piggyback.go`, `app/pruning.go`) | messages with one read flag, banners | send, read, banner, retention | broadcast, retention of unread messages |
| **File locks** (`collab/file_lock.go`, `work_context.go`, `internal/policy/policy.go`) | locks with an expiry, the workspace root | lock, unlock, forced unlock, locks taken with a task, move the root | two rules for taking a lock; expired locks that nobody cleans up; one root for all agents |
| **Plans, work contexts** (`collab/planning.go`, `work_context.go`) | plans and items, notes | create, share, update | dependencies between items |
| **Proxy** (`cmd/mcp-server/proxy.go`) | the session with the daemon | dial, relay, dial again, leave | the daemon may go away, or be replaced, under it |
| **Worktrees** (`internal/worktree/`) | one git worktree per instance | ensure, clean up | cleaning up under a running worker |
| **Knowledge index** (`internal/knowledge/`) | a full-text index of files, notes and tasks; a debounce map | scan, watch, synchronise, search | files change between the steps of a scan, between scan and watcher, and within the debounce |
| **Dashboard** (`internal/dashboard/`) | none | read, reset, switch project | restarts workers before the reset |
| **Policy, instructions, resources, OAuth stand-in, wiring** | configuration | read | none of their own |

How they interact. A tool call reaches a handler through the piggyback middleware, which marks its
session active. The handler runs inside `CollabService.Run`; a save raises the notify signal and
triggers the notifier. The notifier has the worker manager check for work and pushes to the
connected client. Worker processes connect back as clients. The watchdog runs inside
`CollabService.Run`, reads the registry, then prunes it. `cancel_agent` changes the state, then asks
the worker manager to kill the process. The dashboard restarts workers and resets the state.

What makes each modelled component correct:

* **Task board**: no idle, offline or absent instance holds a task, lists agree with assignees, work
  starts after its dependencies, and a silent worker loses its tasks.
* **Session registry**: the maps are inverse of each other, pruning never hits the driver, and
  whoever falls silent is pruned.
* **Daemon**: the count is exact, it stops when all have left, one daemon runs at a time and can be
  found, and no window waits for ever for one.
* **Worker manager**: one process per instance, a running process can be cancelled, and work that
  nobody attends to gets a process.
* **File locks**: no two agents rely on one file at a time, and no lock stays for ever.
* **Messages, alerts**: nothing is marked read unseen, retention takes the oldest, and the driver is told
  of a silence, and told once as long as the watchdog remembers.
* **Knowledge index**: it follows the files but for changes nobody could tell it of, and settles.
* **State service, store, notifier**: one server's callers see one document which each changes from
  its latest version, and every save is followed by a check for workers that has read it.

## 2. The modules

| Module | Models | Used by |
| --- | --- | --- |
| `TaskBoard` | the board, the watchdog's recovery, the reconciliation after a worker's exit, resets | `MCTaskBoard`, `TaskBoardProofs` |
| `SessionRegistry` | the registry, its callers, the watchdog's pruning | `MCSessionRegistry`, `SessionRegistryProofs` |
| `Daemon` | the connections, the tracker, the grace period and the shutdown of a daemon | `MCDaemon`, `DaemonProofs` |
| `DaemonStart` | windows that find or start a daemon, daemons that follow each other, and their files | `MCDaemonStart`, `DaemonProofs` |
| `StateDocument` | the document, and what handlers do to it | `SerialState`, `StateService` |
| `SerialState` | the promise: one document, changed at once by every `Run` | `StateService`, which implements it |
| `StateService` | load, change, save and signal step by step, the notifier's cycles, restarts | `MCStateService`, `StateServiceProofs` |
| `FileLocks` | `lock_file`, the locks of a claim, expiry, and the root under which paths are read | `MCFileLocks`, `FileLocksProofs` |
| `WorkerSpawn` | checks, lock files, spawns, retries, backoff, cancels, restarts, the end of a server | `MCWorkerSpawn`, `WorkerSpawnProofs` |
| `Messages` | sending with retention, reading, and the watchdog's progress alerts | `MCMessages`, `MessagesProofs` |
| `KnowledgeIndex` | the scan, the watcher, the debounce and the synchronisation of the indexer | `MCKnowledgeIndex`, `KnowledgeIndexProofs` |

An `MC` module gives the constants of its configurations; a `Proofs` module extends the component's
module and TLAPS. Definitions whose names start with `Faulty`, `Mistyped` or `Unguarded` are seeded
faults: no action uses them, and each is put in the place of the definition after it to see that a
property notices.

### TaskBoard

The variables are the fields of the state: `tstatus`, `assignee` and `deps` of tasks, `istatus` and
`current` of instances, `registered`, and `fresh`, the names for which `isAgentAlive` would find a
recent heartbeat or activity. One action stands for one handler, since each handler runs inside
`CollabService.Run`, one mutex from load to save. The actions keep the order of the code's
statements: `UpdateTask` adjusts the lists for the status *argument* and lets `blocked_by` change the
status afterwards, as `tasks.go` does. Lookups that walk a Go map choose any of the matches
(`OneOf`). An update may take off a list at most the one instance that `removeTaskFromInstance`
finds. Time is left out: `GoQuiet` makes a name stale, and whether a task exceeds `taskStuckThresh`
is chosen when the watchdog looks. Priorities, SLA, texts and required capabilities are left out, so
`ClaimNext` may take any task the code could have ranked first. Whether the caller of an operation
exists is checked by the handlers but makes no difference, since some agent always does.

### SessionRegistry

`sessions`, `agents` and `activity` are the registry's maps, and every registry operation is atomic,
as under its lock. The callers are not: `set_presence` and `get_session_context` bind the session
(`Introduce`) before the name is validated and the heartbeat renewed (`Answer`), and the watchdog
lists agents (`PruneStart`), judges each (`PruneJudge`), looks up the session of one it condemned
(`PruneLookup`) and removes it (`PruneRemove`), each under a lock of its own, so calls arrive in
between. `NamesOf` says which names the client of a session gives.

### Daemon

`driverConnected` and `driverDisconnected` touch an atomic counter and then the timer behind a mutex:
`Accept`/`Connected` and `Close`/`Disconnected` are these halves. `GraceOver` is the timer's function.
`Signal` does what the handler in `main.go` does, cancel the bundle's context. `StopServing` and
`Exit` are the two ends of `runDaemon`; the socket accepts until the deferred shutdown.

### DaemonStart

`win` is where the process of a window is in `main`, `startDaemonProcess` and `runProxy`, `proc` where a
daemon is in `runDaemon`; every system call on the socket, the PID file and the lock file is a step.
`Probe` and `Recheck` are `isDaemonRunning`, whose connection the daemon takes for a driver's (`met`);
`AcquireLock` is the exclusive creation of the lock file, after which `CheckPid`, `Clean` and `Exec` start a
daemon and `WaitSucceeds` or `TimeOut` ends the wait. `GivesUp` is the fallback to a standalone server, which
may die of a taken port. `Forward` and `Leave` are the proxy, `Kill` a window closed while starting. A daemon
goes through `WritePid`, `ClearSocket`, `BindPort`, `Listen`, and at its end `Expire`, `Cleanup`, `CloseListener`,
`RemoveSocket`, `RemovePid`, of which the last three remove whatever file is at their path. `Crash` is a
`Fatalf` or a kill at any point and removes nothing.

`gaveUp` and `overtaken` are history variables for the two ways in which the code admits a second server: a
window that stopped waiting, and a daemon that removed its successor's socket. The grace period is
reduced to: a daemon that was ever connected to may end (`Expire`), even under a window that connects as its grace
period begins, and an idle one must; that it ends for no other reason is `StopCorrect` of `Daemon`.
Not modelled: sessions, the relayed texts, and the notification stream.

### WorkerSpawn

Every server has two checkers, the notifier (whose checks `pushMu` serializes) and a start or restart
of workers. `LoadWork` is the load of the state, `Consider` the guards of one instance, `StatLock`,
`RemoveLock`, `LockTaken` and `CreateLock` the system calls of `acquireLock` and the start of the
goroutine. A goroutine of `spawn` is an entry of `job`: `Launch` registers the cancel and runs the
process, which returns by `Succeed`, `Retry`, `GiveUp` or `Terminal`, and `Release` removes the lock
file, whoever wrote it. `CancelWorker` and `RestartWorkers` kill what is registered; a killed process
counts as a failed attempt. `ServerEnds` is a stop or crash: maps and goroutines are gone, lock
files stay, and processes go on in process groups of their own (`orphan`).

`waiting` holds what `failureBackoffBlocked` finds: a backoff since the last failure or a deadline,
which is ahead or has passed; `newer` that the newest work is later than the last failure. `aged` is
a history variable: the instances whose lock file has ever gone stale.

Abstractions: the guards of one instance are one step although the code takes the manager's mutex
several times for them; the instances are taken in any order; the maps are cleared of a process and
the failure recorded in one step; amounts of work are left out. Not modelled: the registration of MCP
servers, the environment and output of a process, and the messages about starts and failures.

### StateDocument, SerialState, StateService

A document is reduced to what tells a torn, stale or lost version apart: the counter of task ids, the
tasks with their creators, and the tasks on lists, which are three tables that a load reads one after
the other (`ReadCounters`, `ReadTasks` with the self-healing of the counter, `ReadInstances`). `Begin`
takes the mutex of the caller's server; `Abandon` is a failing load, function or transaction, and the
end of a `Query`; `Save` is the function's change and the transaction that replaces all tables.
`Effects` are the changes handlers make, the same in both specifications; what they do in detail is
`TaskBoard`'s. `db` may start with a counter that lags behind its rows, so the refinement mapping is
`doc <- Healed(db)`: the document is what the next load will find.

After a save `Truncate` and `WriteRevision` are the two halves of `os.WriteFile`, `TouchFails` an
error of it, `Trigger` the notifier's part. A revision is `current` or `old` relative to the signal file;
two old ones may be equal or not (`MayMatch`, `MayDiffer`). A cycle of `checkAndPush` is `ScanStart`,
then `ScanSkips` or a check (`ScanChecks`, `CheckFails`), then `ScanPushes` or `PushFails`; timer, poll and
file events only start one. `unchecked` and `lapsed` are history variables: a save that no check has
read, and a failure since the last revision, for which nothing but the next revision makes up. The
watchdog saves every minute, so the next revision comes.

### FileLocks

`lock` gives the holder of a path and the minutes to its expiry, which `Elapse` counts down; an expired
lock stays until `cleanupExpiredLocks` (`Expire`) is reached by a handler that saves. `Validate` is
`ValidatePath`, before the handler waits for the mutex, so `SetWorkspaceRoot` may move the root in between;
`LockFile`, `Unlock` and `Refuse` are the three outcomes inside `Run`, the last of which saves nothing.
`Inspect` is check and list, which clean up, too. `ClaimNext` takes the locks of a task's files
(`AutoLock`) by a rule of its own: no clean-up, and a new expiry over the claimer's own locks.
`UpdateTask` stands for every other handler that changes a task; none touches a lock.

`told` and `overruled` are history variables: how long an agent was last promised a path by `lock_file`,
and the paths whose lock was then taken by force or reset, or cut by the holder's own claim. Those are
the three ways in which the code lets an agent rely on a file it no longer holds. Paths are what
`ValidatePath` makes of a spelling; symbolic links, which its comment mentions and its code does not
resolve, are two paths.

### Messages

`box` is the list of messages: addressee, read flag, whether retention finds it too old, and, as history, who
was given it when it was marked (`shown`). `Send` prunes, `Post` stands for the handlers that append without
pruning, `Read` marks what it returns. The banner counts what is unread for an agent (`For`) and changes nothing.

`tasks` are the ids in the state, `working` those in progress, and of a task in progress the module keeps what
the watchdog judges: `quiet`, the silence since `LastProgressAt` or `UpdatedAt` against the two thresholds, and
`late`, since `UpdatedAt` against the expected duration. `Check` is a whole check of the watchdog, with `Alert`
and `Remembered` its third phase, and `CheckLost` one whose save fails: the messages are gone and no task was
recovered, but `alertedTasks` has changed. `stuck` are the tasks whose recovery `TaskBoard` models. A check goes
through the tasks there are. A reset leaves `alertedTasks` alone, so the entries of ids that are not in use
stay until a check finds the id in use and open; if a task with that id is created and started between two
checks, its entry is the earlier task's.

Four variables are history. `posted` counts the alerts of a task, by level, since it came to be in progress.
`lost` counts how often its entry was lost meanwhile: by a restart of the server, or by a check that recovered
the task, dropped the entry and could not be saved. `told` are the tasks whose present silence was told. `muted`
are those whose entry is a grave one of something else: a silence before a report or an update, an earlier
attempt, an earlier task with the id, or an alert that could not be saved. Of these the code says nothing.

### KnowledgeIndex

A file is the version of its content; two contents with one checksum are one. `Begin`, `ListName`,
`ReadListed`, `StoreParsed`, `EndWalk`, `Prune` and `EndScan` are `FullScan`: the names of a directory are
read before its files, a file before it is stored. `StartWatcher` follows the scan; `Edit` changes a file and
queues an event if the directory is watched and the queue has room. `SkipEvent`, `HandleRemove`,
`HandleWrite` and `Quiet` are the watch loop with its debounce. `SyncRead` and `SyncStore` are `syncState`, run
by another goroutine. `Stop` is a stop or crash at any point; `StoreFails`, `PruneFails` and `SyncFails` are
errors of the database.

`missed` is a history variable: files with a change that neither the running scan nor the watcher will
come back to. Its causes are named at `StaleHasCause`; what is not among them cannot make a document stale.
`Begin` ignores the error of `IndexedPaths`, as the code does, and scans with any part of the indexed paths.
`Watched` is fixed: a watch that ends with its directory, which may come back, is a file nobody watches.
Not modelled: parsing and search, `RemoveByPrefix` (nobody calls it), and two workspaces on one database.

## 3. What the runs check

| Run | Instance | Distinct states | Shows |
| --- | --- | --- | --- |
| `taskboard` | 2 workers of different types, one of which may fall silent, the driver, 1 guest, 2 tasks | 51 thousand | `TypeOK`, `OnlyBusyHolds`, `TrackedByAssignee`, `StartsAfterDependencies`, `SilentWorkerLosesTask` |
| `session_registry` | 3 sessions, a driver and a worker | 4 thousand | `TypeOK`, `OneSessionPerAgent`, `ReverseLookup`, `DriverNeverPruned`, `SilentArePruned` |
| `daemon` | 3 connections | 1 thousand | `LifeTypeOK`, `CountIsConnections`, `AbandonedHasTimer`, `AbandonedStops` |
| `daemon_start` | 2 windows, 2 processes that run as daemons | 421 thousand | `TypeOK`, `NoDuplicates`, `FilesAreOwn`, `WindowsAreServed`, `DaemonsEnd` |
| `worker_spawn` | 1 server, 1 worker, 2 spawns, 1 retry, blocked after 2 failures | 727 thousand | `TypeOK`, `OverlapNeedsStaleLock`, `RunningIsCancellable` |
| `worker_attended` | the same with 1 spawn at a time | 104 thousand | `WorkIsAttended` |
| `state_service` | 1 server, 2 callers, 2 ids | 48 thousand | `TypeOK`, `SaveIsAwaited`, `ImplementsSerial`, `ChangeIsChecked` |
| `file_locks` | 2 agents, 2 paths, 2 roots, 1 task, locks of 1 or 2 minutes | 281 thousand | `TypeOK`, `ToldIsHeld`, `OneEditor`, `LocksEnd` |
| `messages` | a driver, a worker, 1 task, 3 messages of which 2 are retained, 1 lost entry | 404 thousand | `TypeOK`, `ReadWasShown`, `NoSpam`, `RetentionTakesOldest`, `SilenceIsTold` |
| `knowledge_index` | a watched file, an unwatched one, an item, 2 versions, 2 events | 606 thousand | `TypeOK`, `StaleHasCause`, `SettlesUnlessMissed`, `ItemsAreIndexed` |
| `daemon_signal`, `state_lost` | smaller | until violated | the findings below |

`OnlyBusyHolds` and `TrackedByAssignee` are what the orchestrator relies on when it picks the least
loaded worker: the lists say who works on what. `StartsAfterDependencies` constrains every handler
that moves a task into progress, not one guard. `SilentWorkerLosesTask` is a promise of the
setup guide that the watchdog must keep against creations, handoffs, restarts and resets.
`ReverseLookup`, `DriverNeverPruned` and `SilentArePruned` are about removing by a stale lookup.
`OverlapNeedsStaleLock` says that there is no way to two processes of one instance but the age of the
lock file, through any interleaving of checks, restarts, cancels and crashes; `RunningIsCancellable`
relates the map of cancels, overwritten and deleted by every attempt, to the processes that run;
`WorkIsAttended` that the six reasons to pass an instance over never combine to a standstill.
`ToldIsHeld` and `OneEditor` are what a cooperative lock is for, against claims, clean-ups and a root that moves,
and `LocksEnd` that killed holders, refused requests and an unlock under another root leave no lock
behind for good. `NoDuplicates` and `FilesAreOwn` hold against everyone who may remove a file at a path that
is not theirs any more, with two exceptions that the code has; `WindowsAreServed` and `DaemonsEnd` that
left-over locks, failing starts and lost sockets keep neither windows nor daemons. `SilenceIsTold` and `NoSpam` pull
`alertedTasks` in opposite directions: every silence reaches the driver or one of the named causes keeps it
from him, and no level is alerted twice but for each time the entry was lost; `ReadWasShown` and
`RetentionTakesOldest` are what a shared flag and a retention that only one of many writers applies must still
keep. `StaleHasCause` closes the list of the ways in which a document may be outdated, and
`SettlesUnlessMissed` and `ItemsAreIndexed` say that what is not on the list is put right. `ImplementsSerial` is why a handler can be one action in `TaskBoard`; `ChangeIsChecked` says that no
interleaving of saves, triggers and cycles in flight makes the comparison of revisions swallow a save, and
`SaveIsAwaited` names what every unchecked save has meanwhile: a signal to come, or a revision that counts for no cycle as pushed.

### Bounds, and why they are enough

Two windows race for the lock and one finds the daemon of the other; two processes are a daemon and its
successor, and an ended one may run again as a third. Room for three messages, two of which are
retained, has a message that goes and two that stay; one task is given out again under its id after a reset,
and alerts of different tasks only meet in the box. The messages of agents are for `all` (`Target`), whose flag two share, beside the
watchdog's for the driver alone; `Post` leaves room for the watchdog, and `SilenceIsTold` supposes that
there is room again and again (`Room`), which only the bound `MaxBox` makes necessary. `MaxLost` lets the entry of a task be
lost once, by a restart or a failed save, while it is in progress. Two files are one of each kind; two versions let a
file change back, and two events let one be queued while another is handled.
Two workers make interference between instances possible and two tasks make dependencies, least
load and id reuse after a reset possible; a third would be another one of the same kind. `MaxTasks` is
1, the default, so the orchestrator runs out of room. `Together` bounds the options of one
`update_task` call to single ones and the pairs that act on each other. `Active` and `MayGoQuiet`
bound the names that are called for and that fall silent: the two workers, of which one falls silent. The
guest registers; that tasks may also be assigned to names without an instance is left to the proofs. Three sessions let a worker move to a second session
while the first is condemned, beside the driver's. Three connections let a driver connect and another
close while the hooks of a third one are halfway. Two spawns let an overlap show, with the checks of
the notifier and of a restart beside each other; several servers differ from several checks of one
only in their maps and are covered by the proof. One retry has a first, a next and a last attempt.
Two paths let one call clean up a lock of the other path; locks of two minutes
outlast the claim's one, as 120 do 60; the relative spelling names one path or the other. Two ids let one caller create
a task while another one's copy is from before; two callers compete for the mutex. `MaxFailures` is 2 (10 in the code): one failure backs off, the next blocks for good. Every action
of the next-state relations occurs in these runs.

Symmetry is used in `worker_spawn` only, over the spawns, which enter the model alike. Deadlock is not
checked: a board without tasks, a daemon that has stopped, a manager without work and a full box may rest.

### Fairness

* `TaskBoard`: weak fairness of `Watchdog`, which the ticker runs for as long as the server lives.
  Nobody is obliged to claim, report or complete.
* `SessionRegistry`: weak fairness of the watchdog's steps, since its ticker starts a check every minute
  and a check that has begun goes through. Clients owe nothing.
* `Daemon`: a hook gets its mutex, timers fire, `runDaemon` goes on when it can. No proxy has to
  connect or to leave.
* `DaemonStart`: a window's process goes on until it is connected or gives up, and so does a daemon, also
  at its end; a daemon that nobody is connected to expires. Nobody has to open a window, to speak or to leave; crashes and kills are not fair.
* `Messages`: fairness of a check that finds no dead worker and is saved, since the ticker goes on; strong, as the box of the
  model may be full in between. Nobody has to read, to report or to work.
* `KnowledgeIndex`: weak fairness of the scan and the watch loop, and of reading the items at a tick;
  strong fairness of storing what was read, as an error at one tick is made up for at a later one.
  `SettlesUnlessMissed` supposes that edits end and that the server goes on running.
* `StateService`: who has saved goes on to signal, a cycle that began goes on, and cycles start again and
  again, by the poll every ten seconds: strong fairness, since the file is empty only for the instant
  between the halves of a write. Nobody has to load or to save.
* `FileLocks`: weak fairness of `Elapse`, the clock. No agent has to unlock, renew or ask.
* `WorkerSpawn`: the notifier's check goes on, since the watchdog saves the state at every tick, which
  triggers the notifier even when the state has not changed, and `Trigger` forgets the revision that
  would skip the check; a process ends, at its time-out at the latest; a lock file ages and cooldowns
  and backoffs pass, as time does. Checks by restart, cancels, connections and new work are not fair.
  `WorkIsAttended` excepts a worker that failed so often that the code stops by design, and servers
  that end again and again.

## 4. What is proved

TLAPS proves, without assuming anything but the named assumptions on the constants:

* `TaskBoardProofs` (from `NamesAssumption`, `TypeOfAssumption`, `MaxTasksAssumption`,
  `BoundsAssumption`): `TypeCorrect`, `BusyCorrect`, `TrackedCorrect` and `DependenciesCorrect`, for
  any workers, guests, types and number of tasks. `OnlyBusyHolds` is inductive with the types:
  `Dropped` and `IdledBy` make an instance idle only when its list is empty (`DropsShrink`).
  `TrackedByAssignee` needs `OnlyBusyHolds` and the hypothesis `SingleInstance`, that a type has one
  instance; with several, a task assigned to the type is on the list of an instance of another name.
  `FinishedCorrect` says which operations may open a finished task again.
  `UpdateEffect` and `SweepEffect` reduce the handlers to two shapes of change.
* `SessionRegistryProofs`: `TypeCorrect` and `SessionsCorrect` for any clients; `ReverseCorrect` and `DriverKept` under
  the hypothesis `OneName`, that a client gives one name. `DriverNeverPruned` is no consequence of
  the registry alone: the strengthening `SparesDriver` says that the watchdog's private variables
  never name the driver or a session of a client that calls itself the driver, which survives
  that sessions change hands between lookup and removal.
* `DaemonProofs` of `Daemon` (`ConnAssumption`: finitely many connections): `LifeTypeCorrect`, `CountCorrect`,
  `TimerCorrect` and `StopCorrect`. `AbandonedHasTimer`
  is inductive only with the exact count: a hook that starts no timer leaves a positive count. `StopCorrect` says
  that a daemon stops serving only after a connection has ended, which `DaemonStart` takes for granted.
* `DaemonProofs` of `DaemonStart` (`NoneAssumption`): `TypeCorrect`, `OneServerCorrect`, `FilesCorrect` and
  `StarterCorrect`, for any windows and processes. `LockInv` says that a starter has the lock from its second look at the socket to the end of its
  wait. `StartInv` is what an undisturbed start keeps: while a daemon is on its
  way up the lock stands and nobody answers (`IncomingInv`), a window about to start one finds no other
  (`DecidingInv`), and whoever answers owns socket and PID file (`SocketInv`, `PidInv`). It must be
  conditional on `Undisturbed`, a step's new state included: the two exceptions destroy it for good.
* `KnowledgeIndexProofs` (`FilesAssumption`, `BoundsAssumption`): `TypeCorrect` and `StaleCorrect`, for any
  files and any length of the queue. `StaleHasCause` needs that one file at a time is parsed (`OneParsed`,
  `ParsedKnown`), that the queue is empty unless watched (`QueueOnlyWatching`), that a document of a file the walk passed
  over will be removed or is missed (`WalkKnows`), and that the last event of a file in the queue agrees with the disk (`Matched`).
  `RestCorrect` is the safety half of `SettlesUnlessMissed`: at every rest of the indexer its documents are those of the files,
  but for the missed ones.
* `MessagesProofs` (`AgentsAssumption`, `BoundsAssumption`): `TypeCorrect`, `ReadCorrect`, `RetentionCorrect`, `SpamCorrect`
  and `SilenceCorrect`, for any workers, tasks and bounds. The box is proved about by positions: the old messages
  come first (`OldFirst`), so that dropping them leaves a suffix (`YoungIsSuffix`, with a least position from `LeastNat`), which
  cutting shortens (`KeptIsSuffix`). `NoSpam` needs `SaidInv`, that an
  alert posted since the start of a task has left its trace in the entry, or the entry was lost since (`Traced`), and `TellsOfSilence`
  needs `ToldInv`, that a grave entry is of a silence that was told or the task is `muted`. `SilenceCorrect` is the safety half
  of `SilenceIsTold`: a check that is saved leaves a silence untold only if it met a grave entry of something else; that
  such a check comes is the fairness TLC assumes.
* `WorkerSpawnProofs` (`RetriesAssumption`, `FailuresAssumption`, `NoneAssumption`): `TypeCorrect`,
  `OverlapCorrect` and `CancellableCorrect` for any servers, workers, spawns, retries and failures.
  The invariant adds `LockInv`, that the lock file of an instance that never aged is there for as long
  as a spawn of it lives, and `CheckInv`, that a check removes only files of instances that aged:
  a check between stat and remove must not rely on the file it saw. `RunningIsCancellable` then
  follows since an entry of the map has no second writer. `CancelCorrect` is the converse and needs no such
  condition: an entry is of a process that runs for that instance, and a cancelled process is one that has yet to return.
* `FileLocksProofs` (the four assumptions of `FileLocks`): `TypeCorrect`, `PromiseCorrect` and
  `EditorCorrect`, for any agents, paths, roots and durations. `ToldIsHeld` is inductive with the types:
  a lock with time to go survives every clean-up (`ExpireEffect`) and admits only its holder
  (`OnlyHolderMay`); `OneEditor` follows, since a path has one holder.
* `StateServiceProofs` (`MaxIdAssumption`, `CallerAssumption`, `ServerOfAssumption`): `TypeCorrect` for
  any servers, and `SerialCorrect`, that the service implements `SerialState` under the hypothesis
  `OneProcess`, for any callers and ids. The invariant says that whoever is in `Run` holds the mutex
  (`HoldInv`) and that what it has read so far is still what the tables hold (`LoadInv`); a save is
  then the serial `Run`, since sound documents stay sound (`EffectsAreDocs`) and need no healing
  (`SoundIsHealed`). Without `OneProcess` the theorem fails, as `state_lost` shows. `AwaitedCorrect` needs no
  `OneProcess`: `SaveIsAwaited` is inductive with the types for any servers, since a new revision ages what all cycles have read
  (`AgedIsOld`) and a cycle pushes what it read and not what is there by now.

Model-checked only: liveness (`SilentWorkerLosesTask`, `SilentArePruned`, `AbandonedStops`,
`WorkIsAttended`, `ChangeIsChecked`, `LocksEnd`, `WindowsAreServed`, `DaemonsEnd`, `SettlesUnlessMissed`,
`ItemsAreIndexed`, `SilenceIsTold`), which is out of the prover's reach, but for the safety halves named
above; and the findings. What a recursive definition computes cannot be proved here either, so `Kept`
names the young messages by their positions (`Young`) and not by `SelectSeq`; on every state of the run the two agree.

## 5. Findings

* `daemon_signal`: a signal stops the watchdog and the notifier and leaves the daemon serving
  (`main.go:228`).
* `state_lost`: servers on one state file, which the README describes as the way to work without a
  daemon, lose each other's tasks: a save writes back what its load had read (`service.go:41`,
  `store.go:698`).

Further behaviour of the code which documents do not lead one to expect is an exception that a property names:

* `OverlapNeedsStaleLock`: a lock file is stale after five minutes, while a spawn may run for `max_retries + 1`
  times `timeout_seconds`, half an hour in the example configuration; the next check then starts a second
  process of the instance (`worker_manager.go:1563`). `OverlapCorrect` shows that this is the only way.
* `AbandonedHasTimer` says nothing of a driver that connects between the count of zero and the start of the
  grace period (`daemon.go:151`): the period starts after it, and the daemon ends under it.
* `NoDuplicates` excepts `gaveUp`, a window that serves on its own after ten seconds although its daemon may still come up
  (`daemon.go:259`), and `overtaken`, a daemon that removes its successor's socket at its end (`daemon.go:67`).
* `SilenceIsTold` excepts `muted`: `docs/WORKFLOW.md:86` has a critical alert sent after five minutes of silence, but
  not if the task had one before its last report of progress (`watchdog.go:337`), nor if a task with the same id had
  one before a reset and no check found the id open since: a reset empties `state.Tasks` (`api.go:183`, `api.go:304`), and
  a check drops the entries of the tasks in the state only (`watchdog.go:300`).
* `NoSpam` allows one more alert of a level for every time the entry was lost: a check that recovers a task drops its
  entry in memory, and when the state cannot be saved the task is still in progress (`watchdog.go:300`, `watchdog.go:386`).
* `StaleHasCause` excepts `missed`: of several changes of a file within two seconds only the first is
  indexed (`indexer.go:303`), and when the list of indexed paths cannot be read the scan goes on without it
  and leaves the documents of files that are gone until a later start (`indexer.go:132`).

`TrackedCorrect` needs `SingleInstance` because a lookup by type takes the first instance that the map yields: with two
instances of a type, a task assigned to the type that is blocked and resumed by `update_task` is put on the list of
a second instance and, assigned anew, taken off one of them (`tasks.go:440`). TLC finds this in four steps when
two workers are given one type.

`ReverseCorrect` and `DriverKept` need `OneName` because `SetAgent` keeps the old name of a session that
gives a second one (`session_registry.go:39`).

## 6. Plan

In order of importance; the first nine are done.

1. `TaskBoard`, `TaskBoardProofs`.
2. `SessionRegistry`, `SessionRegistryProofs`.
3. `Daemon`, `DaemonProofs`.
4. `WorkerSpawn`, `WorkerSpawnProofs`.
5. `StateDocument`, `SerialState`, `StateService`, `StateServiceProofs`.
6. `FileLocks`, `FileLocksProofs`.
7. `DaemonStart`, with its theorems in `DaemonProofs`.
8. `Messages`, with the alerts of the watchdog, `MessagesProofs`.
9. `KnowledgeIndex`, `KnowledgeIndexProofs`.
10. `StateService` composed with `WorkerSpawn`, so that the fairness of checks there becomes a
    consequence of the watchdog's ticker and the notifier's poll; `Daemon` composed with `DaemonStart`.
11. Worktrees around a worker's runs, and plans. `cancel_agent` as two steps over `TaskBoard` and
    `WorkerSpawn`.

## 7. What is not modelled, and why

Handlers are atomic in `TaskBoard`, `FileLocks` and `Messages`, which `SerialCorrect` justifies for one server
process. Plans and worktrees are planned as above. Not planned: the sessions and streams behind a proxy (the
MCP library's), the texts of the knowledge index and its search, the shared notes of work contexts (texts without an order
that matters), the registration of MCP servers with command-line clients (commands of other programs), resources,
instructions and status tools (rendering), the rest of the policy (constants of the models), the OAuth
stand-in (fixed answers), the HTML of the dashboard, git itself, and SQLite itself, of which the models
take that a transaction is atomic.
