------------------------------ MODULE TaskBoard ------------------------------
(***************************************************************************)
(* The shared board of stringwork: tasks, the agent instances that work on *)
(* them, and every operation that moves a task or changes what an instance *)
(* is counted as working on.  Each operation runs inside CollabService.Run *)
(* (load, change, save under one mutex), so within one server process it   *)
(* is a single step; several on one file are the subject of StateService.  *)
(*                                                                         *)
(* Abstractions of data.  A task is its status, assignee and dependencies; *)
(* title, priority, SLA, context and result summary are left out, so       *)
(* claim_next may take any task the code could rank first.  CurrentTasks   *)
(* is a set.  Clocks are left out: `fresh' holds the agent names for which *)
(* Watchdog.isAgentAlive would find a recent heartbeat or session          *)
(* activity, GoQuiet lets any of them grow stale, and the age of a task    *)
(* (taskStuckThresh) is a choice made when the watchdog looks at it.       *)
(***************************************************************************)
EXTENDS Naturals, FiniteSets

CONSTANTS
  Worker,     \* instance ids seeded from the workers of the configuration
  Driver,     \* instance id of the driver, which is also its agent type
  Guest,      \* names that may join through register_agent
  TypeOf,     \* the agent type of every instance id
  MaxTasks,   \* how many tasks the orchestrator may give an instance
  Active,     \* bound: the names that call operations and are named in them
  MayGoQuiet, \* bound: the names whose signs of life may stop
  TaskBound,  \* bound: tasks that exist at one time
  Together    \* bound: the sets of options an update_task call may carry

Name      == Worker \cup {Driver} \cup Guest
AgentName == Name \cup {TypeOf[i] : i \in Name}
TaskId    == 1 .. TaskBound
Option    == {"status", "assigned_to", "blocked_by", "add_dependency", "remove_dependency"}

\* With more than one configured instance a type gets ids type-1, type-2...,
\* with one the id is the type itself (helpers.go EnsureAgentInstances).
ASSUME NamesAssumption ==
  /\ Driver \notin Worker \cup Guest
  /\ Worker \cap Guest = {}
  /\ "any" \notin AgentName

ASSUME TypeOfAssumption ==
  /\ DOMAIN TypeOf = Name
  /\ \A i \in {Driver} \cup Guest : TypeOf[i] = i

ASSUME MaxTasksAssumption ==
  /\ MaxTasks \in [Name -> Nat]
  /\ \A i \in {Driver} \cup Guest : MaxTasks[i] = 0
  /\ \A i \in Worker : MaxTasks[i] > 0

ASSUME BoundsAssumption ==
  /\ TaskBound \in Nat
  /\ Together \subseteq SUBSET Option
  /\ Active \subseteq AgentName
  /\ MayGoQuiet \subseteq AgentName

VARIABLES
  tstatus,     \* Task.Status, "absent" for an id not handed out
  assignee,    \* Task.AssignedTo
  deps,        \* Task.Dependencies
  istatus,     \* AgentInstance.Status, "none" when there is no such instance
  current,     \* AgentInstance.CurrentTasks
  registered,  \* names in CollabState.RegisteredAgents
  fresh        \* names with a recent heartbeat or session activity

taskVars  == <<tstatus, assignee, deps>>
agentVars == <<istatus, current>>
vars == <<tstatus, assignee, deps, istatus, current, registered, fresh>>

TaskStatus     == {"pending", "in_progress", "completed", "blocked", "cancelled"}
InstanceStatus == {"none", "offline", "idle", "busy"}

TypeOK ==
  /\ tstatus \in [TaskId -> TaskStatus \cup {"absent"}]
  /\ assignee \in [TaskId -> AgentName \cup {"any"}]
  /\ deps \in [TaskId -> SUBSET TaskId]
  /\ istatus \in [Name -> InstanceStatus]
  /\ current \in [Name -> SUBSET TaskId]
  /\ registered \subseteq Guest
  /\ fresh \subseteq AgentName

-----------------------------------------------------------------------------
(***************************************************************************)
(* Lookups                                                                 *)
(***************************************************************************)
Existing  == {t \in TaskId : tstatus[t] # "absent"}
Instance  == {i \in Name : istatus[i] # "none"}
WorkersIn == Instance \ {Driver}

\* ValidateAgent with the registered names as extra names.
Known(a) ==
  \/ a \in Instance
  \/ \E i \in Instance : TypeOf[i] = a
  \/ a \in registered

\* Definitions whose name starts with Faulty or Mistyped are seeded faults: each is put
\* in the place of the definition after it to see that a property notices.
FaultyIncompleteDeps(t) == {d \in deps[t] : tstatus[d] \in {"pending", "blocked"}}

\* checkDependenciesCompleteState: a dependency that no longer exists counts
\* as complete.
IncompleteDeps(t) == {d \in deps[t] : tstatus[d] \notin {"absent", "completed"}}

\* Map iteration has no order: at most one member, whichever comes first.
OneOf(S) == IF S = {} THEN {{}} ELSE {{x} : x \in S}

\* findAgentInstance, findInstanceForAgent and addTaskToInstance: the
\* instance of that id, otherwise some instance of that type.
Lookup(a) ==
  IF a \in Instance THEN {{a}} ELSE OneOf({i \in Instance : TypeOf[i] = a})

\* removeTaskFromInstance, removeTaskFromInstanceByID: the instance of that
\* id, otherwise the first instance found holding the task.
Holder(t, a) ==
  IF a \in Instance THEN {{a}} ELSE OneOf({i \in Instance : t \in current[i]})

AtMostOne(S) == {{}} \cup {{x} : x \in S}

\* The ways to take each task of T off the instance of its assignee.
Drops(T) ==
  {f \in [T -> AtMostOne(Name)] : \A t \in T : f[t] \in Holder(t, assignee[t])}

Dropped(f) ==
  [i \in Name |-> {t \in current[i] : t \in DOMAIN f => i \notin f[t]}]

FaultyIdledBy(f) ==
  [i \in Name |-> IF \E t \in DOMAIN f : i \in f[t] THEN "idle" ELSE istatus[i]]

MistypedIdledBy(f) ==
  [i \in Name |-> IF \E t \in DOMAIN f : i \in f[t] THEN "free" ELSE istatus[i]]

\* A busy instance whose last task was taken off becomes idle.
IdledBy(f) ==
  LET left == Dropped(f)
  IN [i \in Name |->
        IF istatus[i] = "busy" /\ left[i] = {} /\ \E t \in DOMAIN f : i \in f[t]
        THEN "idle" ELSE istatus[i]]

\* isAgentAlive of a name, with the instance it was looked up as.
Alive(a, found) == a \in fresh \/ found \cap fresh # {}

-----------------------------------------------------------------------------
(***************************************************************************)
(* EnsureAgentInstances seeds the first state and starts workers offline.  *)
(***************************************************************************)
Init ==
  /\ tstatus = [t \in TaskId |-> "absent"]
  /\ assignee = [t \in TaskId |-> "any"]
  /\ deps = [t \in TaskId |-> {}]
  /\ istatus = [i \in Name |-> IF i = Driver THEN "idle"
                               ELSE IF i \in Worker THEN "offline" ELSE "none"]
  /\ current = [i \in Name |-> {}]
  /\ registered = {}
  /\ fresh = Worker \cup {Driver}

-----------------------------------------------------------------------------
(***************************************************************************)
(* Creating tasks                                                          *)
(***************************************************************************)
\* Ids are handed out in order: NextTaskID is one more than the largest.
NewTask(t, a, ds) ==
  /\ tstatus[t] = "absent"
  /\ \A u \in 1 .. (t - 1) : tstatus[u] # "absent"
  /\ tstatus' = [tstatus EXCEPT ![t] = "pending"]
  /\ assignee' = [assignee EXCEPT ![t] = a]
  /\ deps' = [deps EXCEPT ![t] = ds]

\* selectLeastLoaded and selectByCapabilityOrLoad, which agree on a task
\* without required capabilities: a worker with room and the fewest tasks.
Load(i) == Cardinality(current[i])
HasRoom == {i \in WorkersIn : Load(i) < MaxTasks[i]}
LeastLoaded == {i \in HasRoom : \A j \in HasRoom : Load(i) <= Load(j)}

\* create_task by the driver for "any" goes through the orchestrator, which
\* counts the task at once although it stays pending, and refreshes the
\* heartbeat of the worker it picked, alive or not.
CreateAssigned(t, ds, i) ==
  /\ i \in LeastLoaded
  /\ NewTask(t, i, ds)
  /\ current' = [current EXCEPT ![i] = @ \cup {t}]
  /\ istatus' = [istatus EXCEPT ![i] = "busy"]
  /\ fresh' = fresh \cup {i}
  /\ UNCHANGED registered

CreateUnassigned(t, byDriver, a, ds) ==
  /\ a = "any" \/ Known(a)
  /\ byDriver /\ a = "any" => LeastLoaded = {}
  /\ NewTask(t, a, ds)
  /\ UNCHANGED <<agentVars, registered, fresh>>

\* Of the caller only matters whether it is the driver; some agent is always
\* known, so its validation needs no guard, here and in the calls below.
CreateTask(t, byDriver, a, ds) ==
  /\ ds \subseteq Existing
  /\ \/ byDriver /\ a = "any" /\ \E i \in Worker \cup Guest : CreateAssigned(t, ds, i)
     \/ CreateUnassigned(t, byDriver, a, ds)

\* request_review creates a pending task for the reviewer.
RequestReview(t, to) ==
  /\ Known(to)
  /\ NewTask(t, to, {})
  /\ UNCHANGED <<agentVars, registered, fresh>>

-----------------------------------------------------------------------------
(***************************************************************************)
(* update_task.  A call has a new status and a new assignee or "keep" for  *)
(* either, may come with a blocked_by text, and adds or removes at most    *)
(* one dependency.  The order is the code's: CurrentTasks is adjusted for  *)
(* the status argument, and only then blocked_by turns the status into     *)
(* "blocked".                                                              *)
(***************************************************************************)
AnyCall ==
  [status : TaskStatus \cup {"keep"}, to : Active \cup {"any", "keep"},
   blocked : BOOLEAN, add : AtMostOne(TaskId), rem : AtMostOne(TaskId)]

OptionsOf(c) ==
  {o \in Option : \/ o = "status" /\ c.status # "keep"
                  \/ o = "assigned_to" /\ c.to # "keep"
                  \/ o = "blocked_by" /\ c.blocked
                  \/ o = "add_dependency" /\ c.add # {}
                  \/ o = "remove_dependency" /\ c.rem # {}}

UpdateCall == {c \in AnyCall : OptionsOf(c) \in Together}

UpdateTask(t, c) ==
  LET status   == IF c.status = "keep" THEN tstatus[t] ELSE c.status
      to       == IF c.to = "keep" THEN assignee[t] ELSE c.to
      leaving  == tstatus[t] = "in_progress" /\ status # "in_progress"
      moved    == to # assignee[t]
      entering == status = "in_progress" /\ (tstatus[t] # "in_progress" \/ moved)
      gone     == IF leaving \/ moved THEN {t} ELSE {}
  IN /\ t \in Existing
     /\ c.status = "in_progress" => IncompleteDeps(t) = {}
     /\ c.to \in {"keep", "any"} \/ Known(c.to)
     /\ c.add \subseteq Existing \ {t}
     /\ \E f \in Drops(gone),
           g \in IF entering /\ to # "any" THEN Lookup(to) ELSE {{}} :
          LET left == Dropped(f)
              idle == IdledBy(f)
          IN /\ current' = [i \in Name |-> IF i \in g THEN left[i] \cup {t} ELSE left[i]]
             /\ istatus' = [i \in Name |-> IF i \in g /\ t \notin left[i]
                                           THEN "busy" ELSE idle[i]]
     /\ tstatus' = [tstatus EXCEPT ![t] = IF c.blocked THEN "blocked" ELSE status]
     /\ assignee' = [assignee EXCEPT ![t] = to]
     /\ deps' = [deps EXCEPT ![t] = (@ \cup c.add) \ c.rem]
     /\ UNCHANGED <<registered, fresh>>

-----------------------------------------------------------------------------
(***************************************************************************)
(* claim_next and handoff                                                  *)
(***************************************************************************)
\* The call that claims: the others (unread messages, a task to continue, a
\* plan item, nothing to do, dry_run) return before they change anything.
\* Only a task that was open to "any" is put on the claimer's list.
ClaimNext(a, t) ==
  /\ Known(a)
  /\ ~ \E u \in TaskId : tstatus[u] = "in_progress" /\ assignee[u] = a
  /\ tstatus[t] = "pending"
  /\ assignee[t] \in {a, "any"}
  /\ IncompleteDeps(t) = {}
  /\ tstatus' = [tstatus EXCEPT ![t] = "in_progress"]
  /\ assignee' = [assignee EXCEPT ![t] = a]
  /\ \E g \in IF assignee[t] # a THEN Lookup(a) ELSE {{}} :
       /\ current' = [i \in Name |-> IF i \in g THEN current[i] \cup {t} ELSE current[i]]
       /\ istatus' = [i \in Name |-> IF i \in g THEN "busy" ELSE istatus[i]]
  /\ UNCHANGED <<deps, registered, fresh>>

\* The task named in the call, or the caller's first task in progress, goes
\* to `to' as pending, whatever its status was.  The scan by task takes it
\* off every instance, and an emptied instance is idle even if offline.
Handoff(to, t) ==
  LET old  == assignee[t]
      off  == IF old = to THEN {}
              ELSE IF old \in Instance THEN {old}
              ELSE {i \in Instance : t \in current[i]}
      left == [i \in Name |-> IF i \in off THEN current[i] \ {t} ELSE current[i]]
  IN /\ Known(to)
     /\ t \in Existing
     /\ tstatus' = [tstatus EXCEPT ![t] = "pending"]
     /\ assignee' = [assignee EXCEPT ![t] = to]
     /\ current' = left
     /\ istatus' = [i \in Name |-> IF i \in off /\ left[i] = {} THEN "idle" ELSE istatus[i]]
     /\ UNCHANGED <<deps, registered, fresh>>

-----------------------------------------------------------------------------
(***************************************************************************)
(* cancel_agent, its change of the state.  Killing the process is a        *)
(* separate, later step of the handler (CancelWorker) and not here.        *)
(***************************************************************************)
InProgressOf(names) == {t \in TaskId : tstatus[t] = "in_progress" /\ assignee[t] \in names}

CancelAgent(a) ==
  LET own == {i \in Instance : i = a \/ TypeOf[i] = a}
      hit == InProgressOf({a} \cup own)
  IN /\ Known(a)
     /\ tstatus' = [t \in TaskId |-> IF t \in hit THEN "cancelled" ELSE tstatus[t]]
     /\ \E f \in Drops(hit) :
          LET left == Dropped(f)
              idle == IdledBy(f)
          IN /\ current' = [i \in Name |-> IF i \in own THEN {} ELSE left[i]]
             /\ istatus' = [i \in Name |-> IF i \in own THEN "idle" ELSE idle[i]]
     /\ UNCHANGED <<assignee, deps, registered, fresh>>

-----------------------------------------------------------------------------
(***************************************************************************)
(* Recovery: the watchdog's check, the reconciliation after a worker's     *)
(* process exits, and the start of the server.                             *)
(***************************************************************************)
FaultyDeadInstances == {i \in WorkersIn : istatus[i] # "offline" /\ ~Alive(i, {i})}

DeadInstances == {i \in WorkersIn : ~Alive(i, {i})}
DeadNames     == DeadInstances \cup {TypeOf[i] : i \in DeadInstances}

\* Tasks that taskStuckThresh alone lets the watchdog take.
Unresponsive ==
  {t \in TaskId : /\ tstatus[t] = "in_progress"
                  /\ \E found \in Lookup(assignee[t]) : ~Alive(assignee[t], found)}

Watchdog ==
  \E stuck \in SUBSET Unresponsive :
    LET hit == InProgressOf(DeadNames) \cup stuck
    IN /\ tstatus' = [t \in TaskId |-> IF t \in hit THEN "pending" ELSE tstatus[t]]
       /\ \E f \in Drops(hit) :
            LET left == Dropped(f)
                idle == IdledBy(f)
            IN /\ current' = [i \in Name |-> IF i \in DeadInstances THEN {} ELSE left[i]]
               /\ istatus' = [i \in Name |-> IF i \in DeadInstances THEN "offline"
                                             ELSE idle[i]]
       /\ UNCHANGED <<assignee, deps, registered, fresh>>

\* reconcileAfterExit of worker i, when its process ended without an error.
ReconcileAfterExit(i) ==
  LET hit  == InProgressOf({i, TypeOf[i]})
      left == current[i] \ hit
  IN /\ hit # {}
     /\ tstatus' = [t \in TaskId |-> IF t \in hit THEN "pending" ELSE tstatus[t]]
     /\ current' = [current EXCEPT ![i] = left]
     /\ istatus' = [istatus EXCEPT ![i] = IF left = {} THEN "idle" ELSE @]
     /\ UNCHANGED <<assignee, deps, registered, fresh>>

\* RefreshHeartbeatsOnStartup: every heartbeat is renewed, sessions are gone,
\* workers lose their lists, and tasks keep their status.
ServerStart ==
  /\ istatus' = [i \in Name |-> IF i \in WorkersIn THEN "offline" ELSE istatus[i]]
  /\ current' = [i \in Name |-> IF i \in WorkersIn THEN {} ELSE current[i]]
  /\ fresh' = Instance
  /\ UNCHANGED <<taskVars, registered>>

-----------------------------------------------------------------------------
(***************************************************************************)
(* Signs of life                                                           *)
(***************************************************************************)
WakeUp(is, to) ==
  istatus' = [i \in Name |-> IF i \in is /\ istatus[i] = "offline" THEN to ELSE istatus[i]]

\* heartbeat: a type with several instances is refused, a registered name
\* without an instance gets one.
Heartbeat(a) ==
  LET is == IF a \in Instance THEN {a} ELSE {i \in Instance : TypeOf[i] = a}
  IN /\ \/ /\ Cardinality(is) = 1
           /\ WakeUp(is, "idle")
           /\ fresh' = fresh \cup is
        \/ /\ is = {} /\ a \in registered
           /\ istatus' = [istatus EXCEPT ![a] = "idle"]
           /\ fresh' = fresh \cup {a}
     /\ UNCHANGED <<taskVars, current, registered>>

\* report_progress checks the task, not who reports on it.
ReportProgress(a, t) ==
  /\ tstatus[t] = "in_progress"
  /\ \E is \in Lookup(a) : WakeUp(is, "busy") /\ fresh' = fresh \cup is
  /\ UNCHANGED <<taskVars, current, registered>>

\* set_presence and get_session_context: the session becomes the agent's
\* (SetAgent) and touchAgentHeartbeat marks the instance, or all of the type.
TouchAgent(a) ==
  LET is == IF a \in Instance THEN {a} ELSE {i \in Instance : TypeOf[i] = a}
  IN /\ Known(a)
     /\ WakeUp(is, "idle")
     /\ fresh' = fresh \cup {a} \cup is
     /\ UNCHANGED <<taskVars, current, registered>>

\* PiggybackMiddleware: every tool call counts as activity of the session
\* it arrives on, and wakes no instance.
ToolCall(a) ==
  /\ Known(a)
  /\ fresh' = fresh \cup {a}
  /\ UNCHANGED <<taskVars, agentVars, registered>>

RegisterAgent(g) ==
  /\ registered' = registered \cup {g}
  /\ UNCHANGED <<taskVars, agentVars, fresh>>

\* Time passes without a sign of life from a name.
GoQuiet(a) ==
  /\ fresh' = fresh \ {a}
  /\ UNCHANGED <<taskVars, agentVars, registered>>

FaultyReset(keepAgents) ==
  /\ tstatus' = [t \in TaskId |-> "absent"]
  /\ assignee' = [t \in TaskId |-> "any"]
  /\ deps' = [t \in TaskId |-> {}]
  /\ registered' = IF keepAgents THEN registered ELSE {}
  /\ UNCHANGED <<agentVars, fresh>>

\* The dashboard's reset, and the reset inside its switch of project, which
\* keeps the registered agents.  Ids start again from 1.
Reset(keepAgents) ==
  /\ tstatus' = [t \in TaskId |-> "absent"]
  /\ assignee' = [t \in TaskId |-> "any"]
  /\ deps' = [t \in TaskId |-> {}]
  /\ current' = [i \in Name |-> {}]
  /\ istatus' = [i \in Name |-> IF i \in Instance THEN "idle" ELSE istatus[i]]
  /\ registered' = IF keepAgents THEN registered ELSE {}
  /\ UNCHANGED fresh

-----------------------------------------------------------------------------
Create ==
  \/ \E t \in TaskId, byDriver \in BOOLEAN, a \in Active \cup {"any"},
        ds \in SUBSET TaskId : CreateTask(t, byDriver, a, ds)
  \/ \E t \in TaskId, to \in Active : RequestReview(t, to)

\* The calls that may do anything to any task.
Edit ==
  \/ \E t \in TaskId, c \in UpdateCall : UpdateTask(t, c)
  \/ \E to \in Active, t \in TaskId : Handoff(to, t)
  \/ \E keepAgents \in BOOLEAN : Reset(keepAgents)

Work ==
  \/ \E a \in Active, t \in TaskId : ClaimNext(a, t)
  \/ \E a \in Active : CancelAgent(a)

Recovery ==
  \/ Watchdog
  \/ \E i \in Worker : ReconcileAfterExit(i)
  \/ ServerStart

Life ==
  \/ \E a \in Active : Heartbeat(a)
  \/ \E a \in Active, t \in TaskId : ReportProgress(a, t)
  \/ \E a \in Active : TouchAgent(a)
  \/ \E a \in Active : ToolCall(a)
  \/ \E g \in Guest : RegisterAgent(g)
  \/ \E a \in MayGoQuiet : GoQuiet(a)

Next == Create \/ Edit \/ Work \/ Recovery \/ Life

Spec == Init /\ [][Next]_vars

\* The watchdog's ticker fires for as long as the server runs.
FairSpec == Spec /\ WF_vars(Watchdog)
-----------------------------------------------------------------------------
(***************************************************************************)
(* Properties                                                              *)
(***************************************************************************)

\* The orchestrator balances by CurrentTasks and trusts an instance that is
\* not busy to be free: no instance that is idle, offline or not there still
\* holds a task, although seven handlers write the two fields separately.
OnlyBusyHolds == \A i \in Name : current[i] # {} => istatus[i] = "busy"

\* With one instance per type: a task on an instance's list exists and is
\* assigned to that instance, so no task counts against two workers and
\* none counts against a worker it was taken from (update_task, handoff,
\* cancel_agent, watchdog, reset and the reuse of ids all disturb this).
TrackedByAssignee ==
  \A i \in Name : \A t \in current[i] : tstatus[t] # "absent" /\ assignee[t] = i

\* Work never starts before its dependencies are complete, whichever of the
\* handlers moves the task into progress.
StartsAfterDependencies ==
  [][\A t \in TaskId :
       tstatus[t] # "in_progress" /\ tstatus'[t] = "in_progress"
         => \A d \in deps[t] : tstatus[d] \in {"absent", "completed"}]_vars

\* SETUP_GUIDE: "10 minutes (no heartbeat): task auto-recovered".  A worker
\* that stays silent does not keep a task in progress for ever.
SilentWorkerLosesTask ==
  \A i \in Worker : \A t \in TaskId :
    <>[](i \notin fresh) => []<>~(tstatus[t] = "in_progress" /\ assignee[t] = i)

=============================================================================
