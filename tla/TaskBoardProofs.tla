--------------------------- MODULE TaskBoardProofs ---------------------------
(***************************************************************************)
(* What TLC checks of TaskBoard on a few workers and tasks, proved for any *)
(* number of them.  OnlyBusyHolds is inductive together with the types;    *)
(* TrackedByAssignee needs both, and one instance per agent type.          *)
(***************************************************************************)
EXTENDS TaskBoard, TLAPS

\* One instance of every agent type, which then bears the type's name.
SingleInstance == \A i \in Name : TypeOf[i] = i

-----------------------------------------------------------------------------
\* Taking tasks off the lists only shrinks them, makes no instance anything
\* but idle, and leaves one that still holds a task as it was.
LEMMA DropsShrink ==
  ASSUME TypeOK, NEW T \in SUBSET TaskId, NEW f \in Drops(T)
  PROVE  /\ Dropped(f) \in [Name -> SUBSET TaskId]
         /\ IdledBy(f) \in [Name -> InstanceStatus]
         /\ \A i \in Name : /\ Dropped(f)[i] \subseteq current[i]
                            /\ IdledBy(f)[i] \in {istatus[i], "idle"}
                            /\ Dropped(f)[i] # {} => IdledBy(f)[i] = istatus[i]
<1>1. Dropped(f) \in [Name -> SUBSET TaskId]
  BY DEF TypeOK, Dropped
<1>2. \A i \in Name : Dropped(f)[i] \subseteq current[i]
  BY DEF TypeOK, Dropped
<1>3. \A i \in Name : /\ IdledBy(f)[i] \in {istatus[i], "idle"}
                      /\ Dropped(f)[i] # {} => IdledBy(f)[i] = istatus[i]
  BY DEF TypeOK, IdledBy
<1>4. IdledBy(f) \in [Name -> InstanceStatus]
  BY <1>3 DEF TypeOK, IdledBy, InstanceStatus
<1> QED
  BY <1>1, <1>2, <1>3, <1>4

\* A lookup finds instances only; with one instance per type, it finds at
\* most the one of that name.
LEMMA LookupFinds ==
  ASSUME NEW a, NEW is \in Lookup(a)
  PROVE  /\ is \subseteq Instance
         /\ SingleInstance => is \subseteq {a}
  BY DEF Lookup, OneOf, Instance, SingleInstance

\* A task is put on the instances of one of `onto' after those of T left.
Moves(t, T, onto) ==
  \E f \in Drops(T), g \in onto :
    /\ current' = [i \in Name |-> IF i \in g THEN Dropped(f)[i] \cup {t} ELSE Dropped(f)[i]]
    /\ istatus' = [i \in Name |-> IF i \in g /\ t \notin Dropped(f)[i]
                                 THEN "busy" ELSE IdledBy(f)[i]]

\* The tasks of T leave their instances, and those of `own' are emptied.
Sweeps(T, own, status) ==
  \E f \in Drops(T) :
    /\ current' = [i \in Name |-> IF i \in own THEN {} ELSE Dropped(f)[i]]
    /\ istatus' = [i \in Name |-> IF i \in own THEN status ELSE IdledBy(f)[i]]

\* What a call of update_task does to the lists: the task may leave the
\* instance of its old assignee, and must if it gets another assignee; it may
\* be put on the instance that the new assignee is looked up as.
LEMMA UpdateEffect ==
  ASSUME TypeOK, NEW t \in TaskId, NEW c \in UpdateCall, UpdateTask(t, c)
  PROVE  \E to \in AgentName \cup {"any"}, status \in TaskStatus, gone \in {{}, {t}} :
           /\ tstatus' = [tstatus EXCEPT ![t] = status]
           /\ assignee' = [assignee EXCEPT ![t] = to]
           /\ to # assignee[t] => gone = {t}
           /\ Moves(t, gone, Lookup(to) \cup {{}})
<1> USE BoundsAssumption
<1> DEFINE status == IF c.status = "keep" THEN tstatus[t] ELSE c.status
           to     == IF c.to = "keep" THEN assignee[t] ELSE c.to
           gone   == IF \/ tstatus[t] = "in_progress" /\ status # "in_progress"
                        \/ to # assignee[t]
                     THEN {t} ELSE {}
           onto   == IF /\ /\ status = "in_progress"
                           /\ tstatus[t] # "in_progress" \/ to # assignee[t]
                        /\ to # "any"
                     THEN Lookup(to) ELSE {{}}
           final  == IF c.blocked THEN "blocked" ELSE status
<1>1. status \in TaskStatus /\ to \in AgentName \cup {"any"}
  BY DEF TypeOK, UpdateTask, UpdateCall, AnyCall, Existing, TaskStatus
<1>2. final \in TaskStatus
  BY <1>1 DEF TaskStatus
<1>3. /\ tstatus' = [tstatus EXCEPT ![t] = final]
      /\ assignee' = [assignee EXCEPT ![t] = to]
  BY DEF UpdateTask
<1>4. Moves(t, gone, onto)
  BY DEF UpdateTask, Moves
<1>5. /\ gone \in {{}, {t}}
      /\ to # assignee[t] => gone = {t}
      /\ onto \subseteq Lookup(to) \cup {{}}
  OBVIOUS
<1>6. Moves(t, gone, Lookup(to) \cup {{}})
  <2> HIDE DEF gone, onto
  <2> QED
    BY <1>4, <1>5 DEF Moves
<1> HIDE DEF status, to, gone, onto, final
<1> QED
  BY <1>1, <1>2, <1>3, <1>5, <1>6

\* What cancel_agent and the watchdog have in common: some tasks in progress
\* get another status and leave their instances, some instances are emptied.
LEMMA SweepEffect ==
  ASSUME TypeOK, (\E a \in Active : CancelAgent(a)) \/ Watchdog
  PROVE  /\ \E T \in SUBSET TaskId, own \in SUBSET Name, status \in {"idle", "offline"},
               final \in {"pending", "cancelled"} :
              /\ \A t \in T : tstatus[t] = "in_progress"
              /\ tstatus' = [t \in TaskId |-> IF t \in T THEN final ELSE tstatus[t]]
              /\ Sweeps(T, own, status)
         /\ UNCHANGED <<assignee, deps, registered, fresh>>
<1>1. CASE \E a \in Active : CancelAgent(a)
  <2>1. PICK a \in Active : CancelAgent(a)
    BY <1>1
  <2> DEFINE own == {i \in Instance : i = a \/ TypeOf[i] = a}
             T   == InProgressOf({a} \cup own)
  <2>2. /\ tstatus' = [t \in TaskId |-> IF t \in T THEN "cancelled" ELSE tstatus[t]]
        /\ Sweeps(T, own, "idle")
        /\ UNCHANGED <<assignee, deps, registered, fresh>>
    BY <2>1 DEF CancelAgent, Sweeps
  <2>3. /\ T \in SUBSET TaskId
        /\ own \in SUBSET Name
        /\ \A t \in T : tstatus[t] = "in_progress"
    BY DEF InProgressOf, Instance
  <2> HIDE DEF own, T
  <2> QED
    BY <2>2, <2>3
<1>2. CASE Watchdog
  <2>1. PICK stuck \in SUBSET Unresponsive :
          LET hit == InProgressOf(DeadNames) \cup stuck
          IN /\ tstatus' = [t \in TaskId |-> IF t \in hit THEN "pending" ELSE tstatus[t]]
             /\ Sweeps(hit, DeadInstances, "offline")
             /\ UNCHANGED <<assignee, deps, registered, fresh>>
    BY <1>2 DEF Watchdog, Sweeps
  <2> DEFINE T == InProgressOf(DeadNames) \cup stuck
  <2>2. /\ T \in SUBSET TaskId
        /\ DeadInstances \in SUBSET Name
        /\ \A t \in T : tstatus[t] = "in_progress"
    BY DEF InProgressOf, Unresponsive, DeadInstances, WorkersIn, Instance
  <2> HIDE DEF T
  <2> QED
    BY <2>1, <2>2 DEF T
<1> QED
  BY <1>1, <1>2

-----------------------------------------------------------------------------
\* Every operation keeps the state well-typed.
LEMMA TypeStep ==
  ASSUME TypeOK, [Next]_vars
  PROVE  TypeOK'
<1> USE NamesAssumption, TypeOfAssumption, BoundsAssumption
<1> USE DEF TaskStatus, InstanceStatus
<1>1. ASSUME NEW t \in TaskId, NEW a \in AgentName \cup {"any"},
             NEW ds \in SUBSET TaskId, NewTask(t, a, ds)
      PROVE  /\ tstatus' \in [TaskId -> TaskStatus \cup {"absent"}]
             /\ assignee' \in [TaskId -> AgentName \cup {"any"}]
             /\ deps' \in [TaskId -> SUBSET TaskId]
  BY <1>1 DEF TypeOK, NewTask
<1>2. ASSUME NEW t \in TaskId, NEW byDriver \in BOOLEAN, NEW a \in Active \cup {"any"},
             NEW ds \in SUBSET TaskId, CreateTask(t, byDriver, a, ds)
      PROVE  TypeOK'
  <2>1. ASSUME NEW i \in Worker \cup Guest, CreateAssigned(t, ds, i)
        PROVE  TypeOK'
    <3>1. i \in Name /\ i \in AgentName
      BY DEF Name, AgentName
    <3> QED
      BY <1>1, <2>1, <3>1 DEF TypeOK, CreateAssigned
  <2>2. ASSUME CreateUnassigned(t, byDriver, a, ds)
        PROVE  TypeOK'
    BY <1>1, <2>2 DEF TypeOK, CreateUnassigned, agentVars
  <2> QED
    BY <1>2, <2>1, <2>2 DEF CreateTask
<1>3. ASSUME NEW t \in TaskId, NEW to \in Active, RequestReview(t, to)
      PROVE  TypeOK'
  BY <1>1, <1>3 DEF TypeOK, RequestReview, agentVars
<1>4. ASSUME NEW t \in TaskId, NEW c \in UpdateCall, UpdateTask(t, c)
      PROVE  TypeOK'
  <2>1. PICK to \in AgentName \cup {"any"}, status \in TaskStatus, gone \in {{}, {t}} :
          /\ tstatus' = [tstatus EXCEPT ![t] = status]
          /\ assignee' = [assignee EXCEPT ![t] = to]
          /\ to # assignee[t] => gone = {t}
          /\ Moves(t, gone, Lookup(to) \cup {{}})
    BY <1>4, UpdateEffect
  <2>2. /\ current' \in [Name -> SUBSET TaskId]
        /\ istatus' \in [Name -> InstanceStatus]
    <3>1. gone \in SUBSET TaskId
      OBVIOUS
    <3> QED
      BY <2>1, <3>1, DropsShrink DEF Moves
  <2>3. deps' \in [TaskId -> SUBSET TaskId]
    BY <1>4 DEF TypeOK, UpdateTask, UpdateCall, Existing
  <2>4. registered' = registered /\ fresh' = fresh
    BY <1>4 DEF UpdateTask
  <2> QED
    BY <2>1, <2>2, <2>3, <2>4 DEF TypeOK
<1>5. ASSUME NEW a \in Active, NEW t \in TaskId, ClaimNext(a, t)
      PROVE  TypeOK'
  BY <1>5 DEF TypeOK, ClaimNext
<1>6. ASSUME NEW to \in Active, NEW t \in TaskId, Handoff(to, t)
      PROVE  TypeOK'
  BY <1>6 DEF TypeOK, Handoff
<1>7. ASSUME (\E a \in Active : CancelAgent(a)) \/ Watchdog
      PROVE  TypeOK'
  <2>1. PICK T \in SUBSET TaskId, own \in SUBSET Name, status \in {"idle", "offline"},
             final \in {"pending", "cancelled"} :
          /\ tstatus' = [t \in TaskId |-> IF t \in T THEN final ELSE tstatus[t]]
          /\ Sweeps(T, own, status)
    BY <1>7, SweepEffect
  <2>2. /\ current' \in [Name -> SUBSET TaskId]
        /\ istatus' \in [Name -> InstanceStatus]
    BY <2>1, DropsShrink DEF Sweeps
  <2>3. UNCHANGED <<assignee, deps, registered, fresh>>
    BY <1>7, SweepEffect
  <2> QED
    BY <2>1, <2>2, <2>3 DEF TypeOK
<1>10. ASSUME NEW i \in Worker, ReconcileAfterExit(i)
       PROVE  TypeOK'
  BY <1>10 DEF TypeOK, ReconcileAfterExit, Name
<1>11. ASSUME ServerStart
       PROVE  TypeOK'
  BY <1>11 DEF TypeOK, ServerStart, Instance, AgentName, taskVars
<1>12. Instance \subseteq Name /\ Name \subseteq AgentName /\ Active \subseteq AgentName
  BY DEF Instance, AgentName
<1>13. ASSUME NEW a \in Active, Heartbeat(a)
       PROVE  TypeOK'
  <2>1. CASE a \in registered /\ istatus' = [istatus EXCEPT ![a] = "idle"]
                              /\ fresh' = fresh \cup {a}
    BY <1>12, <1>13, <2>1 DEF TypeOK, Heartbeat, taskVars
  <2>2. CASE /\ WakeUp(IF a \in Instance THEN {a} ELSE {i \in Instance : TypeOf[i] = a}, "idle")
             /\ fresh' = fresh \cup (IF a \in Instance THEN {a} ELSE {i \in Instance : TypeOf[i] = a})
    BY <1>12, <1>13, <2>2 DEF TypeOK, Heartbeat, WakeUp, taskVars
  <2> QED
    BY <1>13, <2>1, <2>2 DEF Heartbeat
<1>14. ASSUME NEW a \in Active, NEW t \in TaskId, ReportProgress(a, t)
       PROVE  TypeOK'
  <2>1. PICK is \in Lookup(a) : WakeUp(is, "busy") /\ fresh' = fresh \cup is
    BY <1>14 DEF ReportProgress
  <2> QED
    BY <1>12, <1>14, <2>1, LookupFinds DEF TypeOK, ReportProgress, WakeUp, taskVars
<1>15. ASSUME NEW a \in Active, TouchAgent(a)
       PROVE  TypeOK'
  BY <1>12, <1>15 DEF TypeOK, TouchAgent, WakeUp, taskVars
<1>16. ASSUME NEW a \in Active, ToolCall(a)
       PROVE  TypeOK'
  BY <1>12, <1>16 DEF TypeOK, ToolCall, taskVars, agentVars
<1>17. ASSUME NEW g \in Guest, RegisterAgent(g)
       PROVE  TypeOK'
  BY <1>17 DEF TypeOK, RegisterAgent, taskVars, agentVars
<1>18. ASSUME NEW a \in MayGoQuiet, GoQuiet(a)
       PROVE  TypeOK'
  BY <1>18 DEF TypeOK, GoQuiet, taskVars, agentVars
<1>19. ASSUME NEW keepAgents \in BOOLEAN, Reset(keepAgents)
       PROVE  TypeOK'
  BY <1>19 DEF TypeOK, Reset
<1>20. CASE UNCHANGED vars
  BY <1>20 DEF TypeOK, vars
<1> QED
  BY <1>2, <1>3, <1>4, <1>5, <1>6, <1>7, <1>10, <1>11, <1>13, <1>14, <1>15,
     <1>16, <1>17, <1>18, <1>19, <1>20 DEF Next, Create, Edit, Work, Recovery, Life

\* The types of the board hold in every reachable state.
THEOREM TypeCorrect == Spec => []TypeOK
<1>1. Init => TypeOK
  BY NamesAssumption DEF Init, TypeOK, TaskStatus, InstanceStatus, AgentName, Name
<1>2. TypeOK /\ [Next]_vars => TypeOK'
  BY TypeStep
<1> QED
  BY <1>1, <1>2, PTL DEF Spec

-----------------------------------------------------------------------------
\* Every operation that gives an instance a task makes it busy, and every
\* operation that makes it anything else has emptied it.
LEMMA BusyStep ==
  ASSUME TypeOK, OnlyBusyHolds, [Next]_vars
  PROVE  OnlyBusyHolds'
<1> USE NamesAssumption, TypeOfAssumption, BoundsAssumption
<1>1. ASSUME UNCHANGED <<current, istatus>>
      PROVE  OnlyBusyHolds'
  BY <1>1 DEF OnlyBusyHolds
<1>2. ASSUME NEW t \in TaskId, NEW byDriver \in BOOLEAN, NEW a \in Active \cup {"any"},
             NEW ds \in SUBSET TaskId, CreateTask(t, byDriver, a, ds)
      PROVE  OnlyBusyHolds'
  <2>1. ASSUME NEW i \in Worker \cup Guest, CreateAssigned(t, ds, i)
        PROVE  OnlyBusyHolds'
    BY <2>1 DEF TypeOK, OnlyBusyHolds, CreateAssigned
  <2>2. ASSUME CreateUnassigned(t, byDriver, a, ds)
        PROVE  OnlyBusyHolds'
    BY <1>1, <2>2 DEF CreateUnassigned, agentVars
  <2> QED
    BY <1>2, <2>1, <2>2 DEF CreateTask
<1>3. ASSUME NEW t \in TaskId, NEW to \in Active, RequestReview(t, to)
      PROVE  OnlyBusyHolds'
  BY <1>1, <1>3 DEF RequestReview, agentVars
<1>4. ASSUME NEW t \in TaskId, NEW T \in SUBSET TaskId, NEW onto, Moves(t, T, onto)
      PROVE  OnlyBusyHolds'
  BY <1>4, DropsShrink DEF OnlyBusyHolds, Moves
<1>5. ASSUME NEW t \in TaskId, NEW c \in UpdateCall, UpdateTask(t, c)
      PROVE  OnlyBusyHolds'
  <2>1. PICK to \in AgentName \cup {"any"}, status \in TaskStatus, gone \in {{}, {t}} :
          /\ tstatus' = [tstatus EXCEPT ![t] = status]
          /\ assignee' = [assignee EXCEPT ![t] = to]
          /\ to # assignee[t] => gone = {t}
          /\ Moves(t, gone, Lookup(to) \cup {{}})
    BY <1>5, UpdateEffect
  <2>2. {} \in SUBSET TaskId /\ {t} \in SUBSET TaskId
    OBVIOUS
  <2> QED
    BY <1>4, <2>1, <2>2
<1>6. ASSUME NEW a \in Active, NEW t \in TaskId, ClaimNext(a, t)
      PROVE  OnlyBusyHolds'
  BY <1>6 DEF TypeOK, OnlyBusyHolds, ClaimNext
<1>7. ASSUME NEW to \in Active, NEW t \in TaskId, Handoff(to, t)
      PROVE  OnlyBusyHolds'
  BY <1>7 DEF TypeOK, OnlyBusyHolds, Handoff
<1>8. ASSUME (\E a \in Active : CancelAgent(a)) \/ Watchdog
      PROVE  OnlyBusyHolds'
  <2>1. \E T \in SUBSET TaskId, own \in SUBSET Name, status \in {"idle", "offline"} :
          Sweeps(T, own, status)
    BY <1>8, SweepEffect
  <2> QED
    BY <2>1, DropsShrink DEF OnlyBusyHolds, Sweeps
<1>9. ASSUME NEW i \in Worker, ReconcileAfterExit(i)
      PROVE  OnlyBusyHolds'
  BY <1>9 DEF TypeOK, OnlyBusyHolds, ReconcileAfterExit, Name
<1>10. ASSUME ServerStart
       PROVE  OnlyBusyHolds'
  BY <1>10 DEF TypeOK, OnlyBusyHolds, ServerStart
<1>11. ASSUME NEW is, NEW to \in {"idle", "busy"}, WakeUp(is, to), current' = current
       PROVE  OnlyBusyHolds'
  BY <1>11 DEF TypeOK, OnlyBusyHolds, WakeUp
<1>12. ASSUME NEW a \in Active, Heartbeat(a)
       PROVE  OnlyBusyHolds'
  <2> DEFINE is == IF a \in Instance THEN {a} ELSE {i \in Instance : TypeOf[i] = a}
  <2>1. CASE WakeUp(is, "idle")
    BY <1>11, <1>12, <2>1 DEF Heartbeat
  <2>2. CASE is = {} /\ istatus' = [istatus EXCEPT ![a] = "idle"]
    <3>1. a \notin Instance
      BY <2>2
    <3> QED
      BY <1>12, <2>2, <3>1 DEF TypeOK, OnlyBusyHolds, Heartbeat, Instance
  <2> QED
    BY <1>12, <2>1, <2>2 DEF Heartbeat
<1>13. ASSUME NEW a \in Active, NEW t \in TaskId, ReportProgress(a, t)
       PROVE  OnlyBusyHolds'
  BY <1>11, <1>13 DEF ReportProgress
<1>14. ASSUME NEW a \in Active, TouchAgent(a)
       PROVE  OnlyBusyHolds'
  BY <1>11, <1>14 DEF TouchAgent
<1>15. ASSUME NEW keepAgents \in BOOLEAN, Reset(keepAgents)
       PROVE  OnlyBusyHolds'
  BY <1>15 DEF OnlyBusyHolds, Reset
<1>16. ASSUME \/ \E a \in Active : ToolCall(a)
              \/ \E g \in Guest : RegisterAgent(g)
              \/ \E a \in MayGoQuiet : GoQuiet(a)
              \/ UNCHANGED vars
       PROVE  OnlyBusyHolds'
  BY <1>1, <1>16 DEF ToolCall, RegisterAgent, GoQuiet, agentVars, vars
<1> QED
  BY <1>2, <1>3, <1>5, <1>6, <1>7, <1>8, <1>9, <1>10, <1>12, <1>13, <1>14, <1>15, <1>16
     DEF Next, Create, Edit, Work, Recovery, Life

\* An instance that holds a task is busy in every reachable state, however
\* many workers and tasks there are and however they share types.
THEOREM BusyCorrect == Spec => []OnlyBusyHolds
<1>1. Init => OnlyBusyHolds
  BY DEF Init, OnlyBusyHolds
<1>2. TypeOK /\ OnlyBusyHolds /\ [Next]_vars => OnlyBusyHolds'
  BY BusyStep
<1> QED
  BY <1>1, <1>2, TypeCorrect, PTL DEF Spec

-----------------------------------------------------------------------------
\* With one instance per type the lists and the assignees agree, because a
\* task that gets another assignee is first taken off the list of the old
\* one: OnlyBusyHolds is needed to know that the old one exists.
LEMMA TrackedStep ==
  ASSUME SingleInstance, TypeOK, OnlyBusyHolds, TrackedByAssignee, [Next]_vars
  PROVE  TrackedByAssignee'
<1> USE NamesAssumption, TypeOfAssumption, BoundsAssumption
<1> USE DEF TrackedByAssignee
\* The general case: every task on a list after the step was on it before,
\* or was put there for its assignee.
<1>1. ASSUME \A i \in Name : \A t \in current'[i] :
               tstatus'[t] # "absent" /\ assignee'[t] = i
      PROVE  TrackedByAssignee'
  BY <1>1
<1>2. ASSUME UNCHANGED <<tstatus, assignee, current>>
      PROVE  TrackedByAssignee'
  BY <1>2
<1>3. ASSUME NEW t \in TaskId, NEW a, NEW ds, NewTask(t, a, ds), NEW i \in Name,
             NEW u \in current[i]
      PROVE  u # t /\ tstatus'[u] # "absent" /\ assignee'[u] = i
  BY <1>3 DEF TypeOK, NewTask
<1>4. ASSUME NEW t \in TaskId, NEW byDriver \in BOOLEAN, NEW a \in Active \cup {"any"},
             NEW ds \in SUBSET TaskId, CreateTask(t, byDriver, a, ds)
      PROVE  TrackedByAssignee'
  <2>1. ASSUME NEW i \in Worker \cup Guest, CreateAssigned(t, ds, i)
        PROVE  TrackedByAssignee'
    <3>1. tstatus'[t] = "pending" /\ assignee'[t] = i
      BY <2>1 DEF TypeOK, CreateAssigned, NewTask
    <3> QED
      BY <1>3, <2>1, <3>1 DEF TypeOK, CreateAssigned
  <2>2. ASSUME CreateUnassigned(t, byDriver, a, ds)
        PROVE  TrackedByAssignee'
    BY <1>3, <2>2 DEF CreateUnassigned, agentVars
  <2> QED
    BY <1>4, <2>1, <2>2 DEF CreateTask
<1>5. ASSUME NEW t \in TaskId, NEW to \in Active, RequestReview(t, to)
      PROVE  TrackedByAssignee'
  BY <1>3, <1>5 DEF RequestReview, agentVars
\* A task that leaves its instance is on no list any more.
<1>6. ASSUME NEW T \in SUBSET TaskId, NEW f \in Drops(T), NEW t \in T, NEW i \in Name
      PROVE  t \notin Dropped(f)[i]
  <2>1. CASE t \in current[i]
    <3>1. assignee[t] = i /\ i \in Instance
      BY <1>6, <2>1 DEF OnlyBusyHolds, Instance
    <3>2. f \in [T -> AtMostOne(Name)] /\ f[t] = {i}
      BY <1>6, <3>1 DEF Drops, Holder
    <3> QED
      BY <1>6, <3>2 DEF Dropped
  <2>2. CASE t \notin current[i]
    BY <2>2, DropsShrink
  <2> QED
    BY <2>1, <2>2
<1>7. ASSUME NEW t \in TaskId, NEW c \in UpdateCall, UpdateTask(t, c)
      PROVE  TrackedByAssignee'
  <2>1. PICK to \in AgentName \cup {"any"}, status \in TaskStatus, gone \in {{}, {t}} :
          /\ tstatus' = [tstatus EXCEPT ![t] = status]
          /\ assignee' = [assignee EXCEPT ![t] = to]
          /\ to # assignee[t] => gone = {t}
          /\ Moves(t, gone, Lookup(to) \cup {{}})
    BY <1>7, UpdateEffect
  <2>2. {} \in SUBSET TaskId /\ {t} \in SUBSET TaskId
    OBVIOUS
  <2>3. PICK f \in Drops(gone), g \in Lookup(to) \cup {{}} :
          /\ current' = [i \in Name |-> IF i \in g THEN Dropped(f)[i] \cup {t} ELSE Dropped(f)[i]]
          /\ istatus' = [i \in Name |-> IF i \in g /\ t \notin Dropped(f)[i]
                                       THEN "busy" ELSE IdledBy(f)[i]]
    BY <2>1 DEF Moves
  <2>4. ASSUME NEW i \in Name, NEW u \in current'[i], u # t
        PROVE  tstatus'[u] # "absent" /\ assignee'[u] = i
    <3>1. u \in current[i] /\ u \in TaskId
      BY <2>1, <2>2, <2>3, <2>4, DropsShrink DEF TypeOK
    <3> QED
      BY <2>1, <2>4, <3>1 DEF TypeOK
  <2>5. ASSUME NEW i \in Name, t \in current'[i]
        PROVE  i = to
    <3>1. CASE i \in g
      BY <3>1, LookupFinds DEF SingleInstance
    <3>2. CASE i \notin g
      <4>1. t \in Dropped(f)[i] /\ t \in current[i]
        BY <2>1, <2>2, <2>3, <2>5, <3>2, DropsShrink
      <4>2. gone # {t}
        BY <1>6, <2>2, <4>1
      <4> QED
        BY <2>1, <4>1, <4>2
    <3> QED
      BY <3>1, <3>2
  <2>6. tstatus'[t] # "absent" /\ assignee'[t] = to
    BY <2>1 DEF TypeOK, TaskStatus
  <2> QED
    BY <2>4, <2>5, <2>6
<1>8. ASSUME NEW a \in Active, NEW t \in TaskId, ClaimNext(a, t)
      PROVE  TrackedByAssignee'
  <2>1. PICK g \in IF assignee[t] # a THEN Lookup(a) ELSE {{}} :
          current' = [i \in Name |-> IF i \in g THEN current[i] \cup {t} ELSE current[i]]
    BY <1>8 DEF ClaimNext
  <2>2. g \subseteq {a}
    BY <2>1, LookupFinds DEF SingleInstance
  <2>3. assignee'[t] = a /\ tstatus'[t] # "absent"
    BY <1>8 DEF TypeOK, ClaimNext
  <2>4. ASSUME NEW i \in Name, t \in current[i]
        PROVE  i = a
    BY <1>8, <2>4 DEF ClaimNext, AgentName
  <2>5. ASSUME NEW u \in TaskId, u # t
        PROVE  tstatus'[u] = tstatus[u] /\ assignee'[u] = assignee[u]
    BY <1>8, <2>5 DEF TypeOK, ClaimNext
  <2> QED
    BY <2>1, <2>2, <2>3, <2>4, <2>5 DEF TypeOK
<1>9. ASSUME NEW to \in Active, NEW t \in TaskId, Handoff(to, t)
      PROVE  TrackedByAssignee'
  <2>1. /\ tstatus' = [tstatus EXCEPT ![t] = "pending"]
        /\ assignee' = [assignee EXCEPT ![t] = to]
    BY <1>9 DEF Handoff
  <2>2. \A i \in Name : current'[i] \subseteq current[i]
    BY <1>9 DEF TypeOK, Handoff
  <2>3. ASSUME NEW i \in Name, t \in current'[i]
        PROVE  i = to
    <3>1. t \in current[i] /\ assignee[t] = i /\ i \in Instance
      BY <2>2, <2>3 DEF OnlyBusyHolds, Instance
    <3> QED
      BY <1>9, <2>3, <3>1 DEF Handoff
  <2> QED
    BY <2>1, <2>2, <2>3 DEF TypeOK
<1>10. ASSUME (\E a \in Active : CancelAgent(a)) \/ Watchdog
       PROVE  TrackedByAssignee'
  <2>1. PICK T \in SUBSET TaskId, own \in SUBSET Name, status \in {"idle", "offline"},
             final \in {"pending", "cancelled"} :
          /\ \A t \in T : tstatus[t] = "in_progress"
          /\ tstatus' = [t \in TaskId |-> IF t \in T THEN final ELSE tstatus[t]]
          /\ Sweeps(T, own, status)
    BY <1>10, SweepEffect
  <2>2. \A i \in Name : current'[i] \subseteq current[i]
    BY <2>1, DropsShrink DEF Sweeps
  <2>3. assignee' = assignee
    BY <1>10, SweepEffect
  <2> QED
    BY <2>1, <2>2, <2>3 DEF TypeOK
<1>11. ASSUME NEW i \in Worker, ReconcileAfterExit(i)
       PROVE  TrackedByAssignee'
  BY <1>11 DEF TypeOK, ReconcileAfterExit, Name
<1>12. ASSUME ServerStart
       PROVE  TrackedByAssignee'
  BY <1>12 DEF TypeOK, ServerStart, taskVars
<1>13. ASSUME NEW keepAgents \in BOOLEAN, Reset(keepAgents)
       PROVE  TrackedByAssignee'
  BY <1>13 DEF Reset
<1>14. ASSUME Life \/ UNCHANGED vars
       PROVE  TrackedByAssignee'
  BY <1>2, <1>14 DEF Life, Heartbeat, ReportProgress, TouchAgent, ToolCall, RegisterAgent,
                     GoQuiet, taskVars, agentVars, vars
<1> QED
  BY <1>4, <1>5, <1>7, <1>8, <1>9, <1>10, <1>11, <1>12, <1>13, <1>14
     DEF Next, Create, Edit, Work, Recovery

\* With one instance per type, a task on an instance's list exists and is
\* assigned to that instance, in every reachable state.
THEOREM TrackedCorrect == SingleInstance /\ Spec => []TrackedByAssignee
<1>1. Init => TrackedByAssignee
  BY DEF Init, TrackedByAssignee
<1>2. SingleInstance /\ TypeOK /\ OnlyBusyHolds /\ TrackedByAssignee /\ [Next]_vars
        => TrackedByAssignee'
  BY TrackedStep
<1>3. CASE SingleInstance
  BY <1>1, <1>2, <1>3, TypeCorrect, BusyCorrect, PTL DEF Spec
<1>4. CASE ~SingleInstance
  BY <1>4
<1> QED
  BY <1>3, <1>4

-----------------------------------------------------------------------------
\* No operation but claim_next and update_task starts a task, and both look
\* at its dependencies.
THEOREM DependenciesCorrect == Spec => StartsAfterDependencies
<1> DEFINE Started(t) == tstatus[t] # "in_progress" /\ tstatus'[t] = "in_progress"
<1>1. ASSUME TypeOK, [Next]_vars, NEW t \in TaskId, Started(t)
      PROVE  IncompleteDeps(t) = {}
  <2>1. ASSUME NEW u \in TaskId, NEW c \in UpdateCall, UpdateTask(u, c)
        PROVE  IncompleteDeps(t) = {}
    BY <1>1, <2>1 DEF TypeOK, UpdateTask
  <2>2. ASSUME NEW a \in Active, NEW u \in TaskId, ClaimNext(a, u)
        PROVE  IncompleteDeps(t) = {}
    BY <1>1, <2>2 DEF TypeOK, ClaimNext
  <2>3. ASSUME NEW u \in TaskId, NEW a, NEW ds, NewTask(u, a, ds)
        PROVE  FALSE
    BY <1>1, <2>3 DEF TypeOK, NewTask
  <2>4. ASSUME Create
        PROVE  FALSE
    BY <2>3, <2>4 DEF Create, CreateTask, CreateAssigned, CreateUnassigned, RequestReview
  <2>5. ASSUME \/ \E to \in Active, u \in TaskId : Handoff(to, u)
               \/ \E keepAgents \in BOOLEAN : Reset(keepAgents)
        PROVE  FALSE
    BY <1>1, <2>5 DEF TypeOK, Handoff, Reset
  <2>6. ASSUME (\E a \in Active : CancelAgent(a)) \/ Watchdog
        PROVE  FALSE
    <3>1. \E T \in SUBSET TaskId, final \in {"pending", "cancelled"} :
            tstatus' = [x \in TaskId |-> IF x \in T THEN final ELSE tstatus[x]]
      BY <1>1, <2>6, SweepEffect
    <3> QED
      BY <1>1, <3>1
  <2>7. ASSUME (\E i \in Worker : ReconcileAfterExit(i)) \/ ServerStart
        PROVE  FALSE
    BY <1>1, <2>7 DEF TypeOK, ReconcileAfterExit, ServerStart, taskVars
  <2>8. ASSUME Life \/ UNCHANGED vars
        PROVE  FALSE
    BY <1>1, <2>8 DEF Life, Heartbeat, ReportProgress, TouchAgent, ToolCall, RegisterAgent,
                      GoQuiet, taskVars, vars
  <2> QED
    BY <1>1, <2>1, <2>2, <2>4, <2>5, <2>6, <2>7, <2>8 DEF Next, Edit, Work, Recovery
<1>2. TypeOK /\ [Next]_vars
        => [\A t \in TaskId :
              tstatus[t] # "in_progress" /\ tstatus'[t] = "in_progress"
                => \A d \in deps[t] : tstatus[d] \in {"absent", "completed"}]_vars
  BY <1>1 DEF TypeOK, IncompleteDeps
<1> QED
  BY <1>2, TypeCorrect, PTL DEF Spec, StartsAfterDependencies

-----------------------------------------------------------------------------
\* A task that is completed or cancelled is opened again only by update_task,
\* handoff or a reset: no recovery, reconciliation, claim or cancel_agent that
\* works on tasks of its worker revives it, or turns completed into cancelled.
FinishedStays ==
  [][\A t \in TaskId :
       tstatus[t] \in {"completed", "cancelled"} /\ tstatus'[t] # tstatus[t] => Edit]_vars

THEOREM FinishedCorrect == Spec => FinishedStays
<1> DEFINE Finished(t) == tstatus[t] \in {"completed", "cancelled"}
<1>1. ASSUME TypeOK, [Next]_vars, NEW t \in TaskId, Finished(t), tstatus'[t] # tstatus[t]
      PROVE  Edit
  <2>1. ASSUME NEW u \in TaskId, NEW a, NEW ds, NewTask(u, a, ds)
        PROVE  FALSE
    BY <1>1, <2>1 DEF TypeOK, NewTask
  <2>2. ASSUME Create
        PROVE  FALSE
    BY <2>1, <2>2 DEF Create, CreateTask, CreateAssigned, CreateUnassigned, RequestReview
  <2>3. ASSUME NEW a \in Active, NEW u \in TaskId, ClaimNext(a, u)
        PROVE  FALSE
    BY <1>1, <2>3 DEF TypeOK, ClaimNext
  <2>4. ASSUME (\E a \in Active : CancelAgent(a)) \/ Watchdog
        PROVE  FALSE
    <3>1. \E T \in SUBSET TaskId, final \in {"pending", "cancelled"} :
            /\ \A u \in T : tstatus[u] = "in_progress"
            /\ tstatus' = [x \in TaskId |-> IF x \in T THEN final ELSE tstatus[x]]
      BY <1>1, <2>4, SweepEffect
    <3> QED
      BY <1>1, <3>1
  <2>5. ASSUME (\E i \in Worker : ReconcileAfterExit(i)) \/ ServerStart
        PROVE  FALSE
    BY <1>1, <2>5 DEF TypeOK, ReconcileAfterExit, InProgressOf, ServerStart, taskVars
  <2>6. ASSUME Life \/ UNCHANGED vars
        PROVE  FALSE
    BY <1>1, <2>6 DEF Life, Heartbeat, ReportProgress, TouchAgent, ToolCall, RegisterAgent,
                      GoQuiet, taskVars, vars
  <2> QED
    BY <1>1, <2>2, <2>3, <2>4, <2>5, <2>6 DEF Next, Work, Recovery
<1>2. TypeOK /\ [Next]_vars
        => [\A t \in TaskId : Finished(t) /\ tstatus'[t] # tstatus[t] => Edit]_vars
  BY <1>1
<1> QED
  BY <1>2, TypeCorrect, PTL DEF Spec, FinishedStays

=============================================================================
