--------------------------- MODULE SessionRegistry ---------------------------
(***************************************************************************)
(* Which agent talks on which MCP session, and the watchdog's pruning of   *)
(* sessions whose agents fell silent.  The registry is two maps and a time *)
(* per session behind one lock; every operation on it is one step.  Its    *)
(* callers hold the lock for one operation at a time: a tool call binds    *)
(* its session first and touches the heartbeat later, and the watchdog     *)
(* takes a list of agents, judges each, looks up the session of each one   *)
(* it condemned, and removes that session, with calls arriving in between. *)
(*                                                                         *)
(* Time is left out: an activity or a heartbeat is recent until a step     *)
(* lets it grow stale.  An agent's instance bears the agent's name.        *)
(***************************************************************************)
EXTENDS Naturals, FiniteSets

CONSTANTS
  Session,   \* session ids of the transports
  Agent,     \* agent names clients may give
  Instance,  \* the names with an agent instance, which pass ValidateAgent
  Driver,    \* the driver's name
  NamesOf,   \* the names the client of each session uses
  None

ASSUME NoneAssumption == None \notin Session \cup Agent

ASSUME NamesAssumption ==
  /\ Driver \in Agent
  /\ Instance \subseteq Agent
  /\ NamesOf \in [Session -> SUBSET Agent]

VARIABLES
  sessions,   \* SessionRegistry.sessions: session -> agent
  agents,     \* SessionRegistry.agents: agent -> session
  activity,   \* SessionRegistry.lastActivity: "none" is the zero time
  calling,    \* the name a tool call on the session gave and still works for
  beating,    \* instances whose LastHeartbeat is recent
  todo,       \* pruneStaleSessions: agents listed and not yet judged
  condemned,  \* pruneStaleSessions: deadSessions
  target      \* pruneStaleSessions: the session about to be removed

registry == <<sessions, agents, activity>>
pruner   == <<todo, condemned, target>>
vars == <<sessions, agents, activity, calling, beating, todo, condemned, target>>

TypeOK ==
  /\ sessions \in [Session -> Agent \cup {None}]
  /\ agents \in [Agent -> Session \cup {None}]
  /\ activity \in [Session -> {"none", "recent", "stale"}]
  /\ calling \in [Session -> Agent \cup {None}]
  /\ beating \subseteq Instance
  /\ todo \subseteq Agent
  /\ condemned \subseteq Agent
  /\ target \in Session \cup {None}

Init ==
  /\ sessions = [s \in Session |-> None]
  /\ agents = [a \in Agent |-> None]
  /\ activity = [s \in Session |-> "none"]
  /\ calling = [s \in Session |-> None]
  /\ beating = Instance
  /\ todo = {}
  /\ condemned = {}
  /\ target = None

-----------------------------------------------------------------------------
(***************************************************************************)
(* The registry's operations                                               *)
(***************************************************************************)
HasActiveSession(a) == agents[a] # None

\* Faulty definitions are seeded faults: each stands in for the definition
\* after it to see that a property notices.
FaultyConnectedAgents == {agents[a] : a \in {b \in Agent : agents[b] # None}}

ConnectedAgents == {a \in Agent : agents[a] # None}

\* The zero time for an agent without a session, and for one whose session
\* the registry no longer knows.
LastActivityForAgent(a) == IF agents[a] = None THEN "none" ELSE activity[agents[a]]

FaultySetAgent(s, a) ==
  /\ sessions' = [sessions EXCEPT ![s] = a]
  /\ agents' = [agents EXCEPT ![a] = s]
  /\ activity' = [activity EXCEPT ![s] = "recent"]

\* The agent's other session is forgotten; another name that this session
\* had given before keeps its entry in agents.
SetAgent(s, a) ==
  LET old == {r \in Session : r = agents[a] /\ r # s}
  IN /\ sessions' = [r \in Session |-> IF r = s THEN a
                                       ELSE IF r \in old THEN None ELSE sessions[r]]
     /\ agents' = [agents EXCEPT ![a] = s]
     /\ activity' = [r \in Session |-> IF r = s THEN "recent"
                                       ELSE IF r \in old THEN "none" ELSE activity[r]]

TouchSession(s) ==
  /\ sessions[s] # None
  /\ activity' = [activity EXCEPT ![s] = "recent"]
  /\ UNCHANGED <<sessions, agents>>

FaultyRemoveSession(s) ==
  /\ sessions' = [sessions EXCEPT ![s] = None]
  /\ activity' = [activity EXCEPT ![s] = "none"]
  /\ UNCHANGED agents

RemoveSession(s) ==
  /\ sessions' = [sessions EXCEPT ![s] = None]
  /\ agents' = [a \in Agent |-> IF a = sessions[s] THEN None ELSE agents[a]]
  /\ activity' = [activity EXCEPT ![s] = "none"]

-----------------------------------------------------------------------------
(***************************************************************************)
(* Tool calls and the transports                                           *)
(***************************************************************************)
\* set_presence and get_session_context bind the session to the name given,
\* before the name is validated.
Introduce(s, a) ==
  /\ calling[s] = None
  /\ a \in NamesOf[s]
  /\ SetAgent(s, a)
  /\ calling' = [calling EXCEPT ![s] = a]
  /\ UNCHANGED <<beating, pruner>>

\* ... and then run on the state: a known name's heartbeat is renewed, for
\* an unknown one the call fails and changes nothing.
Answer(s) ==
  /\ calling[s] # None
  /\ beating' = beating \cup ({calling[s]} \cap Instance)
  /\ calling' = [calling EXCEPT ![s] = None]
  /\ UNCHANGED <<registry, pruner>>

\* PiggybackMiddleware before any tool call.
AnyTool(s) ==
  /\ TouchSession(s)
  /\ UNCHANGED <<calling, beating, pruner>>

\* The heartbeat tool renews the heartbeat and leaves the registry alone.
Heartbeat(a) ==
  /\ beating' = beating \cup {a}
  /\ UNCHANGED <<registry, calling, pruner>>

\* The transport closes the stream; the client may go on under the same id.
Unregister(s) ==
  /\ RemoveSession(s)
  /\ UNCHANGED <<calling, beating, pruner>>

ActivityAges(s) ==
  /\ activity[s] = "recent"
  /\ activity' = [activity EXCEPT ![s] = "stale"]
  /\ UNCHANGED <<sessions, agents, calling, beating, pruner>>

HeartbeatAges(a) ==
  /\ beating' = beating \ {a}
  /\ UNCHANGED <<registry, calling, pruner>>

-----------------------------------------------------------------------------
(***************************************************************************)
(* pruneStaleSessions                                                      *)
(***************************************************************************)
FaultyAlive(a) ==
  \/ HasActiveSession(a)
  \/ a \in beating

\* isAgentAlive: a session without a recorded activity is given the benefit
\* of the doubt.
isAgentAlive(a) ==
  \/ LastActivityForAgent(a) = "recent"
  \/ HasActiveSession(a) /\ LastActivityForAgent(a) = "none"
  \/ a \in beating

FaultyPrunable(a) == ~isAgentAlive(a)

Prunable(a) == a # Driver /\ ~isAgentAlive(a)

PruneStart ==
  /\ todo = {} /\ condemned = {} /\ target = None
  /\ ConnectedAgents # {}
  /\ todo' = ConnectedAgents
  /\ UNCHANGED <<registry, calling, beating, condemned, target>>

PruneJudge(a) ==
  /\ a \in todo
  /\ todo' = todo \ {a}
  /\ condemned' = IF Prunable(a) THEN condemned \cup {a} ELSE condemned
  /\ UNCHANGED <<registry, calling, beating, target>>

PruneLookup(a) ==
  /\ todo = {} /\ target = None
  /\ a \in condemned
  /\ condemned' = condemned \ {a}
  /\ target' = agents[a]
  /\ UNCHANGED <<registry, calling, beating, todo>>

PruneRemove ==
  /\ target # None
  /\ RemoveSession(target)
  /\ target' = None
  /\ UNCHANGED <<calling, beating, todo, condemned>>

Prune ==
  \/ PruneStart
  \/ \E a \in Agent : PruneJudge(a) \/ PruneLookup(a)
  \/ PruneRemove

Client ==
  \/ \E s \in Session, a \in Agent : Introduce(s, a)
  \/ \E s \in Session : Answer(s) \/ AnyTool(s) \/ Unregister(s) \/ ActivityAges(s)
  \/ \E a \in Instance : Heartbeat(a) \/ HeartbeatAges(a)

Next == Client \/ Prune

\* The watchdog's goroutine runs a check at every tick of its timer, and a
\* check that has begun goes through.
Spec == Init /\ [][Next]_vars /\ WF_vars(Prune)

-----------------------------------------------------------------------------
(***************************************************************************)
(* Properties                                                              *)
(***************************************************************************)
\* However clients name themselves, a session's agent is found under that
\* session: no agent has two sessions, so the removal of one session never
\* cuts off another.
OneSessionPerAgent ==
  \A s \in Session : sessions[s] # None => agents[sessions[s]] = s

\* session_registry.go calls agents the "reverse lookup" of sessions.  With
\* one name per client it is: no agent counts as connected on a session that
\* is gone or that belongs to another.
ReverseLookup ==
  \A a \in Agent : agents[a] # None => sessions[agents[a]] = a

\* watchdog.go: "Skip the driver - never prune it", even when its session
\* changes while a check is on its way.
DriverNeverPruned ==
  [][target # None /\ target' = None => agents'[Driver] = agents[Driver]]_vars

\* No recent heartbeat and no recent activity on a session of the agent.
Silent(a) ==
  /\ a \notin beating
  /\ \A s \in Session : sessions[s] = a => activity[s] # "recent"

\* pruneStaleSessions "removes sessions from the registry whose agents show
\* no recent activity from ANY source".  As long as such an agent counts as
\* connected, no worker is spawned for it and its tasks are not recovered.
SilentArePruned ==
  \A a \in Agent \ {Driver} : <>[]Silent(a) => []<>~HasActiveSession(a)

=============================================================================
