------------------------ MODULE SessionRegistryProofs ------------------------
(***************************************************************************)
(* For any sessions, agents and habits of clients: no agent has two        *)
(* sessions.  For clients that each use one name: an agent counts as       *)
(* connected only on a session of its own, and the driver is never pruned. *)
(***************************************************************************)
EXTENDS SessionRegistry, TLAPS

\* Every client gives one name only on its session.
OneName ==
  \A s \in Session : \A a, b \in Agent : a \in NamesOf[s] /\ b \in NamesOf[s] => a = b

\* The session of a name is one whose client gives that name.
OwnNames ==
  \A s \in Session : sessions[s] # None => sessions[s] \in NamesOf[s]

\* The watchdog has no business with the driver's sessions.
SparesDriver ==
  /\ Driver \notin condemned
  /\ target # None => Driver \notin NamesOf[target]

Inv == TypeOK /\ OneSessionPerAgent

-----------------------------------------------------------------------------
\* The types, and one session per agent: binding a session frees the other
\* session of that agent, and only the agent of a removed session loses it.
LEMMA InvStep ==
  ASSUME Inv, [Next]_vars
  PROVE  Inv'
<1> USE NoneAssumption, NamesAssumption
<1> USE DEF Inv
<1>1. ASSUME NEW s \in Session, NEW a \in Agent, Introduce(s, a)
      PROVE  Inv'
  <2>1. TypeOK'
    BY <1>1 DEF TypeOK, Introduce, SetAgent, pruner
  <2>2. OneSessionPerAgent'
    BY <1>1 DEF TypeOK, OneSessionPerAgent, Introduce, SetAgent
  <2> QED
    BY <2>1, <2>2
<1>2. ASSUME NEW s \in Session, Answer(s)
      PROVE  Inv'
  BY <1>2 DEF TypeOK, OneSessionPerAgent, Answer, registry, pruner
<1>3. ASSUME NEW s \in Session, AnyTool(s)
      PROVE  Inv'
  BY <1>3 DEF TypeOK, OneSessionPerAgent, AnyTool, TouchSession, pruner
<1>4. ASSUME NEW s \in Session, RemoveSession(s)
      PROVE  /\ sessions' \in [Session -> Agent \cup {None}]
             /\ agents' \in [Agent -> Session \cup {None}]
             /\ activity' \in [Session -> {"none", "recent", "stale"}]
             /\ OneSessionPerAgent'
  BY <1>4 DEF TypeOK, OneSessionPerAgent, RemoveSession
<1>5. ASSUME NEW s \in Session, Unregister(s)
      PROVE  Inv'
  BY <1>4, <1>5 DEF TypeOK, Unregister, pruner
<1>6. ASSUME PruneRemove
      PROVE  Inv'
  BY <1>4, <1>6 DEF TypeOK, PruneRemove
<1>7. ASSUME NEW s \in Session, ActivityAges(s)
      PROVE  Inv'
  BY <1>7 DEF TypeOK, OneSessionPerAgent, ActivityAges, pruner
<1>8. ASSUME NEW a \in Instance, Heartbeat(a) \/ HeartbeatAges(a)
      PROVE  Inv'
  BY <1>8 DEF TypeOK, OneSessionPerAgent, Heartbeat, HeartbeatAges, registry, pruner
<1>9. ASSUME PruneStart
      PROVE  Inv'
  BY <1>9 DEF TypeOK, OneSessionPerAgent, PruneStart, ConnectedAgents, registry
<1>10. ASSUME NEW a \in Agent, PruneJudge(a)
       PROVE  Inv'
  BY <1>10 DEF TypeOK, OneSessionPerAgent, PruneJudge, registry
<1>11. ASSUME NEW a \in Agent, PruneLookup(a)
       PROVE  Inv'
  BY <1>11 DEF TypeOK, OneSessionPerAgent, PruneLookup, registry
<1>12. CASE UNCHANGED vars
  BY <1>12 DEF TypeOK, OneSessionPerAgent, vars
<1> QED
  BY <1>1, <1>2, <1>3, <1>5, <1>6, <1>7, <1>8, <1>9, <1>10, <1>11, <1>12
     DEF Next, Client, Prune

\* The invariant holds in every reachable state.
LEMMA Invariance == Spec => []Inv
<1>1. Init => Inv
  BY NamesAssumption DEF Init, Inv, TypeOK, OneSessionPerAgent
<1>2. Inv /\ [Next]_vars => Inv'
  BY InvStep
<1> QED
  BY <1>1, <1>2, PTL DEF Spec

\* Every state has the declared types.
THEOREM TypeCorrect == Spec => []TypeOK
<1>1. Inv => TypeOK
  BY DEF Inv
<1> QED
  BY <1>1, Invariance, PTL

\* No agent has two sessions in any reachable state, even when clients give
\* the names of others.
THEOREM SessionsCorrect == Spec => []OneSessionPerAgent
<1>1. Inv => OneSessionPerAgent
  BY DEF Inv
<1> QED
  BY <1>1, Invariance, PTL

-----------------------------------------------------------------------------
\* The conjuncts of the invariant for clients that use one name.
OneNameInv == Inv /\ OwnNames /\ ReverseLookup /\ SparesDriver

\* A client that keeps to one name never leaves an entry of another behind.
LEMMA OneNameStep ==
  ASSUME OneName, OneNameInv, [Next]_vars
  PROVE  OwnNames' /\ ReverseLookup'
<1> USE NoneAssumption, NamesAssumption
<1> USE DEF OneNameInv, Inv
<1>1. ASSUME UNCHANGED <<sessions, agents>>
      PROVE  OwnNames' /\ ReverseLookup'
  BY <1>1 DEF OwnNames, ReverseLookup
<1>2. ASSUME NEW s \in Session, NEW a \in Agent, Introduce(s, a)
      PROVE  OwnNames' /\ ReverseLookup'
  <2>1. OwnNames'
    BY <1>2 DEF TypeOK, OwnNames, Introduce, SetAgent
  <2>2. ReverseLookup'
    <3>1. sessions[s] # None => sessions[s] = a
      BY <1>2 DEF TypeOK, OneName, OwnNames, Introduce
    <3> QED
      BY <1>2, <3>1 DEF TypeOK, OneSessionPerAgent, ReverseLookup, Introduce, SetAgent
  <2> QED
    BY <2>1, <2>2
<1>3. ASSUME NEW s \in Session, RemoveSession(s)
      PROVE  OwnNames' /\ ReverseLookup'
  BY <1>3 DEF TypeOK, OwnNames, ReverseLookup, RemoveSession
<1>4. CASE \E s \in Session : Unregister(s)
  BY <1>3, <1>4 DEF Unregister
<1>5. CASE PruneRemove
  BY <1>3, <1>5 DEF TypeOK, PruneRemove
<1>6. CASE \/ \E s \in Session : Answer(s) \/ AnyTool(s) \/ ActivityAges(s)
           \/ \E a \in Instance : Heartbeat(a) \/ HeartbeatAges(a)
           \/ PruneStart
           \/ \E a \in Agent : PruneJudge(a) \/ PruneLookup(a)
           \/ UNCHANGED vars
  BY <1>1, <1>6 DEF Answer, AnyTool, TouchSession, ActivityAges, Heartbeat, HeartbeatAges,
                    PruneStart, PruneJudge, PruneLookup, registry, vars
<1> QED
  BY <1>2, <1>4, <1>5, <1>6 DEF Next, Client, Prune

\* Whom the watchdog condemns is not the driver, and the session it looks up
\* belongs to a client that gives the condemned name and no other.
LEMMA SparesStep ==
  ASSUME OneName, OneNameInv, [Next]_vars
  PROVE  SparesDriver'
<1> USE NoneAssumption, NamesAssumption
<1> USE DEF OneNameInv, Inv
<1>1. ASSUME UNCHANGED <<condemned, target>>
      PROVE  SparesDriver'
  BY <1>1 DEF SparesDriver
<1>2. CASE Client \/ PruneStart \/ UNCHANGED vars
  BY <1>1, <1>2 DEF Client, Introduce, Answer, AnyTool, Unregister, ActivityAges, Heartbeat,
                    HeartbeatAges, PruneStart, pruner, vars
<1>3. ASSUME NEW a \in Agent, PruneJudge(a)
      PROVE  SparesDriver'
  BY <1>3 DEF SparesDriver, PruneJudge, Prunable
<1>4. ASSUME NEW a \in Agent, PruneLookup(a)
      PROVE  SparesDriver'
  <2>1. a # Driver
    BY <1>4 DEF SparesDriver, PruneLookup
  <2>2. ASSUME agents[a] # None
        PROVE  a \in NamesOf[agents[a]]
    BY <2>2 DEF TypeOK, OwnNames, ReverseLookup
  <2>3. ASSUME agents[a] # None
        PROVE  Driver \notin NamesOf[agents[a]]
    BY <2>1, <2>2, <2>3 DEF TypeOK, OneName
  <2> QED
    BY <1>4, <2>3 DEF SparesDriver, PruneLookup
<1>5. CASE PruneRemove
  BY <1>5 DEF SparesDriver, PruneRemove
<1> QED
  BY <1>2, <1>3, <1>4, <1>5 DEF Next, Prune

\* The invariant for clients that use one name holds for good.
LEMMA OneNameAlways == OneName /\ Spec => []OneNameInv
<1>1. Init => OneNameInv
  BY NamesAssumption DEF Init, OneNameInv, Inv, TypeOK, OneSessionPerAgent, OwnNames,
                         ReverseLookup, SparesDriver
<1>2. OneName /\ OneNameInv /\ [Next]_vars => OneNameInv'
  BY InvStep, OneNameStep, SparesStep DEF OneNameInv
<1>3. CASE OneName
  BY <1>1, <1>2, <1>3, PTL DEF Spec
<1>4. CASE ~OneName
  BY <1>4
<1> QED
  BY <1>3, <1>4

\* With one name per client, an agent that counts as connected has a session
\* of its own, so SilentArePruned is not defeated by a leftover entry.
THEOREM ReverseCorrect == OneName /\ Spec => []ReverseLookup
<1>1. OneName /\ Spec => []OneNameInv
  BY OneNameAlways
<1>2. OneNameInv => ReverseLookup
  BY DEF OneNameInv
<1> QED
  BY <1>1, <1>2, PTL

\* With one name per client the driver keeps its session through every check
\* of the watchdog, whatever happens between the steps of the check.
THEOREM DriverKept == OneName /\ Spec => DriverNeverPruned
<1>1. ASSUME OneNameInv, [Next]_vars, target # None, target' = None
      PROVE  agents'[Driver] = agents[Driver]
  <2>1. PruneRemove
    BY <1>1, NoneAssumption DEF OneNameInv, Inv, TypeOK, Next, Client, Prune, Introduce, Answer, AnyTool,
       Unregister, ActivityAges, Heartbeat, HeartbeatAges, PruneStart, PruneJudge, PruneLookup,
       pruner, vars
  <2>2. target \in Session /\ sessions[target] # Driver
    BY <1>1, NoneAssumption, NamesAssumption
       DEF OneNameInv, Inv, TypeOK, OwnNames, SparesDriver
  <2> QED
    BY <1>1, <2>1, <2>2, NamesAssumption
       DEF OneNameInv, Inv, TypeOK, PruneRemove, RemoveSession
<1>2. OneNameInv /\ [Next]_vars
        => [target # None /\ target' = None => agents'[Driver] = agents[Driver]]_vars
  BY <1>1
<1>3. OneName /\ Spec => []OneNameInv
  BY OneNameAlways
<1> QED
  BY <1>2, <1>3, PTL DEF Spec, DriverNeverPruned

=============================================================================
