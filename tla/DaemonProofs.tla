---------------------------- MODULE DaemonProofs ----------------------------
(***************************************************************************)
(* One daemon, for any finite set of connections: the tracker's count      *)
(* stays exact, a daemon that every driver has left has a grace period,    *)
(* and none stops before.  Daemons that follow each other, for any windows *)
(* and processes: one server runs at a time, and a serving daemon keeps    *)
(* its files.                                                              *)
(***************************************************************************)
EXTENDS Daemon, DaemonStart, FiniteSetTheorems, TLAPS

-----------------------------------------------------------------------------
(***************************************************************************)
(* One daemon                                                              *)
(***************************************************************************)
\* AbandonedHasTimer is inductive only together with the exact count: a
\* hook that starts no timer leaves a positive count, so another connection.
LifeInv == LifeTypeOK /\ CountIsConnections /\ AbandonedHasTimer

\* The set of connections that count is finite, so it has a cardinality.
LEMMA CountedFinite ==
  ASSUME NEW S \in SUBSET Conn
  PROVE  IsFiniteSet(S) /\ Cardinality(S) \in Nat
  BY ConnAssumption, FS_Subset, FS_CardinalityType

\* The hooks keep the count exact, and the timer of an abandoned daemon.
LEMMA LifeInvStep ==
  ASSUME LifeInv, [LifeNext]_lifeVars
  PROVE  LifeInv'
<1> USE DEF LifeInv
<1>1. ASSUME NEW c \in Conn, Accept(c)
      PROVE  LifeInv'
  <2>1. LifeTypeOK'
    BY <1>1 DEF LifeTypeOK, Accept
  <2>2. Counted' = Counted \cup {c} /\ c \notin Counted
    BY <1>1 DEF LifeTypeOK, Accept, Counted
  <2>3. Cardinality(Counted') = Cardinality(Counted) + 1
    BY <2>2, CountedFinite, FS_AddElement DEF Counted
  <2>4. CountIsConnections'
    BY <1>1, <2>3 DEF Accept, CountIsConnections
  <2>5. AbandonedHasTimer'
    BY <1>1 DEF LifeTypeOK, Accept, AbandonedHasTimer
  <2> QED
    BY <2>1, <2>4, <2>5
<1>2. ASSUME NEW c \in Conn, Connected(c)
      PROVE  LifeInv'
  <2>1. LifeTypeOK'
    BY <1>2 DEF LifeTypeOK, Connected
  <2>2. Counted' = Counted
    BY <1>2 DEF LifeTypeOK, Connected, Counted
  <2>3. CountIsConnections'
    BY <1>2, <2>2 DEF Connected, CountIsConnections
  <2>4. AbandonedHasTimer'
    BY <1>2 DEF LifeTypeOK, Connected, AbandonedHasTimer
  <2> QED
    BY <2>1, <2>3, <2>4
<1>3. ASSUME NEW c \in Conn, Close(c)
      PROVE  LifeInv'
  <2>1. LifeTypeOK'
    BY <1>3 DEF LifeTypeOK, Close
  <2>2. Counted' = Counted \ {c} /\ c \in Counted
    BY <1>3 DEF LifeTypeOK, Close, Counted
  <2>3. Cardinality(Counted') = Cardinality(Counted) - 1
    BY <2>2, CountedFinite, FS_RemoveElement DEF Counted
  <2>4. CountIsConnections'
    BY <1>3, <2>3 DEF Close, CountIsConnections
  <2>5. AbandonedHasTimer'
    <3>1. CASE count' <= 0
      BY <1>3, <3>1 DEF LifeTypeOK, Close, AbandonedHasTimer
    <3>2. CASE ~(count' <= 0)
      <4>1. Counted' # {}
        BY <2>1, <2>4, <3>2, FS_EmptySet DEF LifeTypeOK, CountIsConnections
      <4> QED
        BY <4>1 DEF Counted, AbandonedHasTimer
    <3> QED
      BY <3>1, <3>2
  <2> QED
    BY <2>1, <2>4, <2>5
<1>4. ASSUME NEW c \in Conn, Disconnected(c)
      PROVE  LifeInv'
  <2>1. LifeTypeOK'
    BY <1>4 DEF LifeTypeOK, Disconnected
  <2>2. Counted' = Counted
    BY <1>4 DEF LifeTypeOK, Disconnected, Counted
  <2>3. CountIsConnections'
    BY <1>4, <2>2 DEF Disconnected, CountIsConnections
  <2>4. AbandonedHasTimer'
    BY <1>4 DEF LifeTypeOK, Disconnected, AbandonedHasTimer
  <2> QED
    BY <2>1, <2>3, <2>4
<1>5. ASSUME GraceOver \/ Signal \/ Process \/ UNCHANGED lifeVars
      PROVE  LifeInv'
  <2>1. UNCHANGED <<conn, count, served>> /\ (timer # "nil" => timer' # "nil")
    BY <1>5 DEF GraceOver, Signal, Process, StopServing, Exit, tracker, lifeVars
  <2>2. LifeTypeOK'
    <3>1. CASE GraceOver
      BY <3>1 DEF LifeTypeOK, GraceOver
    <3>2. CASE Signal
      BY <3>2 DEF LifeTypeOK, Signal, tracker
    <3>3. CASE Process
      BY <3>3 DEF LifeTypeOK, Process, StopServing, Exit, tracker
    <3>4. CASE UNCHANGED lifeVars
      BY <3>4 DEF LifeTypeOK, lifeVars
    <3> QED
      BY <1>5, <3>1, <3>2, <3>3, <3>4
  <2>3. CountIsConnections'
    BY <2>1 DEF CountIsConnections, Counted
  <2>4. AbandonedHasTimer'
    BY <2>1 DEF AbandonedHasTimer
  <2> QED
    BY <2>2, <2>3, <2>4
<1> QED
  BY <1>1, <1>2, <1>3, <1>4, <1>5 DEF LifeNext, Hook, Proxy

\* The invariant holds in every reachable state.
LEMMA LifeInvariance == LifeSpec => []LifeInv
<1>1. LifeInit => LifeInv
  <2>1. LifeInit => Counted = {}
    BY DEF LifeInit, Counted
  <2>2. LifeInit => LifeTypeOK
    <3>1. LifeInit => done \in BOOLEAN /\ served \in BOOLEAN /\ signalled \in BOOLEAN /\ watching \in BOOLEAN
      BY Zenon DEF LifeInit
    <3>2. LifeInit => count \in Int
      BY DEF LifeInit
    <3>3. LifeInit => conn \in [Conn -> {"closed", "accepted", "open", "closing"}]
      BY DEF LifeInit
    <3>4. LifeInit => timer \in {"nil", "armed", "fired"} /\ phase \in {"serving", "stopping", "stopped"}
      BY DEF LifeInit
    <3> QED
      BY <3>1, <3>2, <3>3, <3>4, Zenon DEF LifeTypeOK
  <2>3. LifeInit => CountIsConnections
    BY <2>1, FS_EmptySet DEF LifeInit, CountIsConnections
  <2>4. LifeInit => AbandonedHasTimer
    BY DEF LifeInit, AbandonedHasTimer
  <2> QED
    BY <2>2, <2>3, <2>4 DEF LifeInv
<1>2. LifeInv /\ [LifeNext]_lifeVars => LifeInv'
  BY LifeInvStep
<1> QED
  BY <1>1, <1>2, PTL DEF LifeSpec

\* Every state has the declared types.
THEOREM LifeTypeCorrect == LifeSpec => []LifeTypeOK
<1>1. LifeInv => LifeTypeOK
  BY DEF LifeInv
<1> QED
  BY <1>1, LifeInvariance, PTL

\* The count is the number of connections, however their hooks overlap.
THEOREM CountCorrect == LifeSpec => []CountIsConnections
<1>1. LifeInv => CountIsConnections
  BY DEF LifeInv
<1> QED
  BY <1>1, LifeInvariance, PTL

\* A daemon all drivers have left has a grace period running or over, in
\* whatever order their hooks got the mutex of the timer.
THEOREM TimerCorrect == LifeSpec => []AbandonedHasTimer
<1>1. LifeInv => AbandonedHasTimer
  BY DEF LifeInv
<1> QED
  BY <1>1, LifeInvariance, PTL

\* The grace period begins at the end of a connection, and nothing else ends
\* a daemon.
ServedInv ==
  /\ timer # "nil" \/ (\E c \in Conn : conn[c] = "closing") => served
  /\ done => served
StopsOnlyServed == phase # "serving" => done /\ served

LEMMA ServedStep ==
  ASSUME LifeTypeOK, ServedInv, StopsOnlyServed, [LifeNext]_lifeVars
  PROVE  ServedInv' /\ StopsOnlyServed'
<1> USE DEF LifeTypeOK, ServedInv, StopsOnlyServed
<1>1. CASE Hook
  BY <1>1 DEF Hook, Connected, Disconnected
<1>2. CASE Proxy
  BY <1>2 DEF Proxy, Accept, Close
<1>3. CASE GraceOver
  BY <1>3 DEF GraceOver
<1>4. CASE Signal
  BY <1>4 DEF Signal, tracker
<1>5. CASE Process
  BY <1>5 DEF Process, StopServing, Exit, tracker
<1>6. CASE UNCHANGED lifeVars
  BY <1>6 DEF lifeVars
<1> QED
  BY <1>1, <1>2, <1>3, <1>4, <1>5, <1>6 DEF LifeNext

\* A daemon stops serving only when a grace period is over that began when a
\* connection ended: what DaemonStart takes for granted of Expire.
THEOREM StopCorrect == LifeSpec => []StopsOnlyServed
<1>1. LifeInit => ServedInv /\ StopsOnlyServed
  BY DEF LifeInit, ServedInv, StopsOnlyServed
<1> QED
  BY <1>1, ServedStep, LifeTypeCorrect, PTL DEF LifeSpec

-----------------------------------------------------------------------------
(***************************************************************************)
(* Windows, and daemons that follow each other                             *)
(***************************************************************************)
\* Every state has the declared types.
THEOREM TypeCorrect == Spec => []TypeOK
<1>1. Init => TypeOK
  BY DEF Init, TypeOK, Watching, Accepting
<1>2. TypeOK /\ [Next]_vars => TypeOK'
  <2> SUFFICES ASSUME TypeOK, [Next]_vars PROVE TypeOK'
    OBVIOUS
  <2> USE DEF TypeOK, files, lock
  <2>1. ASSUME NEW w \in Window, Start(w) PROVE TypeOK'
    <3> USE DEF Goes, Reachable, Visited, Released, Accepting
    <3>1. CASE Probe(w)
      BY <3>1 DEF Probe
    <3>2. CASE AcquireLock(w)
      BY <3>2 DEF AcquireLock
    <3>3. CASE Recheck(w)
      BY <3>3 DEF Recheck
    <3>4. CASE CheckPid(w)
      BY <3>4 DEF CheckPid
    <3>5. CASE Clean(w)
      BY <3>5 DEF Clean
    <3>6. CASE Exec(w)
      BY <3>6 DEF Exec, Watching
    <3>7. CASE ExecFails(w)
      BY <3>7 DEF ExecFails, GivesUp
    <3>8. CASE WaitSucceeds(w)
      BY <3>8 DEF WaitSucceeds
    <3>9. CASE TimeOut(w)
      BY <3>9 DEF TimeOut, GivesUp
    <3> QED
      BY <2>1, <3>1, <3>2, <3>3, <3>4, <3>5, <3>6, <3>7, <3>8, <3>9 DEF Start
  <2>2. ASSUME NEW w \in Window, Use(w) PROVE TypeOK'
    <3> USE DEF Goes, Reachable, Visited
    <3>1. CASE Open(w)
      BY <3>1 DEF Open
    <3>2. CASE Forward(w)
      BY <3>2 DEF Forward
    <3>3. CASE Leave(w)
      BY <3>3 DEF Leave
    <3>4. CASE Kill(w)
      BY <3>4 DEF Kill
    <3> QED
      BY <2>2, <3>1, <3>2, <3>3, <3>4 DEF Use
  <2>3. ASSUME NEW d \in Pid, Begin(d) PROVE TypeOK'
    BY <2>3 DEF Begin, WritePid, ClearSocket, BindPort, Listen, Moves, Watching, Accepting
  <2>4. ASSUME NEW d \in Pid, Expire(d) \/ End(d) \/ Crash(d) PROVE TypeOK'
    <3> USE DEF Moves, Cut, Watching, Accepting
    <3>1. CASE Expire(d) \/ Cleanup(d)
      BY <3>1 DEF Expire, Cleanup
    <3>2. CASE CloseListener(d) \/ Crash(d)
      BY <3>2 DEF CloseListener, Crash
    <3>3. CASE RemoveSocket(d) \/ RemovePid(d)
      BY <3>3 DEF RemoveSocket, RemovePid
    <3> QED
      BY <2>4, <3>1, <3>2, <3>3 DEF End
  <2>5. CASE UNCHANGED vars
    BY <2>5 DEF vars
  <2> QED
    BY <2>1, <2>2, <2>3, <2>4, <2>5 DEF Next
<1> QED
  BY <1>1, <1>2, PTL DEF Spec

-----------------------------------------------------------------------------
(***************************************************************************)
(* The invariant.  The lock is with a starter from its second look at the  *)
(* socket until its daemon answers, or is left behind for good; as long as *)
(* nobody has disturbed a start, a daemon on its way up has the lock       *)
(* standing and nobody answering, and whoever answers owns the socket.     *)
(***************************************************************************)
Undisturbed == ~gaveUp /\ "socket" \notin overtaken
Incoming == {"starting", "named", "cleared", "bound"}
Deciding == {"check", "clean", "exec"}

LockInv ==
  /\ \A w \in Window : win[w] \in Deciding \cup {"recheck"} => holder = w
  /\ holder # None => lockFile /\ win[holder] \in Deciding \cup {"recheck", "wait"}

IncomingInv ==
  \A d \in Pid : proc[d] \in Incoming =>
    lockFile /\ ~Reachable /\ (holder # None => win[holder] = "wait")
DecidingInv ==
  \A w \in Window : win[w] \in Deciding =>
    ~Reachable /\ \A d \in Pid : proc[d] \notin Watching
SocketInv == \A d \in Pid : proc[d] \in Accepting => socket = d
PidInv ==
  \A d \in Pid : proc[d] \in Watching \ {"starting"} =>
    pidFile = d \/ (pidFile = None /\ "pidFile" \in overtaken)
OneInv ==
  /\ \A d, e \in Pid : proc[d] \in Watching /\ proc[e] \in Watching => d = e
  /\ \A w \in Window : win[w] # "alone"

StartInv == IncomingInv /\ DecidingInv /\ SocketInv /\ PidInv /\ OneInv
Inv == TypeOK /\ LockInv /\ (Undisturbed => StartInv)

LEMMA InitInv == Init => Inv
<1> SUFFICES ASSUME Init PROVE Inv
  OBVIOUS
<1>1. TypeOK
  BY DEF Init, TypeOK, Watching, Accepting
<1>2. QED
  BY <1>1 DEF Init, Inv, LockInv, StartInv, IncomingInv, DecidingInv, SocketInv, PidInv,
              OneInv, Incoming, Deciding, Watching, Accepting

LEMMA LockKept == TypeOK /\ LockInv /\ [Next]_vars => LockInv'
<1> SUFFICES ASSUME TypeOK, LockInv, [Next]_vars PROVE LockInv'
  OBVIOUS
<1> USE NoneAssumption DEF TypeOK, LockInv, Deciding, lock
<1>1. ASSUME NEW w \in Window, Start(w) PROVE LockInv'
  <2> USE DEF Goes, Released
  <2>1. CASE Probe(w) \/ CheckPid(w) \/ Clean(w) \/ Exec(w)
    BY <2>1 DEF Probe, CheckPid, Clean, Exec
  <2>2. CASE AcquireLock(w)
    BY <2>2 DEF AcquireLock
  <2>3. CASE Recheck(w)
    BY <2>3 DEF Recheck
  <2>4. CASE WaitSucceeds(w)
    BY <2>4 DEF WaitSucceeds
  <2>5. CASE ExecFails(w) \/ TimeOut(w)
    BY <2>5 DEF ExecFails, TimeOut, GivesUp
  <2> QED
    BY <1>1, <2>1, <2>2, <2>3, <2>4, <2>5 DEF Start
<1>2. ASSUME NEW w \in Window, Use(w) PROVE LockInv'
  BY <1>2 DEF Use, Open, Forward, Leave, Kill, Goes
<1>3. ASSUME NEW d \in Pid, Begin(d) \/ Expire(d) \/ End(d) \/ Crash(d) PROVE LockInv'
  BY <1>3 DEF Begin, WritePid, ClearSocket, BindPort, Listen, End, Expire, Cleanup,
              CloseListener, RemoveSocket, RemovePid, Crash
<1>4. CASE UNCHANGED vars
  BY <1>4 DEF vars
<1> QED
  BY <1>1, <1>2, <1>3, <1>4 DEF Next

\* A step of a window's process: only the holder of the lock decides to start
\* a daemon, and only after nobody answered.
LEMMA WindowKeeps ==
  ASSUME TypeOK, LockInv, LockInv', Undisturbed => StartInv, Undisturbed',
         NEW w \in Window, Start(w) \/ Use(w)
  PROVE  StartInv'
<1> USE NoneAssumption DEF TypeOK, LockInv, Deciding, Incoming, Undisturbed, StartInv, lock, files
<1> USE DEF Goes, Released, Visited, Reachable, Accepting, Watching
<1> USE DEF IncomingInv, DecidingInv, SocketInv, PidInv, OneInv
<1>1. CASE Probe(w) \/ CheckPid(w)
  BY <1>1 DEF Probe, CheckPid
<1>2. CASE AcquireLock(w)
  BY <1>2 DEF AcquireLock
<1>3. CASE Recheck(w)
  <2>1. IncomingInv'
    BY <1>3 DEF Recheck
  <2>2. DecidingInv'
    BY <1>3 DEF Recheck
  <2>3. SocketInv' /\ PidInv' /\ OneInv'
    BY <1>3 DEF Recheck
  <2> QED
    BY <2>1, <2>2, <2>3
<1>4. CASE Clean(w)
  BY <1>4 DEF Clean
<1>5. CASE Exec(w)
  <2>1. PICK d \in Pid : proc[d] = "dead" /\ proc' = [proc EXCEPT ![d] = "starting"]
    BY <1>5 DEF Exec
  <2>2. IncomingInv'
    BY <1>5, <2>1 DEF Exec
  <2>3. DecidingInv'
    BY <1>5, <2>1 DEF Exec
  <2>4. SocketInv' /\ PidInv'
    BY <1>5, <2>1 DEF Exec
  <2>5. OneInv'
    BY <1>5, <2>1 DEF Exec
  <2> QED
    BY <2>2, <2>3, <2>4, <2>5
<1>6. CASE ExecFails(w) \/ TimeOut(w)
  BY <1>6 DEF ExecFails, TimeOut, GivesUp
<1>7. CASE WaitSucceeds(w)
  BY <1>7 DEF WaitSucceeds
<1>8. CASE Open(w) \/ Forward(w) \/ Leave(w)
  BY <1>8 DEF Open, Forward, Leave
<1>9. CASE Kill(w)
  BY <1>9 DEF Kill
<1> QED
  BY <1>1, <1>2, <1>3, <1>4, <1>5, <1>6, <1>7, <1>8, <1>9 DEF Start, Use

\* A step of a daemon: one on its way up is the only one at work, and one on
\* its way out no longer has a successor's socket to lose, unless the step
\* itself takes it.
LEMMA DaemonKeeps ==
  ASSUME TypeOK, LockInv, Undisturbed => StartInv, Undisturbed',
         NEW d \in Pid, Begin(d) \/ Expire(d) \/ End(d) \/ Crash(d)
  PROVE  StartInv'
<1> USE NoneAssumption DEF TypeOK, LockInv, Deciding, Incoming, Undisturbed, StartInv, lock, files
<1> USE DEF Moves, Reachable, Accepting, Watching
<1> USE DEF IncomingInv, DecidingInv, SocketInv, PidInv, OneInv
<1>1. CASE WritePid(d)
  BY <1>1 DEF WritePid
<1>2. CASE ClearSocket(d)
  BY <1>2 DEF ClearSocket
<1>3. CASE BindPort(d)
  BY <1>3 DEF BindPort
<1>4. CASE Listen(d)
  <2>1. IncomingInv'
    BY <1>4 DEF Listen
  <2>2. DecidingInv'
    BY <1>4 DEF Listen
  <2>3. SocketInv'
    BY <1>4 DEF Listen
  <2>4. PidInv' /\ OneInv'
    BY <1>4 DEF Listen
  <2> QED
    BY <2>1, <2>2, <2>3, <2>4
<1>5. CASE Expire(d) \/ Cleanup(d)
  BY <1>5 DEF Expire, Cleanup
<1>6. CASE CloseListener(d)
  BY <1>6 DEF CloseListener
<1>7. CASE RemoveSocket(d)
  BY <1>7 DEF RemoveSocket
<1>8. CASE RemovePid(d)
  BY <1>8 DEF RemovePid
<1>9. CASE Crash(d)
  BY <1>9 DEF Crash
<1> QED
  BY <1>1, <1>2, <1>3, <1>4, <1>5, <1>6, <1>7, <1>8, <1>9 DEF Begin, End

LEMMA Invariance == Spec => []Inv
<1>1. TypeOK' /\ Inv /\ [Next]_vars => Inv'
  <2> SUFFICES ASSUME TypeOK', Inv, [Next]_vars PROVE Inv'
    OBVIOUS
  <2>1. LockInv'
    BY LockKept DEF Inv
  <2>2. ASSUME NEW w \in Window, Start(w) \/ Use(w) PROVE Undisturbed' => StartInv'
    BY <2>1, <2>2, WindowKeeps DEF Inv
  <2>3. ASSUME NEW d \in Pid, Begin(d) \/ Expire(d) \/ End(d) \/ Crash(d) PROVE Undisturbed' => StartInv'
    BY <2>3, DaemonKeeps DEF Inv
  <2>4. CASE UNCHANGED vars
    BY <2>1, <2>4 DEF vars, files, lock, Inv, Undisturbed, StartInv, Reachable, IncomingInv,
                      DecidingInv, SocketInv, PidInv, OneInv
  <2> QED
    BY <2>1, <2>2, <2>3, <2>4 DEF Next, Inv
<1> QED
  BY <1>1, InitInv, TypeCorrect, PTL DEF Spec

\* One server's workers, notifier and watchdog run at a time, unless a window
\* gave up waiting or a daemon removed its successor's socket at its end.
THEOREM OneServerCorrect == Spec => []NoDuplicates
<1>1. Inv => NoDuplicates
  BY DEF Inv, StartInv, OneInv, Undisturbed, NoDuplicates
<1> QED
  BY <1>1, Invariance, PTL

\* A serving daemon keeps its socket and its PID file, with the same two
\* exceptions.
THEOREM FilesCorrect == Spec => []FilesAreOwn
<1>1. Inv => FilesAreOwn
  BY DEF Inv, StartInv, SocketInv, PidInv, Undisturbed, FilesAreOwn, Watching, Accepting
<1> QED
  BY <1>1, Invariance, PTL

\* At most one window at a time is between its second look at the socket and
\* the start of a daemon, whatever was killed, crashed or left behind.
OneStarter ==
  \A v, w \in Window :
    win[v] \in Deciding \cup {"recheck"} /\ win[w] \in Deciding \cup {"recheck"} => v = w

THEOREM StarterCorrect == Spec => []OneStarter
<1>1. Inv => OneStarter
  BY DEF Inv, LockInv, OneStarter
<1> QED
  BY <1>1, Invariance, PTL

=============================================================================
