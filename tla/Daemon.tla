------------------------------- MODULE Daemon -------------------------------
(***************************************************************************)
(* The life of one daemon process: the connections of the proxies on its   *)
(* unix socket, the driverTracker that counts them and starts a grace      *)
(* period after the last one, and the shutdown.                            *)
(*                                                                         *)
(* The counter is atomic, the timer is behind a mutex, and a connection's  *)
(* hook touches first the one and then the other: two steps, between which *)
(* the hooks of other connections run.  Accept is one goroutine, so one    *)
(* connection at a time is being opened; any number may be closing.        *)
(* Starting a daemon, and the files it shares with others, are not here.   *)
(***************************************************************************)
EXTENDS Integers, FiniteSets

CONSTANT Conn  \* connections that may be open or closing at one time

ASSUME ConnAssumption == IsFiniteSet(Conn)

VARIABLES
  conn,       \* "closed", "accepted" (hook not finished), "open", "closing"
  count,      \* driverTracker.count
  timer,      \* driverTracker.graceTimer: "nil", "armed", or "fired" but kept
  done,       \* driverTracker.doneCh is closed
  served,     \* history: some connection has been closed
  signalled,  \* SIGINT or SIGTERM has arrived
  watching,   \* the bundle's context lives: notifier and watchdog run
  phase       \* of runDaemon: "serving", "stopping", "stopped"

tracker == <<count, timer, done>>
lifeVars == <<conn, count, timer, done, served, signalled, watching, phase>>

LifeTypeOK ==
  /\ conn \in [Conn -> {"closed", "accepted", "open", "closing"}]
  /\ count \in Int
  /\ timer \in {"nil", "armed", "fired"}
  /\ done \in BOOLEAN
  /\ served \in BOOLEAN
  /\ signalled \in BOOLEAN
  /\ watching \in BOOLEAN
  /\ phase \in {"serving", "stopping", "stopped"}

LifeInit ==
  /\ conn = [c \in Conn |-> "closed"]
  /\ count = 0
  /\ timer = "nil"
  /\ done = FALSE
  /\ served = FALSE
  /\ signalled = FALSE
  /\ watching = TRUE
  /\ phase = "serving"

-----------------------------------------------------------------------------
(***************************************************************************)
(* connTrackingListener and driverTracker                                  *)
(***************************************************************************)
\* Accept, and the first half of driverConnected.  The socket accepts until
\* the deferred shutdown of the unix server, after everything else stopped.
Accept(c) ==
  /\ phase # "stopped"
  /\ conn[c] = "closed"
  /\ \A d \in Conn : conn[d] # "accepted"
  /\ conn' = [conn EXCEPT ![c] = "accepted"]
  /\ count' = count + 1
  /\ UNCHANGED <<timer, done, served, signalled, watching, phase>>

\* Definitions named Faulty, Mistyped or Unguarded are seeded faults: each
\* stands in for the definition after it to see that a property notices.
\* Here the timer is stopped but not forgotten.
FaultyConnected(c) ==
  /\ phase # "stopped"
  /\ conn[c] = "accepted"
  /\ conn' = [conn EXCEPT ![c] = "open"]
  /\ timer' = IF timer = "nil" THEN "nil" ELSE "fired"
  /\ UNCHANGED <<count, done, served, signalled, watching, phase>>

\* The second half: the grace period is cancelled.  Stopping a timer that
\* has fired does not call its function back.
Connected(c) ==
  /\ phase # "stopped"
  /\ conn[c] = "accepted"
  /\ conn' = [conn EXCEPT ![c] = "open"]
  /\ timer' = "nil"
  /\ UNCHANGED <<count, done, served, signalled, watching, phase>>

FaultyClose(c) ==
  /\ phase # "stopped"
  /\ conn[c] = "open"
  /\ count' = count - 1
  /\ conn' = [conn EXCEPT ![c] = IF count' < 0 THEN "closing" ELSE "closed"]
  /\ served' = TRUE
  /\ UNCHANGED <<timer, done, signalled, watching, phase>>

UnguardedClose(c) ==
  /\ phase # "stopped"
  /\ conn[c] \in {"open", "closing"}
  /\ count' = count - 1
  /\ conn' = [conn EXCEPT ![c] = IF count' <= 0 THEN "closing" ELSE "closed"]
  /\ served' = TRUE
  /\ UNCHANGED <<timer, done, signalled, watching, phase>>

\* trackedConn.Close, once per connection, and the first half of
\* driverDisconnected, which ends here unless the count dropped to zero.
Close(c) ==
  /\ phase # "stopped"
  /\ conn[c] = "open"
  /\ count' = count - 1
  /\ conn' = [conn EXCEPT ![c] = IF count' <= 0 THEN "closing" ELSE "closed"]
  /\ served' = TRUE
  /\ UNCHANGED <<timer, done, signalled, watching, phase>>

MistypedDisconnected(c) ==
  /\ phase # "stopped"
  /\ conn[c] = "closing"
  /\ conn' = [conn EXCEPT ![c] = "closed"]
  /\ timer' = IF timer = "nil" THEN "running" ELSE timer
  /\ UNCHANGED <<count, done, served, signalled, watching, phase>>

\* The second half: the grace period starts, whatever the count is by now.
Disconnected(c) ==
  /\ phase # "stopped"
  /\ conn[c] = "closing"
  /\ conn' = [conn EXCEPT ![c] = "closed"]
  /\ timer' = IF timer = "nil" THEN "armed" ELSE timer
  /\ UNCHANGED <<count, done, served, signalled, watching, phase>>

GraceOver ==
  /\ phase # "stopped"
  /\ timer = "armed"
  /\ timer' = "fired"
  /\ done' = TRUE
  /\ UNCHANGED <<conn, count, served, signalled, watching, phase>>

-----------------------------------------------------------------------------
(***************************************************************************)
(* The process                                                             *)
(***************************************************************************)
\* initializeServer's handler cancels the bundle's context and returns; a
\* second signal finds no reader.  runDaemon waits for other channels.
Signal ==
  /\ phase # "stopped"
  /\ signalled' = TRUE
  /\ watching' = FALSE
  /\ UNCHANGED <<conn, tracker, served, phase>>

\* The grace period is over: the TCP server is shut down, then cleanup.
StopServing ==
  /\ phase = "serving"
  /\ done
  /\ phase' = "stopping"
  /\ watching' = FALSE
  /\ UNCHANGED <<conn, tracker, served, signalled>>

\* The deferred shutdown closes the listener, waits for the connections for
\* five seconds at most, and the process exits with those that are left.
Exit ==
  /\ phase = "stopping"
  /\ phase' = "stopped"
  /\ UNCHANGED <<conn, tracker, served, signalled, watching>>

Hook == \E c \in Conn : Connected(c) \/ Disconnected(c)
Proxy == \E c \in Conn : Accept(c) \/ Close(c)
Process == StopServing \/ Exit

LifeNext == Hook \/ Proxy \/ GraceOver \/ Signal \/ Process

\* A goroutine in a hook gets the mutex, timers fire, and runDaemon goes on
\* when it can.  Nothing obliges a proxy to connect or to leave.
LifeSpec ==
  /\ LifeInit
  /\ [][LifeNext]_lifeVars
  /\ \A c \in Conn : WF_lifeVars(Connected(c)) /\ WF_lifeVars(Disconnected(c))
  /\ WF_lifeVars(GraceOver)
  /\ WF_lifeVars(Process)

-----------------------------------------------------------------------------
(***************************************************************************)
(* Properties                                                              *)
(***************************************************************************)
Counted == {c \in Conn : conn[c] \in {"accepted", "open"}}

\* The count is the number of connections, in spite of hooks that overlap:
\* every one is counted once and discounted once, so it is never negative.
CountIsConnections == count = Cardinality(Counted)

\* A daemon that every driver has left, with no hook on its way, has a grace
\* period running or over: it is never left behind without an end.
AbandonedHasTimer ==
  served /\ (\A c \in Conn : conn[c] = "closed") => timer # "nil"

\* SETUP_GUIDE: "When the last Cursor window closes, the daemon waits for
\* the grace period then shuts down".
AbandonedStops ==
  <>[](served /\ \A c \in Conn : conn[c] = "closed") => <>(phase = "stopped")

\* QUICK_REFERENCE: "Stop daemon (...): kill $(cat daemon.pid)".
SignalStops == signalled ~> phase = "stopped"

=============================================================================
