---------------------------- MODULE DaemonStart ----------------------------
(***************************************************************************)
(* How Cursor windows come to share one daemon, and how one daemon follows *)
(* another.  A window starts the binary, which looks for a daemon on the   *)
(* unix socket, starts one under a lock file if there is none, and relays  *)
(* stdio to it, or serves on its own when no daemon comes up in time.      *)
(* Socket, PID file and lock file are paths anyone may remove: a daemon on *)
(* its way out, one on its way in, a starter, a crash that removes none.   *)
(*                                                                         *)
(* Every system call is a step.  The count of connections and the grace    *)
(* period in detail are the module Daemon's; here a daemon may end once a  *)
(* connection has been made (probes count), and has to when none is left.  *)
(* Daemon mode is enabled.                                                 *)
(***************************************************************************)
EXTENDS FiniteSets

CONSTANTS
  Window,  \* Cursor windows, each with its process of the binary
  Pid,     \* processes that run as daemons; an ended one may run again
  None

ASSUME NoneAssumption == None \notin Window \cup Pid /\ Window \cap Pid = {}

VARIABLES
  win,        \* where a window's process is
  link,       \* the daemon a relaying window is connected to, or None
  proc,       \* where a daemon is
  met,        \* daemons that have accepted a connection
  socket,     \* whose socket file it is, or None when there is no file
  pidFile,    \* the PID in the PID file, or None
  lockFile,   \* the start lock exists
  holder,     \* the window that will remove the lock, or None
  gaveUp,     \* history: a window stopped waiting for a daemon
  overtaken   \* history: the successor's files that a daemon removed at its end

files == <<socket, pidFile>>
lock == <<lockFile, holder>>
vars == <<win, link, proc, met, files, lock, gaveUp, overtaken>>

Accepting == {"serving", "tcpDown", "cleaned"}
Watching == {"starting", "named", "cleared", "bound", "serving", "tcpDown"}

TypeOK ==
  /\ win \in [Window -> {"closed", "probe", "lock", "recheck", "check", "clean",
                         "exec", "wait", "alone", "relay"}]
  /\ link \in [Window -> Pid \cup {None}]
  /\ proc \in [Pid -> Watching \cup Accepting \cup {"dead", "unlistened", "unlinked"}]
  /\ met \subseteq Pid
  /\ socket \in Pid \cup {None}
  /\ pidFile \in Pid \cup {None}
  /\ lockFile \in BOOLEAN
  /\ holder \in Window \cup {None}
  /\ gaveUp \in BOOLEAN
  /\ overtaken \subseteq {"socket", "pidFile"}

Init ==
  /\ win = [w \in Window |-> "closed"]
  /\ link = [w \in Window |-> None]
  /\ proc = [d \in Pid |-> "dead"]
  /\ met = {}
  /\ socket = None
  /\ pidFile = None
  /\ lockFile = FALSE
  /\ holder = None
  /\ gaveUp = FALSE
  /\ overtaken = {}

-----------------------------------------------------------------------------
(***************************************************************************)
(* The window's process, from main() to the relay                          *)
(***************************************************************************)
Goes(w, from, to) == win[w] = from /\ win' = [win EXCEPT ![w] = to]

\* isDaemonRunning: the connection it makes and closes is one of a driver.
Reachable == socket # None /\ proc[socket] \in Accepting
Visited == met' = met \cup {socket}

\* releaseDaemonLock, deferred by whoever created the file.
Released(w) ==
  /\ lockFile' = IF holder = w THEN FALSE ELSE lockFile
  /\ holder' = IF holder = w THEN None ELSE holder

Open(w) ==
  /\ Goes(w, "closed", "probe")
  /\ UNCHANGED <<link, proc, met, files, lock, gaveUp, overtaken>>

Probe(w) ==
  /\ \/ Reachable /\ Goes(w, "probe", "relay") /\ Visited
     \/ ~Reachable /\ Goes(w, "probe", "lock") /\ UNCHANGED met
  /\ UNCHANGED <<link, proc, files, lock, gaveUp, overtaken>>

\* A window that finds the lock waits for the daemon of the one that has it.
FaultyAcquireLock(w) ==
  /\ ~lockFile /\ Goes(w, "lock", "recheck") /\ lockFile' = TRUE /\ holder' = w
  /\ UNCHANGED <<link, proc, met, files, gaveUp, overtaken>>

AcquireLock(w) ==
  /\ \/ ~lockFile /\ Goes(w, "lock", "recheck") /\ lockFile' = TRUE /\ holder' = w
     \/ lockFile /\ Goes(w, "lock", "wait") /\ UNCHANGED lock
  /\ UNCHANGED <<link, proc, met, files, gaveUp, overtaken>>

FaultyRecheck(w) ==
  /\ Goes(w, "recheck", "check")
  /\ UNCHANGED <<link, proc, met, files, lock, gaveUp, overtaken>>

Recheck(w) ==
  /\ \/ Reachable /\ Goes(w, "recheck", "relay") /\ Visited /\ Released(w)
     \/ ~Reachable /\ Goes(w, "recheck", "check") /\ UNCHANGED <<met, lock>>
  /\ UNCHANGED <<link, proc, files, gaveUp, overtaken>>

\* The PID of an ended daemon may meanwhile be some other process's, which
\* then counts as a live daemon; what is left behind stays for the daemon.
CheckPid(w) ==
  /\ \/ Goes(w, "check", "exec")
     \/ pidFile # None /\ proc[pidFile] = "dead" /\ Goes(w, "check", "clean")
  /\ UNCHANGED <<link, proc, met, files, lock, gaveUp, overtaken>>

Clean(w) ==
  /\ Goes(w, "clean", "exec")
  /\ pidFile' = None
  /\ socket' = None
  /\ UNCHANGED <<link, proc, met, lock, gaveUp, overtaken>>

FaultyExec(w) ==
  /\ Goes(w, "exec", "wait")
  /\ \E d \in Pid : /\ proc[d] = "dead"
                    /\ proc' = [proc EXCEPT ![d] = "starting"]
                    /\ met' = met \ {d}
  /\ Released(w)
  /\ UNCHANGED <<link, files, gaveUp, overtaken>>

Exec(w) ==
  /\ Goes(w, "exec", "wait")
  /\ \E d \in Pid : /\ proc[d] = "dead"
                    /\ proc' = [proc EXCEPT ![d] = "starting"]
                    /\ met' = met \ {d}
  /\ UNCHANGED <<link, files, lock, gaveUp, overtaken>>

\* runStandalone, for a window without a daemon.  A configured TCP port that
\* is taken, by whatever program, ends the process.
GivesUp(w, from) ==
  /\ Goes(w, from, "alone") \/ Goes(w, from, "closed")
  /\ Released(w)
  /\ gaveUp' = TRUE
  /\ UNCHANGED <<link, proc, met, files, overtaken>>

ExecFails(w) == GivesUp(w, "exec")

\* Ten seconds are over; the daemon may have come up since the last probe.
TimeOut(w) == GivesUp(w, "wait")

WaitSucceeds(w) ==
  /\ Reachable
  /\ Goes(w, "wait", "relay")
  /\ Visited
  /\ Released(w)
  /\ UNCHANGED <<link, proc, files, gaveUp, overtaken>>

\* The first message, and the first after the daemon went away, dial the
\* socket; without a daemon there the process exits with an error.
Forward(w) ==
  /\ link[w] = None
  /\ \/ /\ Reachable
        /\ Goes(w, "relay", "relay")
        /\ link' = [link EXCEPT ![w] = socket]
        /\ Visited
     \/ ~Reachable /\ Goes(w, "relay", "closed") /\ UNCHANGED <<link, met>>
  /\ UNCHANGED <<proc, files, lock, gaveUp, overtaken>>

FaultyLeave(w) ==
  /\ Goes(w, "relay", "closed")
  /\ UNCHANGED <<link, proc, met, files, lock, gaveUp, overtaken>>

\* Stdin is closed.  The DELETE of the session may dial another daemon.
Leave(w) ==
  /\ Goes(w, "relay", "closed")
  /\ link' = [link EXCEPT ![w] = None]
  /\ \/ UNCHANGED met
     \/ link[w] = None /\ Reachable /\ Visited
  /\ UNCHANGED <<proc, files, lock, gaveUp, overtaken>>

\* Before the relay the process does not look at stdin and has no signal
\* handler: it is killed, and a lock it created stays behind.
Kill(w) ==
  /\ win[w] \notin {"closed", "relay"}
  /\ Goes(w, win[w], "closed")
  /\ holder' = IF holder = w THEN None ELSE holder
  /\ UNCHANGED <<link, proc, met, files, lockFile, gaveUp, overtaken>>

-----------------------------------------------------------------------------
(***************************************************************************)
(* The daemon, runDaemon                                                   *)
(***************************************************************************)
Moves(d, from, to) == proc[d] = from /\ proc' = [proc EXCEPT ![d] = to]

\* initializeServer has started watchdog and notifier.
WritePid(d) ==
  /\ Moves(d, "starting", "named")
  /\ pidFile' = d
  /\ UNCHANGED <<win, link, met, socket, lock, gaveUp, overtaken>>

\* removeStaleSocket removes any socket, a live daemon's as well.
ClearSocket(d) ==
  /\ Moves(d, "named", "cleared")
  /\ socket' = None
  /\ UNCHANGED <<win, link, met, pidFile, lock, gaveUp, overtaken>>

\* A configured TCP port that is taken ends the process: logger.Fatalf exits
\* without the deferred calls, and the files stay.
BindPort(d) ==
  /\ Moves(d, "cleared", "bound") \/ Moves(d, "cleared", "dead")
  /\ UNCHANGED <<win, link, met, files, lock, gaveUp, overtaken>>

MistypedListen(d) ==
  /\ Moves(d, "bound", "listening")
  /\ socket = None
  /\ socket' = d
  /\ UNCHANGED <<win, link, met, pidFile, lock, gaveUp, overtaken>>

Listen(d) ==
  /\ \/ socket = None /\ Moves(d, "bound", "serving") /\ socket' = d
     \/ socket # None /\ Moves(d, "bound", "dead") /\ UNCHANGED socket
  /\ UNCHANGED <<win, link, met, pidFile, lock, gaveUp, overtaken>>

\* The grace period ends, and httpShutdown closes the TCP listener.  It may
\* have started after a window came, if the last one left at that moment.
Expire(d) ==
  /\ d \in met
  /\ Moves(d, "serving", "tcpDown")
  /\ UNCHANGED <<win, link, met, files, lock, gaveUp, overtaken>>

\* bundle.cleanup stops watchdog and notifier; the socket still accepts.
Cleanup(d) ==
  /\ Moves(d, "tcpDown", "cleaned")
  /\ UNCHANGED <<win, link, met, files, lock, gaveUp, overtaken>>

Cut(d) == link' = [w \in Window |-> IF link[w] = d THEN None ELSE link[w]]

\* unixServer.Shutdown: closing the listener unlinks its path, whoever's
\* socket is there, and then connections are waited for, up to five seconds.
CloseListener(d) ==
  /\ Moves(d, "cleaned", "unlistened")
  /\ socket' = None
  /\ Cut(d)
  /\ UNCHANGED <<win, met, pidFile, lock, gaveUp, overtaken>>

\* The os.Remove after it, by when a successor may listen.
RemoveSocket(d) ==
  /\ Moves(d, "unlistened", "unlinked")
  /\ socket' = None
  /\ overtaken' = overtaken \cup {f \in {"socket"} : socket # None}
  /\ UNCHANGED <<win, link, met, pidFile, lock, gaveUp>>

RemovePid(d) ==
  /\ Moves(d, "unlinked", "dead")
  /\ pidFile' = None
  /\ overtaken' = overtaken \cup {f \in {"pidFile"} : pidFile \notin {None, d}}
  /\ UNCHANGED <<win, link, met, socket, lock, gaveUp>>

Crash(d) ==
  /\ proc[d] # "dead"
  /\ Moves(d, proc[d], "dead")
  /\ Cut(d)
  /\ UNCHANGED <<win, met, files, lock, gaveUp, overtaken>>

-----------------------------------------------------------------------------
Start(w) ==
  \/ Probe(w) \/ AcquireLock(w) \/ Recheck(w) \/ CheckPid(w) \/ Clean(w)
  \/ Exec(w) \/ ExecFails(w) \/ WaitSucceeds(w) \/ TimeOut(w)
Use(w) == Open(w) \/ Forward(w) \/ Leave(w) \/ Kill(w)

Begin(d) == WritePid(d) \/ ClearSocket(d) \/ BindPort(d) \/ Listen(d)
End(d) == Cleanup(d) \/ CloseListener(d) \/ RemoveSocket(d) \/ RemovePid(d)

\* Only a daemon that no window is connected to has to expire.
Idle(d) == \A w \in Window : link[w] # d

Next ==
  \/ \E w \in Window : Start(w) \/ Use(w)
  \/ \E d \in Pid : Begin(d) \/ Expire(d) \/ End(d) \/ Crash(d)

Spec == Init /\ [][Next]_vars

\* Processes go on; nobody has to open a window, to speak or to leave.
FairSpec ==
  /\ Spec
  /\ \A w \in Window : WF_vars(Start(w))
  /\ WF_vars(\E d \in Pid : Begin(d) \/ (Idle(d) /\ Expire(d)) \/ End(d))

-----------------------------------------------------------------------------
(***************************************************************************)
(* Properties                                                              *)
(***************************************************************************)
\* SETUP_GUIDE: "Workers, notifier, and watchdog run once in the daemon (no
\* duplicates)".  There are two ways to a second server and no other: a
\* window that gave up waiting (its daemon may still come up, and it serves
\* on its own), and a daemon that removes its successor's socket at its end.
NoDuplicates ==
  ~gaveUp /\ "socket" \notin overtaken =>
    /\ \A d, e \in Pid : proc[d] \in Watching /\ proc[e] \in Watching => d = e
    /\ \A w \in Window : win[w] # "alone"

\* QUICK_REFERENCE stops the daemon by its PID file, and windows find it by
\* its socket: a serving daemon keeps both, through crashes, stale files,
\* starters that clean up, and the end of its predecessor, but for the same
\* two ways.
FilesAreOwn ==
  \A d \in Pid : proc[d] = "serving" /\ ~gaveUp /\ "socket" \notin overtaken =>
    /\ socket = d
    /\ pidFile \in {d} \cup {p \in {None} : "pidFile" \in overtaken}

\* Windows are served, by a daemon or on their own, or their processes
\* exit: once no more are opened, no lock that a killed starter left behind,
\* and no start that fails, keeps any of them waiting.
WindowsAreServed ==
  <>[][\A w \in Window : ~Open(w)]_vars =>
    <>[](\A w \in Window : win[w] \in {"relay", "alone", "closed"})

\* SETUP_GUIDE: "When the last Cursor window closes, the daemon waits for
\* the grace period then shuts down", even one that windows can no longer
\* find; except a daemon nobody ever connected to.
DaemonsEnd ==
  <>[](\A w \in Window : win[w] = "closed") =>
    <>[](\A d \in met : proc[d] = "dead")

=============================================================================
