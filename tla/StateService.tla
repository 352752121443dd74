---------------------------- MODULE StateService ----------------------------
(***************************************************************************)
(* CollabService.Run and Query (internal/app/service.go) over the SQLite   *)
(* store (internal/repository/sqlite/store.go), and the notifier           *)
(* (internal/app/notifier.go) that a successful Run wakes through the      *)
(* signal file (notify_signal.go).                                         *)
(*                                                                         *)
(* A load is one select after another without a transaction, a save        *)
(* replaces every table in one transaction.  The mutex belongs to one      *)
(* server process, the database and the signal file to all of them.        *)
(***************************************************************************)
EXTENDS StateDocument

CONSTANTS
    Server,     \* server processes that share one state file
    ServerOf    \* the server in which a caller runs

ASSUME ServerOfAssumption == ServerOf \in [Caller -> Server]

VARIABLES
    db,         \* the committed tables
    mu,         \* by server: the caller that holds CollabService.mu
    pc,         \* by caller: where it is in Run or Query
    local,      \* by caller: what it has read of the document
    signal,     \* the signal file, by its size: "empty" or "revision"
    last,       \* by server: lastPushedRev of the notifier
    scan,       \* by server: the cycle of checkAndPush, and the revision it read
    unchecked,  \* history, by server: a save that no check of the workers has seen
    lapsed      \* history, by server: since the last revision was written, a touch
                \* or a check has failed or a server has ended

service == <<db, mu, pc, local>>
notifier == <<signal, last, scan, unchecked, lapsed>>
vars == <<service, notifier>>

\* A revision counts only relative to the last one written to the signal file.
Revision == {"none", "old", "current"}

FaultyAged(rev) == rev

Aged(rev) == IF rev = "current" THEN "old" ELSE rev

Stage == {"idle", "tasks", "instances", "loaded", "saved", "raising", "raised"}

TypeOK ==
    /\ db \in Docs
    /\ mu \in [Server -> Caller \cup {None}]
    /\ pc \in [Caller -> Stage]
    /\ local \in [Caller -> Docs]
    /\ signal \in {"empty", "revision"}
    /\ last \in [Server -> Revision]
    /\ scan \in [Server -> [pc : {"idle", "read", "checked"}, rev : Revision]]
    /\ unchecked \in [Server -> BOOLEAN]
    /\ lapsed \in [Server -> BOOLEAN]

\* A file may hold a counter that is behind its tasks, and a revision from before.
Init ==
    /\ db \in Docs
    /\ mu = [s \in Server |-> None]
    /\ pc = [c \in Caller |-> "idle"]
    /\ local = [c \in Caller |-> Empty]
    /\ signal \in {"empty", "revision"}
    /\ last = [s \in Server |-> "none"]
    /\ scan = [s \in Server |-> [pc |-> "idle", rev |-> "none"]]
    /\ unchecked = [s \in Server |-> FALSE]
    /\ lapsed = [s \in Server |-> FALSE]

-----------------------------------------------------------------------------
\* Load.

Highest(S) == CHOOSE i \in S : \A j \in S : j <= i

\* The self-healing of the counter: past every id that is in use.
Healed(d) == [d EXCEPT !.next = Highest({@} \cup {i + 1 : i \in Present(d)})]

At(c, from, to) == pc[c] = from /\ pc' = [pc EXCEPT ![c] = to]

\* The select of the counters, by whom the mutex of the server lets in.
ReadCounters(c) ==
    /\ At(c, "idle", "tasks")
    /\ mu' = [mu EXCEPT ![ServerOf[c]] = c]
    /\ local' = [local EXCEPT ![c] = [Empty EXCEPT !.next = db.next]]
    /\ UNCHANGED <<db, notifier>>

Begin(c) == mu[ServerOf[c]] = None /\ ReadCounters(c)

ReadTasks(c) ==
    /\ At(c, "tasks", "instances")
    /\ local' = [local EXCEPT ![c] = Healed([@ EXCEPT !.tasks = db.tasks])]
    /\ UNCHANGED <<db, mu, notifier>>

ReadInstances(c) ==
    /\ At(c, "instances", "loaded")
    /\ local' = [local EXCEPT ![c].held = db.held]
    /\ UNCHANGED <<db, mu, notifier>>

Unlock(c) == mu' = [mu EXCEPT ![ServerOf[c]] = None]

\* A load or a transaction that fails, a function that refuses, or a Query.
Abandon(c) ==
    /\ pc[c] \in {"tasks", "instances", "loaded"}
    /\ pc' = [pc EXCEPT ![c] = "idle"]
    /\ local' = [local EXCEPT ![c] = Empty]
    /\ Unlock(c)
    /\ UNCHANGED <<db, notifier>>

\* The function changes the copy and the transaction commits it.
Save(c) ==
    /\ At(c, "loaded", "saved")
    /\ db' \in Effects(local[c], c)
    /\ local' = [local EXCEPT ![c] = Empty]
    /\ unchecked' = [s \in Server |-> TRUE]
    /\ UNCHANGED <<mu, signal, last, scan, lapsed>>

-----------------------------------------------------------------------------
\* TouchNotifySignal and Trigger.

\* os.WriteFile empties the file before it writes.
Truncate(c) ==
    /\ At(c, "saved", "raising")
    /\ signal' = "empty"
    /\ UNCHANGED <<db, mu, local, last, scan, unchecked, lapsed>>

WriteRevision(c) ==
    /\ At(c, "raising", "raised")
    /\ signal' = "revision"
    /\ last' = [s \in Server |-> Aged(last[s])]
    /\ scan' = [s \in Server |-> [scan[s] EXCEPT !.rev = Aged(@)]]
    /\ lapsed' = [s \in Server |-> FALSE]
    /\ UNCHANGED <<db, mu, local, unchecked>>

\* Run ignores the error.
TouchFails(c) ==
    /\ pc[c] \in {"saved", "raising"}
    /\ pc' = [pc EXCEPT ![c] = "raised"]
    /\ lapsed' = [s \in Server |-> TRUE]
    /\ UNCHANGED <<db, mu, local, signal, last, scan, unchecked>>

\* The notifier of its server forgets what it pushed, and Run returns.
Trigger(c) ==
    /\ At(c, "raised", "idle")
    /\ last' = [last EXCEPT ![ServerOf[c]] = "none"]
    /\ Unlock(c)
    /\ UNCHANGED <<db, local, signal, scan, unchecked, lapsed>>

-----------------------------------------------------------------------------
\* checkAndPush, which pushMu serializes: a poll, or the debounced timer after
\* an event of the file or a trigger.

InScan(s, from, to) == scan[s].pc = from /\ scan' = [scan EXCEPT ![s].pc = to]

\* Reading an empty file is no start.
ScanStart(s) ==
    /\ signal = "revision"
    /\ scan[s].pc = "idle"
    /\ scan' = [scan EXCEPT ![s] = [pc |-> "read", rev |-> "current"]]
    /\ UNCHANGED <<service, signal, last, unchecked, lapsed>>

\* Two old revisions may be the same one or not.
MayMatch(s) == scan[s].rev = last[s]
MayDiffer(s) == scan[s].rev # last[s] \/ last[s] = "old"

ScanSkips(s) ==
    /\ MayMatch(s)
    /\ InScan(s, "read", "idle")
    /\ UNCHANGED <<service, signal, last, unchecked, lapsed>>

\* WorkerManager.Check loads the state.
ScanChecks(s) ==
    /\ MayDiffer(s)
    /\ InScan(s, "read", "checked")
    /\ unchecked' = [unchecked EXCEPT ![s] = FALSE]
    /\ UNCHANGED <<service, signal, last, lapsed>>

\* The load fails, or the server's endpoint does not answer yet.
CheckFails(s) ==
    /\ MayDiffer(s)
    /\ InScan(s, "read", "checked")
    /\ lapsed' = [lapsed EXCEPT ![s] = TRUE]
    /\ UNCHANGED <<service, signal, last, unchecked>>

FaultyScanPushes(s) ==
    /\ InScan(s, "checked", "idle")
    /\ last' = [last EXCEPT ![s] = "current"]
    /\ UNCHANGED <<service, signal, unchecked, lapsed>>

\* There is nobody to push to, nothing to push, or the push succeeds.
ScanPushes(s) ==
    /\ InScan(s, "checked", "idle")
    /\ last' = [last EXCEPT ![s] = scan[s].rev]
    /\ UNCHANGED <<service, signal, unchecked, lapsed>>

PushFails(s) ==
    /\ InScan(s, "checked", "idle")
    /\ UNCHANGED <<service, signal, last, unchecked, lapsed>>

-----------------------------------------------------------------------------
\* A server crashes or stops and another takes its place, with an empty memory.
Restart(s) ==
    /\ mu' = [mu EXCEPT ![s] = None]
    /\ pc' = [c \in Caller |-> IF ServerOf[c] = s THEN "idle" ELSE pc[c]]
    /\ local' = [c \in Caller |-> IF ServerOf[c] = s THEN Empty ELSE local[c]]
    /\ last' = [last EXCEPT ![s] = "none"]
    /\ scan' = [scan EXCEPT ![s] = [pc |-> "idle", rev |-> "none"]]
    /\ lapsed' = [t \in Server |-> TRUE]
    /\ UNCHANGED <<db, signal, unchecked>>

Signalling(c) == Truncate(c) \/ WriteRevision(c) \/ TouchFails(c) \/ Trigger(c)

CallerStep(c) ==
    \/ Begin(c)
    \/ ReadTasks(c)
    \/ ReadInstances(c)
    \/ Abandon(c)
    \/ Save(c)
    \/ Signalling(c)

Scanning(s) == ScanSkips(s) \/ ScanChecks(s) \/ CheckFails(s) \/ ScanPushes(s) \/ PushFails(s)

Next ==
    \/ \E c \in Caller : CallerStep(c)
    \/ \E s \in Server : ScanStart(s) \/ Scanning(s) \/ Restart(s)

Spec == Init /\ [][Next]_vars

\* Whoever has saved goes on to signal; a cycle that began goes on.  Cycles start
\* again and again, by the poll at the latest: strong fairness, since the file is
\* empty only between the two halves of a write.
Fairness ==
    /\ \A c \in Caller : WF_vars(Signalling(c))
    /\ \A s \in Server : SF_vars(ScanStart(s)) /\ WF_vars(Scanning(s))

FairSpec == Spec /\ Fairness

-----------------------------------------------------------------------------
(***************************************************************************)
(* Properties                                                              *)
(***************************************************************************)

Serial == INSTANCE SerialState WITH doc <- Healed(db)

\* One server's callers see and change one document, each from its latest
\* version, though loads are torn, callers overlap, transactions fail and the
\* server crashes; the self-healing keeps an id from being given twice.
ImplementsSerial == Serial!Spec

\* Every save is followed by a check for workers to start that has read it, unless
\* a touch or a check failed or a server ended since the last revision; the next
\* save that raises the signal makes up for these.
ChangeIsChecked == \A s \in Server : unchecked[s] ~> (~unchecked[s] \/ lapsed[s])

\* A save that no check has read keeps its signal: somebody is about to raise it, or
\* a revision is there which no cycle of the server, past or in flight, has taken for
\* pushed, so that the next cycle checks; with the exceptions of ChangeIsChecked.
SaveIsAwaited ==
    \A s \in Server :
        unchecked[s] /\ ~lapsed[s] =>
            \/ \E c \in Caller : pc[c] \in {"saved", "raising"}
            \/ /\ signal = "revision"
               /\ last[s] # "current"
               /\ scan[s].pc = "checked" => scan[s].rev # "current"

\* All servers share the state file, so that a task that one of them has saved
\* is visible to all: it stays, as its creator made it, until everything is reset.
SavedTasksStay ==
    [][\A i \in Present(db) : db'.tasks[i] = db.tasks[i] \/ Present(db') = {}]_db

=============================================================================
