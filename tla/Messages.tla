------------------------------ MODULE Messages ------------------------------
(***************************************************************************)
(* The messages agents and the server leave for each other in the shared   *)
(* state: sending with retention, reading with the shared read flag, and   *)
(* the progress alerts of the watchdog, which keeps in memory what it has  *)
(* already said about which task.  Each operation is one CollabService.Run *)
(* and a single step; the save of a watchdog's check may fail.             *)
(*                                                                         *)
(* A message is its addressee, its flag, and whether it is older than      *)
(* message_retention_days; its id and LastCheckedMsgID, which nothing      *)
(* reads, are left out.  A task is in progress or not, and time is how     *)
(* long ago it was last heard of.                                          *)
(***************************************************************************)
EXTENDS Naturals, Sequences, FiniteSets

CONSTANTS
  Agent,
  Driver,
  Task,      \* task ids, given out anew after a reset
  MaxCount,  \* message_retention_max, 0 for no limit
  Target,    \* bound: whom the messages that are not the watchdog's are for
  Limits,    \* bound: the limits read_messages is called with
  MaxBox,    \* bound: messages in the state
  MaxLost    \* bound: times the watchdog loses what it said of one task in progress

ASSUME AgentsAssumption == Driver \in Agent /\ "all" \notin Agent
ASSUME BoundsAssumption ==
  /\ IsFiniteSet(Task)
  /\ Target \subseteq Agent \cup {"all"}
  /\ MaxBox \in Nat /\ MaxCount \in 0..MaxBox
  /\ MaxLost \in Nat
  /\ Limits \subseteq Nat \ {0}

VARIABLES
  box,        \* state.Messages
  tasks,      \* the ids in state.Tasks
  working,    \* those in progress
  quiet,      \* the last activity is 0 recent, 1 past the warning threshold,
              \* 2 past the critical one
  progressed, \* tasks with a LastProgressAt
  late,       \* tasks updated longer ago than their expected duration
  alerted,    \* Watchdog.alertedTasks
  posted,     \* history: the alerts of a task since its start, by level
  lost,       \* history: how often its entry was lost since then
  told,       \* history: tasks with a grave alert since they were last active
  muted       \* history: tasks whose entry in alertedTasks is for something
              \* else than the present silence

board == <<tasks, working>>
clock == <<quiet, progressed, late>>
said == <<posted, lost, told, muted>>
vars == <<box, board, clock, alerted, said>>

Level == {"warning", "critical", "sla_exceeded"}
Grave == {"critical", "sla_exceeded"}
Message == [to : Agent \cup {"all"}, read : BOOLEAN, old : BOOLEAN, shown : SUBSET Agent]
Unsaid == [l \in Level |-> 0]

TypeOK ==
  /\ box \in Seq(Message) /\ Len(box) <= MaxBox
  /\ tasks \subseteq Task
  /\ working \subseteq tasks
  /\ quiet \in [Task -> 0..2]
  /\ progressed \subseteq Task
  /\ late \subseteq Task
  /\ alerted \in [Task -> Level \cup {""}]
  /\ posted \in [Task -> [Level -> Nat]]
  /\ lost \in [Task -> 0..MaxLost]
  /\ told \subseteq Task
  /\ muted \subseteq Task

Init ==
  /\ box = <<>>
  /\ tasks = {}
  /\ working = {}
  /\ quiet = [t \in Task |-> 0]
  /\ progressed = {}
  /\ late = {}
  /\ alerted = [t \in Task |-> ""]
  /\ posted = [t \in Task |-> Unsaid]
  /\ lost = [t \in Task |-> 0]
  /\ told = {}
  /\ muted = {}

-----------------------------------------------------------------------------
(***************************************************************************)
(* Sending and reading                                                     *)
(***************************************************************************)
New(a) == [to |-> a, read |-> FALSE, old |-> FALSE, shown |-> {}]

\* The messages of ms that are not too old, in their order.
Young(ms) ==
  LET kept == {i \in 1..Len(ms) : ~ms[i].old}
  IN [n \in 1..Cardinality(kept) |->
        ms[CHOOSE i \in kept : Cardinality(kept \cap (1..i)) = n]]

FaultyKept(ms) ==
  LET young == Young(ms)
  IN IF MaxCount > 0 /\ Len(young) > MaxCount THEN SubSeq(young, 1, MaxCount) ELSE young

\* PruneMessages: what is too old goes, then the excess at the front.
Kept(ms) ==
  LET young == Young(ms)
  IN IF MaxCount > 0 /\ Len(young) > MaxCount
     THEN SubSeq(young, Len(young) - MaxCount + 1, Len(young))
     ELSE young

\* send_message, the only operation that prunes.
Send(a) ==
  /\ UNCHANGED <<board, clock, alerted, said>>
  /\ box' = Kept(Append(box, New(a)))
  /\ Len(box') <= MaxBox

\* handoff, cancel_agent, the worker manager and the driver's welcome.  They
\* leave the watchdog room in the model's box.
MistypedPost(a) ==
  /\ Len(box) + Cardinality(Task) < MaxBox
  /\ box' = Append(box, [to |-> a, read |-> FALSE])
  /\ UNCHANGED <<board, clock, alerted, said>>

Post(a) ==
  /\ Len(box) + Cardinality(Task) < MaxBox
  /\ box' = Append(box, New(a))
  /\ UNCHANGED <<board, clock, alerted, said>>

For(m, a) == m.to \in {a, "all"}

\* The newest messages for a, as many as the limit allows.
Returned(a, unreadOnly, limit) ==
  LET fits == {i \in 1..Len(box) : For(box[i], a) /\ (unreadOnly => ~box[i].read)}
  IN {i \in fits : Cardinality({j \in fits : j > i}) < limit}

\* The history keeps whom a message was shown when it was marked.
Given(m, as) == [m EXCEPT !.read = TRUE, !.shown = IF m.read THEN @ ELSE as]

\* read_messages with mark_read; without it nothing changes.
FaultyRead(a, unreadOnly, limit) ==
  /\ Returned(a, unreadOnly, limit) # {}
  /\ box' = [i \in 1..Len(box) |->
               IF For(box[i], a)
               THEN Given(box[i], IF i \in Returned(a, unreadOnly, limit) THEN {a} ELSE {})
               ELSE box[i]]
  /\ UNCHANGED <<board, clock, alerted, said>>

Read(a, unreadOnly, limit) ==
  /\ Returned(a, unreadOnly, limit) # {}
  /\ box' = [i \in 1..Len(box) |->
               IF i \in Returned(a, unreadOnly, limit)
               THEN Given(box[i], {a})
               ELSE box[i]]
  /\ UNCHANGED <<board, clock, alerted, said>>

\* The first message that is not old becomes old.
GrowOld ==
  \E i \in 1..Len(box) :
    /\ ~box[i].old
    /\ \A j \in 1..(i - 1) : box[j].old
    /\ box' = [box EXCEPT ![i].old = TRUE]
    /\ UNCHANGED <<board, clock, alerted, said>>

-----------------------------------------------------------------------------
(***************************************************************************)
(* Tasks                                                                   *)
(***************************************************************************)
\* A silence of ts ends; what alertedTasks says of them is from before.
Heard(ts) ==
  /\ told' = told \ ts
  /\ muted' = muted \cup {t \in ts : alerted[t] \in Grave}

\* The alerts of ts are counted anew.
Ended(ts) ==
  /\ posted' = [t \in Task |-> IF t \in ts THEN Unsaid ELSE posted[t]]
  /\ lost' = [t \in Task |-> IF t \in ts THEN 0 ELSE lost[t]]

\* create_task and request_review: the task is open.
Create(t) ==
  /\ t \notin tasks
  /\ tasks' = tasks \cup {t}
  /\ UNCHANGED <<box, working, clock, alerted, said>>

\* The task comes to be in progress.  A report of an earlier attempt stays its
\* last progress, however long ago that was.
Start(t) ==
  /\ t \in tasks \ working
  /\ working' = working \cup {t}
  /\ quiet' = [quiet EXCEPT ![t] = IF t \in progressed THEN @ ELSE 0]
  /\ late' = late \ {t}
  /\ told' = told \ {t}
  /\ UNCHANGED <<box, tasks, progressed, alerted, posted, lost, muted>>

\* It is completed, cancelled, or open again.
Leave(t) ==
  /\ t \in working
  /\ working' = working \ {t}
  /\ late' = late \ {t}
  /\ Ended({t})
  /\ Heard({t})
  /\ UNCHANGED <<box, tasks, quiet, progressed, alerted>>

\* report_progress.  UpdatedAt stays.
Report(t) ==
  /\ t \in working
  /\ quiet' = [quiet EXCEPT ![t] = 0]
  /\ progressed' = progressed \cup {t}
  /\ Heard({t})
  /\ UNCHANGED <<box, board, late, alerted, posted, lost>>

\* update_task sets UpdatedAt, the last activity of a task without a report.
Update(t) ==
  /\ t \in working
  /\ late' = late \ {t}
  /\ IF t \in progressed
     THEN UNCHANGED <<quiet, told, muted>>
     ELSE quiet' = [quiet EXCEPT ![t] = 0] /\ Heard({t})
  /\ UNCHANGED <<box, board, progressed, alerted, posted, lost>>

\* Time passes.
Silence(t) ==
  /\ t \in working \cup progressed
  /\ quiet[t] < 2
  /\ quiet' = [quiet EXCEPT ![t] = @ + 1]
  /\ UNCHANGED <<box, board, progressed, late, alerted, said>>

Overrun(t) ==
  /\ t \in working \ late
  /\ late' = late \cup {t}
  /\ UNCHANGED <<box, board, quiet, progressed, alerted, said>>

\* The dashboard's reset and its switch to another project: no task is left,
\* their ids are given out again, and the watchdog is not told.
Reset ==
  /\ box' = <<>>
  /\ tasks' = {}
  /\ working' = {}
  /\ quiet' = [t \in Task |-> 0]
  /\ progressed' = {}
  /\ late' = {}
  /\ Ended(Task)
  /\ Heard(working)
  /\ UNCHANGED alerted

-----------------------------------------------------------------------------
(***************************************************************************)
(* The watchdog                                                            *)
(***************************************************************************)
\* The alert a check has for a task in progress, "" for none.
FaultyAlert(t) ==
  CASE t \in late /\ alerted[t] # "sla_exceeded"  -> "sla_exceeded"
    [] quiet[t] = 2 /\ alerted[t] # "critical"    -> "critical"
    [] quiet[t] > 0 /\ alerted[t] = ""            -> "warning"
    [] OTHER                                      -> ""

Alert(t) ==
  IF t \in late /\ alerted[t] # "sla_exceeded" THEN "sla_exceeded"
  ELSE IF quiet[t] = 2 /\ alerted[t] \notin Grave THEN "critical"
  ELSE IF quiet[t] > 0 /\ alerted[t] = "" THEN "warning"
  ELSE ""

\* alertedTasks after a check that recovers the tasks in stuck: the check goes
\* through the tasks there are, so an id that is not in use keeps its entry.
FaultyRemembered(stuck) ==
  [t \in Task |-> IF Alert(t) = "" THEN alerted[t] ELSE Alert(t)]

Remembered(stuck) ==
  [t \in Task |-> IF t \in working \ stuck /\ Alert(t) # "" THEN Alert(t)
                  ELSE IF t \in tasks \ (working \ stuck) THEN ""
                  ELSE alerted[t]]

\* Tasks whose worker is dead are opened again, every other task in progress
\* gets its alert, and the driver a message for each and one for what was
\* recovered.
Check(stuck) ==
  LET live  == working \ stuck
      news  == {t \in live : Alert(t) # ""}
      count == Cardinality(news) + (IF stuck = {} THEN 0 ELSE 1)
  IN /\ stuck \subseteq working
     /\ Len(box) + count <= MaxBox
     /\ box' = box \o [i \in 1..count |-> New(Driver)]
     /\ working' = live
     /\ late' = late \ stuck
     /\ alerted' = Remembered(stuck)
     /\ posted' = [t \in Task |->
                     IF t \in stuck THEN Unsaid
                     ELSE IF t \in news THEN [posted[t] EXCEPT ![Alert(t)] = @ + 1]
                     ELSE posted[t]]
     /\ lost' = [t \in Task |-> IF t \in stuck THEN 0 ELSE lost[t]]
     /\ told' = (told \ stuck) \cup {t \in news : Alert(t) \in Grave}
     /\ muted' = muted \ (tasks \ live)
     /\ UNCHANGED <<tasks, quiet, progressed>>

\* The entries of tasks in progress are lost.
Forgotten(ts) ==
  LET gone == {t \in ts : alerted[t] # ""}
  IN /\ \A t \in gone : lost[t] < MaxLost
     /\ lost' = [t \in Task |-> IF t \in gone THEN lost[t] + 1 ELSE lost[t]]

\* The same check when the state cannot be saved: what it remembers stays, and
\* it has forgotten tasks that are in progress after all.
CheckLost(stuck) ==
  LET live == working \ stuck
  IN /\ stuck \subseteq working
     /\ alerted' = Remembered(stuck)
     /\ Forgotten(stuck)
     /\ muted' = (muted \ (tasks \ live)) \cup {t \in live : Alert(t) \in Grave}
     /\ UNCHANGED <<box, board, clock, posted, told>>

\* The server ends and another starts: nothing is remembered.
Restart ==
  /\ alerted' = [t \in Task |-> ""]
  /\ Forgotten(working)
  /\ muted' = {}
  /\ UNCHANGED <<box, board, clock, posted, told>>

Mail ==
  \/ \E a \in Target : Send(a) \/ Post(a)
  \/ \E a \in Agent, unreadOnly \in BOOLEAN, limit \in Limits : Read(a, unreadOnly, limit)
  \/ GrowOld

Work ==
  \E t \in Task :
    Create(t) \/ Start(t) \/ Leave(t) \/ Report(t) \/ Update(t) \/ Silence(t) \/ Overrun(t)

Next ==
  \/ Mail
  \/ Work
  \/ Reset
  \/ \E stuck \in SUBSET Task : Check(stuck) \/ CheckLost(stuck)
  \/ Restart

Spec == Init /\ [][Next]_vars

\* The watchdog's ticker goes on, not every save fails, and not every check
\* finds a dead worker.  Strong, since only the bound on the box holds a check
\* up.
FairSpec == Spec /\ SF_vars(Check({}))

-----------------------------------------------------------------------------
(***************************************************************************)
(* Properties                                                              *)
(***************************************************************************)
\* A message is never out of an agent's sight, in its unread messages and its
\* banner, before somebody it is for was given it: the limit, the order and
\* the flag all addressees of "all" share take nothing away unread.
ReadWasShown ==
  \A i \in 1..Len(box) :
    box[i].read => \E a \in box[i].shown : For(box[i], a)

\* However messages grew old and were added without pruning, retention takes
\* the oldest only, none that is young from a box that has room, and never the
\* message being sent.
RetentionTakesOldest ==
  [][\A a \in Agent \cup {"all"} : Send(a) =>
       \E k \in 0..Len(box) :
         /\ box' = Append(SubSeq(box, k + 1, Len(box)), New(a))
         /\ k = 0 \/ box[k].old \/ Len(box') = MaxCount]_box

\* watchdog.go: alertedTasks is there "to avoid spam": from the start of a task
\* on, in whatever order it grows late and silent, reports, and is updated, the
\* driver gets an alert of one level once, and once more for every time the
\* entry of the task was lost: with the server's memory at a restart, or to a
\* check that recovered the task and could not be saved.
NoSpam == \A t \in Task, l \in Level : posted[t][l] <= 1 + lost[t]

Room == Len(box) + Cardinality(Task) <= MaxBox

\* The driver is told of every task that goes on being silent past the critical
\* threshold, if the bound on the box lets the watchdog write, unless
\* alertedTasks holds a grave entry of something else.  Such an entry is for a
\* silence before a report or an update; for an earlier attempt at the task, or
\* an earlier task with its id, when no check since found the id open, as an
\* entry outlives its task in a reset; or for an alert that could not be saved.
SilenceIsTold ==
  []<>Room => \A t \in Task :
    (t \in working /\ quiet[t] = 2) ~>
      \/ t \in told \cup muted
      \/ ~(t \in working /\ quiet[t] = 2)

=============================================================================
