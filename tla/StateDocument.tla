---------------------------- MODULE StateDocument ----------------------------
(***************************************************************************)
(* The state document of the server (CollabState) as far as its store and  *)
(* the service around it tell documents apart: the counter of the next     *)
(* task id (table meta), the tasks with the caller that created each       *)
(* (table tasks), and the tasks on the lists of agent instances (table     *)
(* agent_instances, which a load reads last).  Messages and notes have a   *)
(* counter and a table of the same kind.                                   *)
(***************************************************************************)
EXTENDS Integers

CONSTANTS
    Caller,     \* goroutines that use the service: tool calls, watchdog, dashboard
    MaxId,      \* bound: the highest task id
    None        \* no caller

ASSUME MaxIdAssumption == MaxId \in Nat
ASSUME CallerAssumption == None \notin Caller

Ids == 1..MaxId

Docs == [next : 1..(MaxId + 1), tasks : [Ids -> Caller \cup {None}], held : SUBSET Ids]

Empty == [next |-> 1, tasks |-> [i \in Ids |-> None], held |-> {}]

Present(d) == {i \in Ids : d.tasks[i] # None}

\* No task has the id the next one will get, or a higher one.
Sound(d) == \A i \in Present(d) : i < d.next

-----------------------------------------------------------------------------
\* What handlers do to a document: nothing this model tells apart, create a task
\* for an instance or for none, change the lists, or reset everything.

FaultyCreate(d, c) ==
    {[next |-> d.next + 2, tasks |-> [d.tasks EXCEPT ![d.next] = c], held |-> h] :
        h \in {d.held, d.held \cup {d.next}}}

Create(d, c) ==
    {[next |-> d.next + 1, tasks |-> [d.tasks EXCEPT ![d.next] = c], held |-> h] :
        h \in {d.held, d.held \cup {d.next}}}

Created(d, c) == IF d.next \in Ids THEN Create(d, c) ELSE {}

Relisted(d) == {[d EXCEPT !.held = h] : h \in SUBSET Present(d)}

Effects(d, c) == {d, Empty} \cup Created(d, c) \cup Relisted(d)

=============================================================================
