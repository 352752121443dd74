---------------------------- MODULE MCTaskBoard ----------------------------
(***************************************************************************)
(* Small configurations of the board: every worker type has one instance,  *)
(* which bears the name of the type.                                       *)
(***************************************************************************)
EXTENDS TaskBoard

CONSTANTS w1, w2, drv, g1

MCTypeOf   == [i \in Name |-> i]
MCMaxTasks == [i \in Name |-> IF i \in Worker THEN 1 ELSE 0]

\* One option at a time, and the pairs that act on each other.
MCTogether == {{o} : o \in Option} \cup
              {{"status", "assigned_to"}, {"status", "blocked_by"},
               {"status", "add_dependency"}}
=============================================================================
