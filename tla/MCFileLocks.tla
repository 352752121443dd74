---------------------------- MODULE MCFileLocks ----------------------------
(***************************************************************************)
(* Two workspaces that both have a file rel, and an absolute spelling of   *)
(* the one in the first.                                                   *)
(***************************************************************************)
EXTENDS FileLocks

CONSTANTS a1, a2, t1, r1, r2, rel, abs, p1, p2

MCPathOf == [r \in Root |-> [s \in Spelling |->
              CASE r = r1 -> p1
                [] r = r2 /\ s = rel -> p2
                [] OTHER -> Outside]]

MCScopes == {{rel}}
=============================================================================
