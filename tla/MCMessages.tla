----------------------------- MODULE MCMessages -----------------------------
(* A driver, a worker and a task, and room for a few messages. *)
EXTENDS Messages

CONSTANTS d, w, t1
=============================================================================
