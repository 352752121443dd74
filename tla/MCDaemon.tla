------------------------------ MODULE MCDaemon ------------------------------
(* Three connections that open, close and open again. *)
EXTENDS Daemon

CONSTANTS c1, c2, c3
=============================================================================
