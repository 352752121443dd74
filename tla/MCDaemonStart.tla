--------------------------- MODULE MCDaemonStart ---------------------------
(* Two windows that open and close, and two daemons that follow each other. *)
EXTENDS DaemonStart

CONSTANTS w1, w2, d1, d2
=============================================================================
