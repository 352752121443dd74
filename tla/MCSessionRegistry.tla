-------------------------- MODULE MCSessionRegistry --------------------------
(* The driver on one session and a worker's client that may reconnect on   *)
(* two others.                                                             *)
EXTENDS SessionRegistry

CONSTANTS s1, s2, s3, drv, wrk

MCOneName  == [s \in Session |-> IF s = s1 THEN {drv} ELSE {wrk}]
=============================================================================
