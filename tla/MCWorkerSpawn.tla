---------------------------- MODULE MCWorkerSpawn ----------------------------
(* One server with its two checks, one worker, and two spawns of it.         *)
EXTENDS WorkerSpawn, TLC

CONSTANTS m1, w1, g1, g2

Symmetry == Permutations(Spawn)
=============================================================================
