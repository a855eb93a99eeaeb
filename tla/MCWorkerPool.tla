---------------------------- MODULE MCWorkerPool ----------------------------
(* WorkerPool for TLC: the configurations give the constants.  There is no *)
(* symmetry, which is not sound for the liveness properties.               *)
EXTENDS WorkerPool
=============================================================================
