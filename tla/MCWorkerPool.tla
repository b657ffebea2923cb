---------------------------- MODULE MCWorkerPool ----------------------------
(* Instances of WorkerPool for TLC; the .cfg file gives the constants.      *)
EXTENDS WorkerPool

CONSTANTS t1, t2, v1
=============================================================================
