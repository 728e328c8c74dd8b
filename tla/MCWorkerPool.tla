---------------------------- MODULE MCWorkerPool ----------------------------
(***************************************************************************)
(* The instance of WorkerPool for TLC.  Connections 1 and 3 share worker 1,*)
(* so that either one's tasks can fill the other's queue; worker 0 is only *)
(* launched and drained.                                                   *)
(***************************************************************************)
EXTENDS WorkerPool

MCConnections == {1, 3}
=============================================================================
