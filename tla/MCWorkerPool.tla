---------------------------- MODULE MCWorkerPool ----------------------------
(* Bounds for model checking WorkerPool.  A job list of five is divided    *)
(* evenly by no pool size but 1, so associations of different sizes differ *)
(* in every slice.  Two workers and four size changes let a change find    *)
(* goroutines of two earlier ones still running and a mark not yet served. *)
EXTENDS WorkerPool

MCJobCounts == {5}
MCSizes     == 0 .. 2
MCOrdinals  == 0 .. 1
=============================================================================
