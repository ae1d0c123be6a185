--------------------------- MODULE AssignmentStore ---------------------------
(***************************************************************************)
(* What the operator promises to whoever reads the published assignment    *)
(* (the worker ConfigMap, or the Swarm resource): every value a reader     *)
(* ever sees is a whole association for some number of workers, never a    *)
(* mixture of two, and two reads that return the same version return the   *)
(* same association, unless the pool was emptied in between.               *)
(*                                                                         *)
(* This is the abstract specification: WorkerPool is shown to implement    *)
(* it, once for each of the two stores.                                    *)
(***************************************************************************)
EXTENDS Balance

CONSTANTS
    Sizes,      \* the numbers of workers considered
    Versions    \* the versions considered

VARIABLES jobs, published

vars == <<jobs, published>>

Empty == [workloads |-> Assignment(jobs, 0), version |-> 0]

Init ==
    /\ jobs \in Nat
    /\ published = Empty

\* A new association, under a version no reader has seen.
Publish(n, v) ==
    /\ n > 0
    /\ v > published.version
    /\ published' = [workloads |-> Assignment(jobs, n), version |-> v]
    /\ UNCHANGED jobs

\* The pool has no workers: nobody has work, and the version need not change.
PublishNobody(v) ==
    /\ v >= published.version
    /\ published' = [workloads |-> Assignment(jobs, 0), version |-> v]
    /\ UNCHANGED jobs

Next ==
    \E v \in Versions : PublishNobody(v) \/ \E n \in Sizes : Publish(n, v)

Spec == Init /\ [][Next]_vars
=============================================================================
