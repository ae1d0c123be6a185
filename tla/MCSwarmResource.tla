-------------------------- MODULE MCSwarmResource --------------------------
(* Bounds for model checking SwarmResource.                                *)
EXTENDS SwarmResource, TLC

CONSTANTS old, new, w0, w1

MCControllers  == {old, new}
MCAssociations ==
    {[version |-> 1, workloads |-> w0 :> {1, 2}],
     [version |-> 2, workloads |-> w0 :> {1} @@ w1 :> {2}],
     [version |-> 2, workloads |-> [n \in {} |-> {}]]}
=============================================================================
