------------------------- MODULE StatefulSetEvents -------------------------
(***************************************************************************)
(* The StatefulSet pipeline: EventPipeline with the StatefulSet handler    *)
(* (operator/statefulset/handler.go) and what its calls do to the pool's   *)
(* expected size (UpdateExpectedSize of app/swarm/pool.go; the rest of     *)
(* that call is in WorkerPool).  An object's state is its Spec.Replicas.   *)
(***************************************************************************)
EXTENDS EventPipeline

VARIABLE expectedSize   \* p.expectedSize

vars == <<pipelineVars, expectedSize>>

UpdateExpectedSize(size) == expectedSize' = size

Created(ss) == UpdateExpectedSize(ss.state)

\* Faulty variant: the size is read from the object before the change.
UpdatedFromOld(new, old) == UpdateExpectedSize(old.state)

Updated(new, old) == UpdateExpectedSize(new.state)
Deleted(ss) == UpdateExpectedSize(0)

\* eventProcessor.Handle after the lookup.
Handle ==
    /\ Handled
    /\ LET ev == handling.event IN
         \/ Called("Deleted") /\ Deleted(DeletedObject)
         \/ Called("Created") /\ Created(ev.obj)
         \/ Called("Updated") /\ Updated(ev.obj, ev.old)

-----------------------------------------------------------------------------
CreateStatefulSet(key, replicas) ==
    /\ ~Exists(cluster[key])
    /\ Change(key, [uid |-> changes + 1, state |-> replicas, labelled |-> TRUE])
    /\ UNCHANGED expectedSize

Scale(key, replicas) ==
    /\ Exists(cluster[key])
    /\ Change(key, [cluster[key] EXCEPT !.state = replicas])
    /\ UNCHANGED expectedSize

DeleteStatefulSet(key) ==
    /\ Exists(cluster[key])
    /\ Change(key, Absent)
    /\ UNCHANGED expectedSize

\* The pool does not outlive the process.
RestartController ==
    /\ Restart
    /\ expectedSize' = 0

Init ==
    /\ PipelineInit
    /\ expectedSize = 0

Next ==
    \/ \E k \in Keys :
         \/ \E n \in States : CreateStatefulSet(k, n) \/ Scale(k, n)
         \/ DeleteStatefulSet(k)
    \/ PipelineNext /\ UNCHANGED expectedSize
    \/ Handle
    \/ RestartController

Spec == Init /\ [][Next]_vars

\* The informer's and the controller's goroutines run on, the rate limiter's
\* delays end, and a Deployment starts a crashed process again.  Nothing makes
\* objects change, watches break or lookups fail.
Fairness ==
    /\ WF_vars(Informer /\ UNCHANGED expectedSize)
    /\ WF_vars(Take /\ UNCHANGED expectedSize)
    /\ WF_vars((\E i \in 1 .. Len(delayed) : Requeue(i)) /\ UNCHANGED expectedSize)
    /\ WF_vars(Handle)
    /\ WF_vars(crashed /\ RestartController)

FairSpec == Spec /\ Fairness

-----------------------------------------------------------------------------
\* The pipeline's variables are well formed and the pool's size is one a
\* StatefulSet can ask for.
TypeOK ==
    /\ PipelineTypeOK
    /\ expectedSize \in States \cup {0}

\* Once everything about the StatefulSet has been handled, the pool expects the
\* number of workers it asks for, or none when it is gone, however often it
\* was scaled, deleted and created again, and whatever copies of it the events
\* carried.
SizeSettles ==
    \A k \in Keys :
        Settled(k) => expectedSize = IF Exists(cluster[k]) THEN cluster[k].state ELSE 0
=============================================================================
