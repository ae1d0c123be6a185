----------------------------- MODULE PodEvents -----------------------------
(***************************************************************************)
(* The Pod pipeline: EventPipeline with the Pod handler                    *)
(* (operator/pod/handler.go) and what its calls do to the pool's index     *)
(* (AddWorkerIfNotExists and RemoveWorkerByName of app/swarm/pool.go).     *)
(* The environment is a StatefulSet's pod of each ordinal: a name that is  *)
(* used again by each incarnation.                                         *)
(***************************************************************************)
EXTENDS EventPipeline

CONSTANTS Relabelling   \* TRUE: somebody may take the app label off a pod

VARIABLES
    pool,     \* uid of the pod each pooled worker was made from, 0 for none
    newest,   \* history: the newest incarnation ever pooled under a name
    escaped   \* history: names of which a pod has lost the label

vars == <<pipelineVars, pool, newest, escaped>>

\* What the handler can tell apart.  In all but "pending" the pod has a node,
\* an IP and phase Running: "running" has no Ready condition, "terminated" has
\* a container that ended and was not started again, "terminating" a deletion
\* timestamp.
PodStates == {"pending", "running", "ready", "terminated", "terminating"}

ASSUME StatesAssumption == States = PodStates

isReadyPod(pod) == pod.state # "pending"
isReady(pod) == pod.state = "ready"
hasDeletionTimestamp(pod) == pod.state = "terminating"
isTerminated(pod) == pod.state = "terminated"

-----------------------------------------------------------------------------
AddWorkerIfNotExists(key, pod) ==
    IF pool[key] # 0
    THEN UNCHANGED <<pool, newest>>
    ELSE /\ pool' = [pool EXCEPT ![key] = pod.uid]
         /\ newest' = [newest EXCEPT ![key] = IF pod.uid > @ THEN pod.uid ELSE @]

RemoveWorkerByName(key) ==
    /\ pool' = [pool EXCEPT ![key] = 0]
    /\ UNCHANGED newest

Deleted(key) == RemoveWorkerByName(key)

Created(key, pod) ==
    IF isReadyPod(pod) THEN AddWorkerIfNotExists(key, pod) ELSE UNCHANGED <<pool, newest>>

\* Faulty variant: the arguments are swapped, as in the ResourceHandler
\* interface, which names them the other way round than its callers.
UpdatedSwapped(key, new, old) ==
    IF hasDeletionTimestamp(old) \/ isTerminated(old) THEN Deleted(key)
    ELSE IF isReadyPod(old) /\ isReady(old) THEN AddWorkerIfNotExists(key, old)
    ELSE UNCHANGED <<pool, newest>>

Updated(key, new, old) ==
    IF hasDeletionTimestamp(new) \/ isTerminated(new) THEN Deleted(key)
    ELSE IF isReadyPod(new) /\ isReady(new) THEN AddWorkerIfNotExists(key, new)
    ELSE UNCHANGED <<pool, newest>>

\* eventProcessor.Handle after the lookup.
Handle ==
    /\ Handled
    /\ LET ev == handling.event IN
         \/ Called("Deleted") /\ Deleted(ev.key)
         \/ Called("Created") /\ Created(ev.key, ev.obj)
         \/ Called("Updated") /\ Updated(ev.key, ev.obj, ev.old)
    /\ UNCHANGED escaped

-----------------------------------------------------------------------------
\* The StatefulSet controller creates a pod under a free name.
CreatePod(key) ==
    /\ ~Exists(cluster[key])
    /\ Change(key, [uid |-> changes + 1, state |-> "pending", labelled |-> TRUE])
    /\ UNCHANGED <<pool, newest, escaped>>

\* What can become of a pod: a container starts, is ready or not, ends and is
\* started again; a started pod is deleted gracefully.
Becomes == [
    pending     |-> {"running"},
    running     |-> {"ready", "terminated", "terminating"},
    ready       |-> {"running", "terminated", "terminating"},
    terminated  |-> {"running", "terminating"},
    terminating |-> {}]

PodChanges(key) ==
    /\ Exists(cluster[key])
    /\ \E s \in Becomes[cluster[key].state] : Change(key, [cluster[key] EXCEPT !.state = s])
    /\ UNCHANGED <<pool, newest, escaped>>

PodGone(key) ==
    /\ Exists(cluster[key])
    /\ Change(key, Absent)
    /\ UNCHANGED <<pool, newest, escaped>>

Unlabel(key) ==
    /\ Relabelling
    /\ cluster[key].labelled
    /\ Change(key, [cluster[key] EXCEPT !.labelled = FALSE])
    /\ escaped' = escaped \cup {key}
    /\ UNCHANGED <<pool, newest>>

\* The pool does not outlive the process.
RestartController ==
    /\ Restart
    /\ pool' = [k \in Keys |-> 0]
    /\ UNCHANGED <<newest, escaped>>

Init ==
    /\ PipelineInit
    /\ pool = [k \in Keys |-> 0]
    /\ newest = [k \in Keys |-> 0]
    /\ escaped = {}

Next ==
    \/ \E k \in Keys : CreatePod(k) \/ PodChanges(k) \/ PodGone(k) \/ Unlabel(k)
    \/ PipelineNext /\ UNCHANGED <<pool, newest, escaped>>
    \/ Handle
    \/ RestartController

Spec == Init /\ [][Next]_vars

-----------------------------------------------------------------------------
\* The pipeline's variables are well formed and a worker is pooled for a pod
\* that once existed.
TypeOK ==
    /\ PipelineTypeOK
    /\ pool \in [Keys -> 0 .. MaxChanges]
    /\ newest \in [Keys -> 0 .. MaxChanges]
    /\ escaped \subseteq Keys

\* Once everything about a name has been handled, its worker is in the pool if
\* its pod is ready, whatever was lost, coalesced or handled late before that.
ReadyIsPooled ==
    \A k \in Keys :
        Settled(k) /\ cluster[k].state = "ready" /\ cluster[k].labelled => pool[k] # 0

\* Once everything about a name has been handled, no worker is left of a pod
\* that is gone, unless the pod lost its label first: then resourceEventHandler
\* drops the events that would have removed the worker.
GoneIsNotPooled ==
    \A k \in Keys :
        Settled(k) /\ ~Exists(cluster[k]) /\ k \notin escaped => pool[k] = 0

\* A name is never given back to an earlier incarnation of its pod, although
\* events carry copies made long before they are handled.
NoOlderIncarnation ==
    \A k \in Keys : pool[k] # 0 => pool[k] = newest[k]

\* Once everything about a name has been handled, its worker belongs to the
\* pod that has the name now (the pool is one of the statefulset's "associated
\* pods").
PooledIsCurrent ==
    \A k \in Keys :
        Settled(k) /\ Exists(cluster[k]) /\ pool[k] # 0 => pool[k] = cluster[k].uid
=============================================================================
