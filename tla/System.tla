------------------------------- MODULE System -------------------------------
(***************************************************************************)
(* The operator in its cluster: WorkerPool with the StatefulSet's pods, the*)
(* worker processes in them and the two event pipelines between, and with  *)
(* restarts of the controller's process (cmd/internal.go).                 *)
(*                                                                         *)
(* The pool's actions are WorkerPool's, conjoined with what they meet in   *)
(* the cluster: a size change is made for a StatefulSet event, workers are *)
(* pooled for pod events, and a restart deletes whatever pod has the name  *)
(* by then.  The pipelines are abstracted to what PodEvents and            *)
(* StatefulSetEvents show of them when no lookup fails and no tombstone is *)
(* met: the events of an object are handled late, but in order, and what   *)
(* is done about one depends on whether the informer knows an object of    *)
(* that name by then.  A worker process is abstracted to what WorkerProcess*)
(* shows of it: it keeps the first jobs it finds, loads again when its file*)
(* changes, and may miss a change that comes while it starts.  The kubelet *)
(* brings the ConfigMap into a pod's volume some time after it is written. *)
(***************************************************************************)
EXTENDS WorkerPool, Sequences

CONSTANTS
    ControllerRestarts,   \* TRUE: the controller's process may end and start again
    MaxScalings,   \* bound: how often somebody scales the StatefulSet
    MaxRestarts    \* bound: restarts of the controller and of containers together

ASSUME SystemAssumption ==
    ControllerRestarts \in BOOLEAN /\ MaxScalings \in Nat /\ MaxRestarts \in Nat

VARIABLES
    replicas,    \* the StatefulSet's Spec.Replicas, 0 when there is none
    pods,        \* per ordinal, the pod of that name and its worker's jobs
    mounted,     \* per ordinal, its jobs in the file the kubelet last mounted
    sizeEvents,  \* sizes on their way to the StatefulSet handler
    podEvents,   \* per ordinal, events on their way to the Pod handler
    scalings, ends, \* counters for the bounds
    leftBehind   \* history: what last kept a worker from the ConfigMap's jobs

clusterVars == <<replicas, pods, mounted, sizeEvents, podEvents>>
boundVars == <<scalings, ends>>
historyVars == <<boundVars, leftBehind>>
systemVars == <<vars, clusterVars, historyVars>>

-----------------------------------------------------------------------------
NoJobs == {-1}   \* the worker has found no workload for its host; no share is this
NoPod == [phase |-> "none", jobs |-> NoJobs]

\* A container that runs is "loading", has "loaded", or serves; one that is
\* "notified" serves and is about to load again.
Phases == {"none", "starting", "loading", "loaded", "serving", "notified"}
Reasons == {"no", "passedOver", "notDeleted", "oldVolume", "missed"}

\* Pods whose container runs, and those that answer the readiness probe.
Running == {i \in Ordinals : pods[i].phase \notin {"none", "starting"}}
Ready == {i \in Ordinals : pods[i].phase \in {"serving", "notified"}}

\* Worker i's jobs in the ConfigMap, as the API server has it.
Assigned(i) ==
    IF i \in DOMAIN configMap.workloads THEN configMap.workloads[i] ELSE NoJobs

\* A worker has other jobs than the ConfigMap's, or none although its file has.
Outdated(i) == pods[i].jobs \notin {NoJobs, Assigned(i)}
FileChanged(i) == pods[i].jobs = NoJobs /\ mounted[i] # NoJobs
Stale(i) == Outdated(i) \/ (pods[i].phase = "serving" /\ FileChanged(i))

SystemInit ==
    /\ Init
    /\ replicas = 0
    /\ pods = [i \in Ordinals |-> NoPod]
    /\ mounted = [i \in Ordinals |-> NoJobs]
    /\ sizeEvents = <<>>
    /\ podEvents = [i \in Ordinals |-> <<>>]
    /\ scalings = 0 /\ ends = 0
    /\ leftBehind = [i \in Ordinals |-> "no"]

-----------------------------------------------------------------------------
\* Somebody scales the StatefulSet, creates it or deletes it.
Scale(n) ==
    /\ n # replicas
    /\ scalings < MaxScalings /\ scalings' = scalings + 1
    /\ replicas' = n
    /\ sizeEvents' = Append(sizeEvents, n)
    /\ UNCHANGED <<vars, pods, mounted, podEvents, ends, leftBehind>>

\* The StatefulSet controller creates pods in order ...
CreatePod(i) ==
    /\ i < replicas
    /\ pods[i].phase = "none"
    /\ \A j \in Ordinals : j < i => j \in Ready
    /\ pods' = [pods EXCEPT ![i].phase = "starting"]
    /\ UNCHANGED <<vars, replicas, mounted, sizeEvents, podEvents, historyVars>>

\* What the informer reports of a pod that is deleted.  One that runs gets its
\* deletion timestamp first.
Farewell(i) ==
    IF i \in Running THEN <<"terminating", "gone">>
    ELSE IF pods[i].phase = "starting" THEN <<"unstarted">>
    ELSE <<>>

\* Deleting pod i, if there is one; a worker's history ends with it.
Deleted(i) ==
    /\ pods' = [pods EXCEPT ![i] = NoPod]
    /\ podEvents' = [podEvents EXCEPT ![i] = @ \o Farewell(i)]
    /\ leftBehind' = [leftBehind EXCEPT ![i] = "no"]

\* ... and deletes them in the opposite order.
RemovePod(i) ==
    /\ i >= replicas
    /\ pods[i].phase # "none"
    /\ \A j \in Ordinals : j > i => pods[j].phase = "none"
    /\ Deleted(i)
    /\ UNCHANGED <<vars, replicas, mounted, sizeEvents, boundVars>>

\* The kubelet runs the container.  Its pod is not ready yet, and the handler
\* ignores what the informer reports of it.
StartWorker(i) ==
    /\ pods[i].phase = "starting"
    /\ pods' = [pods EXCEPT ![i].phase = "loading"]
    /\ UNCHANGED <<vars, replicas, mounted, sizeEvents, podEvents, historyVars>>

\* The kubelet brings a pod's volume up to date.  App.Assign keeps the jobs a
\* worker has; one that serves without any is notified and will load again.
UpdateVolume(i) ==
    /\ pods[i].phase # "none"
    /\ mounted[i] # Assigned(i)
    /\ mounted' = [mounted EXCEPT ![i] = Assigned(i)]
    /\ pods' = [pods EXCEPT ![i].phase =
                  IF @ = "serving" /\ pods[i].jobs = NoJobs THEN "notified" ELSE @]
    /\ UNCHANGED <<vars, replicas, sizeEvents, podEvents, historyVars>>

-----------------------------------------------------------------------------
\* A worker without jobs loads its file and goes on in the given phase.
Loaded(i, phase) ==
    /\ pods' = [pods EXCEPT ![i] = [phase |-> phase, jobs |-> mounted[i]]]
    /\ leftBehind' = [leftBehind EXCEPT ![i] =
                        IF mounted[i] \in {NoJobs, Assigned(i)} THEN "no" ELSE "oldVolume"]
    /\ UNCHANGED <<vars, replicas, mounted, sizeEvents, podEvents, boundVars>>

\* The process starts and loads its configuration for the first time.
LoadConfig(i) == pods[i].phase = "loading" /\ Loaded(i, "loaded")

\* The process registers its callback and serves the health endpoint: the pod
\* gets ready.  Of a change of the file since the load, a watcher may have told
\* nobody (WorkerProcess: missed).
Serve(i) ==
    /\ pods[i].phase = "loaded"
    /\ \/ /\ pods' = [pods EXCEPT ![i].phase = "serving"]
          /\ leftBehind' = [leftBehind EXCEPT ![i] = IF FileChanged(i) THEN "missed" ELSE @]
       \/ /\ FileChanged(i)
          /\ pods' = [pods EXCEPT ![i].phase = "notified"]
          /\ UNCHANGED leftBehind
    /\ podEvents' = [podEvents EXCEPT ![i] = Append(@, "ready")]
    /\ UNCHANGED <<vars, replicas, mounted, sizeEvents, boundVars>>

\* The callback loads again; App.Assign takes the first workload it gets.
ReloadWorker(i) == pods[i].phase = "notified" /\ Loaded(i, "serving")

ProcessEnds == ends < MaxRestarts /\ ends' = ends + 1

\* The worker's container ends (on SIGTERM, or log.Fatalf when a load fails) and
\* the kubelet runs it again in the same pod.  The informer may see the status
\* in between, on which the Pod handler acts as if the pod was deleted.
RestartContainer(i) ==
    /\ i \in Running
    /\ ProcessEnds
    /\ pods' = [pods EXCEPT ![i] = [phase |-> "loading", jobs |-> NoJobs]]
    /\ leftBehind' = [leftBehind EXCEPT ![i] = "no"]
    /\ \/ podEvents' = [podEvents EXCEPT ![i] = Append(@, "terminating")]
       \/ UNCHANGED podEvents
    /\ UNCHANGED <<vars, replicas, mounted, sizeEvents, scalings>>

-----------------------------------------------------------------------------
\* The StatefulSet handler calls UpdateExpectedSize with the event's size,
\* which returns at once if it is the size the pool has.
HandleSize ==
    /\ sizeEvents # <<>>
    /\ MutexFree
    /\ sizeEvents' = Tail(sizeEvents)
    /\ IF Head(sizeEvents) = expectedSize THEN UNCHANGED vars
       ELSE UpdateExpectedSize(Head(sizeEvents))
    /\ UNCHANGED <<replicas, pods, mounted, podEvents, historyVars>>

\* What the handler does when the informer knows a pod of that name: Created or
\* Updated adds a worker for any pod that has started, even one that is gone ...
WhenKnown(i, ev) ==
    \/ ev \in {"ready", "gone"} /\ index[i] = Absent /\ AddWorkerIfNotExists(i)
    \/ ev \in {"ready", "gone"} /\ index[i] # Absent /\ UNCHANGED vars
    \/ ev = "unstarted" /\ UNCHANGED vars

\* ... and what it does when it knows none, or the pod is being deleted.
WhenGone(i) ==
    IF index[i] # Absent THEN RemoveWorkerByName(i) ELSE UNCHANGED vars

\* The informer will hear, or has heard, that the pod of event i's head is gone.
GoneLater(i) ==
    \E n \in DOMAIN podEvents[i] : n > 1 /\ podEvents[i][n] \in {"gone", "unstarted"}

\* By the time the event is handled, the informer may have seen anything that
\* happened to the name after it.
HandlePod(i) ==
    /\ podEvents[i] # <<>>
    /\ MutexFree
    /\ LET ev == Head(podEvents[i])
       IN  \/ /\ ev = "ready" \/ Len(podEvents[i]) > 1 \/ pods[i].phase # "none"
             /\ WhenKnown(i, ev)
          \/ /\ ev # "ready" \/ GoneLater(i)
             /\ WhenGone(i)
    /\ podEvents' = [podEvents EXCEPT ![i] = Tail(@)]
    /\ UNCHANGED <<replicas, pods, mounted, sizeEvents, historyVars>>

\* UpdateExpectedSize goes on: the two stores ...
WriteStores ==
    /\ SetConfigMap("ok") \/ SetSwarm("ok")
    /\ UNCHANGED <<clusterVars, historyVars>>

\* ... and the marks.  They cannot reach a worker that is not pooled because it
\* is not ready, one whose pod the handler has still to hear of (a mark under
\* its name is its predecessor's and goes with it), nor one the previous size had
\* no place for, which is taken to be new.
OutOfReach(i) ==
    \/ i \notin Ready /\ index[i] = Absent
    \/ podEvents[i] # <<>>
    \/ i >= call.previous

WriteMarks ==
    /\ MarkWorkers
    /\ leftBehind' = [i \in Ordinals |->
         IF Stale(i) /\ OutOfReach(i) THEN "passedOver" ELSE "no"]
    /\ UNCHANGED <<clusterVars, boundVars>>

Tick == Conciliate /\ UNCHANGED <<clusterVars, historyVars>>

\* RefreshPod deletes the pod that has the name now, be it the one the restart
\* was scheduled for or not.  The request may be refused (it has a second), or
\* its answer lost; if there is no such pod the API server says so.
DeletePod(r) ==
    LET i == r.worker IN
    /\ \/ pods[i].phase = "none" /\ RestartWorker(r, "refused") /\ Deleted(i)
       \/ /\ pods[i].phase # "none"
          /\ \E outcome \in Outcomes(RestartFaults) \ {"refused"} : RestartWorker(r, outcome)
          /\ Deleted(i)
       \/ /\ "refused" \in Outcomes(RestartFaults)
          /\ pods[i].phase # "none"
          /\ RestartWorker(r, "refused")
          /\ leftBehind' = [leftBehind EXCEPT ![i] = IF Stale(i) THEN "notDeleted" ELSE @]
          /\ UNCHANGED <<pods, podEvents>>
    /\ UNCHANGED <<replicas, mounted, sizeEvents, boundVars>>

Refreshed(r) == MarkRefreshed(r) /\ UNCHANGED <<clusterVars, historyVars>>

\* initConfig reads the job list; without one there is no controller.
initConfig == jobs' \in JobCounts

\* What the informers of a new process list: the StatefulSet, if there is one ...
ListedSizes == IF replicas = 0 THEN <<>> ELSE <<replicas>>

\* ... and the pods that run.  The others it hears of when they start.
ListedPods == [i \in Ordinals |-> IF i \in Running THEN <<"ready">> ELSE <<>>]

\* The controller's process ends, wherever it is: main returns on SIGTERM
\* without waiting for anybody, and a panic or log.Fatalf ends it too.  The
\* next one reads its job list again, starts with an empty pool and lists what is
\* there; the stores stay.
RestartController ==
    /\ ControllerRestarts
    /\ ProcessEnds
    /\ initConfig
    /\ workloads' = [i \in {} |-> {}] /\ configVersion' = 0
    /\ expectedSize' = 0 /\ version' = 0 /\ underVariation' = TRUE /\ stopped' = FALSE
    /\ index' = [i \in Ordinals |-> Absent]
    /\ call' = Idle
    /\ restarts' = {}
    /\ attempts' = [i \in Ordinals |-> 0] /\ unserved' = {}
    /\ sizeEvents' = ListedSizes
    /\ podEvents' = ListedPods
    /\ UNCHANGED <<configMap, swarm, replicas, pods, mounted, scalings, leftBehind>>

-----------------------------------------------------------------------------
Kubelet(i) == StartWorker(i) \/ UpdateVolume(i)
Worker(i) == LoadConfig(i) \/ Serve(i) \/ ReloadWorker(i)
StatefulSetController == \E i \in Ordinals : CreatePod(i) \/ RemovePod(i)
Refresh(i) == \E r \in restarts : r.worker = i /\ (DeletePod(r) \/ Refreshed(r))
Proceed == WriteStores \/ WriteMarks

SystemNext ==
    \/ \E n \in Sizes : Scale(n)
    \/ StatefulSetController
    \/ \E i \in Ordinals : Kubelet(i) \/ Worker(i) \/ HandlePod(i) \/ Refresh(i)
    \/ \E i \in Ordinals : RestartContainer(i)
    \/ HandleSize
    \/ Proceed
    \/ Tick
    \/ RestartController

SystemSpec == SystemInit /\ [][SystemNext]_systemVars

\* The cluster's controllers, kubelets and workers do their work, the pipelines
\* deliver, and the pool's threads run on (Fairness of WorkerPool).  Nothing
\* makes anybody scale the StatefulSet, or the controller or a container restart.
SystemFairness ==
    /\ WF_systemVars(StatefulSetController)
    /\ WF_systemVars(HandleSize)
    /\ WF_systemVars(Proceed)
    /\ WF_systemVars(Tick)
    /\ \A i \in Ordinals :
         /\ WF_systemVars(Kubelet(i)) /\ WF_systemVars(Worker(i))
         /\ WF_systemVars(HandlePod(i)) /\ WF_systemVars(Refresh(i))

FairSystem == SystemSpec /\ SystemFairness

-----------------------------------------------------------------------------
\* The pool's variables have their types, and so have the pods, their volumes and
\* the events; only a worker that has loaded is left behind.
SystemTypeOK ==
    /\ TypeOK
    /\ replicas \in Sizes
    /\ \A i \in Ordinals :
         /\ pods[i].phase \in Phases
         /\ pods[i].jobs = NoJobs \/ pods[i].jobs \subseteq Nat
         /\ mounted[i] = NoJobs \/ mounted[i] \subseteq Nat
         /\ podEvents[i] \in Seq({"ready", "terminating", "gone", "unstarted"})
         /\ leftBehind[i] \in IF i \in Running THEN Reasons ELSE {"no"}
    /\ sizeEvents \in Seq(Sizes)

\* Nothing is under way: every event is handled, no call, variation or restart
\* is open, the StatefulSet has its pods and their volumes are up to date.
Quiet ==
    /\ sizeEvents = <<>>
    /\ \A i \in Ordinals : podEvents[i] = <<>>
    /\ MutexFree
    /\ ~ConciliationDue
    /\ restarts = {}
    /\ \A i \in Ordinals :
         IF i < replicas THEN pods[i].phase = "serving" /\ mounted[i] = Assigned(i)
         ELSE pods[i].phase = "none"

\* When nothing is under way, no worker keeps jobs of another version than the
\* ConfigMap's (README.md:112: "after refresh cycle all workers will belong to
\* the same config version").  A worker that started from a volume which was
\* behind is left out: README.md:22 says that they may be.
AllWorkersCurrent ==
    Quiet => \A i \in Running : leftBehind[i] # "oldVolume" => ~Outdated(i)

\* When nothing is under way, a worker that has other jobs than the ConfigMap
\* gives it, or none at all, has them for one of these reasons: the last size
\* change could not reach it; the deletion of its pod failed; it started from a
\* volume that was behind; it missed the change of its file while it started; or
\* its mark was lost to an older goroutine.  Nothing else leaves a worker behind,
\* whatever incarnation of a pod a restart hits and whenever containers and the
\* controller restart.
StaleExplained ==
    Quiet => \A i \in Running :
        pods[i].jobs = Assigned(i) \/ leftBehind[i] # "no" \/ i \in unserved

\* In the end the pods, the pool and both stores agree with the StatefulSet, also
\* when the controller was restarted between any two of its steps.  A StatefulSet
\* that is gone asks nothing of the stores: a restarted controller has that size
\* already and writes nothing.
ClusterSettles ==
    <>[](/\ Quiet
         /\ replicas > 0 =>
              /\ Pooled = Running
              /\ configMap = Current /\ swarm = Current
              /\ workloads = Assignment(jobs, replicas))
=============================================================================
