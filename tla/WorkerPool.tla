----------------------------- MODULE WorkerPool -----------------------------
(***************************************************************************)
(* The controller's worker pool (app/swarm/pool.go, worker.go) with the    *)
(* executor (executor.go) and the two providers it stores assignments in   *)
(* (operator/configmap/provider.go, operator/crd/provider.go).             *)
(*                                                                         *)
(* Four kinds of thread meet in the pool.  The StatefulSet controller      *)
(* calls UpdateExpectedSize, the Pod controller AddWorkerIfNotExists and   *)
(* RemoveWorkerByName, a timer calls conciliate, and conciliate starts a   *)
(* goroutine (requestRestart) per worker to refresh.  The first three hold *)
(* p.mutex for the whole call; the goroutines never take it.               *)
(*                                                                         *)
(* UpdateExpectedSize talks to the API server twice while it holds the     *)
(* mutex, so it is four steps, and `call' is where it has got to.          *)
(* Everything else under the mutex is one step, enabled while it is free.  *)
(***************************************************************************)
EXTENDS WorkloadState

CONSTANTS
    JobCounts,      \* lengths of the job list
    Sizes,          \* values of StatefulSet.Spec.Replicas, 0 among them
    Ordinals,       \* ordinals of the pods the Pod controller may report
    MaxVersion,     \* bound: size changes followed from the start
    StoreFaults,    \* TRUE: the API server may fail a ConfigMap or Swarm call
    RestartFaults   \* TRUE: the API server may fail a Pod deletion

ASSUME JobCountsAssumption  == JobCounts \subseteq Nat
ASSUME SizesAssumption      == Sizes \subseteq Nat /\ 0 \in Sizes
ASSUME OrdinalsAssumption   == Ordinals \subseteq Nat /\ IsFiniteSet(Ordinals)
ASSUME MaxVersionAssumption == MaxVersion \in Nat
ASSUME FaultsAssumption     == StoreFaults \in BOOLEAN /\ RestartFaults \in BOOLEAN

VARIABLES
    expectedSize, version,   \* p.expectedSize, p.version
    underVariation,          \* p.underVariation
    stopped,                 \* p.stopChan is closed
    index,       \* p.index: the State of the worker object pooled under an ordinal
    call,        \* the UpdateExpectedSize call that holds p.mutex
    restarts,    \* the requestRestart goroutines
    configMap,   \* the Workloads in the worker ConfigMap
    swarm,       \* the Workloads in the Swarm resource
    attempts,    \* history: restarts ever scheduled for a name
    unserved     \* history: marked workers that no conciliation has scheduled yet

sizeVars  == <<stateVars, expectedSize, version>>
storeVars == <<configMap, swarm>>
poolVars  == <<index, underVariation, stopped>>
vars == <<sizeVars, poolVars, call, restarts, storeVars, attempts, unserved>>

-----------------------------------------------------------------------------
Absent == "absent"
WorkerStates == {"WaitingAssignation", "NeedsRefresh", "Syncing"}

Idle == [step |-> "idle", previous |-> 0]
MutexFree == call = Idle

Pooled == {i \in Ordinals : index[i] # Absent}

\* The Workloads value state.Workloads() returns.
Current == [workloads |-> workloads, version |-> configVersion]

\* The first k workers of geAllWorkers(), which sorts the pool by ordinal.
FirstWorkers(k) ==
    {i \in Pooled : Cardinality({j \in Pooled : j < i}) < k}

\* Faulty variant: the last survivor is forgotten.
TotalToRefreshOneShort(previousSize, newSize, len) ==
    LET n == IF newSize > previousSize THEN previousSize - 1 ELSE newSize
    IN  IF len < n THEN len ELSE n

\* How many of the pool's workers a size change marks.
TotalToRefresh(previousSize, newSize, len) ==
    LET n == IF newSize > previousSize THEN previousSize ELSE newSize
    IN  IF len < n THEN len ELSE n

-----------------------------------------------------------------------------
\* NewState and NewWorkerPool, in a namespace where k8s/configmap.yaml has just
\* been applied: its workloads are empty.  A Swarm resource that does not exist
\* yet reads as the empty Spec initializeCRD creates.
Init ==
    /\ \E keys \in JobCounts : NewState(keys)
    /\ expectedSize = 0
    /\ version = 0
    /\ underVariation = TRUE
    /\ stopped = FALSE
    /\ index = [i \in Ordinals |-> Absent]
    /\ call = Idle
    /\ restarts = {}
    /\ configMap = Current
    /\ swarm = Current
    /\ attempts = [i \in Ordinals |-> 0]
    /\ unserved = {}

\* UpdateExpectedSize up to the call of Assign.  A call with the size the pool
\* already has returns at once and changes nothing.
UpdateExpectedSize(newSize) ==
    /\ MutexFree
    /\ version < MaxVersion
    /\ expectedSize # newSize
    /\ BalanceWorkload(newSize, version + 1)
    /\ expectedSize' = newSize
    /\ version' = version + 1
    /\ underVariation' = TRUE
    /\ call' = [step |-> "configmap", previous |-> expectedSize]
    /\ UNCHANGED <<stopped, index, restarts, storeVars, attempts, unserved>>

\* What a request to the API server does to a stored value: it is applied, or,
\* when faults are possible, refused, or applied and the answer lost.  Get
\* failing is a refusal.
Stored(old, new, outcome) == IF outcome = "refused" THEN old ELSE new
Outcomes(faults) == IF faults THEN {"ok", "refused", "lost"} ELSE {"ok"}

\* Faulty variant: the middleware tests its error the wrong way round.
SetConfigMapInverted(outcome) ==
    /\ call.step = "configmap"
    /\ configMap' = Stored(configMap, Current, outcome)
    /\ call' = [call EXCEPT !.step = IF outcome = "ok" THEN "mark" ELSE "swarm"]
    /\ UNCHANGED <<sizeVars, poolVars, restarts, swarm, attempts, unserved>>

\* configmap.Provider.Set, the first member of the ProviderMiddleware: on an
\* error the second is skipped and UpdateExpectedSize only logs it.
SetConfigMap(outcome) ==
    /\ call.step = "configmap"
    /\ configMap' = Stored(configMap, Current, outcome)
    /\ call' = [call EXCEPT !.step = IF outcome = "ok" THEN "swarm" ELSE "mark"]
    /\ UNCHANGED <<sizeVars, poolVars, restarts, swarm, attempts, unserved>>

\* crd.Provider.Set: Get or initializeCRD, then Update.
SetSwarm(outcome) ==
    /\ call.step = "swarm"
    /\ swarm' = Stored(swarm, Current, outcome)
    /\ call' = [call EXCEPT !.step = "mark"]
    /\ UNCHANGED <<sizeVars, poolVars, restarts, configMap, attempts, unserved>>

\* The workers the call marks: none when the pool had no size before.
Marked ==
    IF call.previous = 0 THEN {}
    ELSE FirstWorkers(TotalToRefresh(call.previous, expectedSize, Cardinality(Pooled)))

\* The rest of UpdateExpectedSize, after which the mutex is released.
MarkWorkers ==
    /\ call.step = "mark"
    /\ index' = [i \in Ordinals |-> IF i \in Marked THEN "NeedsRefresh" ELSE index[i]]
    /\ unserved' = unserved \cup Marked
    /\ call' = Idle
    /\ UNCHANGED <<sizeVars, underVariation, stopped, restarts, storeVars, attempts>>

-----------------------------------------------------------------------------
AddWorkerIfNotExists(i) ==
    /\ MutexFree
    /\ index[i] = Absent
    /\ index' = [index EXCEPT ![i] = "WaitingAssignation"]
    /\ UNCHANGED <<sizeVars, underVariation, stopped, call, restarts, storeVars,
                   attempts, unserved>>

\* The worker object leaves the index; a goroutine that captured it keeps it,
\* and will set the state of an object nobody can reach any more.
RemoveWorkerByName(i) ==
    /\ MutexFree
    /\ index[i] # Absent
    /\ index' = [index EXCEPT ![i] = Absent]
    /\ restarts' = {[r EXCEPT !.live = @ /\ r.worker # i] : r \in restarts}
    /\ unserved' = unserved \ {i}
    /\ UNCHANGED <<sizeVars, underVariation, stopped, call, storeVars, attempts>>

\* Faulty variant: the loop over the workers stops one short.
NeedRefreshButLast ==
    {i \in FirstWorkers(Cardinality(Pooled) - 1) : index[i] = "NeedsRefresh"}

NeedRefresh == {i \in Ordinals : index[i] = "NeedsRefresh"}

ConciliationDue == expectedSize # 0 /\ underVariation

\* One goroutine per worker that needs a refresh.
ScheduleRestarts ==
    /\ restarts' = restarts \cup
         {[worker |-> i, version |-> version, phase |-> "sleeping", live |-> TRUE]
            : i \in NeedRefresh}
    /\ attempts' = [i \in Ordinals |->
         IF i \in NeedRefresh THEN attempts[i] + 1 ELSE attempts[i]]
    /\ unserved' = unserved \ NeedRefresh

\* Faulty variant: the variation is never closed.
ConciliateForever ==
    /\ MutexFree /\ ~stopped /\ ConciliationDue
    /\ ScheduleRestarts
    /\ UNCHANGED <<sizeVars, poolVars, call, storeVars>>

\* Faulty variant: the tick does not take p.mutex.
ConciliateUnlocked ==
    /\ ~stopped /\ ConciliationDue
    /\ ScheduleRestarts
    /\ underVariation' = FALSE
    /\ UNCHANGED <<sizeVars, index, stopped, call, storeVars>>

\* One tick of the conciliation loop; a tick with nothing due changes nothing.
Conciliate ==
    /\ MutexFree /\ ~stopped /\ ConciliationDue
    /\ ScheduleRestarts
    /\ underVariation' = FALSE
    /\ UNCHANGED <<sizeVars, index, stopped, call, storeVars>>

\* requestRestart after its sleep: the executor deletes the pod of that name.
\* On an error the goroutine ends and the worker keeps its state.
RestartWorker(r, outcome) ==
    /\ r.phase = "sleeping"
    /\ restarts' = (restarts \ {r}) \cup
         (IF outcome = "ok" THEN {[r EXCEPT !.phase = "deleted"]} ELSE {})
    /\ UNCHANGED <<sizeVars, poolVars, call, storeVars, attempts, unserved>>

\* requestRestart after the deletion; only the worker's own mutex is taken.
MarkRefreshed(r) ==
    /\ r.phase = "deleted"
    /\ restarts' = restarts \ {r}
    /\ index' = [index EXCEPT ![r.worker] = IF r.live THEN "Syncing" ELSE @]
    /\ UNCHANGED <<sizeVars, underVariation, stopped, call, storeVars, attempts, unserved>>

\* Closing the channel a second time panics.
Terminate ==
    /\ ~stopped
    /\ stopped' = TRUE
    /\ UNCHANGED <<sizeVars, underVariation, index, call, restarts, storeVars,
                   attempts, unserved>>

-----------------------------------------------------------------------------
FinishCall ==
    \/ \E outcome \in Outcomes(StoreFaults) : SetConfigMap(outcome) \/ SetSwarm(outcome)
    \/ MarkWorkers

RequestRestart(i) ==
    \E r \in restarts :
        /\ r.worker = i
        /\ \/ \E outcome \in Outcomes(RestartFaults) : RestartWorker(r, outcome)
           \/ MarkRefreshed(r)

Next ==
    \/ \E n \in Sizes : UpdateExpectedSize(n)
    \/ FinishCall
    \/ \E i \in Ordinals : AddWorkerIfNotExists(i) \/ RemoveWorkerByName(i)
    \/ Conciliate
    \/ \E i \in Ordinals : RequestRestart(i)
    \/ Terminate

Spec == Init /\ [][Next]_vars

\* A call that holds the mutex runs on, the timer fires again and again, and a
\* goroutine's sleep ends.  Nothing makes the size change, pods come or go, or
\* the pool be terminated.
Fairness ==
    /\ WF_vars(FinishCall)
    /\ WF_vars(Conciliate)
    /\ \A i \in Ordinals : WF_vars(RequestRestart(i))

FairSpec == Spec /\ Fairness

-----------------------------------------------------------------------------
\* The variables hold values of the kinds the Go fields hold; a goroutine's
\* version is one the pool has had, and the mutex holder is at one of its steps.
TypeOK ==
    /\ StateTypeOK
    /\ expectedSize \in Sizes
    /\ version \in 0 .. MaxVersion
    /\ underVariation \in BOOLEAN
    /\ stopped \in BOOLEAN
    /\ index \in [Ordinals -> WorkerStates \cup {Absent}]
    /\ call \in [step : {"idle", "configmap", "swarm", "mark"}, previous : Sizes]
    /\ restarts \subseteq [worker : Ordinals, version : 1 .. MaxVersion,
                           phase : {"sleeping", "deleted"}, live : BOOLEAN]
    /\ attempts \in [Ordinals -> Nat]
    /\ unserved \subseteq Ordinals

\* However size changes, conciliations, pod events and goroutines interleave,
\* and however often a pod comes and goes, a name is scheduled for at most one
\* restart per size change, the first change (the start from size 0) causing
\* none: conciliate cannot be re-run for a version it has served.
RestartBudget ==
    \A i \in Ordinals : IF version = 0 THEN attempts[i] = 0 ELSE attempts[i] < version

\* Once a variation is over, the only marked workers for which conciliate never
\* scheduled a restart are those an older goroutine overwrote with Syncing
\* (MarkRefreshed is called without p.mutex): no mark is forgotten otherwise.
NoForgottenMark ==
    MutexFree /\ ~underVariation => \A i \in unserved : index[i] = "Syncing"

\* The Swarm resource never shows a version the workers' ConfigMap has not
\* had, whatever call of Assign failed half way.
SwarmNotAhead == swarm.version <= configMap.version

\* Pods are restarted for an association only after the attempt to publish it:
\* a goroutine of the current version cannot exist while that version's
\* ConfigMap or Swarm call is still to be made.
RestartAfterPublish ==
    call.step \in {"configmap", "swarm", "mark"} =>
        \A r \in restarts : r.version < version

\* A size change marks every pooled worker that existed before it and outlives
\* it, although it counts positions in the sorted pool and not ordinals; when
\* the pool held exactly the previous workers it marks nobody else.
MarkStep ==
    call.step = "mark" /\ MutexFree' /\ call.previous # 0 =>
        LET survivors == {i \in Ordinals : i < call.previous /\ i < expectedSize}
        IN  /\ \A i \in survivors \cap Pooled : index'[i] = "NeedsRefresh"
            /\ Pooled = 0 .. call.previous-1 => unserved' \ unserved \subseteq survivors

SurvivorsMarked == [][MarkStep]_vars

-----------------------------------------------------------------------------
ConfigMapStore == INSTANCE AssignmentStore WITH
    Versions <- 0 .. MaxVersion, published <- configMap

SwarmStore == INSTANCE AssignmentStore WITH
    Versions <- 0 .. MaxVersion, published <- swarm

\* The ConfigMap keeps the promise of AssignmentStore to the workers that
\* read it, whatever calls to the API server fail.
ConfigMapImplementsStore == ConfigMapStore!Spec

\* So does the Swarm resource, although it may skip associations.
SwarmImplementsStore == SwarmStore!Spec

-----------------------------------------------------------------------------
\* A mark is not left lying: whatever requests fail, a restart is scheduled for
\* the worker, unless the mark is overwritten, the worker leaves the pool, the
\* size goes to 0 or the pool is terminated (README: "the operator calculates
\* what are the workers that must be refreshed due to config changes, as a
\* result the operator schedules Pod deletion").
MarkIsServed ==
    \A i \in Ordinals :
        i \in unserved /\ index[i] = "NeedsRefresh" ~>
            i \notin unserved \/ index[i] = "Syncing" \/ expectedSize = 0 \/ stopped

\* When the size has stopped changing, the ConfigMap and the Swarm hold the
\* association for it (README: "giving as a result an updated confimap that is
\* used by the workers").
StoresCatchUp ==
    <>[](configMap = Current /\ swarm = Current)
=============================================================================
