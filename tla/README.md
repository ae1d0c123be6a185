# A formal model of the K8s Swarm operator

These TLA+ modules model the K8s Swarm operator: the controller that divides a
list of jobs over the pods of a StatefulSet, and the worker process that reads
its share. TLC checks the modules on small instances; TLAPS proves the theorems
of the `*Proofs` modules for every value of the constants. `PROJECT.json` lists
components, runs, mutants, hazards, findings and theorems, and maps every
definition to the lines it models.

Paths below are relative to `src/`; `operator/` is
`services/controller/internal/infra/k8s/operator/` and `swarm/` is
`services/controller/internal/app/swarm/`.

## 1. Inventory

| Component | State | Operations | Model |
|---|---|---|---|
| workload state, `swarm/state.go` | the job list, the association worker -> jobs, its version | `NewState`, `BalanceWorkload` (with `cleanAssignations`), getters | `Balance`, `WorkloadState`, `Rebalancing` |
| worker pool, `swarm/pool.go`, `worker.go`, `executor.go` | expected size, version, `underVariation`, the index of workers, each worker's state | `UpdateExpectedSize`, `AddWorkerIfNotExists`, `RemoveWorkerByName`, `conciliate` (every 5 s), `requestRestart` (a goroutine), `Terminate` | `WorkerPool` |
| assignment storage, `operator/configmap`, `operator/crd` | the worker ConfigMap, the Swarm resource | `Set` of both, the middleware, `Get`, `initializeCRD`, `decode` | `WorkerPool`, `AssignmentStore`, `SwarmResource`, `AssociationRegister` |
| Swarm types and typed client, `infra/k8s/apis`, `generated/clientset` | the resource in the API server: spec, status, resourceVersion | `Create`, `Update`, `UpdateStatus`, `Patch`, `Delete`, `Get` | `SwarmResource` |
| event pipeline, `operator/controller.go`, `processor.go`, `resource_event_handler.go`, `event.go`, `selector.go` | informer store, work queue, event under way | `Add`, `Update`, `Delete`, `processNextItem`, `handleError`, `Handle`, `Validate` | `EventPipeline` |
| Pod handler, `operator/pod/handler.go` | none; writes the pool's index | `Created`, `Updated`, `Deleted` | `PodEvents` |
| StatefulSet handler, `operator/statefulset/handler.go` | none; writes the pool's size | `Created`, `Updated`, `Deleted` | `StatefulSetEvents` |
| worker process, `services/worker`, `pkg/infra/transport/http/health.go` | viper's configuration, `workloadsConfig`, `App.state`, file watchers | `LoadConfig`, `OnConfigChange`, `Assign`, version and health endpoints | `WorkerProcess`, `System` |
| controller process, `cmd/internal.go`, `cmd/external.go`, `operator/pod/provider.go` | the job list, and all of the above, which ends with it | start, end, `RefreshPod` | `System` |
| configuration comparison, `pkg/config/config.go` | none | `Equals` of both types, `Difference` | `Comparison`, `Rebalancing` |
| list watchers, Swarm handler | none of their own | `List`, `Watch` | the lists a new process starts from in `System`, the deltas in `EventPipeline` |
| other generated code, flags, logging, HTTP servers, version client | none of their own | | not modelled, see section 6 |

How they interact. The API server's watch feeds two pipelines. Each has an
informer goroutine, which stores an object and then calls `Add`, `Update` or
`Delete`, and a controller goroutine, which takes one event at a time and calls
the handler. The StatefulSet handler calls `UpdateExpectedSize`, the Pod handler
adds and removes workers. A size change rebalances the jobs, writes the
association to the ConfigMap and then to the Swarm resource, and marks the
workers that were there before it. The conciliation loop starts one goroutine
per marked worker, which sleeps, deletes the pod and marks the worker
refreshed. The kubelet carries the ConfigMap into the workers' volumes; a worker
process reads it when it starts and when viper sees the file change.

What is hard in this system:

- **Numeric edges.** Sizes that do not divide the jobs, larger than the list, zero.
- **Interleaving.** Four kinds of thread meet in the pool; the goroutines that
  restart workers never take `p.mutex`.
- **Partial failure.** Two stores written in turn, errors that are only logged,
  a size remembered before it is published.
- **Ordering and staleness.** Events carry copies of objects; the decision between
  `Created` and `Deleted` is made from a store that has moved on; StatefulSet
  pods use the same name again and again; a pod may start, and read the old
  file, while the workers are being marked.
- **Two writers.** A Deployment starts the new controller before the old one has
  ended, and both write the Swarm with Get and Update.
- **Crash and loss.** A broken watch loses deltas; a deletion learnt from a list
  panics the informer; a restarted controller has an empty pool.
- **Retries and timers.** Requeues with a limit, a loop that fires for ever.
- **Reload.** Each load of the worker's file starts another watcher, and the
  watchers share viper's state without a lock.

What makes each component correct, in short: the association is a function of
jobs and size, in range, fair, and complete where the division is even; the pool
marks the workers a change affects, restarts each of them and none too often,
and never before the association is written; each store only ever shows whole
associations under growing versions, and a write never replaces what it has not
read; what the pipelines deliver ends in the state of the cluster; a worker ends
with the configuration of its file and never loses its workload while it lives; together, the
cluster settles with pods, pool and stores in agreement.

## 2. Modules

| Module | Models | Remarks |
|---|---|---|
| `Balance` | arithmetic of `BalanceWorkload` | pure operators on a job list |
| `WorkloadState` | `state`: `jobs`, `workloads`, `configVersion` | what `BalanceWorkload` and `NewState` do to them, for use in actions |
| `Comparison` | `Difference` and `Equals` of workloads and associations | pure operators |
| `Rebalancing` | the state alone, under any sequence of sizes, each association compared with the next | |
| `AssignmentStore` | abstract: what a store promises its readers | refined twice by `WorkerPool` |
| `WorkerPool` | pool, executor and both providers | one action per lock section, request or goroutine step |
| `SwarmResource` | the Swarm in the API server and `Set`, request by request | two controllers, other clients |
| `AssociationRegister` | abstract: what `Set` promises its callers and the Swarm's readers | refined by `SwarmResource` |
| `EventPipeline` | callbacks, queue, retries, dispatch, with the informer as environment | extended by the next two |
| `PodEvents` | the pipeline with the Pod handler and the pool's index | |
| `StatefulSetEvents` | the pipeline with the StatefulSet handler and the pool's size | |
| `WorkerProcess` | the worker's main goroutine and its watchers | |
| `System` | `WorkerPool` with the StatefulSet's pods, worker processes and pipelines around it, and a controller that restarts | composes the rest |
| `MC...` | constants for TLC | |
| `WorkloadStateProofs`, `RebalancingProofs` | lemmas on the arithmetic, and theorems about `Rebalancing` | |
| `WorkerPoolProofs` | theorems about `WorkerPool` and `System`, which extends it | |
| `SwarmResourceProofs`, `WorkerProcessProofs` | theorems about the module they are named for | |
| `EventPipelineProofs` | lemmas on the pipeline, whatever handler it calls | used by the next two |
| `PodEventsProofs`, `StatefulSetEventsProofs` | theorems about the two pipelines | |

**Workload state.** `jobs` is `state.jobs`: jobs are numbered by position, since
no code looks at their names. `workloads` is the map of the Go struct, from
worker ordinal to its slice; `configVersion` is `config.Version`, which stays
as it was when the size is 0. `Balanced` is the loop and its early return,
`CleanAssignations` the deletion that counts from the size to the length of the
map.

**Pool.** Variables carry the names of the fields. `index` holds the state of
each worker object, or that there is none. Everything done under `p.mutex` is
one step, except `UpdateExpectedSize`: it sends two requests under the mutex, so
it is four steps, `call` says which is next, and every other action that takes
the mutex waits. Goroutines are records in `restarts`. `live` says whether the
worker object a goroutine captured is still the pooled one: a worker that left
and came back is a new object, and the goroutine then writes to the old.
A request is applied, refused, or applied with its answer lost.
`attempts` and `unserved` are history.

**Pipelines.** An object is its incarnation (`uid`), what the handler can tell
apart in it (`state`) and whether it carries the label. Per name, `watch` is
what the informer has still to handle, oldest first. The informer's two steps are
`Store` and `Notify`; the controller's are `Take` (with the lookup) and `Handle`.
`Relist` is a lost watch: deltas under way are lost, those the informer had not
handled yet included, the informer gets the present objects as updates, and a
tombstone for each that disappeared.
`resourceEventHandler.Delete` asserts `runtime.Object` of what it gets, so the
tombstone panics: `crashed`. `Restart` starts the process with an empty store,
queue and pool. A pod's states are the combinations the four predicates of
`pod/handler.go` distinguish, and they follow the kubelet's order; a pod that is
deleted before it starts simply disappears, since it is never pooled.

**Worker.** Threads are the main goroutine and the watchers. `LoadConfig` is
four steps: the file is read, viper's configuration is replaced (no lock), and
`Unmarshal` looks up keys under `workloadsMutex` while other threads may replace
viper's configuration, so the version and the jobs may come from two files:
`Unmarshalled` chooses. Decoding into the same map adds hosts and never removes
one (`Merged`). `WatchConfig` at the end of each load starts another watcher.
`HostWorkLoad` reads under the same mutex. The version endpoint asks for the
workload twice without holding it in between: `TestWorkload`, `ReadWorkload`. One
request at a time is enough, since requests share nothing but what they read.

**Comparison.** A `Workload` is the set of its jobs: `toMap` makes sets of both
lists. `WorkloadsEquals` is `Workloads.Equals`, which ranges over the receiver's
workers only. `Rebalancing` compares each association with the one that follows
it, in both directions.

**Swarm resource.** `swarm` is the stored object, `revision` the counter of the
API server, and `sets` where each controller is in its call of `Set`: `Get`,
then `Create` (that is `initializeCRD`) if `Get` failed with any status error,
then `Update` of the object that was answered. A request may be refused, or
applied with its answer lost. `Update` is applied only if the object still has
the resourceVersion that was read, and the error is returned, not retried.
Status is a subresource, so `Update` leaves it alone. `Specs` lists the specs
one association can become, because `Set` ranges over a map; `Decode` reads one
back. `ExpectedSize`, which `Set` never writes, is left out. `MayCreate` says
whether Swarms may be created at all: `k8s/rbac.yaml` grants no such right, so
in the cluster `initializeCRD` is refused; the external command runs with its
user's rights. The proofs hold for both values, TLC runs with TRUE,
where there is more behaviour.

**System.** It extends `WorkerPool`, whose actions it conjoins with what they
meet in the cluster. Beside the pool there are the StatefulSet's size, its pods
with the jobs of the worker in each, what the kubelet has last mounted in each
(`mounted`), and the events on their way to the two handlers. Pods are created in
ordinal order, each after the one before it is ready, and removed in the opposite
order. A pod's phase follows its container: it starts, loads its file (`LoadConfig`),
and serves the health endpoint its readiness probe asks (`Serve`).

Where things go wrong in the cluster:

- The ConfigMap reaches a pod's volume some time after it is written, in
  `UpdateVolume` (README.md:22). A worker that starts before that loads the old
  file, also when it was restarted because of the new one.
- A change of the file after a worker's first load and before its callback is
  registered may be missed for good (`Serve`).
- A container may end and run again in the same pod (`RestartContainer`), and the
  informer may or may not see it.
- `DeletePod` deletes the pod that has the name by then. The request may be
  refused, or run into its timeout of a second; its answer may be lost. If there
  is no such pod it is refused.
- `RestartController` ends the controller's process between any two steps and starts
  it again with the job list read anew, an empty pool at size 0 and version 0, and
  the events of what it lists.

`leftBehind` is history: which of these last kept a worker from the ConfigMap's jobs.

Three abstractions keep it small enough to check:

- The pipelines deliver every event of an object, late and in order, as
  `PodEvents` and `StatefulSetEvents` show when no watch is lost. What is done
  about a pod's event depends on whether the informer knows the name by the time
  it is handled; `HandlePod` takes either where later events make either
  possible, which includes the phantoms of `pod_events_phantom`.
- A worker that has jobs keeps them until its container ends, since `App.Assign`
  keeps its first workload; a worker without jobs loads again when it is told of
  a change. `WorkerProcess` has the watchers and threads behind this.
- The requests to the two stores succeed; `WorkerPool` has the faults.

## 3. Runs

Passing runs:

| Run | Question | Bounds |
|---|---|---|
| `rebalancing` | is the association right after any sequence of sizes, and does `Equals` tell two of them apart? | several lengths of the job list, none among them, with sizes below, at and above them |
| `pool_safety` | do size changes, pod events, ticks, goroutines and API failures leave the pool and both stores consistent, and are the right workers marked? | 2 workers, 4 size changes, 5 jobs: a change can meet goroutines of two earlier ones, and every failure of a request. At these sizes a worker that a change keeps has ordinal 0, which is its position in any pool; pools with gaps are left to the theorem |
| `pod_events` | does the pool end with the pods that are there? | one name, 7 changes of the pod, lost watches and restarts, 4 events under way |
| `statefulset_events` | does the pool end with the StatefulSet's size, and is every change handled, also when lookups fail? | one StatefulSet, sizes 0 to 2, 3 changes: scaled, deleted and created again, with an event failing to the end while others pass it |
| `worker_process` | do workers end with the mounted configuration, and does the version endpoint find what it tested for? | 3 changes of the file, up to 8 watchers, one restart: the third change is the first that two running watchers can disagree about |
| `swarm_api` | is `Set` of the Swarm atomic beside a second controller and other clients? | 2 controllers, 5 writes, three associations, one of them empty, two of one version: enough for a whole call, with its `Create`, to fit between another's `Get` and `Update` |
| `system` | does the cluster settle, with pods, pool and stores in agreement, and which workers are left behind? | 2 workers, 5 jobs, 2 scalings and 1 restart of the controller or of a container in any order, deletions that fail: up and down again or further up, interrupted anywhere |

One name is enough in the pipelines because the handlers never relate two names:
events of different names share only the queue, and waiting behind another
name's event is the same as waiting. (Names do meet in the pool's size when there are
two labelled StatefulSets: the hazards say what happens then.) Sizes up to 2 suffice for the pool's interleavings
because goroutines of different workers touch different worker objects.
In `system`, what leaves a worker behind is reached in each of four ways: passed
over, not deleted, an old volume, a missed change. Three things are not reached at
these bounds and rest on the theorem `StaleExplainedCorrect`: a mark overwritten by
an older goroutine takes a third size change (`pool_safety` reaches it), a
restarted controller finds the same job list, and of several containers only
one restarts. No request to a store fails in this run. `MarkIsServed` speaks of one
controller's marks: a new one starts with none, so what the old one forgets counts as
served.

`CHECK_DEADLOCK FALSE` is set for the pipelines, the worker, the system and the
Swarm resource, which have nothing left to do once the cluster has stopped
changing or the bound on writes is used up; that they do not stop earlier is
what their liveness properties say, where they have any. The pool is checked for
deadlock.

Properties worth a word:

- `NoForgottenMark`: a mark without a restart is always one that an older
  goroutine overwrote with `Syncing`, because `MarkRefreshed` does not take
  `p.mutex`. `MarkIsServed` says that there is no other way to lose one, and that
  the rest get their restart, also in a controller that dies in between.
- `AllWorkersCurrent` and `StaleExplained`: the first, what README.md:112 promises,
  does not hold, although workers that loaded an old volume are left out of it
  because README.md:22 grants them; the second lists why. When nothing is under
  way, a worker has other jobs than the ConfigMap gives it, or none, only if
  - the last size change could not reach it: it was starting, or its event was not
    handled yet, or the previous size had no place for it, as size 0 in a
    restarted controller has for nobody (`passedOver`);
  - the deletion of its pod was refused or timed out (`notDeleted`);
  - it loaded its file before the volume was up to date (`oldVolume`);
  - its file changed while it started and no watcher told it (`missed`);
  - or an older goroutine overwrote its mark (`unserved`).

  In particular a restart that hits a later pod of its name does no harm, phantoms
  leave nobody behind, and neither does a container that ends in a pod of an
  up-to-date volume.
- `ClusterSettles`: from any mixture of scalings, failed deletions and restarts, pods,
  pool, Swarm and ConfigMap end in agreement. That a worker is refreshed, or has
  jobs at all, is not part of it: a deletion that fails is not tried again, and a
  worker that missed a change of its file waits for the next.
- `RestartBudget`: neither the timer nor pods that come and go cause a restart
  more than once per size change.
- `ConfigMapImplementsStore`, `SwarmImplementsStore`: refinements of
  `AssignmentStore`. Whatever fails, what a store shows is one whole association,
  under a version nobody has seen before, except that the association of an
  empty pool may come under the version it replaces.
- `ReadyIsPooled`, `GoneIsNotPooled`, `SizeSettles` speak of moments when nothing
  about the name is under way and no event has failed (`Settled`);
  `ChangesAreHandled` says that moments with nothing under way come. Lookups in
  the real indexer do not fail, but `Handle` may return an error and the
  controller is written for that: a requeued event can be overtaken, and is
  dropped after six attempts.
- `NoOlderIncarnation` is what makes handling old copies of objects bearable:
  they are old, but in order.
- `NoLostUpdate`, `NotReinitialised`, `SetIsAtomic`: the resourceVersion is what
  makes `Set` safe beside another controller. `Set` takes any status error of
  `Get`, also an overloaded server's, for a missing Swarm; that this never empties
  a Swarm that is there rests on `Create` refusing to replace it.
  `SetIsAtomic` is the refinement of `AssociationRegister`: a call either takes
  effect once, somewhere between its start and its end, or not at all, and when
  it reports an error either may be true.
- `EqualsBothWays`, `EqualsHidesOnlyIdle`: `Workloads.Equals` is not symmetric. Used
  both ways it is equality; used one way it can miss workers that have left, and
  then only workers without jobs or an emptied pool.
- `AnswerHasJobs`: the version endpoint dereferences the second of two answers
  because the first was not nil. It may, since decoding into the same map never
  removes a host.
- `ConfigCatchesUp` excludes one case, in the history variable `missed`: a change
  that comes after the worker's first read and before its callback is
  registered is never loaded.

Runs that TLC refutes, each the statement of a document, comment or test that
the code does not keep (`findings` in `PROJECT.json` has the quotations):

| Run | What the code does |
|---|---|
| `rebalancing_partition` | with a remainder, jobs go to two workers and as many at the end of the list to nobody |
| `pool_store_faults` | a failed write of an association is not retried |
| `pod_events_phantom` | a deletion handled late pools the pod that is gone |
| `worker_reload` | the application keeps its first assignment |
| `system_stale` | without any fault, a worker whose event is handled after the marks keeps the jobs of the size before |

Every property of a passing run has a mutant: a definition with a plausible bug
under which TLC finds the property violated. Mutated forms are the operators
commented "Faulty variant".

## 4. Fairness

- Pool: a call that holds the mutex goes on (client-go's requests end), the
  conciliation timer keeps firing, and a goroutine's sleep ends. Weak fairness on
  each goroutine's worker is enough, as nobody competes with it. Sizes, pods and
  `Terminate` are the environment's and get none.
- Pipelines: both goroutines are loops (`wait.Until`, the informer's `Run`), the
  rate limiter's delays end, and the Deployment starts a crashed controller
  again. Pods, broken watches and failing lookups get none.
- Worker: each goroutine goes on. The file and restarts get none.
- System: the pool's fairness; the StatefulSet controller, the kubelet (which starts
  containers and brings volumes up to date) and the worker processes do their
  work, per pod where pods do not wait for each other, and each handler's
  events are handled (weak fairness per pod is enough: a pod's event can only be
  delayed by the mutex, and `ClusterSettles` needs only that disturbances end,
  which the bounds say). Scalings, and restarts of the controller and of containers,
  get none.
- Swarm resource: none, it has safety properties only.

## 5. Proofs

Every invariant and every action property of the passing runs is a theorem as
well. All constants are arbitrary; the assumptions are the named ASSUMEs of the
modules (sizes and ordinals are naturals, 0 is a size, the set of ordinals is
finite, `KeysAssumption`: the value that stands for "no event" is no name,
`StatesAssumption`: a pod is in one of the states the handler tells apart),
which TLC evaluates in the runs. Three theorems have a hypothesis of their own,
named below with its reason. Each inductive invariant was checked by TLC on the
bounds of its component's run before it was proved.

**Workload state.** `WorkloadStateProofs` has the arithmetic: `DivMod` and `PartOf`
about the quotient and remainder, `SliceBounds` (a slice never leaves the list),
`EvenSlices` (with no remainder every job is in exactly one), `PrefixAssigned`
(what is lost is a tail) and `IntervalCount`, `SliceCount` for counting jobs.

`RebalancingProofs`. `IInv` is the types with `Deterministic`: the association is
the one a fresh state computes for the last size. The types alone are not
enough: `CleanAssignations` counts from the new size to the number of entries,
which is right only when the entries are the first ordinals, and that is what
`Deterministic` says before the step. `Deterministic`, `SlicesInRange`, `FairSizes`,
`PartitionWhenEven` and `LostJobsAreTheTail` follow from it and the lemmas.
`EqualsBothWays` rests on `WorkloadEqualsIsEquality`: sets of one size whose
differences are empty are equal, and the two directions give equal domains.
`EqualsHidesOnlyIdle` rests on `SmallerPool`: if the first m of n workers have what
m workers would have, quotient and remainder of the two divisions leave
nothing for the others.

**Pool.** The safety properties are not inductive. `IInv` adds to the types:

- `Locking`: while a size change is under way the variation is open and no
  goroutine is of its version, at other times none is of a later version than the
  pool's. `RestartAfterPublish` is part of it.
- `Budget`: the first size change marks nobody, since it starts from size 0, and
  after it each name has been scheduled fewer times than there are versions, with
  one to spare while a variation is open. `RestartBudget` alone is not inductive:
  it does not say that the open variation is still to be paid for.
- `Marks`: `NoForgottenMark`, and that a mark not yet served can only have become
  `Syncing`.
- `Computed`: the pool's association is the one for its size.
- `Published`: the versions of Swarm, ConfigMap, association and pool are in that
  order, and strictly so while a request is still to be made; the Swarm is
  written only after the ConfigMap has been given the current association.

From it follow `RestartBudget`, `NoForgottenMark`, `SwarmNotAhead` and
`RestartAfterPublish`; `SurvivorsMarked` is an action property and rests on the
counting lemma that among the pooled workers, one with an ordinal below k is
among the first k. `ConfigMapImplements` and `SwarmImplements` prove the two
refinements of `AssignmentStore`, step by step.

**System**, in the second half of `WorkerPoolProofs`. A restarted controller begins
with version 0 over stores that are ahead of it, so `Published` does not survive;
the rest of the pool's invariant, `PoolInv`, says nothing of the stores and does
(`PoolInCluster`), and with it `PoolSafeInCluster`. `SystemInv` adds:

- `SystemTypes`: what is in the pods and their volumes, on its way in both pipelines,
  and in the ConfigMap. `SystemTypeOK` follows.
- `SizesFollow`: the pool has the StatefulSet's size, or the last size event is it.
- `PodFollows`: the pool has a ready worker, or the last event of its name is
  that it got ready.
- `StaleCovered`: a worker that has other jobs than the ConfigMap's, or serves without
  jobs although its file has some, and for which `leftBehind` has no reason, is in
  one of three situations: a size change holds the mutex and has still to write
  its marks; the size has no place for the worker (0 in a new controller has for
  nobody), so that the change that makes one passes it over; or it is pooled, nothing
  that is still to be handled takes it out (`StaysPooled`), and it is marked, or a
  restart of its name sleeps (`Scheduled`). When nothing is under way none of the three
  is left but the mark, which is `StaleExplained`.

Three steps matter. `WriteMarks`: a worker within reach is ready or pooled and has
no event under way, so it is pooled by `PodFollows`, and `KeptAreMarked` has it marked.
`HandlePod`: of a name with nothing but "ready" to come it only finds the worker
pooled, so the mark stays. `DeletePod`: the restart that leaves either takes the pod
with it or is remembered in `leftBehind`. `StaleSteps` says that all other steps leave
a stale worker what it was.

`SystemImplementsPool` shows that as long as the controller does not restart,
`System` implements `WorkerPool`, so all of the pool's theorems hold there, those
about the stores too. Its hypotheses are that restarts are switched off, which
break `Published` as said above, and that deletions of pods may fail: a restart
that finds no pod is a failed one, whatever the API server does.

**Swarm resource.** `IInv` is the types with

- `Versions`: a copy with the stored object's resourceVersion is the stored object.
  This is why a `Put` that is accepted replaces what was read, and the
  resourceVersion, never the content, is compared.
- `InCall`: a call that is under way has no result yet.

From it follow `NoUpdateLost` and `NeverReinitialised`. `DecodeSpecs` says that
whatever order the members are listed in, reading them back gives the
association; with it `SetImplementsRegister` maps each request to a step of the
register or to a stutter. Associations are finite functions with a positive
version (`AssociationsAssumption`), which is what the pool publishes.

**Worker process.** `IInv` is the types with those of the threads' places.
`HolderStays` carries the claim that exactly the mutex holder decodes over every
step that neither starts nor ends decoding. `AnswerHasJobs` is inductive by
itself; it rests on `HostKept`: only the end of the process takes the host's
workload away. For `WatchersDouble` the invariant is `WatchersBounded`: watchers
that run, notifications pending and loads under way are together at most two to
the file's version. A change of the file makes a notification pending for each
watcher at most, which doubles the sum; a load that ends starts one watcher, and
stops being a load.

**Pipelines.** `EventPipelineProofs` describes every step of a pipeline whose
handler is left open, by `PipelineStep` and by what a change in the cluster may
do; the two component proofs add what their handler does. Two arguments:

- *Settling*, for `ReadyIsPooled`, `GoneIsNotPooled` and `SizeSettles`. `Delivery`: the
  deltas still to be handled end in the object the cluster has, a name comes and
  goes in turn, and the notification under way is of what is stored.
  `Queueing`: as long as no event has failed, the last event queued or being
  handled carries the stored object, and one that was taken decided between
  `Created` and `Deleted` from it. Then, when nothing of a name is under way,
  store and cluster agree (`SettledIsFree`), and `PoolSettles` and `SizeAgrees`
  relate the store to what the handler did last. None of these holds by itself:
  an event queued behind another of its name may be handled with the object of
  the later one already stored, and only the later event makes it good.
- *Order*, for `NoOlderIncarnation`. `Coming(k, u)` says that nothing the informer
  still has of a name is older than incarnation u. Watch, store, notification,
  queue and the event being handled are in the order of incarnations
  (`WatchInOrder`, `DeltasInOrder`, `EventsInOrder`), and the pool's is at most as
  old as all of them (`PoolInOrder`).

`NoOlderIncarnation` holds until an event fails (`NoOlderIncarnationUntilRetry`):
a requeued event is overtaken. `NamesAreNotGivenBack` says the same without that
condition, with the hypothesis that lookups in the indexer do not fail, as the
real ones do not. `ExpectedSizeSettles` has the hypothesis that there is one
StatefulSet of the app: with two the last event wins, which is in the hazards.

Only model-checked: liveness (`MarkIsServed`, `ClusterSettles`, `ChangesAreHandled`,
`ConfigCatchesUp`), which the provers do not reach.

## 6. Not modelled, and planned

Left out for good:

- Logging, formatting, flags, RBAC and the wiring of the HTTP servers: no state, or
  none that a property is about.
- Generated code beyond the Swarm client's requests: deep copies, constructors,
  fakes for tests, and informers and listers, which the program never uses
  (its informers are built in `operator/processor.go`).
- `executor.Assignation`, the version client, the event types of `swarm/events.go`
  and the ConfigMap provider's `Get`: built but never called.
- Shutdown of the queues; `App.Run` and `App.Terminate`, which are empty.
- A request that never ends: every thread that wants the mutex then waits by
  construction, which nothing in the repository denies.
- That one answer of the version endpoint may mix the jobs of one configuration
  with the version of another: no document says otherwise.
- Two labelled StatefulSets: both write the one expected size and the last event
  wins.

Possible next steps, in this order:

1. A proof that `System`'s abstraction of the two pipelines is one: that each step
   of `PodEvents` and `StatefulSetEvents`, while no watch is lost, is what `HandlePod`
   and `HandleSize` allow.
2. Restarts of the controller while requests to the stores fail, and three workers,
   where a run of a few minutes allows it.
