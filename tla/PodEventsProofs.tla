-------------------------- MODULE PodEventsProofs --------------------------
(***************************************************************************)
(* Proofs about the Pod pipeline, for any number of names, changes and     *)
(* events under way.  EventPipelineProofs has what does not depend on the  *)
(* handler.                                                                *)
(***************************************************************************)
EXTENDS PodEvents, EventPipelineProofs

USE StatesAssumption

-----------------------------------------------------------------------------
(* Types.                                                                  *)

PodTypes ==
    /\ Types
    /\ pool \in [Keys -> 0 .. changes]
    /\ newest \in [Keys -> 0 .. changes]
    /\ escaped \in SUBSET Keys

\* The environment's steps are changes of one pod, by an object that is absent,
\* a new incarnation, or the pod as it was but for its state or label.
PodChange(k, object) ==
    /\ Change(k, object)
    /\ object \in Stored'
    /\ ~Exists(object) => Exists(cluster[k])
    /\ Exists(object) => object.uid = changes + 1 \/ object.uid = cluster[k].uid
    /\ UNCHANGED <<pool, newest>>
    /\ \/ HasLabel(cluster[k]) => HasLabel(object)
       \/ k \in escaped'
    /\ escaped \subseteq escaped' /\ escaped' \in SUBSET Keys

PodEnvironment(k) == CreatePod(k) \/ PodChanges(k) \/ PodGone(k) \/ Unlabel(k)

LEMMA EnvironmentChanges ==
    ASSUME PodTypes, NEW k \in Keys, PodEnvironment(k)
    PROVE  \E object : PodChange(k, object)
<1> DEFINE pod == cluster[k]
<1>1. Types /\ pod \in Deltas /\ escaped \in SUBSET Keys  BY DEF PodTypes, Types, Deltas
<1>2. ASSUME NEW object, Change(k, object)
      PROVE  /\ Known \subseteq Stored'
             /\ [uid |-> changes + 1, state |-> "pending", labelled |-> TRUE] \in Stored'
  <2>1. changes \in Nat /\ changes' = changes + 1  BY <1>1, <1>2 DEF Change, Types
  <2>2. Known \subseteq Known'  BY <1>1, <2>1, KnownGrows
  <2>3. changes + 1 \in 1 .. changes'  BY <2>1
  <2>4. [uid |-> changes + 1, state |-> "pending", labelled |-> TRUE] \in Known'
    BY <2>3 DEF Known, PodStates
  <2> QED  BY <2>2, <2>4 DEF Stored
<1>3. CASE CreatePod(k)
  <2> DEFINE new == [uid |-> changes + 1, state |-> "pending", labelled |-> TRUE]
  <2>1. Change(k, new) /\ UNCHANGED <<pool, newest, escaped>>  BY <1>3 DEF CreatePod
  <2>2. new \in Stored'  BY <1>2, <2>1
  <2>3. Exists(new) /\ HasLabel(new)  BY <1>1 DEF Exists, HasLabel, Types
  <2> QED  BY <1>1, <2>1, <2>2, <2>3 DEF PodChange
<1>4. CASE PodChanges(k)
  <2>1. Exists(pod) /\ pod \in Known  BY <1>1, <1>4, KnownExist DEF PodChanges
  <2>2. PICK s \in Becomes[pod.state] : Change(k, [pod EXCEPT !.state = s])
    BY <1>4 DEF PodChanges
  <2> DEFINE new == [pod EXCEPT !.state = s]
  <2>3. s \in PodStates  BY <2>1, <2>2 DEF Known, Becomes, PodStates
  <2>4. new \in Known /\ new.uid = pod.uid /\ new.labelled = pod.labelled
    BY <2>1, <2>3 DEF Known
  <2>5. new \in Stored'  BY <1>2, <2>2, <2>4
  <2>6. Exists(new) /\ (HasLabel(pod) => HasLabel(new))  BY <2>1, <2>4 DEF Exists, HasLabel
  <2> HIDE DEF new
  <2> QED  BY <1>1, <1>4, <2>2, <2>4, <2>5, <2>6 DEF PodChange, PodChanges, new
<1>5. CASE PodGone(k)
  <2>1. ~Exists(Absent)  BY Sentinels DEF Exists
  <2>2. Change(k, Absent) /\ Exists(pod) /\ UNCHANGED <<pool, newest, escaped>>
    BY <1>5 DEF PodGone
  <2>3. Absent \in Stored'  BY DEF Stored
  <2> QED  BY <1>1, <2>1, <2>2, <2>3 DEF PodChange, HasLabel
<1>6. CASE Unlabel(k)
  <2>1. pod \in Known
    <3>1. pod \in Stored /\ pod.labelled  BY <1>1, <1>6 DEF Unlabel, Types
    <3> QED  BY <1>1, <3>1, KnownExist
  <2> DEFINE new == [pod EXCEPT !.labelled = FALSE]
  <2>2. Change(k, new) /\ UNCHANGED <<pool, newest>> /\ escaped' = escaped \cup {k}
    BY <1>6 DEF Unlabel
  <2>3. new \in Known /\ new.uid = pod.uid  BY <2>1 DEF Known
  <2>4. new \in Stored'  BY <1>2, <2>2, <2>3
  <2>5. Exists(new)  BY <1>1, <2>1, <2>3, KnownExist DEF Exists
  <2> HIDE DEF new
  <2> QED  BY <1>1, <2>2, <2>3, <2>4, <2>5 DEF PodChange
<1> QED  BY <1>3, <1>4, <1>5, <1>6 DEF PodEnvironment

\* Each step of the specification.
LEMMA PodSteps ==
    ASSUME PodTypes, Next
    PROVE  \/ \E k \in Keys : \E object : PodChange(k, object)
           \/ PipelineNext /\ UNCHANGED <<pool, newest, escaped>>
           \/ Handle
           \/ RestartController
BY EnvironmentChanges DEF Next, PodEnvironment

\* What the handler may do to the pool.
LEMMA HandleOutcome ==
    ASSUME PodTypes, Handle
    PROVE  LET k == handling.event.key
               pod == handling.event.obj
           IN  /\ k \in Keys /\ pod \in Known /\ Handled /\ escaped' = escaped
               /\ pool' \in [Keys -> 0 .. changes] /\ newest' \in [Keys -> 0 .. changes]
               /\ \A l \in Keys : l # k => pool'[l] = pool[l] /\ newest'[l] = newest[l]
               /\ ~handling.exists => pool'[k] = 0
               /\ handling.exists /\ pod.state = "ready" => pool'[k] # 0
               /\ \/ pool'[k] \in {0, pool[k]} /\ newest'[k] = newest[k]
                  \/ /\ pool[k] = 0 /\ pool'[k] = pod.uid
                     /\ newest'[k] = IF pod.uid > newest[k] THEN pod.uid ELSE newest[k]
<1> DEFINE k == handling.event.key
           pod == handling.event.obj
<1>1. handling \in [event : Events, exists : BOOLEAN]
  BY DEF Handle, Handled, PodTypes, Types
<1>2. /\ k \in Keys /\ pod \in Known /\ handling.exists \in BOOLEAN
      /\ pod.uid \in 1 .. changes
  BY <1>1 DEF Events, Known
<1>3. changes \in Nat  BY DEF PodTypes, Types
<1>4. pool \in [Keys -> 0 .. changes] /\ newest \in [Keys -> 0 .. changes]  BY DEF PodTypes
<1>5. \/ /\ ~handling.exists /\ Deleted(k)
      \/ /\ handling.exists /\ handling.event.kind = "event" /\ Created(k, pod)
      \/ /\ handling.exists /\ handling.event.kind = "update"
         /\ Updated(k, pod, handling.event.old)
  BY DEF Handle, Called
<1>6. \/ /\ ~(handling.exists /\ pod.state = "ready")
         /\ pool' = [pool EXCEPT ![k] = 0] /\ newest' = newest
      \/ /\ handling.exists
         /\ \/ pool' = pool /\ newest' = newest /\ (pod.state = "ready" => pool[k] # 0)
            \/ /\ pool[k] = 0 /\ pool' = [pool EXCEPT ![k] = pod.uid]
               /\ newest' = [newest EXCEPT ![k] = IF pod.uid > @ THEN pod.uid ELSE @]
  BY <1>5 DEF Deleted, Created, Updated, RemoveWorkerByName, AddWorkerIfNotExists,
              isReadyPod, isReady, hasDeletionTimestamp, isTerminated
<1>7. Handled /\ escaped' = escaped  BY DEF Handle
<1>8. CASE ~(handling.exists /\ pod.state = "ready")
           /\ pool' = [pool EXCEPT ![k] = 0] /\ newest' = newest
  BY <1>2, <1>3, <1>4, <1>7, <1>8
<1>9. CASE handling.exists /\ pool' = pool /\ newest' = newest
           /\ (pod.state = "ready" => pool[k] # 0)
  BY <1>2, <1>3, <1>4, <1>7, <1>9
<1>10. CASE /\ handling.exists
            /\ pool[k] = 0 /\ pool' = [pool EXCEPT ![k] = pod.uid]
            /\ newest' = [newest EXCEPT ![k] = IF pod.uid > @ THEN pod.uid ELSE @]
  <2> HIDE DEF k, pod
  <2>1. pool' \in [Keys -> 0 .. changes] /\ newest' \in [Keys -> 0 .. changes]
    BY <1>2, <1>3, <1>4, <1>10
  <2>2. /\ pool'[k] = pod.uid /\ pod.uid # 0
        /\ newest'[k] = IF pod.uid > newest[k] THEN pod.uid ELSE newest[k]
        /\ \A l \in Keys : l # k => pool'[l] = pool[l] /\ newest'[l] = newest[l]
    BY <1>2, <1>3, <1>4, <1>10
  <2> QED  BY <1>2, <1>7, <1>10, <2>1, <2>2 DEF k, pod
<1> QED  BY <1>6, <1>8, <1>9, <1>10

LEMMA InitPodTypes == Init => PodTypes
<1> SUFFICES ASSUME Init PROVE PodTypes  OBVIOUS
<1>1. Types  BY InitTypes DEF Init
<1>2. changes = 0  BY DEF Init, PipelineInit
<1> QED  BY <1>1, <1>2 DEF Init, PodTypes

LEMMA NextPodTypes == PodTypes /\ [Next]_vars => PodTypes'
<1> SUFFICES ASSUME PodTypes, [Next]_vars PROVE PodTypes'  OBVIOUS
<1>1. Types /\ changes \in Nat /\ pool \in [Keys -> 0 .. changes]
      /\ newest \in [Keys -> 0 .. changes] /\ escaped \in SUBSET Keys
  BY DEF PodTypes, Types
<1>2. ASSUME Types', changes <= changes', UNCHANGED <<pool, newest>>, escaped' \in SUBSET Keys
      PROVE  PodTypes'
  <2>1. changes' \in Nat  BY <1>2 DEF Types
  <2>2. 0 .. changes \subseteq 0 .. changes'  BY <1>1, <1>2, <2>1
  <2> QED  BY <1>1, <1>2, <2>2 DEF PodTypes
<1>3. ASSUME NEW k \in Keys, NEW object, PodChange(k, object) PROVE PodTypes'
  <2>1. Types'  BY <1>1, <1>3, ChangeTypes DEF PodChange
  <2> QED  BY <1>1, <1>2, <1>3, <2>1 DEF PodChange, Change
<1>4. CASE PipelineNext /\ UNCHANGED <<pool, newest, escaped>>
  <2>1. Types'  BY <1>1, <1>4, StepTypes
  <2>2. changes <= changes'
    BY <1>1, <1>4 DEF PipelineNext, Informer, Retry, Relist, Notify, Store, Take, HandleError, Requeue
  <2> QED  BY <1>1, <1>2, <1>4, <2>1, <2>2
<1>5. CASE Handle
  <2>1. /\ Handled /\ escaped' = escaped
        /\ pool' \in [Keys -> 0 .. changes] /\ newest' \in [Keys -> 0 .. changes]
    BY <1>5, HandleOutcome
  <2>2. Types' /\ changes' = changes  BY <1>1, <2>1, StepTypes DEF Handled
  <2> QED  BY <1>1, <2>1, <2>2 DEF PodTypes
<1>6. CASE RestartController
  <2>1. Types'  BY <1>1, <1>6, RestartTypes DEF RestartController
  <2>2. changes <= changes' /\ changes' \in Nat
    BY <1>1, <1>6 DEF RestartController, Restart
  <2>3. 0 .. changes \subseteq 0 .. changes' /\ 0 \in 0 .. changes'  BY <1>1, <2>2
  <2> QED  BY <1>1, <1>6, <2>1, <2>3 DEF RestartController, PodTypes
<1>7. CASE UNCHANGED vars
  <2>1. UNCHANGED <<pipelineVars, pool, newest, escaped>>  BY <1>7 DEF vars
  <2>2. Types'
    BY <1>1, <2>1 DEF pipelineVars, informerVars, queueVars, processVars, Types,
       Known, Stored, Deltas, Events, Notifications
  <2>3. changes' = changes  BY <2>1 DEF pipelineVars
  <2> QED  BY <1>1, <2>1, <2>2, <2>3 DEF PodTypes
<1> QED  BY <1>3, <1>4, <1>5, <1>6, <1>7, PodSteps

\* Every variable of the Pod pipeline keeps its type: what is under way are
\* objects there have been, and a worker is pooled for one of them.
THEOREM PodTypeCorrect == Spec => []TypeOK
<1>1. PodTypes => TypeOK
  <2> SUFFICES ASSUME PodTypes PROVE TypeOK  OBVIOUS
  <2>1. changes \in 0 .. MaxChanges  BY DEF PodTypes, Types
  <2>2. 0 .. changes \subseteq 0 .. MaxChanges  BY <2>1, MaxChangesAssumption
  <2> QED  BY <2>2, TypesOK DEF PodTypes, TypeOK
<1> QED  BY <1>1, InitPodTypes, NextPodTypes, PTL DEF Spec

-----------------------------------------------------------------------------
(* Settling.                                                               *)

\* Once nothing of a name is queued or handled, the pool agrees with the
\* informer's store.
PoolSettles(k) ==
    ~crashed /\ ~requeued /\ Free(k) =>
      /\ Present(k) /\ indexer[k].state = "ready" => pool[k] # 0
      /\ ~Exists(indexer[k]) /\ k \notin escaped => pool[k] = 0

PodSettling == Settling(escaped) /\ \A k \in Keys : PoolSettles(k)

LEMMA InitPodSettling == Init => PodSettling
<1> SUFFICES ASSUME Init PROVE PodSettling  OBVIOUS
<1>1. Settling(escaped)  BY InitSettles DEF Init
<1>2. ASSUME NEW k \in Keys PROVE ~Exists(indexer[k]) /\ pool[k] = 0
  BY Sentinels DEF Init, PipelineInit, Exists
<1> QED  BY <1>1, <1>2 DEF PodSettling, PoolSettles, Present

\* The names whose pods may have lost their label are state; the lemmas of the
\* pipeline are about a constant.
LEMMA NextSettling == PodTypes /\ Settling(escaped) /\ [Next]_vars => Settling(escaped)'
<1> SUFFICES ASSUME PodTypes, Settling(escaped), [Next]_vars PROVE Settling(escaped)'
  OBVIOUS
<1>1. Types /\ escaped \in SUBSET Keys  BY DEF PodTypes
<1>2. PICK e \in SUBSET Keys : e = escaped  BY <1>1
<1>3. Settling(e)  BY <1>2
<1>4. ASSUME Settling(e)', escaped' = e PROVE Settling(escaped)'
  BY <1>4 DEF Settling, Delivery, Queueing, LastTaken
<1>5. ASSUME NEW k \in Keys, NEW object, PodChange(k, object) PROVE Settling(escaped)'
  <2>1. PICK f \in SUBSET Keys : f = escaped'  BY <1>5 DEF PodChange
  <2>2. Settling(f)  BY <1>2, <1>3, <1>5, <2>1, SettlingGrows DEF PodChange
  <2>3. k \notin f => HasLabel(cluster[k])  BY <2>2 DEF Settling, Delivery, Labelled
  <2>4. Settling(f)'
    BY <1>1, <1>5, <2>1, <2>2, <2>3, ChangeSettles DEF PodChange
  <2> QED  BY <2>1, <2>4 DEF Settling, Delivery, Queueing, LastTaken
<1>6. CASE PipelineNext /\ UNCHANGED <<pool, newest, escaped>>
  BY <1>1, <1>2, <1>3, <1>4, <1>6, StepSettles
<1>7. CASE Handle
  BY <1>1, <1>2, <1>3, <1>4, <1>7, StepSettles DEF Handle
<1>8. CASE RestartController
  BY <1>1, <1>2, <1>3, <1>4, <1>8, RestartSettles DEF RestartController
<1>9. CASE UNCHANGED vars
  <2>1. UNCHANGED <<cluster, watch, indexer, notifying, queueVars, processVars, escaped>>
    BY <1>9 DEF vars, pipelineVars, informerVars
  <2>2. Settling(e)'
    BY <1>3, <2>1, SameDelivery, SameQueueing DEF Settling
  <2> QED  BY <1>2, <1>4, <2>1, <2>2
<1> QED  BY <1>5, <1>6, <1>7, <1>8, <1>9, PodSteps

LEMMA NextPodSettling == PodTypes /\ PodSettling /\ [Next]_vars => PodSettling'
<1> SUFFICES ASSUME PodTypes, PodSettling, [Next]_vars, NEW k \in Keys PROVE PoolSettles(k)'
  BY NextSettling DEF PodSettling
<1>1. Types /\ Settling(escaped) /\ PoolSettles(k)  BY DEF PodTypes, PodSettling
<1> SUFFICES ASSUME ~crashed', ~requeued', Free(k)'
             PROVE  /\ Present(k)' /\ indexer'[k].state = "ready" => pool'[k] # 0
                    /\ ~Exists(indexer'[k]) /\ k \notin escaped' => pool'[k] = 0
  BY DEF PoolSettles, Exists
<1>2. ASSUME NEW l \in Keys, NEW object, PodChange(l, object)
      PROVE  /\ UNCHANGED <<indexer, pool, crashed, requeued>> /\ Free(k)
             /\ escaped \subseteq escaped'
  BY <1>2 DEF PodChange, Change, queueVars, processVars, Free, Waiting
<1>3. CASE \E l \in Keys : \E object : PodChange(l, object)
  BY <1>1, <1>2, <1>3 DEF PoolSettles, Present, Exists
<1>4. CASE PipelineNext /\ UNCHANGED <<pool, newest, escaped>>
  <2>1. /\ ~crashed /\ ~requeued
        /\ \/ Free(k) /\ indexer'[k] = indexer[k]
           \/ k \in escaped /\ ~Present(k)'
    BY <1>1, <1>4, QuietSteps
  <2> QED  BY <1>1, <1>4, <2>1 DEF PoolSettles, Present, Exists
<1>5. CASE Handle
  <2>1. /\ UNCHANGED <<indexer, notifying, queue, crashed, requeued, escaped>>
        /\ ~Waiting(k)
    BY <1>5 DEF Handle, Handled, informerVars, processVars, Free, Waiting
  <2>2. CASE handling.event.key = k
    <3>1. LastTaken(k, escaped)  BY <1>1, <2>1 DEF Settling, Queueing
    <3>2. /\ Present(k) => handling.exists /\ handling.event.obj = indexer[k]
          /\ ~Exists(indexer[k]) /\ k \notin escaped => ~handling.exists
      BY <2>1, <2>2, <3>1 DEF LastTaken
    <3>3. /\ ~handling.exists => pool'[k] = 0
          /\ handling.exists /\ handling.event.obj.state = "ready" => pool'[k] # 0
      BY <1>5, <2>2, HandleOutcome
    <3> QED  BY <2>1, <3>2, <3>3 DEF Present, Exists
  <2>3. CASE handling.event.key # k
    <3>1. pool'[k] = pool[k] /\ Free(k)  BY <1>5, <2>1, <2>3, HandleOutcome DEF Free
    <3> QED  BY <1>1, <2>1, <3>1 DEF PoolSettles, Present, Exists
  <2> QED  BY <2>2, <2>3
<1>6. CASE RestartController
  <2>1. indexer'[k] = Absent /\ pool'[k] = 0  BY <1>6 DEF RestartController, Restart
  <2> QED  BY <2>1, Sentinels DEF Present, Exists
<1>7. CASE UNCHANGED vars
  BY <1>1, <1>7 DEF vars, pipelineVars, informerVars, queueVars, processVars,
     PoolSettles, Present, Exists, Free, Waiting
<1> QED  BY <1>3, <1>4, <1>5, <1>6, <1>7, PodSteps

LEMMA PodsSettle == Spec => [](PodTypes /\ PodSettling)
BY InitPodTypes, NextPodTypes, InitPodSettling, NextPodSettling, PTL DEF Spec

\* The worker of a ready pod is in the pool once everything about its name is
\* handled, whatever was lost, coalesced or handled late before.
THEOREM ReadyPodsArePooled == Spec => []ReadyIsPooled
<1>1. PodTypes /\ PodSettling => ReadyIsPooled
  <2> SUFFICES ASSUME PodTypes, PodSettling, NEW k \in Keys,
                      Settled(k), cluster[k].state = "ready", cluster[k].labelled
               PROVE  pool[k] # 0
    BY DEF ReadyIsPooled
  <2>1. Free(k) /\ ~crashed /\ ~requeued /\ indexer[k] = cluster[k]
    BY SettledIsFree DEF PodSettling
  <2>2. cluster[k] \in Known  BY KnownExist DEF PodTypes, Types, Deltas
  <2>3. Exists(cluster[k])  BY <2>2, KnownExist DEF PodTypes, Types, Deltas
  <2> QED  BY <2>1, <2>3 DEF PodSettling, PoolSettles, Present
<1> QED  BY <1>1, PodsSettle, PTL

\* No worker is left of a pod that is gone, once everything about its name is
\* handled, unless the pod had lost its label.
THEOREM GonePodsAreNotPooled == Spec => []GoneIsNotPooled
<1>1. PodTypes /\ PodSettling => GoneIsNotPooled
  <2> SUFFICES ASSUME PodTypes, PodSettling, NEW k \in Keys,
                      Settled(k), ~Exists(cluster[k]), k \notin escaped
               PROVE  pool[k] = 0
    BY DEF GoneIsNotPooled
  <2>1. Free(k) /\ ~crashed /\ ~requeued /\ indexer[k] = cluster[k]
    BY SettledIsFree DEF PodSettling
  <2> QED  BY <2>1 DEF PodSettling, PoolSettles
<1> QED  BY <1>1, PodsSettle, PTL

-----------------------------------------------------------------------------
(* Order.                                                                  *)

\* The pool was given nothing newer than what is still to come about a name.
PoolInOrder(k) ==
    /\ QueueComing(k, newest[k])
    /\ ~requeued => /\ handling.event.key = k => newest[k] <= handling.event.obj.uid
                    /\ pool[k] # 0 => pool[k] = newest[k]

PodOrder == InOrder /\ \A k \in Keys : PoolInOrder(k)

LEMMA InitPodOrder == Init => PodOrder
<1> SUFFICES ASSUME Init PROVE PodOrder  OBVIOUS
<1>1. InOrder  BY InitOrder DEF Init
<1>2. ~Exists(Absent)  BY Sentinels DEF Exists
<1>3. /\ changes = 0 /\ queue = <<>> /\ handling = NotHandling
      /\ \A k \in Keys : /\ watch[k] = <<>> /\ indexer[k] = Absent /\ cluster[k] = Absent
                         /\ notifying.key # k /\ pool[k] = 0 /\ newest[k] = 0
  BY <1>2, Sentinels DEF Init, PipelineInit, Listed
<1> QED  BY <1>1, <1>2, <1>3, Sentinels
         DEF PodOrder, PoolInOrder, QueueComing, Coming, NotBefore

\* Every step is one of the pipeline's, with what its handler does.
LEMMA PodPipelineStep ==
    ASSUME PodTypes, Next
    PROVE  /\ PipelineStep
           /\ \/ UNCHANGED <<pool, newest>> /\ (requeued => requeued')
              \/ Handle
              \/ RestartController
<1>1. ASSUME NEW k \in Keys, NEW object, PodChange(k, object)
      PROVE  PipelineStep /\ UNCHANGED <<pool, newest, requeued>>
  BY <1>1 DEF PodChange, PipelineStep, OrderedChange, Change, processVars
<1>2. PipelineNext => (requeued => requeued')
  BY DEF PipelineNext, Informer, Retry, Relist, Notify, Store, Take, HandleError, Requeue,
     processVars
<1> QED  BY <1>1, <1>2, PodSteps DEF PipelineStep, Handle, RestartController

LEMMA NextPodOrder == PodTypes /\ PodOrder /\ [Next]_vars => PodOrder'
<1> SUFFICES ASSUME PodTypes, PodOrder, [Next]_vars PROVE PodOrder'  OBVIOUS
<1>1. Types /\ InOrder /\ EventsInOrder /\ changes \in Nat
  BY DEF PodTypes, PodOrder, InOrder, Types
<1>2. CASE UNCHANGED vars
  <2>1. UNCHANGED <<cluster, changes, watch, indexer, notifying, queue, delayed, handling,
                    requeued, pool, newest>>
    BY <1>2 DEF vars, pipelineVars, informerVars, queueVars, processVars
  <2>2. InOrder'
    BY <1>1, <2>1 DEF InOrder, EventsInOrder, DeltasInOrder, WatchInOrder, QueueComing,
       Coming, NotBefore, Exists, Told
  <2>3. \A k \in Keys : PoolInOrder(k)'
    BY <2>1 DEF PodOrder, PoolInOrder, QueueComing, Coming, NotBefore, Exists, Told
  <2> QED  BY <2>2, <2>3 DEF PodOrder
<1>3. ASSUME Next, NEW k \in Keys PROVE PoolInOrder(k)'
  <2>1. PipelineStep  BY <1>3, PodPipelineStep
  <2>2. PICK u \in Nat : u = newest[k]  BY <1>1 DEF PodTypes
  <2>3. /\ QueueComing(k, u) /\ QueueComing(k, u)'
        /\ ~requeued => /\ handling.event.key = k => u <= handling.event.obj.uid
                        /\ pool[k] # 0 => pool[k] = u
    BY <1>1, <2>1, <2>2, QueueComingKept DEF PodOrder, PoolInOrder
  <2>4. CASE newest'[k] = u
    <3>1. QueueComing(k, newest[k])'
      BY <2>3, <2>4 DEF QueueComing, Coming, NotBefore
    <3>2. ~requeued' /\ handling'.event.key = k => u <= handling'.event.obj.uid
      <4>1. CASE UNCHANGED <<handling, requeued>>  BY <2>3, <4>1
      <4>2. CASE Take
        <5>1. /\ Len(queue) \in Nat /\ Len(queue) > 0
              /\ Head(queue) = queue[1]
          BY <1>1, <4>2, QueueTail DEF Take, CanTake
        <5>2. handling'.event = queue[1] /\ requeued' = requeued
          BY <4>2, <5>1 DEF Take, processVars
        <5> QED  BY <2>3, <5>1, <5>2 DEF QueueComing
      <4>3. CASE Restart \/ Handled  BY <4>3, Sentinels DEF Restart, Handled
      <4>4. CASE HandleError  BY <4>4 DEF HandleError
      <4>5. ASSUME NEW l \in Keys, NEW object \in Stored', OrderedChange(l, object)
            PROVE  UNCHANGED <<handling, requeued>>
        BY <4>5 DEF OrderedChange, Change, queueVars, processVars
      <4>6. ASSUME Relist \/ Notify \/ (\E l \in Keys : Store(l))
                   \/ (\E i \in 1 .. Len(delayed) : Requeue(i))
            PROVE  UNCHANGED <<handling, requeued>>
        BY <4>6 DEF Relist, Notify, Store, Requeue, queueVars, processVars
      <4> QED  BY <2>1, <4>1, <4>2, <4>3, <4>4, <4>5, <4>6
               DEF PipelineStep, PipelineNext, Informer, Retry
    <3>3. ~requeued' /\ pool'[k] # 0 => pool'[k] = u
      <4>1. CASE UNCHANGED <<pool, newest>> /\ (requeued => requeued')  BY <2>3, <4>1
      <4>2. CASE RestartController  BY <4>2 DEF RestartController
      <4>3. CASE Handle
        <5>1. requeued' = requeued  BY <4>3 DEF Handle, Handled, processVars
        <5>2. CASE k # handling.event.key
          BY <1>1, <2>3, <4>3, <5>1, <5>2, HandleOutcome DEF PodOrder
        <5>3. CASE k = handling.event.key
          <6>1. \/ pool'[k] \in {0, pool[k]}
                \/ /\ pool'[k] = handling.event.obj.uid
                   /\ u = IF handling.event.obj.uid > u THEN handling.event.obj.uid ELSE u
            BY <2>2, <2>4, <4>3, <5>3, HandleOutcome DEF PodOrder
          <6>2. handling.event.obj.uid \in Nat
            BY <1>1, <4>3, HandleOutcome DEF Known, PodOrder
          <6> QED  BY <2>3, <5>1, <5>3, <6>1, <6>2
        <5> QED  BY <5>2, <5>3
      <4> QED  BY <1>3, <4>1, <4>2, <4>3, PodPipelineStep
    <3> QED  BY <2>4, <3>1, <3>2, <3>3 DEF PoolInOrder
  <2>5. CASE newest'[k] # u
    <3>1. Handle /\ k = handling.event.key
      <4>1. ~UNCHANGED newest  BY <2>2, <2>5
      <4>2. Handle  BY <1>3, <4>1, PodPipelineStep DEF RestartController
      <4> QED  BY <2>2, <2>5, <4>2, HandleOutcome
    <3>2. PICK v \in Nat : v = handling.event.obj.uid
      BY <1>1, <3>1, HandleOutcome DEF Known
    <3>3. pool'[k] = v /\ newest'[k] = v  BY <2>2, <2>5, <3>1, <3>2, HandleOutcome
    <3>4. handling # NotHandling /\ handling'.event.key # k
      BY <3>1, Sentinels DEF Handle, Handled
    <3>5. QueueComing(k, v)  BY <3>1, <3>2, <3>4, <1>1 DEF EventsInOrder
    <3>6. QueueComing(k, v)'  BY <1>1, <2>1, <3>5, QueueComingKept
    <3> QED  BY <3>3, <3>4, <3>6 DEF PoolInOrder, QueueComing, Coming, NotBefore
  <2> QED  BY <2>4, <2>5
<1> QED  BY <1>1, <1>2, <1>3, OrderKept, PodPipelineStep DEF PodOrder

LEMMA PodsInOrder == Spec => [](PodTypes /\ PodOrder)
BY InitPodTypes, NextPodTypes, InitPodOrder, NextPodOrder, PTL DEF Spec

\* As long as no event has failed since the process started, a name is not
\* given back to an earlier incarnation of its pod: the informer, the queue and
\* the handler keep the copies of a pod in the order of its incarnations.
THEOREM NoOlderIncarnationUntilRetry == Spec => [](~requeued => NoOlderIncarnation)
<1>1. PodTypes /\ PodOrder => (~requeued => NoOlderIncarnation)
  BY DEF PodOrder, PoolInOrder, NoOlderIncarnation
<1> QED  BY <1>1, PodsInOrder, PTL

\* ... so never, where the processor returns no error: nothing is queued twice.
THEOREM NamesAreNotGivenBack ==
    ASSUME ~LookupFaults
    PROVE  Spec => []NoOlderIncarnation
<1>1. Init => ~requeued  BY DEF Init, PipelineInit
<1>2. ~requeued /\ [Next]_vars => ~requeued'
  <2> SUFFICES ASSUME ~requeued, [Next]_vars PROVE ~requeued'  OBVIOUS
  <2>1. CASE UNCHANGED vars  BY <2>1 DEF vars, pipelineVars, processVars
  <2>2. PipelineNext => requeued' = requeued
    BY DEF PipelineNext, Informer, Retry, Relist, Notify, Store, Take, HandleError, Requeue,
       processVars
  <2>3. ASSUME NEW k \in Keys, PodEnvironment(k) PROVE requeued' = requeued
    BY <2>3 DEF PodEnvironment, CreatePod, PodChanges, PodGone, Unlabel, Change, processVars
  <2>4. Handle \/ RestartController => ~requeued'
    BY DEF Handle, Handled, RestartController, Restart, processVars
  <2> QED  BY <2>1, <2>2, <2>3, <2>4 DEF Next, PodEnvironment
<1>3. Spec => []~requeued  BY <1>1, <1>2, PTL DEF Spec
<1> QED  BY <1>3, NoOlderIncarnationUntilRetry, PTL
=============================================================================
