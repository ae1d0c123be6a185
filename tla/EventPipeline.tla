--------------------------- MODULE EventPipeline ---------------------------
(***************************************************************************)
(* What carries a change of a Kubernetes object to its handler: the        *)
(* informer of client-go (external), the callbacks that queue an event per *)
(* notification (operator/resource_event_handler.go), the work queue, the  *)
(* loop that takes events from it and retries them (operator/controller.go)*)
(* and the processor that chooses the handler's method                     *)
(* (operator/processor.go).  The controller has one pipeline for Pods and  *)
(* one for StatefulSets; the modules that extend this one add the handler. *)
(*                                                                         *)
(* Two goroutines work in a pipeline and share the indexer: the informer's *)
(* stores an object and then notifies, the controller's looks a key up and *)
(* then calls the handler.  Each is two steps.                             *)
(***************************************************************************)
EXTENDS Naturals, Sequences, SequencesExt

CONSTANTS
    Keys,           \* names of the objects
    States,         \* what the handler can tell apart in an object
    MaxChanges,     \* bound: changes of objects, lost watches and restarts
    MaxQueue,       \* bound: deltas of a key, or events, on their way at once
    LookupFaults    \* TRUE: the processor may return an error

ASSUME MaxChangesAssumption   == MaxChanges \in Nat /\ MaxQueue \in Nat
ASSUME LookupFaultsAssumption == LookupFaults \in BOOLEAN
ASSUME KeysAssumption         == "none" \notin Keys   \* it says that there is no key

VARIABLES
    cluster,     \* the API server's objects
    changes,     \* how many changes there were; names incarnations
    watch,       \* per key, the deltas the informer has not handled yet
    indexer,     \* the informer's local store
    unsynced,    \* keys of the initial list not stored yet
    notifying,   \* the notification the informer is in
    queue,       \* the work queue
    delayed,     \* events AddRateLimited keeps back
    handling,    \* the event being handled, with what GetByKey answered
    crashed,     \* the process has panicked
    requeued     \* history: some event has failed since the process started

informerVars == <<watch, indexer, unsynced, notifying>>
queueVars == <<queue, delayed, handling>>
processVars == <<crashed, requeued>>
pipelineVars == <<cluster, changes, informerVars, queueVars, processVars>>

-----------------------------------------------------------------------------
Objects == [uid : Nat \ {0}, state : States, labelled : BOOLEAN]

\* An object with uid 0 does not exist.  Informers that learn from a list, not
\* from the watch, that an object is gone call Delete with a
\* DeletedFinalStateUnknown, the tombstone.
Absent == [uid |-> 0, state |-> CHOOSE s \in States : TRUE, labelled |-> FALSE]
Tombstone == [Absent EXCEPT !.labelled = TRUE]

Exists(object) == object.uid # 0

Nothing == [key |-> "none", old |-> Absent, new |-> Absent]
NoEvent == [kind |-> "none", key |-> "none", obj |-> Absent, old |-> Absent, tries |-> 0]
NotHandling == [event |-> NoEvent, exists |-> FALSE]

\* Add and Delete queue the same kind of event; Update queues the other.
NewEvent(key, obj) ==
    [kind |-> "event", key |-> key, obj |-> obj, old |-> Absent, tries |-> 0]
NewUpdateEvent(key, new, old) ==
    [kind |-> "update", key |-> key, obj |-> new, old |-> old, tries |-> 0]

-----------------------------------------------------------------------------
\* The informer's first list.
Listed(objects) == [k \in Keys |-> IF Exists(objects[k]) THEN <<objects[k]>> ELSE <<>>]
Existing(objects) == {k \in Keys : Exists(objects[k])}

PipelineInit ==
    /\ cluster = [k \in Keys |-> Absent]
    /\ changes = 0
    /\ watch = Listed(cluster)
    /\ unsynced = Existing(cluster)
    /\ indexer = [k \in Keys |-> Absent]
    /\ notifying = Nothing
    /\ queue = <<>> /\ delayed = <<>> /\ handling = NotHandling
    /\ crashed = FALSE
    /\ requeued = FALSE

\* Somebody changes an object; the change will reach the informer.
Change(key, object) ==
    /\ changes < MaxChanges
    /\ Len(watch[key]) < MaxQueue
    /\ object # cluster[key]
    /\ cluster' = [cluster EXCEPT ![key] = object]
    /\ changes' = changes + 1
    /\ watch' = [watch EXCEPT ![key] = Append(@, object)]
    /\ UNCHANGED <<indexer, unsynced, notifying, queueVars, processVars>>

\* The watch breaks and what was on its way is lost, what the informer had not
\* handled yet included; it lists again and replaces its store by what it finds.
\* A key of the first list that is gone by now is not waited for.
Relist ==
    /\ ~crashed
    /\ changes < MaxChanges
    /\ changes' = changes + 1
    /\ watch' = [k \in Keys |->
         IF Exists(cluster[k]) THEN <<cluster[k]>>
         ELSE IF Exists(indexer[k]) THEN <<Tombstone>> ELSE <<>>]
    /\ unsynced' = {k \in unsynced : watch'[k] # <<>>}
    /\ UNCHANGED <<cluster, indexer, notifying, queueVars, processVars>>

\* The controller is restarted, after a panic or by its Deployment: it starts
\* with an empty store and queue.
Restart ==
    /\ crashed \/ changes < MaxChanges
    /\ changes' = IF crashed THEN changes ELSE changes + 1
    /\ watch' = Listed(cluster)
    /\ unsynced' = Existing(cluster)
    /\ indexer' = [k \in Keys |-> Absent]
    /\ notifying' = Nothing
    /\ queue' = <<>> /\ delayed' = <<>> /\ handling' = NotHandling
    /\ crashed' = FALSE
    /\ requeued' = FALSE
    /\ UNCHANGED cluster

\* The informer takes a delta and updates its store.
Store(key) ==
    /\ ~crashed
    /\ notifying = Nothing
    /\ watch[key] # <<>>
    /\ LET new == Head(watch[key]) IN
         /\ indexer' = [indexer EXCEPT ![key] = IF Exists(new) THEN new ELSE Absent]
         /\ notifying' = [key |-> key, old |-> indexer[key], new |-> new]
    /\ watch' = [watch EXCEPT ![key] = Tail(@)]
    /\ unsynced' = unsynced \ {key}
    /\ UNCHANGED <<cluster, changes, queueVars, processVars>>

-----------------------------------------------------------------------------
\* selector.Validate: the object carries the watched app label.
Validate(object) == object.labelled

\* resourceEventHandler.Add: a copy of the object is queued.
Add(key, obj) ==
    /\ queue' = IF Validate(obj) THEN Append(queue, NewEvent(key, obj)) ELSE queue
    /\ UNCHANGED crashed

\* resourceEventHandler.Update: only the new object is validated.
Update(key, old, new) ==
    /\ queue' = IF Validate(new) THEN Append(queue, NewUpdateEvent(key, new, old)) ELSE queue
    /\ UNCHANGED crashed

\* Faulty variant: a tombstone is queued as if it were the object.
DeleteQueuesTombstone(key, old, new) ==
    /\ queue' = IF new = Tombstone \/ Validate(old)
                THEN Append(queue, NewEvent(key, IF new = Tombstone THEN new ELSE old))
                ELSE queue
    /\ UNCHANGED crashed

\* Faulty variant: the event is dropped when the object is deleted for good.
DeleteUnqueued(key, old, new) ==
    /\ UNCHANGED queue
    /\ crashed' = (new = Tombstone)

\* resourceEventHandler.Delete: obj.(runtime.Object) panics on a tombstone.
Delete(key, old, new) ==
    /\ queue' = IF new # Tombstone /\ Validate(old)
                THEN Append(queue, NewEvent(key, old)) ELSE queue
    /\ crashed' = (new = Tombstone)

\* The informer calls the callback for the delta it has stored.
Notify ==
    /\ ~crashed
    /\ notifying # Nothing
    /\ Len(queue) + Len(delayed) < MaxQueue
    /\ LET n == notifying IN
         \/ Exists(n.new) /\ Exists(n.old) /\ Update(n.key, n.old, n.new)
         \/ Exists(n.new) /\ ~Exists(n.old) /\ Add(n.key, n.new)
         \/ ~Exists(n.new) /\ Delete(n.key, n.old, n.new)
    /\ notifying' = Nothing
    /\ UNCHANGED <<cluster, changes, watch, indexer, unsynced, delayed, handling, requeued>>

-----------------------------------------------------------------------------
maxRequeue == 5

\* Run starts the loop once the first list is stored.
CanTake == ~crashed /\ unsynced = {} /\ handling = NotHandling /\ queue # <<>>

\* Faulty variant: the newest event is taken first.
TakeNewest ==
    /\ CanTake
    /\ LET ev == Last(queue)
       IN  handling' = [event |-> ev, exists |-> Exists(indexer[ev.key])]
    /\ queue' = Front(queue)
    /\ UNCHANGED <<cluster, changes, informerVars, delayed, processVars>>

\* processNextItem takes an event and Handle looks its key up.
Take ==
    /\ CanTake
    /\ LET ev == Head(queue)
       IN  handling' = [event |-> ev, exists |-> Exists(indexer[ev.key])]
    /\ queue' = Tail(queue)
    /\ UNCHANGED <<cluster, changes, informerVars, delayed, processVars>>

\* Faulty variant: no bound on the requeues.
HandleErrorForever ==
    /\ CanTake /\ LookupFaults
    /\ delayed' = Append(delayed, Head(queue))
    /\ queue' = Tail(queue)
    /\ requeued' = TRUE
    /\ UNCHANGED <<cluster, changes, informerVars, handling, crashed>>

\* The lookup fails and handleError queues the event again, later, unless it
\* has been requeued maxRequeue times: then it is dropped.
HandleError ==
    /\ CanTake /\ LookupFaults
    /\ LET ev == Head(queue)
       IN  delayed' = IF ev.tries < maxRequeue
                      THEN Append(delayed, [ev EXCEPT !.tries = @ + 1])
                      ELSE delayed
    /\ queue' = Tail(queue)
    /\ requeued' = TRUE
    /\ UNCHANGED <<cluster, changes, informerVars, handling, crashed>>

\* The rate limiter lets an event back into the queue.
Requeue(i) ==
    /\ ~crashed
    /\ queue' = Append(queue, delayed[i])
    /\ delayed' = RemoveAt(delayed, i)
    /\ UNCHANGED <<cluster, changes, informerVars, handling, processVars>>

\* Handle calls the method of the handler for what it took; the extending
\* module says what the method does.
Called(method) ==
    LET h == handling IN
    CASE method = "Deleted" -> ~h.exists
      [] method = "Created" -> h.exists /\ h.event.kind = "event"
      [] method = "Updated" -> h.exists /\ h.event.kind = "update"

\* The object Deleted is called with.
DeletedObject == IF handling.event.kind = "event" THEN handling.event.obj
                 ELSE handling.event.old

\* The handler has returned: Forget and Done.
Handled ==
    /\ ~crashed
    /\ handling # NotHandling
    /\ handling' = NotHandling
    /\ UNCHANGED <<cluster, changes, informerVars, queue, delayed, processVars>>

-----------------------------------------------------------------------------
\* The steps that change no state of the handler.
Informer == Notify \/ \E k \in Keys : Store(k)
Retry == HandleError \/ \E i \in 1 .. Len(delayed) : Requeue(i)
PipelineNext == Relist \/ Informer \/ Take \/ Retry

\* Nothing of the key is on its way to the handler.
Quiet(key) ==
    /\ ~crashed
    /\ watch[key] = <<>>
    /\ notifying.key # key
    /\ handling.event.key # key
    /\ \A i \in 1 .. Len(queue) : queue[i].key # key
    /\ delayed = <<>>

\* ... and nothing was dropped or overtaken because it had failed.
Settled(key) == Quiet(key) /\ ~requeued

\* Every change is handled: the pipeline never stops with something under way,
\* even when each lookup of an event fails, and when the tombstone panic
\* restarts it.
ChangesAreHandled == []<>(\A k \in Keys : Quiet(k))

\* The pipeline's part of the type invariants.
PipelineTypeOK ==
    /\ cluster \in [Keys -> Objects \cup {Absent}]
    /\ indexer \in [Keys -> Objects \cup {Absent}]
    /\ changes \in 0 .. MaxChanges
    /\ DOMAIN watch = Keys
    /\ unsynced \subseteq Keys
    /\ crashed \in BOOLEAN /\ requeued \in BOOLEAN
    /\ notifying # Nothing => notifying.key \in Keys
    /\ \A i \in 1 .. Len(queue) : queue[i].key \in Keys /\ queue[i].obj \in Objects
=============================================================================
