------------------------ MODULE EventPipelineProofs ------------------------
(***************************************************************************)
(* What every pipeline keeps to, whichever handler it has, any number of   *)
(* keys, states and changes.  PodEventsProofs and StatefulSetEventsProofs  *)
(* build on it.                                                            *)
(*                                                                         *)
(* Settling: the newest thing under way about a key, or if there is none   *)
(* the store, agrees with the API server, and the newest event with the    *)
(* store.  Order: no copy of an object is behind one of a later            *)
(* incarnation.                                                            *)
(***************************************************************************)
EXTENDS EventPipeline, SequenceTheorems, TLAPS

USE MaxChangesAssumption, KeysAssumption

-----------------------------------------------------------------------------
(* Types.                                                                  *)

\* Objects there have been so far.
Known == [uid : 1 .. changes, state : States, labelled : BOOLEAN]
Stored == Known \cup {Absent}
Deltas == Stored \cup {Tombstone}
Notifications == [key : Keys, old : Stored, new : Deltas]
Events == [kind : {"event", "update"}, key : Keys, obj : Known, old : Stored, tries : Nat]

Types ==
    /\ changes \in 0 .. MaxChanges
    /\ cluster \in [Keys -> Stored]
    /\ indexer \in [Keys -> Stored]
    /\ watch \in [Keys -> Seq(Deltas)]
    /\ unsynced \subseteq Keys
    /\ notifying \in Notifications \cup {Nothing}
    /\ queue \in Seq(Events) /\ delayed \in Seq(Events)
    /\ handling \in [event : Events, exists : BOOLEAN] \cup {NotHandling}
    /\ crashed \in BOOLEAN /\ requeued \in BOOLEAN

LEMMA Sentinels ==
    /\ Absent.uid = 0 /\ Absent.labelled = FALSE
    /\ Tombstone.uid = 0 /\ Tombstone.labelled = TRUE /\ Tombstone # Absent
    /\ Nothing.key \notin Keys /\ NotHandling.event.key \notin Keys
    /\ Nothing.key = "none" /\ NotHandling.event.key = "none"
BY DEF Absent, Tombstone, Nothing, NotHandling, NoEvent

\* An object exists if and only if it is known.
LEMMA KnownExist ==
    ASSUME Types, NEW d \in Deltas
    PROVE  /\ Exists(d) <=> d \in Known
           /\ ~Exists(d) => d = Absent \/ d = Tombstone
           /\ d.uid \in 0 .. changes /\ d.labelled \in BOOLEAN
           /\ d \in Stored /\ d.labelled => d \in Known
<1>1. changes \in Nat  BY DEF Types
<1>2. CASE d \in Known
  BY <1>1, <1>2, Sentinels DEF Known, Stored, Exists
<1>3. CASE d \in {Absent, Tombstone}
  <2>1. d.uid = 0 /\ d \notin Known  BY <1>3, Sentinels DEF Known
  <2>2. d \in Stored => d = Absent  BY <2>1 DEF Stored
  <2>3. d.labelled \in BOOLEAN /\ (d \in Stored => ~d.labelled)  BY <1>3, <2>2, Sentinels
  <2>4. ~Exists(d)  BY <2>1 DEF Exists
  <2>5. d.uid \in 0 .. changes  BY <1>1, <2>1
  <2> QED  BY <1>3, <2>1, <2>3, <2>4, <2>5
<1> QED  BY <1>2, <1>3 DEF Deltas, Stored

\* What is known stays known.
LEMMA KnownGrows ==
    ASSUME Types, changes' \in Nat, changes <= changes'
    PROVE  /\ Known \subseteq Known' /\ Stored \subseteq Stored' /\ Deltas \subseteq Deltas'
           /\ Notifications \subseteq Notifications' /\ Events \subseteq Events'
<1>1. 1 .. changes \subseteq 1 .. changes'  BY DEF Types
<1>2. Known \subseteq Known'  BY <1>1 DEF Known
<1>3. Stored \subseteq Stored' /\ Deltas \subseteq Deltas'  BY <1>2 DEF Stored, Deltas
<1>4. Notifications \subseteq Notifications'  BY <1>3 DEF Notifications
<1>5. Events \subseteq Events'  BY <1>2, <1>3 DEF Events
<1> QED  BY <1>2, <1>3, <1>4, <1>5

LEMMA TypesGrow ==
    ASSUME Types, changes' \in 0 .. MaxChanges, changes <= changes'
    PROVE  /\ cluster \in [Keys -> Stored']
           /\ indexer \in [Keys -> Stored']
           /\ watch \in [Keys -> Seq(Deltas')]
           /\ notifying \in Notifications' \cup {Nothing}
           /\ queue \in Seq(Events') /\ delayed \in Seq(Events')
           /\ handling \in [event : Events', exists : BOOLEAN] \cup {NotHandling}
<1>1. /\ Stored \subseteq Stored' /\ Deltas \subseteq Deltas'
      /\ Notifications \subseteq Notifications' /\ Events \subseteq Events'
  BY KnownGrows
<1>2. queue \in Seq(Events') /\ delayed \in Seq(Events')
  BY <1>1, SeqMonotonic DEF Types
<1>3. \A k \in Keys : watch[k] \in Seq(Deltas')
  BY <1>1, SeqMonotonic DEF Types
<1>4. watch \in [Keys -> Seq(Deltas')]
  BY <1>3 DEF Types
<1> QED  BY <1>1, <1>2, <1>4 DEF Types

\* Taking an element out of a sequence.
LEMMA RemoveAtType ==
    ASSUME NEW S, NEW s \in Seq(S), NEW i \in 1 .. Len(s)
    PROVE  RemoveAt(s, i) \in Seq(S)
<1>1. SubSeq(s, 1, i - 1) \in Seq(S)
  BY SubSeqProperties
<1>2. SubSeq(s, i + 1, Len(s)) \in Seq(S)
  BY SubSeqProperties
<1> QED  BY <1>1, <1>2, ConcatProperties DEF RemoveAt

LEMMA InitTypes == PipelineInit => Types
<1> SUFFICES ASSUME PipelineInit PROVE Types  OBVIOUS
<1>1. ~Exists(Absent)  BY Sentinels DEF Exists
<1>2. watch = [k \in Keys |-> <<>>] /\ unsynced = {}
  BY <1>1 DEF PipelineInit, Listed, Existing
<1>3. watch \in [Keys -> Seq(Deltas)]  BY <1>2
<1>4. Absent \in Stored  BY DEF Stored
<1>5. cluster \in [Keys -> Stored] /\ indexer \in [Keys -> Stored]
  BY <1>4 DEF PipelineInit
<1>6. queue \in Seq(Events) /\ delayed \in Seq(Events)  BY EmptySeq DEF PipelineInit
<1>7. changes \in 0 .. MaxChanges  BY DEF PipelineInit
<1> QED  BY <1>2, <1>3, <1>5, <1>6, <1>7 DEF PipelineInit, Types

LEMMA ChangeTypes ==
    ASSUME Types, NEW k \in Keys, NEW object, Change(k, object), object \in Stored'
    PROVE  Types'
<1>1. changes' \in 0 .. MaxChanges /\ changes <= changes'  BY DEF Types, Change
<1>2. object \in Deltas'  BY DEF Deltas
<1>3. watch' \in [Keys -> Seq(Deltas')]
  <2>1. watch \in [Keys -> Seq(Deltas')]  BY <1>1, TypesGrow
  <2>2. Append(watch[k], object) \in Seq(Deltas')  BY <1>2, <2>1, AppendProperties
  <2> QED  BY <2>1, <2>2 DEF Change
<1>4. cluster' \in [Keys -> Stored']  BY <1>1, TypesGrow DEF Change
<1> QED  BY <1>1, <1>3, <1>4, TypesGrow
         DEF Types, Change, queueVars, processVars

\* What the informer's list holds for a key, given the object.
LEMMA ListedTypes ==
    ASSUME Types
    PROVE  Listed(cluster) \in [Keys -> Seq(Deltas)] /\ Existing(cluster) \subseteq Keys
<1>1. \A k \in Keys : cluster[k] \in Deltas  BY DEF Types, Deltas
<1>2. \A k \in Keys : <<cluster[k]>> \in Seq(Deltas) /\ <<>> \in Seq(Deltas)  BY <1>1
<1> QED  BY <1>2 DEF Listed, Existing

LEMMA RestartTypes == ASSUME Types, Restart PROVE Types'
<1>1. changes' \in 0 .. MaxChanges /\ changes <= changes'  BY DEF Types, Restart
<1>2. watch' \in [Keys -> Seq(Deltas')]
  <2>1. watch' \in [Keys -> Seq(Deltas)]  BY ListedTypes DEF Restart
  <2>2. Deltas \subseteq Deltas'  BY <1>1, KnownGrows
  <2>3. \A k \in Keys : watch'[k] \in Seq(Deltas')  BY <2>1, <2>2, SeqMonotonic
  <2> QED  BY <2>1, <2>3
<1>3. indexer' \in [Keys -> Stored']  BY DEF Restart, Stored
<1>4. cluster' \in [Keys -> Stored']  BY <1>1, TypesGrow DEF Restart
<1>5. unsynced' \subseteq Keys  BY ListedTypes DEF Restart
<1>6. queue' \in Seq(Events') /\ delayed' \in Seq(Events')  BY EmptySeq DEF Restart
<1> QED  BY <1>1, <1>2, <1>3, <1>4, <1>5, <1>6 DEF Types, Restart

LEMMA StepTypes == ASSUME Types, PipelineNext \/ Handled PROVE Types'
<1>1. CASE Relist
  <2>1. changes' \in 0 .. MaxChanges /\ changes <= changes'  BY <1>1 DEF Types, Relist
  <2>2. Deltas \subseteq Deltas'  BY <2>1, KnownGrows
  <2>3. \A k \in Keys : cluster[k] \in Deltas'  BY <2>2 DEF Types, Deltas
  <2>4. Tombstone \in Deltas'  BY DEF Deltas
  <2>5. \A k \in Keys : <<cluster[k]>> \in Seq(Deltas') /\ <<Tombstone>> \in Seq(Deltas')
                        /\ <<>> \in Seq(Deltas')
    BY <2>3, <2>4
  <2>6. watch' \in [Keys -> Seq(Deltas')]  BY <1>1, <2>5 DEF Relist
  <2> QED  BY <1>1, <2>1, <2>6, TypesGrow DEF Types, Relist, queueVars, processVars
<1>2. ASSUME NEW k \in Keys, Store(k) PROVE Types'
  <2>1. UNCHANGED changes /\ Known' = Known /\ Stored' = Stored /\ Deltas' = Deltas
        /\ Events' = Events /\ Notifications' = Notifications
    BY <1>2 DEF Store, Known, Stored, Deltas, Events, Notifications
  <2>2. watch[k] \in Seq(Deltas) /\ watch[k] # <<>>  BY <1>2 DEF Types, Store
  <2>3. Head(watch[k]) \in Deltas /\ Tail(watch[k]) \in Seq(Deltas)
    BY <2>2, HeadTailProperties
  <2>4. Exists(Head(watch[k])) => Head(watch[k]) \in Stored
    BY <2>3, KnownExist DEF Stored
  <2>5. Absent \in Stored  BY DEF Stored
  <2>6. indexer' \in [Keys -> Stored]  BY <1>2, <2>4, <2>5 DEF Store, Types
  <2>7. notifying' \in Notifications  BY <1>2, <2>3 DEF Store, Types, Notifications
  <2>8. watch' \in [Keys -> Seq(Deltas)]  BY <1>2, <2>3 DEF Store, Types
  <2> QED  BY <1>2, <2>1, <2>6, <2>7, <2>8 DEF Types, Store, queueVars, processVars
<1>3. CASE Notify
  <2>1. UNCHANGED changes /\ Known' = Known /\ Stored' = Stored /\ Deltas' = Deltas
        /\ Events' = Events /\ Notifications' = Notifications
    BY <1>3 DEF Notify, Known, Stored, Deltas, Events, Notifications
  <2>2. notifying \in Notifications  BY <1>3 DEF Notify, Types
  <2>3. /\ notifying.key \in Keys
        /\ notifying.old \in Stored /\ notifying.new \in Deltas /\ notifying.old \in Deltas
    BY <2>2 DEF Notifications, Deltas
  <2>4. /\ Exists(notifying.new) => notifying.new \in Known
        /\ Validate(notifying.old) => notifying.old \in Known
    BY <2>3, KnownExist DEF Validate
  <2>5. \A o \in Known : /\ NewEvent(notifying.key, o) \in Events
                         /\ NewUpdateEvent(notifying.key, o, notifying.old) \in Events
    BY <2>3 DEF NewEvent, NewUpdateEvent, Events, Stored
  <2>6. \/ UNCHANGED queue
        \/ \E ev \in Events : queue' = Append(queue, ev)
    BY <1>3, <2>4, <2>5 DEF Notify, Update, Add, Delete
  <2>7. queue \in Seq(Events) /\ \A ev \in Events : Append(queue, ev) \in Seq(Events)
    BY AppendProperties DEF Types
  <2>8. queue' \in Seq(Events)  BY <2>6, <2>7
  <2>9. crashed' \in BOOLEAN  BY <1>3 DEF Notify, Update, Add, Delete, Types
  <2> QED  BY <1>3, <2>1, <2>8, <2>9 DEF Types, Notify
<1>4. CASE Take
  <2>1. UNCHANGED changes /\ Known' = Known /\ Stored' = Stored /\ Deltas' = Deltas
        /\ Events' = Events /\ Notifications' = Notifications
    BY <1>4 DEF Take, Known, Stored, Deltas, Events, Notifications
  <2>2. queue \in Seq(Events) /\ queue # <<>>  BY <1>4 DEF Types, Take, CanTake
  <2>3. Head(queue) \in Events /\ Tail(queue) \in Seq(Events)
    BY <2>2, HeadTailProperties
  <2>4. handling' \in [event : Events, exists : BOOLEAN]  BY <1>4, <2>3 DEF Take, Exists
  <2> QED  BY <1>4, <2>1, <2>3, <2>4 DEF Types, Take, informerVars, processVars
<1>5. CASE HandleError
  <2>1. UNCHANGED changes /\ Known' = Known /\ Stored' = Stored /\ Deltas' = Deltas
        /\ Events' = Events /\ Notifications' = Notifications
    BY <1>5 DEF HandleError, Known, Stored, Deltas, Events, Notifications
  <2>2. queue \in Seq(Events) /\ queue # <<>>  BY <1>5 DEF Types, HandleError, CanTake
  <2>3. Head(queue) \in Events /\ Tail(queue) \in Seq(Events)
    BY <2>2, HeadTailProperties
  <2>4. [Head(queue) EXCEPT !.tries = @ + 1] \in Events  BY <2>3 DEF Events
  <2>5. Append(delayed, [Head(queue) EXCEPT !.tries = @ + 1]) \in Seq(Events)
    BY <2>4, AppendProperties DEF Types
  <2>6. delayed' \in Seq(Events)  BY <1>5, <2>5 DEF HandleError, Types
  <2> QED  BY <1>5, <2>1, <2>3, <2>6 DEF Types, HandleError, informerVars
<1>6. ASSUME NEW i \in 1 .. Len(delayed), Requeue(i) PROVE Types'
  <2>1. UNCHANGED changes /\ Known' = Known /\ Stored' = Stored /\ Deltas' = Deltas
        /\ Events' = Events /\ Notifications' = Notifications
    BY <1>6 DEF Requeue, Known, Stored, Deltas, Events, Notifications
  <2>2. delayed \in Seq(Events) /\ queue \in Seq(Events)  BY DEF Types
  <2>3. delayed[i] \in Events  BY <2>2, ElementOfSeq
  <2>4. queue' \in Seq(Events)  BY <1>6, <2>2, <2>3, AppendProperties DEF Requeue
  <2>5. RemoveAt(delayed, i) \in Seq(Events)  BY <2>2, RemoveAtType
  <2> QED  BY <1>6, <2>1, <2>4, <2>5
           DEF Types, Requeue, informerVars, processVars
<1>7. CASE Handled
  <2>1. UNCHANGED changes /\ Known' = Known /\ Stored' = Stored /\ Deltas' = Deltas
        /\ Events' = Events /\ Notifications' = Notifications
    BY <1>7 DEF Handled, Known, Stored, Deltas, Events, Notifications
  <2> QED  BY <1>7, <2>1 DEF Types, Handled, informerVars, processVars
<1> QED  BY <1>1, <1>2, <1>3, <1>4, <1>5, <1>6, <1>7
         DEF PipelineNext, Informer, Retry

\* The types imply the pipeline's part of the type invariants.
LEMMA TypesOK == Types => PipelineTypeOK
<1> SUFFICES ASSUME Types PROVE PipelineTypeOK  OBVIOUS
<1>1. Known \subseteq Objects  BY DEF Types, Known, Objects
<1>2. Stored \subseteq Objects \cup {Absent}  BY <1>1 DEF Stored
<1>3. \A i \in 1 .. Len(queue) : queue[i] \in Events  BY ElementOfSeq DEF Types
<1>4. \A i \in 1 .. Len(queue) : queue[i].key \in Keys /\ queue[i].obj \in Objects
  BY <1>1, <1>3 DEF Events
<1>5. notifying # Nothing => notifying.key \in Keys  BY DEF Types, Notifications
<1>6. cluster \in [Keys -> Objects \cup {Absent}] /\ indexer \in [Keys -> Objects \cup {Absent}]
  BY <1>2 DEF Types
<1> QED  BY <1>4, <1>5, <1>6 DEF PipelineTypeOK, Types

-----------------------------------------------------------------------------
(* Delivery: what is under way to the store.  e are the names whose pods   *)
(* may have lost their label.                                              *)

HasLabel(object) == Exists(object) => object.labelled

\* When nothing is left to be stored, the store agrees with the API server;
\* until then the newest delta does.
CatchesUp(k) ==
    LET w == watch[k] IN
    IF w = <<>> THEN indexer[k] = cluster[k]
    ELSE IF Exists(cluster[k]) THEN w[Len(w)] = cluster[k] ELSE ~Exists(w[Len(w)])

\* A delta that deletes comes after one that does not.
Alternates(k) ==
    /\ \A i \in 1 .. Len(watch[k]) :
         ~Exists(watch[k][i]) =>
           IF i = 1 THEN Exists(indexer[k]) ELSE Exists(watch[k][i - 1])
    /\ notifying.key = k /\ ~Exists(notifying.new) => Exists(notifying.old)

\* A notification is about what was stored.
Notified(k) ==
    notifying.key = k =>
      indexer[k] = IF Exists(notifying.new) THEN notifying.new ELSE Absent

Labelled(k) ==
    /\ HasLabel(cluster[k]) /\ HasLabel(indexer[k])
    /\ \A i \in 1 .. Len(watch[k]) : HasLabel(watch[k][i])
    /\ notifying.key = k => HasLabel(notifying.old) /\ HasLabel(notifying.new)

Delivery(k, e) ==
    /\ CatchesUp(k) /\ Alternates(k) /\ Notified(k)
    /\ k \notin e => Labelled(k)

LEMMA WatchElements ==
    ASSUME Types, NEW k \in Keys
    PROVE  /\ watch[k] \in Seq(Deltas) /\ Len(watch[k]) \in Nat
           /\ watch[k] = <<>> <=> Len(watch[k]) = 0
           /\ \A i \in 1 .. Len(watch[k]) : watch[k][i] \in Deltas
BY EmptySeq, ElementOfSeq DEF Types

LEMMA InitDelivers ==
    ASSUME PipelineInit, NEW e, NEW k \in Keys
    PROVE  Delivery(k, e)
<1>1. ~Exists(Absent)  BY Sentinels DEF Exists
<1>2. watch[k] = <<>> /\ indexer[k] = Absent /\ cluster[k] = Absent /\ notifying.key # k
  BY <1>1, Sentinels DEF PipelineInit, Listed
<1> QED  BY <1>1, <1>2, Sentinels
         DEF Delivery, CatchesUp, Alternates, Notified, Labelled, HasLabel

LEMMA SameDelivery ==
    ASSUME NEW e, NEW k, Delivery(k, e),
           UNCHANGED <<cluster[k], indexer[k], watch[k]>>,
           UNCHANGED notifying \/ notifying'.key # k
    PROVE  Delivery(k, e)'
BY DEF Delivery, CatchesUp, Alternates, Notified, Labelled

LEMMA ChangeDelivers ==
    ASSUME Types, NEW e, NEW k \in Keys, NEW l \in Keys, NEW object, Delivery(k, e),
           Change(l, object), object \in Stored',
           ~Exists(object) => Exists(cluster[l]),
           l \notin e => HasLabel(object)
    PROVE  Delivery(k, e)'
<1>1. CASE k # l
  BY <1>1, SameDelivery DEF Change, Types
<1>2. CASE k = l
  <2> DEFINE w == watch[k]
  <2>1. /\ cluster'[k] = object /\ indexer' = indexer /\ notifying' = notifying
        /\ watch'[k] = Append(w, object)
    BY <1>2 DEF Change, Types
  <2>2. /\ Len(w) \in Nat /\ Len(watch'[k]) = Len(w) + 1
        /\ \A i \in 1 .. Len(w) : watch'[k][i] = w[i]
        /\ watch'[k][Len(w) + 1] = object
        /\ w = <<>> <=> Len(w) = 0
    BY <2>1, WatchElements, AppendProperties
  <2>3. watch'[k] # <<>>  BY <2>2, EmptySeq
  <2> HIDE DEF w
  <2>4. CatchesUp(k)'  BY <2>1, <2>2, <2>3 DEF CatchesUp
  <2>5. Alternates(k)'
    <3>1. ASSUME NEW i \in 1 .. Len(watch'[k]), ~Exists(watch'[k][i])
          PROVE  IF i = 1 THEN Exists(indexer[k]) ELSE Exists(watch'[k][i - 1])
      <4>1. CASE i \in 1 .. Len(w)
        <5>1. IF i = 1 THEN Exists(indexer[k]) ELSE Exists(w[i - 1])
          BY <2>2, <3>1, <4>1 DEF Delivery, Alternates, w
        <5>2. i # 1 => i - 1 \in 1 .. Len(w)  BY <2>2, <4>1
        <5>3. i # 1 => watch'[k][i - 1] = w[i - 1]  BY <2>2, <5>2
        <5> QED  BY <5>1, <5>3
      <4>2. CASE i = Len(w) + 1
        <5>1. Exists(cluster[k])  BY <1>2, <2>2, <3>1, <4>2
        <5> QED  BY <2>2, <4>2, <5>1 DEF Delivery, CatchesUp, w
      <4> QED  BY <2>2, <4>1, <4>2
    <3> QED  BY <2>1, <3>1 DEF Delivery, Alternates, Exists
  <2>6. Notified(k)'  BY <2>1 DEF Delivery, Notified
  <2>7. k \notin e => Labelled(k)'  BY <1>2, <2>1, <2>2 DEF Delivery, Labelled, HasLabel, w, Exists
  <2> QED  BY <2>4, <2>5, <2>6, <2>7 DEF Delivery
<1> QED  BY <1>1, <1>2

LEMMA RelistDelivers ==
    ASSUME Types, NEW e, NEW k \in Keys, Delivery(k, e), Relist
    PROVE  Delivery(k, e)'
<1>1. UNCHANGED <<cluster, indexer, notifying>>  BY DEF Relist
<1>2. cluster[k] \in Deltas /\ indexer[k] \in Deltas /\ cluster[k] \in Stored /\ indexer[k] \in Stored
  BY DEF Types, Deltas
<1>3. ~Exists(cluster[k]) => cluster[k] = Absent  BY <1>2, KnownExist, Sentinels DEF Stored
<1>4. ~Exists(indexer[k]) => indexer[k] = Absent  BY <1>2, KnownExist, Sentinels DEF Stored
<1>5. ~Exists(Tombstone) /\ ~Exists(Absent)  BY Sentinels DEF Exists
<1>6. watch'[k] = IF Exists(cluster[k]) THEN <<cluster[k]>>
                  ELSE IF Exists(indexer[k]) THEN <<Tombstone>> ELSE <<>>
  BY DEF Relist
<1>7. CASE Exists(cluster[k])
  BY <1>1, <1>5, <1>6, <1>7
     DEF Delivery, CatchesUp, Alternates, Notified, Labelled, HasLabel, Exists
<1>8. CASE ~Exists(cluster[k]) /\ Exists(indexer[k])
  BY <1>1, <1>5, <1>6, <1>8
     DEF Delivery, CatchesUp, Alternates, Notified, Labelled, HasLabel, Exists
<1>9. CASE ~Exists(cluster[k]) /\ ~Exists(indexer[k])
  BY <1>1, <1>3, <1>4, <1>6, <1>9
     DEF Delivery, CatchesUp, Alternates, Notified, Labelled, HasLabel, Exists
<1> QED  BY <1>7, <1>8, <1>9

LEMMA RestartDelivers ==
    ASSUME Types, NEW e, NEW k \in Keys, Delivery(k, e), Restart
    PROVE  Delivery(k, e)'
<1>1. cluster' = cluster /\ indexer'[k] = Absent /\ notifying'.key # k
  BY Sentinels DEF Restart
<1>2. cluster[k] \in Deltas /\ cluster[k] \in Stored  BY DEF Types, Deltas
<1>3. ~Exists(cluster[k]) => cluster[k] = Absent  BY <1>2, KnownExist, Sentinels DEF Stored
<1>4. ~Exists(Absent)  BY Sentinels DEF Exists
<1>5. watch'[k] = IF Exists(cluster[k]) THEN <<cluster[k]>> ELSE <<>>
  BY DEF Restart, Listed
<1>6. CASE Exists(cluster[k])
  BY <1>1, <1>4, <1>5, <1>6
     DEF Delivery, CatchesUp, Alternates, Notified, Labelled, HasLabel, Exists
<1>7. CASE ~Exists(cluster[k])
  BY <1>1, <1>3, <1>5, <1>7
     DEF Delivery, CatchesUp, Alternates, Notified, Labelled, HasLabel, Exists
<1> QED  BY <1>6, <1>7

LEMMA StoreDelivers ==
    ASSUME Types, NEW e, NEW k \in Keys, NEW l \in Keys, Delivery(k, e), Store(l)
    PROVE  Delivery(k, e)'
<1>1. CASE k # l
  BY <1>1, SameDelivery DEF Store, Types
<1>2. CASE k = l
  <2> DEFINE w == watch[k]
  <2>1. /\ cluster' = cluster
        /\ indexer'[k] = IF Exists(Head(w)) THEN Head(w) ELSE Absent
        /\ notifying' = [key |-> k, old |-> indexer[k], new |-> Head(w)]
        /\ watch'[k] = Tail(w) /\ w # <<>>
    BY <1>2 DEF Store, Types
  <2>2. /\ Len(w) \in Nat /\ Len(w) > 0 /\ Head(w) = w[1] /\ w[1] \in Deltas
        /\ Len(watch'[k]) = Len(w) - 1
        /\ \A i \in 1 .. Len(watch'[k]) : watch'[k][i] = w[i + 1]
        /\ watch'[k] = <<>> <=> Len(watch'[k]) = 0
    <3>1. w \in Seq(Deltas) /\ Len(w) \in Nat /\ Len(w) > 0 /\ w[1] \in Deltas
      BY <2>1, WatchElements
    <3>2. watch'[k] = Tail(w) /\ Tail(w) \in Seq(Deltas) /\ Len(Tail(w)) = Len(w) - 1
          /\ \A i \in 1 .. Len(Tail(w)) : Tail(w)[i] = w[i + 1]
      BY <2>1, <3>1, HeadTailProperties
    <3>3. Head(w) = w[1]  BY <2>1, <3>1
    <3>4. Tail(w) = <<>> <=> Len(Tail(w)) = 0  BY <3>1, <3>2, EmptySeq
    <3> QED  BY <3>1, <3>2, <3>3, <3>4
  <2>3. cluster[k] \in Deltas /\ cluster[k] \in Stored  BY DEF Types, Deltas
  <2>4. ~Exists(cluster[k]) => cluster[k] = Absent  BY <2>3, KnownExist, Sentinels DEF Stored
  <2>5. ~Exists(Absent)  BY Sentinels DEF Exists
  <2> HIDE DEF w
  <2>6. CatchesUp(k)'
    <3>1. IF Exists(cluster[k]) THEN w[Len(w)] = cluster[k] ELSE ~Exists(w[Len(w)])
      BY <2>1 DEF Delivery, CatchesUp, w
    <3>2. CASE Len(w) = 1  BY <2>1, <2>2, <2>4, <3>1, <3>2 DEF CatchesUp
    <3>3. CASE Len(w) > 1
      <4>1. watch'[k][Len(watch'[k])] = w[Len(w)]  BY <2>2, <3>3
      <4> QED  BY <2>1, <2>2, <3>1, <3>3, <4>1 DEF CatchesUp
    <3> QED  BY <2>2, <3>2, <3>3
  <2>7. Alternates(k)'
    <3>1. ~Exists(w[1]) => Exists(indexer[k])  BY <2>2 DEF Delivery, Alternates, w
    <3>2. ASSUME NEW i \in 1 .. Len(watch'[k]), ~Exists(watch'[k][i])
          PROVE  IF i = 1 THEN Exists(indexer'[k]) ELSE Exists(watch'[k][i - 1])
      <4>1. i + 1 \in 1 .. Len(w) /\ i + 1 # 1 /\ watch'[k][i] = w[i + 1]  BY <2>2
      <4>2. Exists(w[i])  BY <3>2, <4>1 DEF Delivery, Alternates, w
      <4>3. i # 1 => i - 1 \in 1 .. Len(watch'[k]) /\ watch'[k][i - 1] = w[i]  BY <2>2
      <4> QED  BY <2>1, <2>2, <4>2, <4>3
    <3> QED  BY <2>1, <2>2, <3>1, <3>2 DEF Alternates, Exists
  <2>8. Notified(k)'  BY <2>1 DEF Notified
  <2>9. k \notin e => Labelled(k)'
    <3>1. SUFFICES ASSUME k \notin e PROVE Labelled(k)'  OBVIOUS
    <3>2. HasLabel(indexer[k]) /\ HasLabel(cluster[k]) /\ \A i \in 1 .. Len(w) : HasLabel(w[i])
      BY <3>1 DEF Delivery, Labelled, w
    <3>3. \A i \in 1 .. Len(watch'[k]) : HasLabel(watch'[k][i])  BY <2>2, <3>2
    <3>4. HasLabel(indexer'[k])  BY <2>1, <2>2, <2>5, <3>2 DEF HasLabel
    <3> QED  BY <2>1, <2>2, <3>2, <3>3, <3>4 DEF Labelled, HasLabel, Exists
  <2> QED  BY <2>6, <2>7, <2>8, <2>9 DEF Delivery
<1> QED  BY <1>1, <1>2

-----------------------------------------------------------------------------
(* Queueing: what is under way from the store to the handler.              *)

Waiting(k) == notifying.key = k \/ \E i \in 1 .. Len(queue) : queue[i].key = k
Present(k) == Exists(indexer[k]) /\ indexer[k].labelled

\* Nothing of the key is queued or handled.
Free(k) == ~Waiting(k) /\ handling.event.key # k

\* The newest event of a key carries the object of the store.
NewestQueued(k) ==
    notifying.key # k =>
      \A i \in 1 .. Len(queue) :
        /\ queue[i].key = k
        /\ \A j \in 1 .. Len(queue) : i < j => queue[j].key # k
        => (Present(k) => queue[i].obj = indexer[k])

\* What is handled last is what the store says, except that nobody is told of
\* a pod that vanished without its label.
LastTaken(k, e) ==
    handling.event.key = k /\ ~Waiting(k) =>
      /\ Present(k) => handling.exists /\ handling.event.obj = indexer[k]
      /\ ~Exists(indexer[k]) /\ k \notin e => ~handling.exists

Queueing(k, e) ==
    ~crashed /\ ~requeued => /\ delayed = <<>>
                            /\ NewestQueued(k)
                            /\ LastTaken(k, e)

LEMMA QueueElements ==
    ASSUME Types
    PROVE  /\ queue \in Seq(Events) /\ Len(queue) \in Nat
           /\ queue = <<>> <=> Len(queue) = 0
           /\ \A i \in 1 .. Len(queue) : queue[i] \in Events
BY EmptySeq, ElementOfSeq DEF Types

LEMMA SameQueueing ==
    ASSUME NEW e, NEW k, Queueing(k, e),
           UNCHANGED <<indexer[k], queueVars, processVars>>,
           UNCHANGED notifying \/ (notifying.key # k /\ notifying'.key # k)
    PROVE  Queueing(k, e)'
<1>1. UNCHANGED <<indexer[k], queue, delayed, handling, crashed, requeued>>
  BY DEF queueVars, processVars
<1>2. Waiting(k)' <=> Waiting(k)  BY <1>1 DEF Waiting
<1> QED  BY <1>1, <1>2 DEF Queueing, NewestQueued, LastTaken, Present, Exists

\* An empty queue.
LEMMA EmptyQueueing ==
    ASSUME NEW e, NEW k \in Keys, queue = <<>>, delayed = <<>>, handling = NotHandling
    PROVE  Queueing(k, e)
BY Sentinels DEF Queueing, NewestQueued, LastTaken

\* The object a notification's event will carry.
Told(n) == IF Exists(n.new) THEN n.new ELSE n.old

\* What a notification queues.
LEMMA NotifyTells ==
    ASSUME Types, Notify
    PROVE  /\ notifying.key \in Keys /\ Told(notifying) \in Deltas
           /\ \/ queue' = queue /\ (crashed' \/ ~Validate(Told(notifying)))
              \/ \E ev \in Events :
                   /\ queue' = Append(queue, ev) /\ ev.key = notifying.key
                   /\ ev.obj = Told(notifying)
<1> DEFINE k == notifying.key
           n == notifying
<1>1. n \in Notifications  BY DEF Notify, Types
<1>2. /\ k \in Keys
      /\ n.old \in Stored /\ n.new \in Deltas /\ n.old \in Deltas
  BY <1>1 DEF Notifications, Deltas
<1>3. /\ Exists(n.new) => n.new \in Known
      /\ Validate(n.old) => n.old \in Known
  BY <1>2, KnownExist DEF Validate
<1>4. \A o \in Known : /\ NewEvent(k, o) \in Events
                       /\ NewUpdateEvent(k, o, n.old) \in Events
  BY <1>2 DEF NewEvent, NewUpdateEvent, Events, Stored
<1>5. \A o : /\ NewEvent(k, o).key = k /\ NewEvent(k, o).obj = o
             /\ NewUpdateEvent(k, o, n.old).key = k /\ NewUpdateEvent(k, o, n.old).obj = o
  BY DEF NewEvent, NewUpdateEvent
<1>6. CASE Exists(n.new)
  <2>1. Told(n) = n.new  BY <1>6 DEF Told
  <2>2. \/ queue' = queue /\ ~Validate(n.new)
        \/ queue' = Append(queue, NewEvent(k, n.new))
        \/ queue' = Append(queue, NewUpdateEvent(k, n.new, n.old))
    BY <1>6 DEF Notify, Update, Add
  <2> QED  BY <1>2, <1>3, <1>4, <1>5, <1>6, <2>1, <2>2
<1>7. CASE ~Exists(n.new)
  <2>1. Told(n) = n.old  BY <1>7 DEF Told
  <2>2. \/ queue' = queue /\ (crashed' \/ ~Validate(n.old))
        \/ queue' = Append(queue, NewEvent(k, n.old)) /\ Validate(n.old)
    BY <1>7 DEF Notify, Delete
  <2> QED  BY <1>2, <1>3, <1>4, <1>5, <2>1, <2>2
<1> QED  BY <1>6, <1>7

\* ... is what the store holds.
LEMMA NotifyQueuesStored ==
    ASSUME Types, NEW e, Notify, ~crashed', Delivery(notifying.key, e)
    PROVE  /\ notifying.key \in Keys
           /\ \/ queue' = queue /\ notifying.key \in e /\ ~Present(notifying.key)
              \/ \E ev \in Events :
                   /\ queue' = Append(queue, ev) /\ ev.key = notifying.key
                   /\ Present(ev.key) => ev.obj = indexer[ev.key]
<1> DEFINE k == notifying.key
           n == notifying
<1>1. indexer[k] = IF Exists(n.new) THEN n.new ELSE Absent  BY DEF Delivery, Notified
<1>2. k \notin e => HasLabel(n.old) /\ HasLabel(n.new)  BY DEF Delivery, Labelled
<1>3. ~Exists(n.new) => Exists(n.old)  BY DEF Delivery, Alternates
<1>4. ~Exists(Absent)  BY Sentinels DEF Exists
<1>5. Present(k) => indexer[k] = Told(n)  BY <1>1, <1>4 DEF Present, Told
<1>6. ~Validate(Told(n)) => k \in e /\ ~Present(k)
  BY <1>1, <1>2, <1>3, <1>4 DEF Validate, HasLabel, Present, Told
<1> QED  BY <1>5, <1>6, NotifyTells

LEMMA NotifyQueueing ==
    ASSUME Types, NEW e, NEW k \in Keys, Notify,
           Delivery(notifying.key, e), Queueing(k, e)
    PROVE  Queueing(k, e)'
<1> SUFFICES ASSUME ~crashed', ~requeued' PROVE Queueing(k, e)'  BY DEF Queueing
<1>1. /\ UNCHANGED <<indexer, delayed, handling>> /\ ~requeued /\ ~crashed
      /\ notifying'.key # k
  BY Sentinels DEF Notify
<1>2. delayed = <<>> /\ NewestQueued(k) /\ LastTaken(k, e)  BY <1>1 DEF Queueing
<1>3. CASE queue' = queue /\ notifying.key \in e /\ ~Present(notifying.key)
  <2>1. CASE k = notifying.key
    BY <1>1, <1>2, <1>3, <2>1 DEF Queueing, NewestQueued, LastTaken, Present, Exists
  <2>2. CASE k # notifying.key
    <3>1. Waiting(k)' <=> Waiting(k)  BY <1>1, <1>3, <2>2 DEF Waiting
    <3> QED  BY <1>1, <1>2, <1>3, <2>2, <3>1
             DEF Queueing, NewestQueued, LastTaken, Present, Exists
  <2> QED  BY <2>1, <2>2
<1>4. ASSUME NEW ev \in Events, queue' = Append(queue, ev), ev.key = notifying.key,
             Present(ev.key) => ev.obj = indexer[ev.key]
      PROVE  Queueing(k, e)'
  <2>1. /\ Len(queue) \in Nat /\ Len(queue') = Len(queue) + 1
        /\ \A i \in 1 .. Len(queue) : queue'[i] = queue[i]
        /\ queue'[Len(queue) + 1] = ev
    BY <1>4, QueueElements, AppendProperties
  <2>2. CASE k = notifying.key
    <3>1. Waiting(k)'  BY <1>4, <2>1, <2>2 DEF Waiting
    <3>2. ASSUME NEW i \in 1 .. Len(queue'), Present(k)',
                 \A j \in 1 .. Len(queue') : i < j => queue'[j].key # k
          PROVE  queue'[i].obj = indexer'[k]
      <4>1. ~(i < Len(queue) + 1)  BY <1>4, <2>1, <2>2, <3>2
      <4>2. i = Len(queue) + 1  BY <2>1, <4>1
      <4> QED  BY <1>1, <1>4, <2>1, <2>2, <3>2, <4>2 DEF Present, Exists
    <3> QED  BY <1>1, <1>2, <3>1, <3>2 DEF Queueing, NewestQueued, LastTaken
  <2>3. CASE k # notifying.key
    <3>1. Waiting(k)' <=> Waiting(k)  BY <1>1, <1>4, <2>1, <2>3 DEF Waiting
    <3>2. ASSUME NEW i \in 1 .. Len(queue'), queue'[i].key = k, Present(k)',
                 \A j \in 1 .. Len(queue') : i < j => queue'[j].key # k
          PROVE  queue'[i].obj = indexer'[k]
      <4>1. i \in 1 .. Len(queue)  BY <1>4, <2>1, <2>3, <3>2
      <4>2. \A j \in 1 .. Len(queue) : i < j => queue[j].key # k  BY <2>1, <3>2
      <4> QED  BY <1>1, <1>2, <2>1, <2>3, <3>2, <4>1, <4>2 DEF NewestQueued, Present, Exists
    <3>3. NewestQueued(k)'  BY <3>2 DEF NewestQueued
    <3> QED  BY <1>1, <1>2, <3>1, <3>3 DEF Queueing, LastTaken, Present, Exists
  <2> QED  BY <2>2, <2>3
<1> QED  BY <1>3, <1>4, NotifyQueuesStored

LEMMA StoreQueueing ==
    ASSUME Types, NEW e, NEW k \in Keys, NEW l \in Keys, Store(l), Queueing(k, e)
    PROVE  Queueing(k, e)'
<1>1. /\ UNCHANGED <<queueVars, processVars>> /\ notifying.key # k
      /\ notifying'.key = l
      /\ k # l => UNCHANGED indexer[k]
  BY Sentinels DEF Store, Types
<1>2. CASE k = l
  <2>1. Waiting(k)'  BY <1>1, <1>2 DEF Waiting
  <2> QED  BY <1>1, <1>2, <2>1
           DEF Queueing, NewestQueued, LastTaken, queueVars, processVars
<1>3. CASE k # l  BY <1>1, <1>3, SameQueueing
<1> QED  BY <1>2, <1>3

\* The queue without its head.
LEMMA QueueTail ==
    ASSUME Types, queue # <<>>, queue' = Tail(queue)
    PROVE  /\ Len(queue) \in Nat /\ Len(queue) > 0 /\ Len(queue') = Len(queue) - 1
           /\ Head(queue) = queue[1] /\ queue[1] \in Events
           /\ \A i \in 1 .. Len(queue') : queue'[i] = queue[i + 1]
<1>1. queue \in Seq(Events) /\ Len(queue) \in Nat /\ Len(queue) > 0 /\ queue[1] \in Events
  BY QueueElements
<1>2. /\ Len(Tail(queue)) = Len(queue) - 1
      /\ \A i \in 1 .. Len(Tail(queue)) : Tail(queue)[i] = queue[i + 1]
  BY <1>1, HeadTailProperties
<1>3. Head(queue) = queue[1]  BY <1>1
<1> QED  BY <1>1, <1>2, <1>3

LEMMA TakeQueueing ==
    ASSUME Types, NEW e, NEW k \in Keys, Take, Queueing(k, e)
    PROVE  Queueing(k, e)'
<1> SUFFICES ASSUME ~crashed', ~requeued' PROVE Queueing(k, e)'  BY DEF Queueing
<1>1. UNCHANGED <<indexer, notifying, delayed, crashed, requeued>>
  BY DEF Take, informerVars, processVars
<1>2. delayed = <<>> /\ NewestQueued(k)  BY <1>1 DEF Queueing
<1>3. /\ Len(queue) \in Nat /\ Len(queue) > 0 /\ Len(queue') = Len(queue) - 1
      /\ Head(queue) = queue[1]
      /\ \A i \in 1 .. Len(queue') : queue'[i] = queue[i + 1]
  BY QueueTail DEF Take, CanTake
<1>4. handling' = [event |-> queue[1], exists |-> Exists(indexer[queue[1].key])]
  BY <1>3 DEF Take
<1>5. ASSUME NEW i \in 1 .. Len(queue'), queue'[i].key = k, Present(k)', notifying.key # k,
             \A j \in 1 .. Len(queue') : i < j => queue'[j].key # k
      PROVE  queue'[i].obj = indexer'[k]
  <2>1. i + 1 \in 1 .. Len(queue) /\ queue[i + 1].key = k  BY <1>3, <1>5
  <2>2. ASSUME NEW j \in 1 .. Len(queue), i + 1 < j PROVE queue[j].key # k
    <3>1. j - 1 \in 1 .. Len(queue') /\ i < j - 1 /\ (j - 1) + 1 = j  BY <1>3, <2>2
    <3>2. queue'[j - 1] = queue[j]  BY <1>3, <3>1
    <3> QED  BY <1>5, <3>1, <3>2
  <2>3. queue[i + 1].obj = indexer[k]
    BY <1>1, <1>2, <1>5, <2>1, <2>2 DEF NewestQueued, Present, Exists
  <2> QED  BY <1>1, <1>3, <2>3
<1>6. NewestQueued(k)'  BY <1>1, <1>5 DEF NewestQueued
<1>7. ASSUME queue[1].key = k, ~Waiting(k)'
      PROVE  Present(k) => queue[1].obj = indexer[k]
  <2>1. \A i \in 1 .. Len(queue') : queue'[i].key # k  BY <1>7 DEF Waiting
  <2>2. ASSUME NEW j \in 1 .. Len(queue), 1 < j PROVE queue[j].key # k
    <3>1. j - 1 \in 1 .. Len(queue') /\ (j - 1) + 1 = j  BY <1>3, <2>2
    <3>2. queue'[j - 1] = queue[j]  BY <1>3, <3>1
    <3> QED  BY <2>1, <3>1, <3>2
  <2>3. notifying.key # k  BY <1>1, <1>7 DEF Waiting
  <2> QED  BY <1>2, <1>3, <1>7, <2>2, <2>3 DEF NewestQueued
<1>8. LastTaken(k, e)'  BY <1>1, <1>4, <1>7 DEF LastTaken, Present, Exists
<1> QED  BY <1>1, <1>2, <1>6, <1>8 DEF Queueing

LEMMA HandledQueueing ==
    ASSUME NEW e, NEW k \in Keys, Handled, Queueing(k, e)
    PROVE  Queueing(k, e)'
<1>1. /\ UNCHANGED <<indexer, notifying, queue, delayed, crashed, requeued>>
      /\ handling'.event.key # k
  BY Sentinels DEF Handled, informerVars, processVars
<1> QED  BY <1>1 DEF Queueing, NewestQueued, LastTaken, Present, Exists

\* An event comes back only after one has failed.
LEMMA RetryQueueing ==
    ASSUME NEW e, NEW k, Retry, Queueing(k, e)
    PROVE  Queueing(k, e)'
<1>1. CASE HandleError  BY <1>1 DEF HandleError, Queueing
<1>2. ASSUME NEW i \in 1 .. Len(delayed), Requeue(i) PROVE Queueing(k, e)'
  <2>1. delayed # <<>>  BY <1>2, EmptySeq
  <2> QED  BY <1>2, <2>1 DEF Requeue, Queueing, processVars
<1> QED  BY <1>1, <1>2 DEF Retry

-----------------------------------------------------------------------------
(* Settling: both.                                                         *)

Settling(e) == \A k \in Keys : Delivery(k, e) /\ Queueing(k, e)

LEMMA InitSettles == ASSUME PipelineInit, NEW e PROVE Settling(e)
<1>1. queue = <<>> /\ delayed = <<>> /\ handling = NotHandling  BY DEF PipelineInit
<1> QED  BY <1>1, InitDelivers, EmptyQueueing DEF Settling

\* More names may have lost their label.
LEMMA SettlingGrows ==
    ASSUME NEW e, NEW f, e \subseteq f, Settling(e)
    PROVE  Settling(f)
BY DEF Settling, Delivery, Queueing, LastTaken

LEMMA ChangeSettles ==
    ASSUME Types, NEW e, NEW l \in Keys, NEW object, Settling(e),
           Change(l, object), object \in Stored',
           ~Exists(object) => Exists(cluster[l]),
           l \notin e => HasLabel(object)
    PROVE  Settling(e)'
<1> SUFFICES ASSUME NEW k \in Keys PROVE Delivery(k, e)' /\ Queueing(k, e)'  BY DEF Settling
<1>1. Delivery(k, e) /\ Queueing(k, e)  BY DEF Settling
<1>2. UNCHANGED <<indexer[k], notifying, queueVars, processVars>>  BY DEF Change
<1> QED  BY <1>1, <1>2, ChangeDelivers, SameQueueing

LEMMA RestartSettles ==
    ASSUME Types, NEW e, Settling(e), Restart
    PROVE  Settling(e)'
<1> SUFFICES ASSUME NEW k \in Keys PROVE Delivery(k, e)' /\ Queueing(k, e)'  BY DEF Settling
<1>1. Delivery(k, e)'  BY RestartDelivers DEF Settling
<1>2. queue' = <<>> /\ delayed' = <<>> /\ handling' = NotHandling  BY DEF Restart
<1>3. Queueing(k, e)'
  BY <1>2, Sentinels DEF Queueing, NewestQueued, LastTaken
<1> QED  BY <1>1, <1>3

LEMMA StepSettles ==
    ASSUME Types, NEW e, Settling(e), PipelineNext \/ Handled
    PROVE  Settling(e)'
<1> SUFFICES ASSUME NEW k \in Keys PROVE Delivery(k, e)' /\ Queueing(k, e)'  BY DEF Settling
<1>1. Delivery(k, e) /\ Queueing(k, e)  BY DEF Settling
<1>2. CASE Relist
  <2>1. UNCHANGED <<indexer[k], notifying, queueVars, processVars>>  BY <1>2 DEF Relist
  <2> QED  BY <1>1, <1>2, <2>1, RelistDelivers, SameQueueing
<1>3. CASE Notify
  <2>1. notifying.key \in Keys  BY <1>3 DEF Notify, Types, Notifications
  <2>2. Delivery(notifying.key, e)  BY <2>1 DEF Settling
  <2>3. UNCHANGED <<cluster[k], indexer[k], watch[k]>> /\ notifying'.key # k
    BY <1>3, Sentinels DEF Notify
  <2> QED  BY <1>1, <1>3, <2>2, <2>3, SameDelivery, NotifyQueueing
<1>4. CASE \E l \in Keys : Store(l)
  BY <1>1, <1>4, StoreDelivers, StoreQueueing
<1>5. CASE Take
  <2>1. UNCHANGED <<cluster[k], indexer[k], watch[k], notifying>>
    BY <1>5 DEF Take, informerVars
  <2> QED  BY <1>1, <1>5, <2>1, SameDelivery, TakeQueueing
<1>6. CASE Retry
  <2>1. UNCHANGED <<cluster[k], indexer[k], watch[k], notifying>>
    BY <1>6 DEF Retry, HandleError, Requeue, informerVars
  <2> QED  BY <1>1, <1>6, <2>1, SameDelivery, RetryQueueing
<1>7. CASE Handled
  <2>1. UNCHANGED <<cluster[k], indexer[k], watch[k], notifying>>
    BY <1>7 DEF Handled, informerVars
  <2> QED  BY <1>1, <1>7, <2>1, SameDelivery, HandledQueueing
<1> QED  BY <1>2, <1>3, <1>4, <1>5, <1>6, <1>7 DEF PipelineNext, Informer

\* A step of the pipeline after which nothing of the key is queued or handled
\* has neither stored nor dropped anything of it, unless the pod has lost its
\* label.
LEMMA QuietSteps ==
    ASSUME Types, NEW e, NEW k \in Keys, Settling(e), PipelineNext,
           Free(k)', ~crashed', ~requeued'
    PROVE  /\ ~crashed /\ ~requeued
           /\ \/ Free(k) /\ indexer'[k] = indexer[k]
              \/ k \in e /\ ~Present(k)'
<1>1. CASE Relist
  BY <1>1 DEF Relist, Free, Waiting, queueVars, processVars
<1>2. CASE Notify
  <2>1. /\ UNCHANGED <<indexer, handling>> /\ ~requeued /\ ~crashed
        /\ notifying.key \in Keys /\ Delivery(notifying.key, e)
    BY <1>2 DEF Notify, Settling, Types, Notifications
  <2>2. CASE queue' = queue /\ notifying.key \in e /\ ~Present(notifying.key)
    BY <2>1, <2>2 DEF Free, Waiting, Present, Exists
  <2>3. ASSUME NEW ev \in Events, queue' = Append(queue, ev), ev.key = notifying.key
        PROVE  Free(k)
    <3>1. /\ Len(queue) \in Nat /\ Len(queue') = Len(queue) + 1
          /\ \A i \in 1 .. Len(queue) : queue'[i] = queue[i]
          /\ queue'[Len(queue) + 1] = ev
      BY <2>3, QueueElements, AppendProperties
    <3>2. \A i \in 1 .. Len(queue') : queue'[i].key # k  BY DEF Free, Waiting
    <3>3. ev.key # k  BY <3>1, <3>2
    <3>4. \A i \in 1 .. Len(queue) : queue[i].key # k  BY <3>1, <3>2
    <3> QED  BY <2>1, <2>3, <3>3, <3>4 DEF Free, Waiting
  <2> QED  BY <1>2, <2>1, <2>2, <2>3, NotifyQueuesStored
<1>3. ASSUME NEW l \in Keys, Store(l)
      PROVE  ~crashed /\ ~requeued /\ Free(k) /\ indexer'[k] = indexer[k]
  <2>1. k # l  BY <1>3 DEF Store, Free, Waiting
  <2> QED  BY <1>3, <2>1, Sentinels DEF Store, Types, Free, Waiting, queueVars, processVars
<1>4. CASE Take
  <2>1. /\ Len(queue) \in Nat /\ Len(queue) > 0 /\ Len(queue') = Len(queue) - 1
        /\ Head(queue) = queue[1]
        /\ \A i \in 1 .. Len(queue') : queue'[i] = queue[i + 1]
    BY <1>4, QueueTail DEF Take, CanTake
  <2>2. queue[1].key # k  BY <1>4, <2>1 DEF Take, Free
  <2>3. ASSUME NEW j \in 1 .. Len(queue), j # 1 PROVE queue[j].key # k
    <3>1. j - 1 \in 1 .. Len(queue') /\ (j - 1) + 1 = j  BY <2>1, <2>3
    <3>2. queue'[j - 1] = queue[j]  BY <2>1, <3>1
    <3> QED  BY <3>1, <3>2 DEF Free, Waiting
  <2>4. /\ handling.event.key # k /\ UNCHANGED <<indexer, notifying, crashed, requeued>>
    BY <1>4, Sentinels DEF Take, CanTake, informerVars, processVars
  <2>5. notifying.key # k  BY <2>4 DEF Free, Waiting
  <2> QED  BY <2>2, <2>3, <2>4, <2>5 DEF Free, Waiting
<1>5. ASSUME Retry PROVE FALSE
  <2>1. ASSUME NEW i \in 1 .. Len(delayed), Requeue(i) PROVE FALSE
    <3>1. delayed # <<>>  BY <2>1, EmptySeq
    <3> QED  BY <2>1, <3>1 DEF Requeue, Settling, Queueing, processVars
  <2> QED  BY <1>5, <2>1 DEF Retry, HandleError
<1> QED  BY <1>1, <1>2, <1>3, <1>4, <1>5 DEF PipelineNext, Informer

\* Once everything about a key is handled, the store is what the API server has.
LEMMA SettledIsFree ==
    ASSUME NEW e, NEW k \in Keys, Settling(e), Settled(k)
    PROVE  Free(k) /\ ~crashed /\ ~requeued /\ indexer[k] = cluster[k]
BY DEF Settled, Quiet, Settling, Delivery, CatchesUp, Free, Waiting

-----------------------------------------------------------------------------
(* Order: no copy of an object is followed by one of an earlier            *)
(* incarnation.                                                            *)

NotBefore(u, object) == Exists(object) => u <= object.uid

\* Whatever is still to be queued about the key is not older than u.
Coming(k, u) ==
    /\ u <= changes
    /\ NotBefore(u, cluster[k]) /\ NotBefore(u, indexer[k])
    /\ \A i \in 1 .. Len(watch[k]) : NotBefore(u, watch[k][i])
    /\ notifying.key = k => NotBefore(u, Told(notifying))

\* Nor is what is queued, unless an event was queued a second time.
QueueComing(k, u) ==
    /\ Coming(k, u)
    /\ ~requeued => \A i \in 1 .. Len(queue) : queue[i].key = k => u <= queue[i].obj.uid

WatchInOrder(k) ==
    \A i \in 1 .. Len(watch[k]) :
      Exists(watch[k][i]) =>
        /\ NotBefore(watch[k][i].uid, cluster[k])
        /\ \A j \in 1 .. Len(watch[k]) : i < j => NotBefore(watch[k][i].uid, watch[k][j])

DeltasInOrder(k) ==
    /\ WatchInOrder(k)
    /\ Exists(indexer[k]) => Coming(k, indexer[k].uid)
    /\ notifying.key = k /\ Exists(Told(notifying)) => Coming(k, Told(notifying).uid)

EventsInOrder ==
    /\ ~requeued => delayed = <<>>
    /\ \A i \in 1 .. Len(queue) :
         /\ Coming(queue[i].key, queue[i].obj.uid)
         /\ ~requeued => \A j \in 1 .. Len(queue) :
              i < j /\ queue[i].key = queue[j].key => queue[i].obj.uid <= queue[j].obj.uid
    /\ \A i \in 1 .. Len(delayed) : Coming(delayed[i].key, delayed[i].obj.uid)
    /\ handling # NotHandling => QueueComing(handling.event.key, handling.event.obj.uid)

InOrder == EventsInOrder /\ \A k \in Keys : DeltasInOrder(k)

\* A change makes an object disappear, gives it a new incarnation or leaves it
\* the one it had.
OrderedChange(k, object) ==
    /\ Change(k, object)
    /\ Exists(object) => object.uid = changes + 1 \/ object.uid = cluster[k].uid

PipelineStep ==
    \/ \E l \in Keys : \E object \in Stored' : OrderedChange(l, object)
    \/ Restart
    \/ PipelineNext
    \/ Handled

LEMMA ComingKept ==
    ASSUME Types, NEW k \in Keys, NEW u \in Nat, Coming(k, u), PipelineStep
    PROVE  Coming(k, u)'
<1>1. ~Exists(Absent) /\ ~Exists(Tombstone)  BY Sentinels DEF Exists
<1>2. changes \in Nat  BY DEF Types
<1>3. ASSUME NEW l \in Keys, NEW object \in Stored', OrderedChange(l, object)
      PROVE  Coming(k, u)'
  <2>1. changes' = changes + 1 /\ UNCHANGED <<indexer, notifying>>
    BY <1>3 DEF OrderedChange, Change
  <2>2. CASE l # k
    BY <1>2, <1>3, <2>1, <2>2 DEF OrderedChange, Change, Types, Coming, NotBefore, Exists
  <2>3. CASE l = k
    <3>1. NotBefore(u, object)
      BY <1>2, <1>3, <2>3 DEF OrderedChange, Coming, NotBefore, Exists
    <3>2. cluster'[k] = object /\ watch'[k] = Append(watch[k], object)
      BY <1>3, <2>3 DEF OrderedChange, Change, Types
    <3>3. /\ Len(watch[k]) \in Nat /\ Len(watch'[k]) = Len(watch[k]) + 1
          /\ \A i \in 1 .. Len(watch[k]) : watch'[k][i] = watch[k][i]
          /\ watch'[k][Len(watch[k]) + 1] = object
      BY <3>2, WatchElements, AppendProperties
    <3>4. \A i \in 1 .. Len(watch'[k]) : NotBefore(u, watch'[k][i])
      BY <3>1, <3>3 DEF Coming
    <3>5. u <= changes'  BY <1>2, <2>1 DEF Coming
    <3> QED  BY <2>1, <3>1, <3>2, <3>4, <3>5 DEF Coming, NotBefore, Exists, Told
  <2> QED  BY <2>2, <2>3
<1>4. CASE Relist
  <2>1. watch'[k] \in {<<cluster[k]>>, <<Tombstone>>, <<>>}  BY <1>4 DEF Relist
  <2>2. \A i \in 1 .. Len(watch'[k]) : NotBefore(u, watch'[k][i])
    BY <1>1, <2>1 DEF Coming, NotBefore
  <2>3. u <= changes' /\ UNCHANGED <<cluster, indexer, notifying>>
    BY <1>2, <1>4 DEF Relist, Coming
  <2> QED  BY <2>2, <2>3 DEF Coming, NotBefore, Exists, Told
<1>5. CASE Restart
  <2>1. watch'[k] \in {<<cluster[k]>>, <<>>}  BY <1>5 DEF Restart, Listed
  <2>2. \A i \in 1 .. Len(watch'[k]) : NotBefore(u, watch'[k][i])
    BY <2>1 DEF Coming, NotBefore
  <2>3. u <= changes' /\ cluster' = cluster /\ indexer'[k] = Absent /\ notifying'.key # k
    BY <1>2, <1>5, Sentinels DEF Restart, Coming
  <2> QED  BY <1>1, <2>2, <2>3 DEF Coming, NotBefore, Exists
<1>6. ASSUME NEW l \in Keys, Store(l) PROVE Coming(k, u)'
  <2>1. UNCHANGED <<changes, cluster>> /\ notifying'.key = l  BY <1>6 DEF Store
  <2>2. CASE l # k
    BY <1>6, <2>1, <2>2 DEF Store, Types, Coming, NotBefore, Exists
  <2>3. CASE l = k
    <3> DEFINE w == watch[k]
    <3>1. /\ indexer'[k] = IF Exists(Head(w)) THEN Head(w) ELSE Absent
          /\ notifying' = [key |-> k, old |-> indexer[k], new |-> Head(w)]
          /\ watch'[k] = Tail(w) /\ w # <<>>
      BY <1>6, <2>3 DEF Store, Types
    <3>2. /\ w \in Seq(Deltas) /\ Len(w) \in Nat /\ Len(w) > 0 /\ Head(w) = w[1]
      BY <3>1, WatchElements
    <3>3. /\ Len(Tail(w)) = Len(w) - 1
          /\ \A i \in 1 .. Len(Tail(w)) : Tail(w)[i] = w[i + 1]
      BY <3>1, <3>2, HeadTailProperties
    <3>4. \A i \in 1 .. Len(w) : NotBefore(u, w[i])  BY DEF Coming
    <3>5. NotBefore(u, Head(w)) /\ \A i \in 1 .. Len(Tail(w)) : NotBefore(u, Tail(w)[i])
      BY <3>2, <3>3, <3>4
    <3> HIDE DEF w
    <3>6. NotBefore(u, indexer'[k])  BY <1>1, <3>1, <3>5 DEF NotBefore
    <3>7. NotBefore(u, Told(notifying'))  BY <3>1, <3>5 DEF Told, Coming
    <3> QED  BY <2>1, <3>1, <3>5, <3>6, <3>7 DEF Coming, NotBefore, Exists, Told
  <2> QED  BY <2>2, <2>3
<1>7. CASE Notify
  BY <1>7, Sentinels DEF Notify, Coming, NotBefore, Exists
<1>8. CASE Take \/ Retry \/ Handled
  BY <1>8 DEF Take, Retry, HandleError, Requeue, Handled, informerVars,
     Coming, NotBefore, Exists, Told
<1> QED  BY <1>3, <1>4, <1>5, <1>6, <1>7, <1>8 DEF PipelineStep, PipelineNext, Informer

LEMMA QueueComingKept ==
    ASSUME Types, EventsInOrder, NEW k \in Keys, NEW u \in Nat, QueueComing(k, u),
           PipelineStep
    PROVE  QueueComing(k, u)'
<1>1. Coming(k, u) /\ Coming(k, u)'  BY ComingKept DEF QueueComing
<1> SUFFICES ASSUME ~requeued', NEW i \in 1 .. Len(queue'), queue'[i].key = k
             PROVE  u <= queue'[i].obj.uid
  BY <1>1 DEF QueueComing
<1>2. ~requeued => \A j \in 1 .. Len(queue) : queue[j].key = k => u <= queue[j].obj.uid
  BY DEF QueueComing
<1>3. CASE UNCHANGED <<queue, requeued>>  BY <1>2, <1>3
<1>4. CASE Restart  BY <1>4 DEF Restart
<1>5. CASE Notify
  <2>1. ~requeued  BY <1>5 DEF Notify
  <2>2. CASE queue' = queue  BY <1>2, <2>1, <2>2
  <2>3. ASSUME NEW ev \in Events, queue' = Append(queue, ev), ev.key = notifying.key,
               ev.obj = Told(notifying)
        PROVE  u <= queue'[i].obj.uid
    <3>1. /\ Len(queue) \in Nat /\ Len(queue') = Len(queue) + 1
          /\ \A j \in 1 .. Len(queue) : queue'[j] = queue[j]
          /\ queue'[Len(queue) + 1] = ev
      BY <2>3, QueueElements, AppendProperties
    <3>2. ev.key = k => u <= ev.obj.uid
      <4>1. ev.obj \in Known  BY <2>3 DEF Events
      <4>2. Exists(ev.obj)  BY <4>1, KnownExist DEF Deltas, Stored
      <4> QED  BY <1>1, <2>3, <4>2 DEF Coming, NotBefore
    <3> QED  BY <1>2, <2>1, <3>1, <3>2
  <2> QED  BY <1>5, <2>2, <2>3, NotifyTells
<1>6. CASE Take
  <2>1. /\ Len(queue) \in Nat /\ Len(queue') = Len(queue) - 1
        /\ \A j \in 1 .. Len(queue') : queue'[j] = queue[j + 1]
    BY <1>6, QueueTail DEF Take, CanTake
  <2>2. i + 1 \in 1 .. Len(queue)  BY <2>1
  <2> QED  BY <1>2, <1>6, <2>1, <2>2 DEF Take, processVars
<1>7. ASSUME Retry PROVE FALSE
  <2>1. ASSUME NEW j \in 1 .. Len(delayed), Requeue(j) PROVE FALSE
    <3>1. delayed # <<>>  BY <2>1, EmptySeq
    <3> QED  BY <2>1, <3>1 DEF Requeue, EventsInOrder, processVars
  <2> QED  BY <1>7, <2>1 DEF Retry, HandleError
<1>8. ASSUME NEW l \in Keys, NEW object \in Stored', OrderedChange(l, object)
      PROVE  UNCHANGED <<queue, requeued>>
  BY <1>8 DEF OrderedChange, Change, queueVars, processVars
<1>9. ASSUME Relist \/ Handled \/ \E l \in Keys : Store(l)
      PROVE  UNCHANGED <<queue, requeued>>
  BY <1>9 DEF Relist, Handled, Store, queueVars, processVars
<1> QED  BY <1>3, <1>4, <1>5, <1>6, <1>7, <1>8, <1>9 DEF PipelineStep, PipelineNext, Informer

LEMMA WatchOrderKept ==
    ASSUME Types, NEW k \in Keys, WatchInOrder(k), PipelineStep
    PROVE  WatchInOrder(k)'
<1>1. changes \in Nat /\ ~Exists(Absent) /\ ~Exists(Tombstone)
  BY Sentinels DEF Types, Exists
<1>2. CASE UNCHANGED <<watch[k], cluster[k]>>
  BY <1>2 DEF WatchInOrder, NotBefore, Exists
<1>3. \A i \in 1 .. Len(watch[k]) : watch[k][i].uid \in 0 .. changes
  BY WatchElements, KnownExist
<1>4. ASSUME NEW l \in Keys, NEW object \in Stored', OrderedChange(l, object)
      PROVE  WatchInOrder(k)'
  <2>1. CASE l # k
    BY <1>2, <1>4, <2>1 DEF OrderedChange, Change, Types
  <2>2. CASE l = k
    <3>1. cluster'[k] = object /\ watch'[k] = Append(watch[k], object)
      BY <1>4, <2>2 DEF OrderedChange, Change, Types
    <3>2. /\ Len(watch[k]) \in Nat /\ Len(watch'[k]) = Len(watch[k]) + 1
          /\ \A i \in 1 .. Len(watch[k]) : watch'[k][i] = watch[k][i]
          /\ watch'[k][Len(watch[k]) + 1] = object
      BY <3>1, WatchElements, AppendProperties
    <3>3. \A i \in 1 .. Len(watch[k]) : Exists(watch[k][i]) => NotBefore(watch[k][i].uid, object)
      BY <1>1, <1>3, <1>4, <2>2 DEF WatchInOrder, OrderedChange, NotBefore, Exists
    <3>4. object.uid \in Nat
      <4>1. changes' \in Nat  BY <1>1, <1>4 DEF OrderedChange, Change
      <4> QED  BY <1>4, <4>1, Sentinels DEF Stored, Known
    <3>5. ASSUME NEW i \in 1 .. Len(watch'[k]), Exists(watch'[k][i])
          PROVE  /\ NotBefore(watch'[k][i].uid, object)
                 /\ \A j \in 1 .. Len(watch'[k]) : i < j => NotBefore(watch'[k][i].uid, watch'[k][j])
      <4>1. CASE i \in 1 .. Len(watch[k])
        <5>1. \A j \in 1 .. Len(watch[k]) : i < j => NotBefore(watch[k][i].uid, watch[k][j])
          BY <3>2, <3>5, <4>1 DEF WatchInOrder
        <5> QED  BY <3>2, <3>3, <3>5, <4>1, <5>1
      <4>2. CASE i = Len(watch[k]) + 1
        BY <3>2, <3>4, <4>2 DEF NotBefore
      <4> QED  BY <3>2, <4>1, <4>2
    <3> QED  BY <3>1, <3>5 DEF WatchInOrder, NotBefore, Exists
  <2> QED  BY <2>1, <2>2
<1>5. ASSUME cluster' = cluster, watch'[k] \in {<<cluster[k]>>, <<Tombstone>>, <<>>}
      PROVE  WatchInOrder(k)'
  <2>1. cluster[k].uid \in Nat  BY <1>1, KnownExist DEF Types, Deltas
  <2> QED  BY <1>1, <1>5, <2>1 DEF WatchInOrder, NotBefore, Exists
<1>6. CASE Relist \/ Restart
  BY <1>5, <1>6 DEF Relist, Restart, Listed
<1>7. ASSUME NEW l \in Keys, Store(l) PROVE WatchInOrder(k)'
  <2>1. CASE l # k
    BY <1>2, <1>7, <2>1 DEF Store, Types
  <2>2. CASE l = k
    <3>1. watch'[k] = Tail(watch[k]) /\ watch[k] # <<>> /\ cluster' = cluster
      BY <1>7, <2>2 DEF Store, Types
    <3>2. /\ Len(watch[k]) \in Nat /\ Len(watch'[k]) = Len(watch[k]) - 1
          /\ \A i \in 1 .. Len(watch'[k]) : watch'[k][i] = watch[k][i + 1]
      BY <3>1, WatchElements, HeadTailProperties
    <3>3. ASSUME NEW i \in 1 .. Len(watch'[k]), Exists(watch'[k][i])
          PROVE  /\ NotBefore(watch'[k][i].uid, cluster[k])
                 /\ \A j \in 1 .. Len(watch'[k]) : i < j => NotBefore(watch'[k][i].uid, watch'[k][j])
      <4>1. i + 1 \in 1 .. Len(watch[k]) /\ Exists(watch[k][i + 1])  BY <3>2, <3>3
      <4>2. /\ NotBefore(watch[k][i + 1].uid, cluster[k])
            /\ \A j \in 1 .. Len(watch[k]) :
                 i + 1 < j => NotBefore(watch[k][i + 1].uid, watch[k][j])
        BY <4>1 DEF WatchInOrder
      <4>3. ASSUME NEW j \in 1 .. Len(watch'[k]), i < j
            PROVE  NotBefore(watch'[k][i].uid, watch'[k][j])
        <5>1. j + 1 \in 1 .. Len(watch[k]) /\ i + 1 < j + 1  BY <3>2, <4>3
        <5> QED  BY <3>2, <4>2, <5>1
      <4> QED  BY <3>2, <4>2, <4>3
    <3> QED  BY <3>1, <3>3 DEF WatchInOrder, NotBefore, Exists
  <2> QED  BY <2>1, <2>2
<1>8. ASSUME Notify \/ Take \/ Retry \/ Handled PROVE UNCHANGED <<watch, cluster>>
  BY <1>8 DEF Notify, Take, Retry, HandleError, Requeue, Handled, informerVars
<1> QED  BY <1>2, <1>4, <1>6, <1>7, <1>8 DEF PipelineStep, PipelineNext, Informer

LEMMA DeltasOrderKept ==
    ASSUME Types, NEW k \in Keys, DeltasInOrder(k), PipelineStep
    PROVE  DeltasInOrder(k)'
<1>1. WatchInOrder(k)'  BY WatchOrderKept DEF DeltasInOrder, WatchInOrder
<1>2. changes \in Nat /\ indexer[k] \in Deltas  BY DEF Types, Deltas
<1>3. ASSUME Exists(indexer[k])
      PROVE  \E u \in Nat : u = indexer[k].uid /\ Coming(k, u)'
  <2>1. PICK u \in Nat : u = indexer[k].uid  BY <1>2, KnownExist
  <2> QED  BY <1>3, <2>1, ComingKept DEF DeltasInOrder
<1>4. ASSUME notifying.key = k, Exists(Told(notifying))
      PROVE  \E u \in Nat : u = Told(notifying).uid /\ Coming(k, u)'
  <2>1. notifying \in Notifications  BY <1>4, Sentinels DEF Types
  <2>2. Told(notifying) \in Deltas  BY <2>1 DEF Notifications, Told, Deltas
  <2>3. PICK u \in Nat : u = Told(notifying).uid  BY <1>2, <2>2, KnownExist
  <2> QED  BY <1>4, <2>3, ComingKept DEF DeltasInOrder
<1>5. CASE UNCHANGED indexer[k] /\ (UNCHANGED notifying \/ notifying'.key # k)
  <2>1. Exists(indexer'[k]) => Coming(k, indexer[k].uid)'
    BY <1>3, <1>5 DEF Exists, Coming, NotBefore
  <2>2. notifying'.key = k /\ Exists(Told(notifying')) => Coming(k, Told(notifying).uid)'
    BY <1>4, <1>5 DEF Exists, Coming, NotBefore, Told
  <2> QED  BY <1>1, <2>1, <2>2 DEF DeltasInOrder, WatchInOrder, Exists, Told
<1>6. ASSUME NEW l \in Keys, Store(l) PROVE DeltasInOrder(k)'
  <2>1. CASE l # k  BY <1>5, <1>6, <2>1 DEF Store, Types
  <2>2. CASE l = k
    <3> DEFINE w == watch[k]
    <3>1. /\ indexer'[k] = IF Exists(Head(w)) THEN Head(w) ELSE Absent
          /\ notifying' = [key |-> k, old |-> indexer[k], new |-> Head(w)]
          /\ watch'[k] = Tail(w) /\ w # <<>> /\ UNCHANGED <<cluster, changes>>
      BY <1>6, <2>2 DEF Store, Types
    <3>2. /\ w \in Seq(Deltas) /\ Len(w) \in Nat /\ Len(w) > 0
          /\ Head(w) = w[1] /\ w[1] \in Deltas
      BY <3>1, WatchElements
    <3>3. /\ Len(Tail(w)) = Len(w) - 1
          /\ \A i \in 1 .. Len(Tail(w)) : Tail(w)[i] = w[i + 1]
      BY <3>1, <3>2, HeadTailProperties
    <3>4. CASE Exists(Head(w))
      <4>1. indexer'[k] = w[1] /\ Told(notifying') = w[1]  BY <3>1, <3>2, <3>4 DEF Told
      <4>2. PICK u \in Nat : u = w[1].uid /\ u <= changes  BY <1>2, <3>2, KnownExist
      <4>3. /\ NotBefore(u, cluster[k])
            /\ \A j \in 1 .. Len(w) : 1 < j => NotBefore(u, w[j])
        BY <3>2, <3>4, <4>2 DEF DeltasInOrder, WatchInOrder
      <4> HIDE DEF w
      <4>4. ASSUME NEW i \in 1 .. Len(Tail(w)) PROVE NotBefore(u, Tail(w)[i])
        <5>1. i + 1 \in 1 .. Len(w) /\ 1 < i + 1  BY <3>2, <3>3
        <5>2. NotBefore(u, w[i + 1])  BY <4>3, <5>1
        <5> QED  BY <3>3, <5>2
      <4>5. Coming(k, u)'
        BY <3>1, <4>1, <4>2, <4>3, <4>4 DEF Coming, NotBefore, Exists, Told
      <4> QED  BY <1>1, <4>1, <4>2, <4>5
               DEF DeltasInOrder, WatchInOrder, Coming, NotBefore, Exists, Told
    <3>5. CASE ~Exists(Head(w))
      <4>1. ~Exists(Absent)  BY Sentinels DEF Exists
      <4>2. ~Exists(indexer'[k]) /\ Told(notifying') = indexer[k]
        BY <3>1, <3>5, <4>1 DEF Told, Exists
      <4> HIDE DEF w
      <4> QED  BY <1>1, <1>3, <4>2
               DEF DeltasInOrder, WatchInOrder, Coming, NotBefore, Exists, Told
    <3> QED  BY <3>4, <3>5
  <2> QED  BY <2>1, <2>2
<1>7. CASE Restart
  <2>1. ~Exists(indexer'[k]) /\ notifying'.key # k  BY <1>7, Sentinels DEF Restart, Exists
  <2> QED  BY <1>1, <2>1 DEF DeltasInOrder, WatchInOrder, Exists
<1>8. ASSUME \E l \in Keys : \E object \in Stored' : OrderedChange(l, object)
      PROVE  UNCHANGED <<indexer, notifying>>
  BY <1>8 DEF OrderedChange, Change
<1>9. ASSUME Relist \/ Notify \/ Take \/ Retry \/ Handled
      PROVE  indexer' = indexer /\ (notifying' = notifying \/ notifying'.key # k)
  BY <1>9, Sentinels DEF Relist, Notify, Take, Retry, HandleError, Requeue, Handled, informerVars
<1> QED  BY <1>5, <1>6, <1>7, <1>8, <1>9 DEF PipelineStep, PipelineNext, Informer

\* What is left of a sequence when an element is taken out was there before.
LEMMA RemoveAtElements ==
    ASSUME NEW S, NEW s \in Seq(S), NEW i \in 1 .. Len(s)
    PROVE  \A j \in 1 .. Len(RemoveAt(s, i)) : \E m \in 1 .. Len(s) : RemoveAt(s, i)[j] = s[m]
<1> DEFINE a == SubSeq(s, 1, i - 1)
           b == SubSeq(s, i + 1, Len(s))
<1>1. Len(s) \in Nat /\ \A m \in 1 .. Len(s) : s[m] \in S  BY ElementOfSeq
<1>2. a \in Seq(S) /\ Len(a) = i - 1 /\ \A j \in 1 .. Len(a) : a[j] = s[j]
  <2>1. 1 \in Int /\ i - 1 \in Int /\ \A m \in 1 .. i - 1 : s[m] \in S  BY <1>1
  <2>2. /\ a \in Seq(S) /\ Len(a) = IF 1 <= i - 1 THEN (i - 1) - 1 + 1 ELSE 0
        /\ \A j \in 1 .. (i - 1) - 1 + 1 : a[j] = s[1 + j - 1]
    BY <2>1, SubSeqProperties
  <2> HIDE DEF a
  <2> QED  BY <1>1, <2>2
<1>3. b \in Seq(S) /\ Len(b) = Len(s) - i /\ \A j \in 1 .. Len(b) : b[j] = s[i + j]
  <2>1. i + 1 \in Int /\ Len(s) \in Int /\ \A m \in i + 1 .. Len(s) : s[m] \in S  BY <1>1
  <2>2. /\ b \in Seq(S) /\ Len(b) = IF i + 1 <= Len(s) THEN Len(s) - (i + 1) + 1 ELSE 0
        /\ \A j \in 1 .. Len(s) - (i + 1) + 1 : b[j] = s[(i + 1) + j - 1]
    BY <2>1, SubSeqProperties
  <2> HIDE DEF b
  <2>3. \A j \in 1 .. Len(b) : j \in 1 .. Len(s) - (i + 1) + 1 /\ (i + 1) + j - 1 = i + j
    BY <1>1, <2>2
  <2> QED  BY <1>1, <2>2, <2>3
<1>4. RemoveAt(s, i) = a \o b  BY DEF RemoveAt
<1> HIDE DEF a, b
<1>5. /\ Len(a \o b) = Len(a) + Len(b)
      /\ \A j \in 1 .. Len(a) + Len(b) :
           (a \o b)[j] = IF j <= Len(a) THEN a[j] ELSE b[j - Len(a)]
  BY <1>2, <1>3, ConcatProperties
<1> SUFFICES ASSUME NEW j \in 1 .. Len(a \o b)
             PROVE  \E m \in 1 .. Len(s) : (a \o b)[j] = s[m]
  BY <1>4
<1>6. CASE j <= Len(a)
  <2>1. j \in 1 .. Len(a) /\ j \in 1 .. Len(s)  BY <1>1, <1>2, <1>3, <1>5, <1>6
  <2> QED  BY <1>2, <1>3, <1>5, <1>6, <2>1
<1>7. CASE j > Len(a)
  <2>1. j - Len(a) \in 1 .. Len(b) /\ j + 1 \in 1 .. Len(s)
        /\ i + (j - Len(a)) = j + 1
    BY <1>1, <1>2, <1>3, <1>5, <1>7
  <2>2. (a \o b)[j] = s[j + 1]  BY <1>2, <1>3, <1>5, <1>7, <2>1
  <2> QED  BY <2>1, <2>2
<1> QED  BY <1>1, <1>2, <1>6, <1>7

EventComing(ev) == Coming(ev.key, ev.obj.uid)

LEMMA EventComingKept ==
    ASSUME Types, NEW ev \in Events, EventComing(ev), PipelineStep
    PROVE  EventComing(ev)'
<1>1. ev.key \in Keys /\ ev.obj.uid \in Nat  BY DEF Events, Known, Types
<1>2. Coming(ev.key, ev.obj.uid)'  BY <1>1, ComingKept DEF EventComing
<1> QED  BY <1>2 DEF EventComing

\* The events of a sequence are in order with what is still to come.
AllComing(events) == \A i \in 1 .. Len(events) : EventComing(events[i])

QueueOrdered ==
    \A i, j \in 1 .. Len(queue) :
      i < j /\ queue[i].key = queue[j].key => queue[i].obj.uid <= queue[j].obj.uid

LEMMA EventsInOrderParts ==
    EventsInOrder <=> /\ ~requeued => delayed = <<>> /\ QueueOrdered
                      /\ AllComing(queue) /\ AllComing(delayed)
                      /\ handling # NotHandling =>
                           QueueComing(handling.event.key, handling.event.obj.uid)
BY DEF EventsInOrder, QueueOrdered, AllComing, EventComing

\* An event that was there, or that the informer queues.
LEMMA NotifiedEventComing ==
    ASSUME Types, InOrder, Notify, NEW ev \in Events,
           ev.key = notifying.key, ev.obj = Told(notifying)
    PROVE  EventComing(ev)
<1>1. ev.key \in Keys /\ Exists(ev.obj)
  BY KnownExist DEF Events, Deltas, Stored
<1> QED  BY <1>1 DEF InOrder, DeltasInOrder, EventComing

LEMMA QueueOrderKept ==
    ASSUME Types, InOrder, PipelineStep, ~requeued'
    PROVE  QueueOrdered'
<1>1. AllComing(queue) /\ (~requeued => delayed = <<>> /\ QueueOrdered)
  BY EventsInOrderParts DEF InOrder
<1>2. CASE Restart  BY <1>2 DEF Restart, QueueOrdered
<1>3. CASE Notify
  <2>1. ~requeued  BY <1>3 DEF Notify
  <2>2. CASE queue' = queue  BY <1>1, <2>1, <2>2 DEF QueueOrdered
  <2>3. ASSUME NEW ev \in Events, queue' = Append(queue, ev), ev.key = notifying.key,
               ev.obj = Told(notifying)
        PROVE  QueueOrdered'
    <3>1. /\ Len(queue) \in Nat /\ Len(queue') = Len(queue) + 1
          /\ \A j \in 1 .. Len(queue) : queue'[j] = queue[j]
          /\ queue'[Len(queue) + 1] = ev
      BY <2>3, QueueElements, AppendProperties
    <3>2. Exists(ev.obj)  BY KnownExist DEF Events, Deltas, Stored
    <3>3. ASSUME NEW i \in 1 .. Len(queue), queue[i].key = ev.key
          PROVE  queue[i].obj.uid <= ev.obj.uid
      BY <1>1, <2>3, <3>2, <3>3 DEF AllComing, EventComing, Coming, NotBefore
    <3>4. ASSUME NEW i \in 1 .. Len(queue'), NEW j \in 1 .. Len(queue'), i < j,
                 queue'[i].key = queue'[j].key
          PROVE  queue'[i].obj.uid <= queue'[j].obj.uid
      <4>1. i \in 1 .. Len(queue)  BY <3>1, <3>4
      <4>2. CASE j \in 1 .. Len(queue)
        BY <1>1, <2>1, <3>1, <3>4, <4>1, <4>2 DEF QueueOrdered
      <4>3. CASE j = Len(queue) + 1
        BY <3>1, <3>3, <3>4, <4>1, <4>3
      <4> QED  BY <3>1, <4>2, <4>3
    <3> QED  BY <3>4 DEF QueueOrdered
  <2> QED  BY <1>3, <2>2, <2>3, NotifyTells
<1>4. CASE Take
  <2>1. /\ Len(queue) \in Nat /\ Len(queue') = Len(queue) - 1
        /\ \A j \in 1 .. Len(queue') : queue'[j] = queue[j + 1]
    BY <1>4, QueueTail DEF Take, CanTake
  <2>2. QueueOrdered  BY <1>1, <1>4 DEF Take, processVars
  <2>3. ASSUME NEW i \in 1 .. Len(queue'), NEW j \in 1 .. Len(queue'), i < j,
               queue'[i].key = queue'[j].key
        PROVE  queue'[i].obj.uid <= queue'[j].obj.uid
    <3>1. i + 1 \in 1 .. Len(queue) /\ j + 1 \in 1 .. Len(queue) /\ i + 1 < j + 1
      BY <2>1, <2>3
    <3> QED  BY <2>1, <2>2, <2>3, <3>1 DEF QueueOrdered
  <2> QED  BY <2>3 DEF QueueOrdered
<1>5. ASSUME Retry PROVE FALSE
  <2>1. ASSUME NEW j \in 1 .. Len(delayed), Requeue(j) PROVE FALSE
    <3>1. delayed # <<>>  BY <2>1, EmptySeq
    <3> QED  BY <1>1, <2>1, <3>1 DEF Requeue, processVars
  <2> QED  BY <1>5, <2>1 DEF Retry, HandleError
<1>6. ASSUME NEW l \in Keys, NEW object \in Stored', OrderedChange(l, object)
      PROVE  UNCHANGED <<queue, requeued>>
  BY <1>6 DEF OrderedChange, Change, queueVars, processVars
<1>7. ASSUME Relist \/ Handled \/ \E l \in Keys : Store(l)
      PROVE  UNCHANGED <<queue, requeued>>
  BY <1>7 DEF Relist, Handled, Store, queueVars, processVars
<1>8. CASE UNCHANGED <<queue, requeued>>  BY <1>1, <1>8 DEF QueueOrdered
<1> QED  BY <1>2, <1>3, <1>4, <1>5, <1>6, <1>7, <1>8 DEF PipelineStep, PipelineNext, Informer

\* What a step leaves in a queue was there, or is what the informer queues.
LEMMA EventsComingKept ==
    ASSUME Types, InOrder, PipelineStep
    PROVE  AllComing(queue)' /\ AllComing(delayed)'
<1>1. AllComing(queue) /\ AllComing(delayed)  BY EventsInOrderParts DEF InOrder
<1>2. /\ \A i \in 1 .. Len(queue) : queue[i] \in Events
      /\ \A i \in 1 .. Len(delayed) : delayed[i] \in Events
      /\ delayed \in Seq(Events) /\ Len(delayed) \in Nat
  BY QueueElements, ElementOfSeq DEF Types
<1> DEFINE Good(event) == \E ev \in Events : ev = event /\ EventComing(ev)'
<1>3. \A ev \in Events : EventComing(ev) => Good(ev)  BY EventComingKept
<1>4. ASSUME \A i \in 1 .. Len(queue') : Good(queue'[i]),
             \A i \in 1 .. Len(delayed') : Good(delayed'[i])
      PROVE  AllComing(queue)' /\ AllComing(delayed)'
  BY <1>4 DEF AllComing, EventComing, Coming, NotBefore, Exists
<1>5. /\ \A i \in 1 .. Len(queue) : Good(queue[i])
      /\ \A i \in 1 .. Len(delayed) : Good(delayed[i])
  BY <1>1, <1>2, <1>3 DEF AllComing
<1> HIDE DEF Good
<1>6. CASE UNCHANGED <<queue, delayed>>  BY <1>4, <1>5, <1>6
<1>7. CASE Restart  BY <1>4, <1>7 DEF Restart
<1>8. ASSUME Notify PROVE AllComing(queue)' /\ AllComing(delayed)'
  <2>1. delayed' = delayed  BY <1>8 DEF Notify
  <2>2. ASSUME NEW ev \in Events, queue' = Append(queue, ev), ev.key = notifying.key,
               ev.obj = Told(notifying)
        PROVE  \A i \in 1 .. Len(queue') : Good(queue'[i])
    <3>1. /\ Len(queue) \in Nat /\ Len(queue') = Len(queue) + 1
          /\ \A j \in 1 .. Len(queue) : queue'[j] = queue[j]
          /\ queue'[Len(queue) + 1] = ev
      BY <2>2, QueueElements, AppendProperties
    <3>2. Good(ev)  BY <1>3, <1>8, <2>2, NotifiedEventComing
    <3> QED  BY <1>5, <3>1, <3>2
  <2> QED  BY <1>4, <1>5, <1>6, <1>8, <2>1, <2>2, NotifyTells
<1>9. ASSUME queue # <<>>, queue' = Tail(queue)
      PROVE  Good(Head(queue)) /\ \A i \in 1 .. Len(queue') : Good(queue'[i])
  <2>1. /\ Len(queue) \in Nat /\ Len(queue) > 0 /\ Len(queue') = Len(queue) - 1
        /\ Head(queue) = queue[1]
        /\ \A j \in 1 .. Len(queue') : queue'[j] = queue[j + 1]
    BY <1>9, QueueTail
  <2>2. \A i \in 1 .. Len(queue') : i + 1 \in 1 .. Len(queue)  BY <2>1
  <2> QED  BY <1>5, <2>1, <2>2
<1>10. CASE Take
  BY <1>4, <1>5, <1>9, <1>10 DEF Take, CanTake
<1>11. CASE HandleError
  <2>1. queue # <<>> /\ queue' = Tail(queue)  BY <1>11 DEF HandleError, CanTake
  <2>2. Head(queue) \in Events  BY <2>1, QueueTail
  <2> DEFINE again == [Head(queue) EXCEPT !.tries = @ + 1]
  <2>3. again \in Events /\ again.key = Head(queue).key /\ again.obj = Head(queue).obj
    BY <2>2 DEF Events
  <2>4. delayed' = delayed \/ delayed' = Append(delayed, again)  BY <1>11 DEF HandleError
  <2> HIDE DEF again
  <2>5. Good(again)
    <3>1. PICK ev \in Events : ev = Head(queue) /\ EventComing(ev)'  BY <1>9, <2>1 DEF Good
    <3>2. PICK twice \in Events : twice = again  BY <2>3
    <3>3. twice.key = ev.key /\ twice.obj = ev.obj  BY <2>3, <3>1, <3>2
    <3>4. EventComing(twice)'  BY <3>1, <3>3 DEF EventComing
    <3> QED  BY <3>2, <3>4 DEF Good
  <2>6. \A i \in 1 .. Len(delayed') : Good(delayed'[i])
    <3>1. CASE delayed' = delayed  BY <1>5, <3>1
    <3>2. CASE delayed' = Append(delayed, again)
      <4>1. /\ Len(delayed') = Len(delayed) + 1
            /\ \A j \in 1 .. Len(delayed) : delayed'[j] = delayed[j]
            /\ delayed'[Len(delayed) + 1] = again
        BY <1>2, <2>3, <3>2, AppendProperties
      <4> QED  BY <1>2, <1>5, <2>5, <4>1
    <3> QED  BY <2>4, <3>1, <3>2
  <2> QED  BY <1>4, <1>9, <2>1, <2>6
<1>12. ASSUME NEW m \in 1 .. Len(delayed), Requeue(m)
       PROVE  AllComing(queue)' /\ AllComing(delayed)'
  <2>1. queue' = Append(queue, delayed[m]) /\ delayed' = RemoveAt(delayed, m)
    BY <1>12 DEF Requeue
  <2>2. /\ Len(queue) \in Nat /\ Len(queue') = Len(queue) + 1
        /\ \A j \in 1 .. Len(queue) : queue'[j] = queue[j]
        /\ queue'[Len(queue) + 1] = delayed[m]
    BY <1>2, <2>1, QueueElements, AppendProperties
  <2>3. \A i \in 1 .. Len(queue') : Good(queue'[i])  BY <1>5, <2>2
  <2>4. \A i \in 1 .. Len(delayed') : Good(delayed'[i])
    BY <1>2, <1>5, <2>1, RemoveAtElements
  <2> QED  BY <1>4, <2>3, <2>4
<1>13. ASSUME NEW l \in Keys, NEW object \in Stored', OrderedChange(l, object)
       PROVE  UNCHANGED <<queue, delayed>>
  BY <1>13 DEF OrderedChange, Change, queueVars
<1>14. ASSUME Relist \/ Handled \/ \E l \in Keys : Store(l)
       PROVE  UNCHANGED <<queue, delayed>>
  BY <1>14 DEF Relist, Handled, Store, queueVars
<1> QED  BY <1>6, <1>7, <1>8, <1>10, <1>11, <1>12, <1>13, <1>14
         DEF PipelineStep, PipelineNext, Informer, Retry

\* The event being handled is not newer than what follows it.
LEMMA HandlingOrderKept ==
    ASSUME Types, InOrder, PipelineStep, handling' # NotHandling
    PROVE  QueueComing(handling.event.key, handling.event.obj.uid)'
<1>1. AllComing(queue) /\ (~requeued => QueueOrdered)
      /\ (handling # NotHandling => QueueComing(handling.event.key, handling.event.obj.uid))
      /\ EventsInOrder
  BY EventsInOrderParts DEF InOrder
<1>2. CASE UNCHANGED handling
  <2>1. handling.event \in Events  BY <1>2 DEF Types
  <2>2. PICK ev \in Events : ev = handling.event  BY <2>1
  <2>3. ev.key \in Keys /\ ev.obj.uid \in Nat  BY DEF Events, Known, Types
  <2>4. QueueComing(ev.key, ev.obj.uid)'  BY <1>1, <1>2, <2>2, <2>3, QueueComingKept
  <2> QED  BY <1>2, <2>2, <2>4 DEF QueueComing, Coming, NotBefore, Exists
<1>3. CASE Take
  <2>1. /\ Len(queue) \in Nat /\ Len(queue) > 0 /\ Len(queue') = Len(queue) - 1
        /\ Head(queue) = queue[1] /\ queue[1] \in Events
        /\ \A j \in 1 .. Len(queue') : queue'[j] = queue[j + 1]
    BY <1>3, QueueTail DEF Take, CanTake
  <2>2. PICK ev \in Events : ev = queue[1]  BY <2>1
  <2>3. handling'.event = ev /\ requeued' = requeued  BY <1>3, <2>1, <2>2 DEF Take, processVars
  <2>4. ev.key \in Keys /\ ev.obj.uid \in Nat  BY DEF Events, Known, Types
  <2>5. Coming(ev.key, ev.obj.uid)'
    BY <1>1, <2>1, <2>2, <2>4, ComingKept DEF AllComing, EventComing
  <2>6. ASSUME ~requeued', NEW i \in 1 .. Len(queue'), queue'[i].key = ev.key
        PROVE  ev.obj.uid <= queue'[i].obj.uid
    <3>1. i + 1 \in 1 .. Len(queue) /\ 1 \in 1 .. Len(queue) /\ 1 < i + 1  BY <2>1
    <3> QED  BY <1>1, <2>1, <2>2, <2>3, <2>6, <3>1 DEF QueueOrdered
  <2> QED  BY <2>3, <2>5, <2>6 DEF QueueComing, Coming, NotBefore, Exists
<1>4. ASSUME NEW l \in Keys, NEW object \in Stored', OrderedChange(l, object)
      PROVE  UNCHANGED handling
  BY <1>4 DEF OrderedChange, Change, queueVars
<1>5. ASSUME Relist \/ Notify \/ Retry \/ \E l \in Keys : Store(l)
      PROVE  UNCHANGED handling
  BY <1>5 DEF Relist, Notify, Store, Retry, HandleError, Requeue, queueVars
<1>6. ASSUME Handled \/ Restart PROVE FALSE  BY <1>6 DEF Handled, Restart
<1> QED  BY <1>2, <1>3, <1>4, <1>5, <1>6 DEF PipelineStep, PipelineNext, Informer

LEMMA OrderKept ==
    ASSUME Types, InOrder, PipelineStep
    PROVE  InOrder'
<1>1. \A k \in Keys : DeltasInOrder(k)'  BY DeltasOrderKept DEF InOrder
<1>2. ~requeued' => delayed' = <<>>
  <2>1. ASSUME NEW m \in 1 .. Len(delayed), Requeue(m), ~requeued' PROVE FALSE
    <3>1. delayed # <<>>  BY <2>1, EmptySeq
    <3> QED  BY <2>1, <3>1 DEF Requeue, InOrder, EventsInOrder, processVars
  <2>2. ASSUME NEW l \in Keys, NEW object \in Stored', OrderedChange(l, object)
        PROVE  UNCHANGED <<delayed, requeued>>
    BY <2>2 DEF OrderedChange, Change, queueVars, processVars
  <2>3. ASSUME Relist \/ Notify \/ Take \/ Handled \/ \E l \in Keys : Store(l)
        PROVE  UNCHANGED <<delayed, requeued>>
    BY <2>3 DEF Relist, Notify, Take, Handled, Store, queueVars, processVars
  <2>4. HandleError => requeued'  BY DEF HandleError
  <2>5. Restart => delayed' = <<>>  BY DEF Restart
  <2> QED  BY <2>1, <2>2, <2>3, <2>4, <2>5
           DEF PipelineStep, PipelineNext, Informer, Retry, InOrder, EventsInOrder
<1>3. EventsInOrder'
  BY <1>2, QueueOrderKept, EventsComingKept, HandlingOrderKept
     DEF EventsInOrder, QueueOrdered, AllComing, EventComing
<1> QED  BY <1>1, <1>3 DEF InOrder

LEMMA InitOrder == PipelineInit => InOrder
<1> SUFFICES ASSUME PipelineInit PROVE InOrder  OBVIOUS
<1>1. ~Exists(Absent)  BY Sentinels DEF Exists
<1>2. queue = <<>> /\ delayed = <<>> /\ handling = NotHandling  BY DEF PipelineInit
<1>3. \A k \in Keys : watch[k] = <<>> /\ indexer[k] = Absent /\ notifying.key # k
  BY <1>1, Sentinels DEF PipelineInit, Listed
<1> QED  BY <1>1, <1>2, <1>3 DEF InOrder, EventsInOrder, DeltasInOrder, WatchInOrder
=============================================================================
