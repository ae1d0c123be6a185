---------------------- MODULE StatefulSetEventsProofs ----------------------
(***************************************************************************)
(* Proofs about the StatefulSet pipeline, for any number of changes and of *)
(* events under way.  EventPipelineProofs has what does not depend on the  *)
(* handler.                                                                *)
(***************************************************************************)
EXTENDS StatefulSetEvents, EventPipelineProofs

-----------------------------------------------------------------------------
(* Types.                                                                  *)

SetTypes == Types /\ expectedSize \in States \cup {0}

\* The environment's steps are changes of one StatefulSet, which keeps its label.
SetChange(k, object) ==
    /\ Change(k, object)
    /\ object \in Stored'
    /\ ~Exists(object) => Exists(cluster[k])
    /\ HasLabel(cluster[k]) => HasLabel(object)
    /\ UNCHANGED expectedSize

SetEnvironment(k) ==
    \/ \E n \in States : CreateStatefulSet(k, n) \/ Scale(k, n)
    \/ DeleteStatefulSet(k)

LEMMA SetEnvironmentChanges ==
    ASSUME SetTypes, NEW k \in Keys, SetEnvironment(k)
    PROVE  \E object : SetChange(k, object)
<1> DEFINE set == cluster[k]
<1>1. Types /\ set \in Deltas /\ set \in Stored  BY DEF SetTypes, Types, Deltas
<1>2. ASSUME NEW object, Change(k, object)
      PROVE  Known \subseteq Stored' /\ changes + 1 \in 1 .. changes'
  <2>1. changes \in Nat /\ changes' = changes + 1  BY <1>1, <1>2 DEF Change, Types
  <2>2. Known \subseteq Known'  BY <1>1, <2>1, KnownGrows
  <2> QED  BY <2>1, <2>2 DEF Stored
<1>3. ASSUME NEW n \in States, CreateStatefulSet(k, n) PROVE \E object : SetChange(k, object)
  <2> DEFINE new == [uid |-> changes + 1, state |-> n, labelled |-> TRUE]
  <2>1. Change(k, new) /\ UNCHANGED expectedSize  BY <1>3 DEF CreateStatefulSet
  <2>2. new \in Known'  BY <1>2, <2>1 DEF Known
  <2>3. new \in Stored'  BY <2>2 DEF Stored
  <2>4. Exists(new) /\ HasLabel(new)  BY <1>1 DEF Exists, HasLabel, Types
  <2> QED  BY <2>1, <2>3, <2>4 DEF SetChange
<1>4. ASSUME NEW n \in States, Scale(k, n) PROVE \E object : SetChange(k, object)
  <2> DEFINE new == [set EXCEPT !.state = n]
  <2>1. Exists(set) /\ set \in Known  BY <1>1, <1>4, KnownExist DEF Scale
  <2>2. Change(k, new) /\ UNCHANGED expectedSize  BY <1>4 DEF Scale
  <2>3. new \in Known /\ new.uid = set.uid /\ new.labelled = set.labelled
    BY <2>1 DEF Known
  <2>4. new \in Stored'  BY <1>2, <2>2, <2>3
  <2> HIDE DEF new
  <2>5. Exists(new) /\ (HasLabel(set) => HasLabel(new))  BY <2>1, <2>3 DEF Exists, HasLabel
  <2> QED  BY <2>2, <2>4, <2>5 DEF SetChange
<1>5. CASE DeleteStatefulSet(k)
  <2>1. ~Exists(Absent)  BY Sentinels DEF Exists
  <2>2. Change(k, Absent) /\ Exists(set) /\ UNCHANGED expectedSize
    BY <1>5 DEF DeleteStatefulSet
  <2>3. Absent \in Stored'  BY DEF Stored
  <2> QED  BY <2>1, <2>2, <2>3 DEF SetChange, HasLabel
<1> QED  BY <1>3, <1>4, <1>5 DEF SetEnvironment

\* Each step of the specification.
LEMMA SetSteps ==
    ASSUME SetTypes, Next
    PROVE  \/ \E k \in Keys : \E object : SetChange(k, object)
           \/ PipelineNext /\ UNCHANGED expectedSize
           \/ Handle
           \/ RestartController
BY SetEnvironmentChanges DEF Next, SetEnvironment

\* What the handler does to the size.
LEMMA SetHandleOutcome ==
    ASSUME SetTypes, Handle
    PROVE  /\ Handled /\ handling.event.key \in Keys
           /\ ~handling.exists => expectedSize' = 0
           /\ handling.exists => expectedSize' = handling.event.obj.state
           /\ expectedSize' \in States \cup {0}
<1>1. handling \in [event : Events, exists : BOOLEAN]
  BY DEF Handle, Handled, SetTypes, Types
<1>2. /\ handling.event.key \in Keys /\ handling.event.obj.state \in States
      /\ handling.event.kind \in {"event", "update"} /\ handling.exists \in BOOLEAN
  BY <1>1 DEF Events, Known
<1>3. \/ ~handling.exists /\ expectedSize' = 0
      \/ handling.exists /\ expectedSize' = handling.event.obj.state
  BY DEF Handle, Called, Created, Updated, Deleted, UpdateExpectedSize
<1> QED  BY <1>2, <1>3 DEF Handle

LEMMA InitSetTypes == Init => SetTypes
BY InitTypes DEF Init, SetTypes

LEMMA NextSetTypes == SetTypes /\ [Next]_vars => SetTypes'
<1> SUFFICES ASSUME SetTypes, [Next]_vars PROVE SetTypes'  OBVIOUS
<1>1. Types /\ expectedSize \in States \cup {0}  BY DEF SetTypes
<1>2. ASSUME NEW k \in Keys, NEW object, SetChange(k, object) PROVE SetTypes'
  BY <1>1, <1>2, ChangeTypes DEF SetChange, SetTypes
<1>3. CASE PipelineNext /\ UNCHANGED expectedSize
  BY <1>1, <1>3, StepTypes DEF SetTypes
<1>4. CASE Handle
  BY <1>1, <1>4, StepTypes, SetHandleOutcome DEF SetTypes
<1>5. CASE RestartController
  BY <1>1, <1>5, RestartTypes DEF RestartController, SetTypes
<1>6. CASE UNCHANGED vars
  BY <1>1, <1>6 DEF vars, pipelineVars, informerVars, queueVars, processVars, SetTypes, Types,
     Known, Stored, Deltas, Events, Notifications
<1> QED  BY <1>2, <1>3, <1>4, <1>5, <1>6, SetSteps

\* Every variable of the StatefulSet pipeline keeps its type: the pool's size
\* is one that a StatefulSet can ask for.
THEOREM StatefulSetTypeCorrect == Spec => []TypeOK
<1>1. SetTypes => TypeOK  BY TypesOK DEF SetTypes, TypeOK
<1> QED  BY <1>1, InitSetTypes, NextSetTypes, PTL DEF Spec

-----------------------------------------------------------------------------
(* Settling.                                                               *)

\* Once nothing of a StatefulSet is queued or handled, the size agrees with the
\* informer's store.
SizeAgrees(k) ==
    ~crashed /\ ~requeued /\ Free(k) =>
      expectedSize = IF Exists(indexer[k]) THEN indexer[k].state ELSE 0

SetSettling == Settling({}) /\ \A k \in Keys : SizeAgrees(k)

LEMMA StoredIsPresent ==
    ASSUME Settling({}), NEW k \in Keys
    PROVE  Exists(indexer[k]) <=> Present(k)
BY DEF Settling, Delivery, Labelled, HasLabel, Present

LEMMA InitSetSettling == Init => SetSettling
<1> SUFFICES ASSUME Init PROVE SetSettling  OBVIOUS
<1>1. Settling({})  BY InitSettles DEF Init
<1>2. ASSUME NEW k \in Keys PROVE ~Exists(indexer[k]) /\ expectedSize = 0
  BY Sentinels DEF Init, PipelineInit, Exists
<1> QED  BY <1>1, <1>2 DEF SetSettling, SizeAgrees

LEMMA NextSetSettles ==
    ASSUME SetTypes, Settling({}), [Next]_vars
    PROVE  Settling({})'
<1>1. Types  BY DEF SetTypes
<1>2. ASSUME NEW k \in Keys, NEW object, SetChange(k, object) PROVE Settling({})'
  <2>1. HasLabel(cluster[k])  BY DEF Settling, Delivery, Labelled
  <2> QED  BY <1>1, <1>2, <2>1, ChangeSettles DEF SetChange
<1>3. CASE PipelineNext /\ UNCHANGED expectedSize
  BY <1>1, <1>3, StepSettles
<1>4. CASE Handle  BY <1>1, <1>4, StepSettles DEF Handle
<1>5. CASE RestartController  BY <1>1, <1>5, RestartSettles DEF RestartController
<1>6. CASE UNCHANGED vars
  <2>1. UNCHANGED <<cluster, watch, indexer, notifying, queueVars, processVars>>
    BY <1>6 DEF vars, pipelineVars, informerVars
  <2> QED  BY <2>1, SameDelivery, SameQueueing DEF Settling
<1> QED  BY <1>2, <1>3, <1>4, <1>5, <1>6, SetSteps

\* There is one size: with one StatefulSet the event that is handled is its.
LEMMA NextSetSettling ==
    ASSUME \A k, l \in Keys : k = l, SetTypes, SetSettling, [Next]_vars
    PROVE  SetSettling'
<1>1. Settling({})'  BY NextSetSettles DEF SetSettling
<1> SUFFICES ASSUME NEW k \in Keys, ~crashed', ~requeued', Free(k)'
             PROVE  expectedSize' = IF Exists(indexer'[k]) THEN indexer'[k].state ELSE 0
  BY <1>1 DEF SetSettling, SizeAgrees, Exists
<1>2. Types /\ Settling({}) /\ SizeAgrees(k)  BY DEF SetTypes, SetSettling
<1>3. ASSUME NEW l \in Keys, NEW object, SetChange(l, object)
      PROVE  UNCHANGED <<indexer, expectedSize, crashed, requeued>> /\ Free(k)
  BY <1>3 DEF SetChange, Change, queueVars, processVars, Free, Waiting
<1>4. CASE \E l \in Keys : \E object : SetChange(l, object)
  BY <1>2, <1>3, <1>4 DEF SizeAgrees, Exists
<1>5. CASE PipelineNext /\ UNCHANGED expectedSize
  <2>1. ~crashed /\ ~requeued /\ Free(k) /\ indexer'[k] = indexer[k]
    BY <1>2, <1>5, QuietSteps
  <2> QED  BY <1>2, <1>5, <2>1 DEF SizeAgrees, Exists
<1>6. CASE Handle
  <2>1. UNCHANGED <<indexer, notifying, queue, crashed, requeued>> /\ ~Waiting(k)
    BY <1>6 DEF Handle, Handled, informerVars, processVars, Free, Waiting
  <2>2. handling.event.key = k  BY <1>6, SetHandleOutcome
  <2>3. LastTaken(k, {})  BY <1>2, <2>1 DEF Settling, Queueing
  <2>4. /\ Present(k) => handling.exists /\ handling.event.obj = indexer[k]
        /\ ~Exists(indexer[k]) => ~handling.exists
    BY <2>1, <2>2, <2>3 DEF LastTaken
  <2>5. Exists(indexer[k]) <=> Present(k)  BY <1>2, StoredIsPresent
  <2> QED  BY <1>6, <2>1, <2>4, <2>5, SetHandleOutcome DEF Exists
<1>7. CASE RestartController
  <2>1. indexer'[k] = Absent /\ expectedSize' = 0  BY <1>7 DEF RestartController, Restart
  <2> QED  BY <2>1, Sentinels DEF Exists
<1>8. CASE UNCHANGED vars
  BY <1>2, <1>8 DEF vars, pipelineVars, informerVars, queueVars, processVars,
     SizeAgrees, Exists, Free, Waiting
<1> QED  BY <1>4, <1>5, <1>6, <1>7, <1>8, SetSteps

\* With one StatefulSet of the app, the pool expects the number of workers it
\* asks for, or none when it is gone, once everything about it is handled: for
\* any number of scalings, deletions, lost watches and restarts.
THEOREM ExpectedSizeSettles ==
    ASSUME \A k, l \in Keys : k = l
    PROVE  Spec => []SizeSettles
<1>1. SetSettling => SizeSettles
  <2> SUFFICES ASSUME SetSettling, NEW k \in Keys, Settled(k)
               PROVE  expectedSize = IF Exists(cluster[k]) THEN cluster[k].state ELSE 0
    BY DEF SizeSettles
  <2>1. Free(k) /\ ~crashed /\ ~requeued /\ indexer[k] = cluster[k]
    BY SettledIsFree DEF SetSettling
  <2> QED  BY <2>1 DEF SetSettling, SizeAgrees
<1>2. SetTypes /\ SetSettling /\ [Next]_vars => SetSettling'  BY NextSetSettling
<1> QED  BY <1>1, <1>2, InitSetTypes, NextSetTypes, InitSetSettling, PTL DEF Spec
=============================================================================
