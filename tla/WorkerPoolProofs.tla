-------------------------- MODULE WorkerPoolProofs --------------------------
(***************************************************************************)
(* Proofs about WorkerPool and about System, which extends it: for every   *)
(* set of sizes and ordinals, every job list, any number of size changes   *)
(* and any API server failures.                                            *)
(*                                                                         *)
(* The pool's inductive invariant is the conjunction of the types and of   *)
(*   Locking    what a call that holds the mutex has established;          *)
(*   Budget     the restart count with the one a pending variation allows; *)
(*   Marks      where a mark that was never scheduled can have gone;       *)
(*   Computed   what the association is computed for;                      *)
(*   Published  how far behind the pool each store may be.                 *)
(* All but the last say nothing of the stores: a controller that starts    *)
(* again over stores it has not written has them too, and so System does.  *)
(* What System adds is in the second half.                                 *)
(***************************************************************************)
EXTENDS System, WorkloadStateProofs, SequenceTheorems

Locking ==
    /\ call.step = "idle" => call = Idle
    /\ ~MutexFree => underVariation
    /\ \A r \in restarts : r.version <= version
    /\ ~MutexFree => \A r \in restarts : r.version < version

\* The first size change has previous size 0, so it marks nobody; each later
\* one allows one conciliation to schedule each name once.
Budget ==
    /\ version = 0 => MutexFree /\ expectedSize = 0
    /\ version = 1 => call.previous = 0
    /\ version <= 1 => \A i \in Ordinals : index[i] # "NeedsRefresh" /\ attempts[i] = 0
    /\ version > 1 => \A i \in Ordinals :
                        attempts[i] + (IF underVariation THEN 1 ELSE 0) < version

Marks ==
    /\ \A i \in unserved : index[i] \in {"NeedsRefresh", "Syncing"}
    /\ NoForgottenMark

\* The association is the one for the size, under the version of the last size
\* that was not 0.
Computed ==
    /\ workloads = Assignment(jobs, expectedSize)
    /\ configVersion <= version
    /\ expectedSize > 0 => configVersion = version

PoolInv == TypeOK /\ Locking /\ Budget /\ Marks /\ Computed

Published ==
    /\ configMap.version \in Nat /\ configMap.version <= configVersion
    /\ swarm.version \in Nat /\ swarm.version <= configMap.version
    /\ call.step = "configmap" /\ expectedSize > 0 => configMap.version < version
    /\ call.step \in {"configmap", "swarm"} /\ expectedSize > 0 => swarm.version < version
    /\ call.step = "swarm" => configMap = Current

IInv == PoolInv /\ Published

USE JobCountsAssumption, SizesAssumption, OrdinalsAssumption, MaxVersionAssumption,
    FaultsAssumption

-----------------------------------------------------------------------------
\* The pool of a process that has just started, whatever the stores hold.
FreshPool ==
    /\ \E keys \in JobCounts : NewState(keys)
    /\ expectedSize = 0 /\ version = 0 /\ underVariation = TRUE /\ stopped = FALSE
    /\ index = [i \in Ordinals |-> Absent]
    /\ call = Idle
    /\ restarts = {}
    /\ attempts = [i \in Ordinals |-> 0]
    /\ unserved = {}

LEMMA FreshPoolInv == FreshPool => PoolInv
<1> SUFFICES ASSUME FreshPool PROVE PoolInv  OBVIOUS
<1>1. jobs \in Nat /\ configVersion = 0  BY DEF FreshPool, NewState
<1>2. workloads = Assignment(jobs, 0)
  <2>1. 0 .. 0-1 = {}  OBVIOUS
  <2> QED  BY <2>1 DEF FreshPool, NewState, Assignment
<1>3. StateTypeOK  BY <1>1, <1>2, AssignmentType DEF StateTypeOK
<1>4. TypeOK
  <2>1. index \in [Ordinals -> WorkerStates \cup {Absent}]  BY DEF FreshPool
  <2>2. attempts \in [Ordinals -> Nat]  BY DEF FreshPool
  <2>3. call \in [step : {"idle", "configmap", "swarm", "mark"}, previous : Sizes]
    BY DEF FreshPool, Idle
  <2>4. expectedSize \in Sizes /\ version \in 0 .. MaxVersion  BY DEF FreshPool
  <2>5. restarts = {} /\ unserved = {} /\ underVariation = TRUE /\ stopped = FALSE
    BY DEF FreshPool
  <2> QED  BY <1>3, <2>1, <2>2, <2>3, <2>4, <2>5 DEF TypeOK
<1>5. Locking  BY DEF FreshPool, Locking, MutexFree
<1>6. Budget  BY DEF FreshPool, Budget, MutexFree, Idle, Absent
<1>7. Marks  BY DEF FreshPool, Marks, NoForgottenMark
<1>8. Computed  BY <1>1, <1>2 DEF FreshPool, Computed
<1> QED  BY <1>4, <1>5, <1>6, <1>7, <1>8 DEF PoolInv

LEMMA UpdateExpectedSizeInvariant ==
    ASSUME PoolInv, NEW n \in Sizes, UpdateExpectedSize(n)
    PROVE  PoolInv'
<1> USE DEF UpdateExpectedSize, poolVars, storeVars
<1>1. /\ jobs \in Nat /\ expectedSize \in Nat /\ version \in Nat /\ n \in Nat
      /\ configVersion \in Nat /\ workloads = Assignment(jobs, expectedSize)
  BY DEF PoolInv, TypeOK, StateTypeOK, Computed
<1>2. jobs' = jobs /\ workloads' = Assignment(jobs, n)
  BY <1>1, BalancedIsAssignment DEF BalanceWorkload
<1>3. configVersion' = IF n = 0 THEN configVersion ELSE version + 1
  BY DEF BalanceWorkload
<1>4. StateTypeOK'  BY <1>1, <1>2, <1>3, AssignmentType DEF StateTypeOK
<1>5. call' = [step |-> "configmap", previous |-> expectedSize]  OBVIOUS
<1>6. TypeOK'  BY <1>1, <1>4, <1>5 DEF PoolInv, TypeOK
<1>7. Locking'
  BY <1>1, <1>5, <1>6 DEF PoolInv, TypeOK, Locking, MutexFree, Idle
<1>8. Budget'
  BY <1>1, <1>5 DEF PoolInv, TypeOK, Budget, MutexFree, Idle
<1>9. Marks'  BY <1>5 DEF PoolInv, Marks, NoForgottenMark, MutexFree, Idle
<1>10. Computed'
  BY <1>1, <1>2, <1>3, <1>5 DEF PoolInv, Computed
<1> QED  BY <1>6, <1>7, <1>8, <1>9, <1>10 DEF PoolInv

LEMMA SetConfigMapInvariant ==
    ASSUME PoolInv, NEW o, SetConfigMap(o)
    PROVE  PoolInv'
<1> USE DEF SetConfigMap, sizeVars, stateVars, poolVars
<1>1. /\ call.previous \in Sizes
      /\ call' = [step |-> IF o = "ok" THEN "swarm" ELSE "mark", previous |-> call.previous]
  BY DEF PoolInv, TypeOK
<1>2. ~MutexFree /\ ~MutexFree'  BY <1>1 DEF MutexFree, Idle
<1>3. TypeOK'  BY <1>1 DEF PoolInv, TypeOK, StateTypeOK
<1>4. Locking'  BY <1>1, <1>2 DEF PoolInv, Locking
<1>5. Budget'  BY <1>1, <1>2 DEF PoolInv, Budget
<1>6. Marks'  BY <1>2 DEF PoolInv, Marks, NoForgottenMark
<1>7. Computed'  BY DEF PoolInv, Computed
<1> QED  BY <1>3, <1>4, <1>5, <1>6, <1>7 DEF PoolInv

LEMMA SetSwarmInvariant ==
    ASSUME PoolInv, NEW o, SetSwarm(o)
    PROVE  PoolInv'
<1> USE DEF SetSwarm, sizeVars, stateVars, poolVars
<1>1. call.previous \in Sizes /\ call' = [step |-> "mark", previous |-> call.previous]
  BY DEF PoolInv, TypeOK
<1>2. ~MutexFree /\ ~MutexFree'  BY <1>1 DEF MutexFree, Idle
<1>3. TypeOK'  BY <1>1 DEF PoolInv, TypeOK, StateTypeOK
<1>4. Locking'  BY <1>1, <1>2 DEF PoolInv, Locking
<1>5. Budget'  BY <1>1, <1>2 DEF PoolInv, Budget
<1>6. Marks'  BY <1>2 DEF PoolInv, Marks, NoForgottenMark
<1>7. Computed'  BY DEF PoolInv, Computed
<1> QED  BY <1>3, <1>4, <1>5, <1>6, <1>7 DEF PoolInv

LEMMA MarkWorkersInvariant ==
    ASSUME PoolInv, MarkWorkers
    PROVE  PoolInv'
<1> USE DEF MarkWorkers, sizeVars, stateVars, storeVars
<1>1. Marked \subseteq Ordinals  BY DEF Marked, FirstWorkers, Pooled
<1>2. call' = Idle /\ ~MutexFree  BY DEF MutexFree, Idle
<1>3. TypeOK'
  BY <1>1, <1>2 DEF PoolInv, TypeOK, StateTypeOK, Idle, WorkerStates
<1>4. Locking'  BY <1>2 DEF PoolInv, Locking, MutexFree
<1>5. Budget'
  <2>1. version # 0  BY <1>2 DEF PoolInv, Budget
  <2>2. version = 1 => Marked = {}  BY DEF PoolInv, Budget, Marked
  <2> QED  BY <1>2, <2>1, <2>2 DEF PoolInv, TypeOK, Budget, Idle
<1>6. Marks'
  <2>1. underVariation'  BY <1>2 DEF PoolInv, Locking
  <2> QED  BY <1>1, <2>1 DEF PoolInv, TypeOK, Marks, NoForgottenMark
<1>7. Computed'  BY <1>2 DEF PoolInv, Computed
<1> QED  BY <1>3, <1>4, <1>5, <1>6, <1>7 DEF PoolInv

LEMMA AddWorkerInvariant ==
    ASSUME PoolInv, NEW i \in Ordinals, AddWorkerIfNotExists(i)
    PROVE  PoolInv'
<1> USE DEF AddWorkerIfNotExists, sizeVars, stateVars, storeVars
<1>1. TypeOK'  BY DEF PoolInv, TypeOK, StateTypeOK, WorkerStates
<1>2. Locking'  BY DEF PoolInv, Locking, MutexFree
<1>3. Budget'  BY DEF PoolInv, TypeOK, Budget, MutexFree
<1>4. Marks'
  <2>1. i \notin unserved  BY DEF PoolInv, Marks, Absent
  <2> QED  BY <2>1 DEF PoolInv, TypeOK, Marks, NoForgottenMark, MutexFree
<1>5. Computed'  BY DEF PoolInv, Computed
<1> QED  BY <1>1, <1>2, <1>3, <1>4, <1>5 DEF PoolInv

LEMMA RemoveWorkerInvariant ==
    ASSUME PoolInv, NEW i \in Ordinals, RemoveWorkerByName(i)
    PROVE  PoolInv'
<1> USE DEF RemoveWorkerByName, sizeVars, stateVars, storeVars
<1> DEFINE Released(r) == [r EXCEPT !.live = r.live /\ r.worker # i]
<1>1. restarts' = {Released(r) : r \in restarts}  OBVIOUS
<1>2. \A r \in restarts : /\ Released(r) \in [worker : Ordinals, version : 1 .. MaxVersion,
                                              phase : {"sleeping", "deleted"}, live : BOOLEAN]
                          /\ Released(r).version = r.version
  BY DEF PoolInv, TypeOK
<1> HIDE DEF Released
<1>3. TypeOK'  BY <1>1, <1>2 DEF PoolInv, TypeOK, StateTypeOK
<1>4. Locking'  BY <1>1, <1>2 DEF PoolInv, Locking, MutexFree
<1>5. Budget'  BY DEF PoolInv, TypeOK, Budget, MutexFree, Absent
<1>6. Marks'  BY DEF PoolInv, TypeOK, Marks, NoForgottenMark, MutexFree
<1>7. Computed'  BY DEF PoolInv, Computed
<1> QED  BY <1>3, <1>4, <1>5, <1>6, <1>7 DEF PoolInv

LEMMA NothingToRefreshFirst ==
    ASSUME PoolInv, version = 1
    PROVE  NeedRefresh = {}
<1>1. version <= 1  OBVIOUS
<1>2. \A i \in Ordinals : index[i] # "NeedsRefresh"
  BY <1>1 DEF PoolInv, Budget
<1> QED  BY <1>2 DEF NeedRefresh

LEMMA ConciliateInvariant ==
    ASSUME PoolInv, Conciliate
    PROVE  PoolInv'
<1> USE DEF Conciliate, ScheduleRestarts, ConciliationDue, sizeVars, stateVars, storeVars
<1>1. version \in 1 .. MaxVersion
  BY DEF PoolInv, TypeOK, Budget
<1>2. NeedRefresh \subseteq Ordinals  BY DEF NeedRefresh
<1>3. TypeOK'
  <2>1. restarts' \subseteq [worker : Ordinals, version : 1 .. MaxVersion,
                             phase : {"sleeping", "deleted"}, live : BOOLEAN]
    <3> SUFFICES ASSUME NEW r \in restarts', r \notin restarts
                 PROVE  r \in [worker : Ordinals, version : 1 .. MaxVersion,
                                phase : {"sleeping", "deleted"}, live : BOOLEAN]
      BY DEF PoolInv, TypeOK
    <3>1. PICK i \in NeedRefresh :
            r = [worker |-> i, version |-> version, phase |-> "sleeping", live |-> TRUE]
      OBVIOUS
    <3> QED  BY <1>1, <1>2, <3>1
  <2>2. attempts' \in [Ordinals -> Nat]  BY DEF PoolInv, TypeOK
  <2> QED  BY <2>1, <2>2 DEF PoolInv, TypeOK, StateTypeOK
<1>4. Locking'  BY <1>1 DEF PoolInv, Locking, MutexFree
<1>5. Budget'
  <2>1. version = 1 => NeedRefresh = {}  BY NothingToRefreshFirst
  <2> QED  BY <1>1, <2>1 DEF PoolInv, TypeOK, Budget, MutexFree
<1>6. Marks'
  BY DEF PoolInv, TypeOK, Marks, NoForgottenMark, MutexFree, NeedRefresh
<1>7. Computed'  BY DEF PoolInv, Computed
<1> QED  BY <1>3, <1>4, <1>5, <1>6, <1>7 DEF PoolInv

LEMMA RestartWorkerInvariant ==
    ASSUME PoolInv, NEW r \in restarts, NEW o, RestartWorker(r, o)
    PROVE  PoolInv'
<1> USE DEF RestartWorker, sizeVars, stateVars, poolVars, storeVars
<1> DEFINE d == [r EXCEPT !.phase = "deleted"]
<1>1. /\ restarts' \subseteq (restarts \ {r}) \cup {d}
      /\ d.version = r.version
      /\ d \in [worker : Ordinals, version : 1 .. MaxVersion,
                phase : {"sleeping", "deleted"}, live : BOOLEAN]
  BY DEF PoolInv, TypeOK
<1> HIDE DEF d
<1>2. TypeOK'  BY <1>1 DEF PoolInv, TypeOK, StateTypeOK
<1>3. Locking'  BY <1>1 DEF PoolInv, Locking, MutexFree
<1>4. Budget'  BY DEF PoolInv, Budget, MutexFree
<1>5. Marks'  BY DEF PoolInv, Marks, NoForgottenMark, MutexFree
<1>6. Computed'  BY DEF PoolInv, Computed
<1> QED  BY <1>2, <1>3, <1>4, <1>5, <1>6 DEF PoolInv

LEMMA MarkRefreshedInvariant ==
    ASSUME PoolInv, NEW r \in restarts, MarkRefreshed(r)
    PROVE  PoolInv'
<1> USE DEF MarkRefreshed, sizeVars, stateVars, storeVars
<1>1. /\ r.worker \in Ordinals
      /\ index' = [index EXCEPT ![r.worker] = IF r.live THEN "Syncing" ELSE index[r.worker]]
  BY DEF PoolInv, TypeOK
<1>2. TypeOK'  BY <1>1 DEF PoolInv, TypeOK, StateTypeOK, WorkerStates
<1>3. Locking'  BY DEF PoolInv, Locking, MutexFree
<1>4. Budget'  BY <1>1 DEF PoolInv, TypeOK, Budget, MutexFree
<1>5. Marks'  BY <1>1 DEF PoolInv, TypeOK, Marks, NoForgottenMark, MutexFree
<1>6. Computed'  BY DEF PoolInv, Computed
<1> QED  BY <1>2, <1>3, <1>4, <1>5, <1>6 DEF PoolInv

LEMMA IdleInvariant ==
    ASSUME PoolInv, Terminate \/ UNCHANGED vars
    PROVE  PoolInv'
<1> USE DEF Terminate, vars, sizeVars, stateVars, poolVars, storeVars
<1>1. TypeOK'  BY DEF PoolInv, TypeOK, StateTypeOK
<1>2. Locking'  BY DEF PoolInv, Locking, MutexFree
<1>3. Budget'  BY DEF PoolInv, Budget, MutexFree
<1>4. Marks'  BY DEF PoolInv, Marks, NoForgottenMark, MutexFree
<1>5. Computed'  BY DEF PoolInv, Computed
<1> QED  BY <1>1, <1>2, <1>3, <1>4, <1>5 DEF PoolInv

LEMMA PoolStepInvariant == PoolInv /\ [Next]_vars => PoolInv'
<1> SUFFICES ASSUME PoolInv, [Next]_vars PROVE PoolInv'  OBVIOUS
<1>1. ASSUME NEW n \in Sizes, UpdateExpectedSize(n) PROVE PoolInv'
  BY <1>1, UpdateExpectedSizeInvariant
<1>2. CASE FinishCall
  BY <1>2, SetConfigMapInvariant, SetSwarmInvariant, MarkWorkersInvariant DEF FinishCall
<1>3. ASSUME NEW i \in Ordinals, AddWorkerIfNotExists(i) \/ RemoveWorkerByName(i)
      PROVE  PoolInv'
  BY <1>3, AddWorkerInvariant, RemoveWorkerInvariant
<1>4. CASE Conciliate  BY <1>4, ConciliateInvariant
<1>5. ASSUME NEW i \in Ordinals, RequestRestart(i) PROVE PoolInv'
  BY <1>5, RestartWorkerInvariant, MarkRefreshedInvariant DEF RequestRestart
<1>6. CASE Terminate \/ UNCHANGED vars  BY <1>6, IdleInvariant
<1> QED  BY <1>1, <1>2, <1>3, <1>4, <1>5, <1>6 DEF Next

-----------------------------------------------------------------------------
(* What the stores show beside it.                                         *)

LEMMA InitInvariant == Init => IInv
<1> SUFFICES ASSUME Init PROVE IInv  OBVIOUS
<1>1. PoolInv  BY FreshPoolInv DEF Init, FreshPool
<1>2. configVersion = 0 /\ configMap = Current /\ swarm = Current /\ call = Idle
  BY DEF Init, NewState
<1> QED  BY <1>1, <1>2 DEF IInv, Published, Current, Idle

LEMMA UpdateExpectedSizeKeepsPublished ==
    ASSUME IInv, NEW n \in Sizes, UpdateExpectedSize(n)
    PROVE  Published'
<1>1. /\ version \in Nat /\ configVersion \in Nat /\ n \in Nat /\ configVersion <= version
      /\ configVersion' = IF n = 0 THEN configVersion ELSE version + 1
  BY DEF IInv, PoolInv, TypeOK, StateTypeOK, Computed, UpdateExpectedSize, BalanceWorkload
<1>2. /\ expectedSize' = n /\ version' = version + 1
      /\ UNCHANGED <<configMap, swarm>> /\ call'.step = "configmap"
  BY DEF UpdateExpectedSize, storeVars
<1> QED  BY <1>1, <1>2 DEF IInv, Published

LEMMA CallKeepsPublished ==
    ASSUME IInv, FinishCall
    PROVE  Published'
<1>1. /\ configVersion \in Nat /\ version \in Nat /\ expectedSize \in Nat
      /\ configVersion <= version /\ (expectedSize > 0 => configVersion = version)
  <2>1. TypeOK /\ Computed  BY DEF IInv, PoolInv
  <2>2. configVersion \in Nat /\ version \in Nat /\ expectedSize \in Nat
    BY <2>1 DEF TypeOK, StateTypeOK
  <2> QED  BY <2>1, <2>2 DEF Computed
<1>2. Published  BY DEF IInv
<1>3. UNCHANGED <<configVersion, version, expectedSize>> /\ Current' = Current
  BY DEF FinishCall, SetConfigMap, SetSwarm, MarkWorkers, sizeVars, stateVars, Current
<1>4. ASSUME NEW o, SetConfigMap(o) PROVE Published'
  <2>1. configMap' = configMap \/ configMap' = Current
    BY <1>4 DEF SetConfigMap, Stored
  <2>2. /\ swarm' = swarm /\ call'.step = IF o = "ok" THEN "swarm" ELSE "mark"
        /\ o = "ok" => configMap' = Current
    BY <1>4 DEF SetConfigMap, Stored, IInv, PoolInv, TypeOK
  <2> QED  BY <1>1, <1>2, <1>3, <1>4, <2>1, <2>2 DEF SetConfigMap, Published, Current
<1>5. ASSUME NEW o, SetSwarm(o) PROVE Published'
  <2>1. swarm' = swarm \/ swarm' = Current  BY <1>5 DEF SetSwarm, Stored
  <2>2. configMap = Current /\ configMap' = configMap /\ call'.step = "mark"
    BY <1>2, <1>5 DEF SetSwarm, IInv, PoolInv, TypeOK, Published
  <2> QED  BY <1>1, <1>2, <1>3, <2>1, <2>2 DEF Published, Current
<1>6. CASE MarkWorkers
  <2>1. UNCHANGED <<configMap, swarm>> /\ call'.step = "idle"
    BY <1>6 DEF MarkWorkers, storeVars, Idle
  <2> QED  BY <1>2, <1>3, <2>1 DEF Published
<1> QED  BY <1>4, <1>5, <1>6 DEF FinishCall

LEMMA StepInvariant == IInv /\ [Next]_vars => IInv'
<1> SUFFICES ASSUME IInv, [Next]_vars PROVE Published'
  BY PoolStepInvariant DEF IInv
<1>1. ASSUME NEW n \in Sizes, UpdateExpectedSize(n) PROVE Published'
  BY <1>1, UpdateExpectedSizeKeepsPublished
<1>2. CASE FinishCall  BY <1>2, CallKeepsPublished
<1>3. CASE UNCHANGED <<sizeVars, storeVars, call>>
  BY <1>3 DEF sizeVars, stateVars, storeVars, IInv, Published, Current
<1>4. ASSUME NEW i \in Ordinals,
             AddWorkerIfNotExists(i) \/ RemoveWorkerByName(i) \/ RequestRestart(i)
      PROVE  UNCHANGED <<sizeVars, storeVars, call>>
  BY <1>4 DEF AddWorkerIfNotExists, RemoveWorkerByName, RequestRestart, RestartWorker,
     MarkRefreshed
<1>5. ASSUME Conciliate \/ Terminate \/ UNCHANGED vars
      PROVE  UNCHANGED <<sizeVars, storeVars, call>>
  BY <1>5 DEF Conciliate, Terminate, vars
<1> QED  BY <1>1, <1>2, <1>3, <1>4, <1>5 DEF Next

\* Locking, Budget, Marks, Computed and Published hold in every state.
THEOREM Invariance == Spec => []IInv
BY InitInvariant, StepInvariant, PTL DEF Spec

-----------------------------------------------------------------------------
\* The pool's fields keep the kinds of value the Go fields have.
THEOREM TypeCorrect == Spec => []TypeOK
<1>1. IInv => TypeOK  BY DEF IInv, PoolInv
<1> QED  BY <1>1, Invariance, PTL

\* What does not depend on the stores.
LEMMA PoolSafety == PoolInv => RestartBudget /\ NoForgottenMark /\ RestartAfterPublish
<1>1. PoolInv => RestartBudget
  <2> SUFFICES ASSUME PoolInv, NEW i \in Ordinals
               PROVE  IF version = 0 THEN attempts[i] = 0 ELSE attempts[i] < version
    BY DEF RestartBudget
  <2>1. version \in Nat /\ attempts[i] \in Nat  BY DEF PoolInv, TypeOK
  <2>2. version <= 1 => attempts[i] = 0  BY DEF PoolInv, Budget
  <2>3. version > 1 => attempts[i] + (IF underVariation THEN 1 ELSE 0) < version
    BY DEF PoolInv, Budget
  <2> QED  BY <2>1, <2>2, <2>3
<1>2. PoolInv => NoForgottenMark  BY DEF PoolInv, Marks
<1>3. PoolInv => RestartAfterPublish
  BY DEF PoolInv, Locking, RestartAfterPublish, MutexFree, Idle
<1> QED  BY <1>1, <1>2, <1>3

\* A name is scheduled for at most one restart per size change.
THEOREM RestartBudgetCorrect == Spec => []RestartBudget
<1>1. IInv => RestartBudget  BY PoolSafety DEF IInv
<1> QED  BY <1>1, Invariance, PTL

\* A mark is served, or overwritten by an older goroutine, never forgotten.
THEOREM NoForgottenMarkCorrect == Spec => []NoForgottenMark
<1>1. IInv => NoForgottenMark  BY PoolSafety DEF IInv
<1> QED  BY <1>1, Invariance, PTL

\* The Swarm resource is never ahead of the ConfigMap.
THEOREM SwarmNotAheadCorrect == Spec => []SwarmNotAhead
<1>1. IInv => SwarmNotAhead  BY DEF IInv, PoolInv, Computed, Published, SwarmNotAhead
<1> QED  BY <1>1, Invariance, PTL

\* No restart for a version is scheduled before the attempt to publish it.
THEOREM RestartAfterPublishCorrect == Spec => []RestartAfterPublish
<1>1. IInv => RestartAfterPublish  BY PoolSafety DEF IInv
<1> QED  BY <1>1, Invariance, PTL

-----------------------------------------------------------------------------
\* A set of ordinals below i has at most i members.
LEMMA CountBelow ==
    ASSUME NEW S \in SUBSET Nat, NEW i \in S
    PROVE  /\ IsFiniteSet({j \in S : j < i})
           /\ Cardinality({j \in S : j < i}) <= i
<1> DEFINE B == {j \in S : j < i}
<1>1. B \in SUBSET (0 .. i-1)
  <2> SUFFICES ASSUME NEW j \in B PROVE j \in 0 .. i-1  OBVIOUS
  <2> QED  OBVIOUS
<1>2. i \in Nat  OBVIOUS
<1>3. IsFiniteSet(0 .. i-1)  BY <1>2, FS_Interval
<1>4. Cardinality(0 .. i-1) = i  BY <1>2, WorkerCount
<1> HIDE DEF B
<1>5. IsFiniteSet(B) /\ Cardinality(B) <= Cardinality(0 .. i-1)
  BY <1>1, <1>3, FS_Subset
<1> QED  BY <1>4, <1>5 DEF B

\* A pooled worker with an ordinal below k is among the first k of the pool, or
\* of the whole pool when it has fewer: the loop over positions reaches it.
LEMMA LowOrdinalsFirst ==
    ASSUME TypeOK, NEW k \in Nat, NEW i \in Pooled, i < k
    PROVE  /\ i \in FirstWorkers(k)
           /\ i \in FirstWorkers(Cardinality(Pooled))
<1> DEFINE B == {j \in Pooled : j < i}
<1>1. Pooled \in SUBSET Ordinals /\ Pooled \in SUBSET Nat  BY DEF Pooled
<1>2. IsFiniteSet(Pooled)  BY <1>1, FS_Subset
<1>3. IsFiniteSet(B) /\ Cardinality(B) <= i  BY <1>1, CountBelow
<1>4. B \in SUBSET Pooled /\ B # Pooled  BY <1>1
<1>5. Cardinality(B) <= Cardinality(Pooled) /\ Cardinality(B) # Cardinality(Pooled)
  BY <1>2, <1>4, FS_Subset
<1>6. Cardinality(B) \in Nat /\ Cardinality(Pooled) \in Nat
  BY <1>2, <1>3, FS_CardinalityType
<1>7. i \in Nat  BY <1>1
<1>8. Cardinality(B) < k /\ Cardinality(B) < Cardinality(Pooled)
  BY <1>3, <1>5, <1>6, <1>7
<1>9. i \in Ordinals  BY <1>1
<1> QED  BY <1>8 DEF FirstWorkers

\* When the pool is exactly 0 .. n-1, its first k workers are those below k.
LEMMA FirstOfFullPool ==
    ASSUME NEW n \in Nat, Pooled = 0 .. n-1, NEW k \in Nat, NEW i \in FirstWorkers(k)
    PROVE  i < k /\ i < n
<1> DEFINE B == {j \in Pooled : j < i}
<1>1. i \in 0 .. n-1  BY DEF FirstWorkers
<1>2. B = 0 .. i-1  BY <1>1
<1>3. Cardinality(0 .. i-1) = i  BY <1>1, WorkerCount
<1>4. Cardinality(B) < k  BY DEF FirstWorkers
<1> HIDE DEF B
<1> QED  BY <1>1, <1>2, <1>3, <1>4

\* A size change marks every pooled worker it keeps, and in a full pool only those.
THEOREM SurvivorsMarkedCorrect == Spec => SurvivorsMarked
<1>1. ASSUME IInv, MarkWorkers, call.previous # 0
      PROVE  MarkStep
  <2> DEFINE k == IF expectedSize > call.previous THEN call.previous ELSE expectedSize
             len == Cardinality(Pooled)
  <2>1. call.previous \in Nat /\ expectedSize \in Nat /\ k \in Nat
    BY <1>1 DEF IInv, PoolInv, TypeOK
  <2>2. Marked = FirstWorkers(IF len < k THEN len ELSE k)
    BY <1>1 DEF Marked, TotalToRefresh
  <2>3. TypeOK  BY <1>1 DEF IInv, PoolInv
  <2>4. ASSUME NEW i \in Pooled, i < call.previous, i < expectedSize
        PROVE  index'[i] = "NeedsRefresh"
    <3>1. i < k  BY <2>4, <2>1
    <3>2. i \in Marked  BY <2>1, <2>2, <2>3, <3>1, LowOrdinalsFirst
    <3>3. i \in Ordinals  BY DEF Pooled
    <3> QED  BY <1>1, <3>2, <3>3 DEF MarkWorkers
  <2>5. ASSUME Pooled = 0 .. call.previous-1, NEW i \in Marked
        PROVE  i \in Ordinals /\ i < call.previous /\ i < expectedSize
    <3>1. len = call.previous  BY <2>1, <2>5, WorkerCount
    <3>2. (IF len < k THEN len ELSE k) = k  BY <2>1, <3>1
    <3>3. i \in FirstWorkers(k)  BY <2>2, <2>5, <3>2
    <3> HIDE DEF k
    <3>4. i < k /\ i < call.previous  BY <2>1, <2>5, <3>3, FirstOfFullPool
    <3>5. i \in Ordinals  BY <3>3 DEF FirstWorkers, Pooled
    <3> QED  BY <2>1, <3>4, <3>5 DEF k
  <2>6. unserved' \ unserved \subseteq Marked  BY <1>1 DEF MarkWorkers
  <2> QED  BY <2>4, <2>5, <2>6 DEF MarkStep
<1>2. IInv /\ [Next]_vars => MarkStep
  <2> SUFFICES ASSUME IInv, [Next]_vars, call.step = "mark", MutexFree',
                      call.previous # 0
               PROVE  MarkStep
    BY DEF MarkStep
  <2>1. ~MutexFree /\ call' # call  BY DEF MutexFree, Idle
  <2>2. MarkWorkers
    BY <2>1 DEF Next, vars, FinishCall, RequestRestart, UpdateExpectedSize, SetConfigMap,
       SetSwarm, AddWorkerIfNotExists, RemoveWorkerByName, Conciliate, RestartWorker,
       MarkRefreshed, Terminate
  <2> QED  BY <1>1, <2>2
<1> QED  BY <1>2, Invariance, PTL DEF Spec, SurvivorsMarked

-----------------------------------------------------------------------------
\* The association is the same operator in the abstract specification.
LEMMA SameAssignment ==
    ASSUME NEW keys, NEW n
    PROVE  /\ ConfigMapStore!Assignment(keys, n) = Assignment(keys, n)
           /\ SwarmStore!Assignment(keys, n) = Assignment(keys, n)
BY DEF Assignment, Slice, SliceStart, SliceEnd, Size, PartSize, ModulePartSize,
   ConfigMapStore!Assignment, ConfigMapStore!Slice, ConfigMapStore!SliceStart,
   ConfigMapStore!SliceEnd, ConfigMapStore!Size, ConfigMapStore!PartSize,
   ConfigMapStore!ModulePartSize, SwarmStore!Assignment, SwarmStore!Slice,
   SwarmStore!SliceStart, SwarmStore!SliceEnd, SwarmStore!Size, SwarmStore!PartSize,
   SwarmStore!ModulePartSize

\* What a call may write to a store, and when: nothing else ever does.
LEMMA StoreSteps ==
    ASSUME IInv, [Next]_vars
    PROVE  /\ jobs' = jobs
           /\ \/ configMap' = configMap
              \/ call.step = "configmap" /\ configMap' = Current
           /\ \/ swarm' = swarm
              \/ call.step = "swarm" /\ swarm' = Current
BY DEF Next, vars, sizeVars, stateVars, poolVars, storeVars, FinishCall, RequestRestart,
   UpdateExpectedSize, BalanceWorkload, SetConfigMap, SetSwarm, Stored, MarkWorkers,
   AddWorkerIfNotExists, RemoveWorkerByName, Conciliate, ScheduleRestarts,
   RestartWorker, MarkRefreshed, Terminate

\* The ConfigMap implements AssignmentStore.
THEOREM ConfigMapImplements == Spec => ConfigMapImplementsStore
<1>1. Init => ConfigMapStore!Init
  <2> SUFFICES ASSUME Init PROVE ConfigMapStore!Init  OBVIOUS
  <2>1. IInv  BY InitInvariant
  <2>2. jobs \in Nat /\ workloads = Assignment(jobs, 0)
    <3>1. TypeOK /\ Computed /\ expectedSize = 0  BY <2>1 DEF IInv, PoolInv, Init
    <3> QED  BY <3>1 DEF TypeOK, StateTypeOK, Computed
  <2> QED  BY <2>2, SameAssignment DEF Init, NewState, Current, ConfigMapStore!Init,
              ConfigMapStore!Empty
<1>2. IInv /\ [Next]_vars => [ConfigMapStore!Next]_(ConfigMapStore!vars)
  <2> SUFFICES ASSUME IInv, [Next]_vars, call.step = "configmap", configMap' = Current,
                      jobs' = jobs
               PROVE  ConfigMapStore!Next
    BY StoreSteps DEF ConfigMapStore!vars
  <2>1. /\ Current = [workloads |-> Assignment(jobs, expectedSize), version |-> configVersion]
        /\ configVersion \in 0 .. MaxVersion /\ configMap.version \in Nat
        /\ expectedSize \in Sizes /\ expectedSize \in Nat
        /\ configMap.version <= configVersion
        /\ expectedSize > 0 => configMap.version < configVersion
    BY DEF IInv, PoolInv, TypeOK, StateTypeOK, Computed, Published, Current
  <2>2. CASE expectedSize = 0
    <3>1. ConfigMapStore!PublishNobody(configVersion)
      BY <2>1, <2>2, SameAssignment DEF ConfigMapStore!PublishNobody
    <3> QED  BY <2>1, <3>1 DEF ConfigMapStore!Next
  <2>3. CASE expectedSize > 0
    <3>1. ConfigMapStore!Publish(expectedSize, configVersion)
      BY <2>1, <2>3, SameAssignment DEF ConfigMapStore!Publish
    <3> QED  BY <2>1, <3>1 DEF ConfigMapStore!Next
  <2> QED  BY <2>1, <2>2, <2>3
<1> QED  BY <1>1, <1>2, Invariance, PTL DEF Spec, ConfigMapImplementsStore, ConfigMapStore!Spec

\* The Swarm resource implements AssignmentStore.
THEOREM SwarmImplements == Spec => SwarmImplementsStore
<1>1. Init => SwarmStore!Init
  <2> SUFFICES ASSUME Init PROVE SwarmStore!Init  OBVIOUS
  <2>1. IInv  BY InitInvariant
  <2>2. jobs \in Nat /\ workloads = Assignment(jobs, 0)
    <3>1. TypeOK /\ Computed /\ expectedSize = 0  BY <2>1 DEF IInv, PoolInv, Init
    <3> QED  BY <3>1 DEF TypeOK, StateTypeOK, Computed
  <2> QED  BY <2>2, SameAssignment DEF Init, NewState, Current, SwarmStore!Init,
              SwarmStore!Empty
<1>2. IInv /\ [Next]_vars => [SwarmStore!Next]_(SwarmStore!vars)
  <2> SUFFICES ASSUME IInv, [Next]_vars, call.step = "swarm", swarm' = Current,
                      jobs' = jobs
               PROVE  SwarmStore!Next
    BY StoreSteps DEF SwarmStore!vars
  <2>1. /\ Current = [workloads |-> Assignment(jobs, expectedSize), version |-> configVersion]
        /\ configVersion \in 0 .. MaxVersion /\ swarm.version \in Nat
        /\ expectedSize \in Sizes /\ expectedSize \in Nat
        /\ swarm.version <= configVersion
        /\ expectedSize > 0 => swarm.version < configVersion
    BY DEF IInv, PoolInv, TypeOK, StateTypeOK, Computed, Published, Current
  <2>2. CASE expectedSize = 0
    <3>1. SwarmStore!PublishNobody(configVersion)
      BY <2>1, <2>2, SameAssignment DEF SwarmStore!PublishNobody
    <3> QED  BY <2>1, <3>1 DEF SwarmStore!Next
  <2>3. CASE expectedSize > 0
    <3>1. SwarmStore!Publish(expectedSize, configVersion)
      BY <2>1, <2>3, SameAssignment DEF SwarmStore!Publish
    <3> QED  BY <2>1, <3>1 DEF SwarmStore!Next
  <2> QED  BY <2>1, <2>2, <2>3
<1> QED  BY <1>1, <1>2, Invariance, PTL DEF Spec, SwarmImplementsStore, SwarmStore!Spec

-----------------------------------------------------------------------------
(* The pool in its cluster: System.                                        *)

News == {"ready", "terminating", "gone", "unstarted"}
Jobs == {NoJobs} \cup SUBSET Nat
Pods == [phase : Phases, jobs : Jobs]

SystemTypes ==
    /\ replicas \in Sizes
    /\ pods \in [Ordinals -> Pods]
    /\ mounted \in [Ordinals -> Jobs]
    /\ sizeEvents \in Seq(Sizes)
    /\ podEvents \in [Ordinals -> Seq(News)]
    /\ leftBehind \in [Ordinals -> Reasons]
    /\ \A i \in Ordinals \ Running : pods[i].jobs = NoJobs /\ leftBehind[i] = "no"
    /\ \A i \in DOMAIN configMap.workloads : configMap.workloads[i] \subseteq Nat

Latest(s) == s[Len(s)]

\* The StatefulSet handler has a size, or will be told of it.
SizesFollow ==
    IF sizeEvents = <<>> THEN expectedSize = replicas ELSE Latest(sizeEvents) = replicas

\* The pool has a ready worker, or "ready" is the last thing the Pod handler
\* will be told of that name.
PodFollows(i) ==
    i \in Ready =>
      IF podEvents[i] = <<>> THEN index[i] # Absent ELSE Latest(podEvents[i]) = "ready"

\* Nothing the Pod handler has still to be told takes worker i out of the pool.
AllReady(s) == \A n \in DOMAIN s : s[n] = "ready"
StaysPooled(i) == index[i] # Absent /\ AllReady(podEvents[i])

\* Why a worker that no history excuses may be stale: the marks are still to be
\* written, or the size has no place for it, or the pool knows it and it is
\* marked, or scheduled for a restart.
Scheduled(i) ==
    \/ i \in unserved
    \/ \E r \in restarts : r.worker = i /\ r.phase = "sleeping"

Covered(i) ==
    \/ ~MutexFree
    \/ i >= expectedSize
    \/ StaysPooled(i) /\ Scheduled(i)

StaleCovered(i) == Stale(i) /\ leftBehind[i] = "no" => Covered(i)

SystemInv ==
    /\ PoolInv
    /\ SystemTypes
    /\ SizesFollow
    /\ \A i \in Ordinals : PodFollows(i) /\ StaleCovered(i)

USE SystemAssumption

-----------------------------------------------------------------------------
LEMMA LatestOfAppend ==
    ASSUME NEW S, NEW s \in Seq(S), NEW e \in S
    PROVE  /\ Append(s, e) \in Seq(S) /\ Append(s, e) # <<>>
           /\ Latest(Append(s, e)) = e
<1>1. Len(s) \in Nat /\ Len(Append(s, e)) = Len(s) + 1 /\ Append(s, e)[Len(s) + 1] = e
  BY AppendProperties, LenProperties
<1> QED  BY <1>1, AppendProperties, EmptySeq DEF Latest

LEMMA LatestOfTail ==
    ASSUME NEW S, NEW s \in Seq(S), s # <<>>
    PROVE  /\ Head(s) \in S /\ Tail(s) \in Seq(S)
           /\ Len(s) > 1 <=> Tail(s) # <<>>
           /\ Tail(s) = <<>> => Head(s) = Latest(s)
           /\ Tail(s) # <<>> => Latest(Tail(s)) = Latest(s)
<1>1. /\ Head(s) \in S /\ Tail(s) \in Seq(S) /\ Len(Tail(s)) = Len(s) - 1
      /\ \A i \in 1 .. Len(Tail(s)) : Tail(s)[i] = s[i + 1]
  BY HeadTailProperties
<1>2. Len(s) \in Nat /\ Len(s) # 0 /\ (Tail(s) = <<>> <=> Len(Tail(s)) = 0)
  BY <1>1, EmptySeq, LenProperties
<1>3. Head(s) = s[1]  OBVIOUS
<1> QED  BY <1>1, <1>2, <1>3 DEF Latest

LEMMA AllReadyOfAppend ==
    ASSUME NEW s \in Seq(News), AllReady(s)
    PROVE  AllReady(Append(s, "ready"))
<1>1. /\ "ready" \in News /\ Len(s) \in Nat /\ Len(Append(s, "ready")) = Len(s) + 1
      /\ DOMAIN s = 1 .. Len(s) /\ DOMAIN Append(s, "ready") = 1 .. Len(s) + 1
      /\ \A n \in 1 .. Len(s) : Append(s, "ready")[n] = s[n]
      /\ Append(s, "ready")[Len(s) + 1] = "ready"
  BY AppendProperties, LenProperties DEF News
<1>2. \A n \in 1 .. Len(s) + 1 : n \in 1 .. Len(s) \/ n = Len(s) + 1  BY <1>1
<1> QED  BY <1>1, <1>2 DEF AllReady

LEMMA AllReadyOfTail ==
    ASSUME NEW s \in Seq(News), s # <<>>, AllReady(s)
    PROVE  AllReady(Tail(s)) /\ Head(s) = "ready"
<1>1. /\ Tail(s) \in Seq(News) /\ Len(Tail(s)) = Len(s) - 1
      /\ \A n \in 1 .. Len(Tail(s)) : Tail(s)[n] = s[n + 1]
  BY HeadTailProperties
<1>2. Len(s) \in Nat /\ Len(s) # 0  BY EmptySeq, LenProperties
<1>3. DOMAIN s = 1 .. Len(s) /\ DOMAIN Tail(s) = 1 .. Len(s) - 1
  BY <1>1, LenProperties
<1>4. Head(s) = s[1] /\ 1 \in DOMAIN s  BY <1>2, <1>3
<1>5. \A n \in DOMAIN Tail(s) : n + 1 \in DOMAIN s  BY <1>2, <1>3
<1> QED  BY <1>1, <1>3, <1>4, <1>5 DEF AllReady

LEMMA FarewellType == ASSUME NEW i \in Ordinals PROVE Farewell(i) \in Seq(News)
<1>1. /\ <<"terminating", "gone">> \in Seq(News)
      /\ <<"unstarted">> \in Seq(News) /\ <<>> \in Seq(News)
  BY DEF News
<1> QED  BY <1>1 DEF Farewell

\* The restarted controller's pool is that of an initial state.
LEMMA RestartControllerInvariant == RestartController => PoolInv'
<1>1. RestartController => FreshPool'
  BY DEF RestartController, initConfig, FreshPool, NewState, Idle
<1>2. FreshPool' => PoolInv'  BY FreshPoolInv, PTL
<1> QED  BY <1>1, <1>2

\* What happens to the pods by itself leaves the pool alone.
InPods(i) ==
    Kubelet(i) \/ Worker(i) \/ RestartContainer(i) \/ CreatePod(i) \/ RemovePod(i)

LEMMA PodsAlone ==
    ASSUME NEW i \in Ordinals, InPods(i)
    PROVE  UNCHANGED <<vars, replicas, sizeEvents>>
BY DEF InPods, Kubelet, StartWorker, UpdateVolume, Worker, LoadConfig, Loaded, Serve,
   ReloadWorker, RestartContainer, CreatePod, RemovePod

\* Every step of the system is one of the pool, or leaves it alone.
LEMMA PoolInCluster ==
    ASSUME PoolInv, SystemTypes, [SystemNext]_systemVars
    PROVE  PoolInv'
<1>1. CASE UNCHANGED vars  BY <1>1, IdleInvariant
<1>2. CASE HandleSize
  <2>1. Head(sizeEvents) \in Sizes  BY <1>2, LatestOfTail DEF HandleSize, SystemTypes
  <2> QED  BY <1>1, <1>2, <2>1, UpdateExpectedSizeInvariant DEF HandleSize
<1>3. ASSUME NEW i \in Ordinals, HandlePod(i) PROVE PoolInv'
  BY <1>1, <1>3, AddWorkerInvariant, RemoveWorkerInvariant DEF HandlePod, WhenKnown, WhenGone
<1>4. ASSUME NEW i \in Ordinals, Refresh(i) PROVE PoolInv'
  BY <1>4, RestartWorkerInvariant, MarkRefreshedInvariant DEF Refresh, DeletePod, Refreshed
<1>5. CASE Proceed
  BY <1>5, SetConfigMapInvariant, SetSwarmInvariant, MarkWorkersInvariant
     DEF Proceed, WriteStores, WriteMarks
<1>6. CASE Tick  BY <1>6, ConciliateInvariant DEF Tick
<1>7. CASE RestartController  BY <1>7, RestartControllerInvariant
<1>8. ASSUME NEW n \in Sizes, Scale(n) PROVE UNCHANGED vars  BY <1>8 DEF Scale
<1>9. ASSUME NEW i \in Ordinals, InPods(i) PROVE UNCHANGED vars
  BY <1>9, PodsAlone
<1>10. ASSUME UNCHANGED systemVars PROVE UNCHANGED vars  BY <1>10 DEF systemVars
<1> QED
  BY <1>1, <1>2, <1>3, <1>4, <1>5, <1>6, <1>7, <1>8, <1>9, <1>10
     DEF SystemNext, StatefulSetController, InPods

-----------------------------------------------------------------------------
LEMMA InitSystemTypes == SystemInit => SystemTypes
<1> SUFFICES ASSUME SystemInit PROVE SystemTypes  OBVIOUS
<1>1. pods \in [Ordinals -> Pods] /\ mounted \in [Ordinals -> Jobs]
  BY DEF SystemInit, NoPod, Pods, Phases, Jobs
<1>2. podEvents \in [Ordinals -> Seq(News)] /\ sizeEvents \in Seq(Sizes)
  BY EmptySeq DEF SystemInit
<1>3. DOMAIN configMap.workloads = {}  BY DEF SystemInit, Init, NewState, Current
<1>4. \A i \in Ordinals : pods[i].jobs = NoJobs  BY DEF SystemInit, NoPod
<1>5. leftBehind \in [Ordinals -> Reasons] /\ \A i \in Ordinals : leftBehind[i] = "no"
  BY DEF SystemInit, Reasons
<1> QED  BY <1>1, <1>2, <1>3, <1>4, <1>5 DEF SystemInit, SystemTypes

\* What the ConfigMap holds for a worker.
LEMMA AssignedType ==
    ASSUME SystemTypes, NEW i \in Ordinals
    PROVE  Assigned(i) \in Jobs
BY DEF SystemTypes, Assigned, Jobs

\* Steps that change one pod.
LEMMA PodTypes ==
    ASSUME SystemTypes, NEW i \in Ordinals, NEW p \in Pods, NEW h \in Reasons, NEW m \in Jobs,
           p.phase \in {"none", "starting"} => p.jobs = NoJobs /\ h = "no",
           pods' = [pods EXCEPT ![i] = p],
           leftBehind' = [leftBehind EXCEPT ![i] = h],
           mounted' = [mounted EXCEPT ![i] = m],
           podEvents' \in [Ordinals -> Seq(News)],
           UNCHANGED <<replicas, sizeEvents, configMap>>
    PROVE  SystemTypes'
<1>1. /\ pods' \in [Ordinals -> Pods] /\ leftBehind' \in [Ordinals -> Reasons]
      /\ mounted' \in [Ordinals -> Jobs]
  BY DEF SystemTypes
<1>2. \A j \in Ordinals \ Running' : pods'[j].jobs = NoJobs /\ leftBehind'[j] = "no"
  BY DEF SystemTypes, Running
<1> QED  BY <1>1, <1>2 DEF SystemTypes

LEMMA NewEvent ==
    ASSUME SystemTypes, NEW i \in Ordinals, NEW e \in News
    PROVE  [podEvents EXCEPT ![i] = Append(@, e)] \in [Ordinals -> Seq(News)]
<1>1. Append(podEvents[i], e) \in Seq(News)  BY LatestOfAppend DEF SystemTypes
<1> QED  BY <1>1 DEF SystemTypes

LEMMA DeletedTypes ==
    ASSUME SystemTypes, NEW i \in Ordinals, Deleted(i),
           UNCHANGED <<replicas, mounted, sizeEvents, configMap>>
    PROVE  SystemTypes'
<1>1. podEvents[i] \in Seq(News) /\ Farewell(i) \in Seq(News)
  BY FarewellType DEF SystemTypes
<1>2. podEvents[i] \o Farewell(i) \in Seq(News)
  BY <1>1, ConcatProperties
<1>3. podEvents' \in [Ordinals -> Seq(News)]  BY <1>2 DEF SystemTypes, Deleted
<1>4. NoPod \in Pods /\ NoPod.jobs = NoJobs /\ "no" \in Reasons
  BY DEF NoPod, Pods, Phases, Jobs, Reasons
<1>5. mounted[i] \in Jobs /\ mounted' = [mounted EXCEPT ![i] = mounted[i]]
  BY DEF SystemTypes
<1> QED  BY <1>3, <1>4, <1>5, PodTypes DEF Deleted

LEMMA LoadedTypes ==
    ASSUME SystemTypes, NEW i \in Ordinals, NEW ph \in {"loaded", "serving"}, Loaded(i, ph)
    PROVE  SystemTypes'
<1> DEFINE h == IF mounted[i] \in {NoJobs, Assigned(i)} THEN "no" ELSE "oldVolume"
           p == [phase |-> ph, jobs |-> mounted[i]]
<1>1. mounted[i] \in Jobs /\ mounted' = [mounted EXCEPT ![i] = mounted[i]]
  BY DEF SystemTypes, Loaded
<1>2. p \in Pods /\ h \in Reasons /\ p.phase \notin {"none", "starting"}
  BY <1>1 DEF Pods, Phases, Reasons
<1>3. podEvents' \in [Ordinals -> Seq(News)]  BY DEF SystemTypes, Loaded
<1>4. pods' = [pods EXCEPT ![i] = p] /\ leftBehind' = [leftBehind EXCEPT ![i] = h]
      /\ UNCHANGED <<replicas, sizeEvents, configMap>>
  BY DEF Loaded, vars, storeVars
<1> HIDE DEF h, p
<1> QED  BY <1>1, <1>2, <1>3, <1>4, PodTypes

LEMMA PodsTypesKept ==
    ASSUME SystemTypes, NEW i \in Ordinals, InPods(i)
    PROVE  SystemTypes'
<1>1. /\ pods[i] \in Pods /\ mounted[i] \in Jobs /\ leftBehind[i] \in Reasons
      /\ pods = [pods EXCEPT ![i] = pods[i]] /\ mounted = [mounted EXCEPT ![i] = mounted[i]]
      /\ leftBehind = [leftBehind EXCEPT ![i] = leftBehind[i]]
      /\ podEvents \in [Ordinals -> Seq(News)]
      /\ i \notin Running => pods[i].jobs = NoJobs /\ leftBehind[i] = "no"
  BY DEF SystemTypes
<1>2. /\ UNCHANGED <<replicas, sizeEvents, configMap>>
  BY PodsAlone DEF vars, storeVars
<1>3. \A ph \in Phases : [pods[i] EXCEPT !.phase = ph] = [phase |-> ph, jobs |-> pods[i].jobs]
  BY <1>1 DEF Pods
<1>4. \A ph \in Phases : [phase |-> ph, jobs |-> pods[i].jobs] \in Pods
  BY <1>1 DEF Pods
<1>5. CASE CreatePod(i)
  <2>1. pods' = [pods EXCEPT ![i] = [phase |-> "starting", jobs |-> pods[i].jobs]]
    BY <1>1, <1>3, <1>5 DEF CreatePod, Phases
  <2>2. i \notin Running /\ UNCHANGED <<mounted, podEvents, leftBehind>>
    BY <1>5 DEF CreatePod, Running, historyVars
  <2>3. [phase |-> "starting", jobs |-> pods[i].jobs] \in Pods  BY <1>4 DEF Phases
  <2> QED  BY <1>1, <1>2, <2>1, <2>2, <2>3, PodTypes
<1>6. CASE StartWorker(i)
  <2> DEFINE p == [phase |-> "loading", jobs |-> pods[i].jobs]
  <2>1. pods' = [pods EXCEPT ![i] = p]
    BY <1>1, <1>3, <1>6 DEF StartWorker, Phases
  <2>2. UNCHANGED <<mounted, podEvents, leftBehind>>
    BY <1>6 DEF StartWorker, historyVars
  <2>3. p \in Pods /\ p.phase \notin {"none", "starting"}  BY <1>4 DEF Phases
  <2> HIDE DEF p
  <2> QED  BY <1>1, <1>2, <2>1, <2>2, <2>3, PodTypes
<1>7. CASE UpdateVolume(i)
  <2> DEFINE ph == IF pods[i].phase = "serving" /\ pods[i].jobs = NoJobs THEN "notified"
                   ELSE pods[i].phase
  <2>1. ph \in Phases /\ (ph \in {"none", "starting"} => i \notin Running)
    BY <1>1 DEF Pods, Phases, Running
  <2>2. pods' = [pods EXCEPT ![i] = [phase |-> ph, jobs |-> pods[i].jobs]]
    BY <1>1, <1>3, <1>7, <2>1 DEF UpdateVolume
  <2>3. mounted' = [mounted EXCEPT ![i] = Assigned(i)] /\ Assigned(i) \in Jobs
    BY <1>7, AssignedType DEF UpdateVolume
  <2>4. UNCHANGED <<podEvents, leftBehind>>  BY <1>7 DEF UpdateVolume, historyVars
  <2>5. [phase |-> ph, jobs |-> pods[i].jobs] \in Pods  BY <1>4, <2>1
  <2> HIDE DEF ph
  <2> QED  BY <1>1, <1>2, <2>1, <2>2, <2>3, <2>4, <2>5, PodTypes
<1>8. CASE LoadConfig(i) \/ ReloadWorker(i)
  BY <1>8, LoadedTypes DEF LoadConfig, ReloadWorker
<1>9. CASE Serve(i)
  <2>1. PICK ph \in {"serving", "notified"}, h \in {leftBehind[i], "missed"} :
          /\ pods' = [pods EXCEPT ![i].phase = ph]
          /\ leftBehind' = [leftBehind EXCEPT ![i] = h]
    BY <1>1, <1>9 DEF Serve
  <2>2. pods' = [pods EXCEPT ![i] = [phase |-> ph, jobs |-> pods[i].jobs]]
        /\ [phase |-> ph, jobs |-> pods[i].jobs] \in Pods
    BY <1>1, <1>3, <1>4, <2>1 DEF Phases
  <2>3. h \in Reasons  BY <1>1 DEF Reasons
  <2>4. podEvents' \in [Ordinals -> Seq(News)] /\ mounted' = mounted
    BY <1>9, NewEvent DEF Serve, News
  <2> QED  BY <1>1, <1>2, <2>1, <2>2, <2>3, <2>4, PodTypes
<1>10. CASE RestartContainer(i)
  <2>1. [phase |-> "loading", jobs |-> NoJobs] \in Pods /\ "no" \in Reasons
    BY DEF Pods, Phases, Jobs, Reasons
  <2>2. podEvents' \in [Ordinals -> Seq(News)] /\ mounted' = mounted
    BY <1>1, <1>10, NewEvent DEF RestartContainer, News
  <2>3. /\ pods' = [pods EXCEPT ![i] = [phase |-> "loading", jobs |-> NoJobs]]
        /\ leftBehind' = [leftBehind EXCEPT ![i] = "no"]
    BY <1>10 DEF RestartContainer
  <2> QED  BY <1>1, <1>2, <2>1, <2>2, <2>3, PodTypes
<1>11. CASE RemovePod(i)
  BY <1>2, <1>11, DeletedTypes DEF RemovePod
<1> QED
  BY <1>5, <1>6, <1>7, <1>8, <1>9, <1>10, <1>11 DEF InPods, Kubelet, Worker

LEMMA SystemTypesKept ==
    ASSUME PoolInv, SystemTypes, [SystemNext]_systemVars
    PROVE  SystemTypes'
<1>1. ASSUME UNCHANGED <<replicas, pods, mounted, sizeEvents, podEvents, leftBehind, configMap>>
      PROVE  SystemTypes'
  BY <1>1 DEF SystemTypes, Running
<1>2. ASSUME NEW n \in Sizes, Scale(n) PROVE SystemTypes'
  <2>1. Append(sizeEvents, n) \in Seq(Sizes)  BY LatestOfAppend DEF SystemTypes
  <2> QED  BY <1>2, <2>1 DEF Scale, SystemTypes, Running, vars, storeVars
<1>3. ASSUME NEW i \in Ordinals, InPods(i) PROVE SystemTypes'
  BY <1>3, PodsTypesKept
<1>4. CASE HandleSize
  <2>1. Tail(sizeEvents) \in Seq(Sizes) /\ configMap' = configMap
    BY <1>4, LatestOfTail DEF HandleSize, SystemTypes, UpdateExpectedSize, vars, storeVars
  <2> QED  BY <1>4, <2>1 DEF HandleSize, SystemTypes, Running, historyVars
<1>5. ASSUME NEW i \in Ordinals, HandlePod(i) PROVE SystemTypes'
  <2>1. Tail(podEvents[i]) \in Seq(News)
    BY <1>5, LatestOfTail DEF HandlePod, SystemTypes
  <2>2. configMap' = configMap
    BY <1>5 DEF HandlePod, WhenKnown, WhenGone, AddWorkerIfNotExists, RemoveWorkerByName,
       vars, storeVars
  <2> QED  BY <1>5, <2>1, <2>2 DEF HandlePod, SystemTypes, Running, historyVars
<1>6. ASSUME NEW i \in Ordinals, Refresh(i) PROVE SystemTypes'
  <2>1. ASSUME NEW r \in restarts, DeletePod(r) PROVE SystemTypes'
    <3>1. r.worker \in Ordinals  BY DEF PoolInv, TypeOK
    <3>2. UNCHANGED <<replicas, mounted, sizeEvents, configMap>>
      BY <2>1 DEF DeletePod, RestartWorker, storeVars
    <3>3. CASE Deleted(r.worker)  BY <3>1, <3>2, <3>3, DeletedTypes
    <3>4. CASE /\ UNCHANGED <<pods, podEvents>>
               /\ leftBehind' = [leftBehind EXCEPT ![r.worker] =
                                   IF Stale(r.worker) THEN "notDeleted" ELSE @]
      <4>1. leftBehind' \in [Ordinals -> Reasons]  BY <3>4 DEF SystemTypes, Reasons
      <4>2. \A k \in Ordinals \ Running : ~Stale(k)
        BY DEF SystemTypes, Stale, Outdated, Running
      <4>3. \A k \in Ordinals \ Running : leftBehind'[k] = "no"
        BY <3>4, <4>2 DEF SystemTypes
      <4> QED  BY <3>2, <3>4, <4>1, <4>3 DEF SystemTypes, Running
    <3> QED  BY <2>1, <3>3, <3>4 DEF DeletePod
  <2>2. ASSUME NEW r \in restarts, Refreshed(r) PROVE SystemTypes'
    BY <1>1, <2>2 DEF Refreshed, MarkRefreshed, clusterVars, historyVars, storeVars
  <2> QED  BY <1>6, <2>1, <2>2 DEF Refresh
<1>7. CASE WriteStores
  <2>1. configMap' = configMap \/ configMap' = Current
    BY <1>7 DEF WriteStores, SetConfigMap, SetSwarm, Stored
  <2>2. \A i \in DOMAIN workloads : workloads[i] \subseteq Nat
    BY DEF PoolInv, TypeOK, StateTypeOK
  <2>3. \A i \in DOMAIN configMap'.workloads : configMap'.workloads[i] \subseteq Nat
    BY <2>1, <2>2 DEF SystemTypes, Current
  <2> QED  BY <1>7, <2>3 DEF WriteStores, SystemTypes, clusterVars, historyVars, Running
<1>8. CASE WriteMarks
  <2>1. UNCHANGED <<clusterVars, configMap>>
    BY <1>8 DEF WriteMarks, MarkWorkers, storeVars
  <2>2. leftBehind' \in [Ordinals -> Reasons]  BY <1>8 DEF WriteMarks, Reasons
  <2>3. \A i \in Ordinals \ Running : ~Stale(i)
    BY DEF SystemTypes, Stale, Outdated, Running
  <2>4. \A i \in Ordinals \ Running : leftBehind'[i] = "no"
    BY <1>8, <2>3 DEF WriteMarks
  <2> QED  BY <2>1, <2>2, <2>4 DEF SystemTypes, clusterVars, Running
<1>9. CASE Tick
  BY <1>1, <1>9 DEF Tick, Conciliate, clusterVars, historyVars, storeVars
<1>10. CASE RestartController
  <2>1. ListedSizes \in Seq(Sizes)  BY EmptySeq DEF ListedSizes, SystemTypes
  <2>2. <<>> \in Seq(News) /\ <<"ready">> \in Seq(News)  BY DEF News
  <2>3. ListedPods \in [Ordinals -> Seq(News)]  BY <2>2 DEF ListedPods
  <2> QED  BY <1>10, <2>1, <2>3 DEF RestartController, SystemTypes, Running
<1>11. CASE UNCHANGED systemVars
  BY <1>1, <1>11 DEF systemVars, vars, clusterVars, historyVars, storeVars
<1> QED
  BY <1>2, <1>3, <1>4, <1>5, <1>6, <1>7, <1>8, <1>9, <1>10, <1>11
     DEF SystemNext, StatefulSetController, InPods, Proceed

\* The association and the pool of a controller that restarts between any two
\* of its steps are sound, and what the cluster holds is well formed.
THEOREM SystemInvariance == SystemSpec => [](PoolInv /\ SystemTypes)
<1>1. SystemInit => PoolInv  BY FreshPoolInv DEF SystemInit, Init, FreshPool
<1>2. PoolInv /\ SystemTypes /\ [SystemNext]_systemVars => (PoolInv /\ SystemTypes)'
  BY PoolInCluster, SystemTypesKept
<1> QED  BY <1>1, <1>2, InitSystemTypes, PTL DEF SystemSpec

\* Types of the whole system, whatever restarts and scalings come in between.
THEOREM SystemTypeCorrect == SystemSpec => []SystemTypeOK
<1>1. PoolInv /\ SystemTypes => SystemTypeOK
  BY DEF PoolInv, SystemTypes, SystemTypeOK, Pods, Jobs, News
<1> QED  BY <1>1, SystemInvariance, PTL

\* What the pool promises it keeps in the cluster, for pods that come and go by
\* themselves, events handled late, and controllers that start again over the
\* stores of the one before: the budget of restarts (of each controller), no
\* forgotten mark, and no restart before its association is written.
THEOREM PoolSafeInCluster ==
    SystemSpec => [](RestartBudget /\ NoForgottenMark /\ RestartAfterPublish)
BY SystemInvariance, PoolSafety, PTL

\* As long as the controller does not restart, the system implements WorkerPool:
\* what a size event, a pod event or a deletion of a pod does to the pool is
\* what WorkerPool's environment may do to it.  So everything proved of the pool
\* and of the two stores holds there too.
THEOREM SystemImplementsPool ==
    ASSUME ~ControllerRestarts, RestartFaults
    PROVE  SystemSpec => Spec
<1>1. ASSUME PoolInv, SystemTypes, SystemNext PROVE [Next]_vars
  <2>1. Outcomes(RestartFaults) = {"ok", "refused", "lost"} /\ "ok" \in Outcomes(StoreFaults)
    BY DEF Outcomes
  <2>2. CASE HandleSize
    <3>1. Head(sizeEvents) \in Sizes  BY <1>1, <2>2, LatestOfTail DEF HandleSize, SystemTypes
    <3> QED  BY <2>2, <3>1 DEF HandleSize, Next
  <2>3. ASSUME NEW i \in Ordinals, HandlePod(i) PROVE [Next]_vars
    BY <2>3 DEF HandlePod, WhenKnown, WhenGone, Next
  <2>4. ASSUME NEW i \in Ordinals, Refresh(i) PROVE RequestRestart(i)
    BY <2>1, <2>4 DEF Refresh, DeletePod, Refreshed, RequestRestart
  <2>5. CASE Proceed
    BY <2>1, <2>5 DEF Proceed, WriteStores, WriteMarks, FinishCall, Next
  <2>6. CASE Tick  BY <2>6 DEF Tick, Next
  <2>7. ASSUME NEW n \in Sizes, Scale(n) PROVE UNCHANGED vars  BY <2>7 DEF Scale
  <2>8. ASSUME NEW i \in Ordinals, InPods(i) PROVE UNCHANGED vars
    BY <2>8, PodsAlone
  <2>9. ~RestartController  BY DEF RestartController
  <2> QED
    BY <1>1, <2>2, <2>3, <2>4, <2>5, <2>6, <2>7, <2>8, <2>9
       DEF SystemNext, StatefulSetController, InPods, Next
<1>2. PoolInv /\ SystemTypes /\ [SystemNext]_systemVars => [Next]_vars
  BY <1>1 DEF systemVars
<1>3. SystemInit => Init  BY DEF SystemInit
<1> QED  BY <1>2, <1>3, SystemInvariance, PTL DEF SystemSpec, Spec

-----------------------------------------------------------------------------
LEMMA SizesFollowKept ==
    ASSUME SystemTypes, SizesFollow, [SystemNext]_systemVars
    PROVE  SizesFollow'
<1>1. ASSUME NEW n \in Sizes, Scale(n) PROVE SizesFollow'
  <2>1. Append(sizeEvents, n) # <<>> /\ Latest(Append(sizeEvents, n)) = n
    BY LatestOfAppend DEF SystemTypes
  <2> QED  BY <1>1, <2>1 DEF Scale, SizesFollow
<1>2. CASE HandleSize
  <2>1. expectedSize' = Head(sizeEvents)
    BY <1>2 DEF HandleSize, UpdateExpectedSize, vars, sizeVars
  <2>2. sizeEvents # <<>> /\ sizeEvents' = Tail(sizeEvents) /\ replicas' = replicas
    BY <1>2 DEF HandleSize
  <2> QED  BY <2>1, <2>2, LatestOfTail DEF SizesFollow, SystemTypes
<1>3. CASE RestartController
  <2>1. <<replicas>> # <<>> /\ Latest(<<replicas>>) = replicas  BY DEF Latest
  <2> QED  BY <1>3, <2>1 DEF RestartController, ListedSizes, SizesFollow
<1>4. CASE UNCHANGED <<replicas, sizeEvents, expectedSize>>
  BY <1>4 DEF SizesFollow
<1>5. ASSUME NEW i \in Ordinals, InPods(i)
      PROVE  UNCHANGED <<replicas, sizeEvents, expectedSize>>
  BY <1>5, PodsAlone DEF vars, sizeVars
<1>6. ASSUME NEW i \in Ordinals, HandlePod(i) \/ Refresh(i)
      PROVE  UNCHANGED <<replicas, sizeEvents, expectedSize>>
  BY <1>6 DEF HandlePod, WhenKnown, WhenGone, AddWorkerIfNotExists, RemoveWorkerByName, Refresh,
     DeletePod, Refreshed, RestartWorker, MarkRefreshed, vars, sizeVars, clusterVars
<1>7. ASSUME Proceed \/ Tick \/ UNCHANGED systemVars
      PROVE  UNCHANGED <<replicas, sizeEvents, expectedSize>>
  BY <1>7 DEF Proceed, WriteStores, WriteMarks, SetConfigMap, SetSwarm, MarkWorkers, Tick,
     Conciliate, systemVars, vars, sizeVars, clusterVars
<1> QED
  BY <1>1, <1>2, <1>3, <1>4, <1>5, <1>6, <1>7
     DEF SystemNext, StatefulSetController, InPods

\* A pod that is deleted is neither ready nor stale, and the others stay.
LEMMA DeletedPods ==
    ASSUME SystemTypes, NEW i \in Ordinals, NEW j \in Ordinals, Deleted(j)
    PROVE  /\ i = j => i \notin Ready' /\ ~Stale(i)'
           /\ i # j => UNCHANGED <<pods[i], podEvents[i], leftBehind[i]>>
BY DEF Deleted, Ready, Stale, Outdated, FileChanged, NoPod, SystemTypes

LEMMA OtherPods ==
    ASSUME SystemTypes, NEW i \in Ordinals, NEW j \in Ordinals \ {i}, InPods(j)
    PROVE  UNCHANGED <<pods[i], mounted[i], podEvents[i], leftBehind[i]>>
<1>1. CASE Kubelet(j)
  BY <1>1 DEF Kubelet, StartWorker, UpdateVolume, historyVars, SystemTypes
<1>2. CASE Worker(j)
  BY <1>2 DEF Worker, LoadConfig, Loaded, Serve, ReloadWorker, SystemTypes
<1>3. CASE RestartContainer(j)  BY <1>3 DEF RestartContainer, SystemTypes
<1>4. CASE CreatePod(j)  BY <1>4 DEF CreatePod, historyVars, SystemTypes
<1>5. CASE RemovePod(j)  BY <1>5, DeletedPods DEF RemovePod
<1> QED  BY <1>1, <1>2, <1>3, <1>4, <1>5 DEF InPods

\* What the Pod handler will be told of a pod that is ready after a step other
\* than the handling of its own events and a restart of the controller.
LEMMA ReadySteps ==
    ASSUME PoolInv, SystemTypes, NEW i \in Ordinals, i \in Ready',
           SystemNext, ~HandlePod(i), ~RestartController
    PROVE  \/ podEvents'[i] = Append(podEvents[i], "ready")
           \/ i \in Ready /\ podEvents'[i] = podEvents[i]
<1> DEFINE Kept == i \in Ready /\ podEvents'[i] = podEvents[i]
<1>1. ASSUME UNCHANGED <<pods[i], podEvents[i]>> PROVE Kept
  BY <1>1 DEF Ready
<1>2. ASSUME NEW j \in Ordinals, Deleted(j) PROVE Kept
  BY <1>1, <1>2, DeletedPods
<1>3. ASSUME NEW j \in Ordinals, j # i, InPods(j) \/ HandlePod(j) PROVE Kept
  <2>1. ASSUME HandlePod(j) PROVE UNCHANGED <<pods[i], podEvents[i]>>
    BY <1>3, <2>1 DEF HandlePod, SystemTypes
  <2> QED  BY <1>1, <1>3, <2>1, OtherPods
<1>4. ASSUME InPods(i) PROVE Kept \/ podEvents'[i] = Append(podEvents[i], "ready")
  <2>1. CASE StartWorker(i) \/ LoadConfig(i) \/ RestartContainer(i) \/ CreatePod(i)
    <3>1. pods'[i].phase \in {"starting", "loading", "loaded"}
      BY <2>1 DEF StartWorker, LoadConfig, Loaded, RestartContainer, CreatePod, SystemTypes, Pods
    <3> QED  BY <3>1 DEF Ready
  <2>2. CASE UpdateVolume(i)
    <3>1. /\ pods'[i].phase = pods[i].phase \/ pods[i].phase = "serving"
          /\ podEvents'[i] = podEvents[i]
      BY <2>2 DEF UpdateVolume, SystemTypes, Pods
    <3> QED  BY <3>1 DEF Ready
  <2>3. CASE Serve(i)  BY <2>3 DEF Serve, SystemTypes
  <2>4. CASE ReloadWorker(i)  BY <2>4 DEF ReloadWorker, Loaded, Ready
  <2>5. CASE RemovePod(i)  BY <1>2, <2>5 DEF RemovePod
  <2> QED  BY <1>4, <2>1, <2>2, <2>3, <2>4, <2>5 DEF InPods, Kubelet, Worker
<1>5. ASSUME NEW j \in Ordinals, Refresh(j) PROVE Kept
  <2>1. ASSUME NEW r \in restarts, DeletePod(r) PROVE Kept
    <3>1. r.worker \in Ordinals  BY DEF PoolInv, TypeOK
    <3> QED  BY <1>1, <1>2, <2>1, <3>1 DEF DeletePod
  <2> QED  BY <1>1, <1>5, <2>1 DEF Refresh, Refreshed, clusterVars
<1>6. ASSUME NEW n \in Sizes, Scale(n) PROVE Kept
  BY <1>1, <1>6 DEF Scale
<1>7. ASSUME HandleSize \/ Proceed \/ Tick PROVE Kept
  BY <1>1, <1>7 DEF HandleSize, Proceed, WriteStores, WriteMarks, Tick, clusterVars
<1> HIDE DEF Kept
<1>8. Kept \/ podEvents'[i] = Append(podEvents[i], "ready")
  BY <1>3, <1>4, <1>5, <1>6, <1>7 DEF SystemNext, StatefulSetController, InPods
<1> QED  BY <1>8 DEF Kept

\* Only the handler of its events takes a worker out of the pool.
LEMMA PooledStays ==
    ASSUME PoolInv, NEW i \in Ordinals, SystemNext, ~HandlePod(i), ~RestartController,
           index[i] # Absent
    PROVE  index'[i] # Absent
<1>1. index \in [Ordinals -> WorkerStates \cup {Absent}]  BY DEF PoolInv, TypeOK
<1>2. CASE UNCHANGED index  BY <1>2
<1>3. ASSUME NEW j \in Ordinals, j # i, HandlePod(j) PROVE index'[i] # Absent
  BY <1>1, <1>3 DEF HandlePod, WhenKnown, WhenGone, AddWorkerIfNotExists, RemoveWorkerByName,
     vars, poolVars
<1>4. ASSUME NEW j \in Ordinals, Refresh(j) PROVE index'[i] # Absent
  <2>1. ASSUME NEW r \in restarts, MarkRefreshed(r) PROVE index'[i] # Absent
    BY <1>1, <2>1 DEF MarkRefreshed, PoolInv, TypeOK, Absent
  <2> QED  BY <1>2, <1>4, <2>1 DEF Refresh, DeletePod, Refreshed, RestartWorker, poolVars
<1>5. CASE WriteMarks  BY <1>5 DEF WriteMarks, MarkWorkers, Absent
<1>6. ASSUME HandleSize \/ WriteStores \/ Tick PROVE UNCHANGED index
  BY <1>6 DEF HandleSize, UpdateExpectedSize, WriteStores, SetConfigMap, SetSwarm, Tick,
     Conciliate, vars, poolVars
<1>7. ASSUME NEW j \in Ordinals, InPods(j) PROVE UNCHANGED index
  BY <1>7, PodsAlone DEF vars, poolVars
<1>8. ASSUME NEW n \in Sizes, Scale(n) PROVE UNCHANGED index
  BY <1>8 DEF Scale, vars, poolVars
<1> QED
  BY <1>2, <1>3, <1>4, <1>5, <1>6, <1>7, <1>8
     DEF SystemNext, StatefulSetController, Proceed, InPods

LEMMA PodFollowsKept ==
    ASSUME PoolInv, SystemTypes, NEW i \in Ordinals, PodFollows(i), [SystemNext]_systemVars
    PROVE  PodFollows(i)'
<1> SUFFICES ASSUME i \in Ready'
             PROVE  IF podEvents'[i] = <<>> THEN index'[i] # Absent
                    ELSE Latest(podEvents'[i]) = "ready"
  BY DEF PodFollows, Latest
<1>1. podEvents[i] \in Seq(News)  BY DEF SystemTypes
<1>2. CASE UNCHANGED systemVars
  BY <1>2 DEF systemVars, vars, poolVars, clusterVars, PodFollows, Ready
<1>3. CASE HandlePod(i)
  <2>1. /\ podEvents[i] # <<>> /\ podEvents'[i] = Tail(podEvents[i]) /\ i \in Ready
    BY <1>3 DEF HandlePod, SystemTypes, Ready
  <2>2. Latest(podEvents[i]) = "ready"  BY <2>1 DEF PodFollows
  <2>3. CASE Tail(podEvents[i]) = <<>>
    <3>1. Head(podEvents[i]) = "ready" /\ ~(Len(podEvents[i]) > 1)
      BY <1>1, <2>1, <2>2, <2>3, LatestOfTail
    <3>2. Len(podEvents[i]) \in Nat /\ DOMAIN podEvents[i] = 1 .. Len(podEvents[i])
      BY <1>1, LenProperties
    <3>3. ~GoneLater(i)  BY <3>1, <3>2 DEF GoneLater
    <3>4. WhenKnown(i, "ready")  BY <1>3, <3>1, <3>3 DEF HandlePod
    <3>5. index'[i] # Absent
      BY <3>4 DEF WhenKnown, AddWorkerIfNotExists, PoolInv, TypeOK, Absent, vars, poolVars
    <3> QED  BY <2>1, <2>3, <3>5
  <2>4. CASE Tail(podEvents[i]) # <<>>
    BY <1>1, <2>1, <2>2, <2>4, LatestOfTail
  <2> QED  BY <2>3, <2>4
<1>4. CASE RestartController
  <2>1. i \in Running  BY <1>4 DEF RestartController, Ready, Running
  <2>2. podEvents'[i] = <<"ready">>  BY <1>4, <2>1 DEF RestartController, ListedPods
  <2> QED  BY <2>2 DEF Latest
<1>5. CASE SystemNext /\ ~HandlePod(i) /\ ~RestartController
  <2>1. "ready" \in News  BY DEF News
  <2>2. CASE podEvents'[i] = Append(podEvents[i], "ready")
    BY <1>1, <2>1, <2>2, LatestOfAppend
  <2>3. CASE i \in Ready /\ podEvents'[i] = podEvents[i]
    BY <1>5, <2>3, PooledStays DEF PodFollows
  <2> QED  BY <1>5, <2>2, <2>3, ReadySteps
<1> QED  BY <1>2, <1>3, <1>4, <1>5

-----------------------------------------------------------------------------
\* A mark, or the restart that serves it, is there until the pod's deletion is
\* requested or an event of it is handled.
LEMMA ScheduledStays ==
    ASSUME PoolInv, SystemTypes, NEW i \in Ordinals, SystemNext, ~HandlePod(i),
           ~RestartController, MutexFree, Scheduled(i),
           \A r \in restarts : DeletePod(r) => r.worker # i
    PROVE  Scheduled(i)'
<1>1. CASE UNCHANGED <<unserved, restarts>>  BY <1>1 DEF Scheduled
<1>2. ASSUME NEW j \in Ordinals, j # i, HandlePod(j) PROVE Scheduled(i)'
  <2>1. CASE RemoveWorkerByName(j)
    <3>1. CASE i \in unserved  BY <1>2, <2>1, <3>1 DEF RemoveWorkerByName, Scheduled
    <3>2. ASSUME NEW r \in restarts, r.worker = i, r.phase = "sleeping"
          PROVE  Scheduled(i)'
      <4> DEFINE q == [r EXCEPT !.live = r.live /\ r.worker # j]
      <4>1. q \in restarts'  BY <2>1 DEF RemoveWorkerByName
      <4>2. q.worker = i /\ q.phase = "sleeping"  BY <3>2 DEF PoolInv, TypeOK
      <4> HIDE DEF q
      <4> QED  BY <4>1, <4>2 DEF Scheduled
    <3> QED  BY <3>1, <3>2 DEF Scheduled
  <2> QED
    BY <1>1, <1>2, <2>1 DEF HandlePod, WhenKnown, WhenGone, AddWorkerIfNotExists, vars
<1>3. ASSUME NEW j \in Ordinals, Refresh(j) PROVE Scheduled(i)'
  <2>1. ASSUME NEW r \in restarts, DeletePod(r) PROVE Scheduled(i)'
    <3>1. r.worker # i  BY <2>1
    <3>2. restarts \ {r} \subseteq restarts' /\ unserved' = unserved
      BY <2>1 DEF DeletePod, RestartWorker
    <3> QED  BY <3>1, <3>2 DEF Scheduled
  <2>2. ASSUME NEW r \in restarts, MarkRefreshed(r) PROVE Scheduled(i)'
    <3>1. r.phase # "sleeping"  BY <2>2 DEF MarkRefreshed
    <3>2. restarts \ {r} \subseteq restarts' /\ unserved' = unserved
      BY <2>2 DEF MarkRefreshed
    <3> QED  BY <3>1, <3>2 DEF Scheduled
  <2> QED  BY <1>3, <2>1, <2>2 DEF Refresh, Refreshed
<1>4. CASE Tick
  <2>1. restarts \subseteq restarts' /\ unserved' = unserved \ NeedRefresh
    BY <1>4 DEF Tick, Conciliate, ScheduleRestarts
  <2>2. CASE i \in NeedRefresh
    <3> DEFINE q == [worker |-> i, version |-> version, phase |-> "sleeping", live |-> TRUE]
    <3>1. q \in restarts'  BY <1>4, <2>2 DEF Tick, Conciliate, ScheduleRestarts
    <3>2. q.worker = i /\ q.phase = "sleeping"  OBVIOUS
    <3> HIDE DEF q
    <3> QED  BY <3>1, <3>2 DEF Scheduled
  <2>3. CASE i \notin NeedRefresh  BY <2>1, <2>3 DEF Scheduled
  <2> QED  BY <2>2, <2>3
<1>5. ASSUME Proceed PROVE FALSE
  BY <1>5 DEF Proceed, WriteStores, WriteMarks, SetConfigMap, SetSwarm, MarkWorkers, MutexFree,
     Idle
<1>6. CASE HandleSize  BY <1>1, <1>6 DEF HandleSize, UpdateExpectedSize, vars
<1>7. ASSUME NEW j \in Ordinals, InPods(j)
      PROVE  UNCHANGED <<unserved, restarts>>
  BY <1>7, PodsAlone DEF vars
<1>8. ASSUME NEW n \in Sizes, Scale(n) PROVE UNCHANGED <<unserved, restarts>>
  BY <1>8 DEF Scale, vars
<1> QED
  BY <1>1, <1>2, <1>3, <1>4, <1>5, <1>6, <1>7, <1>8
     DEF SystemNext, StatefulSetController, InPods

\* A size change marks the workers it keeps if the pool has them.
LEMMA KeptAreMarked ==
    ASSUME PoolInv, NEW i \in Ordinals, index[i] # Absent, i < call.previous, i < expectedSize
    PROVE  i \in Marked
<1> DEFINE k == IF expectedSize > call.previous THEN call.previous ELSE expectedSize
<1>1. /\ call.previous \in Nat /\ expectedSize \in Nat /\ k \in Nat /\ i \in Nat
      /\ TypeOK /\ i \in Pooled
  BY DEF PoolInv, TypeOK, Pooled
<1>2. i < k /\ call.previous # 0  BY <1>1
<1>3. Marked = FirstWorkers(IF Cardinality(Pooled) < k THEN Cardinality(Pooled) ELSE k)
  BY <1>2 DEF Marked, TotalToRefresh
<1> HIDE DEF k
<1> QED  BY <1>1, <1>2, <1>3, LowOrdinalsFirst

\* What is written to the ConfigMap, and to a pool's size, while nobody holds
\* the mutex.
LEMMA FreeSteps ==
    ASSUME SystemNext, ~RestartController, MutexFree, MutexFree'
    PROVE  UNCHANGED <<configMap, expectedSize>>
<1>1. ASSUME Proceed PROVE FALSE
  BY <1>1 DEF Proceed, WriteStores, WriteMarks, SetConfigMap, SetSwarm, MarkWorkers, MutexFree,
     Idle
<1>2. ASSUME NEW n, UpdateExpectedSize(n) PROVE FALSE
  BY <1>2 DEF UpdateExpectedSize, MutexFree, Idle
<1>3. CASE UNCHANGED vars  BY <1>3 DEF vars, sizeVars, storeVars
<1>4. CASE HandleSize  BY <1>2, <1>3, <1>4 DEF HandleSize
<1>5. ASSUME NEW j \in Ordinals, HandlePod(j) \/ Refresh(j)
      PROVE  UNCHANGED <<configMap, expectedSize>>
  BY <1>5 DEF HandlePod, WhenKnown, WhenGone, AddWorkerIfNotExists, RemoveWorkerByName, Refresh,
     DeletePod, Refreshed, RestartWorker, MarkRefreshed, vars, sizeVars, storeVars
<1>6. CASE Tick  BY <1>6 DEF Tick, Conciliate, sizeVars, storeVars
<1>7. ASSUME NEW j \in Ordinals, InPods(j)
      PROVE  UNCHANGED vars
  BY <1>7, PodsAlone
<1>8. ASSUME NEW n \in Sizes, Scale(n) PROVE UNCHANGED vars
  BY <1>8 DEF Scale
<1> QED
  BY <1>1, <1>3, <1>4, <1>5, <1>6, <1>7, <1>8
     DEF SystemNext, StatefulSetController, InPods

\* Only the step that marks the workers gives the mutex back.
LEMMA OnlyMarksFree ==
    ASSUME PoolInv, SystemNext, ~RestartController, ~MutexFree, MutexFree'
    PROVE  WriteMarks
<1>1. CASE WriteStores
  BY <1>1 DEF WriteStores, SetConfigMap, SetSwarm, MutexFree, Idle, PoolInv, TypeOK
<1>2. ASSUME NEW j \in Ordinals, HandlePod(j) PROVE FALSE  BY <1>2 DEF HandlePod
<1>3. ASSUME HandleSize \/ Tick PROVE FALSE  BY <1>3 DEF HandleSize, Tick, Conciliate
<1>4. ASSUME NEW j \in Ordinals, Refresh(j) PROVE UNCHANGED call
  BY <1>4 DEF Refresh, DeletePod, Refreshed, RestartWorker, MarkRefreshed
<1>5. ASSUME NEW j \in Ordinals, InPods(j)
      PROVE  UNCHANGED call
  BY <1>5, PodsAlone DEF vars
<1>6. ASSUME NEW n \in Sizes, Scale(n) PROVE UNCHANGED call
  BY <1>6 DEF Scale, vars
<1>7. call' # call  BY DEF MutexFree
<1> QED
  BY <1>1, <1>2, <1>3, <1>4, <1>5, <1>6, <1>7
     DEF SystemNext, StatefulSetController, Proceed, InPods

\* A worker that is stale after a step that takes no mark away was it before,
\* and its pod is the same: a deletion that fails is remembered.
LEMMA StaleSteps ==
    ASSUME PoolInv, SystemTypes, NEW i \in Ordinals, Stale(i)', leftBehind'[i] = "no",
           UNCHANGED configMap, SystemNext, ~RestartController, ~WriteMarks
    PROVE  /\ Stale(i) /\ leftBehind[i] = "no"
           /\ \/ HandlePod(i)
              \/ podEvents'[i] \in {podEvents[i], Append(podEvents[i], "ready")}
           /\ \A r \in restarts : DeletePod(r) => r.worker # i
<1> DEFINE Was == /\ Stale(i) /\ leftBehind[i] = "no"
                  /\ \/ HandlePod(i)
                     \/ podEvents'[i] \in {podEvents[i], Append(podEvents[i], "ready")}
<1>1. Assigned(i)' = Assigned(i)  BY DEF Assigned
<1>2. ASSUME UNCHANGED <<pods[i], mounted[i], podEvents[i], leftBehind[i]>> PROVE Was
  BY <1>1, <1>2 DEF Stale, Outdated, FileChanged
<1>3. ASSUME NEW j \in Ordinals, Deleted(j) PROVE j # i
  BY <1>3, DeletedPods
<1>4. ASSUME NEW j \in Ordinals, HandlePod(j) PROVE Was
  <2>1. UNCHANGED <<pods, mounted, leftBehind>>  BY <1>4 DEF HandlePod, historyVars
  <2>2. Stale(i) /\ leftBehind[i] = "no"
    BY <1>1, <2>1 DEF Stale, Outdated, FileChanged
  <2>3. j # i => podEvents'[i] = podEvents[i]  BY <1>4 DEF HandlePod, SystemTypes
  <2> QED  BY <1>4, <2>2, <2>3
<1>5. ASSUME InPods(i) PROVE Was
  <2>1. CASE StartWorker(i) \/ RestartContainer(i) \/ CreatePod(i)
    <3>1. pods'[i].jobs = NoJobs /\ pods'[i].phase # "serving"
      BY <2>1 DEF StartWorker, RestartContainer, CreatePod, Running, SystemTypes, Pods
    <3> QED  BY <3>1 DEF Stale, Outdated
  <2>2. CASE UpdateVolume(i)
    <3>1. /\ pods'[i].jobs = pods[i].jobs
          /\ pods'[i].phase = "serving" => pods[i].jobs # NoJobs
          /\ UNCHANGED <<podEvents, leftBehind>>
      BY <2>2 DEF UpdateVolume, SystemTypes, Pods, historyVars
    <3> QED  BY <1>1, <3>1 DEF Stale, Outdated, FileChanged
  <2>3. CASE LoadConfig(i) \/ ReloadWorker(i)
    <3>1. /\ pods'[i].jobs = mounted[i] /\ mounted'[i] = mounted[i]
          /\ leftBehind'[i] =
               IF mounted[i] \in {NoJobs, Assigned(i)} THEN "no" ELSE "oldVolume"
      BY <2>3 DEF LoadConfig, ReloadWorker, Loaded, SystemTypes
    <3>2. mounted[i] \in {NoJobs, Assigned(i)}  BY <3>1
    <3> QED  BY <1>1, <3>1, <3>2 DEF Stale, Outdated, FileChanged
  <2>4. CASE Serve(i)
    <3>1. /\ pods'[i].jobs = pods[i].jobs /\ mounted'[i] = mounted[i]
          /\ podEvents'[i] = Append(podEvents[i], "ready")
          /\ leftBehind'[i] = leftBehind[i]
          /\ pods'[i].phase = "notified" \/ ~FileChanged(i)
      BY <2>4 DEF Serve, SystemTypes, Pods
    <3> QED  BY <1>1, <3>1 DEF Stale, Outdated, FileChanged
  <2>5. CASE RemovePod(i)  BY <1>3, <2>5 DEF RemovePod
  <2> QED  BY <1>5, <2>1, <2>2, <2>3, <2>4, <2>5 DEF InPods, Kubelet, Worker
<1>6. ASSUME NEW r \in restarts, DeletePod(r) PROVE Was /\ r.worker # i
  <2>1. r.worker \in Ordinals /\ mounted' = mounted
    BY <1>6 DEF PoolInv, TypeOK, DeletePod
  <2>2. CASE Deleted(r.worker)  BY <1>2, <1>3, <2>1, <2>2, DeletedPods
  <2>3. CASE /\ UNCHANGED <<pods, podEvents>>
             /\ leftBehind' = [leftBehind EXCEPT ![r.worker] =
                                 IF Stale(r.worker) THEN "notDeleted" ELSE @]
    <3>1. Stale(i)  BY <1>1, <2>1, <2>3 DEF Stale, Outdated, FileChanged
    <3>2. r.worker # i  BY <2>3, <3>1 DEF SystemTypes
    <3> QED  BY <1>2, <2>1, <2>3, <3>2 DEF SystemTypes
  <2> QED  BY <1>6, <2>2, <2>3 DEF DeletePod
<1>7. ASSUME NEW j \in Ordinals, Refresh(j) PROVE Was
  BY <1>2, <1>6, <1>7 DEF Refresh, Refreshed, clusterVars, historyVars
<1>8. ASSUME NEW n \in Sizes, Scale(n) PROVE Was
  BY <1>2, <1>8 DEF Scale
<1>9. ASSUME HandleSize \/ WriteStores \/ Tick PROVE Was
  BY <1>2, <1>9 DEF HandleSize, WriteStores, Tick, clusterVars, historyVars
<1>10. ASSUME NEW j \in Ordinals \ {i}, InPods(j) PROVE Was
  BY <1>2, <1>10, OtherPods
<1> HIDE DEF Was
<1>11. Was
  BY <1>4, <1>5, <1>7, <1>8, <1>9, <1>10 DEF SystemNext, StatefulSetController, InPods, Proceed
<1> QED  BY <1>6, <1>11 DEF Was

LEMMA StaleCoveredKept ==
    ASSUME PoolInv, SystemTypes, NEW i \in Ordinals, PodFollows(i), StaleCovered(i),
           [SystemNext]_systemVars
    PROVE  StaleCovered(i)'
<1> SUFFICES ASSUME Stale(i)', leftBehind'[i] = "no", MutexFree', ~(i >= expectedSize')
             PROVE  StaysPooled(i)' /\ Scheduled(i)'
  BY DEF StaleCovered, Covered
<1>1. podEvents[i] \in Seq(News)  BY DEF SystemTypes
<1>2. CASE UNCHANGED systemVars
  <2>1. UNCHANGED <<configMap, pods, mounted, podEvents, leftBehind, expectedSize, call,
                    unserved, restarts, index>>
    BY <1>2 DEF systemVars, vars, clusterVars, historyVars, sizeVars, storeVars, poolVars
  <2>2. Stale(i) /\ leftBehind[i] = "no" /\ MutexFree /\ ~(i >= expectedSize)
    BY <2>1 DEF Stale, Outdated, FileChanged, Assigned, MutexFree
  <2>3. StaysPooled(i) /\ Scheduled(i)  BY <2>2 DEF StaleCovered, Covered
  <2> QED  BY <2>1, <2>3 DEF StaysPooled, Scheduled
<1>3. CASE RestartController
  <2>1. expectedSize' = 0 /\ i \in Nat  BY <1>3 DEF RestartController
  <2> QED  BY <2>1
<1>4. CASE SystemNext /\ ~RestartController /\ MutexFree
  <2>1. UNCHANGED <<configMap, expectedSize>>  BY <1>4, FreeSteps
  <2>2. ~WriteMarks  BY <1>4 DEF WriteMarks, MarkWorkers, MutexFree, Idle
  <2>3. /\ Stale(i) /\ leftBehind[i] = "no"
        /\ HandlePod(i) \/ podEvents'[i] \in {podEvents[i], Append(podEvents[i], "ready")}
        /\ \A r \in restarts : DeletePod(r) => r.worker # i
    BY <1>4, <2>1, <2>2, StaleSteps
  <2>4. StaysPooled(i) /\ Scheduled(i)  BY <1>4, <2>1, <2>3 DEF StaleCovered, Covered
  <2>5. CASE HandlePod(i)
    <3>1. podEvents[i] # <<>> /\ podEvents'[i] = Tail(podEvents[i])
      BY <2>5 DEF HandlePod, SystemTypes
    <3>2. Head(podEvents[i]) = "ready" /\ AllReady(podEvents'[i])
      BY <1>1, <2>4, <3>1, AllReadyOfTail DEF StaysPooled
    <3>3. ~GoneLater(i)  BY <2>4 DEF GoneLater, StaysPooled, AllReady
    <3>4. WhenKnown(i, "ready")  BY <2>5, <3>2, <3>3 DEF HandlePod
    <3>5. UNCHANGED <<index, unserved, restarts>>
      BY <2>4, <3>4 DEF WhenKnown, StaysPooled, vars, poolVars
    <3> QED  BY <2>4, <3>2, <3>5 DEF StaysPooled, Scheduled
  <2>6. CASE ~HandlePod(i)
    <3>1. AllReady(podEvents'[i])
      BY <1>1, <2>3, <2>4, <2>6, AllReadyOfAppend DEF StaysPooled
    <3>2. index'[i] # Absent  BY <1>4, <2>4, <2>6, PooledStays DEF StaysPooled
    <3>3. Scheduled(i)'  BY <1>4, <2>3, <2>4, <2>6, ScheduledStays
    <3> QED  BY <3>1, <3>2, <3>3 DEF StaysPooled
  <2> QED  BY <2>5, <2>6
<1>5. CASE SystemNext /\ ~RestartController /\ ~MutexFree
  <2>1. WriteMarks  BY <1>5, OnlyMarksFree
  <2>2. UNCHANGED <<pods, mounted, podEvents, configMap, expectedSize>>
    BY <2>1 DEF WriteMarks, MarkWorkers, clusterVars, sizeVars, storeVars
  <2>3. Stale(i)  BY <2>2 DEF Stale, Outdated, FileChanged, Assigned
  <2>4. ~OutOfReach(i)  BY <2>1, <2>3 DEF WriteMarks
  <2>5. podEvents[i] = <<>> /\ index[i] # Absent /\ ~(i >= call.previous)
    BY <2>4 DEF OutOfReach, PodFollows
  <2>6. call.previous \in Nat /\ expectedSize \in Nat /\ i \in Nat
    BY DEF PoolInv, TypeOK
  <2>7. i \in Marked  BY <2>2, <2>5, <2>6, KeptAreMarked
  <2>8. unserved' = unserved \cup Marked /\ index'[i] = "NeedsRefresh"
    BY <2>1, <2>7 DEF WriteMarks, MarkWorkers
  <2>9. AllReady(podEvents'[i])  BY <2>2, <2>5 DEF AllReady
  <2> QED  BY <2>7, <2>8, <2>9 DEF Scheduled, StaysPooled, Absent
<1> QED  BY <1>2, <1>3, <1>4, <1>5

\* Whatever containers, deletions, volumes and controllers do: when nothing is
\* under way, a worker has other jobs than the ConfigMap gives it only because the
\* last size change could not reach it, the deletion of its pod failed, it started
\* from a volume that was behind, it missed a change of its file, or its mark was
\* lost.
THEOREM StaleExplainedCorrect == SystemSpec => []StaleExplained
<1>1. SystemInit => SystemInv
  <2>1. SystemInit => PoolInv  BY FreshPoolInv DEF SystemInit, Init, FreshPool
  <2>2. SystemInit => SizesFollow  BY DEF SystemInit, Init, SizesFollow
  <2>3. ASSUME SystemInit, NEW i \in Ordinals PROVE i \notin Ready /\ ~Stale(i)
    BY <2>3 DEF SystemInit, Ready, Stale, Outdated, NoPod
  <2> QED  BY <2>1, <2>2, <2>3, InitSystemTypes DEF SystemInv, PodFollows, StaleCovered
<1>2. SystemInv /\ [SystemNext]_systemVars => SystemInv'
  BY PoolInCluster, SystemTypesKept, SizesFollowKept, PodFollowsKept, StaleCoveredKept
     DEF SystemInv
<1>3. SystemInv => StaleExplained
  <2> SUFFICES ASSUME SystemInv, Quiet, NEW i \in Running, pods[i].jobs # Assigned(i),
                      leftBehind[i] = "no"
               PROVE  i \in unserved
    BY DEF StaleExplained
  <2>1. i \in Ordinals /\ i < replicas /\ expectedSize = replicas
    BY DEF Quiet, SystemInv, SizesFollow, Running
  <2>2. pods[i].phase = "serving" /\ mounted[i] = Assigned(i)  BY <2>1 DEF Quiet
  <2>3. Stale(i)  BY <2>2 DEF Stale, Outdated, FileChanged
  <2>4. Covered(i)  BY <2>1, <2>3 DEF SystemInv, StaleCovered
  <2>5. i \in Nat /\ replicas \in Nat  BY <2>1 DEF SystemInv, SystemTypes
  <2> QED  BY <2>1, <2>4, <2>5 DEF Covered, Scheduled, Quiet
<1> QED  BY <1>1, <1>2, <1>3, PTL DEF SystemSpec
=============================================================================
