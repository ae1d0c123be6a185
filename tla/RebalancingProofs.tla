------------------------- MODULE RebalancingProofs -------------------------
(* Proofs about Rebalancing, for every job list and every sequence of pool *)
(* sizes.  The inductive invariant is Deterministic with the types: the    *)
(* association held is a function of the job list and the last size, so    *)
(* that every other property is one of the operators of Balance.           *)
EXTENDS Rebalancing, WorkloadStateProofs

USE JobCountsAssumption, TotalsAssumption, VersionsAssumption

IInv == TypeOK /\ Deterministic

LEMMA InitInvariant == Init => IInv
<1> SUFFICES ASSUME Init PROVE IInv  OBVIOUS
<1>1. jobs \in Nat  BY DEF Init, NewState
<1>2. workloads = Assignment(jobs, 0)
  <2>1. 0 .. 0-1 = {}  OBVIOUS
  <2> QED  BY <2>1 DEF Init, NewState, Assignment
<1> QED  BY <1>1, <1>2, AssignmentType DEF Init, NewState, IInv, TypeOK, StateTypeOK, Deterministic

LEMMA StepInvariant == IInv /\ [Next]_vars => IInv'
<1> SUFFICES ASSUME IInv, [Next]_vars PROVE IInv'  OBVIOUS
<1>1. ASSUME NEW n \in Totals, NEW v \in Versions, Rebalance(n, v)
      PROVE  IInv'
  <2>1. jobs \in Nat /\ total \in Nat /\ workloads = Assignment(jobs, total)
    BY DEF IInv, TypeOK, StateTypeOK, Deterministic
  <2>2. workloads' = Assignment(jobs, n) /\ jobs' = jobs /\ total' = n
    BY <1>1, <2>1, BalancedIsAssignment DEF Rebalance, BalanceWorkload
  <2>3. Deterministic'  BY <2>2 DEF Deterministic
  <2>4. TypeOK'
    BY <1>1, <2>1, <2>2, AssignmentType DEF Rebalance, BalanceWorkload, IInv, TypeOK, StateTypeOK
  <2> QED  BY <2>3, <2>4 DEF IInv
<1>2. CASE UNCHANGED vars
  BY <1>2 DEF vars, stateVars, IInv, TypeOK, StateTypeOK, Deterministic
<1> QED  BY <1>1, <1>2 DEF Next

\* The association of the last size is held in every state.
THEOREM Invariance == Spec => []IInv
BY InitInvariant, StepInvariant, PTL DEF Spec

\* Every call leaves a well-formed association of jobs the list has.
THEOREM TypeCorrect == Spec => []TypeOK
<1>1. IInv => TypeOK  BY DEF IInv
<1> QED  BY <1>1, Invariance, PTL

\* The association depends on the job list and the last size alone, never on
\* the sizes the pool had before.
THEOREM DeterministicCorrect == Spec => []Deterministic
<1>1. IInv => Deterministic  BY DEF IInv
<1> QED  BY <1>1, Invariance, PTL

\* BalanceWorkload never slices the job list out of its range.
THEOREM SlicesInRangeCorrect == Spec => []SlicesInRange
<1>1. IInv => SlicesInRange
  BY SliceBounds DEF IInv, TypeOK, StateTypeOK, SlicesInRange
<1> QED  BY <1>1, Invariance, PTL

\* The jobs nobody is given, if any, are at the end of the list.
THEOREM LostJobsAreTheTailCorrect == Spec => []LostJobsAreTheTail
<1>1. IInv => LostJobsAreTheTail
  <2> SUFFICES ASSUME IInv, total > 0, NEW j \in 0 .. jobs-1,
                      \A i \in DOMAIN workloads : j \notin workloads[i]
               PROVE  j >= total * (jobs \div total)
    BY DEF LostJobsAreTheTail
  <2>1. jobs \in Nat /\ total \in Nat  BY DEF IInv, TypeOK, StateTypeOK
  <2>2. \A i \in 0 .. total-1 : j \notin Slice(jobs, i, total)
    BY DEF IInv, Deterministic, Assignment
  <2>3. ~(j < total * PartSize(jobs, total))
    BY <2>1, <2>2, PrefixAssigned
  <2>4. total * (jobs \div total) \in Nat  BY <2>1
  <2> QED  BY <2>1, <2>3, <2>4 DEF PartSize
<1> QED  BY <1>1, Invariance, PTL

\* No worker has two jobs more than another: jobs%total of them have one more.
THEOREM FairSizesCorrect == Spec => []FairSizes
<1>1. IInv => FairSizes
  <2> SUFFICES ASSUME IInv, total > 0 PROVE FairSizes  BY DEF FairSizes
  <2> DEFINE p == jobs \div total
             m == jobs % total
  <2>1. jobs \in Nat /\ total \in Nat /\ workloads = Assignment(jobs, total)
    BY DEF IInv, TypeOK, StateTypeOK, Deterministic
  <2>2. p \in Nat /\ m \in 0 .. total-1
    BY <2>1, DivMod DEF PartSize, ModulePartSize
  <2>3. DOMAIN workloads = 0 .. total-1  BY <2>1 DEF Assignment
  <2>4. \A i \in 0 .. total-1 :
          Cardinality(workloads[i]) = p + (IF i < m THEN 1 ELSE 0)
    BY <2>1, <2>3, SliceCount DEF Assignment, Size, PartSize, ModulePartSize
  <2> HIDE DEF p, m
  <2>5. {i \in DOMAIN workloads : Cardinality(workloads[i]) = p + 1} = 0 .. m-1
    <3>1. \A i \in 0 .. total-1 : Cardinality(workloads[i]) = p + 1 <=> i < m
      BY <2>2, <2>4
    <3>2. \A i \in Int : i \in 0 .. m-1 <=> i \in 0 .. total-1 /\ i < m
      BY <2>1, <2>2
    <3> QED  BY <2>3, <3>1, <3>2
  <2>6. Cardinality(0 .. m-1) = m  BY <2>2, WorkerCount
  <2>7. \A i \in DOMAIN workloads : Cardinality(workloads[i]) \in {p, p + 1}
    BY <2>2, <2>3, <2>4
  <2> QED  BY <2>5, <2>6, <2>7 DEF FairSizes, p, m
<1> QED  BY <1>1, Invariance, PTL

\* An even division loses no job and shares none.
THEOREM PartitionWhenEvenCorrect == Spec => []PartitionWhenEven
<1>1. IInv => PartitionWhenEven
  <2> SUFFICES ASSUME IInv, total > 0, jobs % total = 0 \/ jobs < total
               PROVE  EveryJobAssigned /\ NoJobShared
    BY DEF PartitionWhenEven, EachJobOnce
  <2> DEFINE p == PartSize(jobs, total)
  <2>1. jobs \in Nat /\ total \in Nat /\ workloads = Assignment(jobs, total)
    BY DEF IInv, TypeOK, StateTypeOK, Deterministic
  <2>2. DOMAIN workloads = 0 .. total-1  BY <2>1 DEF Assignment
  <2>3. \A i \in 0 .. total-1 : workloads[i] = Slice(jobs, i, total)
    BY <2>1 DEF Assignment
  <2>4. CASE jobs % total = 0
    <3>1. p \in Nat /\ jobs = total * p  BY <2>1, <2>4, DivMod DEF ModulePartSize
    <3>2. EveryJobAssigned
      <4> SUFFICES ASSUME NEW j \in 0 .. jobs-1
                   PROVE  \E i \in 0 .. total-1 : j \in workloads[i]
        BY <2>2 DEF EveryJobAssigned
      <4>1. j \in Nat /\ j < total * p  BY <2>1, <3>1
      <4>2. \E i \in 0 .. total-1 : j \in Slice(jobs, i, total)
        BY <2>1, <4>1, PrefixAssigned
      <4> QED  BY <2>3, <4>2
    <3>3. \A i \in 0 .. total-1 : workloads[i] = i * p .. (i + 1) * p - 1
      BY <2>1, <2>3, <2>4, EvenSlices
    <3>4. ASSUME NEW i \in 0 .. total-1, NEW k \in 0 .. total-1, i < k
          PROVE  workloads[i] \cap workloads[k] = {}
      <4>1. i + 1 <= k  BY <3>4
      <4>2. (i + 1) * p <= k * p  BY <4>1, <3>1
      <4>3. i * p \in Nat /\ (i + 1) * p \in Nat /\ k * p \in Nat /\ (k + 1) * p \in Nat
        BY <3>1
      <4> QED  BY <3>3, <4>2, <4>3
    <3>5. NoJobShared
      <4> SUFFICES ASSUME NEW i \in 0 .. total-1, NEW k \in 0 .. total-1, i # k
                   PROVE  workloads[i] \cap workloads[k] = {}
        BY <2>2 DEF NoJobShared
      <4>1. CASE i < k  BY <4>1, <3>4
      <4>2. CASE k < i  BY <4>2, <3>4
      <4> QED  BY <2>1, <4>1, <4>2
    <3> QED  BY <3>2, <3>5
  <2>5. CASE jobs < total
    <3>1. PartSize(jobs, total) = 0 /\ ModulePartSize(jobs, total) = jobs
      BY <2>1, <2>5 DEF PartSize, ModulePartSize
    <3>2. ASSUME NEW i \in 0 .. total-1
          PROVE  workloads[i] = IF i < jobs THEN {i} ELSE {}
      <4>1. CASE i < jobs
        <5>1. Size(jobs, i, total) = 1  BY <3>1, <4>1 DEF Size
        <5>2. SliceStart(jobs, i, total) = i /\ SliceEnd(jobs, i, total) = i + 1
          BY <2>1, <5>1, SliceBounds DEF SliceStart
        <5> QED  BY <2>3, <4>1, <5>2 DEF Slice
      <4>2. CASE ~(i < jobs)
        <5>1. Size(jobs, i, total) = 0  BY <3>1, <4>2 DEF Size
        <5>2. SliceStart(jobs, i, total) = 0 /\ SliceEnd(jobs, i, total) = 0
          BY <2>1, <5>1, SliceBounds DEF SliceStart
        <5> QED  BY <2>3, <4>2, <5>2 DEF Slice
      <4> QED  BY <4>1, <4>2
    <3>3. EveryJobAssigned
      <4> SUFFICES ASSUME NEW j \in 0 .. jobs-1
                   PROVE  \E i \in 0 .. total-1 : j \in workloads[i]
        BY <2>2 DEF EveryJobAssigned
      <4>1. j \in 0 .. total-1 /\ j < jobs  BY <2>1, <2>5
      <4>2. j \in workloads[j]  BY <3>2, <4>1
      <4> QED  BY <4>1, <4>2
    <3>4. NoJobShared
      BY <2>2, <3>2 DEF NoJobShared
    <3> QED  BY <3>3, <3>4
  <2> QED  BY <2>4, <2>5
<1> QED  BY <1>1, Invariance, PTL

-----------------------------------------------------------------------------
\* Workload.Equals is equality of the sets of jobs.
LEMMA WorkloadEqualsIsEquality ==
    ASSUME NEW v, NEW w
    PROVE  WorkloadEquals(v, w) <=> v = w
<1>1. CASE v = w  BY <1>1 DEF WorkloadEquals, Difference
<1>2. ASSUME WorkloadEquals(v, w) PROVE v = w
  <2>1. w \ v = {} /\ v \ w = {}  BY <1>2 DEF WorkloadEquals, Difference
  <2> QED  BY <2>1
<1> QED  BY <1>1, <1>2

\* Two associations that Equal each other are the same (pkg/config/config.go,
\* Workloads.Equals in both directions).
THEOREM EqualsBothWaysCorrect == Spec => EqualsBothWays
<1>1. ASSUME IInv, IInv'
      PROVE  WorkloadsEquals(Held, Held') /\ WorkloadsEquals(Held', Held) <=> Held = Held'
  <2>1. /\ workloads = [i \in DOMAIN workloads |-> workloads[i]]
        /\ workloads' = [i \in DOMAIN workloads' |-> workloads'[i]]
    BY <1>1 DEF IInv, Deterministic, Assignment
  <2>2. ASSUME WorkloadsEquals(Held, Held'), WorkloadsEquals(Held', Held)
        PROVE  Held = Held'
    <3>1. configVersion = configVersion'  BY <2>2 DEF WorkloadsEquals, Held
    <3>2. DOMAIN workloads = DOMAIN workloads'  BY <2>2 DEF WorkloadsEquals, Held
    <3>3. \A i \in DOMAIN workloads : workloads'[i] = workloads[i]
      BY <2>2, WorkloadEqualsIsEquality DEF WorkloadsEquals, Held
    <3>4. workloads = workloads'  BY <2>1, <3>2, <3>3
    <3> QED  BY <3>1, <3>4 DEF Held
  <2>3. ASSUME Held = Held'
        PROVE  WorkloadsEquals(Held, Held') /\ WorkloadsEquals(Held', Held)
    <3>1. Held.workloads = Held'.workloads /\ Held.version = Held'.version  BY <2>3
    <3> QED  BY <3>1, WorkloadEqualsIsEquality DEF WorkloadsEquals
  <2> QED  BY <2>2, <2>3
<1> QED  BY <1>1, Invariance, PTL DEF EqualsBothWays

\* More workers with as many jobs each have nothing left for the rest.
LEMMA NothingForTheRest ==
    ASSUME NEW q \in Nat, NEW m \in Nat, NEW n \in Nat, m < n, q * m = q * n
    PROVE  q = 0
<1>1. n = m + (n - m) /\ n - m \in Nat /\ n - m >= 1  OBVIOUS
<1>2. q * (m + (n - m)) = q * m + q * (n - m)  BY <1>1
<1>3. q * (n - m) = 0  BY <1>1, <1>2
<1>4. q # 0 => q * (n - m) > 0  BY <1>1
<1> QED  BY <1>3, <1>4

\* If the first m of n workers have what m workers would have, the other n-m
\* have nothing: the sizes of either pool add up to the number of jobs.
LEMMA SmallerPool ==
    ASSUME NEW keys \in Nat, NEW m \in Nat, NEW n \in Nat, 0 < m, m < n,
           \A k \in 0 .. m-1 : Size(keys, k, m) = Size(keys, k, n),
           NEW i \in m .. n-1
    PROVE  Size(keys, i, n) = 0
<1> DEFINE p == PartSize(keys, m)
           r == ModulePartSize(keys, m)
           q == PartSize(keys, n)
           s == ModulePartSize(keys, n)
<1>1. /\ p \in Nat /\ r \in 0 .. m-1 /\ keys = m * p + r
      /\ q \in Nat /\ s \in 0 .. n-1 /\ keys = n * q + s
  BY DivMod
<1>2. \A k \in 0 .. m-1 : p + (IF k < r THEN 1 ELSE 0) = q + (IF k < s THEN 1 ELSE 0)
  BY DEF Size
<1>3. Size(keys, i, n) = q + (IF i < s THEN 1 ELSE 0)  BY DEF Size
<1> HIDE DEF p, r, q, s
<1>4. m - 1 \in 0 .. m-1 /\ 0 \in 0 .. m-1  OBVIOUS
<1>5. p = q \/ p = q + 1
  <2>1. p = q + (IF m-1 < s THEN 1 ELSE 0)  BY <1>1, <1>2, <1>4
  <2> QED  BY <1>1, <2>1
<1>6. m * q = q * m /\ n * q = q * n /\ q * m \in Nat /\ q * n \in Nat  BY <1>1
<1>7. CASE p = q
  <2>1. s <= r
    <3>1. ~(r < s)  BY <1>1, <1>2, <1>7
    <3> QED  BY <1>1, <3>1
  <2>2. r <= s
    <3>1. CASE r = 0  BY <1>1, <3>1
    <3>2. CASE r > 0
      <4>1. r - 1 \in 0 .. m-1 /\ r - 1 < r  BY <1>1, <3>2
      <4>2. r - 1 < s  BY <1>1, <1>2, <1>7, <4>1
      <4> QED  BY <1>1, <4>2
    <3> QED  BY <1>1, <3>1, <3>2
  <2>3. q * m = q * n  BY <1>1, <1>6, <1>7, <2>1, <2>2
  <2>4. q = 0  BY <1>1, <2>3, NothingForTheRest
  <2> QED  BY <1>1, <1>3, <2>1, <2>4
<1>8. CASE p = q + 1
  <2>1. s >= m  BY <1>1, <1>2, <1>4, <1>8
  <2>2. r = 0  BY <1>1, <1>2, <1>4, <1>8
  <2>3. m * p = q * m + m  BY <1>1, <1>8
  <2>4. q * m + m = q * n + s  BY <1>1, <1>6, <2>2, <2>3
  <2>5. q * m <= q * n  BY <1>1
  <2>6. s = m /\ q * m = q * n  BY <1>1, <1>6, <2>1, <2>4, <2>5
  <2>7. q = 0  BY <1>1, <2>6, NothingForTheRest
  <2> QED  BY <1>1, <1>3, <2>6, <2>7
<1> QED  BY <1>5, <1>7, <1>8

\* Of two associations of the same jobs, if the smaller one is a part of the
\* larger one, the workers it does not have are idle in the larger one.
LEMMA IdleRest ==
    ASSUME NEW keys \in Nat, NEW m \in Nat, NEW n \in Nat, 0 < m,
           \A k \in DOMAIN Assignment(keys, m) :
             /\ k \in DOMAIN Assignment(keys, n)
             /\ Assignment(keys, n)[k] = Assignment(keys, m)[k],
           NEW i \in DOMAIN Assignment(keys, n) \ DOMAIN Assignment(keys, m)
    PROVE  Assignment(keys, n)[i] = {}
<1>1. /\ i \in 0 .. n-1 /\ i \notin 0 .. m-1
      /\ \A k \in 0 .. m-1 : k \in 0 .. n-1 /\ Slice(keys, k, n) = Slice(keys, k, m)
  BY DEF Assignment
<1>2. m < n /\ i \in m .. n-1  BY <1>1
<1>3. \A k \in 0 .. m-1 : Size(keys, k, m) = Size(keys, k, n)
  <2> SUFFICES ASSUME NEW k \in 0 .. m-1 PROVE Size(keys, k, m) = Size(keys, k, n)
    OBVIOUS
  <2> QED  BY <1>1, SliceCount
<1>4. Size(keys, i, n) = 0  BY <1>2, <1>3, SmallerPool
<1>5. SliceStart(keys, i, n) = 0 /\ SliceEnd(keys, i, n) = 0
  BY <1>1, <1>4, SliceBounds DEF SliceStart
<1> QED  BY <1>1, <1>5 DEF Assignment, Slice

\* Where Workloads.Equals, asked of an association with fewer workers, misses
\* the workers that have left, these had no jobs.
THEOREM EqualsHidesOnlyIdleCorrect == Spec => EqualsHidesOnlyIdle
<1>1. ASSUME IInv, IInv', jobs' = jobs, WorkloadsEquals(Held', Held), total' > 0
      PROVE  \A i \in DOMAIN workloads \ DOMAIN workloads' : workloads[i] = {}
  <2>1. /\ jobs \in Nat /\ total \in Nat /\ total' \in Nat
        /\ workloads = Assignment(jobs, total) /\ workloads' = Assignment(jobs, total')
    BY <1>1 DEF IInv, TypeOK, StateTypeOK, Deterministic
  <2>2. \A k \in DOMAIN workloads' : k \in DOMAIN workloads /\ workloads[k] = workloads'[k]
    BY <1>1, WorkloadEqualsIsEquality DEF WorkloadsEquals, Held
  <2>3. PICK keys \in Nat : keys = jobs  BY <2>1
  <2>4. PICK m \in Nat : m = total'  BY <2>1
  <2>5. PICK n \in Nat : n = total  BY <2>1
  <2>6. workloads = Assignment(keys, n) /\ workloads' = Assignment(keys, m) /\ 0 < m
    BY <1>1, <2>1, <2>3, <2>4, <2>5
  <2> QED  BY <2>2, <2>6, IdleRest
<1>2. [Next]_vars => jobs' = jobs
  BY DEF Next, Rebalance, BalanceWorkload, vars, stateVars
<1>3. IInv /\ IInv' /\ [Next]_vars =>
        (WorkloadsEquals(Held', Held) /\ total' > 0 =>
           \A i \in DOMAIN workloads \ DOMAIN workloads' : workloads[i] = {})
  BY <1>1, <1>2
<1> QED  BY <1>3, Invariance, PTL DEF Spec, EqualsHidesOnlyIdle
=============================================================================
