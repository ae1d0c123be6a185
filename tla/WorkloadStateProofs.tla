------------------------ MODULE WorkloadStateProofs ------------------------
(* What the arithmetic of BalanceWorkload guarantees, for every job list   *)
(* and every number of workers, and what a call does to the map it keeps.  *)
EXTENDS WorkloadState, FiniteSetTheorems, TLAPS

\* Go's / and % on non-negative integers: the parts and the remainder add up.
LEMMA DivMod ==
    ASSUME NEW keys \in Nat, NEW n \in Nat, n > 0
    PROVE  /\ PartSize(keys, n) \in Nat
           /\ ModulePartSize(keys, n) \in 0 .. n-1
           /\ keys = n * PartSize(keys, n) + ModulePartSize(keys, n)
BY DEF PartSize, ModulePartSize

\* The part of the list a job is in, when it is cut into parts of d jobs.
LEMMA PartOf ==
    ASSUME NEW j \in Nat, NEW d \in Nat, d > 0
    PROVE  /\ j \div d \in Nat
           /\ (j \div d) * d <= j
           /\ j < (j \div d) * d + d
<1>1. j \div d \in Nat /\ j % d \in 0 .. d-1 /\ j = d * (j \div d) + (j % d)
  OBVIOUS
<1>2. d * (j \div d) = (j \div d) * d  BY <1>1
<1> QED  BY <1>1, <1>2

\* The slice of every worker lies inside the job list (s.jobs[start:end] does
\* not panic) and holds Size jobs: the correction of `end' never cuts it short.
LEMMA SliceBounds ==
    ASSUME NEW keys \in Nat, NEW n \in Nat, NEW i \in 0 .. n-1
    PROVE  /\ SliceStart(keys, i, n) \in Nat
           /\ SliceEnd(keys, i, n) \in Nat
           /\ SliceEnd(keys, i, n) = (i + 1) * Size(keys, i, n)
           /\ SliceStart(keys, i, n) <= SliceEnd(keys, i, n)
           /\ SliceEnd(keys, i, n) <= keys
           /\ Slice(keys, i, n) \subseteq 0 .. keys-1
<1> DEFINE p == PartSize(keys, n)
           m == ModulePartSize(keys, n)
<1>1. p \in Nat /\ m \in 0 .. n-1 /\ keys = n * p + m
  BY DivMod
<1>2. (i + 1) * p <= n * p
  <2>1. i + 1 <= n  OBVIOUS
  <2> QED  BY <2>1, <1>1
<1>3. Size(keys, i, n) \in Nat /\ (i + 1) * Size(keys, i, n) <= keys
  <2>1. CASE i < m
    <3>1. Size(keys, i, n) = p + 1  BY <2>1, <1>1 DEF Size
    <3>2. (i + 1) * (p + 1) = (i + 1) * p + i + 1  BY <1>1
    <3> QED  BY <3>1, <3>2, <2>1, <1>1, <1>2
  <2>2. CASE ~(i < m)
    <3>1. Size(keys, i, n) = p  BY <2>2, <1>1 DEF Size
    <3> QED  BY <3>1, <1>1, <1>2
  <2> QED  BY <2>1, <2>2
<1>4. (i + 1) * Size(keys, i, n) = i * Size(keys, i, n) + Size(keys, i, n)
  BY <1>3
<1>5. i * Size(keys, i, n) \in Nat  BY <1>3
<1>6. SliceEnd(keys, i, n) = (i + 1) * Size(keys, i, n)
  BY <1>3, <1>4, <1>5 DEF SliceEnd
<1> QED  BY <1>3, <1>4, <1>5, <1>6 DEF SliceStart, Slice

\* When the workers share the jobs out evenly, the slices are consecutive.
LEMMA EvenSlices ==
    ASSUME NEW keys \in Nat, NEW n \in Nat, n > 0, keys % n = 0,
           NEW i \in 0 .. n-1
    PROVE  Slice(keys, i, n) = i * PartSize(keys, n) .. (i + 1) * PartSize(keys, n) - 1
<1>1. ModulePartSize(keys, n) = 0 /\ PartSize(keys, n) \in Nat
  BY DivMod DEF ModulePartSize
<1>2. Size(keys, i, n) = PartSize(keys, n)
  BY <1>1 DEF Size
<1> QED  BY <1>2, SliceBounds DEF Slice, SliceStart

\* Every job below n * PartSize is in some worker's slice: what BalanceWorkload
\* loses is a tail of the list, shorter than the number of workers.
LEMMA PrefixAssigned ==
    ASSUME NEW keys \in Nat, NEW n \in Nat, n > 0,
           NEW j \in Nat, j < n * PartSize(keys, n)
    PROVE  \E i \in 0 .. n-1 : j \in Slice(keys, i, n)
<1> DEFINE p == PartSize(keys, n)
           m == ModulePartSize(keys, n)
<1>1. p \in Nat /\ m \in 0 .. n-1 /\ keys = n * p + m
  BY DivMod
<1>2. p > 0
  <2>1. p = 0 => n * p = 0  BY <1>1
  <2> QED  BY <2>1, <1>1
<1>3. CASE j < m * (p + 1)
  <2> DEFINE i == j \div (p + 1)
  <2>1. i \in Nat /\ i * (p + 1) <= j /\ j < i * (p + 1) + (p + 1)
    BY <1>1, PartOf
  <2>2. i < m
    <3>1. m <= i => m * (p + 1) <= i * (p + 1)  BY <1>1, <2>1
    <3> QED  BY <3>1, <1>1, <1>3, <2>1
  <2>3. Size(keys, i, n) = p + 1  BY <2>2, <1>1 DEF Size
  <2>4. i \in 0 .. n-1  BY <2>1, <2>2, <1>1
  <2>5. (i + 1) * (p + 1) = i * (p + 1) + (p + 1)  BY <1>1, <2>1
  <2>6. j \in Slice(keys, i, n)
    BY <2>1, <2>3, <2>4, <2>5, SliceBounds DEF Slice, SliceStart
  <2> QED  BY <2>4, <2>6
<1>4. CASE ~(j < m * (p + 1))
  <2> DEFINE i == j \div p
  <2>1. i \in Nat /\ i * p <= j /\ j < i * p + p
    BY <1>1, <1>2, PartOf
  <2>2. i < n
    <3>1. n <= i => n * p <= i * p  BY <1>1, <2>1
    <3> QED  BY <3>1, <1>1, <2>1
  <2>3. ~(i < m)
    <3>1. i < m => (i + 1) * p <= m * p  BY <1>1, <2>1
    <3>2. (i + 1) * p = i * p + p  BY <1>1, <2>1
    <3>3. m * (p + 1) = m * p + m  BY <1>1
    <3> QED  BY <3>1, <3>2, <3>3, <1>1, <1>4, <2>1
  <2>4. Size(keys, i, n) = p  BY <2>3, <1>1, <2>1 DEF Size
  <2>5. i \in 0 .. n-1  BY <2>1, <2>2
  <2>6. (i + 1) * p = i * p + p  BY <1>1, <2>1
  <2>7. j \in Slice(keys, i, n)
    BY <2>1, <2>4, <2>5, <2>6, SliceBounds DEF Slice, SliceStart
  <2> QED  BY <2>5, <2>7
<1> QED  BY <1>3, <1>4

-----------------------------------------------------------------------------
LEMMA WorkerCount ==
    ASSUME NEW n \in Nat
    PROVE  Cardinality(0 .. n-1) = n
<1>1. Cardinality(0 .. n-1) = IF 0 > n-1 THEN 0 ELSE n-1-0+1
  BY FS_Interval
<1> QED  BY <1>1

\* cleanAssignations finds every entry to delete, because the keys of the map
\* are always the first ordinals: whatever the size m before, the map after a
\* call is the one a fresh state would compute.
LEMMA BalancedIsAssignment ==
    ASSUME jobs \in Nat, NEW m \in Nat, NEW n \in Nat
    PROVE  Balanced(Assignment(jobs, m), n) = Assignment(jobs, n)
<1> DEFINE w == Assignment(jobs, m)
           over == Overwritten(w, n)
<1>1. DOMAIN w = 0 .. m-1  BY DEF Assignment
<1>2. CASE n = 0
  <2>1. Balanced(w, n) = [i \in DOMAIN w \ (0 .. m-1) |-> w[i]]
    BY <1>1, <1>2, WorkerCount DEF Balanced, CleanAssignations
  <2>2. DOMAIN w \ (0 .. m-1) = 0 .. n-1  BY <1>1, <1>2
  <2> QED  BY <1>1, <2>1, <2>2 DEF Assignment
<1>3. CASE n > 0 /\ n < m
  <2>1. DOMAIN over = 0 .. m-1  BY <1>1, <1>3 DEF Overwritten
  <2>2. Balanced(w, n) = [i \in DOMAIN over \ (n .. m-1) |-> over[i]]
    BY <1>3, <2>1, WorkerCount DEF Balanced, CleanAssignations
  <2>3. DOMAIN over \ (n .. m-1) = 0 .. n-1  BY <1>3, <2>1
  <2>4. \A i \in 0 .. n-1 : over[i] = Slice(jobs, i, n)
    BY <1>1, <1>3 DEF Overwritten
  <2> QED  BY <2>2, <2>3, <2>4 DEF Assignment
<1>4. CASE n > 0 /\ n >= m
  <2>1. DOMAIN w \cup 0 .. n-1 = 0 .. n-1  BY <1>1, <1>4
  <2>2. over = Assignment(jobs, n)  BY <2>1 DEF Overwritten, Assignment
  <2>3. Cardinality(DOMAIN over) = n  BY <2>2, WorkerCount DEF Assignment
  <2> QED  BY <1>4, <2>2, <2>3 DEF Balanced
<1> QED  BY <1>2, <1>3, <1>4

LEMMA AssignmentType ==
    ASSUME NEW keys \in Nat, NEW n \in Nat
    PROVE  /\ DOMAIN Assignment(keys, n) \subseteq Nat
           /\ \A i \in DOMAIN Assignment(keys, n) :
                Assignment(keys, n)[i] \subseteq 0 .. keys-1
BY SliceBounds DEF Assignment

LEMMA IntervalCount ==
    ASSUME NEW a \in Nat, NEW b \in Nat, a <= b
    PROVE  Cardinality(a .. b-1) = b - a
<1>1. Cardinality(a .. b-1) = IF a > b-1 THEN 0 ELSE b-1-a+1
  BY FS_Interval
<1> QED  BY <1>1

LEMMA SliceCount ==
    ASSUME NEW keys \in Nat, NEW n \in Nat, NEW i \in 0 .. n-1
    PROVE  Cardinality(Slice(keys, i, n)) = Size(keys, i, n)
<1>1. PartSize(keys, n) \in Nat /\ ModulePartSize(keys, n) \in Nat
  BY DivMod
<1>2. Size(keys, i, n) \in Nat  BY <1>1 DEF Size
<1>3. (i + 1) * Size(keys, i, n) = i * Size(keys, i, n) + Size(keys, i, n)
  BY <1>2
<1>4. /\ SliceStart(keys, i, n) \in Nat /\ SliceEnd(keys, i, n) \in Nat
      /\ SliceEnd(keys, i, n) = SliceStart(keys, i, n) + Size(keys, i, n)
  BY <1>3, SliceBounds DEF SliceStart
<1>5. Cardinality(Slice(keys, i, n)) = SliceEnd(keys, i, n) - SliceStart(keys, i, n)
  BY <1>2, <1>4, IntervalCount DEF Slice
<1> QED  BY <1>2, <1>4, <1>5
=============================================================================
