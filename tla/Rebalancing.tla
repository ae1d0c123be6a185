---------------------------- MODULE Rebalancing ----------------------------
(***************************************************************************)
(* WorkloadState under any sequence of BalanceWorkload calls.              *)
(***************************************************************************)
EXTENDS WorkloadState, Comparison

CONSTANTS
    JobCounts,   \* the lengths of job list considered
    Totals,      \* the values of totalWorkers considered
    Versions     \* the values of version considered

ASSUME JobCountsAssumption == JobCounts \subseteq Nat
ASSUME TotalsAssumption    == Totals \subseteq Nat
ASSUME VersionsAssumption  == Versions \subseteq Nat

VARIABLE total   \* history: the totalWorkers of the last call, 0 before one

vars == <<stateVars, total>>

Init == \E keys \in JobCounts : NewState(keys) /\ total = 0

Rebalance(n, v) == BalanceWorkload(n, v) /\ total' = n

Next == \E n \in Totals, v \in Versions : Rebalance(n, v)

Spec == Init /\ [][Next]_vars

-----------------------------------------------------------------------------
TypeOK == StateTypeOK /\ total \in Nat

\* Whatever calls came before, scaling up, down or to zero in any order, the
\* association held is the one a fresh state would compute for the last number
\* of workers: no entry of an earlier, larger pool survives and none is missing
\* (README: "computed many times will return the same association").  It
\* depends on cleanAssignations finding the map's keys contiguous.
Deterministic == workloads = Assignment(jobs, total)

\* The slice expression s.jobs[start:end] never panics, and the correction of
\* end never has to cut a slice short.
SlicesInRange ==
    \A i \in 0 .. total-1 :
        /\ 0 <= SliceStart(jobs, i, total)
        /\ SliceStart(jobs, i, total) <= SliceEnd(jobs, i, total)
        /\ SliceEnd(jobs, i, total) <= jobs
        /\ SliceEnd(jobs, i, total) = (i + 1) * Size(jobs, i, total)

\* Every worker is given jobs/total jobs, and exactly jobs%total of them one
\* more: the numbers add up to the number of jobs.
FairSizes ==
    total > 0 =>
        /\ \A i \in DOMAIN workloads :
             Cardinality(workloads[i]) \in {jobs \div total, jobs \div total + 1}
        /\ Cardinality({i \in DOMAIN workloads :
                          Cardinality(workloads[i]) = jobs \div total + 1})
             = jobs % total

\* Every job is some worker's.
EveryJobAssigned ==
    total > 0 => \A j \in 0 .. jobs-1 : \E i \in DOMAIN workloads : j \in workloads[i]

\* No job is given to two workers.
NoJobShared ==
    \A i, k \in DOMAIN workloads : i # k => workloads[i] \cap workloads[k] = {}

\* The association is a partition of the job list: what the operator is for
\* (README: "multiple consumers will just reprocess the same source", "the
\* operator balances all the jobs").
EachJobOnce == EveryJobAssigned /\ NoJobShared

\* When the pool size divides the number of jobs, or exceeds it, the
\* association is a partition of the job list.
PartitionWhenEven ==
    total > 0 /\ (jobs % total = 0 \/ jobs < total) =>
        EachJobOnce

\* In every case the jobs left out are a tail of the job list no longer than
\* the remainder of the division.
LostJobsAreTheTail ==
    total > 0 =>
        \A j \in 0 .. jobs-1 :
            (\A i \in DOMAIN workloads : j \notin workloads[i]) =>
                j >= total * (jobs \div total)

\* The association held, as Workloads() returns it.
Held == [workloads |-> workloads, version |-> configVersion]

\* Of two associations that follow each other, each Equals the other exactly if
\* they are the same, although one Equals alone does not look at all workers.
EqualsBothWays ==
    [][WorkloadsEquals(Held, Held') /\ WorkloadsEquals(Held', Held) <=> Held = Held']_vars

\* An association that Equals the one before it, but has fewer workers, has left
\* nobody without jobs, unless the pool has been emptied: a scaling down under
\* the old version that moves a job is never taken for no change.
EqualsHidesOnlyIdle ==
    [][WorkloadsEquals(Held', Held) /\ total' > 0 =>
         \A i \in DOMAIN workloads \ DOMAIN workloads' : workloads[i] = {}]_vars
=============================================================================
