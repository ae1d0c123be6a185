----------------------------- MODULE Comparison -----------------------------
(***************************************************************************)
(* Comparing assignments (pkg/config/config.go).  A Workload is the set of *)
(* its jobs, which the controller takes from a list without repetitions.   *)
(***************************************************************************)
EXTENDS FiniteSets

\* Workload.Difference; toMap makes sets of both lists.
Difference(jobs, newJobs) == [included |-> newJobs \ jobs, excluded |-> jobs \ newJobs]

\* Workload.Equals, jobsEquals.
WorkloadEquals(jobs, theirs) ==
    /\ Cardinality(jobs) = Cardinality(theirs)
    /\ Difference(jobs, theirs) = [included |-> {}, excluded |-> {}]

\* Faulty variant: the versions are not compared.
WorkloadsEqualsUnversioned(a, asg) ==
    \A s \in DOMAIN a.workloads :
        s \in DOMAIN asg.workloads /\ WorkloadEquals(asg.workloads[s], a.workloads[s])

\* Faulty variant: only the names of the workers are compared.
WorkloadsEqualsNames(a, asg) ==
    asg.version = a.version /\ DOMAIN a.workloads \subseteq DOMAIN asg.workloads

\* Workloads.Equals looks at the workers of the receiver only.
WorkloadsEquals(a, asg) ==
    /\ asg.version = a.version
    /\ \A s \in DOMAIN a.workloads :
         s \in DOMAIN asg.workloads /\ WorkloadEquals(asg.workloads[s], a.workloads[s])
=============================================================================
