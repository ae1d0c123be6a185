--------------------------- MODULE WorkloadState ---------------------------
(***************************************************************************)
(* The state component of the controller (app/swarm/state.go): the last    *)
(* computed assignment of jobs to workers and its version.                 *)
(*                                                                         *)
(* jobs           len(s.jobs), fixed by NewState                           *)
(* workloads      s.config.Workloads, a map from worker ordinal to jobs    *)
(* configVersion  s.config.Version                                         *)
(*                                                                         *)
(* BalanceWorkload runs under s.mutex, so a call is one step.  Rebalancing *)
(* makes the component a specification of its own; WorkerPool calls it.    *)
(***************************************************************************)
EXTENDS Balance, FiniteSets

VARIABLES jobs, workloads, configVersion

stateVars == <<jobs, workloads, configVersion>>

\* The variables hold values of the kinds the Go fields hold.
StateTypeOK ==
    /\ jobs \in Nat
    /\ DOMAIN workloads \subseteq Nat
    /\ \A i \in DOMAIN workloads : workloads[i] \subseteq 0 .. jobs-1
    /\ configVersion \in Nat

-----------------------------------------------------------------------------
\* Faulty variant: the loop forgets the last worker of the map.
CleanAllButLast(w, n) ==
    [i \in DOMAIN w \ (n .. Cardinality(DOMAIN w) - 2) |-> w[i]]

\* Deletes the entries n .. orgSize-1, orgSize being the size of the map.
CleanAssignations(w, n) ==
    [i \in DOMAIN w \ (n .. Cardinality(DOMAIN w) - 1) |-> w[i]]

\* The loop of BalanceWorkload: entries 0 .. n-1 are overwritten, the others kept.
Overwritten(w, n) ==
    [i \in DOMAIN w \cup 0 .. n-1 |->
        IF i \in 0 .. n-1 THEN Slice(jobs, i, n) ELSE w[i]]

Balanced(w, n) ==
    LET over == Overwritten(w, n)
    IN  IF n = 0 THEN CleanAssignations(w, 0)
        ELSE IF n < Cardinality(DOMAIN over) THEN CleanAssignations(over, n)
        ELSE over

\* Faulty variant: the version is not stored.
BalanceWorkloadUnversioned(totalWorkers, version) ==
    /\ workloads' = Balanced(workloads, totalWorkers)
    /\ UNCHANGED <<jobs, configVersion>>

\* With totalWorkers = 0 the call returns before the version is set.
BalanceWorkload(totalWorkers, version) ==
    /\ workloads' = Balanced(workloads, totalWorkers)
    /\ configVersion' = IF totalWorkers = 0 THEN configVersion ELSE version
    /\ UNCHANGED jobs

\* NewState, for a job list of length keys.
NewState(keys) ==
    /\ jobs = keys
    /\ workloads = [i \in {} |-> {}]
    /\ configVersion = 0
=============================================================================
