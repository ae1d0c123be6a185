------------------------------ MODULE Balance ------------------------------
(***************************************************************************)
(* The arithmetic of state.BalanceWorkload (app/swarm/state.go): how the   *)
(* job list is cut into one slice per worker.                              *)
(*                                                                         *)
(* The job list is abstracted to its length: a job is its position in      *)
(* s.jobs, 0 .. keys-1, and the Go slice s.jobs[start:end] is the set of   *)
(* positions start .. end-1.  Worker "<setName>-<i>" is its ordinal i, the *)
(* name being an injective function of i.                                  *)
(***************************************************************************)
EXTENDS Integers

PartSize(keys, n) == keys \div n

ModulePartSize(keys, n) == keys % n

\* Faulty variant: the comparison lets one worker too many take an extra job.
SizeOffByOne(keys, i, n) ==
    PartSize(keys, n) + (IF i <= ModulePartSize(keys, n) THEN 1 ELSE 0)

\* The number of jobs worker i of n is given.
Size(keys, i, n) ==
    PartSize(keys, n) + (IF i < ModulePartSize(keys, n) THEN 1 ELSE 0)

\* Faulty variant: a slice starts after its first job.
SliceStartOffByOne(keys, i, n) == i * Size(keys, i, n) + 1

SliceStart(keys, i, n) == i * Size(keys, i, n)

\* Faulty variant: the bound is the start of the slice after the next one.
SliceEndTooFar(keys, i, n) == (i + 2) * Size(keys, i, n)

SliceEnd(keys, i, n) ==
    LET end == (i + 1) * Size(keys, i, n)
    IN  IF end > keys THEN keys ELSE end

\* The jobs of worker i of n: s.jobs[start:end].
Slice(keys, i, n) == SliceStart(keys, i, n) .. SliceEnd(keys, i, n) - 1

\* The association BalanceWorkload stands for: a function of the number of
\* jobs and of workers alone.
Assignment(keys, n) == [i \in 0 .. n-1 |-> Slice(keys, i, n)]
=============================================================================
