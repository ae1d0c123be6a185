---------------------------- MODULE SwarmResource ----------------------------
(***************************************************************************)
(* The Swarm resource in the API server (external, seen through the typed  *)
(* client of generated/clientset) and the Set of operator/crd/provider.go  *)
(* that writes it: Get, initializeCRD if that fails, Update.  WorkerPool   *)
(* takes the whole of Set as one step; here it is one step per request.    *)
(*                                                                         *)
(* Two controllers may write: k8s/controller.yaml is a Deployment, which   *)
(* starts the new one before the old one is gone, and the external command *)
(* runs beside both.  Other clients delete the resource or set its status  *)
(* at any moment.                                                          *)
(***************************************************************************)
EXTENDS Integers, Sequences, FiniteSets, Functions

CONSTANTS
    Controllers,
    Associations,   \* the Workloads values Set is called with
    MayCreate,      \* TRUE: Swarms may be created (k8s/rbac.yaml gives no such right)
    Faults,         \* TRUE: requests may be refused and answers lost
    MaxRevision     \* bound: writes to the API server

ASSUME AssociationsAssumption ==
    \A a \in Associations :
        /\ a.version \in Nat \ {0}
        /\ IsFiniteSet(DOMAIN a.workloads)
        /\ a = [version |-> a.version,
                workloads |-> [n \in DOMAIN a.workloads |-> a.workloads[n]]]
ASSUME MaxRevisionAssumption == MaxRevision \in Nat
ASSUME SwitchesAssumption == MayCreate \in BOOLEAN /\ Faults \in BOOLEAN

VARIABLES
    swarm,      \* the stored object
    revision,   \* the API server's revision, the resourceVersion of its last write
    sets        \* per controller, its call of Set

vars == <<swarm, revision, sets>>

-----------------------------------------------------------------------------
Phases == {"", "PENDING", "RUNNING", "DONE"}

EmptySpec == [version |-> 0, size |-> 0, members |-> <<>>]

\* resourceVersion 0 is that of an object never stored; metadata and the times
\* of creation are left out.
NoSwarm == [resourceVersion |-> 0, spec |-> EmptySpec, status |-> ""]
Exists == swarm.resourceVersion # 0

\* Its State is always RUNNING.
Member(name, jobs) == [name |-> name, jobs |-> jobs]

\* The spec Set makes of an association: a member per worker, in the order in
\* which range happens to visit the map.
Specs(a) ==
    LET n == Cardinality(DOMAIN a.workloads) IN
    {[version |-> a.version, size |-> n,
      members |-> [k \in 1 .. n |-> Member(p[k], a.workloads[p[k]])]]
        : p \in Bijection(1 .. n, DOMAIN a.workloads)}

\* decode: of members with one name the last counts.
Decode(spec) ==
    LET Named(n) == {k \in DOMAIN spec.members : spec.members[k].name = n}
    IN  [version   |-> spec.version,
         workloads |-> [n \in {spec.members[k].name : k \in DOMAIN spec.members} |->
             spec.members[CHOOSE k \in Named(n) : \A j \in Named(n) : j <= k].jobs]]

\* What the resource shows when there is none, and when it is just created.
NoAssociation == Decode(EmptySpec)

Init ==
    /\ swarm = NoSwarm
    /\ revision = 0
    /\ sets = [c \in Controllers |->
         [step |-> "idle", want |-> NoAssociation, sw |-> NoSwarm, result |-> "ok"]]

-----------------------------------------------------------------------------
\* A write takes the next revision.
Store(spec, status) ==
    /\ revision < MaxRevision
    /\ revision' = revision + 1
    /\ swarm' = [resourceVersion |-> revision + 1, spec |-> spec, status |-> status]

\* The API server applies a PUT of an object only to the version it was made
\* from: otherwise it answers NotFound or Conflict.
Current(sw) == Exists /\ swarm.resourceVersion = sw.resourceVersion

\* The requests of the typed client that reach the object: Create, Update, and
\* UpdateStatus or a Patch of that subresource.  An Update leaves the status alone.
Post(spec) == MayCreate /\ ~Exists /\ Store(spec, "")
Put(sw, spec) == Current(sw) /\ Store(spec, swarm.status)
PutStatus(phase) == Exists /\ Store(swarm.spec, phase)

\* A call of Set goes on with the object a request has answered.
Reads(c, sw) == sets' = [sets EXCEPT ![c].step = "update", ![c].sw = sw]

Returns(c, result) ==
    sets' = [sets EXCEPT ![c].step = "idle", ![c].result = result]

Fails(c) == Returns(c, "error") /\ UNCHANGED <<swarm, revision>>

Set(c, a) ==
    /\ sets[c].step = "idle"
    /\ sets' = [sets EXCEPT ![c] = [step |-> "get", want |-> a, sw |-> NoSwarm, result |-> "none"]]
    /\ UNCHANGED <<swarm, revision>>

\* Get.  Any StatusError, NotFound or not, leads to initializeCRD; an error of
\* the transport ends Set.
Get(c) ==
    /\ sets[c].step = "get"
    /\ \/ Exists /\ Reads(c, swarm) /\ UNCHANGED <<swarm, revision>>
       \/ /\ ~Exists \/ Faults
          /\ sets' = [sets EXCEPT ![c].step = "create"]
          /\ UNCHANGED <<swarm, revision>>
       \/ Faults /\ Fails(c)

\* Faulty variant: an object that exists is replaced.
CreateOrReplace(c) ==
    /\ sets[c].step = "create"
    /\ Store(EmptySpec, "")
    /\ Reads(c, swarm')

\* initializeCRD: Create fails if the object exists or the right is missing.
Create(c) ==
    /\ sets[c].step = "create"
    /\ \/ /\ Post(EmptySpec)
          /\ Reads(c, swarm') \/ (Faults /\ Returns(c, "error"))
       \/ (Exists \/ ~MayCreate \/ Faults) /\ Fails(c)

\* Faulty variant: the PUT is made with whatever resourceVersion is there.
UpdateForced(c) ==
    /\ sets[c].step = "update"
    /\ \/ /\ Exists
          /\ \E spec \in Specs(sets[c].want) : Store(spec, swarm.status)
          /\ Returns(c, "ok")
       \/ ~Exists /\ Fails(c)

\* Faulty variant: the error of Update is dropped.
UpdateUnchecked(c) ==
    /\ sets[c].step = "update"
    /\ IF Current(sets[c].sw)
       THEN \E spec \in Specs(sets[c].want) : Store(spec, swarm.status)
       ELSE UNCHANGED <<swarm, revision>>
    /\ Returns(c, "ok")

\* Update: the object read is sent with a new spec.  A conflict is not retried.
Update(c) ==
    /\ sets[c].step = "update"
    /\ \/ /\ \E spec \in Specs(sets[c].want) : Put(sets[c].sw, spec)
          /\ Returns(c, "ok") \/ (Faults /\ Returns(c, "error"))
       \/ (~Current(sets[c].sw) \/ Faults) /\ Fails(c)

\* The controller's process ends in the middle of a call.
Crash(c) == sets[c].step # "idle" /\ Fails(c)

-----------------------------------------------------------------------------
\* Faulty variant: a phase types.go does not have.
UpdateStatusUnknown ==
    /\ Exists
    /\ Store(swarm.spec, "FAILED")
    /\ UNCHANGED sets

\* Other clients: UpdateStatus or Patch of the status, Delete or
\* DeleteCollection.
UpdateStatus ==
    /\ \E phase \in Phases \ {swarm.status} : PutStatus(phase)
    /\ UNCHANGED sets

DeleteSwarm ==
    /\ Exists
    /\ swarm' = NoSwarm
    /\ UNCHANGED <<revision, sets>>

Step(c) == Get(c) \/ Create(c) \/ Update(c) \/ Crash(c)

Next ==
    \/ \E c \in Controllers : Step(c) \/ \E a \in Associations : Set(c, a)
    \/ UpdateStatus
    \/ DeleteSwarm

Spec == Init /\ [][Next]_vars

-----------------------------------------------------------------------------
\* What may be stored: the empty spec, or one made of an association.
StoredSpecs == {EmptySpec} \cup UNION {Specs(a) : a \in Associations}
Objects == [resourceVersion : 0 .. revision, spec : StoredSpecs, status : Phases]
Calls == [step   : {"idle", "get", "create", "update"},
          want   : Associations \cup {NoAssociation},
          sw     : Objects,
          result : {"none", "ok", "error"}]

\* The stored object and the copies read of it are made of one association each
\* and carry no revision the server has not reached.
TypeOK ==
    /\ revision \in 0 .. MaxRevision
    /\ swarm \in Objects
    /\ sets \in [Controllers -> Calls]

\* No Set replaces what it has not read: if the association changes while a call
\* is under way, by the other controller, by deletion and creation, or by its
\* own initializeCRD, the call that loses the race changes nothing.
Overwrites(c) ==
    sets[c].step = "update" /\ swarm'.spec # swarm.spec /\ sets'[c] # sets[c] =>
        sets[c].sw = swarm

NoLostUpdate == [][\A c \in Controllers : Overwrites(c)]_vars

\* An association that is there is never taken back to the empty one by a
\* controller that believes there is none: only deletion does that.
NotReinitialised == [][swarm.spec # EmptySpec /\ swarm'.spec = EmptySpec => swarm' = NoSwarm]_vars

\* Set looks atomic to every caller and reader, although it is three requests
\* that interleave with those of others.
Register == INSTANCE AssociationRegister WITH
    Callers <- Controllers,
    Nothing <- NoAssociation,
    value   <- Decode(swarm.spec),
    calls   <- [c \in Controllers |-> [want |-> sets[c].want, result |-> sets[c].result]]

SetIsAtomic == Register!Spec
=============================================================================
