------------------------- MODULE SwarmResourceProofs -------------------------
(***************************************************************************)
(* Proofs about SwarmResource, for any number of controllers, any          *)
(* associations and any number of writes.                                  *)
(*                                                                         *)
(* The inductive invariant adds to the types that a revision identifies    *)
(* what was stored under it (Versions), and that a call has no result      *)
(* while it is under way (InCall).                                         *)
(***************************************************************************)
EXTENDS SwarmResource, FiniteSetTheorems, TLAPS

Versions ==
    /\ ~Exists => swarm = NoSwarm
    /\ \A c \in Controllers :
         sets[c].step = "update" /\ Current(sets[c].sw) => sets[c].sw = swarm

InCall ==
    \A c \in Controllers :
        /\ sets[c].result = "none" <=> sets[c].step # "idle"
        /\ sets[c].step # "idle" => sets[c].want \in Associations

IInv == TypeOK /\ Versions /\ InCall

USE MaxRevisionAssumption, SwitchesAssumption

-----------------------------------------------------------------------------
\* Whatever order range visits the map in, decode gives back the association
\* the spec was made from.
THEOREM DecodeSpecs ==
    ASSUME NEW a \in Associations, NEW s \in Specs(a)
    PROVE  Decode(s) = a
<1> DEFINE D == DOMAIN a.workloads
           n == Cardinality(D)
<1>1. IsFiniteSet(D)  BY AssociationsAssumption
<1>2. n \in Nat  BY <1>1, FS_CardinalityType
<1>3. PICK p \in Bijection(1 .. n, D) :
        s = [version |-> a.version, size |-> n,
             members |-> [k \in 1 .. n |-> [name |-> p[k], jobs |-> a.workloads[p[k]]]]]
  BY DEF Specs, Member
<1>4. /\ p \in [1 .. n -> D]
      /\ \A j, k \in 1 .. n : p[j] = p[k] => j = k
      /\ \A d \in D : \E k \in 1 .. n : p[k] = d
  BY <1>3 DEF Bijection, Injection, IsInjective, Surjection
<1>5. /\ DOMAIN s.members = 1 .. n
      /\ \A k \in 1 .. n : s.members[k].name = p[k] /\ s.members[k].jobs = a.workloads[p[k]]
  BY <1>3
<1>6. {s.members[k].name : k \in DOMAIN s.members} = D  BY <1>4, <1>5
<1> DEFINE Named(d) == {k \in DOMAIN s.members : s.members[k].name = d}
           last(d) == CHOOSE k \in Named(d) : \A j \in Named(d) : j <= k
<1>7. ASSUME NEW d \in D PROVE s.members[last(d)].jobs = a.workloads[d]
  <2>1. PICK k \in 1 .. n : p[k] = d  BY <1>4
  <2>2. Named(d) = {k}  BY <2>1, <1>4, <1>5
  <2>3. last(d) = k  BY <2>2, <1>2
  <2> QED  BY <2>1, <2>3, <1>5
<1> DEFINE names == {s.members[k].name : k \in DOMAIN s.members}
           f == [d \in names |-> s.members[last(d)].jobs]
<1>8. Decode(s).workloads = [d \in D |-> a.workloads[d]]
  <2>1. Decode(s).workloads = f  BY DEF Decode
  <2>2. names = D  BY <1>6
  <2> HIDE DEF last, names
  <2>3. f = [d \in D |-> a.workloads[d]]  BY <2>2, <1>7
  <2> QED  BY <2>1, <2>3
<1>9. Decode(s).version = a.version  BY <1>3 DEF Decode
<1>10. Decode(s) = [version |-> Decode(s).version, workloads |-> Decode(s).workloads]
  BY DEF Decode
<1> QED  BY <1>8, <1>9, <1>10, AssociationsAssumption

LEMMA StoreType ==
    ASSUME TypeOK, NEW spec \in StoredSpecs, NEW status \in Phases, Store(spec, status)
    PROVE  /\ revision' \in 0 .. MaxRevision /\ revision' = revision + 1
           /\ swarm' \in Objects' /\ swarm'.resourceVersion = revision + 1
           /\ Objects \subseteq Objects'
<1>1. revision' \in 0 .. MaxRevision /\ revision' = revision + 1
  BY DEF TypeOK, Store
<1>2. revision + 1 \in 0 .. revision'  BY <1>1
<1> QED  BY <1>1, <1>2 DEF Store, TypeOK, Objects, StoredSpecs

\* A write under a new revision leaves every copy read before it out of date.
LEMMA StoreInvariant ==
    ASSUME IInv, NEW spec \in StoredSpecs, NEW status \in Phases, Store(spec, status),
           NEW c \in Controllers, sets[c].step # "idle",
           NEW step \in {"idle", "update"}, NEW sw \in {sets[c].sw, swarm'},
           NEW result \in {"none", "ok", "error"}, result = "none" <=> step # "idle",
           step = "update" => sw = swarm',
           sets' = [sets EXCEPT ![c].step = step, ![c].sw = sw, ![c].result = result]
    PROVE  IInv'
<1>1. /\ revision' \in 0 .. MaxRevision /\ revision' = revision + 1
      /\ swarm' \in Objects' /\ swarm'.resourceVersion = revision + 1
      /\ Objects \subseteq Objects'
  BY StoreType DEF IInv
<1>2. TypeOK'
  <2>1. Calls \subseteq Calls' /\ sets[c].sw \in Objects'  BY <1>1 DEF IInv, TypeOK, Calls
  <2>2. sets[c] \in Calls /\ sw \in Objects'  BY <1>1, <2>1 DEF IInv, TypeOK
  <2>3. sets'[c] = [step |-> step, want |-> sets[c].want, sw |-> sw, result |-> result]
    BY <2>2 DEF IInv, TypeOK, Calls
  <2>4. sets'[c] \in Calls'  BY <2>2, <2>3 DEF Calls
  <2> QED  BY <1>1, <2>1, <2>4 DEF IInv, TypeOK
<1>3. Versions'
  <2>1. ASSUME NEW d \in Controllers, sets'[d].step = "update", Current(sets[d].sw)'
        PROVE  sets'[d].sw = swarm'
    <3>1. CASE d = c  BY <3>1, <2>1 DEF IInv, TypeOK
    <3>2. CASE d # c
      <4>1. sets'[d] = sets[d] /\ sets[d].sw.resourceVersion \in 0 .. revision
        BY <3>2 DEF IInv, TypeOK, Calls, Objects
      <4> QED  BY <4>1, <2>1, <1>1 DEF Current, IInv, TypeOK
    <3> QED  BY <3>1, <3>2
  <2>2. Exists'  BY <1>1 DEF Exists, IInv, TypeOK
  <2> QED  BY <2>1, <2>2 DEF Versions, Current
<1>4. InCall'  BY DEF InCall, IInv, TypeOK
<1> QED  BY <1>2, <1>3, <1>4 DEF IInv

LEMMA FailsInvariant ==
    ASSUME IInv, NEW c \in Controllers, sets[c].step # "idle", Fails(c)
    PROVE  IInv'
<1>1. TypeOK'
  <2>1. Calls' = Calls /\ Objects' = Objects  BY DEF Fails, Calls, Objects
  <2>2. sets'[c] \in Calls  BY DEF IInv, TypeOK, Fails, Returns, Calls
  <2> QED  BY <2>1, <2>2 DEF IInv, TypeOK, Fails, Returns
<1>2. Versions'  BY DEF IInv, TypeOK, Versions, Fails, Returns, Current, Exists
<1>3. InCall'  BY DEF IInv, TypeOK, InCall, Fails, Returns
<1> QED  BY <1>1, <1>2, <1>3 DEF IInv

-----------------------------------------------------------------------------
LEMMA InitInvariant == Init => IInv
<1> SUFFICES ASSUME Init PROVE IInv  OBVIOUS
<1>1. TypeOK
  <2>1. 0 \in 0 .. revision  BY DEF Init
  <2>2. NoSwarm \in Objects  BY <2>1 DEF Objects, StoredSpecs, NoSwarm, Phases
  <2> QED  BY <2>2 DEF Init, TypeOK, Calls
<1>2. Versions  BY DEF Init, Versions
<1>3. InCall  BY DEF Init, InCall
<1> QED  BY <1>1, <1>2, <1>3 DEF IInv

LEMMA SetInvariant ==
    ASSUME IInv, NEW c \in Controllers, NEW a \in Associations, Set(c, a)
    PROVE  IInv'
<1>1. NoSwarm \in Objects
  <2>1. 0 \in 0 .. revision  BY DEF IInv, TypeOK
  <2> QED  BY <2>1 DEF Objects, StoredSpecs, NoSwarm, Phases
<1>2. TypeOK'
  <2>1. Calls' = Calls /\ Objects' = Objects  BY DEF Set, Calls, Objects
  <2>2. sets'[c] \in Calls  BY <1>1 DEF IInv, TypeOK, Set, Calls
  <2> QED  BY <2>1, <2>2 DEF IInv, TypeOK, Set
<1>3. Versions'  BY DEF IInv, TypeOK, Versions, Set, Current, Exists
<1>4. InCall'  BY DEF IInv, TypeOK, InCall, Set
<1> QED  BY <1>2, <1>3, <1>4 DEF IInv

LEMMA GetInvariant ==
    ASSUME IInv, NEW c \in Controllers, Get(c)
    PROVE  IInv'
<1>1. CASE Fails(c)  BY <1>1, FailsInvariant DEF Get, Reads
<1>2. CASE UNCHANGED <<swarm, revision>> /\ ~Fails(c)
  <2>1. sets[c].step = "get" /\ sets[c].result = "none" /\ sets[c].want \in Associations
    BY DEF Get, Reads, IInv, InCall
  <2>2. PICK step \in {"update", "create"}, sw \in {swarm, sets[c].sw} :
          /\ step = "update" => sw = swarm
          /\ sets' = [sets EXCEPT ![c].step = step, ![c].sw = sw]
    <3>1. CASE sets' = [sets EXCEPT ![c].step = "update", ![c].sw = swarm]  BY <3>1
    <3>2. CASE sets' = [sets EXCEPT ![c].step = "create"]
      <4>1. sets' = [sets EXCEPT ![c].step = "create", ![c].sw = sets[c].sw]
        BY <3>2 DEF IInv, TypeOK
      <4> QED  BY <4>1
    <3> QED  BY <1>2, <3>1, <3>2 DEF Get, Reads
  <2>3. TypeOK'
    <3>1. Calls' = Calls /\ Objects' = Objects  BY <1>2 DEF Calls, Objects
    <3>2. sets'[c] \in Calls  BY <2>2 DEF IInv, TypeOK, Calls
    <3> QED  BY <1>2, <2>2, <3>1, <3>2 DEF IInv, TypeOK
  <2>4. Versions'  BY <1>2, <2>2 DEF IInv, TypeOK, Versions, Current, Exists
  <2>5. InCall'  BY <2>1, <2>2 DEF IInv, TypeOK, InCall
  <2> QED  BY <2>3, <2>4, <2>5 DEF IInv
<1> QED  BY <1>1, <1>2 DEF Get, Reads

LEMMA CreateInvariant ==
    ASSUME IInv, NEW c \in Controllers, Create(c)
    PROVE  IInv'
<1>1. CASE Fails(c)  BY <1>1, FailsInvariant DEF Create, Post, Reads
<1>2. CASE Store(EmptySpec, "") /\ ~Fails(c)
  <2>1. EmptySpec \in StoredSpecs /\ "" \in Phases  BY DEF StoredSpecs, Phases
  <2>2. sets[c].step # "idle" /\ sets[c].result = "none"  BY DEF Create, Post, Reads, IInv, InCall
  <2>3. CASE sets' = [sets EXCEPT ![c].step = "update", ![c].sw = swarm']
    <3>1. sets' = [sets EXCEPT ![c].step = "update", ![c].sw = swarm', ![c].result = "none"]
      BY <2>2, <2>3 DEF IInv, TypeOK
    <3> QED  BY <1>2, <2>1, <2>2, <3>1, StoreInvariant
  <2>4. CASE Returns(c, "error")
    <3>1. sets' = [sets EXCEPT ![c].step = "idle", ![c].sw = sets[c].sw, ![c].result = "error"]
      BY <2>4 DEF Returns, IInv, TypeOK
    <3> QED  BY <1>2, <2>1, <2>2, <3>1, StoreInvariant
  <2> QED  BY <1>2, <2>3, <2>4 DEF Create, Post, Reads
<1> QED  BY <1>1, <1>2 DEF Create, Post, Reads

LEMMA UpdateInvariant ==
    ASSUME IInv, NEW c \in Controllers, Update(c)
    PROVE  IInv'
<1>1. CASE Fails(c)  BY <1>1, FailsInvariant DEF Update, Put
<1>2. CASE ~Fails(c)
  <2>1. PICK spec \in Specs(sets[c].want) : Store(spec, swarm.status)  BY <1>2 DEF Update, Put
  <2>2. spec \in StoredSpecs /\ swarm.status \in Phases
    BY <2>1 DEF Update, Put, StoredSpecs, IInv, InCall, TypeOK, Objects
  <2>3. PICK result \in {"ok", "error"} : Returns(c, result)  BY <1>2 DEF Update, Put
  <2>4. sets' = [sets EXCEPT ![c].step = "idle", ![c].sw = sets[c].sw, ![c].result = result]
    BY <2>3 DEF Returns, IInv, TypeOK
  <2>5. sets[c].step # "idle"  BY DEF Update, Put
  <2> QED  BY <2>1, <2>2, <2>4, <2>5, StoreInvariant
<1> QED  BY <1>1, <1>2

LEMMA UpdateStatusInvariant ==
    ASSUME IInv, UpdateStatus
    PROVE  IInv'
<1>1. PICK phase \in Phases : Store(swarm.spec, phase)  BY DEF UpdateStatus, PutStatus
<1>2. swarm.spec \in StoredSpecs  BY DEF IInv, TypeOK, Objects
<1>3. /\ revision' \in 0 .. MaxRevision /\ revision' = revision + 1
      /\ swarm' \in Objects' /\ swarm'.resourceVersion = revision + 1
      /\ Objects \subseteq Objects'
  BY <1>1, <1>2, StoreType DEF IInv
<1>4. TypeOK'
  <2>1. Calls \subseteq Calls'  BY <1>3 DEF Calls
  <2> QED  BY <1>3, <2>1 DEF IInv, TypeOK, UpdateStatus, PutStatus
<1>5. Versions'
  <2>1. ASSUME NEW d \in Controllers PROVE ~Current(sets[d].sw)'
    <3>1. sets'[d] = sets[d] /\ sets[d].sw.resourceVersion \in 0 .. revision
      BY DEF IInv, TypeOK, Calls, Objects, UpdateStatus, PutStatus
    <3> QED  BY <3>1, <1>3 DEF Current, IInv, TypeOK
  <2>2. Exists'  BY <1>3 DEF Exists, IInv, TypeOK
  <2> QED  BY <2>1, <2>2 DEF Versions, Current
<1>6. InCall'  BY DEF InCall, IInv, UpdateStatus, PutStatus
<1> QED  BY <1>4, <1>5, <1>6 DEF IInv

LEMMA DeleteInvariant ==
    ASSUME IInv, DeleteSwarm
    PROVE  IInv'
<1>1. NoSwarm \in Objects
  <2>1. 0 \in 0 .. revision  BY DEF IInv, TypeOK
  <2> QED  BY <2>1 DEF Objects, StoredSpecs, NoSwarm, Phases
<1>2. TypeOK'
  <2>1. Calls' = Calls /\ Objects' = Objects  BY DEF DeleteSwarm, Calls, Objects
  <2> QED  BY <1>1, <2>1 DEF IInv, TypeOK, DeleteSwarm
<1>3. ~Exists'  BY DEF DeleteSwarm, Exists, NoSwarm
<1>4. Versions'  BY <1>3 DEF Versions, DeleteSwarm, Current
<1>5. InCall'  BY DEF InCall, IInv, DeleteSwarm
<1> QED  BY <1>2, <1>4, <1>5 DEF IInv

LEMMA StutterInvariant == IInv /\ UNCHANGED vars => IInv'
BY DEF IInv, TypeOK, Calls, Objects, Versions, Exists, Current, InCall, vars

LEMMA NextInvariant == IInv /\ [Next]_vars => IInv'
<1> SUFFICES ASSUME IInv, Next PROVE IInv'  BY StutterInvariant
<1>1. ASSUME NEW c \in Controllers, Crash(c) PROVE IInv'
  BY <1>1, FailsInvariant DEF Crash
<1> QED
  BY <1>1, SetInvariant, GetInvariant, CreateInvariant, UpdateInvariant,
     UpdateStatusInvariant, DeleteInvariant
  DEF Next, Step

LEMMA Invariant == Spec => []IInv
BY InitInvariant, NextInvariant, PTL DEF Spec

-----------------------------------------------------------------------------
\* TypeOK: every stored object and every copy is made of one association.
THEOREM TypeCorrect == Spec => []TypeOK
<1>1. IInv => TypeOK  BY DEF IInv
<1> QED  BY <1>1, Invariant, PTL

\* NoLostUpdate: a Set that replaces a spec has read that very object.
THEOREM NoUpdateLost == Spec => NoLostUpdate
<1>1. ASSUME IInv, [Next]_vars, NEW c \in Controllers PROVE Overwrites(c)
  <2> SUFFICES ASSUME sets[c].step = "update", swarm'.spec # swarm.spec, sets'[c] # sets[c]
              PROVE  sets[c].sw = swarm
    BY DEF Overwrites
  <2>1. PICK d \in Controllers : Step(d) \/ \E a \in Associations : Set(d, a)
    BY <1>1 DEF Next, UpdateStatus, PutStatus, DeleteSwarm, vars
  <2>2. d = c
    <3>1. d # c => sets'[c] = sets[c]
      BY <1>1, <2>1
      DEF IInv, TypeOK, Step, Get, Create, Post, Reads, Update, Put, Crash, Fails, Returns, Set
    <3> QED  BY <3>1
  <2>3. Update(c)
    BY <2>1, <2>2 DEF Step, Get, Create, Post, Reads, Crash, Fails, Set
  <2>4. Current(sets[c].sw)  BY <2>3 DEF Update, Put, Fails
  <2> QED  BY <1>1, <2>4 DEF IInv, Versions
<1>2. IInv /\ [Next]_vars => [\A c \in Controllers : Overwrites(c)]_vars  BY <1>1
<1> QED  BY <1>2, Invariant, PTL DEF Spec, NoLostUpdate

\* Specs of associations are not the empty spec: their version is not 0.
LEMMA SpecsNotEmpty ==
    ASSUME NEW a \in Associations, NEW s \in Specs(a)
    PROVE  s # EmptySpec
BY AssociationsAssumption DEF Specs, Member, EmptySpec

\* NotReinitialised: no controller takes an association back.
THEOREM NeverReinitialised == Spec => NotReinitialised
<1>1. ASSUME IInv, [Next]_vars, swarm.spec # EmptySpec, swarm'.spec = EmptySpec
      PROVE  swarm' = NoSwarm
  <2>1. CASE DeleteSwarm  BY <2>1 DEF DeleteSwarm
  <2>2. CASE UpdateStatus  BY <1>1, <2>2 DEF UpdateStatus, PutStatus, Store
  <2>3. CASE UNCHANGED vars  BY <1>1, <2>3 DEF vars
  <2>4. ASSUME NEW c \in Controllers, Step(c) \/ \E a \in Associations : Set(c, a)
        PROVE  FALSE
    <3>1. Exists
      <4>1. ~Exists => swarm = NoSwarm  BY <1>1 DEF IInv, Versions
      <4>2. NoSwarm.spec = EmptySpec  BY DEF NoSwarm
      <4> QED  BY <1>1, <4>1, <4>2
    <3>2. swarm' # swarm  BY <1>1
    <3>3. Update(c) \/ Create(c)  BY <2>4, <3>2 DEF Step, Get, Reads, Crash, Fails, Set
    <3>4. ~Create(c)  BY <3>1, <3>2 DEF Create, Post, Reads, Fails
    <3>5. PICK s \in Specs(sets[c].want) : Store(s, swarm.status)
      BY <3>2, <3>3, <3>4 DEF Update, Put, Fails
    <3>6. sets[c].want \in Associations  BY <1>1, <3>3, <3>4 DEF IInv, InCall, Update, Put
    <3> QED  BY <1>1, <3>5, <3>6, SpecsNotEmpty DEF Store
  <2> QED  BY <1>1, <2>1, <2>2, <2>3, <2>4 DEF Next
<1>2. IInv /\ [Next]_vars =>
        [swarm.spec # EmptySpec /\ swarm'.spec = EmptySpec => swarm' = NoSwarm]_vars
  BY <1>1
<1> QED  BY <1>2, Invariant, PTL DEF Spec, NotReinitialised

-----------------------------------------------------------------------------
calls == [c \in Controllers |-> [want |-> sets[c].want, result |-> sets[c].result]]
value == Decode(swarm.spec)

LEMMA RegisterInit == Init => Register!Init
<1> SUFFICES ASSUME Init PROVE Register!Init  OBVIOUS
<1>1. value = NoAssociation  BY DEF Init, value, NoSwarm, NoAssociation
<1>2. calls = [c \in Controllers |-> [want |-> NoAssociation, result |-> "ok"]]
  BY DEF Init, calls
<1> QED  BY <1>1, <1>2 DEF Register!Init, value, calls

\* A call that fails without effect, and one that returns after its write.
LEMMA RegisterReturn ==
    ASSUME IInv, NEW c \in Controllers, sets[c].step # "idle",
           NEW result \in {"ok", "error"}, Returns(c, result),
           value' = sets[c].want \/ (result = "error" /\ value' = value)
    PROVE  Register!Next
<1>1. calls[c].result = "none" /\ calls[c].want = sets[c].want
  BY DEF calls, IInv, InCall
<1>2. calls' = [calls EXCEPT ![c].result = result]
  BY DEF calls, Returns, IInv, TypeOK, Calls
<1>3. Register!Return(c, result)  BY <1>1, <1>2 DEF Register!Return, calls, value
<1> QED  BY <1>3 DEF Register!Next

\* Steps of a call that neither end it nor change what readers see.
LEMMA RegisterStutter ==
    ASSUME IInv, NEW c \in Controllers, value' = value, NEW step, NEW sw,
           sets' = [sets EXCEPT ![c].step = step, ![c].sw = sw]
    PROVE  UNCHANGED Register!vars
BY DEF Register!vars, value, IInv, TypeOK, Calls

LEMMA RegisterStep == IInv /\ [Next]_vars => [Register!Next]_(Register!vars)
<1> SUFFICES ASSUME IInv, [Next]_vars PROVE [Register!Next]_(Register!vars)  OBVIOUS
<1>1. CASE UNCHANGED vars  BY <1>1 DEF vars, Register!vars
<1>2. ASSUME NEW c \in Controllers, NEW a \in Associations, Set(c, a)
      PROVE  Register!Next
  <2>1. calls[c].result # "none"  BY <1>2 DEF Set, calls, IInv, InCall
  <2>2. calls' = [calls EXCEPT ![c] = [want |-> a, result |-> "none"]]
    BY <1>2 DEF Set, calls, IInv, TypeOK, Calls
  <2>3. Register!Call(c, a)  BY <1>2, <2>1, <2>2 DEF Register!Call, Set, calls
  <2> QED  BY <2>3 DEF Register!Next
<1>3. ASSUME NEW c \in Controllers, Fails(c), sets[c].step # "idle" PROVE Register!Next
  BY <1>3, RegisterReturn DEF Fails, value
<1>4. ASSUME NEW c \in Controllers, Get(c), ~Fails(c) PROVE UNCHANGED Register!vars
  <2>1. value' = value  BY <1>4 DEF Get, Reads, value
  <2>2. CASE sets' = [sets EXCEPT ![c].step = "update", ![c].sw = swarm]
    BY <2>1, <2>2, RegisterStutter
  <2>3. CASE sets' = [sets EXCEPT ![c].step = "create"]
    <3>1. sets' = [sets EXCEPT ![c].step = "create", ![c].sw = sets[c].sw]
      BY <2>3 DEF IInv, TypeOK, Calls
    <3> QED  BY <2>1, <3>1, RegisterStutter
  <2> QED  BY <1>4, <2>2, <2>3 DEF Get, Reads
<1>5. ASSUME NEW c \in Controllers, Create(c), ~Fails(c)
      PROVE  [Register!Next]_(Register!vars)
  <2>1. ~Exists /\ Store(EmptySpec, "")  BY <1>5 DEF Create, Post, Reads
  <2>2. swarm.spec = EmptySpec
    <3>1. swarm = NoSwarm  BY <2>1 DEF IInv, Versions
    <3> QED  BY <3>1 DEF NoSwarm
  <2>3. value' = value  BY <2>1, <2>2 DEF value, Store
  <2>4. CASE sets' = [sets EXCEPT ![c].step = "update", ![c].sw = swarm']
    BY <2>3, <2>4, RegisterStutter
  <2>5. CASE Returns(c, "error")  BY <1>5, <2>3, <2>5, RegisterReturn DEF Create, Post, Reads
  <2> QED  BY <1>5, <2>4, <2>5 DEF Create, Post, Reads
<1>6. ASSUME NEW c \in Controllers, Update(c), ~Fails(c) PROVE Register!Next
  <2>1. PICK s \in Specs(sets[c].want) : Store(s, swarm.status)  BY <1>6 DEF Update, Put
  <2>2. PICK result \in {"ok", "error"} : Returns(c, result)  BY <1>6 DEF Update, Put
  <2>3. sets[c].want \in Associations /\ sets[c].step # "idle"
    BY <1>6 DEF Update, Put, IInv, InCall
  <2>4. swarm'.spec = s  BY <2>1 DEF Store
  <2>5. value' = sets[c].want  BY <2>1, <2>3, <2>4, DecodeSpecs DEF value
  <2> QED  BY <2>2, <2>3, <2>5, RegisterReturn
<1>7. CASE UpdateStatus
  BY <1>7 DEF UpdateStatus, PutStatus, Store, Register!vars
<1>8. CASE DeleteSwarm
  <2>1. Register!Erase  BY <1>8 DEF DeleteSwarm, Register!Erase, NoSwarm, NoAssociation
  <2> QED  BY <2>1 DEF Register!Next
<1>9. ASSUME NEW c \in Controllers, Step(c) PROVE [Register!Next]_(Register!vars)
  <2>1. sets[c].step # "idle"  BY <1>9 DEF Step, Get, Create, Post, Reads, Update, Put, Crash
  <2> QED  BY <1>3, <1>4, <1>5, <1>6, <1>9, <2>1 DEF Step, Crash
<1> QED  BY <1>1, <1>2, <1>7, <1>8, <1>9 DEF Next

\* SetIsAtomic: whatever requests of whatever clients come in between, Set looks
\* like one write that happened or did not.
THEOREM SetImplementsRegister == Spec => SetIsAtomic
BY RegisterInit, RegisterStep, Invariant, PTL DEF Spec, SetIsAtomic, Register!Spec
=============================================================================
