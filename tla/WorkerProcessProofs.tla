------------------------ MODULE WorkerProcessProofs ------------------------
(***************************************************************************)
(* Proofs about the worker's process, for any number of file changes,      *)
(* watchers and restarts.  WorkerProcess.TypeOK says nothing of the threads'*)
(* places, so the invariant adds them.                                     *)
(***************************************************************************)
EXTENDS WorkerProcess, FiniteSetTheorems, FunctionTheorems, TLAPS

PCs == {"unborn", "load", "read", "unmarshal", "unmarshalling", "assign",
        "register", "serving", "watching", "seen"}

IInv == TypeOK /\ pc \in [Threads -> PCs]

\* NoThread is no thread's number.
LEMMA ThreadNumbers == NoThread \notin Threads /\ 0 \in Threads /\ Watchers \subseteq Threads
BY DEF NoThread, Threads, Watchers

\* A thread that is not decoding, moving to another such place, leaves the
\* claim about the mutex as it is.
LEMMA HolderStays ==
    ASSUME IInv, NEW t \in Threads, pc[t] # "unmarshalling",
           NEW p \in PCs \ {"unmarshalling"},
           pc' = [pc EXCEPT ![t] = p]
    PROVE  {u \in Threads : pc'[u] = "unmarshalling"} = {mutex} \ {NoThread}
BY DEF IInv, TypeOK

\* What a file, viper's configuration or workloadsConfig holds of the host.
LEMMA MergedType ==
    ASSUME IInv, NEW v \in Files, NEW j \in Files
    PROVE  [version |-> v.version, jobs |-> Merged(j.jobs)] \in Files
BY DEF IInv, TypeOK, Files, Merged

LEMMA InitInvariant == Init => IInv
<1> SUFFICES ASSUME Init PROVE IInv  OBVIOUS
<1>1. NoFile \in Files  BY BoundsAssumption DEF NoFile, Files
<1>2. file \in Files  BY BoundsAssumption DEF Init, Files
<1>3. pc \in [Threads -> PCs]  BY DEF Init, PCs
<1>4. {t \in Threads : pc[t] = "unmarshalling"} = {mutex} \ {NoThread}  BY DEF Init
<1>5. restarts \in 0 .. MaxRestarts  BY BoundsAssumption DEF Init
<1> QED  BY <1>1, <1>2, <1>3, <1>4, <1>5 DEF Init, IInv, TypeOK

LEMMA FileChangeInvariant == IInv /\ FileChange => IInv'
<1> SUFFICES ASSUME IInv, FileChange PROVE IInv'  OBVIOUS
<1>1. file' \in Files  BY BoundsAssumption DEF IInv, TypeOK, FileChange, Files
<1>2. pending' \subseteq Running'  BY DEF FileChange, Running
<1> QED  BY <1>1, <1>2 DEF IInv, TypeOK, FileChange, configVars

LEMMA RestartInvariant == IInv /\ Restart => IInv'
<1> SUFFICES ASSUME IInv, Restart PROVE IInv'  OBVIOUS
<1>1. NoFile \in Files  BY BoundsAssumption DEF NoFile, Files
<1>2. pc' \in [Threads -> PCs]  BY DEF Restart, PCs
<1>3. {t \in Threads : pc'[t] = "unmarshalling"} = {mutex'} \ {NoThread}  BY DEF Restart
<1>4. restarts' \in 0 .. MaxRestarts  BY BoundsAssumption DEF Restart, IInv, TypeOK
<1> QED  BY <1>1, <1>2, <1>3, <1>4 DEF Restart, IInv, TypeOK

LEMMA ThreadInvariant ==
    ASSUME IInv, NEW t \in Threads, Wake(t) \/ Callback(t) \/ Load(t)
    PROVE  IInv'
<1> USE DEF IInv, TypeOK
<1>1. ASSUME NEW p \in PCs \ {"unmarshalling", "unborn"}, pc[t] # "unmarshalling",
             pc' = [pc EXCEPT ![t] = p], mutex' = mutex, pending' \subseteq pending
      PROVE  /\ pc' \in [Threads -> PCs]
             /\ pending' \subseteq Running'
             /\ {u \in Threads : pc'[u] = "unmarshalling"} = {mutex'} \ {NoThread}
  <2>1. pc' \in [Threads -> PCs]  BY <1>1
  <2>2. pending' \subseteq Running'  BY <1>1, ThreadNumbers DEF Running
  <2> QED  BY <1>1, <2>1, <2>2, HolderStays
<1>2. CASE Wake(t)
  <2>1. local' \in [Threads -> Files]  BY <1>2 DEF Wake
  <2> QED  BY <1>2, <1>1, <2>1 DEF Wake, configVars, PCs
<1>3. CASE Callback(t)
  <2>1. viperConfig' \in Files  BY <1>3 DEF Callback
  <2> QED  BY <1>3, <1>1, <2>1 DEF Callback, PCs
<1>4. CASE ReadInConfig(t)
  <2>1. local' \in [Threads -> Files]  BY <1>4 DEF ReadInConfig
  <2> QED  BY <1>4, <1>1, <2>1 DEF ReadInConfig, configVars, PCs
<1>5. CASE KeepConfig(t)
  <2>1. viperConfig' \in Files  BY <1>5 DEF KeepConfig
  <2> QED  BY <1>5, <1>1, <2>1 DEF KeepConfig, PCs
<1>6. CASE Unmarshal(t)
  <2>1. pc' \in [Threads -> PCs]  BY <1>6 DEF Unmarshal, PCs
  <2>2. local' \in [Threads -> Files]  BY <1>6 DEF Unmarshal
  <2>3. pending' \subseteq Running'  BY <1>6, ThreadNumbers DEF Unmarshal, Running
  <2>4. {u \in Threads : pc'[u] = "unmarshalling"} = {mutex'} \ {NoThread}
    BY <1>6, ThreadNumbers DEF Unmarshal
  <2> QED  BY <1>6, <2>1, <2>2, <2>3, <2>4 DEF Unmarshal
<1>7. CASE Unmarshalled(t)
  <2>1. pc' \in [Threads -> PCs]  BY <1>7 DEF Unmarshalled, PCs
  <2>2. loaded' \in Files
    <3>1. PICK v \in {local[t], viperConfig}, j \in {local[t], viperConfig} :
            loaded' = [version |-> v.version, jobs |-> Merged(j.jobs)]
      BY <1>7 DEF Unmarshalled
    <3>2. v \in Files /\ j \in Files  BY <3>1
    <3> QED  BY <3>1, <3>2, MergedType
  <2>3. pending' \subseteq Running'  BY <1>7, ThreadNumbers DEF Unmarshalled, Running
  <2>4. {u \in Threads : pc'[u] = "unmarshalling"} = {mutex'} \ {NoThread}
    <3>1. \A u \in Threads : pc[u] = "unmarshalling" => u = t
      BY <1>7 DEF Unmarshalled
    <3>2. \A u \in Threads : pc'[u] # "unmarshalling"
      BY <1>7, <3>1 DEF Unmarshalled
    <3> QED  BY <1>7, <3>2 DEF Unmarshalled
  <2> QED  BY <1>7, <2>1, <2>2, <2>3, <2>4 DEF Unmarshalled
<1>8. CASE Assign(t)
  <2>1. state' \in JobSets \cup {Nil}
    BY <1>8 DEF Assign, AppAssign, HostWorkLoad, Files
  <2> QED  BY <1>8, <1>1, <2>1 DEF Assign, configVars, PCs
<1> QED  BY <1>2, <1>3, <1>4, <1>5, <1>6, <1>7, <1>8 DEF Load

LEMMA VersionHandlerInvariant == IInv /\ versionHandler => IInv'
BY DEF versionHandler, TestWorkload, ReadWorkload, configVars, threadVars,
       IInv, TypeOK, Running

LEMMA OnConfigChangeInvariant == IInv /\ OnConfigChange => IInv'
<1> SUFFICES ASSUME IInv, OnConfigChange PROVE IInv'  OBVIOUS
<1>1. {u \in Threads : pc'[u] = "unmarshalling"} = {mutex} \ {NoThread}
  BY HolderStays, ThreadNumbers DEF OnConfigChange, PCs
<1>2. pc' \in [Threads -> PCs]  BY DEF OnConfigChange, IInv, PCs
<1>3. pending' \subseteq Running'
  BY ThreadNumbers DEF OnConfigChange, IInv, TypeOK, Running
<1> QED  BY <1>1, <1>2, <1>3 DEF OnConfigChange, IInv, TypeOK, configVars

LEMMA Invariant == IInv /\ [Next]_vars => IInv'
<1> SUFFICES ASSUME IInv, [Next]_vars PROVE IInv'  OBVIOUS
<1>1. CASE FileChange  BY <1>1, FileChangeInvariant
<1>2. CASE Restart  BY <1>2, RestartInvariant
<1>3. CASE Main  BY <1>3, ThreadInvariant, ThreadNumbers, OnConfigChangeInvariant DEF Main
<1>4. CASE \E t \in Watchers : Thread(t)
  BY <1>4, ThreadInvariant, ThreadNumbers DEF Thread
<1>5. CASE versionHandler  BY <1>5, VersionHandlerInvariant
<1>6. CASE UNCHANGED vars
  BY <1>6 DEF vars, configVars, threadVars, IInv, TypeOK, Running
<1> QED  BY <1>1, <1>2, <1>3, <1>4, <1>5, <1>6 DEF Next

\* Whatever the watchers do to each other: the types, and that exactly the
\* thread that holds workloadsMutex decodes.
THEOREM TypeCorrect == Spec => []TypeOK
<1>1. IInv => TypeOK  BY DEF IInv
<1> QED  BY <1>1, InitInvariant, Invariant, PTL DEF Spec

\* As long as the process lives, nothing takes the workload away: decoding keeps
\* the hosts it does not find, and no other step touches workloadsConfig.
LEMMA HostKept ==
    ASSUME [Next]_vars, HostWorkLoad # NoHost
    PROVE  HostWorkLoad' # NoHost \/ Restart
<1>1. CASE Restart  BY <1>1
<1>2. ASSUME NEW t \in Threads, Unmarshalled(t)
      PROVE  HostWorkLoad' # NoHost
  BY <1>2 DEF Unmarshalled, Merged, HostWorkLoad
<1>3. CASE loaded' = loaded  BY <1>3 DEF HostWorkLoad
<1>4. ASSUME NEW t \in Threads, Wake(t) \/ Callback(t) \/ Load(t)
      PROVE  loaded' = loaded \/ Unmarshalled(t)
  BY <1>4 DEF Wake, Callback, Load, ReadInConfig, KeepConfig, Unmarshal, Assign, configVars
<1>5. CASE FileChange  BY <1>3, <1>5 DEF FileChange, configVars
<1>6. CASE Main
  BY <1>2, <1>3, <1>4, <1>6, ThreadNumbers DEF Main, OnConfigChange, configVars
<1>7. CASE \E t \in Watchers : Thread(t)
  BY <1>2, <1>3, <1>4, <1>7, ThreadNumbers DEF Thread
<1>8. CASE versionHandler
  BY <1>3, <1>8 DEF versionHandler, TestWorkload, ReadWorkload, configVars
<1>9. CASE UNCHANGED vars  BY <1>3, <1>9 DEF vars, configVars
<1> QED  BY <1>1, <1>5, <1>6, <1>7, <1>8, <1>9 DEF Next

\* A request gets past the test only by the endpoint's own step, and does not
\* survive the process.
LEMMA RequestBegins ==
    ASSUME [Next]_vars, request'
    PROVE  request \/ (TestWorkload /\ ~Restart)
BY DEF Next, vars, FileChange, Restart, Main, OnConfigChange, Thread, Load, Wake, Callback,
       ReadInConfig, KeepConfig, Unmarshal, Unmarshalled, Assign, versionHandler,
       TestWorkload, ReadWorkload

\* versionHandler takes the jobs of the second answer of Workload() because the
\* first was not nil: whatever loads come between, it is not nil either.
THEOREM AnswerHasJobsCorrect == Spec => []AnswerHasJobs
<1>1. Init => AnswerHasJobs  BY DEF Init, AnswerHasJobs
<1>2. AnswerHasJobs /\ [Next]_vars => AnswerHasJobs'
  <2> SUFFICES ASSUME AnswerHasJobs, [Next]_vars, request'
               PROVE  HostWorkLoad' # NoHost
    BY DEF AnswerHasJobs
  <2>1. ~Restart  BY DEF Restart
  <2>2. HostWorkLoad # NoHost  BY RequestBegins DEF AnswerHasJobs, TestWorkload
  <2> QED  BY <2>1, <2>2, HostKept
<1> QED  BY <1>1, <1>2, PTL DEF Spec

-----------------------------------------------------------------------------
(* How many watchers there can be.  What may still start a watcher counts  *)
(* as one: a watcher that has not seen the last change, and a thread that  *)
(* is about to load or loading.                                            *)

Loading == {t \in Threads : pc[t] \in {"load", "read", "unmarshal", "unmarshalling", "seen"}}

WatchersBounded == Cardinality(Running) + Cardinality(pending) + Cardinality(Loading)
                   <= 2 ^ file.version

\* A set of one more element has twice as many subsets.
LEMMA PowerDoubles ==
    ASSUME NEW n \in Nat
    PROVE  2 ^ n \in Nat /\ 2 ^ n > 0 /\ 2 ^ (n + 1) = 2 ^ n + 2 ^ n
<1> DEFINE S == 1 .. n
           U == 1 .. n + 1
           With == {T \cup {n + 1} : T \in SUBSET S}
           f == [T \in SUBSET S |-> T \cup {n + 1}]
<1>1. /\ IsFiniteSet(S) /\ Cardinality(S) = n
      /\ IsFiniteSet(U) /\ Cardinality(U) = n + 1
  <2>1. Cardinality(S) = n - 1 + 1 /\ IsFiniteSet(S)  BY FS_Interval
  <2>2. Cardinality(U) = (n + 1) - 1 + 1 /\ IsFiniteSet(U)  BY FS_Interval
  <2> HIDE DEF S, U
  <2> QED  BY <2>1, <2>2
<1>2. /\ IsFiniteSet(SUBSET S) /\ Cardinality(SUBSET S) = 2 ^ n
      /\ IsFiniteSet(SUBSET U) /\ Cardinality(SUBSET U) = 2 ^ (n + 1)
  <2> HIDE DEF S, U
  <2> QED  BY <1>1, FS_SUBSET
<1>3. n + 1 \notin S /\ U = S \cup {n + 1}  OBVIOUS
<1>4. SUBSET U = (SUBSET S) \cup With
  <2>1. ASSUME NEW T \in SUBSET U PROVE T \in (SUBSET S) \cup With
    <3>1. CASE n + 1 \in T
      <4>1. T \ {n + 1} \in SUBSET S /\ T = (T \ {n + 1}) \cup {n + 1}  BY <1>3, <3>1
      <4> QED  BY <4>1
    <3>2. CASE n + 1 \notin T
      <4>1. T \in SUBSET S  BY <1>3, <3>2
      <4> QED  BY <4>1
    <3> QED  BY <3>1, <3>2
  <2>2. (SUBSET S) \cup With \subseteq SUBSET U  BY <1>3
  <2> QED  BY <2>1, <2>2
<1>5. (SUBSET S) \cap With = {}  BY <1>3
<1>6. f \in Bijection(SUBSET S, With)
  <2>1. f \in [SUBSET S -> With]  OBVIOUS
  <2>2. ASSUME NEW a \in SUBSET S, NEW b \in SUBSET S, f[a] = f[b] PROVE a = b
    <3>1. a \cup {n + 1} = b \cup {n + 1}  BY <2>2
    <3>2. n + 1 \notin a /\ n + 1 \notin b  BY <1>3
    <3> QED  BY <3>1, <3>2
  <2>3. \A t \in With : \E s \in SUBSET S : f[s] = t  OBVIOUS
  <2> HIDE DEF f, With
  <2> QED  BY <2>1, <2>2, <2>3, Fun_IsBij
<1> HIDE DEF S, U, With, f
<1>7. IsFiniteSet(With) /\ Cardinality(With) = 2 ^ n
  BY <1>2, <1>6, FS_Bijection DEF ExistsBijection
<1>8. Cardinality((SUBSET S) \cap With) = 0  BY <1>5, FS_EmptySet
<1>9. Cardinality(SUBSET U) = Cardinality(SUBSET S) + Cardinality(With) - 0
  BY <1>2, <1>4, <1>7, <1>8, FS_Union
<1>10. Cardinality(SUBSET S) \in Nat  BY <1>2, FS_CardinalityType
<1>11. Cardinality(SUBSET S) # 0
  <2>1. {} \in SUBSET S  OBVIOUS
  <2> QED  BY <1>2, <2>1, FS_EmptySet
<1> QED  BY <1>2, <1>7, <1>9, <1>10, <1>11

LEMMA WatcherSets ==
    ASSUME IInv
    PROVE  /\ IsFiniteSet(Running) /\ Cardinality(Running) \in Nat
           /\ IsFiniteSet(pending) /\ Cardinality(pending) \in Nat
           /\ IsFiniteSet(Loading) /\ Cardinality(Loading) \in Nat
<1>1. MaxWatchers \in Nat  BY PowerDoubles, BoundsAssumption DEF MaxWatchers
<1>2. IsFiniteSet(Watchers)  BY <1>1, FS_Interval DEF Watchers
<1>3. IsFiniteSet(Threads)
  <2>1. IsFiniteSet({0})  BY FS_Singleton
  <2> QED  BY <1>2, <2>1, FS_Union DEF Threads
<1>4. Running \in SUBSET Watchers /\ pending \in SUBSET Watchers /\ Loading \in SUBSET Threads
  BY DEF IInv, TypeOK, Running, Loading
<1>5. IsFiniteSet(Running) /\ IsFiniteSet(pending) /\ IsFiniteSet(Loading)
  BY <1>2, <1>3, <1>4, FS_Subset
<1> QED  BY <1>5, FS_CardinalityType

\* The file's version as the exponent.
LEMMA VersionPower ==
    ASSUME IInv
    PROVE  file.version \in Nat /\ 2 ^ file.version \in Nat /\ 2 ^ file.version > 0
<1>1. file.version \in Nat  BY BoundsAssumption DEF IInv, TypeOK, Files
<1> QED  BY <1>1, PowerDoubles

LEMMA BoundKeptBySubsets ==
    ASSUME IInv, WatchersBounded, file' = file,
           Running' \subseteq Running, pending' \subseteq pending, Loading' \subseteq Loading
    PROVE  WatchersBounded'
<1>1. /\ Cardinality(Running') <= Cardinality(Running) /\ Cardinality(Running') \in Nat
      /\ Cardinality(pending') <= Cardinality(pending) /\ Cardinality(pending') \in Nat
      /\ Cardinality(Loading') <= Cardinality(Loading) /\ Cardinality(Loading') \in Nat
  <2>1. Running' \in SUBSET Running /\ pending' \in SUBSET pending /\ Loading' \in SUBSET Loading
    OBVIOUS
  <2> QED  BY <2>1, WatcherSets, FS_Subset, FS_CardinalityType
<1> QED  BY <1>1, WatcherSets, VersionPower DEF WatchersBounded

LEMMA ThreadKeepsBound ==
    ASSUME IInv, WatchersBounded, NEW t \in Threads,
           Wake(t) \/ Callback(t) \/ Load(t)
    PROVE  WatchersBounded'
<1> USE DEF IInv, TypeOK
<1>1. ASSUME pc' = [pc EXCEPT ![t] = "load"] \/ pc' = [pc EXCEPT ![t] = "watching"]
             \/ pc' = [pc EXCEPT ![t] = "read"] \/ pc' = [pc EXCEPT ![t] = "unmarshal"]
             \/ pc' = [pc EXCEPT ![t] = "unmarshalling"] \/ pc' = [pc EXCEPT ![t] = "register"],
             pc[t] # "unborn",
             t \in Loading \/ pc' = [pc EXCEPT ![t] = "watching"]
                            \/ pc' = [pc EXCEPT ![t] = "register"]
      PROVE  Running' \subseteq Running /\ Loading' \subseteq Loading
  <2>1. \A u \in Threads : u # t => pc'[u] = pc[u]  BY <1>1
  <2>2. Running' \subseteq Running  BY <1>1, <2>1, ThreadNumbers DEF Running
  <2>3. t \in Loading \/ pc'[t] = "watching" \/ pc'[t] = "register"  BY <1>1
  <2>4. Loading' \subseteq Loading  BY <2>1, <2>3 DEF Loading
  <2> QED  BY <2>2, <2>4
<1>2. CASE Callback(t)
  BY <1>1, <1>2, BoundKeptBySubsets DEF Callback, Loading
<1>3. CASE ReadInConfig(t)
  BY <1>1, <1>3, BoundKeptBySubsets DEF ReadInConfig, Loading
<1>4. CASE KeepConfig(t)
  BY <1>1, <1>4, BoundKeptBySubsets DEF KeepConfig, Loading
<1>5. CASE Unmarshal(t)
  BY <1>1, <1>5, BoundKeptBySubsets DEF Unmarshal, Loading
<1>6. CASE Assign(t)
  BY <1>1, <1>6, BoundKeptBySubsets DEF Assign, Loading
<1>7. CASE Wake(t)
  <2>1. /\ file' = file /\ pending' = pending \ {t} /\ t \in pending
        /\ Running' = Running /\ Loading' = Loading \cup {t}
    <3>1. pc[t] = "watching" /\ pc'[t] = "seen" /\ \A u \in Threads : u # t => pc'[u] = pc[u]
      BY <1>7 DEF Wake
    <3>2. Running' = Running  BY <3>1, ThreadNumbers DEF Running
    <3>3. Loading' = Loading \cup {t}  BY <3>1 DEF Loading
    <3> QED  BY <1>7, <3>2, <3>3 DEF Wake
  <2>2. Cardinality(pending') = Cardinality(pending) - 1
    BY <2>1, WatcherSets, FS_RemoveElement
  <2>3. Cardinality(Loading') <= Cardinality(Loading) + 1 /\ Cardinality(Loading') \in Nat
    <3>1. IsFiniteSet(Loading')  BY <2>1, WatcherSets, FS_AddElement
    <3>2. Cardinality(Loading') \in Nat  BY <3>1, FS_CardinalityType
    <3>3. Cardinality(Loading') = Cardinality(Loading)
          \/ Cardinality(Loading') = Cardinality(Loading) + 1
      BY <2>1, WatcherSets, FS_AddElement
    <3> QED  BY <3>2, <3>3, WatcherSets
  <2> QED  BY <2>1, <2>2, <2>3, WatcherSets, VersionPower DEF WatchersBounded
<1>8. CASE Unmarshalled(t)
  <2>1. /\ file' = file /\ pending' = pending /\ t \in Loading
        /\ Running' \subseteq Running \cup {Unborn} /\ Loading' \subseteq Loading \ {t}
    <3> PICK n : n = Unborn  OBVIOUS
    <3>1. pc[t] = "unmarshalling" /\ pc'[t] \in {"assign", "watching"}
          /\ \A u \in Threads : u # t => pc'[u] = IF u = n THEN "watching" ELSE pc[u]
      BY <1>8 DEF Unmarshalled
    <3>2. Running' \subseteq Running \cup {Unborn}  BY <3>1, ThreadNumbers DEF Running
    <3>3. ASSUME NEW u \in Loading' PROVE u \in Loading \ {t}
      <4>1. u \in Threads /\ pc'[u] \notin {"assign", "watching"}  BY <3>3 DEF Loading
      <4>2. u # t  BY <3>1, <4>1
      <4>3. u # n  BY <3>1, <4>1, <4>2
      <4>4. pc'[u] = pc[u]  BY <3>1, <4>1, <4>2, <4>3
      <4> QED  BY <3>3, <4>2, <4>4 DEF Loading
    <3> QED  BY <1>8, <3>1, <3>2, <3>3 DEF Unmarshalled, Loading
  <2>2. Cardinality(Loading') <= Cardinality(Loading) - 1 /\ Cardinality(Loading') \in Nat
    <3>1. IsFiniteSet(Loading \ {t}) /\ Cardinality(Loading \ {t}) = Cardinality(Loading) - 1
      BY <2>1, WatcherSets, FS_RemoveElement
    <3>2. Loading' \in SUBSET (Loading \ {t})  BY <2>1
    <3>3. IsFiniteSet(Loading') /\ Cardinality(Loading') <= Cardinality(Loading \ {t})
      BY <3>1, <3>2, FS_Subset
    <3> QED  BY <3>1, <3>3, FS_CardinalityType
  <2>3. Cardinality(Running') <= Cardinality(Running) + 1 /\ Cardinality(Running') \in Nat
    <3>1. IsFiniteSet(Running \cup {Unborn})
          /\ (Cardinality(Running \cup {Unborn}) = Cardinality(Running)
              \/ Cardinality(Running \cup {Unborn}) = Cardinality(Running) + 1)
      BY WatcherSets, FS_AddElement
    <3>2. Running' \in SUBSET (Running \cup {Unborn})  BY <2>1
    <3>3. IsFiniteSet(Running') /\ Cardinality(Running') <= Cardinality(Running \cup {Unborn})
      BY <3>1, <3>2, FS_Subset
    <3>4. Cardinality(Running') \in Nat  BY <3>3, FS_CardinalityType
    <3> QED  BY <3>1, <3>3, <3>4, WatcherSets
  <2> QED  BY <2>1, <2>2, <2>3, WatcherSets, VersionPower DEF WatchersBounded
<1> QED  BY <1>2, <1>3, <1>4, <1>5, <1>6, <1>7, <1>8 DEF Load

LEMMA OneLoads ==
    ASSUME IInv, Running = {}, pending = {}, Loading = {0}
    PROVE  WatchersBounded
<1>1. Cardinality({0}) = 1  BY FS_Singleton
<1>2. \A S : S = {} => Cardinality(S) = 0  BY FS_EmptySet
<1> QED  BY <1>1, <1>2, VersionPower DEF WatchersBounded

LEMMA StartsBounded ==
    /\ Init => WatchersBounded
    /\ IInv /\ Restart => WatchersBounded'
<1>1. ASSUME Init PROVE WatchersBounded
  <2>1. Running = {} /\ pending = {} /\ Loading = {0}
    BY <1>1 DEF Init, Running, Loading, Threads, Watchers
  <2> QED  BY <1>1, <2>1, InitInvariant, OneLoads
<1>2. ASSUME IInv, Restart PROVE WatchersBounded'
  <2>1. Running' = {} /\ pending' = {} /\ Loading' = {0} /\ file' = file
    BY <1>2 DEF Restart, Running, Loading, Threads, Watchers
  <2>2. Cardinality({0}) = 1  BY FS_Singleton
  <2>3. \A S : S = {} => Cardinality(S) = 0  BY FS_EmptySet
  <2> QED  BY <1>2, <2>1, <2>2, <2>3, VersionPower DEF WatchersBounded
<1> QED  BY <1>1, <1>2

LEMMA BoundInvariant == IInv /\ WatchersBounded /\ [Next]_vars => WatchersBounded'
<1> SUFFICES ASSUME IInv, WatchersBounded, [Next]_vars PROVE WatchersBounded'  OBVIOUS
<1>1. CASE FileChange
  <2>1. /\ Running' = Running /\ pending' = Running /\ Loading' = Loading
        /\ file'.version = file.version + 1
    BY <1>1 DEF FileChange, Running, Loading
  <2>2. 2 ^ (file.version + 1) = 2 ^ file.version + 2 ^ file.version
    BY VersionPower, PowerDoubles
  <2> QED  BY <2>1, <2>2, WatcherSets, VersionPower DEF WatchersBounded
<1>2. CASE Restart  BY <1>2, StartsBounded
<1>3. CASE OnConfigChange
  <2>1. Running' = Running /\ Loading' = Loading
    BY <1>3, ThreadNumbers DEF OnConfigChange, Running, Loading, IInv
  <2> QED  BY <1>3, <2>1, BoundKeptBySubsets DEF OnConfigChange
<1>4. CASE Load(0)  BY <1>4, ThreadKeepsBound, ThreadNumbers
<1>5. CASE \E t \in Watchers : Thread(t)
  BY <1>5, ThreadKeepsBound, ThreadNumbers DEF Thread
<1>6. CASE versionHandler \/ UNCHANGED vars
  <2>1. UNCHANGED <<file, pc, pending>>
    BY <1>6 DEF versionHandler, TestWorkload, ReadWorkload, threadVars, vars
  <2> QED  BY <2>1 DEF WatchersBounded, Running, Loading
<1> QED  BY <1>1, <1>2, <1>3, <1>4, <1>5, <1>6 DEF Next, Main

\* A process that lives through n changes of the file has at most 2^n watchers:
\* each change may start as many again, and nothing else starts one.
THEOREM WatchersDoubleAtMost == Spec => []WatchersDouble
<1>1. IInv /\ WatchersBounded => WatchersDouble
  BY WatcherSets, VersionPower DEF WatchersBounded, WatchersDouble
<1> QED  BY <1>1, InitInvariant, Invariant, StartsBounded, BoundInvariant, PTL DEF Spec
=============================================================================
