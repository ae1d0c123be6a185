--------------------------- MODULE WorkerProcess ---------------------------
(***************************************************************************)
(* A worker pod's process: cmd/worker.go, internal/app/app.go and          *)
(* internal/config/config.go.  It loads its configuration from the mounted *)
(* ConfigMap, assigns its own workload, and asks viper (external) to watch *)
(* the file: each load starts one more watcher, and each watcher that sees *)
(* the file change reads it and runs the callback, which loads again.      *)
(*                                                                         *)
(* The threads are the main goroutine, 0, and the watchers, numbered as    *)
(* they are started.  They share viper's configuration without a lock and  *)
(* workloadsConfig under workloadsMutex.                                   *)
(***************************************************************************)
EXTENDS Integers, FiniteSets

CONSTANTS
    JobSets,      \* values of this host's jobs in a file
    MaxFiles,     \* bound: how often the ConfigMap's volume is updated
    MaxRestarts   \* bound: how often the process is restarted

ASSUME BoundsAssumption == MaxFiles \in Nat /\ MaxRestarts \in Nat

VARIABLES
    file,        \* the mounted file: its version and this host's jobs
    viperConfig, \* what viper read last
    loaded,      \* workloadsConfig
    mutex,       \* the thread that holds workloadsMutex for writing
    state,       \* the jobs of App.state, nil before the first Assign
    registered,  \* viper.OnConfigChange has been called
    pc, local,   \* per thread: where it is, and what it has read of the file
    pending,     \* watchers that have not seen the file's last change yet
    request,     \* the version endpoint is past the test of a request's workload
    restarts,    \* how often the process was restarted
    missed       \* history: the last change came when nothing would load it

configVars == <<viperConfig, loaded, mutex>>
threadVars == <<pc, local, pending>>
vars == <<file, configVars, state, registered, request, threadVars, restarts, missed>>

-----------------------------------------------------------------------------
NoHost == "nohost"    \* the file has no workload for this host
Nil == "nil"
NoThread == -1

\* Each load by a running watcher starts another.
MaxWatchers == 2 ^ MaxFiles
Watchers == 1 .. MaxWatchers
Threads == {0} \cup Watchers
Running == {t \in Watchers : pc[t] # "unborn"}

Files == [version : 0 .. MaxFiles, jobs : JobSets \cup {NoHost}]
NoFile == [version |-> 0, jobs |-> NoHost]

-----------------------------------------------------------------------------
\* NewApp, and the main goroutine about to load.
Init ==
    /\ file \in {[version |-> 0, jobs |-> j] : j \in JobSets \cup {NoHost}}
    /\ viperConfig = NoFile
    /\ loaded = NoFile
    /\ mutex = NoThread
    /\ state = Nil
    /\ registered = FALSE
    /\ request = FALSE
    /\ pc = [t \in Threads |-> IF t = 0 THEN "load" ELSE "unborn"]
    /\ local = [t \in Threads |-> NoFile]
    /\ pending = {}
    /\ restarts = 0
    /\ missed = FALSE

\* The kubelet swaps the volume's files; a change reaches the watchers that run.
FileChange ==
    /\ file.version < MaxFiles
    /\ \E j \in JobSets \cup {NoHost} : file' = [version |-> file.version + 1, jobs |-> j]
    /\ pending' = Running
    /\ missed' = (~registered /\ Running = {} /\ pc[0] # "load")
    /\ UNCHANGED <<configVars, state, registered, request, pc, local, restarts>>

\* The pod is deleted, or a load fails and log.Fatalf ends the process: it is
\* started again.
Restart ==
    /\ restarts < MaxRestarts
    /\ restarts' = restarts + 1
    /\ viperConfig' = NoFile
    /\ loaded' = NoFile
    /\ mutex' = NoThread
    /\ state' = Nil
    /\ registered' = FALSE
    /\ request' = FALSE
    /\ pc' = [t \in Threads |-> IF t = 0 THEN "load" ELSE "unborn"]
    /\ local' = [t \in Threads |-> NoFile]
    /\ pending' = {}
    /\ missed' = FALSE
    /\ UNCHANGED file

\* A watcher sees that the file is another one than it last saw, and reads it.
Wake(t) ==
    /\ t \in pending
    /\ pc[t] = "watching"
    /\ pending' = pending \ {t}
    /\ local' = [local EXCEPT ![t] = file]
    /\ pc' = [pc EXCEPT ![t] = "seen"]
    /\ UNCHANGED <<file, configVars, state, registered, request, restarts, missed>>

\* ... then keeps what it read, and calls the callback if there is one.
Callback(t) ==
    /\ pc[t] = "seen"
    /\ viperConfig' = local[t]
    /\ pc' = [pc EXCEPT ![t] = IF registered THEN "load" ELSE "watching"]
    /\ missed' = (missed \/ (~registered /\ t \notin pending))
    /\ UNCHANGED <<file, loaded, mutex, state, registered, request, local, pending, restarts>>

\* LoadConfig: viper.ReadInConfig reads the file ...
ReadInConfig(t) ==
    /\ pc[t] = "load"
    /\ local' = [local EXCEPT ![t] = file]
    /\ pc' = [pc EXCEPT ![t] = "read"]
    /\ UNCHANGED <<file, configVars, state, registered, request, pending, restarts, missed>>

\* ... and replaces viper's configuration, which no lock protects.
KeepConfig(t) ==
    /\ pc[t] = "read"
    /\ viperConfig' = local[t]
    /\ pc' = [pc EXCEPT ![t] = "unmarshal"]
    /\ UNCHANGED <<file, loaded, mutex, state, registered, request, local, pending, restarts, missed>>

\* Faulty variant: LoadConfig does not lock.
UnmarshalUnlocked(t) ==
    /\ pc[t] = "unmarshal"
    /\ mutex' = t
    /\ local' = [local EXCEPT ![t] = viperConfig]
    /\ pc' = [pc EXCEPT ![t] = "unmarshalling"]
    /\ UNCHANGED <<file, viperConfig, loaded, state, registered, request, pending, restarts, missed>>

\* viper.Unmarshal, under workloadsMutex, looks the keys up one by one while
\* other threads may replace viper's configuration: it starts ...
Unmarshal(t) ==
    /\ pc[t] = "unmarshal"
    /\ mutex = NoThread
    /\ mutex' = t
    /\ local' = [local EXCEPT ![t] = viperConfig]
    /\ pc' = [pc EXCEPT ![t] = "unmarshalling"]
    /\ UNCHANGED <<file, viperConfig, loaded, state, registered, request, pending, restarts, missed>>

\* Faulty variant: each load decodes into a new map.
MergedAnew(jobs) == jobs

\* Decoding into a map adds and replaces hosts but removes none.
Merged(jobs) == IF jobs = NoHost THEN loaded.jobs ELSE jobs

\* The first watcher that does not run yet.
Unborn == CHOOSE t \in Watchers : t \notin Running /\ \A u \in Watchers : u < t => u \in Running

\* Faulty variant: the load does not watch the file.
UnmarshalledUnwatched(t) ==
    /\ pc[t] = "unmarshalling"
    /\ \E v \in {local[t], viperConfig} : \E j \in {local[t], viperConfig} :
         loaded' = [version |-> v.version, jobs |-> Merged(j.jobs)]
    /\ mutex' = NoThread
    /\ pc' = [pc EXCEPT ![t] = "assign"]
    /\ UNCHANGED <<file, viperConfig, state, registered, request, local, pending, restarts, missed>>

\* Faulty variant: the load watches the file twice.
UnmarshalledWatchedTwice(t) ==
    /\ pc[t] = "unmarshalling"
    /\ \E v \in {local[t], viperConfig} : \E j \in {local[t], viperConfig} :
         loaded' = [version |-> v.version, jobs |-> Merged(j.jobs)]
    /\ mutex' = NoThread
    /\ pc' = [pc EXCEPT ![t] = "assign", ![Unborn] = "watching", ![Unborn + 1] = "watching"]
    /\ UNCHANGED <<file, viperConfig, state, registered, request, local, pending, restarts, missed>>

\* ... and ends, with either key from before or from after such a replacement;
\* then viper.WatchConfig starts another watcher and the lock is released.
Unmarshalled(t) ==
    /\ pc[t] = "unmarshalling"
    /\ \E v \in {local[t], viperConfig} : \E j \in {local[t], viperConfig} :
         loaded' = [version |-> v.version, jobs |-> Merged(j.jobs)]
    /\ mutex' = NoThread
    /\ pc' = [pc EXCEPT ![t] = "assign", ![Unborn] = "watching"]
    /\ UNCHANGED <<file, viperConfig, state, registered, request, local, pending, restarts, missed>>

\* HostWorkLoad returns the host's workload, or an error if there is none; it
\* waits for whoever holds the mutex for writing.
HostWorkLoad == loaded.jobs
CanRead == mutex = NoThread

\* App.Assign keeps the first workload it gets; it compares later ones with that
\* one (Difference) and logs what it sees.
AppAssign(w) == state' = IF state = Nil THEN w ELSE state

\* updateWorkloadFromConfig after the load.  An error of HostWorkLoad is logged.
Assign(t) ==
    /\ pc[t] = "assign"
    /\ CanRead
    /\ IF HostWorkLoad = NoHost THEN UNCHANGED state ELSE AppAssign(HostWorkLoad)
    /\ pc' = [pc EXCEPT ![t] = IF t = 0 THEN "register" ELSE "watching"]
    /\ UNCHANGED <<file, configVars, registered, request, local, pending, restarts, missed>>

OnConfigChange ==
    /\ pc[0] = "register"
    /\ registered' = TRUE
    /\ pc' = [pc EXCEPT ![0] = "serving"]
    /\ UNCHANGED <<file, configVars, state, request, local, pending, restarts, missed>>

\* The version endpoint answers with the host's jobs and the version.  It asks
\* Workload() whether there are jobs; if not it answers without any ...
TestWorkload ==
    /\ pc[0] = "serving"
    /\ CanRead
    /\ HostWorkLoad # NoHost
    /\ ~request
    /\ request' = TRUE
    /\ UNCHANGED <<file, configVars, state, registered, threadVars, restarts, missed>>

\* ... and otherwise asks again and takes the jobs of that second answer.
ReadWorkload ==
    /\ request
    /\ CanRead
    /\ request' = FALSE
    /\ UNCHANGED <<file, configVars, state, registered, threadVars, restarts, missed>>

versionHandler == TestWorkload \/ ReadWorkload

-----------------------------------------------------------------------------
Load(t) == ReadInConfig(t) \/ KeepConfig(t) \/ Unmarshal(t) \/ Unmarshalled(t) \/ Assign(t)
Thread(t) == Wake(t) \/ Callback(t) \/ Load(t)
Main == Load(0) \/ OnConfigChange

Next ==
    \/ FileChange
    \/ Restart
    \/ Main
    \/ \E t \in Watchers : Thread(t)
    \/ versionHandler

Spec == Init /\ [][Next]_vars

\* Every thread runs on; nothing makes the file change or the process restart.
Fairness == WF_vars(Main) /\ \A t \in Watchers : WF_vars(Thread(t))

FairSpec == Spec /\ Fairness

-----------------------------------------------------------------------------
\* The variables have their types, a thread that decodes holds the mutex and
\* nobody else does.
TypeOK ==
    /\ file \in Files /\ viperConfig \in Files /\ loaded \in Files
    /\ mutex \in Threads \cup {NoThread}
    /\ state \in JobSets \cup {Nil} /\ request \in BOOLEAN
    /\ local \in [Threads -> Files]
    /\ pending \subseteq Running
    /\ restarts \in 0 .. MaxRestarts
    /\ {t \in Threads : pc[t] = "unmarshalling"} = {mutex} \ {NoThread}

\* The watchers at most double with each change of the file: a process that
\* lives through n changes has up to 2^n of them, each with its goroutines.
WatchersDouble == Cardinality(Running) <= 2 ^ file.version

\* However loads fall between its two questions, the version endpoint never takes
\* the jobs of a workload that is not there: the second answer may be nil only if
\* a load can take a host's workload away.
AnswerHasJobs == request => HostWorkLoad # NoHost

UpToDate == loaded.version = file.version /\ loaded.jobs = Merged(file.jobs)

\* However the watchers' unlocked reads overtake each other, the process ends
\* with the configuration of the mounted file, if any watcher could see it.
ConfigCatchesUp ==
    <>[](missed \/ UpToDate)

\* The application ends with the jobs of the configuration (worker.go: "support
\* hot reload starting/stopping required consumers pool").
AppFollowsConfig ==
    <>[](loaded.jobs # NoHost => state = loaded.jobs)
=============================================================================
