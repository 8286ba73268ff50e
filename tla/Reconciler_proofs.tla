------------------------- MODULE Reconciler_proofs --------------------------
(***************************************************************************)
(* Proofs about Reconciler for every set of jobs and goroutines, every     *)
(* policy and any number of crashes and failing calls: types, who holds    *)
(* which version of an object, and what follows for the end and for the    *)
(* progress that are on record.                                            *)
(***************************************************************************)
EXTENDS Reconciler, TLAPS

\* The AutoScaler's maps.
StoreInv == Scaler!TypeOK /\ Scaler!IndexInRange

\* TypeOK without the part of the AutoScaler, by group of variables.
ObjectTypes ==
  /\ DOMAIN cr \subseteq Jobs /\ DOMAIN crCache \subseteq DOMAIN cr
  /\ \A j \in DOMAIN cr :
       cr[j] \in [progress : Progress, workers : Nat, status : Conditions]
  /\ \A j \in DOMAIN crCache :
       crCache[j] \in [progress : Progress, status : Conditions]
  /\ crHeld \in [Jobs -> SUBSET ({"cache", "rec"} \cup Sweeps)]

BaseTypes ==
  /\ BaseType(mpi) /\ BaseType(mpiCache)
  /\ mpiFresh \subseteq Jobs
  /\ DOMAIN launcher \subseteq Jobs /\ \A j \in DOMAIN launcher : launcher[j] \in Nat
  /\ podCache \subseteq Jobs

WorkerTypes ==
  /\ queue \subseteq DOMAIN crCache
  /\ rec.pc \in {"idle", "get", "scale", "apply", "list", "delete", "status"}
  /\ rec.pc # "idle" => rec.job \in DOMAIN crCache
  /\ rec.pc \in {"apply", "list", "delete", "status"} => rec.target \in Nat
  /\ rec.pc \in {"list", "delete", "status"} =>
       rec.cond \in {"None", "Running", "Succeeded", "Failed"}
  /\ rec.pc = "delete" => rec.doomed \subseteq Jobs
  /\ faults \in 0 .. MaxFaults

SweepTypes ==
  /\ DOMAIN sweep = Sweeps
  /\ \A g \in Sweeps :
       /\ sweep[g].pc \in {"idle", "compute", "read", "update"}
       /\ sweep[g].pc # "idle" =>
            /\ DOMAIN sweep[g].todo \subseteq DOMAIN crCache
            /\ \A j \in DOMAIN sweep[g].todo : sweep[g].todo[j] \in Progress
       /\ sweep[g].pc \in {"read", "update"} => sweep[g].job \in DOMAIN sweep[g].todo
       /\ sweep[g].pc = "update" => sweep[g].replicas \in Nat

Types == ObjectTypes /\ BaseTypes /\ WorkerTypes /\ SweepTypes

LEMMA TypeParts == TypeOK <=> (Scaler!TypeOK /\ Types)
BY DEF TypeOK, Types, ObjectTypes, BaseTypes, WorkerTypes, SweepTypes

-----------------------------------------------------------------------------
(* The AutoScaler's maps *)

\* What the AutoScaler stores are schedules within the replica range.
LEMMA StoredSchedule ==
  ASSUME StoreInv, NEW u \in DOMAIN schedule
  PROVE  /\ u \in Jobs
         /\ schedule[u] \in Schedules(u) \cup {Fallback(u)}
         /\ scheduleIndex[u] \in DOMAIN schedule[u]
<1>1. schedule[u] \in (UNION {Fitting(u, p) : p \in Progress}) \cup {Fallback(u)}
  BY DEF StoreInv, Scaler!TypeOK
<1>2. \A p \in Progress : Fitting(u, p) \subseteq Schedules(u)
  BY DEF Fitting
<1>3. schedule[u] \in Schedules(u) \cup {Fallback(u)}
  BY <1>1, <1>2
<1> QED  BY <1>3 DEF StoreInv, Scaler!TypeOK, Scaler!IndexInRange

(***************************************************************************)
(* What ScheduleStore assumes holds of the schedules Reconciler gives it.  *)
(***************************************************************************)
THEOREM AssumptionsMet == Scaler!FallbackAssumption
BY DEF Scaler!FallbackAssumption, Fallback

\* GetReplicas answers 0 or a number of replicas the job allows.
LEMMA ReplicasInRange ==
  ASSUME StoreInv, NEW u \in Jobs
  PROVE  GetReplicas(u) \in {0} \cup Levels(u) \cup {MinReplicas[u]}
<1>1. CASE Policy = "fixed"
  BY <1>1 DEF GetReplicas
<1>2. CASE Policy # "fixed" /\ u \in DOMAIN schedule
  BY <1>2, StoredSchedule DEF GetReplicas, Scaler!GetReplicas, Schedules, Fallback
<1>3. CASE Policy # "fixed" /\ u \notin DOMAIN schedule
  BY <1>3 DEF GetReplicas, Scaler!GetReplicas
<1> QED  BY <1>1, <1>2, <1>3

LEMMA RangeNat ==
  ASSUME NEW u \in Jobs
  PROVE  {0} \cup Levels(u) \cup {MinReplicas[u]} \subseteq Nat
BY SpecAssumption DEF Levels, MaxNodes

LEMMA StoreInit == Init => StoreInv
BY DEF Init, StoreInv, Scaler!Init, Scaler!TypeOK, Scaler!IndexInRange, Scaler!EmptyMap

\* Both maps are changed by a call of ComputeSchedule and by a restart only.
LEMMA StoreStep == StoreInv /\ Types /\ [Next]_vars => StoreInv'
<1> SUFFICES ASSUME StoreInv, Types, [Next]_vars PROVE StoreInv'
  OBVIOUS
<1>1. CASE UNCHANGED maps
  BY <1>1 DEF maps, StoreInv, Scaler!TypeOK, Scaler!IndexInRange
<1>2. ASSUME NEW u \in Jobs, NEW p \in Progress, Scaler!ComputeSchedule(u, p)
      PROVE  StoreInv'
  <2>1. CASE Scaler!Advance(u)
    BY <2>1 DEF StoreInv, Scaler!Advance, Scaler!TypeOK, Scaler!IndexInRange
  <2>2. CASE Scaler!Exhaust(u)
    BY <2>2 DEF StoreInv, Scaler!Exhaust, Scaler!TypeOK, Scaler!IndexInRange, Fallback
  <2>3. CASE Scaler!Install(u, p)
    <3> PICK s \in Fitting(u, p) : schedule' = Scaler!Put(schedule, u, s)
      BY <2>3 DEF Scaler!Install
    <3>1. 0 \in DOMAIN s
      BY DeadLineAssumption
    <3>2. /\ schedule' = Scaler!Put(schedule, u, s)
          /\ scheduleIndex' = Scaler!Put(scheduleIndex, u, 0)
      BY <2>3 DEF Scaler!Install
    <3>3. s \in UNION {Fitting(u, q) : q \in Progress}
      OBVIOUS
    <3>4. Scaler!TypeOK'
      <4>1. ASSUME NEW v \in DOMAIN schedule'
            PROVE  schedule'[v] \in (UNION {Fitting(v, q) : q \in Progress}) \cup {Fallback(v)}
        <5>1. CASE v = u
          BY <5>1, <3>2, <3>3 DEF Scaler!Put
        <5>2. CASE v # u
          BY <5>2, <3>2 DEF StoreInv, Scaler!TypeOK, Scaler!Put
        <5> QED  BY <5>1, <5>2
      <4> QED  BY <4>1, <3>2 DEF StoreInv, Scaler!TypeOK, Scaler!Put
    <3>5. Scaler!IndexInRange'
      BY <3>1, <3>2 DEF StoreInv, Scaler!IndexInRange, Scaler!Put
    <3> QED  BY <3>4, <3>5 DEF StoreInv
  <2> QED  BY <1>2, <2>1, <2>2, <2>3 DEF Scaler!ComputeSchedule
<1>3. CASE Scaler!Restart
  BY <1>3 DEF StoreInv, Scaler!Restart, Scaler!TypeOK, Scaler!IndexInRange, Scaler!EmptyMap
<1>4. ASSUME NEW g \in Sweeps, NEW j \in Jobs, Compute(g, j) PROVE StoreInv'
  <2>1. sweep[g].todo[j] \in Progress
    BY <1>4 DEF Compute, Types, SweepTypes
  <2> QED  BY <1>1, <1>2, <1>4, <2>1 DEF Compute
<1>5. ASSUME NEW j \in Jobs, External(j) PROVE UNCHANGED maps
  BY <1>5 DEF External, Submit, ReportProgress, CacheObject, Resync, CacheBase, CachePod,
     StartLauncher, BaseRuns, BaseEnds, BaseStatus
<1>6. ASSUME NEW g \in Sweeps, Post(g) \/ SweepStep(g) PROVE StoreInv'
  BY <1>1, <1>4, <1>6 DEF SweepStep, Post, ComputeFails, ReadReplicas, Update, UpdateFails
<1>7. CASE ReconcileStep
  <2>1. UNCHANGED maps
    BY <1>7 DEF ReconcileStep, Get, Scale, CreateBase, DeleteBase, UpdateBase, KeepStopped,
       ApplyFails, ListLaunchers, DeleteLauncher, LaunchersDeleted, WriteStatus, WriteStatusFails
  <2> QED  BY <1>1, <2>1
<1>8. CASE Crash
  BY <1>3, <1>8 DEF Crash
<1>9. CASE UNCHANGED vars
  BY <1>1, <1>9 DEF vars
<1> QED
  BY <1>1, <1>5, <1>6, <1>7, <1>8, <1>9 DEF Next, Dequeue

-----------------------------------------------------------------------------
(* Types *)

LEMMA TypesInit == Init => Types
BY SystemAssumption DEF Init, Types, ObjectTypes, BaseTypes, WorkerTypes, SweepTypes, BaseType, EmptyMap,
   Resting

\* The objects, their cached copies and the versions.
LEMMA ObjectStep == Types /\ [Next]_vars => ObjectTypes' /\ DOMAIN crCache \subseteq DOMAIN crCache'
<1> SUFFICES ASSUME Types, [Next]_vars
             PROVE  ObjectTypes' /\ DOMAIN crCache \subseteq DOMAIN crCache'
  OBVIOUS
<1> USE DEF Types
<1>1. CASE UNCHANGED objects
  BY <1>1 DEF objects, ObjectTypes
<1>2. Forget("rec") => ObjectTypes' \/ ~ UNCHANGED <<cr, crCache>>
  BY DEF Forget, ObjectTypes
<1>3. ASSUME NEW j \in Jobs, External(j)
      PROVE  ObjectTypes' /\ DOMAIN crCache \subseteq DOMAIN crCache'
  <2>1. CASE Submit(j)
    <3>1. [progress |-> 0, workers |-> MinReplicas[j], status |-> "None"]
             \in [progress : Progress, workers : Nat, status : Conditions]
      BY SpecAssumption DEF Progress, Conditions
    <3> QED  BY <2>1, <3>1 DEF Submit, NewVersion, ObjectTypes, Put
  <2>2. ASSUME NEW p \in Progress, ReportProgress(j, p)
        PROVE  ObjectTypes' /\ UNCHANGED crCache
    BY <2>2 DEF ReportProgress, NewVersion, ObjectTypes, Progress
  <2>3. CASE CacheObject(j)
    BY <2>3 DEF CacheObject, CacheView, ObjectTypes, Put
  <2>4. CASE UNCHANGED objects
    BY <1>1, <2>4 DEF objects
  <2> QED
    BY <1>3, <2>1, <2>2, <2>3, <2>4
    DEF External, Resync, CacheBase, CachePod, StartLauncher, BaseRuns, BaseEnds, BaseStatus
<1>4. ASSUME NEW g \in Sweeps, Post(g) \/ SweepStep(g)
      PROVE  ObjectTypes' /\ UNCHANGED crCache
  <2>1. CASE Post(g)
    BY <2>1 DEF Post, CopyCached, ObjectTypes
  <2>2. ASSUME NEW j \in Jobs, Compute(g, j) \/ ComputeFails(g, j)
        PROVE  ObjectTypes' /\ UNCHANGED crCache
    BY <2>2 DEF Compute, ComputeFails, objects, ObjectTypes
  <2>3. CASE ReadReplicas(g)
    BY <1>1, <2>3 DEF ReadReplicas, objects
  <2>4. CASE Update(g)
    <3> DEFINE j == sweep[g].job
    <3>1. j \in DOMAIN cr /\ sweep[g].todo[j] \in Progress /\ sweep[g].replicas \in Nat
      BY <2>4 DEF Update, SweepTypes, ObjectTypes
    <3> QED  BY <2>4, <3>1 DEF Update, Rescaled, NewVersion, ObjectTypes
  <2>5. CASE UpdateFails(g)
    BY <2>5 DEF UpdateFails, ObjectTypes
  <2> QED  BY <1>4, <2>1, <2>2, <2>3, <2>4, <2>5 DEF SweepStep
<1>5. CASE ReconcileStep
  <2>1. CASE Get
    BY <2>1 DEF Get, Return, Forget, CopyCached, ObjectTypes
  <2>2. CASE Scale \/ KeepStopped \/ ListLaunchers \/ LaunchersDeleted
    BY <1>1, <2>2 DEF Scale, KeepStopped, ListLaunchers, LaunchersDeleted, objects
  <2>3. CASE CreateBase \/ DeleteBase \/ UpdateBase \/ ApplyFails
    BY <1>2, <2>3 DEF CreateBase, DeleteBase, UpdateBase, ApplyFails, Requeue, Answered, ObjectTypes
  <2>4. ASSUME NEW p \in Jobs, DeleteLauncher(p)
        PROVE  ObjectTypes' /\ UNCHANGED crCache
    BY <1>2, <2>4 DEF DeleteLauncher, Return, ObjectTypes
  <2>5. CASE WriteStatus
    <3>1. rec.job \in DOMAIN cr /\ JobStatus \in Conditions
      BY <2>5 DEF WriteStatus, WorkerTypes, ObjectTypes, JobStatus, Conditions
    <3> QED  BY <2>5, <3>1 DEF WriteStatus, NewVersion, Forget, ObjectTypes
  <2>6. CASE WriteStatusFails
    BY <1>2, <2>6 DEF WriteStatusFails, Return
  <2> QED  BY <1>5, <2>1, <2>2, <2>3, <2>4, <2>5, <2>6 DEF ReconcileStep
<1>6. CASE Crash
  BY <1>6 DEF Crash, CacheView, ObjectTypes
<1> QED
  BY <1>1, <1>3, <1>4, <1>5, <1>6 DEF Next, Dequeue, vars, objects

\* The MPIJobs, the launchers and their caches.
LEMMA BaseStep == StoreInv /\ Types /\ [Next]_vars => BaseTypes'
<1> SUFFICES ASSUME StoreInv, Types, [Next]_vars PROVE BaseTypes'
  OBVIOUS
<1> USE DEF Types
<1>1. CASE UNCHANGED <<bases, pods>>
  BY <1>1 DEF bases, pods, BaseTypes, BaseType
<1>2. ASSUME NEW j \in Jobs, External(j) PROVE BaseTypes'
  <2>1. CASE UNCHANGED <<bases, pods>>
    BY <1>1, <2>1
  <2>2. CASE CacheBase(j)
    BY <2>2 DEF CacheBase, BaseTypes, BaseType, Put, Drop, pods
  <2>3. CASE CachePod(j)
    BY <2>3 DEF CachePod, BaseTypes, BaseType, bases
  <2>4. CASE StartLauncher(j)
    BY <2>4 DEF StartLauncher, BaseTypes, BaseType, Put, bases
  <2>5. ASSUME NEW c \in {"Running", "Succeeded", "Failed"}, NEW d, BaseStatus(j, d, c)
        PROVE  BaseTypes'
    BY <2>5 DEF BaseStatus, BaseTypes, BaseType, pods
  <2>6. CASE BaseRuns(j)
    BY <2>5, <2>6 DEF BaseRuns
  <2>7. CASE BaseEnds(j)
    BY <2>5, <2>7, SystemAssumption DEF BaseEnds
  <2> QED
    BY <1>2, <2>1, <2>2, <2>3, <2>4, <2>6, <2>7
    DEF External, Submit, ReportProgress, CacheObject, Resync
<1>3. ASSUME NEW g \in Sweeps, Post(g) \/ SweepStep(g) PROVE BaseTypes'
  BY <1>1, <1>3 DEF Post, SweepStep, Compute, ComputeFails, ReadReplicas, Update, UpdateFails
<1>4. CASE ReconcileStep
  <2>1. CASE UNCHANGED <<bases, pods>>
    BY <1>1, <2>1
  <2>2. CASE CreateBase
    BY <2>2 DEF CreateBase, BaseTypes, BaseType, WorkerTypes, ObjectTypes, Put, pods
  <2>3. CASE DeleteBase
    BY <2>3 DEF DeleteBase, BaseTypes, BaseType, Drop
  <2>4. CASE UpdateBase
    BY <2>4 DEF UpdateBase, BaseFound, Updated, BaseTypes, BaseType, WorkerTypes, ObjectTypes, pods
  <2>5. ASSUME NEW p \in Jobs, DeleteLauncher(p) PROVE BaseTypes'
    BY <2>5 DEF DeleteLauncher, BaseTypes, BaseType, Drop, bases
  <2> QED
    BY <1>4, <2>1, <2>2, <2>3, <2>4, <2>5
    DEF ReconcileStep, Get, Scale, KeepStopped, ApplyFails, ListLaunchers, LaunchersDeleted,
        WriteStatus, WriteStatusFails
<1>5. CASE Crash
  BY <1>5 DEF Crash, BaseTypes, BaseType
<1> QED
  BY <1>1, <1>2, <1>3, <1>4, <1>5 DEF Next, Dequeue, vars

\* The queue and the worker.
LEMMA WorkerStep == StoreInv /\ Types /\ [Next]_vars => WorkerTypes'
<1> SUFFICES ASSUME StoreInv, Types, [Next]_vars PROVE WorkerTypes'
  OBVIOUS
<1> USE DEF Types
<1>1. DOMAIN crCache \subseteq DOMAIN crCache'
  BY ObjectStep
<1>2. CASE UNCHANGED <<queue, rec, faults>>
  BY <1>1, <1>2 DEF WorkerTypes
<1>4. ASSUME Return \/ (rec.pc # "idle" /\ Requeue), faults' \in 0 .. MaxFaults
      PROVE  WorkerTypes'
  BY <1>1, <1>4 DEF Return, Requeue, Resting, WorkerTypes
<1>5. ASSUME NEW j \in Jobs, External(j) PROVE WorkerTypes'
  <2>1. CASE CacheObject(j)
    BY <1>1, <2>1 DEF CacheObject, WorkerTypes, Put
  <2>2. CASE Resync(j)
    BY <1>1, <2>2 DEF Resync, WorkerTypes
  <2> QED
    BY <1>2, <1>5, <2>1, <2>2
    DEF External, Submit, ReportProgress, CacheBase, CachePod, StartLauncher, BaseRuns,
        BaseEnds, BaseStatus
<1>6. ASSUME NEW g \in Sweeps, Post(g) \/ SweepStep(g) PROVE WorkerTypes'
  <2>1. CASE UpdateFails(g)
    BY <1>1, <2>1, SystemAssumption DEF UpdateFails, WorkerTypes
  <2> QED
    BY <1>2, <1>6, <2>1 DEF Post, SweepStep, Compute, ComputeFails, ReadReplicas, Update
<1>7. ASSUME NEW j \in Jobs, Dequeue(j) PROVE WorkerTypes'
  BY <1>1, <1>7 DEF Dequeue, WorkerTypes
<1>8. CASE ReconcileStep
  <2>1. faults \in 0 .. MaxFaults /\ (faults > 0 => faults - 1 \in 0 .. MaxFaults)
    BY SystemAssumption DEF WorkerTypes
  <2>2. CASE Get
    BY <1>1, <1>4, <2>1, <2>2 DEF Get, WorkerTypes
  <2>3. CASE Scale
    <3>1. GetReplicas(rec.job) \in Nat
      BY <2>3, ReplicasInRange, RangeNat DEF Scale, WorkerTypes, ObjectTypes
    <3> QED  BY <1>1, <2>3, <3>1 DEF Scale, WorkerTypes
  <2>4. ASSUME NEW q \in {"list", "status"},
               NEW c \in {"None", "Running", "Succeeded", "Failed"},
               rec.pc # "idle", rec.target \in Nat, rec' = Proceed(q, c),
               UNCHANGED <<queue, faults>>
        PROVE  WorkerTypes'
    BY <1>1, <2>4 DEF Proceed, WorkerTypes
  <2>5. ASSUME NEW q \in {"list", "status"},
               NEW c \in {"None", "Running", "Succeeded", "Failed"},
               rec.pc = "apply", Answered(Proceed(q, c))
        PROVE  WorkerTypes'
    BY <1>4, <2>1, <2>4, <2>5 DEF Answered, WorkerTypes
  <2>6. CASE CreateBase
    BY <1>4, <2>1, <2>5, <2>6 DEF CreateBase
  <2>7. CASE DeleteBase
    BY <1>4, <2>1, <2>5, <2>7 DEF DeleteBase
  <2>8. CASE UpdateBase
    <3>1. mpiCache[rec.job].cond \in {"None", "Running", "Succeeded", "Failed"}
      BY <2>8 DEF UpdateBase, BaseFound, BaseTypes, BaseType
    <3> QED  BY <1>4, <2>1, <2>5, <2>8, <3>1 DEF UpdateBase
  <2>9. CASE KeepStopped \/ LaunchersDeleted
    BY <2>4, <2>9 DEF KeepStopped, LaunchersDeleted, WorkerTypes
  <2>10. CASE ApplyFails
    BY <1>4, <2>1, <2>10 DEF ApplyFails
  <2>11. CASE ListLaunchers
    BY <1>1, <2>11 DEF ListLaunchers, Deleting, WorkerTypes, BaseTypes
  <2>12. ASSUME NEW p \in Jobs, DeleteLauncher(p) PROVE WorkerTypes'
    BY <1>1, <1>4, <2>1, <2>12 DEF DeleteLauncher, Deleting, WorkerTypes
  <2>13. CASE WriteStatus
    BY <1>1, <2>13 DEF WriteStatus, Resting, WorkerTypes
  <2>14. CASE WriteStatusFails
    BY <1>4, <2>1, <2>14 DEF WriteStatusFails
  <2> QED
    BY <1>8, <2>2, <2>3, <2>6, <2>7, <2>8, <2>9, <2>10, <2>11, <2>12, <2>13, <2>14
    DEF ReconcileStep
<1>9. CASE Crash
  BY <1>9, SystemAssumption DEF Crash, WorkerTypes, Resting
<1> QED
  BY <1>2, <1>5, <1>6, <1>7, <1>8, <1>9 DEF Next, vars

\* The goroutines.
LEMMA SweepTypesStep == StoreInv /\ Types /\ [Next]_vars => SweepTypes'
<1> SUFFICES ASSUME StoreInv, Types, [Next]_vars PROVE SweepTypes'
  OBVIOUS
<1> USE DEF Types
<1>1. DOMAIN crCache \subseteq DOMAIN crCache'
  BY ObjectStep
<1>2. CASE UNCHANGED sweep
  BY <1>1, <1>2 DEF SweepTypes
<1>3. ASSUME NEW j \in Jobs, External(j) \/ Dequeue(j) PROVE UNCHANGED sweep
  BY <1>3
  DEF External, Submit, ReportProgress, CacheObject, Resync, CacheBase, CachePod, StartLauncher,
      BaseRuns, BaseEnds, BaseStatus, Dequeue
<1>4. CASE ReconcileStep
  <2>1. UNCHANGED sweep
    BY <1>4
    DEF ReconcileStep, Get, Scale, CreateBase, DeleteBase, UpdateBase, KeepStopped, ApplyFails,
        ListLaunchers, DeleteLauncher, LaunchersDeleted, WriteStatus, WriteStatusFails
  <2> QED  BY <1>2, <2>1
<1>5. ASSUME NEW g \in Sweeps, Post(g) \/ SweepStep(g) PROVE SweepTypes'
  <2>1. CASE Post(g)
    BY <1>1, <2>1 DEF Post, SweepTypes, ObjectTypes
  <2>2. ASSUME NEW j \in Jobs, Compute(g, j) PROVE SweepTypes'
    BY <1>1, <2>2 DEF Compute, SweepTypes
  <2>3. ASSUME NEW j, NextJob(g, j), sweep[g].pc # "idle" PROVE SweepTypes'
    BY <1>1, <2>3 DEF NextJob, Drop, Resting, SweepTypes
  <2>4. CASE ReadReplicas(g)
    <3>1. GetReplicas(sweep[g].job) \in Nat
      BY <2>4, ReplicasInRange, RangeNat DEF ReadReplicas, SweepTypes, ObjectTypes
    <3> QED  BY <1>1, <2>4, <3>1 DEF ReadReplicas, SweepTypes
  <2> QED
    BY <1>5, <2>1, <2>2, <2>3, <2>4 DEF SweepStep, ComputeFails, Update, UpdateFails
<1>6. CASE Crash
  BY <1>6 DEF Crash, Resting, SweepTypes
<1> QED
  BY <1>2, <1>3, <1>4, <1>5, <1>6 DEF Next, vars

LEMMA TypesInvariance == Safety => [](StoreInv /\ Types)
<1>1. StoreInv /\ Types /\ [Next]_vars => (StoreInv /\ Types)'
  BY StoreStep, ObjectStep, BaseStep, WorkerStep, SweepTypesStep DEF Types
<1> QED  BY StoreInit, TypesInit, <1>1, PTL DEF Safety

(***************************************************************************)
(* Every variable keeps its type, whatever fails and in whatever order the *)
(* threads, the caches and the cluster take their steps; in particular no  *)
(* thread ever works on a job the cache does not have.                     *)
(***************************************************************************)
THEOREM TypeCorrect == Safety => []TypeOK
<1>1. StoreInv /\ Types => TypeOK
  BY TypeParts DEF StoreInv
<1> QED  BY TypesInvariance, <1>1, PTL

-----------------------------------------------------------------------------
(* Versions *)

\* HeldIsCurrent, for one holder of the current version of one object.
CacheCurrent(j) ==
  "cache" \in crHeld[j] => j \in DOMAIN crCache /\ crCache[j] = CacheView(cr[j])

WorkerCurrent(j) ==
  "rec" \in crHeld[j] =>
    rec.pc \notin {"idle", "get"} /\ rec.job = j /\ ~Terminal(cr[j].status)

SweepCurrent(j) ==
  \A g \in Sweeps \cap crHeld[j] :
    sweep[g].pc # "idle" /\ j \in DOMAIN sweep[g].todo /\ sweep[g].todo[j] = cr[j].progress

LEMMA HeldParts ==
  HeldIsCurrent <=> \A j \in Jobs :
    (crHeld[j] # {} => j \in DOMAIN cr) /\ CacheCurrent(j) /\ WorkerCurrent(j) /\ SweepCurrent(j)
BY DEF HeldIsCurrent, CacheCurrent, WorkerCurrent, SweepCurrent

LEMMA HeldInit == Init => HeldIsCurrent
BY DEF Init, HeldIsCurrent

(***************************************************************************)
(* A write gives the object a version nobody holds; every other step gives *)
(* the version only to who reads a copy of the cached object that is       *)
(* current, and takes it from who is done with the copy.                   *)
(***************************************************************************)
LEMMA HeldStep == Types /\ HeldIsCurrent /\ [Next]_vars => HeldIsCurrent'
<1> SUFFICES ASSUME Types, HeldIsCurrent, [Next]_vars PROVE HeldIsCurrent'
  OBVIOUS
<1> USE DEF Types
<1>a. DOMAIN crHeld = Jobs /\ DOMAIN sweep = Sweeps
  BY DEF ObjectTypes, SweepTypes
<1>1. CASE UNCHANGED <<cr, crCache, crHeld, rec, sweep>>
  BY <1>1 DEF HeldIsCurrent
<1>2. ASSUME rec' = Resting, Forget("rec"), UNCHANGED <<cr, crCache, sweep>>
      PROVE  HeldIsCurrent'
  BY <1>2, SystemAssumption DEF Forget, HeldIsCurrent
<1>3. ASSUME rec.pc \notin {"idle", "get"}, rec'.pc \notin {"idle", "get"}, rec'.job = rec.job,
             UNCHANGED <<cr, crCache, crHeld, sweep>>
      PROVE  HeldIsCurrent'
  BY <1>3 DEF HeldIsCurrent
<1>4. ASSUME NEW k \in Jobs, External(k) PROVE HeldIsCurrent'
  <2>1. CASE UNCHANGED <<cr, crCache, crHeld, rec, sweep>>
    BY <1>1, <2>1
  <2>2. CASE Submit(k)
    BY <1>a, <2>2 DEF Submit, NewVersion, HeldIsCurrent, Put
  <2>3. ASSUME NEW p \in Progress, ReportProgress(k, p) PROVE HeldIsCurrent'
    BY <1>a, <2>3 DEF ReportProgress, NewVersion, HeldIsCurrent
  <2>4. CASE CacheObject(k)
    BY <1>a, <2>4, SystemAssumption DEF CacheObject, HeldIsCurrent, Put
  <2> QED
    BY <1>4, <2>1, <2>2, <2>3, <2>4
    DEF External, Resync, CacheBase, CachePod, StartLauncher, BaseRuns, BaseEnds, BaseStatus,
        objects
<1>5. ASSUME NEW g \in Sweeps, Post(g) \/ SweepStep(g) PROVE HeldIsCurrent'
  <2>1. CASE Post(g)
    BY <1>a, <2>1, SystemAssumption DEF Post, CopyCached, CacheView, Resting, HeldIsCurrent
  <2>2. ASSUME sweep'[g].pc # "idle", sweep'[g].todo = sweep[g].todo,
               \A h \in Sweeps \ {g} : sweep'[h] = sweep[h],
               UNCHANGED <<cr, crCache, crHeld, rec>>
        PROVE  HeldIsCurrent'
    BY <2>2 DEF HeldIsCurrent
  <2>3. ASSUME NEW j \in Jobs, Compute(g, j) PROVE HeldIsCurrent'
    BY <1>a, <2>2, <2>3 DEF Compute, objects
  <2>4. CASE ReadReplicas(g)
    BY <1>a, <2>2, <2>4 DEF ReadReplicas, objects
  <2>5. ASSUME NEW j \in Jobs, NextJob(g, j), g \notin crHeld'[j],
               \A k \in Jobs : crHeld'[k] \subseteq crHeld[k],
               \A k \in Jobs : crHeld'[k] # {} => k \in DOMAIN cr' /\ cr'[k] = cr[k],
               UNCHANGED <<crCache, rec>>
        PROVE  HeldIsCurrent'
    <3>1. \A h \in Sweeps \ {g} : sweep'[h] = sweep[h]
      BY <1>a, <2>5 DEF NextJob
    <3>2. ASSUME NEW k \in Jobs, g \in crHeld'[k]
          PROVE  sweep'[g].pc # "idle" /\ k \in DOMAIN sweep'[g].todo /\ sweep'[g].todo[k] = cr[k].progress
      <4>1. k # j /\ k \in DOMAIN sweep[g].todo /\ sweep[g].todo[k] = cr[k].progress
        BY <2>5, <3>2 DEF HeldIsCurrent
      <4>2. Drop(sweep[g].todo, j) # EmptyMap
        BY <4>1 DEF Drop, EmptyMap
      <4>3. sweep'[g] = [pc |-> "compute", todo |-> Drop(sweep[g].todo, j)]
        BY <1>a, <2>5, <4>2 DEF NextJob
      <4> QED  BY <4>1, <4>3 DEF Drop
    <3> QED  BY <2>5, <3>1, <3>2 DEF HeldIsCurrent
  <2>6. ASSUME NEW j \in Jobs, ComputeFails(g, j) PROVE HeldIsCurrent'
    BY <1>a, <2>5, <2>6 DEF ComputeFails, HeldIsCurrent
  <2>7. CASE Update(g)
    <3> DEFINE j == sweep[g].job
    <3>1. j \in Jobs
      BY <2>7 DEF Update, SweepTypes, ObjectTypes
    <3>2. \A k \in Jobs : crHeld'[k] # {} => cr'[k] = cr[k] /\ k \in DOMAIN cr'
      BY <1>a, <2>7 DEF Update, Rescaled, NewVersion, HeldIsCurrent
    <3> QED  BY <1>a, <2>5, <2>7, <3>1, <3>2 DEF Update, NewVersion
  <2>8. CASE UpdateFails(g)
    <3>1. sweep[g].job \in Jobs
      BY <2>8 DEF UpdateFails, SweepTypes, ObjectTypes
    <3> QED  BY <1>a, <2>5, <2>8, <3>1 DEF UpdateFails, HeldIsCurrent
  <2> QED  BY <1>5, <2>1, <2>3, <2>4, <2>6, <2>7, <2>8 DEF SweepStep
<1>6. ASSUME NEW j \in Jobs, Dequeue(j) PROVE HeldIsCurrent'
  BY <1>6 DEF Dequeue, Resting, objects, HeldIsCurrent
<1>7. CASE ReconcileStep
  <2>1. CASE Get
    <3>1. rec.job \in Jobs
      BY <2>1 DEF Get, WorkerTypes, ObjectTypes
    <3>2. CASE Return
      BY <1>2, <2>1, <3>2 DEF Get, Return
    <3>3. CASE ~Terminal(crCache[rec.job].status)
      BY <1>a, <2>1, <3>1, <3>3, SystemAssumption DEF Get, CopyCached, CacheView, HeldIsCurrent
    <3> QED  BY <2>1, <3>2, <3>3 DEF Get
  <2>2. CASE Scale
    BY <1>3, <2>2 DEF Scale, objects
  <2>3. ASSUME NEW q \in {"list", "status"}, NEW c, rec.pc = "apply", Answered(Proceed(q, c)),
               UNCHANGED <<cr, crCache, sweep>>
        PROVE  HeldIsCurrent'
    BY <1>2, <1>3, <2>3 DEF Answered, Proceed, Requeue
  <2>4. CASE CreateBase
    BY <1>2, <2>3, <2>4 DEF CreateBase, Requeue
  <2>5. CASE DeleteBase
    BY <1>2, <2>3, <2>5 DEF DeleteBase, Requeue
  <2>6. CASE UpdateBase
    BY <1>2, <2>3, <2>6 DEF UpdateBase, Requeue
  <2>7. CASE KeepStopped \/ LaunchersDeleted
    BY <1>3, <2>7 DEF KeepStopped, LaunchersDeleted, Proceed, objects
  <2>8. CASE ApplyFails
    BY <1>2, <2>8 DEF ApplyFails, Requeue
  <2>9. CASE ListLaunchers
    BY <1>3, <2>9 DEF ListLaunchers, Deleting, objects
  <2>10. ASSUME NEW p \in Jobs, DeleteLauncher(p) PROVE HeldIsCurrent'
    BY <1>2, <1>3, <2>10 DEF DeleteLauncher, Deleting, Return
  <2>11. CASE WriteStatus
    <3>1. rec.job \in Jobs
      BY <2>11 DEF WriteStatus, WorkerTypes, ObjectTypes
    <3>2. CASE NewVersion(rec.job)
      BY <1>a, <2>11, <3>1, <3>2 DEF WriteStatus, NewVersion, HeldIsCurrent
    <3>3. CASE cr' = cr /\ Forget("rec")
      BY <1>2, <2>11, <3>3 DEF WriteStatus
    <3> QED  BY <2>11, <3>2, <3>3 DEF WriteStatus
  <2>12. CASE WriteStatusFails
    BY <1>2, <2>12 DEF WriteStatusFails, Return
  <2> QED
    BY <1>7, <2>1, <2>2, <2>4, <2>5, <2>6, <2>7, <2>8, <2>9, <2>10, <2>11, <2>12
    DEF ReconcileStep
<1>8. CASE Crash
  BY <1>8, SystemAssumption DEF Crash, HeldIsCurrent
<1> QED
  BY <1>1, <1>4, <1>5, <1>6, <1>7, <1>8 DEF Next, vars, objects

Inv == StoreInv /\ Types /\ HeldIsCurrent

LEMMA Invariance == Safety => []Inv
<1>1. HeldIsCurrent /\ StoreInv /\ Types /\ [Next]_vars => HeldIsCurrent'
  BY HeldStep
<1> QED  BY TypesInvariance, HeldInit, <1>1, PTL DEF Safety, Inv

(***************************************************************************)
(* Who holds the current version of an object has read what is in it.      *)
(***************************************************************************)
THEOREM VersionsHeld == Safety => []HeldIsCurrent
<1>1. Inv => HeldIsCurrent  BY DEF Inv
<1> QED  BY Invariance, <1>1, PTL

-----------------------------------------------------------------------------
(* What is on record *)

(***************************************************************************)
(* A step that writes an object that exists is a report of the status      *)
(* server, an update of ScheduleJob or a status write of Reconcile, and    *)
(* each leaves alone what it does not mean to change.                      *)
(***************************************************************************)
LEMMA Writes ==
  ASSUME Inv, [Next]_vars, NEW j \in DOMAIN cr
  PROVE  /\ \/ cr'[j].progress = cr[j].progress
            \/ \E p \in Progress : ReportProgress(j, p)
         /\ \/ cr'[j].status = cr[j].status
            \/ WriteStatus /\ j = rec.job /\ ~Terminal(cr[j].status) /\ cr'[j].status = JobStatus
<1> USE DEF Inv, Types
<1>1. j \in Jobs /\ cr[j] \in [progress : Progress, workers : Nat, status : Conditions]
  BY DEF ObjectTypes
<1>2. CASE cr'[j] = cr[j]
  BY <1>1, <1>2
<1>3. ASSUME NEW k \in Jobs, Submit(k) PROVE cr'[j] = cr[j]
  BY <1>3 DEF Submit, Put
<1>4. ASSUME NEW k \in Jobs, NEW p \in Progress, ReportProgress(k, p)
      PROVE  cr'[j].status = cr[j].status /\ (k = j \/ cr'[j] = cr[j])
  BY <1>1, <1>4 DEF ReportProgress
<1>5. ASSUME NEW g \in Sweeps, Update(g)
      PROVE  cr'[j].status = cr[j].status /\ cr'[j].progress = cr[j].progress
  BY <1>1, <1>5 DEF Update, Rescaled, HeldIsCurrent
<1>6. CASE WriteStatus
  <2>1. CASE j = rec.job
    BY <1>1, <1>6, <2>1 DEF WriteStatus, HeldIsCurrent
  <2>2. CASE j # rec.job
    BY <1>2, <1>6, <2>2 DEF WriteStatus
  <2> QED  BY <2>1, <2>2
<1>7. ASSUME NEW k \in Jobs, External(k)
      PROVE  UNCHANGED cr \/ Submit(k) \/ \E p \in Progress : ReportProgress(k, p)
  BY <1>7
  DEF External, CacheObject, Resync, CacheBase, CachePod, StartLauncher, BaseRuns, BaseEnds,
      BaseStatus, objects
<1>8. ASSUME NEW g \in Sweeps, Post(g) \/ SweepStep(g) PROVE UNCHANGED cr \/ Update(g)
  BY <1>8 DEF Post, SweepStep, Compute, ComputeFails, ReadReplicas, UpdateFails, objects
<1>9. CASE ReconcileStep
  <2>1. UNCHANGED cr \/ WriteStatus
    BY <1>9
    DEF ReconcileStep, Get, Scale, CreateBase, DeleteBase, UpdateBase, KeepStopped, ApplyFails,
        ListLaunchers, DeleteLauncher, LaunchersDeleted, WriteStatusFails, objects
  <2> QED  BY <1>2, <1>6, <2>1
<1> QED
  BY <1>1, <1>2, <1>3, <1>4, <1>5, <1>7, <1>8, <1>9 DEF Next, Dequeue, Crash, vars, objects

(***************************************************************************)
(* A recorded end is final (carbonscalermpijob_controller.go:90-93 and     *)
(* 216-218), whatever the caches show, crash or not.                       *)
(***************************************************************************)
THEOREM EndIsFinal == Safety => TerminalStatusFinal
<1>1. Inv /\ [Next]_vars =>
        [\A j \in DOMAIN cr : Terminal(cr[j].status) => cr'[j].status = cr[j].status]_vars
  BY Writes
<1> QED  BY Invariance, <1>1, PTL DEF Safety, TerminalStatusFinal

(***************************************************************************)
(* Reported progress is never set back by the whole-object update of       *)
(* ScheduleJob (carbonscalermpijob_controller.go:401-424), for any number  *)
(* of goroutines and reports.                                              *)
(***************************************************************************)
THEOREM ProgressKept == Safety => ProgressNeverLost
<1>1. Inv /\ [Next]_vars =>
        [\A j \in DOMAIN cr :
           cr'[j].progress # cr[j].progress => \E p \in Progress : ReportProgress(j, p)]_vars
  BY Writes
<1> QED  BY Invariance, <1>1, PTL DEF Safety, ProgressNeverLost

-----------------------------------------------------------------------------
(* The MPIJobs *)

\* What the worker and the cache know of the MPIJobs is so, and the number
\* of workers is always one the job allows.
Replicas(j) == Levels(j) \cup {MinReplicas[j]}

BaseKnown ==
  /\ \A j \in mpiFresh :
       /\ j \in DOMAIN mpi <=> j \in DOMAIN mpiCache
       /\ j \in DOMAIN mpi => mpi[j] = mpiCache[j]
  /\ rec.pc \in {"list", "delete", "status"} /\ rec.target # 0 /\ Terminal(rec.cond) =>
       rec.job \in DOMAIN mpi /\ mpi[rec.job].cond = rec.cond

TargetInRange ==
  rec.pc \in {"apply", "list", "delete", "status"} =>
    rec.target \in {0} \cup Replicas(rec.job)

LEMMA BaseInit == Init => BaseKnown /\ TargetInRange /\ BaseInRange
BY DEF Init, BaseKnown, TargetInRange, BaseInRange, EmptyMap, Resting

LEMMA KnownStep == Types /\ BaseKnown /\ [Next]_vars => BaseKnown'
<1> SUFFICES ASSUME Types, BaseKnown, [Next]_vars PROVE BaseKnown'
  OBVIOUS
<1> USE DEF Types
<1>1. CASE UNCHANGED <<bases, rec>>
  BY <1>1 DEF bases, BaseKnown
<1>2. ASSUME rec' = Resting, UNCHANGED bases PROVE BaseKnown'
  BY <1>2 DEF bases, Resting, BaseKnown
<1>3. ASSUME NEW j \in Jobs, External(j) PROVE BaseKnown'
  <2>1. CASE CacheBase(j)
    BY <2>1 DEF CacheBase, Put, Drop, BaseKnown
  <2>2. ASSUME NEW d, NEW c, BaseStatus(j, d, c), ~Terminal(d) PROVE BaseKnown'
    BY <2>2 DEF BaseStatus, Terminal, BaseTypes, BaseType, BaseKnown
  <2> QED
    BY <1>1, <1>3, <2>1, <2>2
    DEF External, Submit, ReportProgress, CacheObject, Resync, CachePod, StartLauncher,
        BaseRuns, BaseEnds, Terminal
<1>4. ASSUME NEW g \in Sweeps, Post(g) \/ SweepStep(g) PROVE BaseKnown'
  BY <1>1, <1>4 DEF Post, SweepStep, Compute, ComputeFails, ReadReplicas, Update, UpdateFails
<1>5. ASSUME NEW j \in Jobs, Dequeue(j) PROVE BaseKnown'
  BY <1>5 DEF Dequeue, bases, BaseKnown
<1>6. CASE ReconcileStep
  <2>1. CASE Get
    BY <1>2, <2>1 DEF Get, Return, bases, BaseKnown
  <2>2. CASE Scale
    BY <2>2 DEF Scale, bases, BaseKnown
  <2>3. CASE CreateBase
    BY <2>3 DEF CreateBase, Answered, Proceed, Requeue, Resting, Put, Terminal, BaseKnown
  <2>4. CASE DeleteBase
    BY <2>4 DEF DeleteBase, Answered, Proceed, Requeue, Resting, Drop, Terminal, BaseKnown
  <2>5. CASE UpdateBase
    BY <2>5 DEF UpdateBase, BaseFound, Updated, Answered, Proceed, Requeue, Resting, BaseKnown
  <2>6. CASE KeepStopped \/ LaunchersDeleted
    BY <2>6 DEF KeepStopped, LaunchersDeleted, Proceed, Terminal, bases, BaseKnown
  <2>7. CASE ApplyFails
    BY <1>2, <2>7 DEF ApplyFails, Requeue
  <2>8. CASE ListLaunchers
    BY <2>8 DEF ListLaunchers, Deleting, bases, BaseKnown
  <2>9. ASSUME NEW p \in Jobs, DeleteLauncher(p) PROVE BaseKnown'
    BY <1>2, <2>9 DEF DeleteLauncher, Deleting, Return, bases, BaseKnown
  <2>10. CASE WriteStatus \/ WriteStatusFails
    BY <1>2, <2>10 DEF WriteStatus, WriteStatusFails, Return
  <2> QED
    BY <1>6, <2>1, <2>2, <2>3, <2>4, <2>5, <2>6, <2>7, <2>8, <2>9, <2>10 DEF ReconcileStep
<1>7. CASE Crash
  BY <1>7 DEF Crash, Resting, BaseKnown
<1> QED
  BY <1>1, <1>3, <1>4, <1>5, <1>6, <1>7 DEF Next, vars

LEMMA TargetStep == StoreInv /\ Types /\ TargetInRange /\ [Next]_vars => TargetInRange'
<1> SUFFICES ASSUME StoreInv, Types, TargetInRange, [Next]_vars PROVE TargetInRange'
  OBVIOUS
<1> USE DEF Types
<1>1. CASE rec'.pc \notin {"apply", "list", "delete", "status"}
  BY <1>1 DEF TargetInRange
<1>2. CASE /\ rec.pc \in {"apply", "list", "delete", "status"}
           /\ rec'.job = rec.job /\ rec'.target = rec.target
  BY <1>2 DEF TargetInRange, Replicas
<1>3. CASE UNCHANGED rec
  BY <1>3 DEF TargetInRange, Replicas
<1>4. ASSUME NEW j \in Jobs, External(j) PROVE UNCHANGED rec
  BY <1>4
  DEF External, Submit, ReportProgress, CacheObject, Resync, CacheBase, CachePod, StartLauncher,
      BaseRuns, BaseEnds, BaseStatus
<1>5. ASSUME NEW g \in Sweeps, Post(g) \/ SweepStep(g) PROVE UNCHANGED rec
  BY <1>5 DEF Post, SweepStep, Compute, ComputeFails, ReadReplicas, Update, UpdateFails
<1>6. ASSUME NEW j \in Jobs, Dequeue(j) PROVE rec'.pc = "get"
  BY <1>6 DEF Dequeue
<1>7. CASE Scale
  <2>1. GetReplicas(rec.job) \in {0} \cup Replicas(rec.job)
    BY <1>7, ReplicasInRange DEF Scale, WorkerTypes, ObjectTypes, Replicas
  <2> QED  BY <1>7, <2>1 DEF Scale, TargetInRange, Replicas
<1>8. CASE ReconcileStep
  <2>1. ASSUME NEW q, NEW c, Answered(Proceed(q, c)), rec.pc = "apply" PROVE TargetInRange'
    BY <1>1, <1>2, <2>1 DEF Answered, Proceed, Requeue, Resting
  <2>2. CASE Get
    BY <1>1, <2>2 DEF Get, Return, Resting
  <2>3. CASE CreateBase \/ DeleteBase \/ UpdateBase
    BY <1>1, <2>1, <2>3 DEF CreateBase, DeleteBase, UpdateBase, Requeue, Resting
  <2>4. CASE KeepStopped \/ ListLaunchers \/ LaunchersDeleted
    BY <1>2, <2>4 DEF KeepStopped, ListLaunchers, LaunchersDeleted, Proceed, Deleting
  <2>5. ASSUME NEW p \in Jobs, DeleteLauncher(p) PROVE TargetInRange'
    BY <1>1, <1>2, <2>5 DEF DeleteLauncher, Deleting, Return, Resting
  <2>6. CASE ApplyFails \/ WriteStatus \/ WriteStatusFails
    BY <1>1, <2>6 DEF ApplyFails, WriteStatus, WriteStatusFails, Return, Requeue, Resting
  <2> QED  BY <1>7, <1>8, <2>2, <2>3, <2>4, <2>5, <2>6 DEF ReconcileStep
<1>9. CASE Crash
  BY <1>1, <1>9 DEF Crash, Resting
<1> QED
  BY <1>1, <1>3, <1>4, <1>5, <1>6, <1>8, <1>9 DEF Next, vars

LEMMA RangeStep == Types /\ TargetInRange /\ BaseInRange /\ [Next]_vars => BaseInRange'
<1> SUFFICES ASSUME Types, TargetInRange, BaseInRange, [Next]_vars PROVE BaseInRange'
  OBVIOUS
<1> USE DEF Types
<1>1. CASE UNCHANGED mpi
  BY <1>1 DEF BaseInRange
<1>2. ASSUME NEW j \in Jobs, External(j) PROVE BaseInRange'
  <2>1. ASSUME NEW d, NEW c, BaseStatus(j, d, c) PROVE BaseInRange'
    BY <2>1 DEF BaseStatus, BaseTypes, BaseType, BaseInRange
  <2> QED
    BY <1>1, <1>2, <2>1
    DEF External, Submit, ReportProgress, CacheObject, Resync, CacheBase, CachePod,
        StartLauncher, BaseRuns, BaseEnds, bases
<1>3. ASSUME NEW g \in Sweeps, Post(g) \/ SweepStep(g) PROVE UNCHANGED mpi
  BY <1>3 DEF Post, SweepStep, Compute, ComputeFails, ReadReplicas, Update, UpdateFails, bases
<1>4. CASE ReconcileStep
  <2>1. CASE CreateBase \/ UpdateBase
    <3>1. rec.target \in Levels(rec.job) \cup {MinReplicas[rec.job]}
      BY <2>1 DEF CreateBase, UpdateBase, ShouldStop, TargetInRange, Replicas
    <3> QED  BY <2>1, <3>1 DEF CreateBase, UpdateBase, Updated, Put, BaseInRange
  <2>2. CASE DeleteBase
    BY <2>2 DEF DeleteBase, Drop, BaseInRange
  <2> QED
    BY <1>1, <1>4, <2>1, <2>2
    DEF ReconcileStep, Get, Scale, KeepStopped, ApplyFails, ListLaunchers, DeleteLauncher,
        LaunchersDeleted, WriteStatus, WriteStatusFails, bases
<1> QED
  BY <1>1, <1>2, <1>3, <1>4 DEF Next, Dequeue, Crash, vars, bases

LEMMA BaseInvariance == Safety => [](BaseKnown /\ TargetInRange /\ BaseInRange)
<1>1. /\ StoreInv /\ Types
      /\ BaseKnown /\ TargetInRange /\ BaseInRange
      /\ [Next]_vars
      => (BaseKnown /\ TargetInRange /\ BaseInRange)'
  BY KnownStep, TargetStep, RangeStep
<1> QED  BY BaseInit, TypesInvariance, <1>1, PTL DEF Safety

(***************************************************************************)
(* An MPIJob never has 0 workers or a number outside minReplicas,          *)
(* maxReplicas and the cluster (carbonscalermpijob_controller.go:98-191).  *)
(***************************************************************************)
THEOREM WorkersInRange == Safety => []BaseInRange
BY BaseInvariance, PTL

(***************************************************************************)
(* A recorded end is the end of the MPIJob that exists when it is recorded *)
(* (carbonscalermpijob_controller.go:210, 251-281): the copy the status is *)
(* made from was current at the update that preceded it.                   *)
(***************************************************************************)
THEOREM EndIsReal == Safety => RecordedEndIsReal
<1>1. Inv /\ BaseKnown /\ [Next]_vars =>
        [\A j \in DOMAIN cr :
           (Terminal(cr'[j].status) /\ ~Terminal(cr[j].status)) =>
              j \in DOMAIN mpi /\ mpi[j].cond = cr'[j].status]_vars
  BY Writes DEF WriteStatus, JobStatus, ShouldStop, Terminal, BaseKnown
<1> QED  BY Invariance, BaseInvariance, <1>1, PTL DEF Safety, RecordedEndIsReal
-----------------------------------------------------------------------------
(* The carbon-agnostic policy *)

\* The worker never has 0 replicas for a target.
NeverPauses == rec.pc \in {"apply", "list", "delete", "status"} => rec.target # 0

LEMMA FixedReplicas ==
  ASSUME Policy = "fixed", NEW j \in Jobs
  PROVE  GetReplicas(j) # 0
BY SpecAssumption DEF GetReplicas

LEMMA NeverPausesStep ==
  ASSUME Policy = "fixed", Types, NeverPauses, [Next]_vars
  PROVE  NeverPauses'
<1> USE DEF Types
<1>1. CASE rec'.pc \notin {"apply", "list", "delete", "status"}
  BY <1>1 DEF NeverPauses
<1>2. CASE rec.pc \in {"apply", "list", "delete", "status"} /\ rec'.target = rec.target
  BY <1>2 DEF NeverPauses
<1>3. CASE UNCHANGED rec
  BY <1>3 DEF NeverPauses
<1>4. ASSUME NEW j \in Jobs, External(j) PROVE UNCHANGED rec
  BY <1>4
  DEF External, Submit, ReportProgress, CacheObject, Resync, CacheBase, CachePod, StartLauncher,
      BaseRuns, BaseEnds, BaseStatus
<1>5. ASSUME NEW g \in Sweeps, Post(g) \/ SweepStep(g) PROVE UNCHANGED rec
  BY <1>5 DEF Post, SweepStep, Compute, ComputeFails, ReadReplicas, Update, UpdateFails
<1>6. ASSUME NEW j \in Jobs, Dequeue(j) PROVE rec'.pc = "get"
  BY <1>6 DEF Dequeue
<1>7. CASE Scale
  <2>1. GetReplicas(rec.job) # 0
    BY <1>7, FixedReplicas DEF Scale, WorkerTypes, ObjectTypes
  <2> QED  BY <1>7, <2>1 DEF Scale, NeverPauses
<1>8. CASE ReconcileStep
  <2>1. ASSUME NEW q, NEW c, Answered(Proceed(q, c)), rec.pc = "apply" PROVE NeverPauses'
    BY <1>1, <1>2, <2>1 DEF Answered, Proceed, Requeue, Resting
  <2>2. CASE Get
    BY <1>1, <2>2 DEF Get, Return, Resting
  <2>3. CASE CreateBase \/ DeleteBase \/ UpdateBase
    BY <1>1, <2>1, <2>3 DEF CreateBase, DeleteBase, UpdateBase, Requeue, Resting
  <2>4. CASE KeepStopped \/ ListLaunchers \/ LaunchersDeleted
    BY <1>2, <2>4 DEF KeepStopped, ListLaunchers, LaunchersDeleted, Proceed, Deleting
  <2>5. ASSUME NEW p \in Jobs, DeleteLauncher(p) PROVE NeverPauses'
    BY <1>1, <1>2, <2>5 DEF DeleteLauncher, Deleting, Return, Resting
  <2>6. CASE ApplyFails \/ WriteStatus \/ WriteStatusFails
    BY <1>1, <2>6 DEF ApplyFails, WriteStatus, WriteStatusFails, Return, Requeue, Resting
  <2> QED  BY <1>7, <1>8, <2>2, <2>3, <2>4, <2>5, <2>6 DEF ReconcileStep
<1>9. CASE Crash
  BY <1>1, <1>9 DEF Crash, Resting
<1> QED
  BY <1>1, <1>3, <1>4, <1>5, <1>6, <1>8, <1>9 DEF Next, vars

\* An MPIJob is only ever deleted by the worker, when its target is 0.
LEMMA WhoDeletes ==
  ASSUME Types, [Next]_vars, NEW j \in DOMAIN mpi, j \notin DOMAIN mpi'
  PROVE  rec.pc = "apply" /\ rec.target = 0
<1> USE DEF Types
<1>1. ~ UNCHANGED mpi  OBVIOUS
<1>2. ASSUME NEW k \in Jobs, External(k) PROVE DOMAIN mpi \subseteq DOMAIN mpi'
  BY <1>2
  DEF External, Submit, ReportProgress, CacheObject, Resync, CacheBase, CachePod, StartLauncher,
      BaseRuns, BaseEnds, BaseStatus, bases
<1>3. CASE ReconcileStep
  <2>1. CASE CreateBase \/ UpdateBase
    BY <2>1 DEF CreateBase, UpdateBase, Put
  <2>2. CASE DeleteBase
    BY <2>2 DEF DeleteBase, ShouldStop
  <2> QED
    BY <1>1, <1>3, <2>1, <2>2
    DEF ReconcileStep, Get, Scale, KeepStopped, ApplyFails, ListLaunchers, DeleteLauncher,
        LaunchersDeleted, WriteStatus, WriteStatusFails, bases
<1>4. ASSUME NEW g \in Sweeps, Post(g) \/ SweepStep(g) PROVE UNCHANGED mpi
  BY <1>4 DEF Post, SweepStep, Compute, ComputeFails, ReadReplicas, Update, UpdateFails, bases
<1> QED
  BY <1>1, <1>2, <1>3, <1>4 DEF Next, Dequeue, Crash, vars, bases

(***************************************************************************)
(* Under --policy=fixed a finished MPIJob stays until its end is recorded  *)
(* (carbonscalermpijob_controller.go:90, 170-172): no slot is paused.  The *)
(* run FinishedJobKept shows what happens under the other policy.          *)
(***************************************************************************)
THEOREM FinishedKept ==
  ASSUME Policy = "fixed"
  PROVE  Safety => FinishedJobKept
<1>1. Init => NeverPauses
  BY DEF Init, Resting, NeverPauses
<1>2. Types /\ NeverPauses /\ [Next]_vars => NeverPauses'
  BY NeverPausesStep
<1>3. Types /\ NeverPauses /\ [Next]_vars =>
        [\A j \in DOMAIN mpi \cap DOMAIN cr :
           (Terminal(mpi[j].cond) /\ ~Terminal(cr[j].status)) => j \in DOMAIN mpi']_vars
  BY WhoDeletes DEF NeverPauses
<1> QED  BY <1>1, <1>2, <1>3, TypesInvariance, PTL DEF Safety, FinishedJobKept
=============================================================================
