------------------------- MODULE CarbonScaler_proofs -------------------------
(***************************************************************************)
(* Proofs about CarbonScaler for every set of jobs, profile, deadline and  *)
(* prediction: the position is a slot of a schedule that has any, the loop *)
(* keeps its list and its draft in step, and the module implements         *)
(* ScheduleStore.                                                          *)
(***************************************************************************)
EXTENDS CarbonScaler, Sums_proofs

\* The maps between calls: what is stored is a schedule of the job, or the
\* one-slot fallback, and the position is one of its slots if it has any.
InRange(u, s, i) == i \in DOMAIN s \/ (i = 0 /\ AsksForNothing(u))

MapsInv ==
  /\ DOMAIN schedule \subseteq Jobs
  /\ DOMAIN scheduleIndex = DOMAIN schedule
  /\ \A u \in DOMAIN schedule :
       /\ schedule[u] \in Schedules(u) \cup {Fallback(u)}
       /\ InRange(u, schedule[u], scheduleIndex[u])

\* What is left of the list when the draft has got as far as d.
Above(u, d) == {o \in Options(u) : o[2] > d[o[1]]}

\* The call in progress, phase by phase.
CollectInv(u, p) ==
  \E todo \in SUBSET Options(u) :
    /\ call = Collecting(u, p, todo, call.read)
    /\ DOMAIN call.read = Options(u) \ todo

SelectInv(u, p) ==
  /\ DeadLine[u] >= 0
  /\ \E d \in Schedules(u) : call = Selecting(u, p, call.read, Above(u, d), d)

CallInv ==
  \/ call = Idle
  \/ \E u \in Jobs \ DOMAIN schedule, p \in ProgressValues :
       u \in DOMAIN Profile /\ (CollectInv(u, p) \/ SelectInv(u, p))

Inv == MapsInv /\ CallInv /\ prediction \in Predictions \cup {EmptyMap}

-----------------------------------------------------------------------------
(***************************************************************************)
(* The last slot of a stored schedule is found by its length, as in        *)
(* int(s.scheduleIndex[UID]+1) < len(s.schedule[UID]).                     *)
(***************************************************************************)
LEMMA NextSlot ==
  ASSUME NEW u \in Jobs, NEW s \in Schedules(u) \cup {Fallback(u)},
         NEW i, InRange(u, s, i)
  PROVE  /\ (i + 1 < Cardinality(DOMAIN s)) <=> (i + 1 \in DOMAIN s)
         /\ (i + 1 >= Cardinality(DOMAIN s)) <=> (i + 1 \notin DOMAIN s)
<1>1. CASE s \in Schedules(u)
  <2>1. DOMAIN s = 0 .. DeadLine[u] - 1 /\ DeadLine[u] \in Int
    BY <1>1, SpecAssumption DEF Schedules, Slots
  <2>2. DeadLine[u] >= 0 /\ i \in 0 .. DeadLine[u]
    BY <2>1 DEF InRange, AsksForNothing
  <2>3. Cardinality(DOMAIN s) = DeadLine[u]
    <3> DEFINE n == DeadLine[u] - 1
    <3>1. n \in Int /\ DOMAIN s = 0 .. n  BY <2>1
    <3>2. Cardinality(0 .. n) = IF 0 > n THEN 0 ELSE n - 0 + 1  BY <3>1, FS_Interval
    <3> QED  BY <2>1, <2>2, <3>1, <3>2
  <2> QED  BY <2>1, <2>2, <2>3
<1>2. CASE s = Fallback(u)
  <2>1. DOMAIN s = {0}  BY <1>2 DEF Fallback
  <2>2. Cardinality(DOMAIN s) = 1  BY <2>1, FS_Singleton
  <2> QED  BY <2>1, <2>2 DEF InRange
<1> QED  BY <1>1, <1>2

\* The sum of compute_done has a term for every slot.
Work(u, s) == [t \in DOMAIN s |-> Row(u, s[t]).throughput * TimeSlot]

LEMMA DoneIsTotal ==
  ASSUME NEW u \in Jobs, NEW s \in Schedules(u)
  PROVE  ComputeDone(u, s) = Total(Work(u, s), Slots(u))
<1>1. DOMAIN s = Slots(u)  BY DEF Schedules
<1>2. ComputeDone(u, s)
        = MapThenSumSet(LAMBDA t : [k \in DOMAIN s |-> Row(u, s[k]).throughput * TimeSlot][t],
                        DOMAIN s)
  BY DEF ComputeDone, MapThenSumSet, MapThenFoldSet
<1> QED  BY <1>1, <1>2 DEF Total, Work

(***************************************************************************)
(* The loop is left with a schedule that has a first slot, or with an      *)
(* empty one for a job that has asked for nothing.                         *)
(***************************************************************************)
LEMMA FirstSlot ==
  ASSUME NEW u \in Jobs, DeadLine[u] >= 0,
         NEW p \in ProgressValues, NEW s \in Schedules(u), Suffices(u, s, p)
  PROVE  InRange(u, s, 0)
<1>1. DeadLine[u] \in Int /\ WorkSize[u] \in Nat /\ p \in Nat
  BY SpecAssumption, PredictionAssumption
<1>2. CASE DeadLine[u] >= 1
  BY <1>1, <1>2 DEF Schedules, Slots, InRange
<1>3. CASE DeadLine[u] = 0
  <2>1. Slots(u) = {}  BY <1>3 DEF Slots
  <2>2. ComputeDone(u, s) = 0  BY <2>1, DoneIsTotal, TotalOfNothing
  <2>3. (100 - p) * WorkSize[u] \in Int  BY <1>1
  <2>4. NothingLeft(u, p)  BY <2>2, <2>3 DEF Suffices, NothingLeft
  <2> QED  BY <1>3, <2>4 DEF InRange, AsksForNothing
<1> QED  BY <1>1, <1>2, <1>3

\* The levels are numbers of replicas the cluster has.
LEMMA LevelsBounded ==
  ASSUME NEW u \in Jobs
  PROVE  Levels(u) \subseteq 1 .. ClusterSize
BY SpecAssumption DEF Levels, MaxNodes

(***************************************************************************)
(* Taking an eligible option raises the draft and leaves the list at the   *)
(* levels above it: Min when nothing is taken of the slot yet, otherwise   *)
(* the next one.                                                           *)
(***************************************************************************)
LEMMA TakeOption ==
  ASSUME NEW u \in Jobs, NEW d \in Schedules(u), NEW o \in Above(u, d),
         o[2] = MinReplicas[u] \/ o[2] = d[o[1]] + 1
  PROVE  /\ [d EXCEPT ![o[1]] = o[2]] \in Schedules(u)
         /\ Above(u, d) \ {o} = Above(u, [d EXCEPT ![o[1]] = o[2]])
<1> DEFINE e == [d EXCEPT ![o[1]] = o[2]]
<1>1. o \in Slots(u) \X Levels(u) /\ o[2] > d[o[1]]
  BY DEF Above, Options
<1>2. o = <<o[1], o[2]>> /\ o[1] \in Slots(u) /\ o[2] \in Levels(u)
  BY <1>1
<1>3. e \in Schedules(u)
  BY <1>2 DEF Schedules
<1>4. \A t \in Slots(u) : d[t] \in {0} \cup Levels(u)
  BY DEF Schedules
<1>5. Levels(u) \subseteq Int /\ MinReplicas[u] \in Nat \ {0}
  BY LevelsBounded, SpecAssumption
<1>6. \A n \in Levels(u) : n >= MinReplicas[u]
  BY SpecAssumption DEF Levels, MaxNodes
<1>7. ASSUME NEW q \in Options(u)
      PROVE  (q[2] > d[q[1]] /\ q # o) <=> q[2] > e[q[1]]
  <2>1. q = <<q[1], q[2]>> /\ q[1] \in Slots(u) /\ q[2] \in Levels(u)
    BY <1>7 DEF Options
  <2>2. CASE q[1] # o[1]
    <3>1. e[q[1]] = d[q[1]]  BY <2>1, <2>2 DEF Schedules
    <3> QED  BY <2>2, <3>1
  <2>3. CASE q[1] = o[1]
    <3>1. e[q[1]] = o[2]  BY <2>1, <2>3 DEF Schedules
    <3>2. q # o <=> q[2] # o[2]  BY <1>2, <2>1, <2>3
    <3>3. d[o[1]] \in Int /\ q[2] \in Int /\ o[2] \in Int  BY <1>2, <1>4, <1>5, <2>1
    <3> QED  BY <1>1, <1>2, <1>5, <1>6, <2>1, <2>3, <3>1, <3>2, <3>3
  <2> QED  BY <2>2, <2>3
<1> QED  BY <1>3, <1>7 DEF Above

-----------------------------------------------------------------------------
LEMMA InitInv == Init => Inv
BY DEF Init, Inv, MapsInv, CallInv, EmptyMap

(***************************************************************************)
(* Every step preserves the invariant.                                     *)
(***************************************************************************)
LEMMA StepInv == Inv /\ [Next]_vars => Inv'
<1> SUFFICES ASSUME Inv, [Next]_vars PROVE Inv'
  OBVIOUS
<1>a. call.pc = "collect" =>
        \E u \in Jobs \ DOMAIN schedule, p \in ProgressValues :
          u \in DOMAIN Profile /\ CollectInv(u, p)
  BY DEF Inv, CallInv, SelectInv, Idle, Selecting
<1>b. call.pc = "select" =>
        \E u \in Jobs \ DOMAIN schedule, p \in ProgressValues :
          u \in DOMAIN Profile /\ SelectInv(u, p)
  BY DEF Inv, CallInv, CollectInv, Idle, Collecting
<1>1. CASE NewStatus
  <2> PICK c \in Predictions : UpdateCarbonStatus(c)  BY <1>1 DEF NewStatus
  <2> QED  BY DEF Inv, MapsInv, CallInv, CollectInv, SelectInv, UpdateCarbonStatus
<1>2. ASSUME NEW u \in Jobs, Advance(u) PROVE Inv'
  <2>1. scheduleIndex[u] + 1 \in DOMAIN schedule[u]
    BY <1>2, NextSlot DEF Inv, MapsInv, Advance
  <2>2. MapsInv'
    BY <1>2, <2>1 DEF Inv, MapsInv, InRange, AsksForNothing, Advance
  <2> QED  BY <1>2, <2>2 DEF Inv, CallInv, Advance
<1>3. ASSUME NEW u \in Jobs, Exhaust(u) PROVE Inv'
  <2>1. InRange(u, Fallback(u), 0)  BY DEF InRange, Fallback
  <2>2. MapsInv'
    BY <1>3, <2>1 DEF Inv, MapsInv, Exhaust
  <2> QED  BY <1>3, <2>2 DEF Inv, CallInv, Exhaust
<1>4. ASSUME NEW u \in Jobs, NEW p \in ProgressValues, Begin(u, p) PROVE Inv'
  <2>1. CollectInv(u, p)'
    BY <1>4 DEF Begin, CollectInv, Collecting, EmptyMap
  <2>2. CallInv'
    BY <1>4, <2>1 DEF Begin, CallInv
  <2> QED  BY <1>4, <2>2 DEF Begin, Inv, MapsInv
<1>5. CASE Collect
  <2> PICK u \in Jobs \ DOMAIN schedule, p \in ProgressValues :
         u \in DOMAIN Profile /\ CollectInv(u, p)
    BY <1>5, <1>a DEF Collect
  <2> PICK todo \in SUBSET Options(u) :
         /\ call = Collecting(u, p, todo, call.read)
         /\ DOMAIN call.read = Options(u) \ todo
    BY DEF CollectInv
  <2>a. call.uid = u /\ call.progress = p /\ call.todo = todo
    BY DEF Collecting
  <2> PICK o \in todo :
         call' = Collecting(u, p, todo \ {o}, Put(call.read, o, prediction[o[1]]))
    BY <1>5, <2>a DEF Collect
  <2> DEFINE r == Put(call.read, o, prediction[o[1]])
  <2>b. call'.read = r
    BY DEF Collecting
  <2>c. DOMAIN r = Options(u) \ (todo \ {o})
    BY DEF Put
  <2>d. Options(u)' = Options(u)
    BY DEF Options, Slots, Levels, MaxNodes
  <2>1. CollectInv(u, p)'
    <3> HIDE DEF r
    <3> QED  BY <2>b, <2>c, <2>d DEF CollectInv, r
  <2>2. CallInv'
    BY <1>5, <2>1 DEF Collect, CallInv
  <2> QED  BY <1>5, <2>2 DEF Collect, Inv, MapsInv
<1>6. CASE Dies
  BY <1>6 DEF Dies, Inv, MapsInv, CallInv, EmptyMap
<1>7. CASE Sort
  <2> PICK u \in Jobs \ DOMAIN schedule, p \in ProgressValues :
         u \in DOMAIN Profile /\ CollectInv(u, p)
    BY <1>7, <1>a DEF Sort
  <2> DEFINE d == [t \in Slots(u) |-> 0]
  <2>1. d \in Schedules(u)
    BY DEF Schedules
  <2>2. Above(u, d) = Options(u)
    BY LevelsBounded DEF Above, Options
  <2>3. DOMAIN call.read = Options(u)
    BY <1>7 DEF Sort, CollectInv, Collecting
  <2>a. DeadLine[u] >= 0
    <3>1. call.uid = u  BY DEF CollectInv, Collecting
    <3> QED  BY <1>7, <3>1 DEF Sort
  <2>b. call' = Selecting(u, p, call.read, Above(u, d), d)
    BY <1>7, <2>2, <2>3 DEF Sort, CollectInv, Collecting
  <2>c. call'.read = call.read
    BY <2>b DEF Selecting
  <2>4. SelectInv(u, p)'
    <3> HIDE DEF d
    <3> QED  BY <2>a, <2>1, <2>b, <2>c DEF SelectInv
  <2>5. CallInv'
    BY <1>7, <2>4 DEF Sort, CallInv
  <2> QED  BY <1>7, <2>5 DEF Sort, Inv, MapsInv
<1>8. CASE Select
  <2> PICK u \in Jobs \ DOMAIN schedule, p \in ProgressValues :
         u \in DOMAIN Profile /\ SelectInv(u, p)
    BY <1>8, <1>b DEF Select
  <2> PICK d \in Schedules(u) : call = Selecting(u, p, call.read, Above(u, d), d)
    BY DEF SelectInv
  <2> PICK o \in Candidates :
         call' = Selecting(call.uid, call.progress, call.read, call.list \ {o},
                           [call.draft EXCEPT ![o[1]] = o[2]])
    BY <1>8 DEF Select
  <2> DEFINE e == [d EXCEPT ![o[1]] = o[2]]
  <2>1. o \in Above(u, d) /\ (o[2] = MinReplicas[u] \/ o[2] = d[o[1]] + 1)
    BY DEF Candidates, Eligible, Selecting
  <2>2. e \in Schedules(u) /\ Above(u, d) \ {o} = Above(u, e)
    BY <2>1, TakeOption
  <2>a. call.uid = u /\ call.progress = p /\ call.list = Above(u, d) /\ call.draft = d
    BY DEF Selecting
  <2>b. call' = Selecting(u, p, call.read, Above(u, e), e)
    BY <2>2, <2>a
  <2>c. call'.read = call.read
    BY <2>b DEF Selecting
  <2>d. DeadLine[u] >= 0
    BY DEF SelectInv
  <2>3. SelectInv(u, p)'
    BY <2>2, <2>b, <2>c, <2>d DEF SelectInv
  <2>4. CallInv'
    BY <1>8, <2>3 DEF Select, CallInv
  <2> QED  BY <1>8, <2>4 DEF Select, Inv, MapsInv
<1>9. CASE TooTight
  BY <1>9 DEF TooTight, Inv, MapsInv, CallInv
<1>10. CASE Store
  <2> PICK u \in Jobs \ DOMAIN schedule, p \in ProgressValues :
         u \in DOMAIN Profile /\ SelectInv(u, p)
    BY <1>10, <1>b DEF Store
  <2> PICK d \in Schedules(u) : call = Selecting(u, p, call.read, Above(u, d), d)
    BY DEF SelectInv
  <2>1. schedule' = Put(schedule, u, d) /\ scheduleIndex' = Put(scheduleIndex, u, 0)
    BY <1>10 DEF Store, Selecting
  <2>2. InRange(u, d, 0)
    BY <1>10, FirstSlot DEF Store, Done, Selecting, SelectInv
  <2>3. MapsInv'
    BY <2>1, <2>2 DEF Inv, MapsInv, Put
  <2> QED  BY <1>10, <2>3 DEF Store, Inv, CallInv
<1>11. CASE UNCHANGED vars
  BY <1>11 DEF vars, Inv, MapsInv, CallInv, CollectInv, SelectInv
<1> QED
  BY <1>1, <1>2, <1>3, <1>4, <1>5, <1>6, <1>7, <1>8, <1>9, <1>10, <1>11
  DEF Next, CallStep, Panic, ReadPanic, Restart

(***************************************************************************)
(* The invariant holds in every reachable state.                           *)
(***************************************************************************)
LEMMA Invariance == Spec => []Inv
BY InitInv, StepInv, PTL DEF Spec

-----------------------------------------------------------------------------
(***************************************************************************)
(* A stored schedule and a draft only ever name numbers of replicas the    *)
(* cluster has, and both maps know the same jobs.                          *)
(***************************************************************************)
THEOREM TypeCorrect == Spec => []TypeOK
<1>1. Inv => TypeOK
  <2> SUFFICES ASSUME Inv PROVE TypeOK
    OBVIOUS
  <2>1. \A u \in Jobs : Schedules(u) \subseteq [Slots(u) -> 0 .. ClusterSize]
    BY LevelsBounded, SpecAssumption DEF Schedules
  <2>2. call.pc \in {"idle", "collect", "select"}
    BY DEF Inv, CallInv, CollectInv, SelectInv, Idle, Collecting, Selecting
  <2>3. ASSUME call.pc = "select"
        PROVE  call.draft \in [Slots(call.uid) -> 0 .. ClusterSize]
    <3> PICK u \in Jobs, p \in ProgressValues : SelectInv(u, p)
      BY <2>3 DEF Inv, CallInv, CollectInv, Idle, Collecting
    <3> QED  BY <2>1 DEF SelectInv, Selecting
  <2> QED  BY <2>1, <2>2, <2>3 DEF TypeOK, Inv, MapsInv
<1> QED  BY Invariance, <1>1, PTL

(***************************************************************************)
(* The position GetReplicas uses is a slot of the schedule it indexes      *)
(* (carbon_scaler.go:62), for every deadline - the CRD allows zero and     *)
(* negative ones - and every order of calls, except for a job of deadline  *)
(* 0 with nothing left to do: its schedule is empty, and the read panics.  *)
(***************************************************************************)
THEOREM IndexSafe == Spec => []IndexInRange
<1>1. Inv => IndexInRange
  BY DEF Inv, MapsInv, InRange, IndexInRange
<1> QED  BY Invariance, <1>1, PTL

(***************************************************************************)
(* The greedy loop's list is what lies above its draft                     *)
(* (carbon_scaler.go:122-138): no level is skipped or taken twice.         *)
(***************************************************************************)
THEOREM ListAboveDraft == Spec => []OptionsAboveDraft
<1>1. Inv => OptionsAboveDraft
  <2> SUFFICES ASSUME Inv, call.pc = "select"
               PROVE  call.list = {o \in Options(call.uid) : o[2] > call.draft[o[1]]}
    BY DEF OptionsAboveDraft
  <2> PICK u \in Jobs, p \in ProgressValues : SelectInv(u, p)
    BY DEF Inv, CallInv, CollectInv, Idle, Collecting
  <2> QED  BY DEF SelectInv, Selecting, Above
<1> QED  BY Invariance, <1>1, PTL

-----------------------------------------------------------------------------
(***************************************************************************)
(* One step of the greedy AutoScaler is one step of ScheduleStore, or      *)
(* changes neither map.                                                    *)
(***************************************************************************)
LEMMA StepImplements == Inv /\ [Next]_vars => [Abstract!Next]_(Abstract!store)
<1> SUFFICES ASSUME Inv, [Next]_vars,
                    ~ UNCHANGED <<schedule, scheduleIndex>>
             PROVE  Abstract!Next
  BY DEF Abstract!store
<1>1. ASSUME NEW u \in Jobs, Advance(u) \/ Exhaust(u) PROVE Abstract!Next
  <2>1. Advance(u) => Abstract!Advance(u)
    BY NextSlot DEF Inv, MapsInv, Advance, Abstract!Advance
  <2>2. Exhaust(u) => Abstract!Exhaust(u)
    BY NextSlot DEF Inv, MapsInv, Exhaust, Abstract!Exhaust
  <2>3. PICK p \in ProgressValues : TRUE
    BY PredictionAssumption
  <2>4. Abstract!ComputeSchedule(u, p)
    BY <1>1, <2>1, <2>2 DEF Abstract!ComputeSchedule
  <2> QED  BY <2>4 DEF Abstract!Next
<1>2. CASE Store
  <2> PICK u \in Jobs \ DOMAIN schedule, p \in ProgressValues :
         u \in DOMAIN Profile /\ SelectInv(u, p)
    BY <1>2 DEF Store, Inv, CallInv, CollectInv, Idle, Collecting
  <2> PICK d \in Schedules(u) : call = Selecting(u, p, call.read, Above(u, d), d)
    BY DEF SelectInv
  <2>1. call.uid = u /\ call.progress = p /\ call.draft = d
    BY DEF Selecting
  <2>2. d \in Fitting(u, p)
    BY <1>2, <2>1 DEF Store, Done, Fitting
  <2>3. Abstract!Install(u, p)
    BY <1>2, <2>1, <2>2 DEF Store, Abstract!Install, Abstract!Put, Put
  <2> QED  BY <2>3 DEF Abstract!Next, Abstract!ComputeSchedule
<1>3. CASE Dies
  BY <1>3 DEF Dies, Abstract!Next, Abstract!Restart, Abstract!EmptyMap, EmptyMap
<1> QED
  BY <1>1, <1>2, <1>3
  DEF Next, CallStep, NewStatus, UpdateCarbonStatus, Begin, Collect, Panic, ReadPanic,
      Restart, Sort, Select, TooTight, vars

(***************************************************************************)
(* The greedy AutoScaler implements ScheduleStore: whatever a push changes *)
(* under the collecting loop, and whether a call succeeds, is refused or   *)
(* panics, its callers see one atomic step that installs a schedule which  *)
(* fits the job, or no step (carbon_scaler.go:68-149).                     *)
(***************************************************************************)
THEOREM Refinement == Spec => ImplementsStore
<1>1. Init => Abstract!Init
  BY DEF Init, Abstract!Init, EmptyMap, Abstract!EmptyMap
<1> QED
  BY <1>1, StepImplements, Invariance, PTL DEF Spec, ImplementsStore, Abstract!Spec

(***************************************************************************)
(* What ScheduleStore assumes and, of schedules, Manager and Reconciler    *)
(* assume, holds of what the greedy AutoScaler stores: one slot in         *)
(* []int32{MinReplicas} (carbon_scaler.go:82), otherwise the slots from 0  *)
(* to the deadline.  That there is a first slot, as Manager and Reconciler *)
(* have it, is so for every job that has not asked for nothing.            *)
(***************************************************************************)
THEOREM AssumptionsMet ==
  /\ Abstract!FallbackAssumption
  /\ \A u \in Jobs :
       /\ Fallback(u) \in [{0} -> Int]
       /\ \A p \in ProgressValues : \A s \in Fitting(u, p) :
            /\ DOMAIN s = 0 .. DeadLine[u] - 1
            /\ DeadLine[u] >= 0 /\ ~AsksForNothing(u) => 0 \in DOMAIN s
<1>1. ASSUME NEW u \in Jobs, NEW p \in ProgressValues, NEW s \in Fitting(u, p)
      PROVE  /\ DOMAIN s = 0 .. DeadLine[u] - 1
             /\ DeadLine[u] >= 0 /\ ~AsksForNothing(u) => 0 \in DOMAIN s
  <2>1. DOMAIN s = 0 .. DeadLine[u] - 1  BY DEF Fitting, Schedules, Slots
  <2>2. ASSUME DeadLine[u] >= 0, ~AsksForNothing(u) PROVE 0 \in DOMAIN s
    BY <2>2, FirstSlot DEF Fitting, InRange
  <2> QED  BY <2>1, <2>2
<1>2. ASSUME NEW u \in Jobs PROVE Fallback(u) \in [{0} -> Int] /\ 0 \in DOMAIN Fallback(u)
  BY SpecAssumption DEF Fallback
<1> QED  BY <1>1, <1>2 DEF Abstract!FallbackAssumption
-----------------------------------------------------------------------------
(***************************************************************************)
(* What the sums of the proofs below add up, as functions.                 *)
(***************************************************************************)
Emitted(u, r, s) == [t \in DOMAIN s |-> Row(u, s[t]).power * r[<<t, MinReplicas[u]>>]]

LEMMA SlotsFinite ==
  ASSUME NEW u \in Jobs
  PROVE  IsFiniteSet(Slots(u)) /\ IsFiniteSet(Options(u))
<1>1. DeadLine[u] \in Int /\ MinReplicas[u] \in Int /\ MaxNodes(u) \in Int
  BY SpecAssumption DEF MaxNodes
<1>2. IsFiniteSet(Slots(u))  BY <1>1, FS_Interval DEF Slots
<1>3. IsFiniteSet(Levels(u))  BY <1>1, FS_Interval DEF Levels
<1> QED  BY <1>2, <1>3, FS_Product DEF Options

LEMMA FootprintIsTotal ==
  ASSUME NEW u \in Jobs, NEW s \in Schedules(u)
  PROVE  Footprint(u, s) = Total(Emitted(u, call.read, s), Slots(u))
<1>1. DOMAIN s = Slots(u)  BY DEF Schedules
<1>2. Footprint(u, s)
        = MapThenSumSet(LAMBDA t : [k \in DOMAIN s |->
                          Row(u, s[k]).power * call.read[<<k, MinReplicas[u]>>]][t],
                        DOMAIN s)
  BY DEF Footprint, MapThenSumSet, MapThenFoldSet
<1> QED  BY <1>1, <1>2 DEF Total, Emitted

\* A job's rows are numbers, and more nodes do more work.
LEMMA ProfileRowsGrow ==
  ASSUME NEW u \in Jobs, u \in DOMAIN Profile
  PROVE  /\ \A n \in {0} \cup Levels(u) : Row(u, n).throughput \in Int /\ Row(u, n).power \in Int
         /\ Gaps(u) = {} =>
              /\ \A n, m \in {0} \cup Levels(u) :
                   n <= m => Row(u, n).throughput <= Row(u, m).throughput
              /\ \A n \in Levels(u) : /\ Row(u, n).marginalThroughput \in Nat \ {0}
                                       /\ Row(u, n).marginalPower \in Nat \ {0}
<1>1. u \in DOMAIN ProfileRows  BY DEF Profile
<1>2. \A n \in {0} \cup Levels(u) : n \in Int  BY LevelsBounded, SpecAssumption
<1> HIDE DEF Row
<1>3. \A n \in {0} \cup Levels(u) : Row(u, n).throughput \in Int /\ Row(u, n).power \in Int
  BY <1>1, ProfileAssumption
<1>4. ASSUME Gaps(u) = {}
      PROVE  /\ \A n, m \in {0} \cup Levels(u) :
                   n < m => Row(u, n).throughput < Row(u, m).throughput
             /\ \A n \in Levels(u) : /\ Row(u, n).marginalThroughput \in Nat \ {0}
                                      /\ Row(u, n).marginalPower \in Nat \ {0}
  <2>1. Levels(u) \ Gaps(u) = Levels(u)  BY <1>4
  <2> QED  BY <1>1, <2>1, ProfileAssumption
<1>5. ASSUME Gaps(u) = {}, NEW n \in {0} \cup Levels(u), NEW m \in {0} \cup Levels(u), n <= m
      PROVE  Row(u, n).throughput <= Row(u, m).throughput
  <2>1. n = m \/ n < m  BY <1>2, <1>5
  <2> QED  BY <1>3, <1>4, <1>5, <2>1
<1> QED  BY <1>3, <1>4, <1>5

LEMMA WorkType ==
  ASSUME NEW u \in Jobs, u \in DOMAIN Profile, NEW s \in Schedules(u)
  PROVE  Work(u, s) \in [Slots(u) -> Int]
<1>1. DOMAIN s = Slots(u) /\ \A t \in Slots(u) : s[t] \in {0} \cup Levels(u)
  BY DEF Schedules
<1>2. ASSUME NEW t \in Slots(u) PROVE Row(u, s[t]).throughput * TimeSlot \in Int
  <2>1. Row(u, s[t]).throughput \in Int  BY <1>1, ProfileRowsGrow
  <2> QED  BY <2>1, SpecAssumption
<1> QED  BY <1>1, <1>2 DEF Work

(***************************************************************************)
(* "Deadline too tight" (carbon_scaler.go:133): if no option of the list   *)
(* can be taken every slot of the draft is at the highest level, or the    *)
(* job has none; a schedule of more work there is not.                     *)
(***************************************************************************)
LEMMA NothingAbove ==
  ASSUME NEW u \in Jobs, NEW d \in Schedules(u),
         \A o \in Above(u, d) : ~ (o[2] = MinReplicas[u] \/ o[2] = d[o[1]] + 1)
  PROVE  \A t \in Slots(u) : \A n \in {0} \cup Levels(u) : n <= d[t]
<1> SUFFICES ASSUME NEW t \in Slots(u), NEW n \in {0} \cup Levels(u), ~ (n <= d[t])
             PROVE FALSE
  OBVIOUS
<1>1. MinReplicas[u] \in Nat \ {0} /\ MaxNodes(u) \in Nat
  BY SpecAssumption DEF MaxNodes
<1>2. d[t] \in {0} \cup Levels(u)  BY DEF Schedules
<1>3. Levels(u) = MinReplicas[u] .. MaxNodes(u)  BY DEF Levels
<1>4. n \in Levels(u)  BY <1>1, <1>2, <1>3
<1> DEFINE next == IF d[t] = 0 THEN MinReplicas[u] ELSE d[t] + 1
<1>5. next \in Levels(u) /\ next > d[t]  BY <1>1, <1>2, <1>3, <1>4
<1>6. next = MinReplicas[u] \/ next = d[t] + 1  OBVIOUS
<1> HIDE DEF next
<1> DEFINE o == <<t, next>>
<1>7. o \in Above(u, d)  BY <1>5 DEF Above, Options
<1>8. o[1] = t /\ o[2] = next  OBVIOUS
<1> HIDE DEF o
<1> QED  BY <1>6, <1>7, <1>8

(***************************************************************************)
(* Whenever a job is refused with "Deadline too tight" no schedule of its  *)
(* slots and levels would do the work that is left, if its profile has a   *)
(* row for every level (carbon_scaler.go:133-135).                         *)
(***************************************************************************)
THEOREM RefusalTrue == Spec => []RefusalJustified
<1>1. Inv => RefusalJustified
  <2> SUFFICES ASSUME Inv, Stuck, Gaps(call.uid) = {},
                      NEW s \in Schedules(call.uid), Suffices(call.uid, s, call.progress)
               PROVE  FALSE
    BY DEF RefusalJustified, NothingSuffices
  <2> PICK u \in Jobs \ DOMAIN schedule, p \in ProgressValues :
         u \in DOMAIN Profile /\ SelectInv(u, p)
    BY DEF Stuck, Inv, CallInv, CollectInv, Idle, Collecting
  <2> PICK d \in Schedules(u) : call = Selecting(u, p, call.read, Above(u, d), d)
    BY DEF SelectInv
  <2>a. call.uid = u /\ call.progress = p /\ call.list = Above(u, d) /\ call.draft = d
    BY DEF Selecting
  <2>1. \A t \in Slots(u) : \A n \in {0} \cup Levels(u) : n <= d[t]
    BY <2>a, NothingAbove DEF Stuck, Eligible
  <2>2. ComputeDone(u, s) <= ComputeDone(u, d)
    <3>1. s \in Schedules(u) /\ Gaps(u) = {}  BY <2>a
    <3>2. Work(u, s) \in [Slots(u) -> Int] /\ Work(u, d) \in [Slots(u) -> Int]
      BY <3>1, WorkType
    <3>3. ASSUME NEW t \in Slots(u) PROVE Work(u, s)[t] <= Work(u, d)[t]
      <4>1. s[t] \in {0} \cup Levels(u) /\ d[t] \in {0} \cup Levels(u) /\ s[t] <= d[t]
        BY <2>1, <3>1 DEF Schedules
      <4>2. Row(u, s[t]).throughput <= Row(u, d[t]).throughput
        BY <3>1, <4>1, ProfileRowsGrow
      <4>3. Row(u, s[t]).throughput \in Int /\ Row(u, d[t]).throughput \in Int
        BY <4>1, ProfileRowsGrow
      <4>4. Row(u, s[t]).throughput * TimeSlot <= Row(u, d[t]).throughput * TimeSlot
        BY <4>2, <4>3, SpecAssumption, Scale
      <4>5. DOMAIN s = Slots(u) /\ DOMAIN d = Slots(u)  BY <3>1 DEF Schedules
      <4> QED  BY <4>4, <4>5 DEF Work
    <3>4. Total(Work(u, s), Slots(u)) <= Total(Work(u, d), Slots(u))
      BY <3>2, <3>3, SlotsFinite, TotalMonotone
    <3> QED  BY <3>1, <3>4, DoneIsTotal
  <2>3. ComputeDone(u, s) \in Int /\ ComputeDone(u, d) \in Int
    <3>1. s \in Schedules(u)  BY <2>a
    <3>2. Work(u, s) \in [Slots(u) -> Int] /\ Work(u, d) \in [Slots(u) -> Int]
      BY <3>1, WorkType
    <3> QED  BY <3>1, <3>2, SlotsFinite, TotalType, DoneIsTotal
  <2>4. 100 * ComputeDone(u, s) >= (100 - p) * WorkSize[u]
    BY <2>a DEF Suffices
  <2>5. ~ (100 * ComputeDone(u, d) >= (100 - p) * WorkSize[u])
    BY <2>a DEF Stuck, Done, Suffices
  <2>6. (100 - p) * WorkSize[u] \in Int
    BY PredictionAssumption, SpecAssumption
  <2> QED  BY <2>2, <2>3, <2>4, <2>5, <2>6
<1> QED  BY Invariance, <1>1, PTL
-----------------------------------------------------------------------------
(***************************************************************************)
(* The greedy choice.  An option is worth the throughput it adds against   *)
(* the carbon it costs, at the intensities r; NoBetter compares two.       *)
(***************************************************************************)
Gain(u, o) == Row(u, o[2]).marginalThroughput
Cost(u, r, o) == Row(u, o[2]).marginalPower * r[o]
NoBetter(u, r, q, o) == Gain(u, q) * Cost(u, r, o) <= Gain(u, o) * Cost(u, r, q)

\* What the call has read, and has read of a prediction that did not change.
Positive(u, r) == \A o \in Options(u) : r[o] \in Nat \ {0}
Steady(u, r) ==
  /\ Positive(u, r)
  /\ \A o, p \in Options(u) : o[1] = p[1] => r[o] = r[p]

\* No option above the draft is better than one it has taken.
Frontier(u, r, d) ==
  \A o \in Options(u) \ Above(u, d), q \in Above(u, d) : NoBetter(u, r, q, o)

LEMMA OptionValues ==
  ASSUME NEW u \in Jobs, u \in DOMAIN Profile, Gaps(u) = {}, NEW r, Positive(u, r),
         NEW o \in Options(u)
  PROVE  /\ o[2] \in Levels(u)
         /\ Row(u, o[2]).marginalPower \in Nat \ {0}
         /\ Gain(u, o) \in Nat \ {0}
         /\ Cost(u, r, o) \in Nat \ {0}
<1>1. o[2] \in Levels(u)  BY DEF Options
<1>2. /\ Row(u, o[2]).marginalThroughput \in Nat \ {0}
      /\ Row(u, o[2]).marginalPower \in Nat \ {0}
  BY <1>1, ProfileRowsGrow
<1>3. r[o] \in Nat \ {0}  BY DEF Positive
<1>4. \A a, b \in Nat \ {0} : a * b \in Nat \ {0}
  <2> SUFFICES ASSUME NEW a \in Nat \ {0}, NEW b \in Nat \ {0} PROVE a * b \in Nat \ {0}
    OBVIOUS
  <2>1. 1 * b <= a * b
    <3>1. 1 * b = b /\ b * 1 <= b * a  BY Scale
    <3> QED  BY <3>1
  <2> QED  BY <2>1
<1> QED  BY <1>1, <1>2, <1>3, <1>4 DEF Gain, Cost

\* In a slot, with a concave profile, a higher level is no better than a lower one.
LEMMA HigherIsNoBetter ==
  ASSUME NEW u \in Jobs, u \in DOMAIN Profile, Smooth(u), NEW r, Steady(u, r),
         NEW o \in Options(u), NEW q \in Options(u), o[1] = q[1], o[2] <= q[2]
  PROVE  NoBetter(u, r, q, o)
<1> DEFINE N == MaxNodes(u)
           f == [n \in 1 .. N |-> Row(u, n).marginalThroughput]
           g == [n \in 1 .. N |-> Row(u, n).marginalPower]
           a == o[2]
           b == q[2]
           c == r[o]
<1>1. N \in Nat /\ Levels(u) = 1 .. N
  BY SpecAssumption DEF Smooth, Levels, MaxNodes
<1>2. f \in [1 .. N -> Nat \ {0}] /\ g \in [1 .. N -> Nat \ {0}]
  BY <1>1, ProfileRowsGrow DEF Smooth
<1>3. \A n \in 2 .. N : f[n] * g[n - 1] <= f[n - 1] * g[n]
  <2> SUFFICES ASSUME NEW n \in 2 .. N PROVE f[n] * g[n - 1] <= f[n - 1] * g[n]
    OBVIOUS
  <2>1. n \in Levels(u) \ {MinReplicas[u]} /\ n \in 1 .. N /\ n - 1 \in 1 .. N
    BY <1>1 DEF Smooth
  <2> QED  BY <2>1 DEF Smooth, Concave
<1>4. b \in 1 .. N /\ a \in 1 .. N /\ a \in 1 .. b
  BY <1>1 DEF Options
<1>5. c \in Nat \ {0} /\ r[q] = c  BY DEF Steady, Positive
<1>6. /\ Gain(u, q) = f[b] /\ Gain(u, o) = f[a]
      /\ Cost(u, r, q) = g[b] * c /\ Cost(u, r, o) = g[a] * c
  BY <1>4, <1>5 DEF Gain, Cost
<1> HIDE DEF N, f, g, a, b, c
<1>7. f[b] * g[a] <= f[a] * g[b]  BY <1>1, <1>2, <1>3, <1>4, Chain
<1>8. f[a] \in Nat /\ f[b] \in Nat /\ g[a] \in Nat /\ g[b] \in Nat  BY <1>2, <1>4
<1>9. (f[b] * g[a]) * c <= (f[a] * g[b]) * c  BY <1>5, <1>7, <1>8, Scale
<1>10. (f[b] * g[a]) * c = f[b] * (g[a] * c) /\ (f[a] * g[b]) * c = f[a] * (g[b] * c)
  BY <1>5, <1>8
<1> QED  BY <1>6, <1>9, <1>10 DEF NoBetter

LEMMA NoBetterTransitive ==
  ASSUME NEW u \in Jobs, u \in DOMAIN Profile, Gaps(u) = {}, NEW r, Steady(u, r),
         NEW o \in Options(u), NEW p \in Options(u), NEW q \in Options(u),
         NoBetter(u, r, q, p), NoBetter(u, r, p, o)
  PROVE  NoBetter(u, r, q, o)
<1>1. /\ Gain(u, o) \in Nat \ {0} /\ Gain(u, p) \in Nat \ {0} /\ Gain(u, q) \in Nat \ {0}
      /\ Cost(u, r, o) \in Nat \ {0} /\ Cost(u, r, p) \in Nat \ {0}
      /\ Cost(u, r, q) \in Nat \ {0}
  BY OptionValues DEF Steady
<1> QED  BY <1>1, Transitive DEF NoBetter

(***************************************************************************)
(* The step of the loop: the option taken is the best of the eligible      *)
(* ones, and what stays above the draft is no better than the eligible     *)
(* option of its slot.                                                     *)
(***************************************************************************)
LEMMA FrontierStep ==
  ASSUME NEW u \in Jobs, u \in DOMAIN Profile, Smooth(u), NEW r, Steady(u, r),
         NEW d \in Schedules(u), Frontier(u, r, d),
         NEW o \in Above(u, d), o[2] = MinReplicas[u] \/ o[2] = d[o[1]] + 1,
         \A p \in Above(u, d) :
           (p[2] = MinReplicas[u] \/ p[2] = d[p[1]] + 1) => NoBetter(u, r, p, o)
  PROVE  Frontier(u, r, [d EXCEPT ![o[1]] = o[2]])
<1> DEFINE e == [d EXCEPT ![o[1]] = o[2]]
<1>1. Above(u, d) \ {o} = Above(u, e)  BY TakeOption
<1> SUFFICES ASSUME NEW a \in Options(u) \ Above(u, e), NEW q \in Above(u, e)
             PROVE  NoBetter(u, r, q, a)
  BY DEF Frontier
<1> HIDE DEF e
<1>2. q \in Above(u, d) /\ q \in Options(u) /\ o \in Options(u)
  BY <1>1 DEF Above
<1>3. CASE a = o
  <2> DEFINE t == q[1]
             n == d[t] + 1
             p == <<t, n>>
  <2>1. t \in Slots(u) /\ q[2] \in Levels(u) /\ q[2] > d[t]
    BY <1>2 DEF Above, Options
  <2>2. Levels(u) = 1 .. MaxNodes(u) /\ MaxNodes(u) \in Nat
    BY SpecAssumption DEF Smooth, Levels, MaxNodes
  <2>3. d[t] \in {0} \cup Levels(u)  BY <2>1 DEF Schedules
  <2>4. n \in Levels(u) /\ n <= q[2] /\ n > d[t]  BY <2>1, <2>2, <2>3
  <2>5. p[1] = t /\ p[2] = n  OBVIOUS
  <2>6. p \in Options(u)  BY <2>1, <2>4 DEF Options
  <2>7. p \in Above(u, d) /\ p[2] = d[p[1]] + 1
    BY <2>4, <2>5, <2>6 DEF Above
  <2> HIDE DEF p
  <2>8. NoBetter(u, r, p, o)  BY <2>7
  <2>9. NoBetter(u, r, q, p)  BY <1>2, <2>4, <2>5, <2>6, HigherIsNoBetter
  <2> QED  BY <1>2, <1>3, <2>6, <2>8, <2>9, NoBetterTransitive DEF Smooth
<1>4. CASE a # o
  <2>1. a \in Options(u) \ Above(u, d)  BY <1>1, <1>4
  <2> QED  BY <1>2, <2>1 DEF Frontier
<1> QED  BY <1>3, <1>4

(***************************************************************************)
(* The worst option taken sets a price, C grams for W units of work: what  *)
(* the draft has taken is worth it, and what lies above is not.            *)
(***************************************************************************)
LEMMA Price ==
  ASSUME NEW u \in Jobs, u \in DOMAIN Profile, Gaps(u) = {}, NEW r, Steady(u, r),
         NEW d \in Schedules(u), Frontier(u, r, d)
  PROVE  \E W \in Nat \ {0}, C \in Nat :
           \A o \in Options(u) :
             IF o \in Above(u, d) THEN C * Gain(u, o) <= W * Cost(u, r, o)
                                  ELSE W * Cost(u, r, o) <= C * Gain(u, o)
<1> DEFINE T == Options(u) \ Above(u, d)
<1>1. \A o \in Options(u) : Gain(u, o) \in Nat \ {0} /\ Cost(u, r, o) \in Nat \ {0}
  BY OptionValues DEF Steady
<1>2. CASE T = {}
  <2>1. \A o \in Options(u) : o \in Above(u, d) /\ 0 * Gain(u, o) <= 1 * Cost(u, r, o)
    BY <1>1, <1>2
  <2>2. 1 \in Nat \ {0} /\ 0 \in Nat  OBVIOUS
  <2> QED  BY <2>1, <2>2
<1>3. CASE T # {}
  <2> DEFINE f == [o \in T |-> Gain(u, o)]
             g == [o \in T |-> Cost(u, r, o)]
  <2>1. IsFiniteSet(T)  BY SlotsFinite, FS_Difference
  <2>2. f \in [T -> Nat \ {0}] /\ g \in [T -> Nat \ {0}]  BY <1>1
  <2>3. PICK m \in T : \A p \in T : f[m] * g[p] <= f[p] * g[m]
    <3> HIDE DEF f, g, T
    <3> QED  BY <1>3, <2>1, <2>2, Worst
  <2> DEFINE W == Gain(u, m)
             C == Cost(u, r, m)
  <2>4. W \in Nat \ {0} /\ C \in Nat \ {0}  BY <1>1
  <2>5. ASSUME NEW o \in T PROVE W * Cost(u, r, o) <= C * Gain(u, o)
    <3>1. Gain(u, m) * Cost(u, r, o) <= Gain(u, o) * Cost(u, r, m)  BY <2>3
    <3>2. Gain(u, o) \in Nat /\ Cost(u, r, m) \in Nat  BY <1>1
    <3>3. Gain(u, o) * Cost(u, r, m) = Cost(u, r, m) * Gain(u, o)  BY <3>2
    <3> QED  BY <3>1, <3>3
  <2>6. ASSUME NEW q \in Above(u, d) PROVE C * Gain(u, q) <= W * Cost(u, r, q)
    <3>1. Gain(u, q) * Cost(u, r, m) <= Gain(u, m) * Cost(u, r, q)
      BY DEF Frontier, NoBetter
    <3>2. Gain(u, q) \in Nat /\ Cost(u, r, m) \in Nat  BY <1>1 DEF Above
    <3>3. Gain(u, q) * Cost(u, r, m) = Cost(u, r, m) * Gain(u, q)  BY <3>2
    <3> QED  BY <3>1, <3>3
  <2> HIDE DEF W, C
  <2> QED  BY <2>4, <2>5, <2>6
<1> QED  BY <1>2, <1>3

LEMMA EmittedType ==
  ASSUME NEW u \in Jobs, u \in DOMAIN Profile, Smooth(u), NEW r, Steady(u, r),
         NEW s \in Schedules(u), NEW t \in Slots(u)
  PROVE  /\ s[t] \in {0} \cup Levels(u) /\ DOMAIN s = Slots(u)
         /\ Row(u, s[t]).power \in Int /\ Row(u, s[t]).throughput \in Int
         /\ r[<<t, 1>>] \in Nat \ {0}
         /\ Emitted(u, r, s)[t] = Row(u, s[t]).power * r[<<t, 1>>]
         /\ Work(u, s)[t] = Row(u, s[t]).throughput * TimeSlot
<1>1. s[t] \in {0} \cup Levels(u) /\ DOMAIN s = Slots(u)  BY DEF Schedules
<1>2. <<t, 1>> \in Options(u)
  BY SpecAssumption DEF Smooth, Options, Levels, MaxNodes
<1> QED  BY <1>1, <1>2, ProfileRowsGrow DEF Emitted, Work, Smooth, Steady, Positive

(***************************************************************************)
(* At the price the draft's level of a slot is the cheapest there is: the  *)
(* balance falls as far as the draft has got, and rises from there.        *)
(***************************************************************************)
LEMMA SlotBalance ==
  ASSUME NEW u \in Jobs, u \in DOMAIN Profile, Smooth(u), NEW r, Steady(u, r),
         NEW d \in Schedules(u), NEW W \in Nat \ {0}, NEW C \in Nat,
         \A o \in Options(u) :
           IF o \in Above(u, d) THEN C * Gain(u, o) <= W * Cost(u, r, o)
                                ELSE W * Cost(u, r, o) <= C * Gain(u, o),
         NEW t \in Slots(u), NEW k \in {0} \cup Levels(u)
  PROVE  W * (Row(u, d[t]).power * r[<<t, 1>>]) - C * Row(u, d[t]).throughput
           <= W * (Row(u, k).power * r[<<t, 1>>]) - C * Row(u, k).throughput
<1> DEFINE N == MaxNodes(u)
           c == r[<<t, 1>>]
           P(n) == Row(u, n).power
           T(n) == Row(u, n).throughput
           G == [n \in 0 .. N |-> W * (P(n) * c) - C * T(n)]
           m == d[t]
<1>1. N \in Nat /\ Levels(u) = 1 .. N
  BY SpecAssumption DEF Smooth, Levels, MaxNodes
<1>2. \A n \in 0 .. N : P(n) \in Int /\ T(n) \in Int
  <2>1. \A n \in 0 .. N : n \in {0} \cup Levels(u)  BY <1>1
  <2> HIDE DEF N
  <2> QED  BY <2>1, ProfileRowsGrow
<1>3. m \in 0 .. N /\ k \in 0 .. N
  <2>1. m \in {0} \cup Levels(u)  BY DEF Schedules
  <2> HIDE DEF m, N
  <2> QED  BY <1>1, <2>1
<1>4. c \in Nat \ {0}
  <2>1. <<t, 1>> \in Options(u)  BY <1>1 DEF Smooth, Options
  <2> QED  BY <2>1 DEF Steady, Positive
<1>5. ASSUME NEW n \in 1 .. N
      PROVE  /\ <<t, n>> \in Options(u)
             /\ <<t, n>> \in Above(u, d) <=> n > m
             /\ W * Cost(u, r, <<t, n>>) = W * (P(n) * c) - W * (P(n - 1) * c)
             /\ C * Gain(u, <<t, n>>) = C * T(n) - C * T(n - 1)
  <2>1. <<t, n>> \in Options(u) /\ <<t, 1>> \in Options(u)
    BY <1>1, <1>5 DEF Options
  <2>2. r[<<t, n>>] = c  BY <2>1 DEF Steady
  <2>3. /\ Row(u, n).marginalThroughput = T(n) - T(n - 1)
        /\ Row(u, n).marginalPower = P(n) - P(n - 1)
    <3>1. n \in Levels(u)  BY <1>1, <1>5
    <3> QED  BY <3>1 DEF Smooth, Stepwise
  <2>4. Gain(u, <<t, n>>) = T(n) - T(n - 1) /\ Cost(u, r, <<t, n>>) = (P(n) - P(n - 1)) * c
    BY <2>2, <2>3 DEF Gain, Cost
  <2>5. P(n) \in Int /\ P(n - 1) \in Int /\ T(n) \in Int /\ T(n - 1) \in Int
    BY <1>1, <1>2, <1>5
  <2>6. C * (T(n) - T(n - 1)) = C * T(n) - C * T(n - 1)  BY <2>5
  <2>7. \A x, y \in Int : W * ((x - y) * c) = W * (x * c) - W * (y * c)  BY <1>4
  <2>8. <<t, n>> \in Above(u, d) <=> n > m  BY <2>1 DEF Above
  <2> HIDE DEF P, T, c
  <2> QED  BY <2>1, <2>4, <2>5, <2>6, <2>7, <2>8
<1>6. G \in [0 .. N -> Int]
  <2>1. ASSUME NEW n \in 0 .. N PROVE W * (P(n) * c) - C * T(n) \in Int
    <3>1. P(n) \in Int /\ T(n) \in Int  BY <1>2
    <3> HIDE DEF P, T, c
    <3> QED  BY <1>4, <3>1
  <2> QED  BY <2>1
<1>7. ASSUME NEW n \in 1 .. N
      PROVE  IF n > m THEN G[n - 1] <= G[n] ELSE G[n] <= G[n - 1]
  <2> DEFINE o == <<t, n>>
             a == W * (P(n) * c)
             b == W * (P(n - 1) * c)
             x == C * T(n)
             y == C * T(n - 1)
  <2>1. G[n] = a - x /\ G[n - 1] = b - y  BY <1>1, <1>7
  <2>2. a \in Int /\ b \in Int /\ x \in Int /\ y \in Int
    <3>1. P(n) \in Int /\ T(n) \in Int /\ P(n - 1) \in Int /\ T(n - 1) \in Int
      BY <1>1, <1>2, <1>7
    <3> HIDE DEF P, T, c
    <3> QED  BY <1>4, <3>1
  <2>3. W * Cost(u, r, o) = a - b /\ C * Gain(u, o) = x - y  BY <1>5
  <2>4. IF n > m THEN x - y <= a - b ELSE a - b <= x - y
    <3>1. o \in Options(u) /\ (o \in Above(u, d) <=> n > m)  BY <1>5
    <3>2. IF o \in Above(u, d) THEN C * Gain(u, o) <= W * Cost(u, r, o)
                               ELSE W * Cost(u, r, o) <= C * Gain(u, o)
      BY <3>1
    <3> HIDE DEF o, a, b, x, y, m
    <3> QED  BY <2>3, <3>1, <3>2
  <2> HIDE DEF a, b, x, y, G, m
  <2> QED  BY <2>1, <2>2, <2>4
<1>8. \A n \in 1 .. m : G[n] <= G[n - 1]
  <2>1. \A n \in 1 .. m : n \in 1 .. N /\ ~ (n > m)  BY <1>1, <1>3
  <2> HIDE DEF G, m, N
  <2> QED  BY <1>7, <2>1
<1>9. \A n \in m + 1 .. N : G[n - 1] <= G[n]
  <2>1. \A n \in m + 1 .. N : n \in 1 .. N /\ n > m  BY <1>1, <1>3
  <2> HIDE DEF G, m, N
  <2> QED  BY <1>7, <2>1
<1>10. G[m] <= G[k]
  <2> HIDE DEF G, m, N
  <2> QED  BY <1>1, <1>3, <1>6, <1>8, <1>9, Valley
<1> QED  BY <1>3, <1>10

(***************************************************************************)
(* So the schedule is: a sum of slots, each of which is the cheapest at    *)
(* the price.  What does as much work does not emit less.                  *)
(***************************************************************************)
LEMMA LeastCarbon ==
  ASSUME NEW u \in Jobs, u \in DOMAIN Profile, Smooth(u), NEW r, Steady(u, r),
         NEW d \in Schedules(u), Frontier(u, r, d), NEW s \in Schedules(u),
         Total(Work(u, s), Slots(u)) >= Total(Work(u, d), Slots(u))
  PROVE  Total(Emitted(u, r, s), Slots(u)) >= Total(Emitted(u, r, d), Slots(u))
<1> PICK W \in Nat \ {0}, C \in Nat :
       \A o \in Options(u) :
         IF o \in Above(u, d) THEN C * Gain(u, o) <= W * Cost(u, r, o)
                              ELSE W * Cost(u, r, o) <= C * Gain(u, o)
  BY Price DEF Smooth
<1> DEFINE S == Slots(u)
           K == TimeSlot * W
           Balance(q) == [t \in S |-> K * Emitted(u, r, q)[t] - C * Work(u, q)[t]]
<1>0. TimeSlot \in Nat \ {0}  BY SpecAssumption
<1>1. K \in Nat \ {0}
  <2>1. 0 * W <= TimeSlot * W /\ 1 * W <= TimeSlot * W  BY <1>0, Scale
  <2> QED  BY <1>0, <2>1
<1>2. IsFiniteSet(S)  BY SlotsFinite
<1>3. ASSUME NEW q \in Schedules(u)
      PROVE  Emitted(u, r, q) \in [S -> Int] /\ Work(u, q) \in [S -> Int]
  <2>1. Work(u, q) \in [S -> Int]  BY WorkType
  <2>2. DOMAIN q = S  BY DEF Schedules
  <2>3. ASSUME NEW t \in S PROVE Emitted(u, r, q)[t] \in Int
    <3>1. /\ Row(u, q[t]).power \in Int /\ r[<<t, 1>>] \in Nat
          /\ Emitted(u, r, q)[t] = Row(u, q[t]).power * r[<<t, 1>>]
      BY EmittedType
    <3> QED  BY <3>1
  <2>4. Emitted(u, r, q) = [t \in S |-> Emitted(u, r, q)[t]]  BY <2>2 DEF Emitted
  <2> QED  BY <2>1, <2>3, <2>4
<1>4. ASSUME NEW t \in S PROVE Balance(d)[t] <= Balance(s)[t]
  <2> DEFINE B(q) == W * (Row(u, q[t]).power * r[<<t, 1>>]) - C * Row(u, q[t]).throughput
  <2>1. ASSUME NEW q \in Schedules(u)
        PROVE  B(q) \in Int /\ Balance(q)[t] = B(q) * TimeSlot
    <3> DEFINE x == Row(u, q[t]).power * r[<<t, 1>>]
               y == Row(u, q[t]).throughput
    <3>1. /\ x \in Int /\ y \in Int
          /\ Emitted(u, r, q)[t] = x /\ Work(u, q)[t] = y * TimeSlot
      BY EmittedType
    <3>2. Balance(q)[t] = K * x - C * (y * TimeSlot)  BY <3>1
    <3> HIDE DEF x, y, Balance
    <3>3. K * x = (W * x) * TimeSlot /\ C * (y * TimeSlot) = (C * y) * TimeSlot
      BY <1>0, <3>1
    <3>4. W * x \in Int /\ C * y \in Int  BY <3>1
    <3>5. (W * x) * TimeSlot - (C * y) * TimeSlot = (W * x - C * y) * TimeSlot
      BY <1>0, <3>4
    <3> QED  BY <3>2, <3>3, <3>4, <3>5 DEF x, y
  <2>2. B(d) <= B(s)
    <3>1. s[t] \in {0} \cup Levels(u)  BY EmittedType
    <3> QED  BY <3>1, SlotBalance
  <2>3. B(d) \in Int /\ B(s) \in Int /\ Balance(d)[t] = B(d) * TimeSlot
        /\ Balance(s)[t] = B(s) * TimeSlot
    BY <2>1
  <2> HIDE DEF B, Balance
  <2>4. B(d) * TimeSlot <= B(s) * TimeSlot  BY <1>0, <2>2, <2>3, Scale
  <2> QED  BY <2>3, <2>4
<1>5. ASSUME NEW q \in Schedules(u)
      PROVE  /\ Balance(q) \in [S -> Int]
             /\ Total(Balance(q), S) = K * Total(Emitted(u, r, q), S) - C * Total(Work(u, q), S)
  <2> DEFINE x == Emitted(u, r, q)
             y == Work(u, q)
  <2>1. x \in [S -> Int] /\ y \in [S -> Int]  BY <1>3
  <2> HIDE DEF x, y, S, K
  <2>2. [t \in S |-> K * x[t] - C * y[t]] \in [S -> Int]  BY <1>1, <2>1
  <2>3. Total([t \in S |-> K * x[t] - C * y[t]], S) = K * Total(x, S) - C * Total(y, S)
    BY <1>1, <1>2, <2>1, TotalLinear
  <2> QED  BY <2>2, <2>3 DEF x, y
<1>6. Total(Balance(d), S) <= Total(Balance(s), S)
  <2>1. Balance(d) \in [S -> Int] /\ Balance(s) \in [S -> Int]  BY <1>5
  <2> HIDE DEF Balance, S
  <2> QED  BY <1>2, <1>4, <2>1, TotalMonotone
<1> DEFINE Fs == Total(Emitted(u, r, s), S)
           Fd == Total(Emitted(u, r, d), S)
           Ds == Total(Work(u, s), S)
           Dd == Total(Work(u, d), S)
<1>7. Fs \in Int /\ Fd \in Int /\ Ds \in Int /\ Dd \in Int
  BY <1>2, <1>3, TotalType
<1>8. K * Fd - C * Dd <= K * Fs - C * Ds /\ Ds >= Dd
  <2>1. /\ Total(Balance(d), S) = K * Fd - C * Dd
        /\ Total(Balance(s), S) = K * Fs - C * Ds
    BY <1>5
  <2> HIDE DEF Balance
  <2> QED  BY <1>6, <2>1
<1> HIDE DEF Fs, Fd, Ds, Dd, K
<1>9. Dd * C <= Ds * C  BY <1>7, <1>8, Scale
<1>10. K * Fd <= K * Fs
  <2>1. /\ K * Fd \in Int /\ K * Fs \in Int /\ C * Dd \in Int /\ C * Ds \in Int
        /\ Dd * C = C * Dd /\ Ds * C = C * Ds
    BY <1>1, <1>7
  <2> QED  BY <1>8, <1>9, <2>1
<1>11. Fd <= Fs  BY <1>1, <1>7, <1>10, Cancel
<1> QED  BY <1>7, <1>11 DEF Fs, Fd
-----------------------------------------------------------------------------
(***************************************************************************)
(* What makes the greedy choice inductive: every intensity read is         *)
(* positive, every option has one when the list is sorted, and nothing     *)
(* above the draft is better than what the draft has taken.                *)
(***************************************************************************)
ReadInv ==
  /\ call.pc \in {"collect", "select"} =>
       \A o \in DOMAIN call.read : call.read[o] \in Nat \ {0}
  /\ call.pc = "select" => DOMAIN call.read = Options(call.uid)

FrontierInv ==
  call.pc = "select" /\ Coherent /\ Smooth(call.uid) =>
    Frontier(call.uid, call.read, call.draft)

GreedyInv == Inv /\ ReadInv /\ FrontierInv

\* In the loop, the call is about a job with a profile and a draft of it.
LEMMA InTheLoop ==
  ASSUME Inv, call.pc = "select"
  PROVE  /\ call.uid \in Jobs /\ call.uid \in DOMAIN Profile
         /\ call.draft \in Schedules(call.uid)
         /\ call.list = Above(call.uid, call.draft)
<1> PICK u \in Jobs \ DOMAIN schedule, p \in ProgressValues :
       u \in DOMAIN Profile /\ SelectInv(u, p)
  BY DEF Inv, CallInv, CollectInv, Idle, Collecting
<1> PICK d \in Schedules(u) : call = Selecting(u, p, call.read, Above(u, d), d)
  BY DEF SelectInv
<1> QED  BY DEF Selecting

LEMMA ReadIsSteady ==
  ASSUME Inv, ReadInv, call.pc = "select", Coherent
  PROVE  Steady(call.uid, call.read)
BY DEF ReadInv, Coherent, Steady, Positive

LEMMA BetterIsNotNoBetter ==
  ASSUME NEW o, NEW q, ~Better(q, o),
         /\ Gain(call.uid, o) \in Nat /\ Cost(call.uid, call.read, o) \in Nat
         /\ Gain(call.uid, q) \in Nat /\ Cost(call.uid, call.read, q) \in Nat
  PROVE  NoBetter(call.uid, call.read, q, o)
BY DEF Better, NoBetter, Gain, Cost

LEMMA InitGreedy == Init => GreedyInv
BY InitInv DEF Init, GreedyInv, ReadInv, FrontierInv, Idle

LEMMA StepGreedy == GreedyInv /\ [Next]_vars => GreedyInv'
<1> SUFFICES ASSUME GreedyInv, [Next]_vars PROVE ReadInv' /\ FrontierInv'
  BY StepInv DEF GreedyInv
<1>1. CASE UNCHANGED call
  <2>1. ReadInv'  BY <1>1 DEF GreedyInv, ReadInv, Options, Slots, Levels, MaxNodes
  <2>2. Coherent' = Coherent  BY <1>1 DEF Coherent
  <2>3. FrontierInv'  BY <1>1, <2>2 DEF GreedyInv, FrontierInv
  <2> QED  BY <2>1, <2>3
<1>2. CASE call' = Idle
  BY <1>2 DEF ReadInv, FrontierInv, Idle
<1>3. ASSUME NEW u \in Jobs, NEW p \in ProgressValues, Begin(u, p)
      PROVE  ReadInv' /\ FrontierInv'
  BY <1>3 DEF Begin, Collecting, EmptyMap, ReadInv, FrontierInv
<1>4. CASE Collect
  <2> PICK o \in call.todo :
         /\ o[1] \in DOMAIN prediction
         /\ call' = Collecting(call.uid, call.progress, call.todo \ {o},
                               Put(call.read, o, prediction[o[1]]))
    BY <1>4 DEF Collect
  <2>1. prediction[o[1]] \in Nat \ {0}
    BY PredictionAssumption DEF GreedyInv, Inv, EmptyMap
  <2>2. call'.pc = "collect" /\ call'.read = Put(call.read, o, prediction[o[1]])
    BY DEF Collecting
  <2>3. \A q \in DOMAIN call.read : call.read[q] \in Nat \ {0}
    BY <1>4 DEF Collect, GreedyInv, ReadInv
  <2>4. \A q \in DOMAIN call'.read : call'.read[q] \in Nat \ {0}
    BY <2>1, <2>2, <2>3 DEF Put
  <2> QED  BY <2>2, <2>4 DEF ReadInv, FrontierInv
<1>5. CASE Sort
  <2> PICK u \in Jobs \ DOMAIN schedule, p \in ProgressValues :
         u \in DOMAIN Profile /\ CollectInv(u, p)
    BY <1>5 DEF Sort, GreedyInv, Inv, CallInv, SelectInv, Idle, Selecting
  <2>1. call.uid = u /\ DOMAIN call.read = Options(u)
    BY <1>5 DEF Sort, CollectInv, Collecting
  <2> DEFINE d == [t \in Slots(u) |-> 0]
  <2>2. call'.pc = "select" /\ call'.uid = u /\ call'.read = call.read /\ call'.draft = d
    BY <1>5, <2>1 DEF Sort, Selecting
  <2>3. ReadInv'
    BY <1>5, <2>1, <2>2 DEF Sort, GreedyInv, ReadInv, Options, Slots, Levels, MaxNodes
  <2>4. Above(u, d) = Options(u)
    BY LevelsBounded DEF Above, Options
  <2>5. Frontier(u, call.read, d)
    BY <2>4 DEF Frontier
  <2> HIDE DEF d
  <2>6. FrontierInv'
    BY <2>2, <2>5 DEF FrontierInv
  <2> QED  BY <2>3, <2>6
<1>6. CASE Select
  <2> DEFINE u == call.uid
             r == call.read
             d == call.draft
  <2>1. /\ call.pc = "select"
        /\ u \in Jobs /\ u \in DOMAIN Profile /\ d \in Schedules(u)
        /\ call.list = Above(u, d)
    BY <1>6, InTheLoop DEF Select, GreedyInv
  <2> PICK o \in Candidates :
         call' = Selecting(u, call.progress, r, call.list \ {o}, [d EXCEPT ![o[1]] = o[2]])
    BY <1>6 DEF Select
  <2>2. /\ call'.pc = "select" /\ call'.uid = u /\ call'.read = r
        /\ call'.draft = [d EXCEPT ![o[1]] = o[2]]
    BY DEF Selecting
  <2>3. ReadInv'
    BY <2>1, <2>2 DEF GreedyInv, ReadInv, Options, Slots, Levels, MaxNodes
  <2>4. ASSUME Coherent', Smooth(u)
        PROVE  Frontier(u, r, [d EXCEPT ![o[1]] = o[2]])
    <3>1. Coherent
      <4> DEFINE OneValue(f) == \A x, y \in DOMAIN f : x[1] = y[1] => f[x] = f[y]
      <4>1. OneValue(call'.read)  BY <2>4 DEF Coherent
      <4>2. call'.read = call.read  BY <2>2
      <4> HIDE DEF OneValue
      <4>3. OneValue(call.read)  BY <4>1, <4>2
      <4> QED  BY <4>3 DEF Coherent, OneValue
    <3>2. Steady(u, r) /\ Frontier(u, r, d)
      BY <2>1, <2>4, <3>1, ReadIsSteady DEF GreedyInv, FrontierInv
    <3>3. o \in Above(u, d) /\ (o[2] = MinReplicas[u] \/ o[2] = d[o[1]] + 1)
      BY <2>1 DEF Candidates, Eligible
    <3>4. ASSUME NEW q \in Above(u, d), q[2] = MinReplicas[u] \/ q[2] = d[q[1]] + 1
          PROVE  NoBetter(u, r, q, o)
      <4>1. q \in call.list /\ Eligible(q)  BY <2>1, <3>4 DEF Eligible
      <4>2. ~Better(q, o)  BY <2>4, <4>1 DEF Candidates, Smooth
      <4>3. q \in Options(u) /\ o \in Options(u)  BY <3>3 DEF Above
      <4>4. /\ Gain(u, o) \in Nat /\ Cost(u, r, o) \in Nat
            /\ Gain(u, q) \in Nat /\ Cost(u, r, q) \in Nat
        BY <2>1, <2>4, <3>2, <4>3, OptionValues DEF Smooth, Steady
      <4> QED  BY <4>2, <4>4, BetterIsNotNoBetter
    <3> HIDE DEF u, r, d
    <3> QED  BY <2>1, <2>4, <3>2, <3>3, <3>4, FrontierStep
  <2>5. FrontierInv'
    <3> HIDE DEF u, r, d
    <3> QED  BY <2>2, <2>4 DEF FrontierInv
  <2> QED  BY <2>3, <2>5
<1> QED
  BY <1>1, <1>2, <1>3, <1>4, <1>5, <1>6
  DEF Next, CallStep, NewStatus, UpdateCarbonStatus, Advance, Exhaust, ReadPanic, Panic, Dies,
      Restart, TooTight, Store, vars

LEMMA GreedyInvariance == Spec => []GreedyInv
BY InitGreedy, StepGreedy, PTL DEF Spec

(***************************************************************************)
(* Every draft the loop passes through, the stored one with them, emits    *)
(* the least carbon of all schedules that do at least as much work         *)
(* (carbon_scaler.go:110-142).                                             *)
(***************************************************************************)
THEOREM GreedyOptimal == Spec => []GreedyFrontier
<1>1. GreedyInv => GreedyFrontier
  <2> DEFINE u == call.uid
             r == call.read
             d == call.draft
  <2> SUFFICES ASSUME GreedyInv, call.pc = "select", Coherent, Smooth(u),
                      NEW s \in Schedules(u), ComputeDone(u, s) >= ComputeDone(u, d)
               PROVE  Footprint(u, s) >= Footprint(u, d)
    BY DEF GreedyFrontier
  <2>1. u \in Jobs /\ u \in DOMAIN Profile /\ d \in Schedules(u)
    BY InTheLoop DEF GreedyInv
  <2>2. Steady(u, r) /\ Frontier(u, r, d)
    BY ReadIsSteady DEF GreedyInv, FrontierInv
  <2>3. /\ ComputeDone(u, s) = Total(Work(u, s), Slots(u))
        /\ ComputeDone(u, d) = Total(Work(u, d), Slots(u))
    BY <2>1, DoneIsTotal
  <2>4. /\ Footprint(u, s) = Total(Emitted(u, r, s), Slots(u))
        /\ Footprint(u, d) = Total(Emitted(u, r, d), Slots(u))
    BY <2>1, FootprintIsTotal
  <2> HIDE DEF u, r, d
  <2> QED  BY <2>1, <2>2, <2>3, <2>4, LeastCarbon
<1> QED  BY <1>1, GreedyInvariance, PTL

(***************************************************************************)
(* What the loop has before its last step emits no more than any schedule  *)
(* that finishes the work: the stored schedule exceeds the least possible  *)
(* carbon by that of the last node taken, at the most.                     *)
(***************************************************************************)
THEOREM LastNodeOnly ==
  Spec => [](call.pc = "select" /\ ~Done /\ Coherent /\ Smooth(call.uid) =>
               \A s \in Fitting(call.uid, call.progress) :
                 Footprint(call.uid, s) >= Footprint(call.uid, call.draft))
<1> DEFINE Before ==
      call.pc = "select" /\ ~Done /\ Coherent /\ Smooth(call.uid) =>
        \A s \in Fitting(call.uid, call.progress) :
          Footprint(call.uid, s) >= Footprint(call.uid, call.draft)
<1>1. Inv /\ GreedyFrontier => Before
  <2> DEFINE u == call.uid
             p == call.progress
             d == call.draft
  <2> SUFFICES ASSUME Inv, GreedyFrontier, call.pc = "select", ~Done, Coherent, Smooth(u),
                      NEW s \in Fitting(u, p)
               PROVE  Footprint(u, s) >= Footprint(u, d)
    OBVIOUS
  <2>1. u \in Jobs /\ u \in DOMAIN Profile /\ d \in Schedules(u)
    BY InTheLoop
  <2>2. s \in Schedules(u) /\ Suffices(u, s, p) /\ ~Suffices(u, d, p)
    BY DEF Fitting, Done
  <2>3. p \in Int
    <3> PICK v \in Jobs \ DOMAIN schedule, q \in ProgressValues : SelectInv(v, q)
      BY DEF Inv, CallInv, CollectInv, Idle, Collecting
    <3> QED  BY PredictionAssumption DEF SelectInv, Selecting
  <2>4. ComputeDone(u, s) \in Int /\ ComputeDone(u, d) \in Int
    <3> HIDE DEF u, d
    <3>1. Work(u, s) \in [Slots(u) -> Int] /\ Work(u, d) \in [Slots(u) -> Int]
      BY <2>1, <2>2, WorkType
    <3> QED  BY <2>1, <2>2, <3>1, SlotsFinite, TotalType, DoneIsTotal
  <2>5. ComputeDone(u, s) >= ComputeDone(u, d)
    <3>1. (100 - p) * WorkSize[u] \in Int  BY <2>1, <2>3, SpecAssumption
    <3> HIDE DEF u, p, d
    <3> QED  BY <2>2, <2>4, <3>1 DEF Suffices
  <2> QED  BY <2>2, <2>5 DEF GreedyFrontier
<1> HIDE DEF Before
<1>2. Spec => []Before
  BY <1>1, Invariance, GreedyOptimal, PTL
<1> QED  BY <1>2 DEF Before

-----------------------------------------------------------------------------
(***************************************************************************)
(* A call comes to an end.  That it does so if its goroutine runs is for   *)
(* TLC (CallReturns); here is what that rests on: a call in progress can   *)
(* always go on, and has less to do after each of its steps.               *)
(***************************************************************************)
StepsLeft ==
  CASE call.pc = "idle"    -> 0
    [] call.pc = "collect" -> Cardinality(call.todo) + Cardinality(Options(call.uid)) + 2
    [] call.pc = "select"  -> Cardinality(call.list) + 1

\* Collect or Panic, Sort, Store, Select, TooTight.
CanGoOn ==
  \/ call.pc = "collect" /\ ((\E o \in call.todo : Reached(o)) \/ call.todo = {})
  \/ call.pc = "select" /\ (Done \/ Candidates # {} \/ Stuck)

\* The two nested loops have a next option as long as one is left.
LEMMA NextReached ==
  ASSUME NEW u \in Jobs, call.todo \in SUBSET Options(u), call.todo # {}
  PROVE  \E o \in call.todo : Reached(o)
<1> DEFINE T == {o[1] : o \in call.todo}
<1>1. \A o \in call.todo : o[1] \in Nat /\ o[2] \in Nat /\ o = <<o[1], o[2]>>
  <2>1. Slots(u) \subseteq Nat /\ Levels(u) \subseteq Nat
    BY LevelsBounded, SpecAssumption DEF Slots
  <2> QED  BY <2>1 DEF Options
<1>2. T \in SUBSET Nat /\ T # {}  BY <1>1
<1>3. \A o \in call.todo : o[1] \in T  OBVIOUS
<1>4. \A k \in T : \E o \in call.todo : o[1] = k  OBVIOUS
<1> HIDE DEF T
<1>5. PICK t \in T : \A k \in T : t <= k  BY <1>2, Least
<1> DEFINE N == {o[2] : o \in {q \in call.todo : q[1] = t}}
<1>6. N \in SUBSET Nat /\ N # {}  BY <1>1, <1>4
<1>7. \A o \in call.todo : o[1] = t => o[2] \in N  OBVIOUS
<1>8. \A n \in N : \E o \in call.todo : o[1] = t /\ o[2] = n  OBVIOUS
<1> HIDE DEF N
<1>9. PICK n \in N : \A k \in N : n <= k  BY <1>6, Least
<1> PICK o \in call.todo : o[1] = t /\ o[2] = n  BY <1>8
<1>10. ASSUME NEW q \in call.todo PROVE o[1] < q[1] \/ (o[1] = q[1] /\ o[2] <= q[2])
  <2>1. t <= q[1] /\ t \in Nat /\ q[1] \in Nat  BY <1>1, <1>2, <1>3, <1>5
  <2> QED  BY <1>7, <1>9, <2>1
<1> QED  BY <1>10 DEF Reached

\* If an option can be taken one of the best can.
LEMMA CandidateExists ==
  ASSUME GreedyInv, call.pc = "select", NEW e \in call.list, Eligible(e)
  PROVE  Candidates # {}
<1> DEFINE u == call.uid
           r == call.read
           E == {o \in call.list : Eligible(o)}
           f == [o \in E |-> Cost(u, r, o)]
           g == [o \in E |-> Gain(u, o)]
<1>1. /\ u \in Jobs /\ u \in DOMAIN Profile
      /\ call.list \subseteq Options(u)
  BY InTheLoop DEF GreedyInv, Above
<1>2. E # {} /\ E \subseteq Options(u)  BY <1>1
<1>3. CASE Gaps(u) # {}
  BY <1>2, <1>3 DEF Candidates
<1>4. CASE Gaps(u) = {}
  <2>1. Positive(u, r)  BY DEF GreedyInv, ReadInv, Positive
  <2>2. \A o \in E : Gain(u, o) \in Nat \ {0} /\ Cost(u, r, o) \in Nat \ {0}
    BY <1>1, <1>2, <1>4, <2>1, OptionValues
  <2>3. f \in [E -> Nat \ {0}] /\ g \in [E -> Nat \ {0}]  BY <2>2
  <2>4. IsFiniteSet(E)  BY <1>1, <1>2, SlotsFinite, FS_Subset
  <2>5. PICK m \in E : \A p \in E : f[m] * g[p] <= f[p] * g[m]
    <3> HIDE DEF E, f, g
    <3> QED  BY <1>2, <2>3, <2>4, Worst
  <2>6. ASSUME NEW p \in E PROVE ~Better(p, m)
    <3>1. Cost(u, r, m) * Gain(u, p) <= Cost(u, r, p) * Gain(u, m)  BY <2>5
    <3>2. /\ Cost(u, r, m) \in Nat /\ Gain(u, p) \in Nat
          /\ Cost(u, r, p) \in Nat /\ Gain(u, m) \in Nat
      BY <2>2
    <3>3. Better(p, m) <=> Gain(u, p) * Cost(u, r, m) > Gain(u, m) * Cost(u, r, p)
      BY DEF Better, Gain, Cost
    <3> HIDE DEF u, r
    <3>4. Gain(u, p) * Cost(u, r, m) <= Gain(u, m) * Cost(u, r, p)  BY <3>1, <3>2
    <3> QED  BY <3>2, <3>3, <3>4
  <2> QED  BY <2>6 DEF Candidates
<1> QED  BY <1>3, <1>4

(***************************************************************************)
(* A call that holds slock waits for nothing: there is a next option to    *)
(* collect, or one to take, or the call returns (carbon_scaler.go:99-142). *)
(***************************************************************************)
THEOREM NeverWaits == Spec => [](call.pc # "idle" => CanGoOn)
<1>1. GreedyInv => (call.pc # "idle" => CanGoOn)
  <2> SUFFICES ASSUME GreedyInv, call.pc # "idle" PROVE CanGoOn
    OBVIOUS
  <2> PICK u \in Jobs \ DOMAIN schedule, p \in ProgressValues :
         CollectInv(u, p) \/ SelectInv(u, p)
    BY DEF GreedyInv, Inv, CallInv, Idle
  <2>1. CASE CollectInv(u, p)
    <3>1. call.pc = "collect" /\ call.todo \in SUBSET Options(u)
      BY <2>1 DEF CollectInv, Collecting
    <3> QED  BY <3>1, NextReached DEF CanGoOn
  <2>2. CASE SelectInv(u, p)
    <3>1. call.pc = "select"  BY <2>2 DEF SelectInv, Selecting
    <3> QED  BY <3>1, CandidateExists DEF CanGoOn, Stuck
  <2> QED  BY <2>1, <2>2
<1> QED  BY <1>1, GreedyInvariance, PTL

(***************************************************************************)
(* Whatever changes a call in progress leaves it less to do: no option is  *)
(* collected twice, and the loop "for done < remaining_work" takes each    *)
(* option of its list at most once.                                        *)
(***************************************************************************)
THEOREM CallShrinks ==
  Spec => [][call.pc # "idle" /\ call' # call =>
               StepsLeft \in Nat /\ StepsLeft' \in Nat /\ StepsLeft' < StepsLeft]_vars
<1>1. ASSUME Inv, [Next]_vars, call.pc # "idle", call' # call
      PROVE  StepsLeft \in Nat /\ StepsLeft' \in Nat /\ StepsLeft' < StepsLeft
  <2> PICK u \in Jobs \ DOMAIN schedule, p \in ProgressValues :
         CollectInv(u, p) \/ SelectInv(u, p)
    BY <1>1 DEF Inv, CallInv, Idle
  <2>0. IsFiniteSet(Options(u)) /\ Cardinality(Options(u)) \in Nat
    BY SlotsFinite, FS_CardinalityType
  <2>1. CASE CollectInv(u, p)
    <3> PICK todo \in SUBSET Options(u) :
           /\ call = Collecting(u, p, todo, call.read)
           /\ DOMAIN call.read = Options(u) \ todo
      BY <2>1 DEF CollectInv
    <3>1. call.pc = "collect" /\ call.uid = u /\ call.todo = todo  BY DEF Collecting
    <3>2. IsFiniteSet(todo) /\ Cardinality(todo) \in Nat
      BY <2>0, FS_Subset, FS_CardinalityType
    <3>3. StepsLeft = Cardinality(todo) + Cardinality(Options(u)) + 2
      BY <3>1 DEF StepsLeft
    <3>4. CASE call' = Idle
      <4>1. call'.pc = "idle"  BY <3>4 DEF Idle
      <4>2. StepsLeft' = 0  BY <4>1 DEF StepsLeft
      <4> QED  BY <2>0, <3>2, <3>3, <4>2
    <3>5. CASE Collect
      <4> PICK o \in todo :
             call' = Collecting(u, call.progress, todo \ {o},
                               Put(call.read, o, prediction[o[1]]))
        BY <3>1, <3>5 DEF Collect
      <4>1. call'.pc = "collect" /\ call'.uid = u /\ call'.todo = todo \ {o}
        BY DEF Collecting
      <4>2. Options(u)' = Options(u)  BY DEF Options, Slots, Levels, MaxNodes
      <4>3. StepsLeft' = Cardinality(todo \ {o}) + Cardinality(Options(u)) + 2
        BY <4>1, <4>2 DEF StepsLeft
      <4>4. Cardinality(todo \ {o}) = Cardinality(todo) - 1 /\ Cardinality(todo \ {o}) \in Nat
        BY <3>2, FS_RemoveElement, FS_CardinalityType
      <4> QED  BY <2>0, <3>2, <3>3, <4>3, <4>4
    <3>6. CASE Sort
      <4>1. call'.pc = "select" /\ call'.list = Options(u)
        BY <3>1, <3>6 DEF Sort, Selecting
      <4>2. StepsLeft' = Cardinality(Options(u)) + 1
        BY <4>1 DEF StepsLeft
      <4> QED  BY <2>0, <3>2, <3>3, <4>2
    <3> QED
      BY <1>1, <3>1, <3>4, <3>5, <3>6
      DEF Next, CallStep, NewStatus, UpdateCarbonStatus, Advance, Exhaust, Begin, Panic,
          ReadPanic, Dies, Select, TooTight, Store, Restart, Stuck, Idle, vars
  <2>2. CASE SelectInv(u, p)
    <3> PICK d \in Schedules(u) : call = Selecting(u, p, call.read, Above(u, d), d)
      BY <2>2 DEF SelectInv
    <3> DEFINE list == Above(u, d)
    <3>1. call.pc = "select" /\ call.list = list  BY DEF Selecting
    <3>2. IsFiniteSet(list) /\ Cardinality(list) \in Nat
      <4>1. list \subseteq Options(u)  BY DEF Above
      <4> HIDE DEF list
      <4> QED  BY <2>0, <4>1, FS_Subset, FS_CardinalityType
    <3> HIDE DEF list
    <3>3. StepsLeft = Cardinality(list) + 1  BY <3>1 DEF StepsLeft
    <3>4. CASE call' = Idle
      <4>1. call'.pc = "idle"  BY <3>4 DEF Idle
      <4>2. StepsLeft' = 0  BY <4>1 DEF StepsLeft
      <4> QED  BY <3>2, <3>3, <4>2
    <3>5. CASE Select
      <4> PICK o \in Candidates :
             call' = Selecting(call.uid, call.progress, call.read, call.list \ {o},
                               [call.draft EXCEPT ![o[1]] = o[2]])
        BY <3>5 DEF Select
      <4>1. o \in list  BY <3>1 DEF Candidates
      <4>2. call'.pc = "select" /\ call'.list = list \ {o}  BY <3>1 DEF Selecting
      <4>3. StepsLeft' = Cardinality(list \ {o}) + 1  BY <4>2 DEF StepsLeft
      <4>4. Cardinality(list \ {o}) = Cardinality(list) - 1 /\ Cardinality(list \ {o}) \in Nat
        BY <3>2, <4>1, FS_RemoveElement, FS_CardinalityType
      <4> QED  BY <3>2, <3>3, <4>3, <4>4
    <3> QED
      BY <1>1, <3>1, <3>4, <3>5
      DEF Next, CallStep, NewStatus, UpdateCarbonStatus, Advance, Exhaust, Begin, Collect, Panic,
          ReadPanic, Dies, Sort, TooTight, Store, Restart, Idle, vars
  <2> QED  BY <2>1, <2>2
<1>2. Inv /\ [Next]_vars =>
        [call.pc # "idle" /\ call' # call =>
           StepsLeft \in Nat /\ StepsLeft' \in Nat /\ StepsLeft' < StepsLeft]_vars
  BY <1>1
<1> QED  BY Invariance, <1>2, PTL DEF Spec
=============================================================================
