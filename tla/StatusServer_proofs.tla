------------------------- MODULE StatusServer_proofs -------------------------
(***************************************************************************)
(* Proofs about StatusServer for any jobs, nodes and monitors: types, and  *)
(* that current_jobs knows exactly the monitors that mean to go on.        *)
(***************************************************************************)
EXTENDS StatusServer, FiniteSetTheorems, TLAPS

Monitor  == [job : Jobs, running : BOOLEAN, replicas : Nat, progress : Progress]
Snapshot == [stage : Stages, replicas : Nat, progress : Progress]

ClusterOK ==
  /\ stage \in [Jobs -> Stages]
  /\ pods \in [Jobs -> SUBSET Nodes]
  /\ log \in [Jobs -> Progress] /\ recorded \in [Jobs -> Progress]
  /\ readings \in [Nodes -> BOOLEAN]
  /\ upsets \in 0 .. MaxUpsets
  /\ shrunk \subseteq Jobs /\ heirs \subseteq Jobs

LoopOK ==
  /\ loop.pc \in {"list", "visit", "check"} /\ DOMAIN loop.snap \subseteq Jobs
  /\ \A j \in DOMAIN loop.snap : loop.snap[j] \in Snapshot

MonitorsOK ==
  /\ DOMAIN at = Monitors /\ \A m \in Monitors : AtType(at[m])
  /\ DOMAIN monitor = {m \in Monitors : at[m] # Free}
  /\ \A m \in DOMAIN monitor : monitor[m] \in Monitor

\* The registered monitors are those that were not told to stop, each
\* registered for its own job.
Linked ==
  /\ DOMAIN registry \subseteq Jobs
  /\ \A j \in DOMAIN registry :
       /\ registry[j] \in DOMAIN monitor
       /\ monitor[registry[j]].running /\ monitor[registry[j]].job = j
  /\ \A m \in DOMAIN monitor :
       monitor[m].running =>
         monitor[m].job \in DOMAIN registry /\ registry[monitor[m].job] = m

\* Who writes its results was told to stop.
SavingStopped ==
  \A m \in DOMAIN monitor : at[m].pc = "save" => ~monitor[m].running

ServerOK == LoopOK /\ MonitorsOK /\ Linked /\ SavingStopped

Inv == ClusterOK /\ ServerOK

-----------------------------------------------------------------------------
LEMMA Initial == Init => Inv
<1> SUFFICES ASSUME Init PROVE Inv
  OBVIOUS
<1> MaxProgress \in Nat /\ MaxUpsets \in Nat  BY MonitorAssumption
<1>1. ClusterOK  BY DEF Init, ClusterOK, Stages, Progress
<1>2. LoopOK  BY DEF Init, LoopOK, EmptyMap
<1>3. MonitorsOK  BY DEF Init, MonitorsOK, EmptyMap, AtType, Free
<1>4. Linked /\ SavingStopped  BY DEF Init, Linked, SavingStopped, EmptyMap
<1> QED  BY <1>1, <1>2, <1>3, <1>4 DEF Inv, ServerOK

ClusterStep ==
  \E j \in Jobs :
    \/ Submit(j) \/ Reconciled(j) \/ Advances(j) \/ Succeeds(j) \/ Delete(j)
    \/ \E nodes \in SUBSET Nodes :
         Grow(j, nodes) \/ \E next \in Stages : Shrink(j, nodes, next)

\* The status server does not notice what happens in the cluster.
LEMMA ServerKept == ServerOK /\ UNCHANGED Server => ServerOK'
BY DEF ServerOK, LoopOK, MonitorsOK, Linked, SavingStopped, Server

LEMMA ClusterKept ==
  ClusterOK /\ UNCHANGED <<cluster, readings, upsets, history>> => ClusterOK'
BY DEF ClusterOK, cluster, history

LEMMA ClusterInv == Inv /\ ClusterStep => Inv'
<1> SUFFICES ASSUME Inv, ClusterStep PROVE Inv'
  OBVIOUS
<1> MaxProgress \in Nat /\ MaxUpsets \in Nat  BY MonitorAssumption
<1> USE DEF Inv, ClusterOK
<1> PICK j \in Jobs :
      \/ Submit(j) \/ Reconciled(j) \/ Advances(j) \/ Succeeds(j) \/ Delete(j)
      \/ \E nodes \in SUBSET Nodes :
           Grow(j, nodes) \/ \E next \in Stages : Shrink(j, nodes, next)
  BY DEF ClusterStep
<1>1. CASE Submit(j)
  BY <1>1, ServerKept DEF Submit, Becomes, Stages, Progress
<1>2. CASE Reconciled(j)
  BY <1>2, ServerKept DEF Reconciled, Becomes, Stages, history
<1>3. CASE Advances(j)
  <2>1. log' \in [Jobs -> Progress]  BY <1>3 DEF Advances, Progress
  <2> QED  BY <1>3, <2>1, ServerKept DEF Advances, history
<1>4. CASE Succeeds(j)
  BY <1>4, ServerKept DEF Succeeds, Becomes, Stages, history
<1>5. CASE Delete(j)
  BY <1>5, ServerKept DEF Delete, Becomes, Upset, Stages
<1>6. ASSUME NEW nodes \in SUBSET Nodes, Grow(j, nodes) PROVE Inv'
  BY <1>6, ServerKept DEF Grow, Becomes, Stages, history
<1>7. ASSUME NEW nodes \in SUBSET Nodes, NEW next \in Stages, Shrink(j, nodes, next)
      PROVE  Inv'
  BY <1>7, ServerKept DEF Shrink, Becomes, Upset
<1> QED  BY <1>1, <1>2, <1>3, <1>4, <1>5, <1>6, <1>7

MeterStep == \E n \in Nodes : Sample(n) \/ ServerStarts(n)

LEMMA MeterInv == Inv /\ MeterStep => Inv'
<1> SUFFICES ASSUME Inv, MeterStep PROVE Inv'
  OBVIOUS
<1>1. readings' \in [Nodes -> BOOLEAN] /\ UNCHANGED <<cluster, Server, upsets, history>>
  BY DEF MeterStep, Sample, ServerStarts, Inv, ClusterOK
<1>2. ClusterOK'  BY <1>1 DEF Inv, ClusterOK, cluster, history
<1> QED  BY <1>1, <1>2, ServerKept DEF Inv

-----------------------------------------------------------------------------
(* The main loop *)

\* What the loop lists of the cluster has its type.
LEMMA SeenType ==
  ASSUME ClusterOK, NEW j \in Jobs
  PROVE  Seen(j) \in Snapshot
<1>1. IsFiniteSet(pods[j])  BY FS_Subset, MonitorAssumption DEF ClusterOK
<1>2. Cardinality(pods[j]) \in Nat  BY <1>1, FS_CardinalityType
<1> QED  BY <1>2 DEF ClusterOK, Seen, Snapshot

LEMMA ToldType ==
  ASSUME MonitorsOK, NEW stopped, NEW m \in DOMAIN monitor
  PROVE  /\ Told(stopped)[m] \in Monitor
         /\ Told(stopped)[m].job = monitor[m].job
         /\ m \in stopped => ~Told(stopped)[m].running
         /\ m \notin stopped => Told(stopped)[m] = monitor[m]
<1>1. CASE m \in stopped
  <2>1. Told(stopped)[m] = [monitor[m] EXCEPT !.running = FALSE]  BY <1>1 DEF Told
  <2>2. monitor[m] \in Monitor  BY DEF MonitorsOK
  <2> QED  BY <1>1, <2>1, <2>2 DEF Monitor
<1>2. CASE m \notin stopped
  BY <1>2 DEF Told, MonitorsOK
<1> QED  BY <1>1, <1>2

(***************************************************************************)
(* The heart of the matter: some of the registered monitors are told to    *)
(* stop and forgotten in one go.                                           *)
(***************************************************************************)
LEMMA Telling ==
  ASSUME MonitorsOK, Linked, SavingStopped, NEW gone \in SUBSET DOMAIN registry,
         monitor' = Told({registry[j] : j \in gone}),
         registry' = [j \in DOMAIN registry \ gone |-> registry[j]],
         UNCHANGED at
  PROVE  MonitorsOK' /\ Linked' /\ SavingStopped'
<1> DEFINE stopped == {registry[j] : j \in gone}
<1>1. DOMAIN monitor' = DOMAIN monitor  BY DEF Told
<1>2. \A m \in DOMAIN monitor :
        /\ monitor'[m] \in Monitor
        /\ monitor'[m].job = monitor[m].job
        /\ m \in stopped => ~monitor'[m].running
        /\ m \notin stopped => monitor'[m] = monitor[m]
  BY ToldType
<1>3. MonitorsOK'  BY <1>1, <1>2 DEF MonitorsOK
<1>4. \A j \in DOMAIN registry \ gone : registry[j] \notin stopped
  BY DEF Linked
<1>5. DOMAIN registry' = DOMAIN registry \ gone /\ \A j \in DOMAIN registry' : registry'[j] = registry[j]
  OBVIOUS
<1> HIDE DEF stopped
<1>6. \A j \in DOMAIN registry' :
        /\ registry'[j] \in DOMAIN monitor'
        /\ monitor'[registry'[j]].running /\ monitor'[registry'[j]].job = j
  BY <1>1, <1>2, <1>4, <1>5 DEF Linked
<1>7. ASSUME NEW m \in DOMAIN monitor', monitor'[m].running
      PROVE  monitor'[m].job \in DOMAIN registry' /\ registry'[monitor'[m].job] = m
  <2>1. m \notin stopped /\ monitor'[m] = monitor[m]  BY <1>1, <1>2, <1>7
  <2>2. monitor[m].job \in DOMAIN registry /\ registry[monitor[m].job] = m
    BY <1>1, <1>7, <2>1 DEF Linked
  <2>3. monitor[m].job \notin gone  BY <2>1, <2>2 DEF stopped
  <2> QED  BY <1>5, <2>1, <2>2, <2>3
<1>8. Linked'  BY <1>5, <1>6, <1>7 DEF Linked
<1>9. SavingStopped'
  BY <1>1, <1>2 DEF SavingStopped
<1> QED  BY <1>3, <1>8, <1>9

LEMMA VisitType ==
  ASSUME NEW snap, DOMAIN snap \subseteq Jobs,
         \A j \in DOMAIN snap : snap[j] \in Snapshot, Visit(snap)
  PROVE  LoopOK'
BY DEF Visit, LoopGoto, LoopOK

LEMMA VisitingType ==
  ASSUME LoopOK, NEW j \in Jobs, Visiting(j)
  PROVE  LoopOK'
<1> DEFINE rest == Drop(loop.snap, j)
<1>1. DOMAIN rest \subseteq Jobs /\ \A k \in DOMAIN rest : rest[k] \in Snapshot
  BY DEF LoopOK, Drop
<1>2. Visit(rest)  BY DEF Visiting
<1> HIDE DEF rest
<1> QED  BY <1>1, <1>2, VisitType

LEMMA ListedAfresh == LoopGoto("list", EmptyMap) => LoopOK'
BY DEF LoopGoto, LoopOK, EmptyMap

LEMMA AbortInv == Inv /\ (ListFails \/ LoopRaises) => Inv'
<1> SUFFICES ASSUME Inv, ListFails \/ LoopRaises PROVE Inv'
  OBVIOUS
<1> MaxUpsets \in Nat  BY MonitorAssumption
<1>1. Abort /\ upsets' \in 0 .. MaxUpsets
  BY DEF Inv, ClusterOK, ListFails, LoopRaises, Upset
<1>2. ClusterOK'  BY <1>1 DEF Inv, ClusterOK, Abort, cluster, history
<1>3. LoopOK'  BY <1>1, ListedAfresh DEF Abort
<1>4. /\ registry' = [j \in DOMAIN registry \ DOMAIN registry |-> registry[j]]
      /\ monitor' = Told({registry[j] : j \in DOMAIN registry}) /\ UNCHANGED at
  BY <1>1 DEF Abort, EmptyMap
<1>5. MonitorsOK' /\ Linked' /\ SavingStopped'
  BY <1>4, Telling DEF Inv, ServerOK
<1> QED  BY <1>2, <1>3, <1>5 DEF Inv, ServerOK

LEMMA ListInv == Inv /\ List => Inv'
<1> SUFFICES ASSUME Inv, List PROVE Inv'
  OBVIOUS
<1> DEFINE listed == [j \in {k \in Jobs : stage[k] # "absent"} |-> Seen(j)]
<1>1. DOMAIN listed \subseteq Jobs /\ \A j \in DOMAIN listed : listed[j] \in Snapshot
  BY SeenType DEF Inv
<1>2. Visit(listed)  BY DEF List
<1> HIDE DEF listed
<1>3. LoopOK'  BY <1>1, <1>2, VisitType
<1> QED
  BY <1>3, ClusterKept
  DEF List, Inv, ServerOK, MonitorsOK, Linked, SavingStopped

LEMMA CheckInv == Inv /\ Check => Inv'
<1> SUFFICES ASSUME Inv, Check PROVE Inv'
  OBVIOUS
<1>1. LoopOK'  BY ListedAfresh DEF Check
<1>2. MonitorsOK' /\ Linked' /\ SavingStopped'
  BY Telling DEF Check, Inv, ServerOK
<1>3. ClusterOK'  BY ClusterKept DEF Check, Inv
<1> QED  BY <1>1, <1>2, <1>3 DEF Inv, ServerOK

LEMMA StopMonitorInv ==
  ASSUME Inv, NEW j \in Jobs, StopMonitor(j)
  PROVE  Inv'
<1>1. LoopOK'  BY VisitingType DEF StopMonitor, Inv, ServerOK
<1>2. {registry[k] : k \in {j}} = {registry[j]}  OBVIOUS
<1>3. /\ {j} \in SUBSET DOMAIN registry /\ UNCHANGED at
      /\ registry' = [k \in DOMAIN registry \ {j} |-> registry[k]]
      /\ monitor' = Told({registry[k] : k \in {j}})
  BY <1>2 DEF StopMonitor, Drop
<1>4. MonitorsOK' /\ Linked' /\ SavingStopped'
  BY <1>3, Telling DEF Inv, ServerOK
<1>5. ClusterOK'  BY ClusterKept DEF StopMonitor, Visiting, Inv
<1> QED  BY <1>1, <1>4, <1>5 DEF Inv, ServerOK

LEMMA PassOverInv ==
  ASSUME Inv, NEW j \in Jobs, PassOver(j)
  PROVE  Inv'
<1>1. LoopOK'  BY VisitingType DEF PassOver, Inv, ServerOK
<1>2. ClusterOK'  BY ClusterKept DEF PassOver, Visiting, Inv
<1> QED  BY <1>1, <1>2 DEF PassOver, Inv, ServerOK, MonitorsOK, Linked, SavingStopped

\* The job is in no one's charge, so its new monitor is the only one.
LEMMA StartMonitorInv ==
  ASSUME Inv, NEW j \in Jobs, NEW m \in Monitors, StartMonitor(j, m)
  PROVE  Inv'
<1> DEFINE new == [job |-> j, running |-> TRUE, replicas |-> loop.snap[j].replicas,
                   progress |-> loop.snap[j].progress]
<1>1. LoopOK'  BY VisitingType DEF StartMonitor, Inv, ServerOK
<1>2. ClusterOK'  BY ClusterKept DEF StartMonitor, Visiting, Inv
<1>3. new \in Monitor /\ new.running /\ new.job = j
  BY DEF StartMonitor, Visiting, Inv, ServerOK, LoopOK, Snapshot, Monitor
<1>4. /\ j \notin DOMAIN registry /\ m \notin DOMAIN monitor
      /\ monitor' = Put(monitor, m, new) /\ registry' = Put(registry, j, m)
      /\ at' = [at EXCEPT ![m] = [pc |-> "locate"]]
  BY DEF StartMonitor, Inv, ServerOK, MonitorsOK
<1> HIDE DEF new
<1>5. /\ DOMAIN monitor' = DOMAIN monitor \cup {m} /\ monitor'[m] = new
      /\ \A k \in DOMAIN monitor : monitor'[k] = monitor[k]
  BY <1>4 DEF Put
<1>6. /\ DOMAIN registry' = DOMAIN registry \cup {j} /\ registry'[j] = m
      /\ \A k \in DOMAIN registry : registry'[k] = registry[k]
  BY <1>4 DEF Put
<1>7. /\ DOMAIN at' = Monitors /\ at'[m] = [pc |-> "locate"]
      /\ \A k \in Monitors \ {m} : at'[k] = at[k]
  BY <1>4 DEF Inv, ServerOK, MonitorsOK
<1>8. AtType(at'[m]) /\ at'[m] # Free /\ at'[m].pc # "save"
  BY <1>7 DEF AtType, Free
<1>9. MonitorsOK'
  BY <1>3, <1>5, <1>7, <1>8 DEF Inv, ServerOK, MonitorsOK
<1>10. Linked'
  BY <1>3, <1>4, <1>5, <1>6 DEF Inv, ServerOK, Linked
<1>11. SavingStopped'
  BY <1>5, <1>7, <1>8 DEF Inv, ServerOK, MonitorsOK, SavingStopped
<1> QED  BY <1>1, <1>2, <1>9, <1>10, <1>11 DEF Inv, ServerOK

\* A field of a monitor that is no concern of current_jobs is written.
LEMMA Writing ==
  ASSUME MonitorsOK, Linked, SavingStopped,
         DOMAIN monitor' = DOMAIN monitor, UNCHANGED registry,
         \A m \in DOMAIN monitor :
           /\ monitor'[m] \in Monitor
           /\ monitor'[m].job = monitor[m].job
           /\ monitor'[m].running <=> monitor[m].running
  PROVE  Linked' /\ (UNCHANGED at => MonitorsOK' /\ SavingStopped')
BY DEF MonitorsOK, Linked, SavingStopped

LEMMA SetReplicasInv ==
  ASSUME Inv, NEW j \in Jobs, SetReplicas(j)
  PROVE  Inv'
<1>1. LoopOK'  BY VisitingType DEF SetReplicas, Inv, ServerOK
<1>2. ClusterOK'  BY ClusterKept DEF SetReplicas, Visiting, Inv
<1>3. loop.snap[j].replicas \in Nat
  BY DEF SetReplicas, Visiting, Inv, ServerOK, LoopOK, Snapshot
<1>4. monitor' = [monitor EXCEPT ![registry[j]] =
                    [monitor[registry[j]] EXCEPT !.replicas = loop.snap[j].replicas]]
  BY DEF SetReplicas
<1>5. \A m \in DOMAIN monitor :
        /\ monitor'[m] \in Monitor
        /\ monitor'[m].job = monitor[m].job
        /\ monitor'[m].running <=> monitor[m].running
  BY <1>3, <1>4 DEF Inv, ServerOK, MonitorsOK, Monitor
<1>6. DOMAIN monitor' = DOMAIN monitor /\ UNCHANGED <<registry, at>>
  BY <1>4 DEF SetReplicas
<1>7. MonitorsOK' /\ Linked' /\ SavingStopped'
  BY <1>5, <1>6, Writing DEF Inv, ServerOK
<1> QED  BY <1>1, <1>2, <1>7 DEF Inv, ServerOK

-----------------------------------------------------------------------------
(* The monitors *)

\* A monitor goes on; only one that was told to stop goes to save.
LEMMA Going ==
  ASSUME MonitorsOK, SavingStopped, NEW m \in Monitors, at[m] # Free, NEW state,
         Goto(m, state), AtType(state), state # Free,
         state.pc = "save" => ~monitor[m].running, UNCHANGED monitor
  PROVE  MonitorsOK' /\ SavingStopped'
<1>1. /\ DOMAIN at' = Monitors /\ at'[m] = state
      /\ \A k \in Monitors \ {m} : at'[k] = at[k]
  BY DEF Goto, MonitorsOK
<1> QED  BY <1>1 DEF MonitorsOK, SavingStopped

LEMMA StepInv ==
  ASSUME Inv, NEW m \in Monitors, at[m] # Free, NEW state,
         Goto(m, state), AtType(state), state # Free,
         state.pc = "save" => ~monitor[m].running,
         UNCHANGED <<loop, registry, monitor>>, ClusterOK'
  PROVE  Inv'
<1>1. MonitorsOK' /\ SavingStopped'  BY Going DEF Inv, ServerOK
<1> QED  BY <1>1 DEF Inv, ServerOK, LoopOK, Linked

LEMMA PollingType ==
  ASSUME NEW left \in SUBSET Nodes, NEW size \in Nat
  PROVE  /\ AtType(Polling(left, size)) /\ Polling(left, size) # Free
         /\ Polling(left, size).pc # "save"
BY DEF Polling, AtType, Free

LEMMA LocateInv ==
  ASSUME Inv, NEW m \in Monitors, Locate(m)
  PROVE  Inv'
<1> PICK found \in {pods[monitor[m].job], {}} :
      \E asked \in SUBSET found : Goto(m, Polling(asked, Cardinality(found)))
  BY DEF Locate
<1> PICK asked \in SUBSET found : Goto(m, Polling(asked, Cardinality(found)))
  OBVIOUS
<1>1. at[m] # Free  BY DEF Locate, Free
<1>2. monitor[m].job \in Jobs  BY <1>1 DEF Inv, ServerOK, MonitorsOK, Monitor
<1>3. found \in SUBSET Nodes /\ asked \in SUBSET Nodes  BY <1>2 DEF Inv, ClusterOK
<1>4. Cardinality(found) \in Nat
  BY <1>3, FS_Subset, FS_CardinalityType, MonitorAssumption
<1>5. ClusterOK'  BY ClusterKept DEF Locate, MonitorOnly, Inv
<1> QED
  BY <1>1, <1>3, <1>4, <1>5, PollingType, StepInv DEF Locate, MonitorOnly

LEMMA PollInv ==
  ASSUME Inv, NEW m \in Monitors, NEW n \in Nodes, Poll(m, n)
  PROVE  Inv'
<1>1. at[m] # Free
  <2>1. at[m].pc = "poll"  BY DEF Poll
  <2> QED  BY <2>1 DEF Free
<1>2. /\ at[m].left \ {n} \in SUBSET Nodes /\ at[m].size \in Nat
  BY DEF Poll, Inv, ServerOK, MonitorsOK, AtType
<1>3. ClusterOK'
  BY DEF Inv, ClusterOK, Poll, MonitorOnly, cluster, history
<1>4. CASE readings[n]
  <2> DEFINE next == Polling(at[m].left \ {n}, at[m].size)
  <2>1. AtType(next) /\ next # Free /\ next.pc # "save"  BY <1>2, PollingType
  <2>2. Goto(m, next)  BY <1>4 DEF Poll
  <2> HIDE DEF next
  <2> QED  BY <1>1, <1>3, <2>1, <2>2, StepInv DEF Poll, MonitorOnly
<1>5. CASE ~readings[n]
  <2> DEFINE dead == [pc |-> "dead", cause |-> "no readings"]
  <2>1. AtType(dead) /\ dead # Free /\ dead.pc # "save"  BY DEF AtType, Free
  <2>2. Goto(m, dead)  BY <1>5 DEF Poll, Dies
  <2> HIDE DEF dead
  <2> QED  BY <1>1, <1>3, <2>1, <2>2, StepInv DEF Poll, MonitorOnly
<1> QED  BY <1>4, <1>5

LEMMA PruneInv ==
  ASSUME Inv, NEW m \in Monitors, Prune(m)
  PROVE  Inv'
<1> DEFINE next == [pc   |-> "prune", item |-> at[m].item + 1, size |-> at[m].size,
                    kept |-> at[m].kept + (IF Keeps(at[m].item, monitor[m].replicas) THEN 1 ELSE 0)]
<1>1. at[m] # Free  BY DEF Prune, Free
<1>2. /\ at[m].size \in Nat /\ at[m].item \in 0 .. at[m].size /\ at[m].kept \in 0 .. at[m].item
      /\ at[m].item < at[m].size
  BY DEF Prune, Inv, ServerOK, MonitorsOK, AtType
<1>3. AtType(next) /\ next # Free /\ next.pc # "save"
  BY <1>2 DEF AtType, Free
<1>4. Goto(m, next)  BY DEF Prune
<1>5. ClusterOK'  BY ClusterKept DEF Prune, MonitorOnly, Inv
<1> HIDE DEF next
<1> QED  BY <1>1, <1>3, <1>4, <1>5, StepInv DEF Prune, MonitorOnly

\* States that carry nothing along.
LEMMA PlainType ==
  ASSUME NEW pc \in {"locate", "update", "report", "sleep", "save"}
  PROVE  AtType([pc |-> pc]) /\ [pc |-> pc] # Free /\ [pc |-> pc].pc = pc
BY DEF AtType, Free

LEMMA DeadType ==
  ASSUME NEW cause \in {"no readings", "reading error", "raised"}
  PROVE  LET dead == [pc |-> "dead", cause |-> cause]
         IN  AtType(dead) /\ dead # Free /\ dead.pc # "save"
BY DEF AtType, Free

LEMMA AssertInv ==
  ASSUME Inv, NEW m \in Monitors, Assert(m)
  PROVE  Inv'
<1>1. at[m] # Free
  <2>1. at[m].pc = "prune"  BY DEF Assert
  <2> QED  BY <2>1 DEF Free
<1>2. ClusterOK'  BY ClusterKept DEF Assert, MonitorOnly, Inv
<1>3. CASE at[m].kept <= monitor[m].replicas
  BY <1>1, <1>2, <1>3, PlainType, StepInv DEF Assert, MonitorOnly
<1>4. CASE ~(at[m].kept <= monitor[m].replicas)
  BY <1>1, <1>2, <1>4, DeadType, StepInv DEF Assert, Dies, MonitorOnly
<1> QED  BY <1>3, <1>4

LEMMA UpdateProgressInv ==
  ASSUME Inv, NEW m \in Monitors, UpdateProgress(m)
  PROVE  Inv'
<1> DEFINE latest == Latest(monitor[m].progress, log[monitor[m].job])
<1>1. at[m] # Free  BY DEF UpdateProgress, Free
<1>2. m \in DOMAIN monitor /\ monitor[m] \in Monitor
  BY <1>1 DEF Inv, ServerOK, MonitorsOK
<1>3. latest \in Progress  BY <1>2 DEF Inv, ClusterOK, Monitor, Latest
<1>4. monitor' = [monitor EXCEPT ![m] = [monitor[m] EXCEPT !.progress = latest]]
  BY DEF UpdateProgress
<1> HIDE DEF latest
<1>5. \A k \in DOMAIN monitor :
        /\ monitor'[k] \in Monitor
        /\ monitor'[k].job = monitor[k].job
        /\ monitor'[k].running <=> monitor[k].running
  BY <1>3, <1>4 DEF Inv, ServerOK, MonitorsOK, Monitor
<1>6. DOMAIN monitor' = DOMAIN monitor  BY <1>4
<1>7. UNCHANGED <<loop, registry>> /\ Goto(m, [pc |-> "report"])
  BY DEF UpdateProgress, MonitorOnly
<1>8. Linked'  BY <1>5, <1>6, <1>7, Writing DEF Inv, ServerOK
<1>9. /\ DOMAIN at' = Monitors /\ at'[m] = [pc |-> "report"]
      /\ \A k \in Monitors \ {m} : at'[k] = at[k]
  BY <1>7 DEF Goto, Inv, ServerOK, MonitorsOK
<1>10. AtType(at'[m]) /\ at'[m] # Free /\ at'[m].pc # "save"
  BY <1>9, PlainType
<1>11. MonitorsOK'
  BY <1>1, <1>5, <1>6, <1>9, <1>10 DEF Inv, ServerOK, MonitorsOK
<1>12. SavingStopped'
  BY <1>5, <1>6, <1>9, <1>10 DEF Inv, ServerOK, MonitorsOK, SavingStopped
<1>13. ClusterOK'  BY ClusterKept DEF UpdateProgress, MonitorOnly, Inv
<1> QED  BY <1>7, <1>8, <1>11, <1>12, <1>13 DEF Inv, ServerOK, LoopOK

LEMMA ReportInv ==
  ASSUME Inv, NEW m \in Monitors,
         SetProgress(m) \/ ProgressRefused(m) \/ MonitorRaises(m)
  PROVE  Inv'
<1> MaxUpsets \in Nat  BY MonitorAssumption
<1>1. at[m] # Free  BY DEF SetProgress, ProgressRefused, MonitorRaises, Free
<1>2. monitor[m] \in Monitor  BY <1>1 DEF Inv, ServerOK, MonitorsOK
<1>3. CASE SetProgress(m)
  <2>1. recorded' \in [Jobs -> Progress]
    BY <1>2, <1>3 DEF SetProgress, Inv, ClusterOK, Monitor
  <2>2. ClusterOK'  BY <1>3, <2>1 DEF SetProgress, Inv, ClusterOK, history
  <2> QED  BY <1>1, <1>3, <2>2, PlainType, StepInv DEF SetProgress
<1>4. CASE ProgressRefused(m)
  <2>1. ClusterOK'  BY <1>4 DEF ProgressRefused, Upset, Inv, ClusterOK, cluster, history
  <2> QED  BY <1>1, <1>4, <2>1, PlainType, StepInv DEF ProgressRefused
<1>5. CASE MonitorRaises(m)
  <2>1. ClusterOK'  BY <1>5 DEF MonitorRaises, Upset, Inv, ClusterOK, cluster, history
  <2> QED  BY <1>1, <1>5, <2>1, DeadType, StepInv DEF MonitorRaises, Dies
<1> QED  BY <1>3, <1>4, <1>5

LEMMA WakeInv ==
  ASSUME Inv, NEW m \in Monitors, Wake(m)
  PROVE  Inv'
<1>1. at[m] # Free  BY DEF Wake, Free
<1>2. ClusterOK'  BY ClusterKept DEF Wake, MonitorOnly, Inv
<1>3. CASE monitor[m].running
  BY <1>1, <1>2, <1>3, PlainType, StepInv DEF Wake, MonitorOnly
<1>4. CASE ~monitor[m].running
  BY <1>1, <1>2, <1>4, PlainType, StepInv DEF Wake, MonitorOnly
<1> QED  BY <1>3, <1>4

\* A monitor that ends was told to stop, so current_jobs does not name it.
LEMMA EndInv ==
  ASSUME Inv, NEW m \in Monitors, Save(m) \/ Collect(m)
  PROVE  Inv'
<1>1. /\ at[m] # Free /\ Goto(m, Free) /\ monitor' = Drop(monitor, m)
      /\ UNCHANGED <<cluster, readings, upsets, history, loop, registry>>
  BY DEF Save, Collect, MonitorOnly, Free
<1>2. m \in DOMAIN monitor  BY <1>1 DEF Inv, ServerOK, MonitorsOK
<1>3. ~monitor[m].running
  BY <1>2 DEF Save, Collect, Inv, ServerOK, SavingStopped
<1>4. ClusterOK'  BY <1>1, ClusterKept DEF Inv
<1>5. /\ DOMAIN at' = Monitors /\ at'[m] = Free
      /\ \A k \in Monitors \ {m} : at'[k] = at[k]
  BY <1>1 DEF Goto, Inv, ServerOK, MonitorsOK
<1>6. /\ DOMAIN monitor' = DOMAIN monitor \ {m}
      /\ \A k \in DOMAIN monitor \ {m} : monitor'[k] = monitor[k]
  BY <1>1 DEF Drop
<1>7. AtType(Free)  BY DEF AtType, Free
<1>8. MonitorsOK'
  BY <1>5, <1>6, <1>7 DEF Inv, ServerOK, MonitorsOK
<1>9. Linked'
  BY <1>1, <1>3, <1>6 DEF Inv, ServerOK, Linked
<1>10. SavingStopped'
  BY <1>5, <1>6 DEF Inv, ServerOK, MonitorsOK, SavingStopped
<1> QED  BY <1>1, <1>4, <1>8, <1>9, <1>10 DEF Inv, ServerOK, LoopOK

-----------------------------------------------------------------------------
LEMMA Inductive == Inv /\ [Next]_vars => Inv'
<1> SUFFICES ASSUME Inv, [Next]_vars PROVE Inv'
  OBVIOUS
<1>1. CASE ClusterStep \/ MeterStep  BY <1>1, ClusterInv, MeterInv
<1>2. CASE ListFails \/ LoopRaises \/ List \/ Check
  BY <1>2, AbortInv, ListInv, CheckInv
<1>3. ASSUME NEW j \in Jobs,
             StopMonitor(j) \/ SetReplicas(j) \/ PassOver(j)
               \/ \E m \in Monitors : StartMonitor(j, m)
      PROVE  Inv'
  BY <1>3, StopMonitorInv, SetReplicasInv, PassOverInv, StartMonitorInv
<1>4. ASSUME NEW m \in Monitors,
             MonitorStep(m) \/ MonitorRaises(m) \/ ProgressRefused(m)
      PROVE  Inv'
  BY <1>4, LocateInv, PollInv, PruneInv, AssertInv, UpdateProgressInv, ReportInv,
     WakeInv, EndInv
  DEF MonitorStep
<1>5. CASE UNCHANGED vars
  BY <1>5, ClusterKept, ServerKept DEF vars, Inv, Server
<1> QED  BY <1>1, <1>2, <1>3, <1>4, <1>5 DEF Next, LoopStep, ClusterStep, MeterStep

LEMMA Invariant == Spec => []Inv
BY Initial, Inductive, PTL DEF Spec

(***************************************************************************)
(* Every variable of the status server keeps its type, and current_jobs    *)
(* names only monitors that exist.                                         *)
(***************************************************************************)
THEOREM TypeCorrect == Spec => []TypeOK
<1>1. Inv => TypeOK
  BY DEF Inv, ServerOK, ClusterOK, LoopOK, MonitorsOK, Linked, TypeOK, Monitor, Snapshot
<1> QED  BY <1>1, Invariant, PTL

(***************************************************************************)
(* No monitor is forgotten while it means to go on, and no job has two     *)
(* that do, for any number of jobs, nodes, monitors and disturbances.      *)
(***************************************************************************)
THEOREM NoneForgotten == Spec => []RunningIsRegistered
<1>1. Inv => RunningIsRegistered
  BY DEF Inv, ServerOK, Linked, RunningIsRegistered
<1> QED  BY <1>1, Invariant, PTL
=============================================================================
