--------------------------- MODULE Manager_proofs ---------------------------
(***************************************************************************)
(* Proofs about Manager for every number of jobs, every trace and every    *)
(* bound on faults and goroutines: types, that no call runs without a      *)
(* prediction, and that the two clocks - hours, and positions in schedules *)
(* - are apart by nothing but lost pushes and overtaking goroutines.       *)
(***************************************************************************)
EXTENDS Manager, TLAPS

\* Somebody acts on a push: its handler, or a goroutine it has started.
Working == agent = "posted" \/ \E u \in Jobs : calls[u] > 0

\* The hour the loop has moved on to, and whose push is still to come.
Due == IF agent = "push" THEN 1 ELSE 0

\* Whoever acts on a push is in a process that listens, and so is a schedule.
Serving ==
  Working \/ DOMAIN plan # {} => pc = "serve" /\ registered

\* The stored prediction is of this hour, but for the pushes lost since.
Synced ==
  Working => status \in Hours /\ Distance(status, hour) = missed + Due

\* A schedule is at its hour once what is pending has been done.
Clocks ==
  \A u \in DOMAIN plan :
    scheduleIndex[u] + Pending(u) + plan[u].late - plan[u].early + Due = Passed(u)

\* What has gone wrong is counted, and the handler finds room for its calls.
Capped ==
  /\ missed <= faults
  /\ \A u \in DOMAIN plan : plan[u].late <= faults
  /\ agent = "posted" => \A u \in Jobs : calls[u] < MaxCalls

Inv == ManagerTypeOK /\ Serving /\ Synced /\ Clocks /\ Capped

-----------------------------------------------------------------------------
(* Hours *)

\* An hour later, unless that is a whole trace later.
LEMMA NextHour ==
  ASSUME NEW h \in Hours, NEW k \in Hours, Distance(h, k) < TraceLength - 1
  PROVE  LET next == IF k = TraceLength - 1 THEN 0 ELSE k + 1
         IN  next \in Hours /\ Distance(h, next) = Distance(h, k) + 1
<1> TraceLength \in Nat /\ TraceLength > 1  BY HorizonAssumption
<1> QED  BY DEF Hours, Distance

LEMMA SameHour ==
  ASSUME NEW h \in Hours
  PROVE  Distance(h, h) = 0
<1> TraceLength \in Nat  BY HorizonAssumption
<1> QED  BY DEF Hours, Distance

-----------------------------------------------------------------------------
(* The store *)

StoreOK == TypeOK /\ IndexInRange

\* No stored schedule is longer than MaxSlots.
LEMMA Position ==
  ASSUME StoreOK, NEW u \in DOMAIN schedule
  PROVE  scheduleIndex[u] \in 0 .. MaxSlots - 1
<1> USE DEF StoreOK
<1>1. scheduleIndex[u] \in DOMAIN schedule[u] /\ u \in Jobs
  BY DEF TypeOK, IndexInRange
<1>2. CASE schedule[u] = Fallback(u)
  BY <1>1, <1>2, HorizonAssumption
<1>3. CASE \E p \in ProgressValues : schedule[u] \in Fitting(u, p)
  BY <1>1, <1>3, HorizonAssumption
<1> QED  BY <1>2, <1>3 DEF TypeOK

LEMMA StoreInit == Init => StoreOK
BY DEF Init, StoreOK, TypeOK, IndexInRange, EmptyMap

LEMMA StoreKept == StoreOK /\ UNCHANGED store => StoreOK'
BY DEF StoreOK, TypeOK, IndexInRange, store

LEMMA StoreBlank == Blank => StoreOK'
BY DEF Blank, StoreOK, TypeOK, IndexInRange, EmptyMap

\* A call leaves a store, and moves the position of its own job only.
LEMMA StoreAdvance ==
  ASSUME StoreOK, NEW u \in Jobs, Advance(u)
  PROVE  /\ StoreOK' /\ DOMAIN schedule' = DOMAIN schedule
         /\ scheduleIndex'[u] = scheduleIndex[u] + 1
         /\ \A v \in DOMAIN schedule \ {u} : scheduleIndex'[v] = scheduleIndex[v]
BY DEF Advance, StoreOK, TypeOK, IndexInRange

LEMMA StoreExhaust ==
  ASSUME StoreOK, NEW u \in Jobs, Exhaust(u)
  PROVE  /\ StoreOK' /\ DOMAIN schedule' = DOMAIN schedule
         /\ \A v \in DOMAIN schedule \ {u} : scheduleIndex'[v] = scheduleIndex[v]
<1>1. 0 \in DOMAIN Fallback(u)  BY FallbackAssumption
<1> QED  BY <1>1 DEF Exhaust, StoreOK, TypeOK, IndexInRange

LEMMA StoreInstall ==
  ASSUME StoreOK, NEW u \in Jobs, NEW p \in ProgressValues, Install(u, p)
  PROVE  /\ StoreOK' /\ DOMAIN schedule' = DOMAIN schedule \cup {u}
         /\ u \notin DOMAIN schedule /\ scheduleIndex'[u] = 0
         /\ \A v \in DOMAIN schedule : scheduleIndex'[v] = scheduleIndex[v]
<1> PICK s \in Fitting(u, p) : schedule' = Put(schedule, u, s)
  BY DEF Install
<1>1. 0 \in DOMAIN s  BY HorizonAssumption
<1> QED  BY <1>1 DEF Install, StoreOK, TypeOK, IndexInRange, Put

-----------------------------------------------------------------------------
LEMMA Initial == ManagerInit => Inv
<1> SUFFICES ASSUME ManagerInit PROVE Inv
  OBVIOUS
<1> /\ TraceLength \in Nat /\ TraceLength > 1 /\ MaxCalls \in Nat /\ MaxFaults \in Nat
  BY HorizonAssumption
<1>1. StoreOK  BY StoreInit DEF ManagerInit
<1>2. DOMAIN plan = {}  BY DEF ManagerInit, EmptyMap
<1>3. calls \in [Jobs -> 0 .. MaxCalls]  BY DEF ManagerInit, NoCalls
<1>4. hour \in Hours /\ status \in Statuses  BY DEF ManagerInit, Hours, Statuses
<1>5. /\ agent \in {"push", "posted", "sleep"} /\ registered \in BOOLEAN
      /\ pc \in {"down", "register", "answered", "elect", "serve"}
      /\ missed \in 0 .. MaxFaults /\ faults \in 0 .. MaxFaults
  <2>1. registered \in BOOLEAN  BY DEF ManagerInit
  <2>2. agent = "push" /\ pc = "down" /\ missed = 0 /\ faults = 0  BY Zenon DEF ManagerInit
  <2> QED  BY <2>1, <2>2
<1>6. ManagerTypeOK
  BY <1>1, <1>2, <1>3, <1>4, <1>5 DEF ManagerTypeOK, StoreOK
<1> QED
  BY <1>2, <1>6 DEF Inv, ManagerInit, Serving, Synced, Clocks, Capped, Working, NoCalls

\* A process that has just started, or is gone, knows nothing.
LEMMA Forgetting ==
  ASSUME ManagerTypeOK, Blank, agent' \in {"push", "sleep"},
         faults' \in 0 .. MaxFaults, UNCHANGED <<hour, registered>>,
         pc' \in {"down", "register"}
  PROVE  Inv'
<1> MaxCalls \in Nat /\ MaxFaults \in Nat  BY HorizonAssumption
<1>1. StoreOK'  BY StoreBlank
<1>2. ManagerTypeOK'
  BY <1>1 DEF ManagerTypeOK, Blank, StoreOK, NoCalls, EmptyMap, Statuses
<1> QED
  BY <1>2 DEF Inv, Blank, Serving, Synced, Clocks, Capped, Working, NoCalls, EmptyMap

LEMMA StartInv == Inv /\ Start => Inv'
<1> SUFFICES ASSUME Inv, Start PROVE Inv'
  OBVIOUS
<1>1. agent # "posted"  BY DEF Inv, Serving, Working, Start
<1> QED  BY <1>1, Forgetting DEF Inv, ManagerTypeOK, Start, Service

LEMMA StopInv == Inv /\ Stop => Inv'
<1> SUFFICES ASSUME Inv, Stop PROVE Inv'
  OBVIOUS
<1> MaxFaults \in Nat  BY HorizonAssumption
<1> QED  BY Forgetting DEF Inv, ManagerTypeOK, Stop, Fault

\* The steps of main before it serves: nobody works, nothing is scheduled.
LEMMA MainInv ==
  Inv /\ (Register \/ RegisterRefused \/ Answered \/ Elected) => Inv'
<1> SUFFICES ASSUME Inv, Register \/ RegisterRefused \/ Answered \/ Elected PROVE Inv'
  OBVIOUS
<1> MaxFaults \in Nat  BY HorizonAssumption
<1>1. UNCHANGED <<store, hour, agent, calls, plan>>
  BY DEF Register, RegisterRefused, Answered, Elected, Service
<1>2. pc # "serve" /\ pc' \in {"answered", "elect", "serve"}
  BY DEF Register, RegisterRefused, Answered, Elected
<1>3. ~Working /\ DOMAIN plan = {}  BY <1>2 DEF Inv, Serving
<1>4. ~Working' /\ DOMAIN plan' = {}  BY <1>1, <1>3 DEF Working
<1>5. StoreOK'  BY <1>1, StoreKept DEF Inv, ManagerTypeOK, StoreOK
<1>6. /\ status' \in Statuses /\ registered' \in BOOLEAN
      /\ missed' \in 0 .. MaxFaults /\ faults' \in 0 .. MaxFaults /\ missed' <= faults'
  <2> USE DEF Inv, ManagerTypeOK, Capped, Service
  <2>1. CASE Register  BY <2>1 DEF Register, Statuses
  <2>2. CASE RegisterRefused
    <3>1. registered' \in BOOLEAN  BY <2>2 DEF RegisterRefused
    <3> QED  BY <2>2, <3>1 DEF RegisterRefused, Fault
  <2>3. CASE Answered \/ Elected  BY <2>3 DEF Answered, Elected
  <2> QED  BY <2>1, <2>2, <2>3
<1>7. ManagerTypeOK'
  BY <1>1, <1>2, <1>4, <1>5, <1>6 DEF Inv, ManagerTypeOK, StoreOK, store
<1> QED
  BY <1>4, <1>6, <1>7 DEF Inv, Serving, Synced, Clocks, Capped, Working

LEMMA PushInv == Inv /\ Push => Inv'
<1> SUFFICES ASSUME Inv, Push PROVE Inv'
  OBVIOUS
<1> MaxFaults \in Nat /\ MaxCalls \in Nat  BY HorizonAssumption
<1>1. StoreOK'  BY StoreKept DEF Inv, ManagerTypeOK, StoreOK, Push
<1>2. ManagerTypeOK'
  BY <1>1 DEF Inv, ManagerTypeOK, StoreOK, Push, Statuses, store
<1>3. Synced'  BY SameHour DEF Inv, ManagerTypeOK, Synced, Push, Due
<1>4. \A u \in DOMAIN plan : u \in Jobs /\ Pending(u)' = Pending(u) + 1
  BY DEF Inv, ManagerTypeOK, TypeOK, Pending, Push
<1>5. \A u \in DOMAIN plan : u \in DOMAIN schedule /\ scheduleIndex[u] \in Int /\ Pending(u) \in Int
  BY Position DEF Inv, ManagerTypeOK, StoreOK, Pending, TypeOK
<1>6. Clocks'
  BY <1>4, <1>5 DEF Inv, ManagerTypeOK, Plans, Clocks, Push, Due, Passed, Distance, store
<1>7. Serving' /\ Capped'
  BY DEF Inv, ManagerTypeOK, Serving, Capped, Push, Working
<1> QED  BY <1>2, <1>3, <1>6, <1>7 DEF Inv

LEMMA SpawnInv == Inv /\ Spawn => Inv'
<1> SUFFICES ASSUME Inv, Spawn PROVE Inv'
  OBVIOUS
<1> MaxFaults \in Nat /\ MaxCalls \in Nat  BY HorizonAssumption
<1>1. StoreOK'  BY StoreKept DEF Inv, ManagerTypeOK, StoreOK, Spawn
<1>2. calls' \in [Jobs -> 0 .. MaxCalls]
  BY DEF Inv, ManagerTypeOK, Capped, Spawn
<1>3. ManagerTypeOK'
  BY <1>1, <1>2 DEF Inv, ManagerTypeOK, StoreOK, Spawn, store
<1>4. \A u \in DOMAIN plan : u \in Jobs /\ Pending(u)' = Pending(u)
  BY DEF Inv, ManagerTypeOK, TypeOK, Pending, Spawn
<1>5. Clocks'
  BY <1>4 DEF Inv, Clocks, Spawn, Due, Passed, Distance, store
<1>6. Synced' /\ Serving' /\ Capped'
  BY DEF Inv, Serving, Synced, Capped, Spawn, Working, Due
<1> QED  BY <1>3, <1>5, <1>6 DEF Inv

\* Nobody listens only while there is nothing to lose.
LEMMA PushUnheardInv == Inv /\ PushUnheard => Inv'
<1> SUFFICES ASSUME Inv, PushUnheard PROVE Inv'
  OBVIOUS
<1>1. StoreOK'  BY StoreKept DEF Inv, ManagerTypeOK, StoreOK, PushUnheard
<1>2. ManagerTypeOK'
  BY <1>1 DEF Inv, ManagerTypeOK, StoreOK, PushUnheard, store
<1>3. ~Working /\ DOMAIN plan = {}  BY DEF Inv, Serving, PushUnheard
<1>4. ~Working' /\ DOMAIN plan' = {}  BY <1>3 DEF Working, PushUnheard
<1> QED
  BY <1>2, <1>4 DEF Inv, Serving, Synced, Clocks, Capped, Working, PushUnheard

LEMMA PushLostInv == Inv /\ PushLost => Inv'
<1> SUFFICES ASSUME Inv, PushLost PROVE Inv'
  OBVIOUS
<1> MaxFaults \in Nat /\ MaxCalls \in Nat /\ TraceLength \in Nat  BY HorizonAssumption
<1>1. StoreOK'  BY StoreKept DEF Inv, ManagerTypeOK, StoreOK, PushLost
<1>2. /\ missed' \in 0 .. MaxFaults /\ faults' \in 0 .. MaxFaults
      /\ missed' = missed + 1 /\ faults' = faults + 1 /\ missed' <= faults'
  BY DEF Inv, ManagerTypeOK, Capped, PushLost, Fault
<1>3. /\ DOMAIN plan' = DOMAIN plan
      /\ \A u \in DOMAIN plan :
           /\ plan'[u] \in Plans /\ plan'[u].late <= faults'
           /\ plan'[u].from = plan[u].from /\ plan'[u].early = plan[u].early
           /\ plan'[u].late = plan[u].late + 1
  BY <1>2 DEF Inv, ManagerTypeOK, Capped, PushLost, Plans
<1>4. ManagerTypeOK'
  BY <1>1, <1>2, <1>3 DEF Inv, ManagerTypeOK, StoreOK, PushLost, store
<1>5. \A u \in DOMAIN plan : Pending(u)' = Pending(u) /\ Pending(u) \in Int
  BY DEF Inv, ManagerTypeOK, TypeOK, Pending, PushLost
<1>6. \A u \in DOMAIN plan : /\ scheduleIndex[u] \in Int /\ plan[u] \in Plans
                             /\ Passed(u)' = Passed(u)
  BY <1>3, Position DEF Inv, ManagerTypeOK, StoreOK, Passed, Distance, PushLost
<1>7. Clocks'
  BY <1>3, <1>5, <1>6 DEF Inv, Clocks, PushLost, Due, Plans, store
<1>8. Synced' /\ Serving' /\ Capped'
  BY <1>2, <1>3 DEF Inv, ManagerTypeOK, Serving, Synced, Capped, PushLost, Working, Due
<1> QED  BY <1>4, <1>7, <1>8 DEF Inv

\* An hour later every schedule is an hour further from its first one, and
\* its next push is due.
LEMMA TickInv == Inv /\ Tick => Inv'
<1> SUFFICES ASSUME Inv, Tick PROVE Inv'
  OBVIOUS
<1> /\ MaxFaults \in Nat /\ MaxCalls \in Nat /\ MaxSlots \in Nat /\ TraceLength \in Nat
    /\ TraceLength > MaxSlots + MaxCalls + MaxFaults + 1
  BY HorizonAssumption
<1>1. StoreOK'  BY StoreKept DEF Inv, ManagerTypeOK, StoreOK, Tick
<1>2. hour' \in Hours  BY DEF Inv, ManagerTypeOK, Tick, Hours
<1>3. ManagerTypeOK'
  BY <1>1, <1>2 DEF Inv, ManagerTypeOK, StoreOK, Tick, store
<1>4. ASSUME NEW h \in Hours, Distance(h, hour) < TraceLength - 1
      PROVE  Distance(h, hour') = Distance(h, hour) + 1
  BY <1>4, NextHour DEF Inv, ManagerTypeOK, Tick
<1>5. ASSUME NEW u \in DOMAIN plan
      PROVE  /\ scheduleIndex[u] \in 0 .. MaxSlots - 1 /\ plan[u] \in Plans
             /\ Pending(u)' = Pending(u) /\ Pending(u) \in 0 .. MaxCalls
  BY <1>5, Position DEF Inv, ManagerTypeOK, StoreOK, TypeOK, Pending, Tick
<1>6. ASSUME NEW u \in DOMAIN plan
      PROVE  Passed(u)' = Passed(u) + 1
  <2>1. Passed(u) = scheduleIndex[u] + Pending(u) + plan[u].late - plan[u].early
    BY <1>5 DEF Inv, Clocks, Tick, Due, Plans
  <2>2. Passed(u) < TraceLength - 1
    BY <1>5, <2>1 DEF Plans
  <2> QED  BY <1>4, <1>5, <2>2 DEF Passed, Plans, Tick
<1>7. Clocks'
  BY <1>5, <1>6 DEF Inv, Clocks, Tick, Due, Plans, store
<1>8. Synced'
  <2> SUFFICES ASSUME Working PROVE status' \in Hours /\ Distance(status', hour') = missed' + Due'
    BY DEF Synced, Working, Tick
  <2>1. status \in Hours /\ Distance(status, hour) = missed /\ missed \in 0 .. MaxFaults
    BY DEF Inv, ManagerTypeOK, Synced, Tick, Due
  <2>2. Distance(status, hour') = missed + 1  BY <1>4, <2>1
  <2> QED  BY <2>1, <2>2 DEF Tick, Due
<1>9. Serving' /\ Capped'
  BY DEF Inv, Serving, Capped, Tick, Working
<1> QED  BY <1>3, <1>7, <1>8, <1>9 DEF Inv

\* What every end of a call has in common.
LEMMA CallEnded ==
  ASSUME Inv, NEW u \in Jobs, CallEnds(u), StoreOK',
         DOMAIN schedule \subseteq DOMAIN schedule',
         DOMAIN plan' \subseteq DOMAIN schedule',
         \A v \in DOMAIN plan' : plan'[v] \in Plans /\ plan'[v].late <= faults
  PROVE  ManagerTypeOK' /\ Serving' /\ Synced' /\ Capped'
<1> MaxFaults \in Nat /\ MaxCalls \in Nat  BY HorizonAssumption
<1>1. /\ calls' \in [Jobs -> 0 .. MaxCalls]
      /\ \A v \in Jobs : calls'[v] <= calls[v]
  BY DEF Inv, ManagerTypeOK, CallEnds
<1>2. ManagerTypeOK'
  BY <1>1 DEF Inv, ManagerTypeOK, CallEnds, Service, StoreOK
<1>3. Working  BY DEF CallEnds, Working
<1>4. Serving'  BY <1>3 DEF Inv, Serving, CallEnds, Service
<1>5. Synced'  BY <1>3 DEF Inv, Synced, CallEnds, Service, Due
<1>6. Capped'
  BY <1>1 DEF Inv, ManagerTypeOK, Capped, CallEnds, Service
<1> QED  BY <1>2, <1>4, <1>5, <1>6

\* A call of u leaves the clocks of the others alone.
LEMMA OtherClocks ==
  ASSUME Inv, NEW u \in Jobs, CallEnds(u), NEW v \in DOMAIN plan \ {u},
         plan'[v] = plan[v], scheduleIndex'[v] = scheduleIndex[v]
  PROVE  scheduleIndex'[v] + Pending(v)' + plan'[v].late - plan'[v].early + Due'
           = Passed(v)'
<1>1. Pending(v)' = Pending(v)
  BY DEF Inv, ManagerTypeOK, TypeOK, CallEnds, Service, Pending
<1> QED  BY <1>1 DEF Inv, Clocks, CallEnds, Service, Due, Passed

LEMMA OwnPending ==
  ASSUME Inv, NEW u \in Jobs, CallEnds(u)
  PROVE  Pending(u) \in 1 .. MaxCalls /\ Pending(u)' = Pending(u) - 1
BY HorizonAssumption DEF Inv, ManagerTypeOK, Capped, CallEnds, Service, Pending

LEMMA ComputeNextInv ==
  ASSUME Inv, NEW u \in Jobs, ComputeNext(u)
  PROVE  Inv'
<1>1. StoreOK /\ CallEnds(u) /\ Advance(u) /\ plan' = plan
  BY DEF Inv, ManagerTypeOK, StoreOK, ComputeNext
<1>2. /\ StoreOK' /\ DOMAIN schedule' = DOMAIN schedule
      /\ scheduleIndex'[u] = scheduleIndex[u] + 1
      /\ \A v \in DOMAIN schedule \ {u} : scheduleIndex'[v] = scheduleIndex[v]
  BY <1>1, StoreAdvance
<1>3. DOMAIN plan \subseteq DOMAIN schedule  BY DEF Inv, ManagerTypeOK
<1>4. ManagerTypeOK' /\ Serving' /\ Synced' /\ Capped'
  BY <1>1, <1>2, CallEnded DEF Inv, ManagerTypeOK, Capped
<1>5. ASSUME NEW v \in DOMAIN plan
      PROVE  scheduleIndex'[v] + Pending(v)' + plan'[v].late - plan'[v].early + Due'
               = Passed(v)'
  <2>1. CASE v = u
    <3>1. scheduleIndex[u] \in Int /\ plan[u] \in Plans
      BY <1>1, <1>3, <1>5, <2>1, Position DEF Inv, ManagerTypeOK
    <3>2. Pending(u) \in Int /\ Pending(u)' = Pending(u) - 1
      BY <1>1, OwnPending, HorizonAssumption
    <3> QED
      BY <1>1, <1>2, <1>5, <2>1, <3>1, <3>2
      DEF Inv, Clocks, CallEnds, Service, Due, Passed, Plans
  <2>2. CASE v # u
    BY <1>1, <1>2, <1>3, <1>5, <2>2, OtherClocks
  <2> QED  BY <2>1, <2>2
<1> QED  BY <1>1, <1>4, <1>5 DEF Inv, Clocks

LEMMA ComputeLastInv ==
  ASSUME Inv, NEW u \in Jobs, ComputeLast(u)
  PROVE  Inv'
<1>1. StoreOK /\ CallEnds(u) /\ Exhaust(u) /\ plan' = Drop(plan, u)
  BY DEF Inv, ManagerTypeOK, StoreOK, ComputeLast
<1>2. /\ StoreOK' /\ DOMAIN schedule' = DOMAIN schedule
      /\ \A v \in DOMAIN schedule \ {u} : scheduleIndex'[v] = scheduleIndex[v]
  BY <1>1, StoreExhaust
<1>3. DOMAIN plan \subseteq DOMAIN schedule  BY DEF Inv, ManagerTypeOK
<1>4. DOMAIN plan' = DOMAIN plan \ {u} /\ \A v \in DOMAIN plan' : plan'[v] = plan[v]
  BY <1>1 DEF Drop
<1>5. ManagerTypeOK' /\ Serving' /\ Synced' /\ Capped'
  BY <1>1, <1>2, <1>3, <1>4, CallEnded DEF Inv, ManagerTypeOK, Capped
<1>6. ASSUME NEW v \in DOMAIN plan'
      PROVE  scheduleIndex'[v] + Pending(v)' + plan'[v].late - plan'[v].early + Due'
               = Passed(v)'
  BY <1>1, <1>2, <1>3, <1>4, <1>6, OtherClocks
<1> QED  BY <1>5, <1>6 DEF Inv, Clocks

\* The new schedule starts with the hour of the prediction it was made from.
LEMMA ComputeNewInv ==
  ASSUME Inv, NEW u \in Jobs, NEW p \in ProgressValues, ComputeNew(u, p)
  PROVE  Inv'
<1> DEFINE new == [from |-> status, late |-> missed, early |-> Pending(u) - 1]
<1> MaxCalls \in Nat /\ MaxFaults \in Nat  BY HorizonAssumption
<1>1. StoreOK /\ CallEnds(u) /\ Install(u, p) /\ plan' = Put(plan, u, new)
  BY DEF Inv, ManagerTypeOK, StoreOK, ComputeNew
<1>2. /\ StoreOK' /\ DOMAIN schedule' = DOMAIN schedule \cup {u}
      /\ u \notin DOMAIN schedule /\ scheduleIndex'[u] = 0
      /\ \A v \in DOMAIN schedule : scheduleIndex'[v] = scheduleIndex[v]
  BY <1>1, StoreInstall
<1>3. DOMAIN plan \subseteq DOMAIN schedule  BY DEF Inv, ManagerTypeOK
<1>4. Pending(u) \in 1 .. MaxCalls /\ Pending(u)' = Pending(u) - 1
  BY <1>1, OwnPending
<1>5. status \in Hours /\ Distance(status, hour) = missed + Due
  BY <1>1 DEF Inv, Synced, Working, CallEnds
<1>6. new \in Plans /\ new.late <= faults
  BY <1>4, <1>5 DEF Inv, ManagerTypeOK, Capped, Plans
<1>7. /\ DOMAIN plan' = DOMAIN plan \cup {u} /\ plan'[u] = new
      /\ \A v \in DOMAIN plan \ {u} : plan'[v] = plan[v]
  BY <1>1 DEF Put
<1>8. ManagerTypeOK' /\ Serving' /\ Synced' /\ Capped'
  BY <1>1, <1>2, <1>3, <1>6, <1>7, CallEnded DEF Inv, ManagerTypeOK, Capped
<1>9. ASSUME NEW v \in DOMAIN plan'
      PROVE  scheduleIndex'[v] + Pending(v)' + plan'[v].late - plan'[v].early + Due'
               = Passed(v)'
  <2>1. CASE v = u
    <3>1. Passed(u)' = missed + Due /\ Due' = Due /\ missed \in Int /\ Due \in Int
      BY <1>1, <1>5, <1>7 DEF Inv, ManagerTypeOK, Passed, CallEnds, Service, Due
    <3> QED  BY <1>2, <1>4, <1>7, <2>1, <3>1
  <2>2. CASE v # u
    BY <1>1, <1>2, <1>3, <1>7, <1>9, <2>2, OtherClocks
  <2> QED  BY <2>1, <2>2
<1> QED  BY <1>8, <1>9 DEF Inv, Clocks

\* A job that is refused has no schedule, and so no clock.
LEMMA ComputeRefusedInv ==
  ASSUME Inv, NEW u \in Jobs, NEW p \in ProgressValues, ComputeRefused(u, p)
  PROVE  Inv'
<1>1. /\ CallEnds(u) /\ plan' = plan /\ UNCHANGED store /\ u \notin DOMAIN schedule
  BY DEF ComputeRefused, Refuses
<1>2. StoreOK'  BY <1>1, StoreKept DEF Inv, ManagerTypeOK, StoreOK
<1>3. DOMAIN plan \subseteq DOMAIN schedule  BY DEF Inv, ManagerTypeOK
<1>4. ManagerTypeOK' /\ Serving' /\ Synced' /\ Capped'
  BY <1>1, <1>2, CallEnded DEF Inv, ManagerTypeOK, Capped, store
<1>5. ASSUME NEW v \in DOMAIN plan'
      PROVE  scheduleIndex'[v] + Pending(v)' + plan'[v].late - plan'[v].early + Due'
               = Passed(v)'
  BY <1>1, <1>3, <1>5, OtherClocks DEF store
<1> QED  BY <1>4, <1>5 DEF Inv, Clocks

LEMMA Stuttering == Inv /\ UNCHANGED vars => Inv'
<1> SUFFICES ASSUME Inv, UNCHANGED vars PROVE Inv'
  OBVIOUS
<1>1. StoreOK'  BY StoreKept DEF Inv, ManagerTypeOK, StoreOK, vars
<1>2. ManagerTypeOK'
  BY <1>1 DEF Inv, ManagerTypeOK, StoreOK, vars, store
<1> QED
  BY <1>2 DEF Inv, Serving, Synced, Clocks, Capped, Working, Due, Pending, Passed, vars, store

LEMMA Inductive == Inv /\ [ManagerNext]_vars => Inv'
<1> SUFFICES ASSUME Inv, [ManagerNext]_vars PROVE Inv'
  OBVIOUS
<1>1. CASE MainStep \/ RegisterRefused \/ Stop
  BY <1>1, StartInv, StopInv, MainInv DEF MainStep
<1>2. CASE ServiceStep \/ PushLost
  BY <1>2, PushInv, SpawnInv, PushUnheardInv, PushLostInv, TickInv DEF ServiceStep
<1>3. ASSUME NEW u \in Jobs, Call(u) PROVE Inv'
  BY <1>3, ComputeNewInv, ComputeNextInv, ComputeLastInv, ComputeRefusedInv DEF Call
<1>4. CASE UNCHANGED vars  BY <1>4, Stuttering
<1> QED  BY <1>1, <1>2, <1>3, <1>4 DEF ManagerNext

LEMMA Invariant == ManagerSpec => []Inv
BY Initial, Inductive, PTL DEF ManagerSpec

-----------------------------------------------------------------------------
(***************************************************************************)
(* Every variable keeps its type, and with them the maps of the AutoScaler *)
(* as its callers see them: GetReplicas never indexes out of range.        *)
(***************************************************************************)
THEOREM TypeCorrect == ManagerSpec => []ManagerTypeOK
<1>1. Inv => ManagerTypeOK  BY DEF Inv
<1> QED  BY <1>1, Invariant, PTL

(***************************************************************************)
(* No goroutine computes a schedule from the empty prediction of a process *)
(* that has just started, however it died, registered and was elected.     *)
(***************************************************************************)
THEOREM PredictionSafe == ManagerSpec => []PredictionPresent
<1>1. Inv => PredictionPresent
  <2> SUFFICES ASSUME Inv, NEW u \in Jobs, calls[u] > 0
               PROVE  pc = "serve" /\ status # None
    BY DEF PredictionPresent
  <2>1. Working  BY DEF Working
  <2>2. status \in Hours  BY <2>1 DEF Inv, Synced
  <2>3. status # None  BY <2>2, HorizonAssumption DEF Hours, None
  <2> QED  BY <2>1, <2>3 DEF Inv, Serving
<1> QED  BY <1>1, Invariant, PTL

(***************************************************************************)
(* A job is in the slot planned for the hour but for lost pushes and       *)
(* goroutines that its schedule has overtaken, for every trace, number of  *)
(* faults and number of goroutines.                                        *)
(***************************************************************************)
THEOREM SlotRight == ManagerSpec => []SlotOfTheHour
<1>1. Inv => SlotOfTheHour
  <2> SUFFICES ASSUME Inv, NEW u \in DOMAIN plan, AtRest(u)
               PROVE  scheduleIndex[u] = Passed(u) - plan[u].late + plan[u].early
    BY DEF SlotOfTheHour
  <2>1. Pending(u) = 0 /\ Due = 0  BY DEF AtRest, Pending, Due
  <2>2. scheduleIndex[u] \in Int /\ plan[u].late \in Int /\ plan[u].early \in Int
    BY Position, HorizonAssumption DEF Inv, ManagerTypeOK, StoreOK, Plans
  <2> QED  BY <2>1, <2>2 DEF Inv, Clocks
<1> QED  BY <1>1, Invariant, PTL

-----------------------------------------------------------------------------
(***************************************************************************)
(* u has outlived its schedule, and runs with minReplicas.                 *)
(***************************************************************************)
Overdue(u) ==
  /\ u \in DOMAIN schedule /\ schedule[u] = Fallback(u)
  /\ GetReplicas(u) = Fallback(u)[0]

\* A schedule with one slot has nowhere to move on to.
LEMMA OneSlot ==
  ASSUME StoreOK, NEW u \in DOMAIN schedule, schedule[u] = Fallback(u)
  PROVE  scheduleIndex[u] = 0 /\ scheduleIndex[u] + 1 \notin DOMAIN schedule[u]
<1>1. u \in Jobs /\ scheduleIndex[u] \in DOMAIN Fallback(u)
  BY DEF StoreOK, TypeOK, IndexInRange
<1>2. DOMAIN Fallback(u) = {0}
  BY <1>1, HorizonAssumption
<1> QED  BY <1>1, <1>2

(***************************************************************************)
(* Case 2 of ComputeSchedule is for good (carbon_scaler.go:79-86): while   *)
(* the process lives a job that has outlived its schedule is never put     *)
(* back on a paused slot, whatever pushes, goroutines and losses follow.   *)
(***************************************************************************)
THEOREM OverdueForGood ==
  ManagerSpec => [][\A u \in Jobs : Overdue(u) => Overdue(u)' \/ "down" \in {pc, pc'}]_vars
<1>1. ASSUME Inv, [ManagerNext]_vars, NEW u \in Jobs, Overdue(u),
             "down" \notin {pc, pc'}
      PROVE  Overdue(u)'
  <2>1. Inv'  BY <1>1, Inductive
  <2>2. StoreOK /\ StoreOK'
    BY <1>1, <2>1 DEF Inv, ManagerTypeOK, StoreOK
  <2>3. u \in DOMAIN schedule /\ schedule[u] = Fallback(u)
    BY <1>1 DEF Overdue
  <2>4. CASE UNCHANGED store
    BY <1>1, <2>4 DEF Overdue, GetReplicas, store
  <2>5. ASSUME NEW v \in Jobs, Call(v) PROVE Overdue(u)'
    <3>1. u \in DOMAIN schedule' /\ schedule'[u] = Fallback(u)
      BY <2>2, <2>3, <2>5, OneSlot
      DEF Call, ComputeNext, ComputeLast, ComputeNew, ComputeRefused, Advance, Exhaust,
          Install, Put, StoreOK, TypeOK, store
    <3>2. scheduleIndex'[u] \in DOMAIN schedule'[u]
      BY <2>2, <3>1 DEF StoreOK, IndexInRange
    <3>3. scheduleIndex'[u] = 0
      BY <3>1, <3>2, HorizonAssumption
    <3> QED  BY <3>1, <3>3 DEF Overdue, GetReplicas
  <2> QED
    BY <1>1, <2>4, <2>5
    DEF ManagerNext, MainStep, ServiceStep, Start, Register, RegisterRefused, Answered,
        Elected, Stop, Push, Spawn, PushUnheard, PushLost, Tick, vars, store
<1>2. Inv /\ [ManagerNext]_vars =>
        [\A u \in Jobs : Overdue(u) => Overdue(u)' \/ "down" \in {pc, pc'}]_vars
  BY <1>1
<1> QED  BY <1>2, Invariant, PTL DEF ManagerSpec
=============================================================================
