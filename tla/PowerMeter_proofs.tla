-------------------------- MODULE PowerMeter_proofs --------------------------
(***************************************************************************)
(* Proofs about PowerMeter for any domains, pollers and range of the       *)
(* counters.                                                               *)
(***************************************************************************)
EXTENDS PowerMeter, TLAPS

CounterOK ==
  /\ counter \in [Domains -> 0 .. MaxRange]
  /\ drawn \in [Domains -> 0 .. MaxDraw]
  /\ pc \in {"first", "second", "append"}
  /\ DOMAIN diff \subseteq DOMAIN first /\ DOMAIN first \subseteq Domains
  /\ \A d \in DOMAIN first : first[d] \in 0 .. MaxRange
  /\ \A d \in DOMAIN diff : diff[d] \in 0 .. MaxRange
  /\ pc = "second" => DOMAIN first = Domains

BufferOK ==
  /\ made \in 0 .. MaxReadings
  /\ buffer \subseteq 1 .. made /\ copy \subseteq buffer
  /\ lock \in Pollers \cup {"nobody"}
  /\ got \in [Pollers -> SUBSET (1 .. made)]

\* Where the counter of a domain stands that is being measured.
CounterFollows ==
  \A d \in Domains :
    Measuring(d) /\ drawn[d] <= MaxRange =>
      counter[d] = first[d] + drawn[d]
                     - (IF first[d] + drawn[d] > MaxRange THEN MaxRange + 1 ELSE 0)

\* Nothing is appended while a poller holds the lock.
CopyIsBuffer == lock # "nobody" => copy = buffer

MeterInv == CounterOK /\ CounterFollows /\ ReadingRight
PollInv  == BufferOK /\ CopyIsBuffer /\ HandedOutOnce
Inv      == MeterInv /\ PollInv

-----------------------------------------------------------------------------
(***************************************************************************)
(* The correction of a rollover: n units after old the counter shows new.  *)
(***************************************************************************)
LEMMA DifferenceRight ==
  ASSUME NEW old \in 0 .. MaxRange, NEW n \in 0 .. MaxRange, NEW new \in 0 .. MaxRange,
         new = old + n - (IF old + n > MaxRange THEN MaxRange + 1 ELSE 0)
  PROVE  Difference(new, old) = n - (IF old + n > MaxRange THEN 1 ELSE 0)
BY MeterAssumption DEF Difference

LEMMA DifferenceType ==
  ASSUME NEW old \in 0 .. MaxRange, NEW new \in 0 .. MaxRange
  PROVE  Difference(new, old) \in 0 .. MaxRange
BY MeterAssumption DEF Difference

LEMMA Initial == Init => Inv
<1> SUFFICES ASSUME Init PROVE Inv
  OBVIOUS
<1>1. MeterInv
  BY MeterAssumption
  DEF Init, MeterInv, CounterOK, CounterFollows, ReadingRight, Measuring, EmptyMap
<1>2. BufferOK /\ CopyIsBuffer  BY MeterAssumption DEF Init, BufferOK, CopyIsBuffer
<1>3. HandedOutOnce  BY DEF Init, HandedOutOnce, Given
<1> QED  BY <1>1, <1>2, <1>3 DEF Inv, PollInv

-----------------------------------------------------------------------------
(* The meter                                                               *)

LEMMA DrawInv ==
  ASSUME MeterInv, NEW d \in Domains, Draw(d)
  PROVE  MeterInv'
<1> USE MeterAssumption DEF MeterInv, CounterOK, Draw, meter
<1>1. CounterOK'  BY DEF Measuring
<1>2. CounterFollows'
  <2> SUFFICES ASSUME NEW e \in Domains, Measuring(e), drawn'[e] <= MaxRange
      PROVE  counter'[e] = first[e] + drawn'[e]
                  - (IF first[e] + drawn'[e] > MaxRange THEN MaxRange + 1 ELSE 0)
    BY DEF CounterFollows, Measuring
  <2>1. CASE e = d
    <3>1. drawn'[d] = drawn[d] + 1 /\ drawn[d] <= MaxRange /\ drawn[d] \in Nat
      BY <2>1
    <3>2. counter[d] = first[d] + drawn[d]
              - (IF first[d] + drawn[d] > MaxRange THEN MaxRange + 1 ELSE 0)
      BY <2>1, <3>1 DEF CounterFollows
    <3>3. counter'[d] = IF counter[d] = MaxRange THEN 0 ELSE counter[d] + 1  OBVIOUS
    <3>4. first[d] \in 0 .. MaxRange  BY <2>1 DEF Measuring
    <3> QED  BY <2>1, <3>1, <3>2, <3>3, <3>4
  <2>2. CASE e # d
    BY <2>2 DEF CounterFollows
  <2> QED  BY <2>1, <2>2
<1>3. ReadingRight'
  BY DEF ReadingRight, Measuring
<1> QED  BY <1>1, <1>2, <1>3

LEMMA SampleFirstInv ==
  ASSUME MeterInv, NEW d \in Domains, SampleFirst(d)
  PROVE  MeterInv'
<1> USE MeterAssumption DEF MeterInv, CounterOK, SampleFirst
<1>1. /\ DOMAIN first' = DOMAIN first \cup {d} /\ first'[d] = counter[d]
      /\ \A e \in DOMAIN first : first'[e] = first[e]
  BY DEF Put
<1>2. d \notin DOMAIN diff  OBVIOUS
<1>3. CounterOK'  BY <1>1
<1>4. CounterFollows'  BY <1>1 DEF CounterFollows, Measuring
<1>5. ReadingRight'  BY <1>1, <1>2 DEF ReadingRight
<1> QED  BY <1>3, <1>4, <1>5

LEMMA SampleSecondInv ==
  ASSUME MeterInv, NEW d \in Domains, SampleSecond(d)
  PROVE  MeterInv'
<1> USE MeterAssumption DEF MeterInv, CounterOK, SampleSecond
<1> DEFINE new == Difference(counter[d], first[d])
<1>1. Measuring(d) /\ first[d] \in 0 .. MaxRange /\ counter[d] \in 0 .. MaxRange
  BY DEF Measuring
<1>2. new \in 0 .. MaxRange  BY <1>1, DifferenceType
<1>3. drawn[d] <= MaxRange =>
        new = drawn[d] - (IF first[d] + drawn[d] > MaxRange THEN 1 ELSE 0)
  <2> SUFFICES ASSUME drawn[d] <= MaxRange
      PROVE  new = drawn[d] - (IF first[d] + drawn[d] > MaxRange THEN 1 ELSE 0)
    OBVIOUS
  <2>1. drawn[d] \in 0 .. MaxRange  OBVIOUS
  <2>2. counter[d] = first[d] + drawn[d]
            - (IF first[d] + drawn[d] > MaxRange THEN MaxRange + 1 ELSE 0)
    BY <1>1 DEF CounterFollows
  <2> QED  BY <1>1, <2>1, <2>2, DifferenceRight
<1>4. diff' = Put(diff, d, new)  OBVIOUS
<1> HIDE DEF new
<1>5. /\ DOMAIN diff' = DOMAIN diff \cup {d} /\ diff'[d] = new
      /\ \A e \in DOMAIN diff : diff'[e] = diff[e]
  BY <1>4 DEF Put
<1>6. CounterOK'  BY <1>2, <1>5
<1>7. CounterFollows'  BY <1>5 DEF CounterFollows, Measuring
<1>8. ReadingRight'  BY <1>3, <1>5 DEF ReadingRight
<1> QED  BY <1>6, <1>7, <1>8

LEMMA RestartInv ==
  ASSUME MeterInv, SampleRaises \/ Append
  PROVE  MeterInv'
<1>1. /\ first' = EmptyMap /\ diff' = EmptyMap /\ pc' \in {"first", "append"}
      /\ UNCHANGED <<counter, drawn>>
  BY DEF SampleRaises, Append
<1>2. DOMAIN first' = {} /\ DOMAIN diff' = {}  BY <1>1 DEF EmptyMap
<1> QED
  BY <1>1, <1>2 DEF MeterInv, CounterOK, CounterFollows, ReadingRight, Measuring

-----------------------------------------------------------------------------
(* The readings                                                            *)

LEMMA AppendInv ==
  ASSUME PollInv, Append
  PROVE  PollInv'
<1> USE MeterAssumption DEF PollInv, BufferOK, Append, polls
<1>1. 1 .. made' = (1 .. made) \cup {made'} /\ made' \notin 1 .. made  OBVIOUS
<1>2. BufferOK'  BY <1>1
<1>3. CopyIsBuffer'  BY DEF CopyIsBuffer
<1>4. HandedOutOnce'
  <2>1. Given' = Given /\ made' \notin Given  BY <1>1 DEF Given
  <2> QED  BY <1>1, <2>1 DEF HandedOutOnce
<1> QED  BY <1>2, <1>3, <1>4

LEMMA CopyInv ==
  ASSUME PollInv, NEW p \in Pollers, Copy(p)
  PROVE  PollInv'
BY DEF PollInv, BufferOK, CopyIsBuffer, HandedOutOnce, Given, Copy, meter

LEMMA ClearInv ==
  ASSUME PollInv, NEW p \in Pollers, Clear(p)
  PROVE  PollInv'
<1> USE DEF PollInv, BufferOK, Clear, meter
<1>1. copy = buffer  BY MeterAssumption DEF CopyIsBuffer
<1>2. got'[p] = got[p] \cup buffer /\ \A q \in Pollers \ {p} : got'[q] = got[q]
  BY <1>1
<1>3. BufferOK'  BY <1>1
<1>4. CopyIsBuffer'  BY DEF CopyIsBuffer
<1>5. \A q \in Pollers : got[q] \cap buffer = {}  BY DEF HandedOutOnce, Given
<1>6. Given' = Given \cup buffer  BY <1>2 DEF Given
<1>7. HandedOutOnce'  BY <1>2, <1>5, <1>6 DEF HandedOutOnce
<1> QED  BY <1>3, <1>4, <1>7

LEMMA Inductive == Inv /\ [Next]_vars => Inv'
<1> SUFFICES ASSUME Inv, [Next]_vars PROVE Inv'
  OBVIOUS
<1>1. UNCHANGED <<counter, pc, first, diff, drawn>> => MeterInv'
  BY DEF Inv, MeterInv, CounterOK, CounterFollows, ReadingRight, Measuring
<1>2. UNCHANGED <<made, buffer, polls>> => PollInv'
  BY DEF Inv, PollInv, BufferOK, CopyIsBuffer, HandedOutOnce, Given, polls
<1>3. ASSUME NEW d \in Domains, Draw(d) \/ SampleFirst(d) \/ SampleSecond(d)
      PROVE  Inv'
  BY <1>2, <1>3, DrawInv, SampleFirstInv, SampleSecondInv
  DEF Inv, Draw, SampleFirst, SampleSecond, meter
<1>4. CASE SampleRaises  BY <1>2, <1>4, RestartInv DEF Inv, SampleRaises
<1>5. CASE Append  BY <1>5, RestartInv, AppendInv DEF Inv
<1>6. ASSUME NEW p \in Pollers, Copy(p) \/ Clear(p)
      PROVE  Inv'
  BY <1>1, <1>6, CopyInv, ClearInv DEF Inv, Copy, Clear, meter
<1>7. CASE UNCHANGED vars  BY <1>1, <1>2, <1>7 DEF Inv, vars, meter
<1> QED  BY <1>3, <1>4, <1>5, <1>6, <1>7 DEF Next

LEMMA Invariant == Spec => []Inv
BY Initial, Inductive, PTL DEF Spec

(***************************************************************************)
(* Every variable of the power server keeps its type; no difference of two *)
(* samples is negative.                                                    *)
(***************************************************************************)
THEOREM TypeCorrect == Spec => []TypeOK
<1>1. Inv => TypeOK  BY DEF Inv, MeterInv, PollInv, CounterOK, BufferOK, TypeOK
<1> QED  BY <1>1, Invariant, PTL

(***************************************************************************)
(* A domain is credited with what it drew, less the unit of a rollover.    *)
(***************************************************************************)
THEOREM ReadingsRight == Spec => []ReadingRight
<1>1. Inv => ReadingRight  BY DEF Inv, MeterInv
<1> QED  BY <1>1, Invariant, PTL

(***************************************************************************)
(* No reading is lost and none is given twice, for any number of pollers.  *)
(***************************************************************************)
THEOREM ReadingsHandedOut == Spec => []HandedOutOnce
<1>1. Inv => HandedOutOnce  BY DEF Inv, PollInv
<1> QED  BY <1>1, Invariant, PTL
=============================================================================
