------------------------- MODULE CarbonAgent_proofs --------------------------
(***************************************************************************)
(* Proofs about CarbonAgent for every number of users, every trace and     *)
(* every window: types, that no prediction has a gap, and that without     *)
(* set_index each round tells everyone the current hour and what follows.  *)
(***************************************************************************)
EXTENDS CarbonAgent, SequenceTheorems, TLAPS

-----------------------------------------------------------------------------
(* Slices of the trace *)

\* An hour at most one trace beyond the end, taken modulo the trace.
LEMMA Modulo ==
  ASSUME NEW x \in Nat, x < 2 * TraceLength
  PROVE  x % TraceLength = IF x < TraceLength THEN x ELSE x - TraceLength
<1> TraceLength \in Nat \ {0}  BY TraceAssumption
<1>1. CASE x < TraceLength
  BY <1>1, SMT
<1>2. CASE x >= TraceLength
  <2>1. x = TraceLength * 1 + (x - TraceLength) /\ x - TraceLength \in 0 .. TraceLength - 1
    BY <1>2
  <2> QED  BY <2>1, SMT
<1> QED  BY <1>1, <1>2

\* Consecutive hours are a sequence of hours.
LEMMA Consecutive ==
  ASSUME NEW low \in Hours, NEW size \in Nat, low + size <= TraceLength
  PROVE  [n \in 1 .. size |-> low + n - 1] \in Seq(Hours)
<1> TraceLength \in Nat \ {0}  BY TraceAssumption
<1>1. [n \in 1 .. size |-> low + n - 1] \in [1 .. size -> Hours]
  BY DEF Hours
<1>2. [n \in 1 .. size |-> low + n - 1] \in UNION {[1 .. m -> Hours] : m \in Nat}
  BY <1>1
<1> QED  BY <1>2, SeqDef, Zenon

\* A slice holds hours, whatever its bounds have become in the meantime.
LEMMA SliceType ==
  ASSUME NEW low \in Hours, NEW high \in Int
  PROVE  Slice(low, high) \in Seq(Hours)
<1> TraceLength \in Nat \ {0}  BY TraceAssumption
<1> DEFINE end == IF high < 0 THEN TraceLength + high
                  ELSE IF high > TraceLength THEN TraceLength ELSE high
           size == IF end > low THEN end - low ELSE 0
<1>1. size \in Nat /\ low + size <= TraceLength
  BY DEF Hours
<1>2. Slice(low, high) = [n \in 1 .. size |-> low + n - 1]
  BY DEF Slice
<1> HIDE DEF size
<1> QED  BY <1>1, <1>2, Consecutive

\* A slice whose bounds are those of the trace, or between them.
LEMMA SliceShape ==
  ASSUME NEW low \in Hours, NEW high \in low .. TraceLength
  PROVE  Slice(low, high) = [n \in 1 .. high - low |-> low + n - 1]
<1> TraceLength \in Nat \ {0}  BY TraceAssumption
<1> QED  BY DEF Slice, Hours

(***************************************************************************)
(* predict_carbon_real, read at one and the same hour, is the hours from   *)
(* that one on: in one piece, or across the end of the trace.              *)
(***************************************************************************)
LEMMA OnePiece ==
  ASSUME window \in Windows, NEW hour \in Hours, hour + window <= TraceLength
  PROVE  Slice(hour, hour + window) = HoursFrom(hour)
<1> TraceLength \in Nat \ {0} /\ window \in Nat  BY TraceAssumption
<1>1. Slice(hour, hour + window) = [n \in 1 .. window |-> hour + n - 1]
  <2> DEFINE high == hour + window
  <2>1. high \in hour .. TraceLength /\ high - hour = window
    BY DEF Hours
  <2> HIDE DEF high
  <2>2. Slice(hour, high) = [n \in 1 .. high - hour |-> hour + n - 1]
    BY <2>1, SliceShape
  <2> QED  BY <2>1, <2>2 DEF high
<1>2. \A n \in 1 .. window : hour + n - 1 = (hour + n - 1) % TraceLength
  <2> TAKE n \in 1 .. window
  <2>1. hour + n - 1 \in Nat /\ hour + n - 1 < TraceLength
    BY DEF Hours
  <2> QED  BY <2>1, Modulo
<1>3. Reach(hour) = window
  BY DEF Reach, Hours
<1> QED  BY <1>1, <1>2, <1>3 DEF HoursFrom

LEMMA TwoPieces ==
  ASSUME window \in Windows, NEW hour \in Hours, hour + window > TraceLength
  PROVE  Slice(hour, TraceLength) \o Slice(0, RemainLength(hour)) = HoursFrom(hour)
<1> TraceLength \in Nat \ {0} /\ window \in Nat  BY TraceAssumption
<1> DEFINE head == Slice(hour, TraceLength)
           tail == Slice(0, RemainLength(hour))
           left == TraceLength - hour
           more == Reach(hour) - left
<1>1. more \in 0 .. TraceLength /\ more + left = Reach(hour)
  BY DEF Reach, Hours
<1>2. head = [n \in 1 .. left |-> hour + n - 1]
  BY SliceShape DEF Hours
<1>3. tail = [n \in 1 .. more |-> n - 1]
  <2>1. tail = Slice(0, more)
    BY DEF Slice, RemainLength, Reach, Hours
  <2>2. Slice(0, more) = [n \in 1 .. more - 0 |-> 0 + n - 1]
    <3>1. 0 \in Hours  BY DEF Hours
    <3> HIDE DEF more
    <3> QED  BY <1>1, <3>1, SliceShape
  <2> HIDE DEF tail, more
  <2> QED  BY <1>1, <2>1, <2>2
<1>4. head \in Seq(Hours) /\ tail \in Seq(Hours)
  <2>1. 0 \in Hours /\ TraceLength \in Int /\ RemainLength(hour) \in Int
    BY DEF Hours, RemainLength
  <2> QED  BY <2>1, SliceType
<1>5. Len(head) = left /\ Len(tail) = more
  <2>1. left \in Nat /\ more \in Nat  BY <1>1 DEF Hours
  <2>2. DOMAIN head = 1 .. left /\ DOMAIN tail = 1 .. more
    BY <1>2, <1>3, Zenon
  <2> HIDE DEF head, tail, left, more
  <2>3. DOMAIN head = 1 .. Len(head) /\ DOMAIN tail = 1 .. Len(tail)
        /\ Len(head) \in Nat /\ Len(tail) \in Nat
    BY <1>4, LenProperties
  <2> QED  BY <2>1, <2>2, <2>3
<1> DEFINE whole == head \o tail
<1>6. whole = [n \in 1 .. Reach(hour) |->
                 IF n <= left THEN head[n] ELSE tail[n - left]]
  <2>1. left + more = Reach(hour)
    BY <1>1 DEF Hours
  <2> HIDE DEF head, tail
  <2>2. /\ whole \in Seq(Hours)
        /\ Len(whole) = Len(head) + Len(tail)
        /\ \A n \in 1 .. Len(head) + Len(tail) :
             whole[n] = IF n <= Len(head) THEN head[n] ELSE tail[n - Len(head)]
    BY <1>4, ConcatProperties
  <2> HIDE DEF whole, left, more
  <2>3. whole \in [1 .. Len(whole) -> Hours]
    BY <2>2, LenProperties
  <2>4. whole = [n \in 1 .. Len(whole) |-> whole[n]]
    BY <2>3
  <2> QED  BY <1>5, <2>1, <2>2, <2>4
<1>7. \A n \in 1 .. Reach(hour) :
        (IF n <= left THEN head[n] ELSE tail[n - left]) = (hour + n - 1) % TraceLength
  <2> TAKE n \in 1 .. Reach(hour)
  <2> DEFINE x == hour + n - 1
  <2>1. x \in Nat /\ x < 2 * TraceLength
    BY DEF Hours, Reach
  <2> HIDE DEF x
  <2>2. x % TraceLength = IF x < TraceLength THEN x ELSE x - TraceLength
    BY <2>1, Modulo, Zenon
  <2> USE DEF x
  <2>3. CASE n <= left
    <3>1. head[n] = hour + n - 1  BY <1>2, <2>3
    <3> QED  BY <2>2, <2>3, <3>1 DEF Hours
  <2>4. CASE n > left
    <3>1. n - left \in 1 .. more  BY <1>1, <2>4 DEF Hours
    <3>2. tail[n - left] = n - left - 1
      <4> HIDE DEF left, tail, more
      <4> QED  BY <1>3, <3>1
    <3> QED  BY <2>2, <2>4, <3>2 DEF Hours
  <2> QED  BY <2>3, <2>4 DEF Hours
<1> HIDE DEF head, tail, left, more
<1> QED  BY <1>6, <1>7 DEF HoursFrom, head, tail

-----------------------------------------------------------------------------
(* Types *)

LEMMA TypesInit == Init => TypeOK
<1> SUFFICES ASSUME Init PROVE TypeOK  OBVIOUS
<1>1. 0 \in Hours  BY TraceAssumption DEF Hours
<1>2. ReaderType(Idle)  BY DEF ReaderType, Idle
<1>3. DOMAIN reader = Readers /\ \A r \in Readers : ReaderType(reader[r])
  BY <1>2, Zenon DEF Init
<1>4. loop.pc = "fetch" /\ loop.round = {}
  BY DEF Init
<1> QED  BY <1>1, <1>3, <1>4 DEF Init, TypeOK

\* A reader that goes on leaves everything else alone.
LEMMA GotoTypes ==
  ASSUME TypeOK, NEW r \in Readers, NEW state, ReaderType(state), Goto(r, state)
  PROVE  TypeOK'
<1>1. DOMAIN reader' = Readers
  BY DEF Goto, TypeOK
<1>2. \A q \in Readers : reader'[q] = IF q = r THEN state ELSE reader[q]
  BY DEF Goto, TypeOK
<1>3. \A q \in Readers : ReaderType(reader'[q])
  BY <1>2, Zenon DEF TypeOK
<1> QED  BY <1>1, <1>3 DEF Goto, TypeOK

LEMMA ReadTypes ==
  ASSUME TypeOK, NEW r \in Readers, Read(r)
  PROVE  TypeOK'
<1> TraceLength \in Nat \ {0}  BY TraceAssumption
<1> window \in Nat  BY TraceAssumption DEF TypeOK
<1> idx \in Hours /\ idx \in Int /\ ReaderType(reader[r])
  BY DEF TypeOK, Hours
<1>1. CASE PickUp(r)
  <2>1. ReaderType([pc |-> "intensity"])  BY DEF ReaderType
  <2> QED  BY <1>1, <2>1, GotoTypes DEF PickUp
<1>2. CASE ReadIntensity(r)
  <2>1. ReaderType([pc |-> "fits", hour |-> idx])  BY DEF ReaderType
  <2> QED  BY <1>2, <2>1, GotoTypes DEF ReadIntensity
<1>3. CASE Fits(r)
  <2> DEFINE state == [pc   |-> IF idx + window <= TraceLength THEN "low" ELSE "remain",
                       hour |-> reader[r].hour]
  <2>1. ReaderType(state)  BY <1>3 DEF Fits, ReaderType
  <2>2. Goto(r, state)  BY <1>3 DEF Fits
  <2> HIDE DEF state
  <2> QED  BY <2>1, <2>2, GotoTypes
<1>4. CASE ReadLow(r)
  <2> DEFINE state == [pc |-> "high", hour |-> reader[r].hour, low |-> idx]
  <2>1. ReaderType(state)  BY <1>4 DEF ReadLow, ReaderType
  <2>2. Goto(r, state)  BY <1>4 DEF ReadLow
  <2> HIDE DEF state
  <2> QED  BY <2>1, <2>2, GotoTypes
<1>5. CASE ReadHigh(r)
  <2> DEFINE hours == Slice(reader[r].low, idx + window)
             state == [pc |-> "post", hour |-> reader[r].hour, prediction |-> hours]
  <2>1. hours \in Seq(Hours)
    <3>1. reader[r].low \in Hours  BY <1>5 DEF ReadHigh, ReaderType
    <3>2. idx + window \in Int  OBVIOUS
    <3> QED  BY <3>1, <3>2, SliceType
  <2>2. Goto(r, state)  BY <1>5 DEF ReadHigh
  <2> HIDE DEF hours
  <2>3. ReaderType(state)  BY <1>5, <2>1 DEF ReadHigh, ReaderType
  <2> HIDE DEF state
  <2> QED  BY <2>2, <2>3, GotoTypes
<1>6. CASE ReadRemain(r)
  <2> DEFINE state == [pc |-> "rest", hour |-> reader[r].hour, remain |-> RemainLength(idx)]
  <2>1. RemainLength(idx) \in Int
    BY DEF RemainLength, Hours
  <2>2. ReaderType(state)  BY <1>6, <2>1 DEF ReadRemain, ReaderType
  <2>3. Goto(r, state)  BY <1>6 DEF ReadRemain
  <2> HIDE DEF state
  <2> QED  BY <2>2, <2>3, GotoTypes
<1>7. CASE ReadRest(r)
  <2> DEFINE head  == Slice(idx, TraceLength)
             tail  == Slice(0, reader[r].remain)
             hours == head \o tail
             state == [pc |-> "post", hour |-> reader[r].hour, prediction |-> hours]
  <2>1. hours \in Seq(Hours)
    <3>1. 0 \in Hours /\ TraceLength \in Int /\ reader[r].remain \in Int
      BY <1>7 DEF ReadRest, ReaderType, Hours
    <3>2. head \in Seq(Hours) /\ tail \in Seq(Hours)  BY <3>1, SliceType
    <3> HIDE DEF head, tail
    <3> QED  BY <3>2, ConcatProperties
  <2>2. Goto(r, state)  BY <1>7 DEF ReadRest
  <2> HIDE DEF hours
  <2>3. ReaderType(state)  BY <1>7, <2>1 DEF ReadRest, ReaderType
  <2> HIDE DEF state
  <2> QED  BY <2>2, <2>3, GotoTypes
<1>8. CASE Posted(r)
  <2> DEFINE state == IF r[1] = "register" THEN Idle
                      ELSE [pc |-> "done", hour |-> reader[r].hour,
                            prediction |-> reader[r].prediction]
  <2>1. Goto(r, state) /\ reader[r].pc = "post"  BY <1>8 DEF Posted
  <2>2. ReaderType(state)  BY <2>1 DEF ReaderType, Idle
  <2> HIDE DEF state
  <2> QED  BY <2>1, <2>2, GotoTypes
<1> QED
  BY <1>1, <1>2, <1>3, <1>4, <1>5, <1>6, <1>7, <1>8 DEF Read

LEMMA TypesStep == TypeOK /\ [Next]_vars => TypeOK'
<1> SUFFICES ASSUME TypeOK, [Next]_vars PROVE TypeOK'  OBVIOUS
<1> TraceLength \in Nat \ {0}  BY TraceAssumption
<1>1. CASE \E r \in Readers : Read(r)
  BY <1>1, ReadTypes
<1>2. ASSUME NEW u \in Applicants, Register(u)
      PROVE  TypeOK'
  <2> DEFINE r == <<"register", u>>
  <2>1. ReaderType([pc |-> "intensity"])  BY DEF ReaderType
  <2>2. DOMAIN reader' = Readers
    BY <1>2 DEF Register, TypeOK
  <2>3. \A q \in Readers : reader'[q] = IF q = r THEN [pc |-> "intensity"] ELSE reader[q]
    BY <1>2 DEF Register, TypeOK
  <2>4. \A q \in Readers : ReaderType(reader'[q])
    BY <2>1, <2>3, Zenon DEF TypeOK
  <2>5. users' \subseteq Users
    BY <1>2, TraceAssumption DEF Register, TypeOK
  <2> QED  BY <1>2, <2>2, <2>4, <2>5 DEF Register, TypeOK
<1>3. CASE \E s \in Setters, hour \in Hours : SetIndex(s, hour)
  BY <1>3 DEF SetIndex, TypeOK
<1>4. CASE \E s \in Setters : SetFlag(s)
  BY <1>4 DEF SetFlag, TypeOK
<1>5. CASE Restart
  <2>1. 0 \in Hours  BY DEF Hours
  <2>2. ReaderType(Idle)  BY DEF ReaderType, Idle
  <2>3. DOMAIN reader' = Readers /\ \A r \in Readers : ReaderType(reader'[r])
    BY <1>5, <2>2, Zenon DEF Restart, Start
  <2>4. loop'.pc = "fetch" /\ loop'.round = {}
    BY <1>5 DEF Restart, Start
  <2> QED  BY <1>5, <2>1, <2>3, <2>4 DEF Restart, Start, TypeOK
<1>6. CASE Fetch
  <2>1. DOMAIN reader' = Readers  BY <1>6 DEF Fetch, Submitted
  <2>2. ReaderType(Idle) /\ ReaderType([pc |-> "queued"])  BY DEF ReaderType, Idle
  <2>3. \A q \in Readers : ReaderType(reader'[q])
    <3> TAKE q \in Readers
    <3>1. reader'[q] \in {reader[q], Idle, [pc |-> "queued"]}
      BY <1>6 DEF Fetch, Submitted
    <3> QED  BY <2>2, <3>1, Zenon DEF TypeOK
  <2> QED  BY <1>6, <2>1, <2>3 DEF Fetch, TypeOK
<1>7. CASE Wait
  BY <1>7 DEF Wait, LoopGoto, TypeOK
<1>8. CASE Wake
  BY <1>8 DEF Wake, LoopGoto, TypeOK
<1>9. CASE Clear
  <2>1. reset' \in BOOLEAN
    BY <1>9, Zenon DEF Clear
  <2>2. loop'.pc = "fetch" /\ loop'.round = loop.round
    BY <1>9 DEF Clear, LoopGoto
  <2> QED  BY <1>9, <2>1, <2>2 DEF Clear, TypeOK
<1>10. CASE ReadIndex
  BY <1>10 DEF ReadIndex, TypeOK
<1>11. CASE WriteIndex
  <2>1. NextHour(loop.hour) \in Hours
    <3>1. loop.hour + 1 \in Nat /\ loop.hour + 1 <= TraceLength
      BY <1>11 DEF WriteIndex, TypeOK, Hours
    <3>2. loop.hour + 1 < 2 * TraceLength
      BY <3>1
    <3> DEFINE next == loop.hour + 1
    <3> HIDE DEF next
    <3>3. next % TraceLength = IF next < TraceLength THEN next ELSE next - TraceLength
      BY <3>1, <3>2, Modulo, Zenon DEF next
    <3>4. next % TraceLength \in Hours  BY <3>1, <3>3 DEF Hours, next
    <3> QED  BY <3>4 DEF NextHour, next
  <2> QED  BY <1>11, <2>1 DEF WriteIndex, LoopGoto, TypeOK
<1>12. CASE UNCHANGED vars
  BY <1>12 DEF vars, TypeOK
<1> QED
  BY <1>1, <1>2, <1>3, <1>4, <1>5, <1>6, <1>7, <1>8, <1>9, <1>10, <1>11, <1>12
  DEF Next, LoopStep

LEMMA TypesInvariance == Spec => []TypeOK
BY TypesInit, TypesStep, PTL DEF Spec

(***************************************************************************)
(* The index never leaves the trace, and every prediction that is sent     *)
(* consists of hours of the trace, however registrations, set_index and    *)
(* the loop interleave.                                                    *)
(***************************************************************************)
THEOREM TypeCorrect == Spec => []TypeOK
BY TypesInvariance

-----------------------------------------------------------------------------
(* Predictions without a gap *)

\* An hour before the last is followed by the one after it, the last by 0.
LEMMA Following ==
  ASSUME NEW hour \in Hours
  PROVE  NextHour(hour) = IF hour = TraceLength - 1 THEN 0 ELSE hour + 1
<1> TraceLength \in Nat \ {0}  BY TraceAssumption
<1> DEFINE next == hour + 1
<1>1. next \in Nat /\ next < 2 * TraceLength  BY DEF Hours
<1> HIDE DEF next
<1>2. next % TraceLength = IF next < TraceLength THEN next ELSE next - TraceLength
  BY <1>1, Modulo
<1> QED  BY <1>2 DEF NextHour, Hours, next

\* A slice from one of the trace's hours, of what length and with what in it.
LEMMA SliceHours ==
  ASSUME NEW low \in Hours, NEW high \in Int
  PROVE  /\ Slice(low, high) \in Seq(Hours)
         /\ Len(Slice(low, high)) \in Nat /\ low + Len(Slice(low, high)) <= TraceLength
         /\ \A n \in 1 .. Len(Slice(low, high)) : Slice(low, high)[n] = low + n - 1
<1> TraceLength \in Nat \ {0}  BY TraceAssumption
<1> DEFINE end == IF high < 0 THEN TraceLength + high
                  ELSE IF high > TraceLength THEN TraceLength ELSE high
           size == IF end > low THEN end - low ELSE 0
           slice == Slice(low, high)
<1>1. size \in Nat /\ low + size <= TraceLength
  BY DEF Hours
<1>2. slice = [n \in 1 .. size |-> low + n - 1]
  BY DEF Slice
<1>3. slice \in Seq(Hours)
  BY SliceType
<1> HIDE DEF size, slice
<1>4. Len(slice) = size
  <2>1. DOMAIN slice = 1 .. size  BY <1>2, Zenon
  <2>2. DOMAIN slice = 1 .. Len(slice) /\ Len(slice) \in Nat  BY <1>3, LenProperties
  <2> QED  BY <1>1, <2>1, <2>2
<1>5. \A n \in 1 .. size : slice[n] = low + n - 1
  BY <1>2
<1> QED  BY <1>1, <1>3, <1>4, <1>5 DEF slice

LEMMA SliceInOrder ==
  ASSUME NEW low \in Hours, NEW high \in Int
  PROVE  InOrder(Slice(low, high))
<1> DEFINE slice == Slice(low, high)
<1> TraceLength \in Nat \ {0}  BY TraceAssumption
<1>1. /\ Len(slice) \in Nat /\ low + Len(slice) <= TraceLength
      /\ \A n \in 1 .. Len(slice) : slice[n] = low + n - 1
  BY SliceHours
<1> HIDE DEF slice
<1>2. ASSUME NEW n \in 1 .. Len(slice) - 1
      PROVE  slice[n + 1] = NextHour(slice[n])
  <2>1. slice[n] = low + n - 1 /\ slice[n + 1] = low + n
    BY <1>1
  <2>2. low + n - 1 \in Hours /\ low + n - 1 # TraceLength - 1
    BY <1>1 DEF Hours
  <2>3. NextHour(low + n - 1) = (low + n - 1) + 1
    BY <2>2, Following
  <2> QED  BY <2>1, <2>3 DEF Hours
<1> QED  BY <1>2 DEF InOrder, slice

\* The rest of the trace, and then any part of it from its start.
LEMMA JoinInOrder ==
  ASSUME NEW hour \in Hours, NEW high \in Int
  PROVE  InOrder(Slice(hour, TraceLength) \o Slice(0, high))
<1> DEFINE head  == Slice(hour, TraceLength)
           tail  == Slice(0, high)
           whole == head \o tail
           left  == TraceLength - hour
<1> TraceLength \in Nat \ {0} /\ TraceLength \in Int  BY TraceAssumption
<1>0. 0 \in Hours  BY DEF Hours
<1>1. head \in Seq(Hours) /\ tail \in Seq(Hours) /\ Len(tail) \in Nat
  BY <1>0, SliceHours
<1>2. Len(head) = left /\ left \in Nat \ {0}
  <2>1. head = [n \in 1 .. left |-> hour + n - 1] /\ left \in Nat \ {0}
    BY SliceShape DEF Hours
  <2>2. DOMAIN head = 1 .. left
    BY <2>1, Zenon
  <2> HIDE DEF head, left
  <2>3. DOMAIN head = 1 .. Len(head) /\ Len(head) \in Nat
    BY <1>1, LenProperties
  <2> QED  BY <2>1, <2>2, <2>3
<1>3. /\ \A n \in 1 .. Len(head) : head[n] = hour + n - 1
      /\ \A n \in 1 .. Len(tail) : tail[n] = n - 1
  <2>1. /\ \A n \in 1 .. Len(head) : head[n] = hour + n - 1
        /\ \A n \in 1 .. Len(tail) : tail[n] = 0 + n - 1
    BY <1>0, SliceHours
  <2> HIDE DEF head, tail
  <2> QED  BY <1>1, <2>1
<1>4. InOrder(head) /\ InOrder(tail)
  BY <1>0, SliceInOrder
<1> HIDE DEF head, tail, left
<1>5. /\ Len(whole) = left + Len(tail)
      /\ \A n \in 1 .. left + Len(tail) :
           whole[n] = IF n <= left THEN head[n] ELSE tail[n - left]
  BY <1>1, <1>2, ConcatProperties
<1> HIDE DEF whole
<1>6. ASSUME NEW n \in 1 .. Len(whole) - 1
      PROVE  whole[n + 1] = NextHour(whole[n])
  <2>1. CASE n < left
    <3>1. whole[n] = head[n] /\ whole[n + 1] = head[n + 1]
      BY <1>1, <1>2, <1>5, <2>1
    <3>2. n \in 1 .. Len(head) - 1
      BY <1>2, <2>1
    <3> QED  BY <1>4, <3>1, <3>2 DEF InOrder
  <2>2. CASE n = left
    <3>1. whole[n] = head[n] /\ whole[n + 1] = tail[1] /\ 1 \in 1 .. Len(tail)
      BY <1>1, <1>2, <1>5, <2>2
    <3>2. head[n] = TraceLength - 1 /\ tail[1] = 0
      <4>1. head[n] = hour + n - 1  BY <1>2, <1>3, <2>2
      <4>2. tail[1] = 0             BY <1>3, <3>1
      <4> QED  BY <4>1, <4>2, <2>2 DEF left, Hours
    <3>3. NextHour(TraceLength - 1) = 0
      BY Following DEF Hours
    <3> QED  BY <3>1, <3>2, <3>3
  <2>3. CASE n > left
    <3> DEFINE k == n - left
    <3>1. k \in 1 .. Len(tail) - 1 /\ (n + 1) - left = k + 1
      BY <1>1, <1>2, <1>5, <2>3
    <3>2. whole[n] = tail[k] /\ whole[n + 1] = tail[k + 1]
      BY <1>1, <1>2, <1>5, <2>3, <3>1
    <3> HIDE DEF k
    <3> QED  BY <1>4, <3>1, <3>2 DEF InOrder
  <2> QED  BY <1>2, <2>1, <2>2, <2>3
<1>7. InOrder(whole)
  BY <1>6 DEF InOrder
<1> QED  BY <1>7 DEF whole, head, tail

LEMMA OrderStep == TypeOK /\ HoursInOrder /\ [Next]_vars => HoursInOrder'
<1> SUFFICES ASSUME TypeOK, HoursInOrder, [Next]_vars PROVE HoursInOrder'  OBVIOUS
<1>1. ASSUME NEW r \in Readers, Read(r)
      PROVE  HoursInOrder'
  <2>1. /\ \A q \in Readers : q # r => reader'[q] = reader[q]
        /\ r \in DOMAIN reader
    BY <1>1 DEF Read, PickUp, ReadIntensity, Fits, ReadLow, ReadHigh, ReadRemain,
                ReadRest, Posted, Goto, TypeOK
  <2>2. idx \in Hours /\ idx + window \in Int /\ 0 \in Hours /\ ReaderType(reader[r])
    BY TraceAssumption DEF TypeOK, Hours
  <2>3. reader'[r].pc \in {"post", "done"} => InOrder(reader'[r].prediction)
    <3>1. CASE PickUp(r) \/ ReadIntensity(r) \/ Fits(r) \/ ReadLow(r) \/ ReadRemain(r)
      BY <2>1, <3>1 DEF PickUp, ReadIntensity, Fits, ReadLow, ReadRemain, Goto
    <3>2. CASE ReadHigh(r)
      <4>1. reader'[r].prediction = Slice(reader[r].low, idx + window)
        BY <2>1, <3>2 DEF ReadHigh, Goto
      <4>2. reader[r].low \in Hours
        BY <2>2, <3>2 DEF ReadHigh, ReaderType
      <4> QED  BY <2>2, <4>1, <4>2, SliceInOrder, Zenon
    <3>3. CASE ReadRest(r)
      <4>1. reader'[r].prediction = Slice(idx, TraceLength) \o Slice(0, reader[r].remain)
        BY <2>1, <3>3 DEF ReadRest, Goto
      <4>2. reader[r].remain \in Int
        BY <2>2, <3>3 DEF ReadRest, ReaderType
      <4> QED  BY <2>2, <4>1, <4>2, JoinInOrder, Zenon
    <3>4. CASE Posted(r)
      <4>1. CASE r[1] = "register"
        BY <2>1, <3>4, <4>1 DEF Posted, Goto, Idle
      <4>2. CASE r[1] # "register"
        <5>1. reader'[r].prediction = reader[r].prediction /\ reader[r].pc = "post"
          BY <2>1, <3>4, <4>2 DEF Posted, Goto
        <5> QED  BY <5>1, Zenon DEF HoursInOrder
      <4> QED  BY <4>1, <4>2
    <3> QED  BY <1>1, <3>1, <3>2, <3>3, <3>4 DEF Read
  <2> HIDE DEF InOrder
  <2> QED  BY <2>1, <2>3, Zenon DEF HoursInOrder
<1>2. ASSUME NEW u \in Applicants, Register(u)
      PROVE  HoursInOrder'
  BY <1>2 DEF Register, HoursInOrder, TypeOK, InOrder, NextHour
<1>3. CASE Restart
  BY <1>3 DEF Restart, Start, Idle, HoursInOrder
<1>4. CASE Fetch
  BY <1>4 DEF Fetch, Submitted, Idle, HoursInOrder, TypeOK, InOrder, NextHour
<1>5. CASE \/ Wait \/ Wake \/ Clear \/ ReadIndex \/ WriteIndex
           \/ \E s \in Setters, hour \in Hours : SetIndex(s, hour)
           \/ \E s \in Setters : SetFlag(s)
  <2>1. reader' = reader
    BY <1>5 DEF Wait, Wake, Clear, ReadIndex, WriteIndex, SetIndex, SetFlag
  <2> QED  BY <2>1 DEF HoursInOrder, InOrder, NextHour
<1>6. CASE UNCHANGED vars
  BY <1>6 DEF vars, HoursInOrder, InOrder, NextHour
<1> QED
  BY <1>1, <1>2, <1>3, <1>4, <1>5, <1>6 DEF Next, LoopStep

(***************************************************************************)
(* No prediction has a gap, of whichever reads of a moving index it was    *)
(* built, for every trace and window: the piece up to the end of the trace *)
(* is never empty, and the other begins where the trace does.              *)
(***************************************************************************)
THEOREM NoGaps == Spec => []HoursInOrder
<1>1. Init => HoursInOrder
  BY DEF Init, Idle, HoursInOrder
<1> QED  BY <1>1, OrderStep, TypesInvariance, PTL DEF Spec

-----------------------------------------------------------------------------
(* Rounds that nobody disturbs                                             *)

\* What a reader has read so far was read at the current hour.
Current(state) ==
  /\ state.pc \in {"fits", "low", "high", "remain", "rest", "post", "done"} =>
       state.hour = idx
  /\ state.pc \in {"low", "high"} => idx + window <= TraceLength
  /\ state.pc \in {"remain", "rest"} => idx + window > TraceLength
  /\ state.pc = "high" => state.low = idx
  /\ state.pc = "rest" => state.remain = RemainLength(idx)
  /\ state.pc \in {"post", "done"} => state.prediction = HoursFrom(idx)

(***************************************************************************)
(* While the loop waits every push of the round is current, and when it    *)
(* has waited they are done, so none of them can change any more.          *)
(***************************************************************************)
RoundInv ==
  /\ setting = {}
  /\ loop.pc \in {"wait", "sleep"} =>
       \A u \in loop.round : Current(reader[<<"push", u>>])
  /\ loop.pc = "sleep" =>
       \A u \in loop.round : reader[<<"push", u>>].pc = "done"

\* A current reader stays current: its step reads the index as it is.
LEMMA ReadCurrent ==
  ASSUME TypeOK, NEW r \in Readers, r[1] = "push", Current(reader[r]), Read(r)
  PROVE  Current(reader[r])'
<1> TraceLength \in Nat \ {0}  BY TraceAssumption
<1> window \in Windows /\ window \in Nat /\ window' = window
  BY TraceAssumption DEF TypeOK, Read, PickUp, ReadIntensity, Fits, ReadLow, ReadHigh,
                         ReadRemain, ReadRest, Posted, Goto
<1> idx \in Hours /\ idx \in Int /\ idx' = idx /\ r \in DOMAIN reader
  BY DEF TypeOK, Hours, Read, PickUp, ReadIntensity, Fits, ReadLow, ReadHigh,
         ReadRemain, ReadRest, Posted, Goto
<1>1. CASE PickUp(r)
  BY <1>1 DEF PickUp, Goto, Current
<1>2. CASE ReadIntensity(r)
  BY <1>2 DEF ReadIntensity, Goto, Current
<1>3. CASE Fits(r)
  BY <1>3 DEF Fits, Goto, Current
<1>4. CASE ReadLow(r)
  BY <1>4 DEF ReadLow, Goto, Current
<1>5. CASE ReadHigh(r)
  <2>1. reader[r].low = idx /\ reader[r].hour = idx /\ idx + window <= TraceLength
    BY <1>5 DEF ReadHigh, Current
  <2>2. Slice(reader[r].low, idx + window) = HoursFrom(idx)
    BY <2>1, OnePiece, Zenon
  <2>3. reader'[r] = [pc |-> "post", hour |-> idx, prediction |-> HoursFrom(idx)]
    BY <1>5, <2>1, <2>2, Zenon DEF ReadHigh, Goto
  <2> QED  BY <2>3 DEF Current, HoursFrom, Reach
<1>6. CASE ReadRemain(r)
  BY <1>6 DEF ReadRemain, Goto, Current, RemainLength
<1>7. CASE ReadRest(r)
  <2>1. reader[r].remain = RemainLength(idx) /\ reader[r].hour = idx /\ idx + window > TraceLength
    BY <1>7 DEF ReadRest, Current
  <2>2. Slice(idx, TraceLength) \o Slice(0, reader[r].remain) = HoursFrom(idx)
    BY <2>1, TwoPieces, Zenon
  <2>3. reader'[r] = [pc |-> "post", hour |-> idx, prediction |-> HoursFrom(idx)]
    BY <1>7, <2>1, <2>2, Zenon DEF ReadRest, Goto
  <2> QED  BY <2>3 DEF Current, HoursFrom, Reach
<1>8. CASE Posted(r)
  BY <1>8 DEF Posted, Goto, Current, HoursFrom, Reach
<1> QED
  BY <1>1, <1>2, <1>3, <1>4, <1>5, <1>6, <1>7, <1>8 DEF Read

LEMMA RoundStep ==
  ASSUME Setters = {}, TypeOK, RoundInv, [Next]_vars
  PROVE  RoundInv'
<1> USE DEF LoopGoto
<1>1. ASSUME NEW r \in Readers, Read(r)
      PROVE  RoundInv'
  <2>1. /\ UNCHANGED <<window, idx, loop, setting>>
        /\ \A q \in Readers : q # r => reader'[q] = reader[q]
        /\ reader[r].pc # "done"
    BY <1>1 DEF Read, PickUp, ReadIntensity, Fits, ReadLow, ReadHigh, ReadRemain,
                ReadRest, Posted, Goto, TypeOK
  <2>2. \A u \in loop.round : <<"push", u>> \in Readers
    BY DEF TypeOK, Readers
  <2>3. ASSUME loop.pc \in {"wait", "sleep"}, NEW u \in loop.round
        PROVE  Current(reader[<<"push", u>>])'
    <3>1. CASE <<"push", u>> = r
      BY <1>1, <2>3, <3>1, ReadCurrent DEF RoundInv
    <3>2. CASE <<"push", u>> # r
      <4>1. reader'[<<"push", u>>] = reader[<<"push", u>>]  BY <2>1, <2>2, <3>2
      <4> QED  BY <2>1, <2>3, <4>1 DEF RoundInv, Current, HoursFrom, Reach, RemainLength
    <3> QED  BY <3>1, <3>2
  <2>4. ASSUME loop.pc = "sleep", NEW u \in loop.round
        PROVE  reader'[<<"push", u>>].pc = "done"
    BY <2>1, <2>2, <2>4 DEF RoundInv
  <2> QED  BY <2>1, <2>3, <2>4 DEF RoundInv
<1>2. ASSUME NEW u \in Applicants, Register(u)
      PROVE  RoundInv'
  <2>1. \A v \in loop.round : reader'[<<"push", v>>] = reader[<<"push", v>>]
    BY <1>2 DEF Register, TypeOK, Readers
  <2>2. UNCHANGED <<window, idx, loop, setting>>
    BY <1>2 DEF Register
  <2> QED  BY <2>1, <2>2 DEF RoundInv, Current, HoursFrom, Reach, RemainLength
<1>3. CASE Restart
  BY <1>3 DEF Restart, Start, RoundInv
<1>4. CASE Fetch
  <2>1. \A u \in loop'.round : reader'[<<"push", u>>].pc = "queued"
    BY <1>4 DEF Fetch, Submitted, TypeOK, Readers
  <2> QED  BY <1>4, <2>1 DEF Fetch, RoundInv, Current
<1>5. CASE Wait
  BY <1>5 DEF Wait, RoundInv, Current, HoursFrom, Reach, RemainLength
<1>6. CASE Wake \/ Clear \/ ReadIndex \/ WriteIndex
  BY <1>6 DEF Wake, Clear, ReadIndex, WriteIndex, RoundInv
<1>7. CASE UNCHANGED vars
  BY <1>7 DEF vars, RoundInv, Current, HoursFrom, Reach, RemainLength
<1>8. ~(\E s \in Setters, hour \in Hours : SetIndex(s, hour)) /\ ~(\E s \in Setters : SetFlag(s))
  OBVIOUS
<1> QED
  BY <1>1, <1>2, <1>3, <1>4, <1>5, <1>6, <1>7, <1>8 DEF Next, LoopStep

(***************************************************************************)
(* Without set_index every round, from the first on, tells each user the   *)
(* current hour and the hours from it on, as many as Reach says: the loop  *)
(* waits for the pool, and nobody else moves the index.  The window may be *)
(* longer than the trace, as that of the shipped deployment is.            *)
(***************************************************************************)
THEOREM RoundsRight ==
  ASSUME Setters = {}
  PROVE  Spec => []RoundAnnounced
<1>1. Init => RoundInv
  BY DEF Init, RoundInv
<1>2. TypeOK /\ RoundInv /\ [Next]_vars => RoundInv'
  BY RoundStep
<1>3. RoundInv => RoundAnnounced
  BY DEF RoundInv, RoundAnnounced, Current
<1> QED  BY <1>1, <1>2, <1>3, TypesInvariance, PTL DEF Spec

-----------------------------------------------------------------------------
(* The service as the manager knows it                                     *)

\* The hour's push to u is still to come, or is over; as in Manager.
Phase(u) ==
  IF \/ loop.pc = "fetch"
     \/ /\ loop.pc = "wait"
        /\ u \in loop.round => reader[<<"push", u>>].pc \notin {"post", "done"}
  THEN "push" ELSE "sleep"

\* The hour's message for u is ready, if the table had u when the round began.
Told(u) ==
  /\ Phase(u) = "push" /\ Phase(u)' = "sleep"
  /\ UNCHANGED idx
  /\ u \in loop.round =>
       reader'[<<"push", u>>] = [pc |-> "post", hour |-> idx, prediction |-> HoursFrom(idx)]

\* The hour is over: Tick of Manager.
Passes(u) ==
  /\ Phase(u) = "sleep" /\ Phase(u)' = "push"
  /\ idx' = IF idx = TraceLength - 1 THEN 0 ELSE idx + 1

\* Without set_index the flag is never set and an hour read is not outdated.
ClockInv == RoundInv /\ ~reset /\ loop.pc # "clear" /\ (loop.pc = "write" => loop.hour = idx)

LEMMA ClockStep ==
  ASSUME Setters = {}, TypeOK, ClockInv, [Next]_vars
  PROVE  ClockInv'
<1>1. RoundInv'
  BY RoundStep DEF ClockInv
<1>2. CASE \/ \E r \in Readers : Read(r)
           \/ \E u \in Applicants : Register(u)
  <2>1. UNCHANGED <<window, idx, reset, loop>>
    BY <1>2 DEF Read, PickUp, ReadIntensity, Fits, ReadLow, ReadHigh, ReadRemain,
                ReadRest, Posted, Goto, Register
  <2> QED  BY <1>1, <2>1 DEF ClockInv
<1>3. CASE LoopStep
  BY <1>1, <1>3
  DEF ClockInv, LoopStep, Fetch, Wait, Wake, Clear, ReadIndex, WriteIndex, LoopGoto
<1>4. CASE Restart
  BY <1>1, <1>4 DEF ClockInv, Restart, Start
<1>5. CASE UNCHANGED vars
  BY <1>1, <1>5 DEF ClockInv, vars
<1> QED
  BY <1>2, <1>3, <1>4, <1>5 DEF Next

\* A reader that gets its message ready has read it in this hour.
LEMMA ReadTells ==
  ASSUME TypeOK, ClockInv, NEW u \in Users, NEW r \in Readers, Read(r),
         UNCHANGED <<window, idx, loop>>
  PROVE  Phase(u)' = Phase(u) \/ Told(u)
<1> DEFINE p == <<"push", u>>
<1>1. p \in Readers  BY DEF Readers
<1>2. \A q \in Readers : q # r => reader'[q] = reader[q]
  BY DEF Read, PickUp, ReadIntensity, Fits, ReadLow, ReadHigh, ReadRemain,
         ReadRest, Posted, Goto, TypeOK
<1>3. CASE p # r
  BY <1>1, <1>2, <1>3 DEF Phase
<1>4. CASE loop.pc # "wait" \/ u \notin loop.round
  BY <1>4 DEF Phase
<1>5. CASE p = r /\ loop.pc = "wait" /\ u \in loop.round
  <2>1. CASE reader[p].pc \in {"post", "done"}
    <3>1. reader'[p].pc = "done"
      BY <1>1, <1>5, <2>1 DEF Read, PickUp, ReadIntensity, Fits, ReadLow, ReadHigh,
         ReadRemain, ReadRest, Posted, Goto, TypeOK
    <3> QED  BY <1>5, <2>1, <3>1 DEF Phase
  <2>2. CASE reader[p].pc \notin {"post", "done"} /\ reader'[p].pc \notin {"post", "done"}
    BY <1>5, <2>2 DEF Phase
  <2>3. CASE reader[p].pc \notin {"post", "done"} /\ reader'[p].pc \in {"post", "done"}
    <3>1. Current(reader[p])'
      BY <1>1, <1>5, ReadCurrent DEF ClockInv, RoundInv
    <3>2. reader'[p].hour = idx /\ reader'[p].prediction = HoursFrom(idx)
      BY <2>3, <3>1 DEF Current, HoursFrom, Reach
    <3>3. reader'[p] = [pc |-> "post", hour |-> reader'[p].hour,
                        prediction |-> reader'[p].prediction]
      BY <1>1, <1>5, <2>3 DEF Read, PickUp, ReadIntensity, Fits, ReadLow, ReadHigh,
         ReadRemain, ReadRest, Posted, Goto, TypeOK
    <3>4. reader'[p] = [pc |-> "post", hour |-> idx, prediction |-> HoursFrom(idx)]
      BY <3>2, <3>3, Zenon
    <3>5. Phase(u) = "push" /\ Phase(u)' = "sleep"
      BY <1>5, <2>3 DEF Phase
    <3> QED  BY <3>4, <3>5, Zenon DEF Told
  <2> QED  BY <2>1, <2>2, <2>3
<1> QED  BY <1>3, <1>4, <1>5

(***************************************************************************)
(* Without set_index the service is to each of its users what Manager      *)
(* takes it for: once an hour, and in this order, u is told the hour and   *)
(* the hours from it on if it was registered when the round began, and     *)
(* then the hour moves on by one (carbon_service.py:112-132).              *)
(* Only a restart of the service breaks the sequence.                      *)
(***************************************************************************)
THEOREM HourByHour ==
  ASSUME Setters = {}, NEW u \in Users
  PROVE  Spec => [][Told(u) \/ Passes(u) \/ Restart]_<<idx, Phase(u)>>
<1>1. Init => ClockInv
  BY DEF Init, ClockInv, RoundInv
<1>2. TypeOK /\ ClockInv /\ [Next]_vars => ClockInv'
  BY ClockStep
<1>3. TypeOK /\ ClockInv /\ [Next]_vars =>
        [Told(u) \/ Passes(u) \/ Restart]_<<idx, Phase(u)>>
  <2> SUFFICES ASSUME TypeOK, ClockInv, [Next]_vars
               PROVE  UNCHANGED <<idx, Phase(u)>> \/ Told(u) \/ Passes(u) \/ Restart
    OBVIOUS
  <2>1. ASSUME NEW r \in Readers, Read(r)
        PROVE  UNCHANGED <<idx, Phase(u)>> \/ Told(u)
    <3>1. UNCHANGED <<window, idx, loop>>
      BY <2>1 DEF Read, PickUp, ReadIntensity, Fits, ReadLow, ReadHigh, ReadRemain,
                  ReadRest, Posted, Goto
    <3> QED  BY <2>1, <3>1, ReadTells
  <2>2. ASSUME NEW a \in Applicants, Register(a)
        PROVE  UNCHANGED <<idx, Phase(u)>>
    <3>1. reader'[<<"push", u>>] = reader[<<"push", u>>]
      BY <2>2 DEF Register, TypeOK, Readers
    <3> QED  BY <2>2, <3>1 DEF Register, Phase
  <2>3. CASE Fetch
    <3>1. \A v \in users : reader'[<<"push", v>>].pc = "queued"
      BY <2>3 DEF Fetch, Submitted, TypeOK, Readers
    <3> QED  BY <2>3, <3>1 DEF Fetch, Phase
  <2>4. CASE Wait
    <3>1. CASE u \in loop.round
      BY <2>4, <3>1 DEF Wait, LoopGoto, Phase
    <3>2. CASE u \notin loop.round
      BY <2>4, <3>2 DEF Wait, LoopGoto, Phase, Told
    <3> QED  BY <3>1, <3>2
  <2>5. CASE Wake \/ Clear \/ ReadIndex
    BY <2>5 DEF Wake, Clear, ReadIndex, LoopGoto, Phase, ClockInv
  <2>6. CASE WriteIndex
    <3>1. loop.hour = idx /\ idx \in Hours
      BY <2>6 DEF WriteIndex, ClockInv, TypeOK
    <3>2. NextHour(idx) = IF idx = TraceLength - 1 THEN 0 ELSE idx + 1
      BY <3>1, Following
    <3> QED  BY <2>6, <3>1, <3>2 DEF WriteIndex, LoopGoto, Phase, Passes
  <2>7. CASE UNCHANGED vars
    BY <2>7 DEF vars, Phase
  <2> QED
    BY <2>1, <2>2, <2>3, <2>4, <2>5, <2>6, <2>7 DEF Next, LoopStep
<1> QED  BY <1>1, <1>2, <1>3, TypesInvariance, PTL DEF Spec
=============================================================================
