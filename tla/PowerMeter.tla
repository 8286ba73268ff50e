----------------------------- MODULE PowerMeter -----------------------------
(***************************************************************************)
(* A power server: monitoring/rapl.py and power_server.py.  Threads:       *)
(*   meter    PowerMeter.run: reads the energy counter of every RAPL       *)
(*            domain twice, some time apart, and appends what was drawn    *)
(*            in between to the readings;                                  *)
(*   pollers  requests of the status server's monitors, answered by        *)
(*            get_readings: a copy of the readings, which are then cleared.*)
(* Energy flows while the domains are read one after the other.            *)
(*                                                                         *)
(* Readings are numbered, and their sum over the domains and the division  *)
(* by the time passed are left out.                                        *)
(***************************************************************************)
EXTENDS Integers, GoMaps

CONSTANTS
  Domains,     \* RAPL domains: packages, and what is in them
  Pollers,     \* threads that ask for the readings
  MaxRange,    \* max_energy_range_uj, the highest value of a counter
  MaxDraw,     \* no domain draws more energy during a reading
  MaxReadings  \* we look at the first ones

ASSUME MeterAssumption ==
  /\ MaxRange \in Nat \ {0} /\ MaxDraw \in Nat /\ MaxReadings \in Nat
  /\ "nobody" \notin Pollers

VARIABLES
  counter,  \* energy_uj of every domain
  pc,       \* the meter: "first", "second" (sample) or "append"
  first,    \* ... its first sample: partial function from domains to values
  diff,     \* ... the second less the first, as far as it is read
  made,     \* ... how many readings it has appended
  buffer,   \* self._readings
  lock,     \* who holds self._lock
  copy,     \* ... and what it has copied of the readings
  got,      \* history: the readings every poller was given
  drawn     \* history: what a domain drew since it was first read

meter == <<pc, first, diff, made>>
polls == <<lock, copy, got>>
vars == <<counter, meter, buffer, polls, drawn>>

Init ==
  /\ counter \in [Domains -> 0 .. MaxRange]
  /\ pc = "first" /\ first = EmptyMap /\ diff = EmptyMap /\ made = 0
  /\ buffer = {}
  /\ lock = "nobody" /\ copy = {} /\ got = [p \in Pollers |-> {}]
  /\ drawn = [d \in Domains |-> 0]

-----------------------------------------------------------------------------
(* The meter                                                               *)

Measuring(d) == d \in DOMAIN first /\ d \notin DOMAIN diff

\* The hardware: a domain uses a unit of energy, its counter starts over.
Draw(d) ==
  /\ Measuring(d) => drawn[d] < MaxDraw
  /\ counter' = [counter EXCEPT ![d] = IF @ = MaxRange THEN 0 ELSE @ + 1]
  /\ drawn' = [drawn EXCEPT ![d] = IF Measuring(d) THEN @ + 1 ELSE @]
  /\ UNCHANGED <<meter, buffer, polls>>

\* take_sample, domain by domain; read_average_power sleeps when all are read.
SampleFirst(d) ==
  /\ pc = "first" /\ d \notin DOMAIN first
  /\ first' = Put(first, d, counter[d])
  /\ drawn' = [drawn EXCEPT ![d] = 0]
  /\ pc' = IF DOMAIN first' = Domains THEN "second" ELSE pc
  /\ UNCHANGED <<counter, diff, made, buffer, polls>>

\* A bug: the rollover of a counter is not handled.
FaultyDifference(new, old) == new - old

\* A bug: a rollover is answered with the value of the counter itself.
ShortDifference(new, old) == IF new - old < 0 THEN new ELSE new - old

\* RAPLDomain.__sub__.
Difference(new, old) == IF new - old < 0 THEN MaxRange + (new - old) ELSE new - old

SampleSecond(d) ==
  /\ pc = "second" /\ d \notin DOMAIN diff
  /\ diff' = Put(diff, d, Difference(counter[d], first[d]))
  /\ pc' = IF DOMAIN diff' = Domains THEN "append" ELSE pc
  /\ UNCHANGED <<counter, first, made, buffer, polls, drawn>>

\* A domain is missing or cannot be read: the reading is a constant.
SampleRaises ==
  /\ pc \in {"first", "second"}
  /\ pc' = "append" /\ first' = EmptyMap /\ diff' = EmptyMap
  /\ UNCHANGED <<counter, made, buffer, polls, drawn>>

\* A bug: the readings are appended to without the lock.
FaultyAppend ==
  /\ pc = "append" /\ made < MaxReadings
  /\ made' = made + 1 /\ buffer' = buffer \cup {made'}
  /\ pc' = "first" /\ first' = EmptyMap /\ diff' = EmptyMap
  /\ UNCHANGED <<counter, polls, drawn>>

Append ==
  /\ pc = "append" /\ made < MaxReadings
  /\ lock = "nobody"
  /\ made' = made + 1 /\ buffer' = buffer \cup {made'}
  /\ pc' = "first" /\ first' = EmptyMap /\ diff' = EmptyMap
  /\ UNCHANGED <<counter, polls, drawn>>

-----------------------------------------------------------------------------
(* get_readings                                                            *)

Copy(p) ==
  /\ lock = "nobody"
  /\ lock' = p /\ copy' = buffer
  /\ UNCHANGED <<counter, meter, buffer, got, drawn>>

Clear(p) ==
  /\ lock = p
  /\ lock' = "nobody" /\ copy' = {}
  /\ buffer' = {}
  /\ got' = [got EXCEPT ![p] = @ \cup copy]
  /\ UNCHANGED <<counter, meter, drawn>>

Next ==
  \/ \E d \in Domains : Draw(d) \/ SampleFirst(d) \/ SampleSecond(d)
  \/ SampleRaises \/ Append
  \/ \E p \in Pollers : Copy(p) \/ Clear(p)

Spec == Init /\ [][Next]_vars

-----------------------------------------------------------------------------
Given == UNION {got[p] : p \in Pollers}

TypeOK ==
  /\ counter \in [Domains -> 0 .. MaxRange]
  /\ drawn \in [Domains -> 0 .. MaxDraw]
  /\ pc \in {"first", "second", "append"}
  /\ DOMAIN diff \subseteq DOMAIN first /\ DOMAIN first \subseteq Domains
  /\ \A d \in DOMAIN first : first[d] \in 0 .. MaxRange
  /\ \A d \in DOMAIN diff : diff[d] \in 0 .. MaxRange
  /\ made \in 0 .. MaxReadings
  /\ buffer \subseteq 1 .. made /\ copy \subseteq buffer
  /\ lock \in Pollers \cup {"nobody"}
  /\ got \in [Pollers -> SUBSET (1 .. made)]

(***************************************************************************)
(* "detect if there was a rollover, and handle it": the energy of a domain *)
(* in a reading is what it drew between its two samples, also if its       *)
(* counter started over in between - less one unit, as the step from       *)
(* max_energy_range_uj to 0 is not counted - unless it went all the way    *)
(* round.                                                                  *)
(***************************************************************************)
ReadingRight ==
  \A d \in DOMAIN diff :
    drawn[d] <= MaxRange =>
      diff[d] = drawn[d] - (IF first[d] + drawn[d] > MaxRange THEN 1 ELSE 0)

(***************************************************************************)
(* Every reading made is either still to be polled or was given to one     *)
(* poller, once: what is appended while another thread copies and clears   *)
(* the readings is neither lost nor given twice.                           *)
(***************************************************************************)
HandedOutOnce ==
  /\ buffer \cup Given = 1 .. made /\ buffer \cap Given = {}
  /\ \A p, q \in Pollers : p # q => got[p] \cap got[q] = {}
=============================================================================
