----------------------------- MODULE CarbonAgent -----------------------------
(***************************************************************************)
(* The carbon service, carbon_service.py: one hour of a carbon trace after *)
(* another is announced to every registered application, together with the *)
(* hours that follow it.                                                   *)
(*                                                                         *)
(* Threads, none of which takes a lock:                                    *)
(*   loop       CarbonAgent.run: tells everyone, sleeps, moves on;         *)
(*   reader     the workers of its pool, one <<"push", u>> for each user   *)
(*              of the round, and the handlers <<"register", u>> of a      *)
(*              registration; both build a message from the index;         *)
(*   setting    the handlers of set_index that have still to set the flag. *)
(* A step ends wherever the code reads or writes the index or the flag.    *)
(*                                                                         *)
(* An hour of the trace stands for the carbon intensity in that hour; the  *)
(* percentile of the message, which nobody uses, is left out.              *)
(***************************************************************************)
EXTENDS Integers, Sequences, FiniteSets

CONSTANTS
  Users,        \* the addresses of the applications
  Applicants,   \* those that register, once or again, while we watch
  Setters,      \* handlers of set_index at the same time
  TraceLength,  \* self._trace_length
  Windows,      \* what --prediction-window may be, beyond the trace too
  MaxWorkers    \* max_workers of the pool

ASSUME TraceAssumption ==
  /\ TraceLength \in Nat \ {0}
  /\ Windows \subseteq Nat
  /\ MaxWorkers \in Nat \ {0}
  /\ Applicants \subseteq Users

VARIABLES
  window,   \* self._prediction_window
  idx,      \* self._current_idx
  reset,    \* self._index_reset
  users,    \* the table of registrations, in a file
  loop, reader, setting   \* the threads

vars == <<window, idx, reset, users, loop, reader, setting>>

Hours   == 0 .. TraceLength - 1
Readers == ({"push"} \X Users) \cup ({"register"} \X Applicants)
Idle    == [pc |-> "idle"]

\* The process starts again, perhaps with another argument.
Start ==
  /\ window' \in Windows
  /\ idx' = 0 /\ reset' = FALSE
  /\ loop' = [pc |-> "fetch", round |-> {}]
  /\ reader' = [r \in Readers |-> Idle]
  /\ setting' = {}

\* The table is created if it does not exist: it may hold earlier users.
Init ==
  /\ window \in Windows
  /\ idx = 0 /\ reset = FALSE
  /\ users \in SUBSET Users
  /\ loop = [pc |-> "fetch", round |-> {}]
  /\ reader = [r \in Readers |-> Idle]
  /\ setting = {}

\* A bug: the table is in memory.
FaultyRestart == Start /\ users' = {}

Restart == Start /\ UNCHANGED users

-----------------------------------------------------------------------------
(* A message: the current hour, and a list of hours                        *)

\* trace[low:high] in numpy: a high beyond the end is the end, a negative one
\* counts from the end.
Slice(low, high) ==
  LET end == IF high < 0 THEN TraceLength + high
             ELSE IF high > TraceLength THEN TraceLength ELSE high
  IN  [n \in 1 .. (IF end > low THEN end - low ELSE 0) |-> low + n - 1]

\* predict_carbon_real, line 165: how much of the window is beyond the end.
RemainLength(hour) == hour + window - TraceLength

Goto(r, state) ==
  /\ reader' = [reader EXCEPT ![r] = state]
  /\ UNCHANGED <<window, idx, reset, users, loop, setting>>

\* The pool has a worker for r.
PickUp(r) ==
  /\ reader[r].pc = "queued"
  /\ Cardinality({u \in Users : reader[<<"push", u>>].pc \notin {"idle", "queued", "done"}})
       < MaxWorkers
  /\ Goto(r, [pc |-> "intensity"])

ReadIntensity(r) ==
  /\ reader[r].pc = "intensity"
  /\ Goto(r, [pc |-> "fits", hour |-> idx])

\* Does the window fit before the end of the trace?
Fits(r) ==
  /\ reader[r].pc = "fits"
  /\ Goto(r, [pc   |-> IF idx + window <= TraceLength THEN "low" ELSE "remain",
              hour |-> reader[r].hour])

\* It does: self._carbon_trace[self._current_idx : self._current_idx + window].
ReadLow(r) ==
  /\ reader[r].pc = "low"
  /\ Goto(r, [pc |-> "high", hour |-> reader[r].hour, low |-> idx])

ReadHigh(r) ==
  /\ reader[r].pc = "high"
  /\ Goto(r, [pc   |-> "post", hour |-> reader[r].hour,
              prediction |-> Slice(reader[r].low, idx + window)])

\* It does not: the rest of the trace, and remain_length hours of its start.
ReadRemain(r) ==
  /\ reader[r].pc = "remain"
  /\ Goto(r, [pc |-> "rest", hour |-> reader[r].hour, remain |-> RemainLength(idx)])

\* A bug: the pieces are joined the wrong way round.
FaultyReadRest(r) ==
  /\ reader[r].pc = "rest"
  /\ Goto(r, [pc   |-> "post", hour |-> reader[r].hour,
              prediction |-> Slice(0, reader[r].remain) \o Slice(idx, TraceLength)])

ReadRest(r) ==
  /\ reader[r].pc = "rest"
  /\ Goto(r, [pc   |-> "post", hour |-> reader[r].hour,
              prediction |-> Slice(idx, TraceLength) \o Slice(0, reader[r].remain)])

\* The user has answered, or could not be reached; an answer to a
\* registration has been sent.
Posted(r) ==
  /\ reader[r].pc = "post"
  /\ Goto(r, IF r[1] = "register" THEN Idle
             ELSE [pc |-> "done", hour |-> reader[r].hour,
                   prediction |-> reader[r].prediction])

Read(r) ==
  \/ PickUp(r) \/ ReadIntensity(r) \/ Fits(r)
  \/ ReadLow(r) \/ ReadHigh(r) \/ ReadRemain(r) \/ ReadRest(r)
  \/ Posted(r)

-----------------------------------------------------------------------------
(* The handlers                                                            *)

\* register_address: the row is committed before the answer is built.
Register(u) ==
  LET r == <<"register", u>> IN
  /\ reader[r] = Idle
  /\ users' = users \cup {u}
  /\ reader' = [reader EXCEPT ![r] = [pc |-> "intensity"]]
  /\ UNCHANGED <<window, idx, reset, loop, setting>>

\* set_trace_idx: the index, then the flag.
SetIndex(s, hour) ==
  /\ s \notin setting
  /\ idx' = hour
  /\ setting' = setting \cup {s}
  /\ UNCHANGED <<window, reset, users, loop, reader>>

SetFlag(s) ==
  /\ s \in setting
  /\ reset' = TRUE
  /\ setting' = setting \ {s}
  /\ UNCHANGED <<window, idx, users, loop, reader>>

-----------------------------------------------------------------------------
(* The loop                                                                *)

LoopGoto(pc) == loop' = [pc |-> pc, round |-> loop.round]

\* A push to every user in the table is handed to the pool.
Submitted(round) ==
  [r \in Readers |->
     IF r[1] = "register" THEN reader[r]
     ELSE IF r[2] \in round THEN [pc |-> "queued"] ELSE Idle]

Fetch ==
  /\ loop.pc = "fetch"
  /\ loop' = [pc |-> "wait", round |-> users]
  /\ reader' = Submitted(users)
  /\ UNCHANGED <<window, idx, reset, users, setting>>

\* A bug: the loop does not wait.
FaultyWait ==
  /\ loop.pc = "wait"
  /\ LoopGoto("sleep")
  /\ UNCHANGED <<window, idx, reset, users, reader, setting>>

\* wait(results): until every push of the round is done.
Wait ==
  /\ loop.pc = "wait"
  /\ \A u \in loop.round : reader[<<"push", u>>].pc = "done"
  /\ LoopGoto("sleep")
  /\ UNCHANGED <<window, idx, reset, users, reader, setting>>

\* A second has passed in which the flag was set, or they all have.
Wake ==
  /\ loop.pc = "sleep"
  /\ LoopGoto(IF reset THEN "clear" ELSE "read")
  /\ UNCHANGED <<window, idx, reset, users, reader, setting>>

\* A bug: the flag is left set.
FaultyClear ==
  /\ loop.pc = "clear"
  /\ LoopGoto("fetch")
  /\ UNCHANGED <<window, idx, reset, users, reader, setting>>

Clear ==
  /\ loop.pc = "clear"
  /\ reset' = FALSE
  /\ LoopGoto("fetch")
  /\ UNCHANGED <<window, idx, users, reader, setting>>

\* self._current_idx = (self._current_idx + 1) % self._trace_length, in two
\* steps: a set_index may come between them, and is then overwritten.
ReadIndex ==
  /\ loop.pc = "read"
  /\ loop' = [pc |-> "write", round |-> loop.round, hour |-> idx]
  /\ UNCHANGED <<window, idx, reset, users, reader, setting>>

\* A bug: the trace is not wrapped.
FaultyNextHour(hour) == hour + 1
NextHour(hour) == (hour + 1) % TraceLength

WriteIndex ==
  /\ loop.pc = "write"
  /\ idx' = NextHour(loop.hour)
  /\ LoopGoto("fetch")
  /\ UNCHANGED <<window, reset, users, reader, setting>>

LoopStep == Fetch \/ Wait \/ Wake \/ Clear \/ ReadIndex \/ WriteIndex

Next ==
  \/ LoopStep
  \/ \E r \in Readers : Read(r)
  \/ \E u \in Applicants : Register(u)
  \/ \E s \in Setters, hour \in Hours : SetIndex(s, hour)
  \/ \E s \in Setters : SetFlag(s)
  \/ Restart

(***************************************************************************)
(* Threads are scheduled and every post ends: requests.post has no         *)
(* timeout, so the last is what the agent relies on, not what it ensures.  *)
(***************************************************************************)
Spec ==
  /\ Init /\ [][Next]_vars
  /\ WF_vars(LoopStep)
  /\ \A r \in Readers : WF_vars(Read(r))
  /\ \A s \in Setters : WF_vars(SetFlag(s))

-----------------------------------------------------------------------------
\* How much of its window a message holds: predict_carbon_real goes back to the
\* start of the trace once, and stops at the end it then comes to.
Reach(hour) ==
  IF hour + window <= 2 * TraceLength THEN window ELSE 2 * TraceLength - hour

\* Each hour is followed by the next of the trace.
InOrder(hours) == \A n \in 1 .. Len(hours) - 1 : hours[n + 1] = NextHour(hours[n])

\* What a message should hold: the hours from the current one on.
HoursFrom(hour) == [n \in 1 .. Reach(hour) |-> (hour + n - 1) % TraceLength]

ReaderType(state) ==
  /\ state.pc \in {"idle", "queued", "intensity", "fits", "low", "high",
                   "remain", "rest", "post", "done"}
  /\ state.pc \in {"fits", "low", "high", "remain", "rest", "post", "done"} =>
       state.hour \in Hours
  /\ state.pc = "high" => state.low \in Hours
  /\ state.pc = "rest" => state.remain \in Int
  /\ state.pc \in {"post", "done"} => state.prediction \in Seq(Hours)

TypeOK ==
  /\ window \in Windows
  /\ idx \in Hours
  /\ reset \in BOOLEAN
  /\ users \subseteq Users
  /\ loop.pc \in {"fetch", "wait", "sleep", "clear", "read", "write"}
  /\ loop.round \subseteq users
  /\ loop.pc = "write" => loop.hour \in Hours
  /\ setting \subseteq Setters
  /\ DOMAIN reader = Readers
  /\ \A r \in Readers : ReaderType(reader[r])

\* Everyone the loop meant to tell was told the hour it is, and what follows.
RoundAnnounced ==
  loop.pc = "sleep" =>
    \A u \in loop.round :
      LET told == reader[<<"push", u>>] IN
      told.pc = "done" /\ told.hour = idx /\ told.prediction = HoursFrom(idx)

(***************************************************************************)
(* In every prediction, pushed or sent in answer to a registration, each   *)
(* hour is followed by the next of the trace: set_index and the loop may   *)
(* move the index between any two of the reads it is built from            *)
(* (carbon_service.py:161-167), which changes where it starts and how long *)
(* it is, but never leaves a gap in it.                                    *)
(***************************************************************************)
HoursInOrder ==
  \A r \in Readers :
    reader[r].pc \in {"post", "done"} => InOrder(reader[r].prediction)

StaysUp   == <>[][~Restart]_vars
SetsCease == <>[][~ \E s \in Setters, hour \in Hours : SetIndex(s, hour)]_vars

(***************************************************************************)
(* Whatever set_index did to the rounds it met, once nobody calls it any   *)
(* more every round tells every user the current hour and the hours from   *)
(* it on, across the end of the trace too, as many as the window asks for  *)
(* or as one return to the start of the trace yields: the loop waits for   *)
(* the pool before it moves on (carbon_service.py:122).                    *)
(***************************************************************************)
RoundsSettle == (StaysUp /\ SetsCease) => <>[]RoundAnnounced

(***************************************************************************)
(* And the hours of the trace follow each other for ever: a flag left by a *)
(* set_index that raced with the loop costs one repeated round, no more.   *)
(***************************************************************************)
HoursPass ==
  (StaysUp /\ SetsCease) => \A hour \in Hours : []<>(loop.pc = "sleep" /\ idx = hour)

(***************************************************************************)
(* An application registers once and is told again and again from then on, *)
(* after restarts of the agent too (carbon_service.py:118).                *)
(***************************************************************************)
PushesGoOn ==
  StaysUp =>
    \A u \in Users : u \in users ~> []<>(reader[<<"push", u>>].pc = "post")

=============================================================================
