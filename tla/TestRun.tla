------------------------------- MODULE TestRun -------------------------------
(***************************************************************************)
(* The data of one battery test (test-run.c): how long it lasts, the       *)
(* readings kept in its history, and the two decisions taken on them --     *)
(* whether a new reading is worth keeping and whether the test is over.     *)
(*                                                                         *)
(* Times are ticks of the monotonic clock since the run left WAITING (only  *)
(* differences of times are ever used) and charges are percent units.      *)
(* The code divides doubles; the comparisons are written multiplied out, a  *)
(* zero or negative divisor included.                                      *)
(***************************************************************************)
EXTENDS Integers, Sequences

CONSTANTS
  Tests,          \* the battery tests: [prologue, epilogue : BOOLEAN]
  Durations,      \* the durations a client can set: [type, limit]
  Percents,       \* the charges the battery can report
  MaxTime,        \* where the clock stands still
  TimeSamples,    \* 100 in test-run.c:194
  PercentSamples  \* 200 (1 / 0.005) in test-run.c:203

ASSUME TestsAssumption == Tests \subseteq [prologue : BOOLEAN, epilogue : BOOLEAN]
ASSUME DurationsAssumption == Durations \subseteq [type : {"TIME", "PERCENT"}, limit : Nat]
ASSUME PercentsAssumption == Percents \subseteq Nat
ASSUME SamplesAssumption ==
  /\ MaxTime \in Nat
  /\ TimeSamples \in Nat \ {0}
  /\ PercentSamples \in Nat \ {0}
(* The clock runs long enough for a reading to be kept after the limit. *)
ASSUME MaxTimeAssumption ==
  \A d \in Durations : d.type = "TIME" => TimeSamples * (MaxTime - d.limit) > d.limit

(* GbbPowerState: when it was read, whether AC is connected, the charge. *)
Reading == [time : 0..MaxTime, online : BOOLEAN, percent : Percents]

(* GbbTestRun.  dated: start_time, the wall-clock time, has been set. *)
Run == [test : Tests, duration : Durations, dated : BOOLEAN, history : Seq(Reading)]

NewRun(t, d) == [test |-> t, duration |-> d, dated |-> FALSE, history |-> <<>>]

StartState(r) == r.history[1]
LastState(r) == r.history[Len(r.history)]

(* Mutant: the limit of the other kind is read from the union. *)
IsDoneByPercent(r) == LastState(r).percent < r.duration.limit

(* gbb_test_run_is_done: meaningful only for a run with a reading, since    *)
(* the code dereferences the first and the last one unchecked.              *)
IsDone(r) ==
  IF r.duration.type = "TIME"
  THEN LastState(r).time - StartState(r).time > r.duration.limit
  ELSE LastState(r).percent < r.duration.limit

(* The quotient num / den of doubles exceeds 1 / n. *)
QuotientExceeds(num, den, n) ==
  \/ den > 0 /\ n * num > den
  \/ den = 0 /\ num > 0
  \/ den < 0 /\ n * num < den

(* Mutant: the distance is taken from the first reading, not the last kept. *)
UseStateFromStart(r, s) ==
  \/ r.history = <<>>
  \/ /\ r.history # <<>>
     /\ r.duration.type = "TIME"
     /\ TimeSamples * (s.time - StartState(r).time) > r.duration.limit

(* The decision of test_run_add_internal: the first reading is always kept, *)
(* a later one only when it is far enough from the last one kept.           *)
UseState(r, s) ==
  \/ r.history = <<>>
  \/ /\ r.history # <<>>
     /\ r.duration.type = "TIME"
     /\ TimeSamples * (s.time - LastState(r).time) > r.duration.limit
  \/ /\ r.history # <<>>
     /\ r.duration.type = "PERCENT"
     /\ QuotientExceeds(LastState(r).percent - s.percent,
                        StartState(r).percent - r.duration.limit,
                        PercentSamples)

(* gbb_test_run_add *)
Add(r, s) ==
  IF UseState(r, s) THEN [r EXCEPT !.history = Append(r.history, s)] ELSE r

(* The n readings of a run have used up at least n - 1 shares of the test:  *)
(* 1/TimeSamples of its time, or 1/PercentSamples of its charge.            *)
SharesUsedUp(r) ==
  LET kept == Len(r.history) - 1
      span == StartState(r).percent - r.duration.limit
  IN  r.history # <<>> =>
        /\ r.duration.type = "TIME" =>
             TimeSamples * (LastState(r).time - StartState(r).time)
               >= kept * r.duration.limit
        /\ r.duration.type = "PERCENT" /\ span > 0 =>
             PercentSamples * (StartState(r).percent - LastState(r).percent)
               >= kept * span

(* gbb_test_run_set_start_time *)
SetStartTime(r) == [r EXCEPT !.dated = TRUE]
==============================================================================
