------------------------------- MODULE RunFile -------------------------------
(***************************************************************************)
(* A test run as GbbTestRun keeps it (test-run.c): the readings with the    *)
(* extremes of the graphs, the JSON file they are written to, and the run   *)
(* that is read back from that file.                                        *)
(*                                                                         *)
(* Times are ticks, Ms of them a millisecond of the file; energies are      *)
(* units, Micro of them a millionth of a Wh of the file.  A value or a      *)
(* member is written only when it is known and, but for time and energy,    *)
(* differs from the reading before; a reader starts from the reading before.*)
(* A wrong type of a member fails the reading of the file, as Wrong does.   *)
(***************************************************************************)
EXTENDS PowerState, Sequences, SequencesExt

CONSTANTS
  Durations,       \* [type : {"TIME", "PERCENT"}, limit : Nat]
  MaxTime,         \* bound: the last time of a reading
  TimeSamples,     \* 100 in test-run.c:194
  PercentSamples,  \* 200 (1 / 0.005) in test-run.c:203
  Ms, Micro,       \* ticks in a millisecond, units in a millionth of a Wh
  Missing,         \* a member that the file does not have
  Wrong            \* an element of the file that is no object

ASSUME DurationsAssumption == Durations \subseteq [type : {"TIME", "PERCENT"}, limit : Nat]
ASSUME SamplesAssumption == TimeSamples \in Nat \ {0} /\ PercentSamples \in Nat \ {0}
ASSUME UnitsAssumption == Ms \in Nat \ {0} /\ Micro \in Nat \ {0}
ASSUME MissingAssumption == Missing \notin Int \cup BOOLEAN

T == INSTANCE TestRun WITH Tests <- {}, Percents <- {}

(* gbb_test_run_new, and what a client sets of it.  loop_time: how long the *)
(* loop file lasts.                                                         *)
NewRun(d, loop_time) ==
  [duration |-> d, loop_time |-> loop_time, history |-> <<>>,
   max_power |-> Zero, max_life |-> Zero]

(* gbb_power_state_get_percent, a quotient or NaN *)
Percent(s) ==
  IF NaN \in {s.energy_now, s.energy_full} \/ s.energy_full = 0 THEN NaN
  ELSE IF s.energy_full > 0 THEN Quotient(100 * s.energy_now, s.energy_full)
  ELSE Quotient(-100 * s.energy_now, -s.energy_full)

Minus(p, q) == Quotient(p.num * q.den - q.num * p.den, p.den * q.den)

(* The decision of test_run_add_internal, over energies (TestRun states it  *)
(* over whole percents).                                                    *)
UseState(r, s) ==
  LET start == Percent(T!StartState(r))
      last == Percent(T!LastState(r))
      current == Percent(s)
      used == Minus(last, current)
      span == Minus(start, Quotient(r.duration.limit, 1))
  IN  \/ r.history = <<>>
      \/ /\ r.history # <<>> /\ r.duration.type = "TIME"
         /\ TimeSamples * (s.time - T!LastState(r).time) > r.duration.limit
      \/ /\ r.history # <<>> /\ r.duration.type = "PERCENT"
         /\ NaN \notin {start, last, current}
         /\ T!QuotientExceeds(used.num * span.den, span.num * used.den, PercentSamples)

(* Mutant of Add: the power is taken from the start, not over the interval. *)
AddOverall(r, s) ==
  IF ~UseState(r, s) THEN r
  ELSE IF r.history = <<>> THEN [r EXCEPT !.history = <<s>>]
  ELSE LET overall == Statistics(T!StartState(r), s)
       IN  [r EXCEPT !.history = Append(@, s),
                     !.max_life = Larger(overall.battery_life, @),
                     !.max_power = Larger(overall.power, @)]

(* test_run_add_internal: the extremes of the graphs are kept up to date. *)
Add(r, s) ==
  IF ~UseState(r, s) THEN r
  ELSE IF r.history = <<>> THEN [r EXCEPT !.history = <<s>>]
  ELSE [r EXCEPT !.history = Append(@, s),
                 !.max_life = Larger(Statistics(T!StartState(r), s).battery_life, @),
                 !.max_power = Larger(Statistics(T!LastState(r), s).power, @)]

-----------------------------------------------------------------------------
(* add_int_value_1e6, for a value that is known *)
ToMicro(v) == (Micro \div 2 + v) \div Micro

(* Mutant of LogElement: AC is written only when it is connected. *)
LogElementOnline(history, i) ==
  LET s == history[i] IN
  [time_ms |-> (Ms \div 2 + s.time - history[1].time) \div Ms,
   online |-> IF s.online THEN TRUE ELSE Missing,
   energy |-> IF Known(s.energy_now) THEN ToMicro(s.energy_now) ELSE Missing,
   energy_full |-> IF i = 1 /\ Known(s.energy_full) THEN ToMicro(s.energy_full) ELSE Missing,
   energy_full_design |->
     IF i = 1 /\ Known(s.energy_full_design) THEN ToMicro(s.energy_full_design) ELSE Missing]

(* One element of "log", gbb_test_run_write_to_file *)
LogElement(history, i) ==
  LET s == history[i]
      Changed(member) == i = 1 \/ s[member] # history[i - 1][member]
      Energy(member) ==
        IF Known(s[member]) /\ Changed(member) THEN ToMicro(s[member]) ELSE Missing
  IN  [time_ms |-> (Ms \div 2 + s.time - history[1].time) \div Ms,
       online |-> IF Changed("online") THEN s.online ELSE Missing,
       energy |-> IF Known(s.energy_now) THEN ToMicro(s.energy_now) ELSE Missing,
       energy_full |-> Energy("energy_full"),
       energy_full_design |-> Energy("energy_full_design")]

(* gbb_test_run_write_to_file.  The statistics are for other consumers and  *)
(* there only when the run has two readings and used some energy.           *)
WriteToFile(r) ==
  [duration |-> r.duration,
   power |-> IF Len(r.history) > 1
             THEN Statistics(T!StartState(r), T!LastState(r)).power ELSE Unknown,
   log |-> [i \in 1..Len(r.history) |-> LogElement(r.history, i)]]

(* get_int, get_int_1e6, get_boolean: a missing member leaves the value. *)
Member(v, old, scale) ==
  IF v = Missing THEN old ELSE IF scale = 1 THEN v ELSE v * scale

ReadElement(last, e) ==
  [time |-> Member(e.time_ms, last.time, Ms),
   online |-> Member(e.online, last.online, 1),
   energy_now |-> Member(e.energy, last.energy_now, Micro),
   energy_full |-> Member(e.energy_full, last.energy_full, Micro),
   energy_full_design |-> Member(e.energy_full_design, last.energy_full_design, Micro)]

(* What is found in a reading that has been freed: what it was but for its  *)
(* first words, or a new reading that has got its memory.                   *)
Freed(s) == {[s EXCEPT !.online = b] : b \in BOOLEAN} \cup {NewState}

(* One element read: test_run_add_internal frees a reading it has no use    *)
(* for, but read_from_file starts the next one from it (test-run.c:694).    *)
ReadStep(accs, e) ==
  UNION {LET s == ReadElement(acc.last, e)
         IN  {[run |-> Add(acc.run, s), last |-> l] :
              l \in IF UseState(acc.run, s) THEN {s} ELSE Freed(s)} : acc \in accs}

(* read_from_file: the runs it may produce; none if an element is wrong.    *)
ReadFromFile(f) ==
  LET read[n \in 0..Len(f.log)] ==
        IF n = 0 THEN {[run |-> NewRun(f.duration, 0), last |-> NewState]}
        ELSE ReadStep(read[n - 1], f.log[n])
  IN  IF \E i \in DOMAIN f.log : f.log[i] = Wrong THEN {}
      ELSE {acc.run : acc \in read[Len(f.log)]}
=============================================================================
