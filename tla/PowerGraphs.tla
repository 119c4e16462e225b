----------------------------- MODULE PowerGraphs -----------------------------
(***************************************************************************)
(* The life of a run's data: the running test adds readings (test-run.c),   *)
(* the run is written to its file, perhaps several times, and read back at  *)
(* a later start, and the power graphs (power-graphs.c) show the live run   *)
(* or one that was read back.  A write that is cut short leaves a text that *)
(* is no JSON (Scratch); users may spoil a file with an editor.             *)
(***************************************************************************)
EXTENDS RunFile

CONSTANTS
  LoopTimes,     \* how long the loop file of a test can last
  Gaps,          \* the times between readings
  Energies,      \* what the battery can be found to hold, NaN included
  Capacities,    \* [full, design]: a number, NaN or -1
  MaxReadings,   \* bound: the readings taken of a run
  Minute,        \* ticks in a minute
  NoRun,         \* graphs->run == NULL, or no run has been read
  NoFile, Scratch

ASSUME GapsAssumption == Gaps \subseteq Nat \ {0}
ASSUME LoopTimesAssumption == LoopTimes \subseteq Nat
ASSUME EnergiesAssumption == Energies \subseteq Nat \cup {NaN}
ASSUME CapacitiesAssumption ==
  Capacities \subseteq [full : Nat \cup {NaN, -1}, design : Nat \cup {NaN, -1}]
ASSUME BoundsAssumption == MaxReadings \in Nat /\ Minute \in Nat \ {0}
(* Two polls of the monitor are at most five minutes apart. *)
ASSUME PeriodAssumption == Period <= 5 * Minute

(* GbbPowerState and GbbTestRun *)
Reading ==
  LET Value == Int \cup {NaN}
  IN  [time : Nat, online : BOOLEAN, energy_now : Value,
       energy_full : Value, energy_full_design : Value]

Extreme == [num : Nat, den : Nat \ {0}]

Run == [duration : Durations, loop_time : LoopTimes \cup {0}, history : Seq(Reading),
        max_power : Extreme, max_life : Extreme]

ASSUME NoRunAssumption == NoRun \notin Run

VARIABLES
  run,      \* the live run
  readings, \* the number of readings it was offered
  file,     \* its file
  loaded,   \* the run that was read back from it
  shown,    \* GbbPowerGraphs.run: "none", "live" or "loaded"
  ranges    \* GbbPowerGraphs.max_x, max_y_power, max_y_life

vars == <<run, readings, file, loaded, shown, ranges>>

-----------------------------------------------------------------------------
TimeSteps == <<5, 6, 10, 12, 15, 20, 30, 40, 60, 120, 300, 600, 900, 1440>>
PowerSteps == <<5, 10, 15, 20, 30, 50>>

(* The first step that is not below q, or the last resort. *)
RoundUp(q, steps, unit, top) ==
  LET above == {i \in DOMAIN steps : AtMost(q, Quotient(steps[i] * unit, 1))}
  IN  unit * (IF above = {} THEN top ELSE steps[Min(above)])

(* round_up_time *)
RoundUpTime(q) == RoundUp(q, TimeSteps, Minute, 2880)

OrElse(q, default) == IF q.num = 0 THEN Quotient(default, 1) ELSE q

(* The time axis of update_chart_ranges: the time limit and the loop that   *)
(* outlasts it, or the time the battery will last.                          *)
RangeOfTime(r) ==
  IF r.duration.type = "TIME"
  THEN RoundUpTime(Quotient(r.duration.limit + r.loop_time, 1))
  ELSE IF Len(r.history) < 2 THEN 300 * Minute
  ELSE RoundUpTime(Statistics(T!StartState(r), T!LastState(r)).battery_life)

(* update_chart_ranges *)
UpdateChartRanges(r) ==
  [max_x |-> IF r = NoRun THEN 60 * Minute ELSE RangeOfTime(r),
   max_y_power |->
     RoundUp(OrElse(IF r = NoRun THEN Zero ELSE r.max_power, 10), PowerSteps, 1, 100),
   max_y_life |->
     RoundUpTime(OrElse(IF r = NoRun THEN Zero ELSE r.max_life, 300 * Minute))]

(* A reading whose charge is known *)
Charged(s) == Known(s.energy_now) /\ Known(s.energy_full) /\ s.energy_full # 0

(* The points that on_chart_area_draw connects in the three charts: those   *)
(* of the second reading and later ones.                                    *)
Curve(r) ==
  {[x |-> r.history[i].time - r.history[1].time,
    power |-> Statistics(r.history[i - 1], r.history[i]).power,
    percent |-> Percent(r.history[i]),
    charged |-> Charged(r.history[i]),
    life |-> Statistics(r.history[1], r.history[i]).battery_life] :
   i \in 2..Len(r.history)}

-----------------------------------------------------------------------------
Shown(which) == IF which = "live" THEN run ELSE IF which = "loaded" THEN loaded ELSE NoRun

Init ==
  /\ \E d \in Durations, l \in LoopTimes : run = NewRun(d, l)
  /\ readings = 0
  /\ file = NoFile
  /\ loaded = NoRun
  /\ shown = "none"
  /\ ranges = UpdateChartRanges(NoRun)

(* on_run_updated, if the graphs show the run *)
OnRunUpdated(r) ==
  ranges' = IF shown = "live" THEN UpdateChartRanges(r) ELSE ranges

(* gbb_test_run_add.  The capacities of a machine's batteries do not change *)
(* while its monitor lives.                                                 *)
AddReading ==
  /\ readings < MaxReadings
  /\ readings' = readings + 1
  /\ \E gap \in Gaps, on \in BOOLEAN, e \in Energies, c \in Capacities :
       LET last == T!LastState(run)
           s == [time |-> IF run.history = <<>> THEN 0 ELSE last.time + gap,
                 online |-> on, energy_now |-> e,
                 energy_full |-> c.full, energy_full_design |-> c.design]
       IN  /\ run.history # <<>> =>
                /\ c = [full |-> last.energy_full, design |-> last.energy_full_design]
                /\ s.time <= MaxTime
           /\ run' = Add(run, s)
           /\ OnRunUpdated(Add(run, s))
  /\ UNCHANGED <<file, loaded, shown>>

(* The two replacements of gbb_test_run_write_to_file, or only the first.   *)
Write ==
  /\ run.history # <<>>
  /\ file' \in {WriteToFile(run), Scratch}
  /\ UNCHANGED <<run, readings, loaded, shown, ranges>>

Spoil ==
  /\ file \notin {NoFile, Scratch}
  /\ \E i \in DOMAIN file.log : file' = [file EXCEPT !.log[i] = Wrong]
  /\ UNCHANGED <<run, readings, loaded, shown, ranges>>

(* gbb_test_run_new_from_file, at a start of the application *)
Read ==
  /\ shown # "loaded" /\ file # NoFile
  /\ LET runs == IF file = Scratch THEN {} ELSE ReadFromFile(file)
     IN  IF runs = {} THEN loaded' = NoRun ELSE loaded' \in runs
  /\ UNCHANGED <<run, readings, file, shown, ranges>>

(* gbb_power_graphs_set_test_run *)
SetTestRun(which) ==
  /\ which = "loaded" => loaded # NoRun
  /\ shown # which
  /\ shown' = which
  /\ ranges' = UpdateChartRanges(Shown(which))
  /\ UNCHANGED <<run, readings, file, loaded>>

Next ==
  \/ AddReading
  \/ Write
  \/ Spoil
  \/ Read
  \/ \E which \in {"none", "live", "loaded"} : SetTestRun(which)

Spec == Init /\ [][Next]_vars

-----------------------------------------------------------------------------
TypeOK ==
  /\ run \in Run
  /\ readings \in 0..MaxReadings
  /\ loaded \in Run \cup {NoRun}
  /\ shown \in {"none", "live", "loaded"}
  /\ shown = "loaded" => loaded # NoRun

(* A known value as the file rounds it, -1 for one that is not known. *)
Stored(v) == IF Known(v) THEN Micro * ToMicro(v) ELSE -1

(* The first n readings of a run, dated from the first, as rounded. *)
Expected(r, n) ==
  [i \in 1..n |->
     [time |-> Ms * ((Ms \div 2 + r.history[i].time - r.history[1].time) \div Ms),
      online |-> r.history[i].online,
      energy_now |-> Stored(r.history[i].energy_now),
      energy_full |-> Stored(r.history[i].energy_full),
      energy_full_design |-> Stored(r.history[i].energy_full_design)]]

(* The first n readings are spaced so widely that rounding cannot bring one *)
(* below the threshold of the filter, and their energies are known.         *)
WellSpaced(r, n) ==
  /\ \A i \in 1..n : Known(r.history[i].energy_now)
  /\ \A i \in 2..n :
       IF r.duration.type = "TIME"
       THEN TimeSamples * (r.history[i].time - r.history[i - 1].time - Ms) >= r.duration.limit
       ELSE r.history[i].energy_now % Micro = 0 /\ r.history[1].energy_now % Micro = 0
  /\ \A i \in 1..n : Known(r.history[i].energy_full) => r.history[i].energy_full % Micro = 0

(* What is written can be read back: reading a file gives the readings that *)
(* the run had when it was written, to the precision of the file, although  *)
(* most members are left out, the reader starts from the reading before and *)
(* the filter is applied a second time -- provided that no rounded reading  *)
(* falls to the filter (test-run.c:374-402, 675-697).  Otherwise a reading  *)
(* and the memory of one are lost; but what is kept is still no more than   *)
(* was written, at the times it was written for.                            *)
ReadBackFaithful ==
  file \notin {NoFile, Scratch} /\ (\A i \in DOMAIN file.log : file.log[i] # Wrong) =>
    LET n == Len(file.log)
    IN  \A r \in ReadFromFile(file) :
          /\ r.duration = run.duration
          /\ WellSpaced(run, n) => r.history = Expected(run, n)
          /\ \A j \in DOMAIN r.history : \E i \in j..n :
               /\ r.history[j].time = Expected(run, n)[i].time
               /\ Known(run.history[i].energy_now) =>
                    r.history[j].energy_now = Expected(run, n)[i].energy_now

(* A run whose limit is below its first charge, read with known energies.  *)
Discharging(r) ==
  LET start == Percent(T!StartState(r)) IN
  r.duration.type = "PERCENT" =>
    /\ start # NaN
    /\ ~AtMost(start, Quotient(r.duration.limit, 1))
    /\ T!StartState(r).energy_now <= T!StartState(r).energy_full

(* The battery is never found to hold more than any capacity it can have. *)
NeverOverfull ==
  \A e \in Energies, c \in Capacities : Known(e) /\ Known(c.full) => e <= c.full

(* What is known of the run that is shown is drawn inside the charts, at    *)
(* all four edges: as the readings come in, the axes of power and life have *)
(* grown with the extremes that test_run_add_internal keeps, up to their    *)
(* last steps of 100 W and 48 h; no point lies before the first reading,    *)
(* and the time axis covers the run up to the end of the loop in which its  *)
(* limit passes, or the life of the battery (power-graphs.c:84-146,         *)
(* test-run.c:217-226).  The chart of the charge ends at 0 and 100 %: a run *)
(* that is limited by charge stays inside if it started inside, any other   *)
(* if the battery is never overfull, even after what the file and the       *)
(* reader made of it.  A figure that is not known is -1, and the code draws *)
(* it all the same, below the chart (power-graphs.c:262-293).               *)
CurveInsideChart ==
  shown # "none" =>
    LET r == Shown(shown)
        Inside(q, top, last) ==
          AtMost(Zero, q) /\ (AtMost(q, Quotient(top, 1)) \/ top = last)
        Covered(p) ==
          \/ r.duration.type = "TIME" /\ p.x <= r.duration.limit + r.loop_time
          \/ r.duration.type = "PERCENT" /\ Discharging(r)
        Sound(p) ==
          \/ p.charged /\ NeverOverfull
          \/ r.duration.type = "PERCENT" /\ Discharging(r)
    IN  \A p \in Curve(r) :
          /\ p.power # Unknown => Inside(p.power, ranges.max_y_power, 100)
          /\ p.life # Unknown => Inside(p.life, ranges.max_y_life, 2880 * Minute)
          /\ Sound(p) => /\ p.charged
                         /\ AtMost(Zero, p.percent) /\ AtMost(p.percent, Quotient(100, 1))
          /\ p.x >= 0
          /\ Covered(p) => p.x <= ranges.max_x \/ ranges.max_x = 2880 * Minute

(* The battery reports whole millionths of a Wh.  (What Linux calls         *)
(* energy_now and energy_full is; a charge times a voltage need not be.)    *)
WholeMicros ==
  LET Whole(v) == Known(v) => v % Micro = 0
  IN  (\A e \in Energies : Whole(e)) /\ (\A c \in Capacities : Whole(c.full))
=============================================================================
