----------------------------- MODULE PowerState -----------------------------
(***************************************************************************)
(* The readings of the power monitor (GbbPowerState) and what is computed   *)
(* from a pair of them (gbb_power_statistics_compute), as power-monitor.c   *)
(* does: energies are doubles that may be NaN, times are ticks of the       *)
(* monotonic clock.  A quotient of doubles is a pair [num, den], den > 0;   *)
(* -1 stands for "not known" in both, as in the code.  voltage_now and the  *)
(* statistics' current are never anything but -1 and are left out.          *)
(***************************************************************************)
EXTENDS Integers

CONSTANTS
  NaN,      \* the double that is no number
  Hour,     \* ticks in an hour: watts are watt-hours per hour
  Period    \* ticks in UPDATE_FREQUENCY, power-monitor.c:11

ASSUME NaNAssumption == NaN \notin Int
ASSUME TicksAssumption == Hour \in Nat \ {0} /\ Period \in Nat \ {0}

(* v >= 0 in C: false for NaN. *)
Known(v) == v # NaN /\ v >= 0
Positive(v) == v # NaN /\ v > 0

Plus(a, b) == IF NaN \in {a, b} THEN NaN ELSE a + b
Times(a, b) == IF NaN \in {a, b} THEN NaN ELSE a * b

(* a == b in C: NaN differs from everything, itself included. *)
SameDouble(a, b) == a = b /\ a # NaN

(* gbb_power_state_init *)
NewState ==
  [time |-> 0, online |-> FALSE,
   energy_now |-> -1, energy_full |-> -1, energy_full_design |-> -1]

(* gbb_power_state_equal *)
SameState(a, b) ==
  /\ a.online = b.online
  /\ SameDouble(a.energy_now, b.energy_now)
  /\ SameDouble(a.energy_full, b.energy_full)
  /\ SameDouble(a.energy_full_design, b.energy_full_design)

-----------------------------------------------------------------------------
Quotient(n, d) == [num |-> n, den |-> d]
Unknown == Quotient(-1, 1)
Zero == Quotient(0, 1)

AtMost(q1, q2) == q1.num * q2.den <= q2.num * q1.den

(* Mutant of Larger: the later one is taken. *)
LargerLatest(q1, q2) == q1

(* MAX *)
Larger(q1, q2) == IF AtMost(q1, q2) THEN q2 ELSE q1

(* The energy used between two readings, if any is known to be. *)
EnergyUsed(base, current) ==
  IF NaN \in {base.energy_now, current.energy_now} THEN 0
  ELSE base.energy_now - current.energy_now

(* Life of an amount of energy at the rate it is used up between the two. *)
Life(base, current, amount) ==
  IF Known(amount)
  THEN Quotient(amount * (current.time - base.time), EnergyUsed(base, current))
  ELSE Unknown

(* gbb_power_statistics_compute: watts and ticks, all unknown when the      *)
(* readings are too close or no energy has been used in between.            *)
Statistics(base, current) ==
  LET elapsed == current.time - base.time
      used == EnergyUsed(base, current)
  IN  IF elapsed >= Period /\ used > 0
      THEN [power |-> Quotient(used * Hour, elapsed),
            battery_life |-> Life(base, current, base.energy_full),
            battery_life_design |-> Life(base, current, base.energy_full_design)]
      ELSE [power |-> Unknown, battery_life |-> Unknown,
            battery_life_design |-> Unknown]
=============================================================================
