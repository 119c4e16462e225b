---------------------------- MODULE PowerMonitor ----------------------------
(***************************************************************************)
(* GbbPowerMonitor (power-monitor.c) over the supplies of power-supply.c,   *)
(* with the simplest of its clients, "gbb monitor" (commandline.c), which   *)
(* computes statistics from the first reading on battery to the current     *)
(* one.  The kernel changes the attributes at any time between two polls:   *)
(* batteries drain, are charged, are taken out (nothing can be read) and    *)
(* come back.                                                               *)
(***************************************************************************)
EXTENDS PowerSupply

CONSTANTS
  Kinds,       \* for each battery, in the order of the monitor's list,
               \*   the set of the attributes it can have at the start
  Levels,      \* the values energy_now and charge_now take
  Adapters,    \* the mains adapters
  MaxTime      \* bound: the ticks the monitor runs for

Batteries == DOMAIN Kinds
Attr == [Attributes -> Nat \cup {NaN}]

ASSUME KindsAssumption ==
  /\ Kinds \in Seq(SUBSET Attr)
  /\ Kinds # <<>> /\ Adapters # {}     \* find_power_supplies gives up otherwise
ASSUME LevelsAssumption == Levels \subseteq Nat \cup {NaN}
ASSUME MaxTimeAssumption == MaxTime \in Nat

VARIABLES
  sysfs,          \* the attributes of the batteries
  mains,          \* the attribute "online" of the adapters
  batteries,      \* what each GbbBattery has settled when constructed
  current_state,  \* GbbPowerMonitor.current_state
  start_state,    \* commandline.c: start_state, NULL as NewState
  clock,          \* g_get_monotonic_time
  polled          \* auxiliary: the attributes at the last poll

vars == <<sysfs, mains, batteries, current_state, start_state, clock, polled>>

Energies == Int \cup {NaN}
State == [time : 0..MaxTime, online : BOOLEAN, energy_now : Energies,
          energy_full : Energies, energy_full_design : Energies]
Battery == [use_charge : BOOLEAN, voltage_design : Nat,
            energy_full : Nat \cup {NaN}, energy_full_design : Nat \cup {NaN}]

TypeOK ==
  /\ sysfs \in [Batteries -> Attr]
  /\ mains \in [Adapters -> {0, 1, NaN}]
  /\ batteries \in [Batteries -> Battery]
  /\ current_state \in State
  /\ start_state \in State
  /\ clock \in 0..MaxTime
  /\ polled.sysfs \in [Batteries -> Attr] /\ polled.mains \in [Adapters -> {0, 1, NaN}]

-----------------------------------------------------------------------------
(* add_to *)
AddTo(total, increment) ==
  IF Known(total) THEN Plus(total, increment) ELSE increment

(* The loop of read_state adds the batteries in the order of the list. *)
SumUp(values) ==
  LET total[n \in 0..Len(values)] ==
        IF n = 0 THEN -1 ELSE AddTo(total[n - 1], values[n])
  IN  total[Len(values)]

(* Mutant of AddDesign: a battery whose design energy is unknown is skipped. *)
AddDesignSkipping(n_batteries, total, design) ==
  IF ~Known(design) THEN total ELSE AddTo(total, design)

(* The design energies: unknown for good once one battery's is.             *)
AddDesign(n_batteries, total, design) ==
  IF ~Known(design) THEN -1
  ELSE IF n_batteries = 0 \/ Known(total) THEN AddTo(total, design)
  ELSE total

SumUpDesign(values) ==
  LET total[n \in 0..Len(values)] ==
        IF n = 0 THEN -1 ELSE AddDesign(n - 1, total[n - 1], values[n])
  IN  total[Len(values)]

Polls(bats, attrs) == [b \in Batteries |-> BatteryPoll(bats[b], attrs[b])]

(* read_state: the readings that the attributes can give. *)
ReadState(bats, attrs, onlines, now) ==
  {[time |-> now,
    online |-> \E a \in Adapters : o[a],
    energy_now |-> SumUp(Polls(bats, attrs)),
    energy_full |-> SumUp([b \in Batteries |-> bats[b].energy_full]),
    energy_full_design |->
      SumUpDesign([b \in Batteries |-> bats[b].energy_full_design])] :
   o \in {f \in [Adapters -> BOOLEAN] : \A a \in Adapters : f[a] \in MainsPoll(onlines[a])}}

(* gbb_power_monitor_new, called by monitor() *)
Init ==
  /\ sysfs \in {f \in [Batteries -> UNION {Kinds[b] : b \in Batteries}] :
                  \A b \in Batteries : f[b] \in Kinds[b]}
  /\ mains \in [Adapters -> {0, 1}]
  /\ batteries = [b \in Batteries |-> EnergyDesign(sysfs[b])]
  /\ clock = 0
  /\ current_state \in ReadState(batteries, sysfs, mains, 0)
  /\ start_state = NewState
  /\ polled = [sysfs |-> sysfs, mains |-> mains]

-----------------------------------------------------------------------------
(* The kernel: a battery's charge changes or can no longer be read, or AC   *)
(* is connected or disconnected.  A battery's driver keeps reporting either *)
(* energies or charges.                                                     *)
Reports(b) == IF sysfs[b]["energy_full"] # NaN THEN "energy_now" ELSE "charge_now"

Drain(b) ==
  /\ \E v \in Levels : sysfs' = [sysfs EXCEPT ![b][Reports(b)] = v]
  /\ UNCHANGED <<mains, batteries, current_state, start_state, clock, polled>>

PlugMains(a) ==
  /\ \E v \in {0, 1, NaN} : mains' = [mains EXCEPT ![a] = v]
  /\ UNCHANGED <<sysfs, batteries, current_state, start_state, clock, polled>>

(* on_power_monitor_changed of "gbb monitor": the statistics start with the *)
(* first reading on battery that is signalled.                              *)
OnPowerMonitorChanged(s) ==
  start_state' = IF start_state = NewState /\ ~s.online THEN s ELSE start_state

(* Mutant of PollTo: the time is compared, too. *)
PollToTimed(s) ==
  IF s = current_state
  THEN UNCHANGED <<current_state, start_state>>
  ELSE current_state' = s /\ OnPowerMonitorChanged(s)

(* update_timeout, given the reading: one that equals the current one is    *)
(* dropped, and the time of the current one is then that of the last change.*)
PollTo(s) ==
  IF SameState(current_state, s)
  THEN UNCHANGED <<current_state, start_state>>
  ELSE current_state' = s /\ OnPowerMonitorChanged(s)

UpdateTimeout ==
  /\ clock + Period <= MaxTime
  /\ clock' = clock + Period
  /\ \E s \in ReadState(batteries, sysfs, mains, clock + Period) : PollTo(s)
  /\ polled' = [sysfs |-> sysfs, mains |-> mains]
  /\ UNCHANGED <<sysfs, mains, batteries>>

Next ==
  \/ \E b \in Batteries : Drain(b)
  \/ \E a \in Adapters : PlugMains(a)
  \/ UpdateTimeout

Spec == Init /\ [][Next]_vars /\ WF_vars(UpdateTimeout)

-----------------------------------------------------------------------------
(* What a poll of the attributes in "polled" finds. *)
PolledEnergies == Polls(batteries, polled.sysfs)
AllReadable == \A b \in Batteries : PolledEnergies[b] # NaN
AdaptersReadable == \A a \in Adapters : polled.mains[a] # NaN

(* No battery was empty, or without a capacity, when the monitor was made. *)
CapacitiesKnown == \A b \in Batteries : Positive(batteries[b].energy_full)

(* The levels a battery is ever found at are within its capacity. *)
NeverOverfull ==
  LET Within(now, full) == NaN \in {now, full} \/ now <= full
  IN  \A b \in Batteries : \A attr \in Kinds[b] :
        /\ Within(attr["energy_now"], attr["energy_full"])
        /\ Within(attr["charge_now"], attr["charge_full"])
        /\ \A v \in Levels : /\ Within(v, attr["energy_full"])
                             /\ Within(v, attr["charge_full"])

(* The sum of the values of the batteries in S. *)
SumOver(S, values) ==
  LET sum[n \in 0..Len(values)] ==
        IF n = 0 THEN 0 ELSE sum[n - 1] + (IF n \in S THEN values[n] ELSE 0)
  IN  sum[Len(values)]

(* What the monitor reports after any poll is what the batteries hold: the  *)
(* sum over all of them when each can be read; when some cannot, the energy *)
(* is no number or leaves batteries out, and never says more than the       *)
(* readable ones hold.  The design energy is all batteries' or unknown.     *)
(* (power-monitor.c:129-136 and 179-204, over readings the code has kept    *)
(* while gbb_power_state_equal found nothing new.)                          *)
EnergyAccounted ==
  LET readable == {b \in Batteries : PolledEnergies[b] # NaN}
      designs == [b \in Batteries |-> batteries[b].energy_full_design]
  IN  /\ AllReadable =>
           current_state.energy_now = SumOver(Batteries, PolledEnergies)
      /\ current_state.energy_now # NaN =>
           current_state.energy_now <= SumOver(readable, PolledEnergies)
      /\ current_state.energy_full_design =
           IF \A b \in Batteries : designs[b] # NaN
           THEN SumOver(Batteries, designs) ELSE -1

(* With batteries that had a capacity at the start, and never hold more     *)
(* than that, the charge is at most 100% and the predicted life of a full   *)
(* battery covers the time that has been spent on it, whatever has become   *)
(* unreadable or been charged in between: the division by the capacity      *)
(* (power-monitor.c:49, 264-267) and the energy used are sane.              *)
PredictionCoversElapsed ==
  LET life == Statistics(start_state, current_state).battery_life
      elapsed == current_state.time - start_state.time
  IN  CapacitiesKnown =>
        /\ Known(current_state.energy_now) =>
             current_state.energy_now <= current_state.energy_full
        /\ start_state # NewState /\ life # Unknown =>
             AtMost(Quotient(elapsed, 1), life)

(* The monitor is quiet while nothing changes: "changed" is signalled only  *)
(* after an attribute changed since the last poll, or while something       *)
(* cannot be read.  (A single unreadable battery, last in the list, makes   *)
(* NaN differ from NaN and every poll a change.)                            *)
QuietWhenSteady ==
  [][current_state' # current_state =>
       \/ polled' # polled
       \/ ~AllReadable' \/ ~AdaptersReadable'
       \/ NaN \in {batteries[b].energy_full : b \in Batteries}]_vars
=============================================================================
