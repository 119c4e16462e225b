----------------------------- MODULE PowerSupply -----------------------------
(***************************************************************************)
(* Batteries and mains adapters (power-supply.c, util-sysfs.c): what the    *)
(* attributes of a device in sysfs make of its energy.  An attribute is a   *)
(* number of Wh, Ah or V, or NaN when its file is missing or holds no       *)
(* number: sysfs_read_double_scaled returns NAN then.                       *)
(***************************************************************************)
EXTENDS PowerState, Sequences, SequencesExt

(* The attributes of a battery that are read, voltage_sources last. *)
EnergyAttributes == {"energy_now", "energy_full", "energy_full_design"}
ChargeAttributes == {"charge_now", "charge_full", "charge_full_design"}
VoltageSources ==
  <<"voltage_min_design", "voltage_max_design", "voltage_present", "voltage_now">>
Attributes == EnergyAttributes \cup ChargeAttributes \cup ToSet(VoltageSources)

(* val > 1.0 *)
Usable(v) == v # NaN /\ v > 1

(* Mutant of VoltageDesign: no estimate is made. *)
VoltageDesignRead(attr) ==
  LET usable == {i \in DOMAIN VoltageSources : Usable(attr[VoltageSources[i]])}
  IN  attr[IF usable = {} THEN "voltage_now" ELSE VoltageSources[Min(usable)]]

(* voltage_design_initialize: the first usable source, or an estimate. *)
VoltageDesign(attr) ==
  LET usable == {i \in DOMAIN VoltageSources : Usable(attr[VoltageSources[i]])}
  IN  IF usable = {} THEN 12 ELSE attr[VoltageSources[Min(usable)]]

(* Mutant of EnergyDesign: the capacity in Ah is taken for Wh. *)
EnergyDesignUndersized(attr) ==
  LET volts == VoltageDesign(attr)
      ByCharge == ~Usable(attr["energy_now"]) /\ Usable(attr["charge_now"])
  IN  [use_charge |-> ByCharge,
       voltage_design |-> volts,
       energy_full |->
         IF ByCharge THEN attr["charge_full"] ELSE attr["energy_full"],
       energy_full_design |->
         IF ByCharge THEN Times(attr["charge_full_design"], volts)
         ELSE attr["energy_full_design"]]

(* gbb_battery_constructed: whether the battery is read by energy or by     *)
(* charge, and its capacities, are settled once.  A battery below 1 Wh and  *)
(* 1 Ah is taken for one that reports energy, of no capacity.               *)
EnergyDesign(attr) ==
  LET volts == VoltageDesign(attr)
      ByEnergy == Usable(attr["energy_now"])
      ByCharge == ~ByEnergy /\ Usable(attr["charge_now"])
      Capacity(energy, charge) ==
        IF ByEnergy THEN attr[energy]
        ELSE IF ByCharge THEN Times(attr[charge], volts) ELSE 0
  IN  [use_charge |-> ByCharge,
       voltage_design |-> volts,
       energy_full |-> Capacity("energy_full", "charge_full"),
       energy_full_design |-> Capacity("energy_full_design", "charge_full_design")]

(* gbb_battery_poll *)
BatteryPoll(battery, attr) ==
  IF battery.use_charge
  THEN Times(attr["charge_now"], battery.voltage_design)
  ELSE attr["energy_now"]

(* gbb_mains_poll: the values it can return for the attribute "online".     *)
(* When that cannot be read the result is an uninitialised variable.        *)
MainsPoll(online) == IF online = NaN THEN BOOLEAN ELSE {online # 0}
=============================================================================
