--------------------------- MODULE MCPowerMonitor ---------------------------
(* An instance of PowerMonitor: a battery that reports energy, in use, of   *)
(* no known design or nearly empty, and one that reports charge, with a     *)
(* design voltage or nearly empty and with none.                            *)
EXTENDS PowerMonitor

Attrs(values) ==
  [a \in Attributes |-> IF a \in DOMAIN values THEN values[a] ELSE NaN]

EnergyKinds ==
  {Attrs([energy_now |-> 3, energy_full |-> 4, energy_full_design |-> 5]),
   Attrs([energy_now |-> 3, energy_full |-> 4]),
   Attrs([energy_now |-> 1, energy_full |-> 4, energy_full_design |-> 5])}

ChargeKinds ==
  {Attrs([charge_now |-> 3, charge_full |-> 4, charge_full_design |-> 5,
          voltage_min_design |-> 3, voltage_now |-> 4]),
   Attrs([charge_now |-> 1, charge_full |-> 4, charge_full_design |-> 5])}

MCKinds == <<EnergyKinds, ChargeKinds>>
MCLevels == {NaN, 0, 2, 4}

(* What PredictionCoversElapsed is proved from holds of this instance. *)
ASSUME NeverOverfullAssumption == NeverOverfull
=============================================================================
