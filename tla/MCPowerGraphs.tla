---------------------------- MODULE MCPowerGraphs ----------------------------
(* An instance of PowerGraphs on a scaled-down clock: a millisecond is four *)
(* ticks, a minute two, and a reading is kept after half the time limit.    *)
(* The gap 9 is a quarter of a millisecond over that half: rounded, it is   *)
(* the half.                                                                *)
EXTENDS PowerGraphs

MCDurations == {[type |-> "TIME", limit |-> 16], [type |-> "PERCENT", limit |-> 5]}
MCCapacities == {[full |-> 8, design |-> 9], [full |-> 8, design |-> -1]}
MCEnergies == {1, 5, 8, NaN}
=============================================================================
