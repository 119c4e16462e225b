---------------------------- MODULE MCEvdevPlayer ----------------------------
(* Logs for EvdevPlayer: balanced ones of up to two keys, with equal times  *)
(* and times out of order, one with a time that wraps, two with a bad line. *)
EXTENDS EvdevPlayer

Press(k, t) == [kind |-> "press", key |-> k, time |-> t]
Release(k, t) == [kind |-> "release", key |-> k, time |-> t]
Wheel(k, t) == [kind |-> "other", key |-> k, time |-> t]

MCKeys == {"A", "B"}

MCLogs ==
  { <<>>,
    <<Wheel("A", 1)>>,
    <<Press("A", 0), Release("A", 2)>>,
    <<Press("A", 1), Press("B", 2), Release("A", 2), Wheel("B", 3), Release("B", 4)>>,
    <<Press("B", 3), Release("B", 1)>>,
    <<Press("A", 2), Release("A", 9)>>,
    <<BadLine>>,
    <<Press("A", 1), BadLine, Release("A", 2)>> }
==============================================================================
