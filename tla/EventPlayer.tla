----------------------------- MODULE EventPlayer -----------------------------
(***************************************************************************)
(* What a GbbEventPlayer promises to the code that drives it: every file   *)
(* accepted by play_file is followed by exactly one "finished", whether it *)
(* plays to its end or is stopped.  "finished" is emitted when the player   *)
(* is idle again, so its handler may play the next file at once.           *)
(***************************************************************************)
EXTENDS Naturals

VARIABLES
  player,    \* "idle", "playing" or "stopping"
  accepted,  \* how many files have been accepted
  finished   \* how many times "finished" has been emitted

vars == <<player, accepted, finished>>

Init == player = "idle" /\ accepted = 0 /\ finished = 0

Play ==
  /\ player = "idle"
  /\ player' = "playing"
  /\ accepted' = accepted + 1
  /\ UNCHANGED finished

Stop ==
  /\ player = "playing"
  /\ player' = "stopping"
  /\ UNCHANGED <<accepted, finished>>

Finish ==
  /\ player # "idle"
  /\ player' = "idle"
  /\ finished' = finished + 1
  /\ UNCHANGED accepted

FinishAndPlay ==
  /\ player # "idle"
  /\ player' = "playing"
  /\ finished' = finished + 1
  /\ accepted' = accepted + 1

Next == Play \/ Stop \/ Finish \/ FinishAndPlay

Safety == Init /\ [][Next]_vars
Fairness == WF_vars(Finish \/ FinishAndPlay)

Spec == Safety /\ Fairness
=============================================================================
