----------------------------- MODULE TestRunner -----------------------------
(***************************************************************************)
(* GbbTestRunner (test-runner.c): the state machine that takes a battery   *)
(* test through prologue, waiting for AC to be disconnected, the repeated  *)
(* loop, and the epilogue, together with the objects it drives: the event  *)
(* player, the power monitor, the test run and the screen brightness.      *)
(*                                                                         *)
(* The program is a single-threaded GLib main loop: each action is one     *)
(* callback, run to completion.  The player is abstract here: it is idle,  *)
(* playing a file, or stopping, and PlayerFinished delivers "finished".    *)
(***************************************************************************)
EXTENDS TestRun

CONSTANT NoRun   \* no run has been set yet (runner->run == NULL)

ASSUME NoRunAssumption == NoRun \notin Run

VARIABLES
  phase,           \* GbbTestRunner.phase
  stop_requested,  \* GbbTestRunner.stop_requested
  force_stop,      \* GbbTestRunner.force_stop
  run,             \* GbbTestRunner.run
  player,          \* what the event player does
  current_state,   \* GbbPowerMonitor.current_state
  clock,           \* monotonic time since the run left WAITING
  brightness,      \* whose screen brightness is set: the user's or the test's
  saved,           \* GbbSystemState.saved_screen_brightness
  user_ended       \* auxiliary: the end of this run has been asked for

vars == <<phase, stop_requested, force_stop, run, player, current_state,
          clock, brightness, saved, user_ended>>

Phases == {"STOPPED", "PROLOGUE", "WAITING", "RUNNING", "STOPPING", "EPILOGUE"}
Files == {"prologue", "loop", "epilogue"}
Brightnesses == {"user", "test"}

TypeOK ==
  /\ phase \in Phases
  /\ stop_requested \in BOOLEAN
  /\ force_stop \in BOOLEAN
  /\ run \in Run \cup {NoRun}
  /\ player \in {"idle", "stopping"} \cup Files
  /\ current_state \in Reading
  /\ clock \in 0..MaxTime
  /\ brightness \in Brightnesses
  /\ saved \in Brightnesses
  /\ user_ended \in BOOLEAN

ReadingsAt(t) == [time : {t}, online : BOOLEAN, percent : Percents]

Init ==
  /\ phase = "STOPPED"
  /\ stop_requested = FALSE
  /\ force_stop = FALSE
  /\ run = NoRun
  /\ player = "idle"
  /\ clock = 0
  /\ current_state \in ReadingsAt(0)
  /\ brightness = "user"
  /\ saved = "user"
  /\ user_ended = FALSE

-----------------------------------------------------------------------------
(* The operators below describe the effect of a call on the player, the     *)
(* phase and the brightness.  "now" is what the player does at the time of  *)
(* the call: idle inside the finished handler, otherwise player itself.     *)

(* gbb_event_player_play_file: refused with a g_critical when not idle. *)
PlayFile(now, file) == player' = IF now = "idle" THEN file ELSE now

(* gbb_event_player_stop *)
StopPlayer == player' = IF player \in Files THEN "stopping" ELSE player

(* runner_set_stopped *)
SetStopped(now) ==
  /\ phase' = "STOPPED"
  /\ brightness' = saved
  /\ player' = now

(* Mutant of SetEpilogue: a missing epilogue file is played, too. *)
SetEpilogueUnchecked(now) ==
  /\ PlayFile(now, IF run.test.epilogue THEN "epilogue" ELSE "NULL")
  /\ phase' = "EPILOGUE"
  /\ UNCHANGED brightness

(* runner_set_epilogue *)
SetEpilogue(now) ==
  \/ /\ run.test.epilogue
     /\ PlayFile(now, "epilogue")
     /\ phase' = "EPILOGUE"
     /\ UNCHANGED brightness
  \/ ~run.test.epilogue /\ SetStopped(now)

-----------------------------------------------------------------------------
(* gbb_test_runner_set_run and gbb_test_runner_start: both clients create a *)
(* run, set it and start it in one callback.                                *)
Start(t, d) ==
  /\ phase = "STOPPED"
  /\ run' = NewRun(t, d)
  /\ saved' = brightness
  /\ brightness' = "test"
  /\ \/ /\ t.prologue
        /\ PlayFile(player, "prologue")
        /\ phase' = "PROLOGUE"
     \/ /\ ~t.prologue
        /\ phase' = "WAITING"
        /\ UNCHANGED player
  /\ user_ended' = FALSE
  /\ UNCHANGED <<stop_requested, force_stop, current_state, clock>>

(* gbb_test_runner_stop *)
StopRunning ==
  /\ phase = "RUNNING"
  /\ StopPlayer
  /\ phase' = "STOPPING"
  /\ user_ended' = TRUE
  /\ UNCHANGED <<stop_requested, brightness>>

StopWaiting ==
  /\ phase = "WAITING"
  /\ SetEpilogue(player)
  /\ user_ended' = TRUE
  /\ UNCHANGED stop_requested

StopPrologue ==
  /\ phase = "PROLOGUE"
  /\ stop_requested' = TRUE
  /\ user_ended' = TRUE
  /\ UNCHANGED <<phase, player, brightness>>

Stop ==
  /\ StopRunning \/ StopWaiting \/ StopPrologue
  /\ UNCHANGED <<force_stop, run, current_state, clock, saved>>

(* Mutant of ForceStop: WAITING is handled like the phases with a player. *)
ForceStopWithoutWaiting ==
  /\ phase # "STOPPED"
  /\ StopPlayer
  /\ phase' = "STOPPING"
  /\ force_stop' = TRUE
  /\ user_ended' = TRUE
  /\ UNCHANGED <<stop_requested, run, current_state, clock, brightness, saved>>

(* gbb_test_runner_force_stop *)
ForceStop ==
  /\ \/ /\ phase \in {"PROLOGUE", "RUNNING", "EPILOGUE"}
        /\ StopPlayer
        /\ phase' = "STOPPING"
        /\ force_stop' = TRUE
     \/ /\ phase = "STOPPING"
        /\ force_stop' = TRUE
        /\ UNCHANGED <<phase, player>>
     \/ /\ phase = "WAITING"
        /\ phase' = "STOPPED"
        /\ UNCHANGED <<force_stop, player>>
  /\ user_ended' = TRUE
  /\ UNCHANGED <<stop_requested, run, current_state, clock, brightness, saved>>

-----------------------------------------------------------------------------
(* Mutant of FinishedForceStop: the epilogue is played all the same. *)
FinishedForceStopEpilogue ==
  /\ force_stop
  /\ force_stop' = FALSE
  /\ SetEpilogue("idle")
  /\ UNCHANGED stop_requested

(* Mutant of FinishedPrologue: the request to stop is not looked at. *)
FinishedPrologueUnasked ==
  /\ phase = "PROLOGUE"
  /\ phase' = "WAITING"
  /\ player' = "idle"
  /\ UNCHANGED <<stop_requested, brightness>>

(* Mutant of FinishedLoop: the loop is played once. *)
FinishedLoopOnce ==
  /\ phase = "RUNNING"
  /\ SetEpilogue("idle")
  /\ UNCHANGED stop_requested

(* on_player_finished: the player has become idle. *)
FinishedForceStop ==
  /\ force_stop
  /\ force_stop' = FALSE
  /\ SetStopped("idle")
  /\ UNCHANGED stop_requested

FinishedPrologue ==
  /\ phase = "PROLOGUE"
  /\ \/ /\ ~stop_requested
        /\ phase' = "WAITING"
        /\ player' = "idle"
        /\ UNCHANGED <<stop_requested, brightness>>
     \/ /\ stop_requested
        /\ stop_requested' = FALSE
        /\ SetEpilogue("idle")      \* gbb_test_runner_stop, now WAITING

FinishedLoop ==
  /\ phase = "RUNNING"
  /\ \/ IsDone(run) /\ SetEpilogue("idle")
     \/ /\ ~IsDone(run)
        /\ PlayFile("idle", "loop")
        /\ UNCHANGED <<phase, brightness>>
  /\ UNCHANGED stop_requested

FinishedStopping ==
  /\ phase = "STOPPING"
  /\ SetEpilogue("idle")
  /\ UNCHANGED stop_requested

FinishedEpilogue ==
  /\ phase = "EPILOGUE"
  /\ SetStopped("idle")
  /\ UNCHANGED stop_requested

PlayerFinished ==
  /\ player # "idle"
  /\ \/ FinishedForceStop
     \/ /\ ~force_stop
        /\ \/ FinishedPrologue \/ FinishedLoop
           \/ FinishedStopping \/ FinishedEpilogue
        /\ UNCHANGED force_stop
  /\ UNCHANGED <<run, current_state, clock, saved, user_ended>>

-----------------------------------------------------------------------------
(* update_timeout of the power monitor reads the supplies at every tick.    *)
(* Time is counted from the reading that starts the run, and stands still   *)
(* at MaxTime, so that a run can wait for ever.                             *)
Tick == IF clock < MaxTime THEN clock + 1 ELSE clock

(* gbb_power_state_equal: the time is not compared. *)
SameSupply(s1, s2) == s1.online = s2.online /\ s1.percent = s2.percent

(* A reading that differs from the current one only in its time is dropped. *)
PollSame ==
  /\ phase = "RUNNING" /\ clock < MaxTime
  /\ clock' = Tick
  /\ UNCHANGED <<phase, stop_requested, force_stop, run, player,
                 current_state, brightness, saved, user_ended>>

(* on_power_monitor_changed, in each of the phases that heed it *)
LeaveWaiting(s) ==
  /\ phase = "WAITING" /\ ~s.online
  /\ run' = Add(SetStartTime(run), s)
  /\ phase' = "RUNNING"
  /\ PlayFile(player, "loop")

RecordReading(s) ==
  /\ phase = "RUNNING"
  /\ run' = Add(run, s)
  /\ UNCHANGED <<phase, player>>

IgnoreReading(s) ==
  /\ phase # "RUNNING" /\ ~(phase = "WAITING" /\ ~s.online)
  /\ UNCHANGED <<run, phase, player>>

PollChanged ==
  /\ clock' = IF phase = "RUNNING" THEN Tick ELSE 0
  /\ \E s \in ReadingsAt(clock') :
       /\ ~SameSupply(s, current_state)
       /\ current_state' = s
       /\ LeaveWaiting(s) \/ RecordReading(s) \/ IgnoreReading(s)
  /\ UNCHANGED <<stop_requested, force_stop, brightness, saved, user_ended>>

-----------------------------------------------------------------------------
StartNewRun == \E t \in Tests, d \in Durations : Start(t, d)

Next ==
  \/ StartNewRun
  \/ Stop
  \/ ForceStop
  \/ PlayerFinished
  \/ PollSame
  \/ PollChanged

(* A file ends, or the helper answers Stop, or it dies and the bus answers: *)
(* every accepted play is followed by "finished".  Nothing else is fair:    *)
(* users need not click and the charge need not change.                     *)
Spec == Init /\ [][Next]_vars /\ WF_vars(PlayerFinished)

(* The timer of the power monitor keeps firing (power-monitor.c:234), so    *)
(* time passes while a run is running.                                      *)
PollLater == (PollSame \/ PollChanged) /\ clock' # clock
SpecPolling == Spec /\ WF_vars(PollLater)

-----------------------------------------------------------------------------
(* The player does what the phase says: exactly the phases PROLOGUE,        *)
(* RUNNING, STOPPING and EPILOGUE have an active player, playing that       *)
(* phase's file unless it is being stopped.  So no play_file is ever        *)
(* refused with "Player is already playing", and "finished" always comes in *)
(* a phase that is waiting for it.                                          *)
PlayerMatchesPhase ==
  /\ phase \in {"STOPPED", "WAITING"} => player = "idle"
  /\ phase = "STOPPING" => player = "stopping"
  /\ phase = "PROLOGUE" => player = "prologue"
  /\ phase = "RUNNING" => player = "loop"
  /\ phase = "EPILOGUE" => player = "epilogue"

(* A forced stop is remembered only until the player has stopped: the flag  *)
(* never survives into the next run, which it would end at once.            *)
ForceStopOnlyWhileStopping == force_stop => phase = "STOPPING"

(* The code dereferences without a check the run in every phase but STOPPED *)
(* and, each time the loop file ends, the first and last reading of the run *)
(* (test-run.c:159-165).  Both are there; the first reading was taken on    *)
(* battery, not before AC was disconnected, and a run with readings has a   *)
(* date to be filed under.                                                  *)
RunUsable ==
  /\ phase # "STOPPED" => run # NoRun
  /\ phase \in {"PROLOGUE", "WAITING"} => run.history = <<>>
  /\ phase = "RUNNING" => run.history # <<>> /\ ~StartState(run).online
  /\ run # NoRun /\ run.history # <<>> => run.dated

(* Player, flags and run follow the phase. *)
PhaseConsistent == PlayerMatchesPhase /\ ForceStopOnlyWhileStopping /\ RunUsable

(* The history stays short whatever the battery reports: each reading kept  *)
(* after the first is more than its share of the test away from the one     *)
(* before, so a run of n readings has used up at least (n - 1) shares       *)
(* (test-run.c:192-206).                                                    *)
HistoryBounded == run # NoRun => SharesUsedUp(run)

(* A run ends only because it is done or because its end was asked for: the *)
(* loop is "played repeatedly until the test time is finished or the user   *)
(* ends the test" (README:58-59).                                        *)
EndedForAReason ==
  phase \in {"STOPPING", "EPILOGUE", "STOPPED"} /\ run # NoRun =>
    \/ user_ended
    \/ run.history # <<>> /\ IsDone(run)

(* The same of tests without a prologue, whatever ran before them.          *)
LoopEndedForAReason == run # NoRun /\ ~run.test.prologue => EndedForAReason

(* The user's brightness is back whenever no test is active: the test sets  *)
(* the backlight "during the test" (docs/gbb.txt:99-100).                   *)
BrightnessRestored == phase = "STOPPED" => brightness = "user"

-----------------------------------------------------------------------------
(* Nothing is played once a stop is forced: the machine is about to sleep   *)
(* and the screen may be locked (application.c:1020-1023).                  *)
ForceStopIsFinal ==
  [][force_stop => /\ phase' \in {"STOPPING", "STOPPED"}
                   /\ player' \notin Files]_vars

(* The history of a run grows only while it runs: what is recorded after    *)
(* the user's stop, during the epilogue or after the end does not count.    *)
HistoryFrozenOutsideRunning ==
  [][run # NoRun /\ run'.history # run.history =>
       \/ phase' = "RUNNING" /\ Len(run'.history) = Len(run.history) + 1
       \/ phase = "STOPPED" /\ run'.history = <<>>]_vars

(* A run whose player has to finish first never stops without its epilogue, *)
(* unless the stop is forced.                                               *)
EpilogueUnlessForced ==
  [][phase' = "STOPPED" /\ phase \in {"PROLOGUE", "RUNNING", "STOPPING"} =>
       ~run.test.epilogue \/ force_stop]_vars

(* However a run ends after its player has been used, forced or not, the    *)
(* brightness goes back to what it was when the run was started.            *)
RestoredAfterPlayback ==
  [][player # "idle" /\ phase' = "STOPPED" => brightness' = saved]_vars

(* What a step that ends playback or a run may and may not do *)
OrderlyEnd ==
  /\ ForceStopIsFinal
  /\ HistoryFrozenOutsideRunning
  /\ EpilogueUnlessForced
  /\ RestoredAfterPlayback

(* The end the user asks for comes, whatever phase the request meets. *)
EndRequestHonoured == user_ended ~> phase = "STOPPED"

(* A test with a time limit is played "until the test time is finished"     *)
(* (README:58-59).                                                          *)
TimedRunEnds ==
  (phase = "RUNNING" /\ run.duration.type = "TIME") ~> phase # "RUNNING"

(* It is on a machine whose readings keep changing, as a discharging one's  *)
(* do.                                                                      *)
DrainingRunEnds == WF_vars(PollChanged) => TimedRunEnds
=============================================================================
