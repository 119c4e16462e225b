----------------------------- MODULE Application -----------------------------
(***************************************************************************)
(* GbbApplication (application.c), the graphical client, composed with its *)
(* test runner, and logind, the service that puts the machine to sleep.    *)
(*                                                                         *)
(* Each action is one callback of the main loop: a call of the runner and  *)
(* what on_runner_phase_changed makes of it before the call returns.  The  *)
(* program keeps logind from going to sleep at once with a "delay" lock,    *)
(* which logind grants only while it is not preparing already and honours  *)
(* only for a limited time.                                                *)
(***************************************************************************)
EXTENDS Integers, Sequences

CONSTANTS Tests, Durations, Percents, MaxTime, TimeSamples, PercentSamples, NoRun

VARIABLES
  phase, stop_requested, force_stop, run, player, current_state, clock,
  brightness, saved, user_ended,  \* the test runner's
  x11,             \* the display is an X11 one, not one of Wayland
  ready,           \* the event player has emitted "ready"
  sensitive,       \* of the start button
  label,           \* of the start button
  shortcut,        \* Ctrl-Alt-Q is grabbed, which takes an X11 display
  inhibitor,       \* inhibitor_fd # -1
  exit_requested,  \* GbbApplication.exit_requested
  window,          \* the window exists; the program ends with it
  listed,          \* the run has a row in the log view
  file,            \* what the run's file holds, see Files
  named,           \* the run knows its file name: a write has succeeded
  write_failed,    \* auxiliary: the last attempt to write the file failed
  taken,           \* auxiliary: the lock was granted when the run was started
  sleep,           \* logind: "awake", "preparing" or "asleep"
  signal           \* PrepareForSleep(true) has been sent and not yet handled

Runner == INSTANCE TestRunner

(* What the runner assumes of its constants *)
ASSUME TestsAssumption == Tests \subseteq [prologue : BOOLEAN, epilogue : BOOLEAN]
ASSUME DurationsAssumption == Durations \subseteq [type : {"TIME", "PERCENT"}, limit : Nat]
ASSUME PercentsAssumption == Percents \subseteq Nat
ASSUME SamplesAssumption ==
  /\ MaxTime \in Nat
  /\ TimeSamples \in Nat \ {0}
  /\ PercentSamples \in Nat \ {0}
ASSUME MaxTimeAssumption ==
  \A d \in Durations : d.type = "TIME" => TimeSamples * (MaxTime - d.limit) > d.limit
ASSUME NoRunAssumption == NoRun \notin Runner!Run

runner == <<phase, stop_requested, force_stop, run, player, current_state, clock,
            brightness, saved, user_ended>>
log == <<listed, file, named, write_failed>>
lock == <<inhibitor, taken>>
logind == <<sleep, signal>>
vars == <<runner, x11, ready, sensitive, label, shortcut, lock, exit_requested, window,
          log, logind>>

(* A file holds a number of readings, the text that is written first to     *)
(* make the next write an fsync (test-run.c:424), or does not exist.  A run  *)
(* without a reading has no start time, and so no file name.                *)
NoFile == -1
Hack == -2
Files == {NoFile, Hack} \cup (Nat \ {0})

TypeOK ==
  /\ Runner!TypeOK
  /\ {x11, ready, sensitive, shortcut, inhibitor, exit_requested, window, listed,
      named, write_failed, taken, signal} \subseteq BOOLEAN
  /\ label \in {"Start", "Stop"}
  /\ file \in Files
  /\ sleep \in {"awake", "preparing", "asleep"}

(* update_sensitive *)
Sensitive(p, stop, is_ready) ==
  \/ p = "STOPPED" /\ is_ready
  \/ p \in {"PROLOGUE", "WAITING", "RUNNING"} /\ ~stop

Init ==
  /\ Runner!Init
  /\ x11 \in BOOLEAN
  /\ ready = FALSE
  /\ sensitive = Sensitive(phase, stop_requested, ready)
  /\ label = "Start"
  /\ shortcut = FALSE
  /\ inhibitor = FALSE
  /\ exit_requested = FALSE
  /\ window = TRUE
  /\ listed = FALSE
  /\ file = NoFile
  /\ named = FALSE
  /\ write_failed = FALSE
  /\ taken = FALSE
  /\ sleep = "awake"
  /\ signal = FALSE

(* The main loop dispatches. *)
Dispatching == window /\ sleep # "asleep"

-----------------------------------------------------------------------------
(* write_run_to_disk: the file is replaced twice, and each of the two       *)
(* replacements may fail; only the error of the second one is reported.     *)
WriteRun ==
  \/ /\ file' = Len(run.history)
     /\ named' = TRUE
     /\ write_failed' = FALSE
  \/ /\ file' \in {file, Hack}
     /\ write_failed' = TRUE
     /\ UNCHANGED named

(* Mutants of RunStopped: the lock is kept; a run that need not be saved    *)
(* skips the rest, too.                                                     *)
RunStoppedLocked ==
  /\ \/ Len(run.history) >= 2 /\ WriteRun /\ listed' = TRUE
     \/ Len(run.history) < 2 /\ UNCHANGED log
  /\ shortcut' = (shortcut /\ ~x11)
  /\ label' = "Start"
  /\ window' = ~exit_requested'
  /\ UNCHANGED inhibitor

RunStoppedSavedOnly ==
  /\ inhibitor' = FALSE
  /\ window' = ~exit_requested'
  /\ \/ /\ Len(run.history) >= 2 /\ WriteRun /\ listed' = TRUE
        /\ shortcut' = (shortcut /\ ~x11)
        /\ label' = "Start"
     \/ Len(run.history) < 2 /\ UNCHANGED <<log, shortcut, label>>

(* on_runner_phase_changed, STOPPED; only a run with two readings is saved. *)
RunStopped ==
  /\ \/ Len(run.history) >= 2 /\ WriteRun /\ listed' = TRUE
     \/ Len(run.history) < 2 /\ UNCHANGED log
  /\ shortcut' = (shortcut /\ ~x11)
  /\ label' = "Start"
  /\ window' = ~exit_requested'
  /\ inhibitor' = FALSE

(* What a step of the runner makes of the window, the log and the lock: its *)
(* "phase-changed" is emitted when the phase is set, and only then.         *)
PhaseChanged ==
  /\ \/ /\ phase' # "STOPPED" \/ phase = "STOPPED"
        /\ UNCHANGED <<shortcut, label, window, inhibitor, log>>
     \/ phase' = "STOPPED" /\ phase # "STOPPED" /\ RunStopped
  /\ sensitive' = IF phase' = phase THEN sensitive ELSE Sensitive(phase', stop_requested', ready)

-----------------------------------------------------------------------------
(* on_player_ready *)
PlayerReady ==
  /\ Dispatching /\ ~ready
  /\ ready' = TRUE
  /\ sensitive' = Sensitive(phase, stop_requested, TRUE)
  /\ UNCHANGED <<runner, x11, label, shortcut, lock, exit_requested, window, log, logind>>

(* application_start, the start button being clicked: the lock is refused   *)
(* while logind prepares, and may be for other reasons.                     *)
ClickStart ==
  /\ Dispatching /\ sensitive
  /\ Runner!StartNewRun
  /\ label' = "Stop"
  /\ shortcut' = (shortcut \/ x11)
  /\ taken' \in IF sleep = "preparing" THEN {FALSE} ELSE BOOLEAN
  /\ inhibitor' = taken'
  /\ listed' = FALSE
  /\ file' = NoFile
  /\ named' = FALSE
  /\ write_failed' = FALSE
  /\ sensitive' = Sensitive(phase', stop_requested', ready)
  /\ UNCHANGED <<x11, ready, exit_requested, window, logind>>

(* application_stop, by the button or the shortcut *)
ClickStop ==
  /\ Dispatching /\ (sensitive \/ shortcut)
  /\ Runner!Stop
  /\ UNCHANGED exit_requested
  /\ PhaseChanged
  /\ UNCHANGED <<x11, ready, taken, logind>>

(* on_delete_event: while a run is active the window stays, to be destroyed *)
(* when the run has stopped.                                                *)
CloseIdleWindow ==
  /\ phase = "STOPPED"
  /\ window' = FALSE
  /\ UNCHANGED <<runner, sensitive, label, shortcut, inhibitor, exit_requested, log>>

(* Mutant of CloseBusyWindow: the run is not stopped. *)
CloseBusyWindowLater ==
  /\ phase # "STOPPED"
  /\ exit_requested' = TRUE
  /\ UNCHANGED runner
  /\ PhaseChanged

CloseBusyWindow ==
  /\ phase # "STOPPED"
  /\ exit_requested' = TRUE
  /\ \/ Runner!Stop
     \/ phase \in {"STOPPING", "EPILOGUE"} /\ UNCHANGED runner
  /\ PhaseChanged

CloseWindow ==
  /\ Dispatching
  /\ CloseIdleWindow \/ CloseBusyWindow
  /\ UNCHANGED <<x11, ready, taken, logind>>

(* on_delete_button_clicked, for the row of the run: g_file_delete, then    *)
(* the row goes.  Without a file name g_file_delete fails and sets no error, *)
(* and reporting that error kills the program.                              *)
DeleteLog ==
  /\ Dispatching /\ listed
  /\ \/ /\ named
        /\ file' = NoFile
        /\ listed' = FALSE
        /\ UNCHANGED window
     \/ /\ ~named
        /\ window' = FALSE
        /\ UNCHANGED <<file, listed>>
  /\ UNCHANGED <<runner, x11, ready, sensitive, label, shortcut, lock, exit_requested,
                 named, write_failed, logind>>

(* Callbacks of the runner: the player finishes, the power monitor polls.   *)
PlayerFinished ==
  /\ Dispatching
  /\ Runner!PlayerFinished
  /\ UNCHANGED exit_requested
  /\ PhaseChanged
  /\ UNCHANGED <<x11, ready, taken, logind>>

Poll ==
  /\ Dispatching
  /\ Runner!PollSame \/ Runner!PollChanged
  /\ UNCHANGED exit_requested
  /\ PhaseChanged
  /\ UNCHANGED <<x11, ready, taken, logind>>

-----------------------------------------------------------------------------
(* logind is asked to sleep and says so; bound: the program has handled the *)
(* signal by the time of the next sleep.                                    *)
PrepareToSleep ==
  /\ sleep = "awake" /\ (signal => ~window)
  /\ sleep' = "preparing"
  /\ signal' = window
  /\ UNCHANGED <<runner, x11, ready, sensitive, label, shortcut, lock, exit_requested,
                 window, log>>

(* Mutants of SaveAndForceStop: a run without readings is written, too; the *)
(* run is stopped, but not by force.                                        *)
SaveAnythingAndForceStop ==
  /\ phase # "STOPPED"
  /\ WriteRun
  /\ Runner!ForceStop
  /\ sensitive' = Sensitive(phase', stop_requested', ready)
  /\ UNCHANGED <<shortcut, label, window, inhibitor, listed>>

SaveAndStop ==
  /\ phase = "RUNNING"
  /\ WriteRun
  /\ Runner!Stop
  /\ sensitive' = Sensitive(phase', stop_requested', ready)
  /\ UNCHANGED <<shortcut, label, window, inhibitor, listed>>

(* Mutant of JustForceStop: only a run that plays a file is stopped. *)
ForceStopPlaying ==
  /\ \/ /\ phase \notin {"RUNNING", "STOPPED", "WAITING"}
        /\ Runner!ForceStop
     \/ phase = "WAITING" /\ UNCHANGED runner
  /\ PhaseChanged

(* gbb_application_prepare_for_sleep: late, perhaps, when logind has not    *)
(* waited.                                                                  *)
SaveAndForceStop ==
  /\ phase = "RUNNING"
  /\ WriteRun
  /\ Runner!ForceStop
  /\ sensitive' = Sensitive(phase', stop_requested', ready)
  /\ UNCHANGED <<shortcut, label, window, inhibitor, listed>>

JustForceStop ==
  /\ phase \notin {"RUNNING", "STOPPED"}
  /\ Runner!ForceStop
  /\ PhaseChanged

OnPrepareForSleep ==
  /\ Dispatching
  /\ signal
  /\ signal' = FALSE
  /\ UNCHANGED exit_requested
  /\ \/ SaveAndForceStop
     \/ JustForceStop
     \/ /\ phase = "STOPPED"
        /\ UNCHANGED <<runner, sensitive, label, shortcut, window, inhibitor, log>>
  /\ UNCHANGED <<x11, ready, taken, sleep>>

(* The machine sleeps when no lock delays it any more, or when logind has   *)
(* waited long enough.                                                      *)
FallAsleep ==
  /\ sleep = "preparing" /\ ~inhibitor
  /\ sleep' = "asleep"
  /\ UNCHANGED <<runner, x11, ready, sensitive, label, shortcut, lock, exit_requested,
                 window, log, signal>>

DelayExpires ==
  /\ sleep = "preparing" /\ inhibitor
  /\ sleep' = "asleep"
  /\ UNCHANGED <<runner, x11, ready, sensitive, label, shortcut, lock, exit_requested,
                 window, log, signal>>

Resume ==
  /\ sleep = "asleep"
  /\ sleep' = "awake"
  /\ UNCHANGED <<runner, x11, ready, sensitive, label, shortcut, lock, exit_requested,
                 window, log, signal>>

-----------------------------------------------------------------------------
Next ==
  \/ PlayerReady \/ ClickStart \/ ClickStop \/ CloseWindow \/ DeleteLog
  \/ PlayerFinished \/ Poll
  \/ PrepareToSleep \/ OnPrepareForSleep
  \/ FallAsleep \/ DelayExpires \/ Resume

(* The main loop dispatches signals, the player finishes, and logind sleeps *)
(* once nothing delays it.  The user, the battery and whoever asks for the  *)
(* sleep owe nothing, and the delay need not expire.                        *)
Fairness ==
  /\ WF_vars(PlayerFinished)
  /\ WF_vars(OnPrepareForSleep)
  /\ WF_vars(FallAsleep)

Spec == Init /\ [][Next]_vars /\ Fairness

-----------------------------------------------------------------------------
(* The lock spans the run: whoever got it when the run was started holds it *)
(* until the run has stopped, and without a run nobody does ("if we are     *)
(* stopped, we don't have a inhibitor lock", application.c:1006).  A leaked *)
(* lock would delay every later sleep.                                      *)
LockSpansRun == inhibitor <=> phase # "STOPPED" /\ taken

(* Button and shortcut follow the run through every way it can end: they    *)
(* stop exactly while there is something to stop (application.c:500,517,    *)
(* 899-902), the shortcut only where there can be one (application.c:523).  *)
ControlsMatchPhase ==
  /\ label = "Stop" <=> phase # "STOPPED"
  /\ shortcut <=> x11 /\ phase # "STOPPED"

(* The button is never left with the sensitivity of an earlier phase, but   *)
(* for a PROLOGUE that was asked to stop, where another click does nothing. *)
ButtonUpToDate == phase # "PROLOGUE" => sensitive = Sensitive(phase, stop_requested, ready)

(* A run is active only once the player is ready, so that remote-player.c   *)
(* never has a file pending for a helper that does not answer yet.          *)
PlayerReadyWhenUsed == phase # "STOPPED" => ready

(* The window follows the run. *)
WindowFollowsRun == ControlsMatchPhase /\ ButtonUpToDate /\ PlayerReadyWhenUsed

(* A run in the log has all of its readings in its file, also when it was   *)
(* written before in a hurry to sleep and then stopped, unless the last     *)
(* write failed.                                                            *)
ListedIsSaved ==
  listed => /\ phase = "STOPPED"
            /\ file = Len(run.history) \/ write_failed

(* A file never promises more than the run has, and a run that is being     *)
(* played has none yet: only a sleep writes one before the run has stopped, *)
(* and that ends it.                                                        *)
FileMatchesRun ==
  file \in Nat => /\ phase \in {"STOPPING", "STOPPED"}
                  /\ file = Len(run.history)

(* Run, file and log agree. *)
LogMatchesRun == ListedIsSaved /\ FileMatchesRun

(* Readings that were on disc when the machine prepared to sleep stay there *)
(* while the run is being stopped ("we want to make sure we have the data   *)
(* on disc", application.c:1015-1016).                                      *)
DataStaysOnDisc == [][phase # "STOPPED" /\ file \in Nat => file' \in Nat]_vars

(* The program never keeps the machine from sleeping: its lock is released  *)
(* when the player has been stopped, whatever the run was doing when the    *)
(* machine prepared to sleep.                                               *)
SleepComes == sleep = "preparing" ~> sleep = "asleep"

(* A window the user closed goes away, and the program with it, when the    *)
(* run it had to stop first has stopped -- unless the machine sleeps again  *)
(* and again meanwhile, and no file is ever played to its end.              *)
CloseHonoured == (exit_requested ~> ~window) \/ []<>(sleep = "asleep")
=============================================================================
