-------------------------- MODULE Application_proofs --------------------------
(***************************************************************************)
(* Theorems about Application: the lock, the controls, the readiness of    *)
(* the player and the run's file follow the run, for every set of tests,   *)
(* durations and charges.  The argument needs only few facts about the     *)
(* runner, which RunnerStep, RunnerStart and RunnerKeepsRun state, and what *)
(* on_runner_phase_changed does, which PhaseChangedKeeps and               *)
(* PhaseChangedKeepsLog state for every callback that goes through it.      *)
(***************************************************************************)
EXTENDS Application, TLAPS

(* The four invariants hold only together: that a run finds the player      *)
(* ready, for instance, is due to the button being up to date.              *)
ControlInv ==
  /\ LockSpansRun
  /\ ControlsMatchPhase
  /\ ButtonUpToDate
  /\ PlayerReadyWhenUsed

-----------------------------------------------------------------------------
(* No callback but start leaves STOPPED, and a callback that does not       *)
(* change the phase touches stop_requested in PROLOGUE only.                *)
LEMMA RunnerStep ==
  ASSUME \/ Runner!Stop
         \/ Runner!ForceStop
         \/ Runner!PlayerFinished
         \/ Runner!PollSame
         \/ Runner!PollChanged
  PROVE  /\ phase = "STOPPED" => phase' = "STOPPED"
         /\ phase' = phase /\ phase # "PROLOGUE" => stop_requested' = stop_requested
<1>1. CASE Runner!Stop
  BY <1>1 DEF Runner!Stop, Runner!StopRunning, Runner!StopWaiting, Runner!StopPrologue
<1>2. CASE Runner!ForceStop
  BY <1>2 DEF Runner!ForceStop
<1>3. CASE Runner!PlayerFinished
  <2>1. CASE Runner!FinishedForceStop
    BY <2>1 DEF Runner!FinishedForceStop, Runner!SetStopped
  <2>2. CASE Runner!FinishedPrologue
    <3>1. phase = "PROLOGUE"
      BY <2>2 DEF Runner!FinishedPrologue
    <3>2. phase' # "PROLOGUE"
      BY <2>2 DEF Runner!FinishedPrologue, Runner!SetEpilogue, Runner!SetStopped
    <3> QED
      BY <3>1, <3>2
  <2>3. CASE Runner!FinishedLoop
    BY <2>3 DEF Runner!FinishedLoop
  <2>4. CASE Runner!FinishedStopping
    BY <2>4 DEF Runner!FinishedStopping
  <2>5. CASE Runner!FinishedEpilogue
    BY <2>5 DEF Runner!FinishedEpilogue
  <2> QED
    BY <1>3, <2>1, <2>2, <2>3, <2>4, <2>5 DEF Runner!PlayerFinished
<1>4. CASE Runner!PollSame
  BY <1>4 DEF Runner!PollSame
<1>5. CASE Runner!PollChanged
  BY <1>5 DEF Runner!PollChanged, Runner!LeaveWaiting, Runner!RecordReading,
              Runner!IgnoreReading
<1> QED
  BY <1>1, <1>2, <1>3, <1>4, <1>5

(* Start leaves STOPPED. *)
LEMMA RunnerStart ==
  ASSUME Runner!StartNewRun
  PROVE  phase = "STOPPED" /\ phase' # "STOPPED"
<1>1. PICK t \in Tests, d \in Durations : Runner!Start(t, d)
  BY DEF Runner!StartNewRun
<1> QED
  BY <1>1 DEF Runner!Start

(* on_runner_phase_changed keeps the invariant, whatever the runner did. *)
LEMMA PhaseChangedKeeps ==
  ASSUME ControlInv, PhaseChanged, UNCHANGED <<x11, ready, taken>>,
         phase = "STOPPED" => phase' = "STOPPED",
         phase' = phase /\ phase # "PROLOGUE" => stop_requested' = stop_requested
  PROVE  ControlInv'
<1>1. LockSpansRun'
  BY DEF ControlInv, LockSpansRun, PhaseChanged, RunStopped
<1>2. ControlsMatchPhase'
  <2>1. CASE /\ phase' # "STOPPED" \/ phase = "STOPPED"
             /\ UNCHANGED <<shortcut, label>>
    BY <2>1 DEF ControlInv, ControlsMatchPhase
  <2>2. CASE phase' = "STOPPED" /\ RunStopped
    <3>1. label' = "Start" /\ (shortcut' <=> shortcut /\ ~x11)
      BY <2>2 DEF RunStopped
    <3>2. shortcut => x11
      BY DEF ControlInv, ControlsMatchPhase
    <3> QED
      BY <2>2, <3>1, <3>2 DEF ControlsMatchPhase
  <2> QED
    BY <2>1, <2>2 DEF PhaseChanged
<1>3. ButtonUpToDate'
  <2>1. CASE phase' = phase
    BY <2>1 DEF ControlInv, ButtonUpToDate, PhaseChanged, Sensitive
  <2>2. CASE phase' # phase
    BY <2>2 DEF ButtonUpToDate, PhaseChanged, Sensitive
  <2> QED
    BY <2>1, <2>2
<1>4. PlayerReadyWhenUsed'
  BY DEF ControlInv, PlayerReadyWhenUsed
<1> QED
  BY <1>1, <1>2, <1>3, <1>4 DEF ControlInv

-----------------------------------------------------------------------------
LEMMA InitControlInv == Init => ControlInv
BY DEF Init, Runner!Init, ControlInv, LockSpansRun, ControlsMatchPhase, ButtonUpToDate,
       PlayerReadyWhenUsed, Sensitive

(* Steps that leave alone all that the invariant speaks of. *)
LEMMA StutterControlInv ==
  ASSUME ControlInv,
         UNCHANGED <<phase, stop_requested, x11, ready, sensitive, label, shortcut, inhibitor,
                     taken>>
  PROVE  ControlInv'
BY DEF ControlInv, LockSpansRun, ControlsMatchPhase, ButtonUpToDate, PlayerReadyWhenUsed,
       Sensitive

LEMMA ControlInvStep == ControlInv /\ [Next]_vars => ControlInv'
<1> SUFFICES ASSUME ControlInv, [Next]_vars PROVE ControlInv'
  OBVIOUS
<1>1. CASE PlayerReady
  BY <1>1 DEF PlayerReady, runner, lock, ControlInv, LockSpansRun, ControlsMatchPhase,
              ButtonUpToDate, PlayerReadyWhenUsed
<1>2. CASE ClickStart
  <2>1. phase = "STOPPED" /\ phase' # "STOPPED"
    BY <1>2, RunnerStart DEF ClickStart
  <2>2. ready /\ ready' = ready
    BY <1>2, <2>1 DEF ClickStart, ControlInv, ButtonUpToDate, Sensitive
  <2>3. LockSpansRun'
    BY <1>2, <2>1 DEF ClickStart, LockSpansRun
  <2>4. ControlsMatchPhase'
    <3>1. label' = "Stop" /\ (shortcut' <=> shortcut \/ x11) /\ x11' = x11
      BY <1>2 DEF ClickStart
    <3>2. ~shortcut
      BY <2>1 DEF ControlInv, ControlsMatchPhase
    <3> QED
      BY <2>1, <3>1, <3>2 DEF ControlsMatchPhase
  <2>5. ButtonUpToDate'
    BY <1>2 DEF ClickStart, ButtonUpToDate, Sensitive
  <2>6. PlayerReadyWhenUsed'
    BY <2>2 DEF PlayerReadyWhenUsed
  <2> QED
    BY <2>3, <2>4, <2>5, <2>6 DEF ControlInv
<1>3. CASE ClickStop
  BY <1>3, RunnerStep, PhaseChangedKeeps DEF ClickStop
<1>4. CASE CloseWindow
  <2>1. CASE CloseIdleWindow
    BY <1>4, <2>1, StutterControlInv DEF CloseWindow, CloseIdleWindow, runner
  <2>2. CASE CloseBusyWindow
    <3>1. CASE Runner!Stop
      BY <1>4, <2>2, <3>1, RunnerStep, PhaseChangedKeeps DEF CloseWindow, CloseBusyWindow
    <3>2. CASE UNCHANGED runner
      BY <1>4, <2>2, <3>2, PhaseChangedKeeps DEF CloseWindow, CloseBusyWindow, runner
    <3> QED
      BY <2>2, <3>1, <3>2 DEF CloseBusyWindow
  <2> QED
    BY <1>4, <2>1, <2>2 DEF CloseWindow
<1>5. CASE DeleteLog
  BY <1>5, StutterControlInv DEF DeleteLog, runner, lock
<1>6. CASE PlayerFinished
  BY <1>6, RunnerStep, PhaseChangedKeeps DEF PlayerFinished
<1>7. CASE Poll
  BY <1>7, RunnerStep, PhaseChangedKeeps DEF Poll
<1>8. CASE PrepareToSleep
  BY <1>8, StutterControlInv DEF PrepareToSleep, runner, lock
<1>9. CASE OnPrepareForSleep
  <2>1. CASE SaveAndForceStop
    <3>1. phase = "RUNNING" /\ phase' = "STOPPING"
      BY <2>1 DEF SaveAndForceStop, Runner!ForceStop
    <3>2. LockSpansRun'
      BY <1>9, <2>1, <3>1 DEF OnPrepareForSleep, SaveAndForceStop, ControlInv, LockSpansRun
    <3>3. ControlsMatchPhase'
      BY <1>9, <2>1, <3>1 DEF OnPrepareForSleep, SaveAndForceStop, ControlInv, ControlsMatchPhase
    <3>4. ButtonUpToDate'
      BY <1>9, <2>1 DEF OnPrepareForSleep, SaveAndForceStop, ButtonUpToDate, Sensitive
    <3>5. PlayerReadyWhenUsed'
      BY <1>9, <3>1 DEF OnPrepareForSleep, ControlInv, PlayerReadyWhenUsed
    <3> QED
      BY <3>2, <3>3, <3>4, <3>5 DEF ControlInv
  <2>2. CASE JustForceStop
    BY <1>9, <2>2, RunnerStep, PhaseChangedKeeps DEF OnPrepareForSleep, JustForceStop
  <2>3. CASE UNCHANGED <<runner, sensitive, label, shortcut, window, inhibitor, log>>
    BY <1>9, <2>3, StutterControlInv DEF OnPrepareForSleep, runner
  <2> QED
    BY <1>9, <2>1, <2>2, <2>3 DEF OnPrepareForSleep
<1>10. CASE FallAsleep \/ DelayExpires \/ Resume
  BY <1>10, StutterControlInv DEF FallAsleep, DelayExpires, Resume, runner, lock
<1>11. CASE UNCHANGED vars
  BY <1>11, StutterControlInv DEF vars, runner, lock
<1> QED
  BY <1>1, <1>2, <1>3, <1>4, <1>5, <1>6, <1>7, <1>8, <1>9, <1>10, <1>11 DEF Next

THEOREM ControlInvariance == Spec => []ControlInv
BY InitControlInv, ControlInvStep, PTL DEF Spec

-----------------------------------------------------------------------------
(* No way of ending a run leaks the lock, and none gives it up early        *)
(* (application.c:908, 914-925).                                            *)
THEOREM LockAlwaysSpansRun == Spec => []LockSpansRun
<1>1. ControlInv => LockSpansRun
  BY DEF ControlInv
<1> QED
  BY <1>1, ControlInvariance, PTL

(* Button and shortcut always offer what the phase allows, the shortcut      *)
(* only on an X11 display.                                                  *)
THEOREM ControlsAlwaysMatch == Spec => []ControlsMatchPhase
<1>1. ControlInv => ControlsMatchPhase
  BY DEF ControlInv
<1> QED
  BY <1>1, ControlInvariance, PTL

(* The sensitivity of the button is computed whenever it has to be. *)
THEOREM ButtonAlwaysUpToDate == Spec => []ButtonUpToDate
<1>1. ControlInv => ButtonUpToDate
  BY DEF ControlInv
<1> QED
  BY <1>1, ControlInvariance, PTL

(* No run is started before the player is ready: no file is ever pending in *)
(* the application's remote player, nor given up before it is started.      *)
THEOREM PlayerAlwaysReady == Spec => []PlayerReadyWhenUsed
<1>1. ControlInv => PlayerReadyWhenUsed
  BY DEF ControlInv
<1> QED
  BY <1>1, ControlInvariance, PTL

(* Button, shortcut, where the display has one, and sensitivity follow the  *)
(* run (application.c:523, 899-902, 913).                                   *)
THEOREM WindowAlwaysFollowsRun == Spec => []WindowFollowsRun
<1>1. ControlInv => WindowFollowsRun
  BY DEF ControlInv, WindowFollowsRun
<1> QED
  BY <1>1, ControlInvariance, PTL
-----------------------------------------------------------------------------
(* A file with readings belongs to a run that has stopped, or that is being *)
(* stopped by force and so has no epilogue to go through.                   *)
FileInv ==
  file \in Nat => /\ phase = "STOPPED" \/ (phase = "STOPPING" /\ force_stop)
                  /\ file = Len(run.history)

LogInv == ListedIsSaved /\ FileInv

(* A step of the runner that stops a run, or that finds it stopped or       *)
(* stopping, changes nothing in it, and a forced stop goes on to STOPPED.   *)
LEMMA RunnerKeepsRun ==
  ASSUME \/ Runner!Stop
         \/ Runner!ForceStop
         \/ Runner!PlayerFinished
         \/ Runner!PollSame
         \/ Runner!PollChanged
  PROVE  /\ phase \in {"STOPPED", "STOPPING"} \/ phase' = "STOPPED" => run' = run
         /\ phase = "STOPPING" /\ force_stop =>
              phase' = "STOPPED" \/ (phase' = "STOPPING" /\ force_stop')
<1>1. CASE Runner!Stop
  BY <1>1 DEF Runner!Stop, Runner!StopRunning, Runner!StopWaiting, Runner!StopPrologue
<1>2. CASE Runner!ForceStop
  BY <1>2 DEF Runner!ForceStop
<1>3. CASE Runner!PlayerFinished
  BY <1>3 DEF Runner!PlayerFinished, Runner!FinishedForceStop, Runner!SetStopped
<1>4. CASE Runner!PollSame
  BY <1>4 DEF Runner!PollSame
<1>5. CASE Runner!PollChanged
  BY <1>5 DEF Runner!PollChanged, Runner!LeaveWaiting, Runner!RecordReading,
              Runner!IgnoreReading
<1> QED
  BY <1>1, <1>2, <1>3, <1>4, <1>5

(* on_runner_phase_changed keeps log and file true to the run.              *)
LEMMA PhaseChangedKeepsLog ==
  ASSUME LogInv, PhaseChanged,
         phase = "STOPPED" => phase' = "STOPPED",
         phase \in {"STOPPED", "STOPPING"} \/ phase' = "STOPPED" => run' = run,
         phase = "STOPPING" /\ force_stop =>
           phase' = "STOPPED" \/ (phase' = "STOPPING" /\ force_stop')
  PROVE  LogInv'
<1>1. CASE /\ phase' # "STOPPED" \/ phase = "STOPPED"
           /\ UNCHANGED log
  BY <1>1 DEF LogInv, ListedIsSaved, FileInv, log
<1>2. CASE phase' = "STOPPED" /\ phase # "STOPPED" /\ RunStopped
  <2>1. run' = run /\ ~listed
    BY <1>2 DEF LogInv, ListedIsSaved
  <2>2. CASE WriteRun
    BY <1>2, <2>1, <2>2 DEF WriteRun, LogInv, ListedIsSaved, FileInv, Hack
  <2>3. CASE UNCHANGED log
    BY <1>2, <2>1, <2>3 DEF log, LogInv, ListedIsSaved, FileInv
  <2> QED
    BY <1>2, <2>2, <2>3 DEF RunStopped
<1> QED
  BY <1>1, <1>2 DEF PhaseChanged

(* Steps that leave alone all that the invariant speaks of. *)
LEMMA StutterLogInv ==
  ASSUME LogInv, UNCHANGED <<runner, log>>
  PROVE  LogInv'
BY DEF LogInv, ListedIsSaved, FileInv, runner, log

LEMMA LogInvStep == LogInv /\ [Next]_vars => LogInv'
<1> SUFFICES ASSUME LogInv, [Next]_vars PROVE LogInv'
  OBVIOUS
<1>1. CASE PlayerReady
  BY <1>1, StutterLogInv DEF PlayerReady
<1>2. CASE ClickStart
  BY <1>2 DEF ClickStart, LogInv, ListedIsSaved, FileInv, NoFile
<1>3. CASE ClickStop
  BY <1>3, RunnerStep, RunnerKeepsRun, PhaseChangedKeepsLog DEF ClickStop
<1>4. CASE CloseWindow
  <2>1. CASE CloseIdleWindow
    BY <2>1, StutterLogInv DEF CloseIdleWindow
  <2>2. CASE CloseBusyWindow
    <3>1. CASE Runner!Stop
      BY <2>2, <3>1, RunnerStep, RunnerKeepsRun, PhaseChangedKeepsLog DEF CloseBusyWindow
    <3>2. CASE UNCHANGED runner
      BY <2>2, <3>2, PhaseChangedKeepsLog DEF CloseBusyWindow, runner
    <3> QED
      BY <2>2, <3>1, <3>2 DEF CloseBusyWindow
  <2> QED
    BY <1>4, <2>1, <2>2 DEF CloseWindow
<1>5. CASE DeleteLog
  <2>1. UNCHANGED <<phase, force_stop, run, write_failed>>
    BY <1>5 DEF DeleteLog, runner
  <2>2. CASE file' = NoFile /\ listed' = FALSE
    BY <2>2 DEF LogInv, ListedIsSaved, FileInv, NoFile
  <2>3. CASE UNCHANGED <<file, listed>>
    BY <2>1, <2>3 DEF LogInv, ListedIsSaved, FileInv
  <2> QED
    BY <1>5, <2>2, <2>3 DEF DeleteLog
<1>6. CASE PlayerFinished
  BY <1>6, RunnerStep, RunnerKeepsRun, PhaseChangedKeepsLog DEF PlayerFinished
<1>7. CASE Poll
  BY <1>7, RunnerStep, RunnerKeepsRun, PhaseChangedKeepsLog DEF Poll
<1>8. CASE OnPrepareForSleep
  <2>1. CASE SaveAndForceStop
    <3>1. /\ phase = "RUNNING" /\ phase' = "STOPPING" /\ force_stop' = TRUE
          /\ run' = run /\ listed' = listed /\ WriteRun
      BY <2>1 DEF SaveAndForceStop, Runner!ForceStop
    <3>2. ~listed /\ file \notin Nat
      BY <3>1 DEF LogInv, ListedIsSaved, FileInv
    <3> QED
      BY <3>1, <3>2 DEF WriteRun, LogInv, ListedIsSaved, FileInv, Hack
  <2>2. CASE JustForceStop
    BY <2>2, RunnerStep, RunnerKeepsRun, PhaseChangedKeepsLog DEF JustForceStop
  <2>3. CASE UNCHANGED <<runner, sensitive, label, shortcut, window, inhibitor, log>>
    BY <2>3, StutterLogInv
  <2> QED
    BY <1>8, <2>1, <2>2, <2>3 DEF OnPrepareForSleep
<1>9. CASE PrepareToSleep \/ FallAsleep \/ DelayExpires \/ Resume \/ UNCHANGED vars
  BY <1>9, StutterLogInv DEF PrepareToSleep, FallAsleep, DelayExpires, Resume, vars
<1> QED
  BY <1>1, <1>2, <1>3, <1>4, <1>5, <1>6, <1>7, <1>8, <1>9 DEF Next

(* What the log lists is on disc unless the disc refused it, and no file    *)
(* promises readings that the run does not have.                            *)
THEOREM LogAlwaysMatchesRun == Spec => []LogMatchesRun
<1>1. Init => LogInv
  BY DEF Init, LogInv, ListedIsSaved, FileInv, NoFile
<1>2. LogInv => LogMatchesRun
  BY DEF LogInv, FileInv, LogMatchesRun, FileMatchesRun
<1> QED
  BY <1>1, <1>2, LogInvStep, PTL DEF Spec

-----------------------------------------------------------------------------
(* The runner inside the application: what TestRunner_proofs shows of every *)
(* behaviour of the runner holds of this one, since each callback takes the *)
(* runner through a step of its own specification or leaves it alone.       *)
Proved == INSTANCE TestRunner_proofs

LEMMA StartIsStep == Runner!StartNewRun => Proved!StartNewRun
BY DEF Runner!StartNewRun, Proved!StartNewRun, Runner!Start, Proved!Start, Runner!NewRun,
       Proved!NewRun, Runner!PlayFile, Proved!PlayFile

LEMMA StopIsStep == Runner!Stop => Proved!Stop
BY DEF Runner!Stop, Proved!Stop, Runner!StopRunning, Proved!StopRunning,
       Runner!StopWaiting, Proved!StopWaiting, Runner!StopPrologue, Proved!StopPrologue,
       Runner!StopPlayer, Proved!StopPlayer, Runner!SetEpilogue, Proved!SetEpilogue,
       Runner!SetStopped, Proved!SetStopped, Runner!PlayFile, Proved!PlayFile,
       Runner!Files, Proved!Files

LEMMA ForceStopIsStep == Runner!ForceStop => Proved!ForceStop
BY DEF Runner!ForceStop, Proved!ForceStop, Runner!StopPlayer, Proved!StopPlayer,
       Runner!Files, Proved!Files

LEMMA FinishedIsStep == Runner!PlayerFinished => Proved!PlayerFinished
<1> SUFFICES ASSUME Runner!PlayerFinished PROVE Proved!PlayerFinished
  OBVIOUS
<1>1. Runner!IsDone(run) <=> Proved!IsDone(run)
  BY DEF Runner!IsDone, Proved!IsDone, Runner!LastState, Proved!LastState,
         Runner!StartState, Proved!StartState
<1>2. Runner!SetEpilogue("idle") <=> Proved!SetEpilogue("idle")
  BY DEF Runner!SetEpilogue, Proved!SetEpilogue, Runner!SetStopped, Proved!SetStopped,
         Runner!PlayFile, Proved!PlayFile
<1>3. Runner!FinishedForceStop <=> Proved!FinishedForceStop
  BY DEF Runner!FinishedForceStop, Proved!FinishedForceStop, Runner!SetStopped,
         Proved!SetStopped
<1>4. Runner!FinishedPrologue <=> Proved!FinishedPrologue
  BY <1>2 DEF Runner!FinishedPrologue, Proved!FinishedPrologue
<1>5. Runner!FinishedLoop <=> Proved!FinishedLoop
  BY <1>1, <1>2 DEF Runner!FinishedLoop, Proved!FinishedLoop, Runner!PlayFile,
                    Proved!PlayFile
<1>6. Runner!FinishedStopping <=> Proved!FinishedStopping
  BY <1>2 DEF Runner!FinishedStopping, Proved!FinishedStopping
<1>7. Runner!FinishedEpilogue <=> Proved!FinishedEpilogue
  BY DEF Runner!FinishedEpilogue, Proved!FinishedEpilogue, Runner!SetStopped,
         Proved!SetStopped
<1> QED
  BY <1>3, <1>4, <1>5, <1>6, <1>7, Zenon DEF Runner!PlayerFinished, Proved!PlayerFinished

LEMMA PollIsStep ==
  /\ Runner!PollSame => Proved!PollSame
  /\ Runner!PollChanged => Proved!PollChanged
<1>1. Runner!PollSame => Proved!PollSame
  BY DEF Runner!PollSame, Proved!PollSame, Runner!Tick, Proved!Tick
<1>2. ASSUME Runner!PollChanged
      PROVE  Proved!PollChanged
  <2>1. PICK s \in Runner!ReadingsAt(clock') :
          /\ ~Runner!SameSupply(s, current_state)
          /\ current_state' = s
          /\ Runner!LeaveWaiting(s) \/ Runner!RecordReading(s) \/ Runner!IgnoreReading(s)
    BY <1>2 DEF Runner!PollChanged
  <2>2. ASSUME NEW r
        PROVE  Runner!Add(r, s) = Proved!Add(r, s)
    BY DEF Runner!Add, Proved!Add, Runner!UseState, Proved!UseState, Runner!LastState,
           Proved!LastState, Runner!StartState, Proved!StartState,
           Runner!QuotientExceeds, Proved!QuotientExceeds
  <2>3. Runner!LeaveWaiting(s) => Proved!LeaveWaiting(s)
    BY <2>2 DEF Runner!LeaveWaiting, Proved!LeaveWaiting, Runner!SetStartTime,
                Proved!SetStartTime, Runner!PlayFile, Proved!PlayFile
  <2>4. Runner!RecordReading(s) => Proved!RecordReading(s)
    BY <2>2 DEF Runner!RecordReading, Proved!RecordReading
  <2>5. Runner!IgnoreReading(s) => Proved!IgnoreReading(s)
    BY DEF Runner!IgnoreReading, Proved!IgnoreReading
  <2>6. s \in Proved!ReadingsAt(clock') /\ ~Proved!SameSupply(s, current_state)
    BY <2>1 DEF Runner!ReadingsAt, Proved!ReadingsAt, Runner!SameSupply, Proved!SameSupply
  <2> QED
    BY <1>2, <2>1, <2>3, <2>4, <2>5, <2>6 DEF Runner!PollChanged, Proved!PollChanged,
       Runner!Tick, Proved!Tick
<1> QED
  BY <1>1, <1>2

(* Every callback of the application is a step of the runner, or none. *)
LEMMA RunnerSteps == [Next]_vars => [Proved!Next]_runner
<1> SUFFICES ASSUME [Next]_vars PROVE [Proved!Next]_runner
  OBVIOUS
<1>1. CASE ClickStart
  BY <1>1, StartIsStep DEF ClickStart, Proved!Next
<1>2. CASE ClickStop
  BY <1>2, StopIsStep DEF ClickStop, Proved!Next
<1>3. CASE CloseWindow
  BY <1>3, StopIsStep DEF CloseWindow, CloseIdleWindow, CloseBusyWindow, Proved!Next
<1>4. CASE PlayerFinished
  BY <1>4, FinishedIsStep DEF PlayerFinished, Proved!Next
<1>5. CASE Poll
  BY <1>5, PollIsStep DEF Poll, Proved!Next
<1>6. CASE OnPrepareForSleep
  BY <1>6, ForceStopIsStep DEF OnPrepareForSleep, SaveAndForceStop, JustForceStop, Proved!Next
<1>7. CASE \/ PlayerReady \/ DeleteLog \/ PrepareToSleep \/ FallAsleep \/ DelayExpires
           \/ Resume \/ UNCHANGED vars
  BY <1>7 DEF PlayerReady, DeleteLog, PrepareToSleep, FallAsleep, DelayExpires, Resume, vars
<1> QED
  BY <1>1, <1>2, <1>3, <1>4, <1>5, <1>6, <1>7 DEF Next

(* The application uses its runner as TestRunner specifies: whatever the    *)
(* clicks, the window and sleep do, no call meets the runner in a state     *)
(* that TestRunner does not reach (safety only: while the machine sleeps,   *)
(* no file comes to its end).                                               *)
THEOREM RunnerRefined == Spec => Runner!Init /\ [][Runner!Next]_runner
<1>1. [Next]_vars => [Runner!Next]_runner
  <2> SUFFICES ASSUME [Next]_vars PROVE [Runner!Next]_runner
    OBVIOUS
  <2>1. CASE ClickStart \/ ClickStop \/ PlayerFinished \/ Poll
    BY <2>1 DEF ClickStart, ClickStop, PlayerFinished, Poll, Runner!Next
  <2>2. CASE CloseWindow
    BY <2>2 DEF CloseWindow, CloseIdleWindow, CloseBusyWindow, Runner!Next
  <2>3. CASE OnPrepareForSleep
    BY <2>3 DEF OnPrepareForSleep, SaveAndForceStop, JustForceStop, Runner!Next
  <2>4. CASE \/ PlayerReady \/ DeleteLog \/ PrepareToSleep \/ FallAsleep \/ DelayExpires
             \/ Resume \/ UNCHANGED vars
    BY <2>4 DEF PlayerReady, DeleteLog, PrepareToSleep, FallAsleep, DelayExpires, Resume, vars
  <2> QED
    BY <2>1, <2>2, <2>3, <2>4 DEF Next
<1>2. Init => Runner!Init
  BY DEF Init
<1> QED
  BY <1>1, <1>2, PTL DEF Spec

(* The constants are those that the lemmas of TestRunner_proofs are about.  *)
LEMMA RunnerInvStart == Init => Proved!IInv
<1> SUFFICES ASSUME Init PROVE Proved!IInv
  OBVIOUS
<1>1. Proved!Init
  BY DEF Init, Runner!Init, Proved!Init, Runner!ReadingsAt, Proved!ReadingsAt
<1> QED
  BY <1>1, Proved!InitIInv, TestsAssumption, DurationsAssumption, PercentsAssumption,
     SamplesAssumption, MaxTimeAssumption, NoRunAssumption
     DEF Runner!Run, Proved!Run, Runner!Reading, Proved!Reading

LEMMA RunnerInvStep == Proved!IInv /\ [Proved!Next]_runner => Proved!IInv'
<1> SUFFICES ASSUME Proved!IInv, [Proved!Next]_runner PROVE Proved!IInv'
  OBVIOUS
<1>1. NoRun \notin Proved!Run
  BY NoRunAssumption DEF Runner!Run, Proved!Run, Runner!Reading, Proved!Reading
<1>2. Proved!IInv <=> Proved!Control /\ Proved!Contents
  BY <1>1, Proved!IInvParts, TestsAssumption, DurationsAssumption, PercentsAssumption,
     SamplesAssumption, MaxTimeAssumption
<1>3. [Proved!Next]_(Proved!vars)
  BY DEF runner, Proved!vars
<1>4. Proved!Control'
  BY <1>1, <1>2, <1>3, Proved!ControlStep, TestsAssumption, DurationsAssumption,
     PercentsAssumption, SamplesAssumption, MaxTimeAssumption
<1>5. Proved!Contents'
  BY <1>1, <1>2, <1>3, <1>4, Proved!ContentsStep, TestsAssumption, DurationsAssumption,
     PercentsAssumption, SamplesAssumption, MaxTimeAssumption
<1> QED
  BY <1>4, <1>5 DEF Proved!IInv, Proved!TypeOK, Proved!Control, Proved!Contents

(* The runner that the window drives keeps its own invariants.              *)
LEMMA RunnerInvariance == Spec => []Proved!IInv
BY RunnerInvStart, RunnerSteps, RunnerInvStep, PTL DEF Spec

LEMMA RunnerParts ==
  ASSUME Proved!IInv
  PROVE  /\ Runner!TypeOK /\ Runner!PhaseConsistent /\ Runner!HistoryBounded
         /\ phase = "RUNNING" => Len(run.history) \in Nat \ {0}
         /\ run # NoRun => Len(run.history) \in Nat
<1>1. Runner!TypeOK
  BY DEF Proved!IInv, Runner!TypeOK, Proved!TypeOK, Runner!Phases, Proved!Phases,
         Runner!Run, Proved!Run, Runner!Reading, Proved!Reading, Runner!Files,
         Proved!Files, Runner!Brightnesses, Proved!Brightnesses
<1>2. Runner!PhaseConsistent
  BY DEF Proved!IInv, Runner!PhaseConsistent, Runner!PlayerMatchesPhase,
         Proved!PlayerMatchesPhase, Runner!ForceStopOnlyWhileStopping,
         Proved!ForceStopOnlyWhileStopping, Runner!RunUsable, Proved!RunUsable,
         Runner!StartState, Proved!StartState
<1>3. Runner!HistoryBounded
  BY DEF Proved!IInv, Runner!HistoryBounded, Proved!HistoryBounded, Runner!SharesUsedUp,
         Proved!SharesUsedUp, Runner!StartState, Proved!StartState, Runner!LastState,
         Proved!LastState
<1>4. ASSUME run # NoRun
      PROVE  run.history \in Seq(Runner!Reading)
  BY <1>1, <1>4 DEF Runner!TypeOK, Runner!Run
<1>5. phase = "RUNNING" => run # NoRun /\ run.history # <<>>
  BY <1>2 DEF Runner!PhaseConsistent, Runner!RunUsable
<1>6. run # NoRun => Len(run.history) \in Nat
  BY <1>4
<1>7. ASSUME NEW S, NEW h \in Seq(S), h # <<>>
      PROVE  Len(h) \in Nat \ {0}
  BY <1>7
<1>8. phase = "RUNNING" => Len(run.history) \in Nat \ {0}
  BY <1>4, <1>5, <1>7
<1> QED
  BY <1>1, <1>2, <1>3, <1>6, <1>8

(* The test runner inside the application keeps the player in step with the *)
(* phase, no forced stop is remembered into the next run, and the run is    *)
(* there, with its readings, whenever the code uses it (test-run.c:159-165). *)
THEOREM RunnerAlwaysConsistent ==
  Spec => [](Runner!PhaseConsistent /\ Runner!HistoryBounded)
<1>1. Proved!IInv => Runner!PhaseConsistent /\ Runner!HistoryBounded
  BY RunnerParts
<1> QED
  BY <1>1, RunnerInvariance, PTL

-----------------------------------------------------------------------------
(* The types of what the application adds to the runner. *)
OwnTypeOK ==
  /\ x11 \in BOOLEAN /\ ready \in BOOLEAN /\ sensitive \in BOOLEAN /\ shortcut \in BOOLEAN
  /\ inhibitor \in BOOLEAN /\ exit_requested \in BOOLEAN /\ window \in BOOLEAN
  /\ listed \in BOOLEAN /\ named \in BOOLEAN /\ write_failed \in BOOLEAN
  /\ taken \in BOOLEAN /\ signal \in BOOLEAN
  /\ label \in {"Start", "Stop"}
  /\ file \in Files
  /\ sleep \in {"awake", "preparing", "asleep"}

LEMMA SensitiveType ==
  ASSUME NEW p, NEW stop \in BOOLEAN, NEW is_ready \in BOOLEAN
  PROVE  Sensitive(p, stop, is_ready) \in BOOLEAN
BY DEF Sensitive

LEMMA InitOwnType == Init => OwnTypeOK
<1> SUFFICES ASSUME Init PROVE OwnTypeOK
  OBVIOUS
<1>1. sensitive \in BOOLEAN
  BY SensitiveType DEF Init, Runner!Init
<1> QED
  BY <1>1 DEF Init, OwnTypeOK, Files, NoFile

(* A run that is written has a reading. *)
LEMMA WriteRunType ==
  ASSUME WriteRun, Len(run.history) \in Nat \ {0}, file \in Files, named \in BOOLEAN
  PROVE  file' \in Files /\ named' \in BOOLEAN /\ write_failed' \in BOOLEAN
BY DEF WriteRun, Files

LEMMA PhaseChangedType ==
  ASSUME OwnTypeOK, PhaseChanged, Proved!IInv,
         run # NoRun \/ phase = "STOPPED",
         stop_requested' \in BOOLEAN, exit_requested' \in BOOLEAN,
         UNCHANGED <<x11, ready, taken>>
  PROVE  /\ label' \in {"Start", "Stop"} /\ file' \in Files
         /\ sensitive' \in BOOLEAN /\ shortcut' \in BOOLEAN /\ window' \in BOOLEAN
         /\ inhibitor' \in BOOLEAN
         /\ listed' \in BOOLEAN /\ named' \in BOOLEAN /\ write_failed' \in BOOLEAN
<1>1. ready \in BOOLEAN /\ sensitive \in BOOLEAN /\ ready' = ready
  BY DEF OwnTypeOK
<1>2. Sensitive(phase', stop_requested', ready) \in BOOLEAN
  BY <1>1, SensitiveType
<1>3. sensitive' \in BOOLEAN
  BY <1>1, <1>2 DEF PhaseChanged
<1>4. CASE UNCHANGED <<shortcut, label, window, inhibitor, log>>
  BY <1>3, <1>4 DEF OwnTypeOK, log
<1>5. CASE phase # "STOPPED" /\ RunStopped
  <2>1. label' = "Start" /\ shortcut' \in BOOLEAN /\ inhibitor' = FALSE
    BY <1>5 DEF RunStopped
  <2>2. window' \in BOOLEAN
    BY <1>5 DEF RunStopped
  <2>3. Len(run.history) \in Nat
    BY <1>5, RunnerParts
  <2>4. CASE Len(run.history) >= 2 /\ WriteRun /\ listed' = TRUE
    <3>1. Len(run.history) \in Nat \ {0}
      BY <2>3, <2>4
    <3>2. file \in Files /\ named \in BOOLEAN
      BY DEF OwnTypeOK
    <3> QED
      BY <1>3, <2>1, <2>2, <2>4, <3>1, <3>2, WriteRunType
  <2>5. CASE UNCHANGED log
    BY <1>3, <2>1, <2>2, <2>5 DEF OwnTypeOK, log
  <2> QED
    BY <1>5, <2>4, <2>5 DEF RunStopped
<1> QED
  BY <1>4, <1>5 DEF PhaseChanged

LEMMA StopRequestedType == ASSUME Proved!IInv PROVE stop_requested \in BOOLEAN
BY DEF Proved!IInv, Proved!TypeOK

(* A callback that goes through on_runner_phase_changed, with a run set.    *)
LEMMA CallbackType ==
  ASSUME OwnTypeOK, PhaseChanged, Proved!IInv, Proved!IInv',
         exit_requested' \in BOOLEAN,
         signal' \in BOOLEAN,
         UNCHANGED <<x11, ready, taken, sleep>>
  PROVE  OwnTypeOK'
<1>1. stop_requested' \in BOOLEAN
  BY StopRequestedType DEF Proved!IInv, Proved!TypeOK
<1>2. run # NoRun \/ phase = "STOPPED"
  BY RunnerParts DEF Runner!PhaseConsistent, Runner!RunUsable
<1>3. UNCHANGED <<x11, ready, taken>>
  OBVIOUS
<1>4. /\ label' \in {"Start", "Stop"} /\ file' \in Files
      /\ sensitive' \in BOOLEAN /\ shortcut' \in BOOLEAN /\ window' \in BOOLEAN
      /\ inhibitor' \in BOOLEAN
      /\ listed' \in BOOLEAN /\ named' \in BOOLEAN /\ write_failed' \in BOOLEAN
  BY <1>1, <1>2, <1>3, PhaseChangedType
<1>5. /\ x11' \in BOOLEAN /\ ready' \in BOOLEAN /\ taken' \in BOOLEAN
      /\ sleep' \in {"awake", "preparing", "asleep"}
  BY DEF OwnTypeOK
<1> QED
  BY <1>4, <1>5 DEF OwnTypeOK

LEMMA OwnTypeStep ==
  ASSUME OwnTypeOK, Proved!IInv, Proved!IInv', [Next]_vars
  PROVE  OwnTypeOK'
<1>1. CASE PlayerReady
  <2>1. stop_requested \in BOOLEAN
    BY StopRequestedType
  <2>2. Sensitive(phase, stop_requested, TRUE) \in BOOLEAN
    BY <2>1, SensitiveType
  <2>3. ready' = TRUE /\ sensitive' = Sensitive(phase, stop_requested, TRUE)
    BY <1>1 DEF PlayerReady
  <2>4. UNCHANGED <<x11, label, shortcut, inhibitor, taken, exit_requested, window>>
    BY <1>1 DEF PlayerReady, lock
  <2>5. UNCHANGED <<listed, named, write_failed, file, sleep, signal>>
    BY <1>1 DEF PlayerReady, log, logind
  <2>6. /\ x11' \in BOOLEAN /\ ready' \in BOOLEAN /\ sensitive' \in BOOLEAN /\ shortcut' \in BOOLEAN
        /\ inhibitor' \in BOOLEAN /\ exit_requested' \in BOOLEAN /\ window' \in BOOLEAN
        /\ taken' \in BOOLEAN /\ label' \in {"Start", "Stop"}
    BY <2>2, <2>3, <2>4 DEF OwnTypeOK
  <2>7. /\ listed' \in BOOLEAN /\ named' \in BOOLEAN /\ write_failed' \in BOOLEAN
        /\ signal' \in BOOLEAN /\ file' \in Files /\ sleep' \in {"awake", "preparing", "asleep"}
    BY <2>5 DEF OwnTypeOK
  <2> QED
    BY <2>6, <2>7 DEF OwnTypeOK
<1>2. CASE ClickStart
  <2>1. stop_requested' \in BOOLEAN /\ ready \in BOOLEAN
    BY DEF Proved!IInv, Proved!TypeOK, OwnTypeOK
  <2>2. Sensitive(phase', stop_requested', ready) \in BOOLEAN
    BY <2>1, SensitiveType
  <2>3. sensitive' \in BOOLEAN
    BY <1>2, <2>2 DEF ClickStart
  <2>4. taken' \in BOOLEAN /\ inhibitor' \in BOOLEAN
    BY <1>2 DEF ClickStart
  <2>5. /\ label' = "Stop" /\ shortcut' \in BOOLEAN /\ listed' = FALSE /\ file' = NoFile
        /\ named' = FALSE /\ write_failed' = FALSE
        /\ UNCHANGED <<x11, ready, exit_requested, window, sleep, signal>>
    BY <1>2 DEF ClickStart, logind
  <2> QED
    BY <2>3, <2>4, <2>5 DEF OwnTypeOK, Files
<1>3. CASE ClickStop
  <2>1. PhaseChanged /\ UNCHANGED <<x11, ready, taken, exit_requested, sleep, signal>>
    BY <1>3 DEF ClickStop, logind
  <2>2. exit_requested' \in BOOLEAN /\ signal' \in BOOLEAN
    BY <2>1 DEF OwnTypeOK
  <2>3. UNCHANGED <<x11, ready, taken, sleep>>
    BY <2>1
  <2> QED
    BY <2>1, <2>2, <2>3, CallbackType
<1>4. CASE CloseWindow
  <2>1. CASE CloseIdleWindow
    <3>1. window' = FALSE /\ UNCHANGED <<x11, ready, sensitive, label, shortcut, inhibitor>>
      BY <1>4, <2>1 DEF CloseWindow, CloseIdleWindow
    <3>2. UNCHANGED <<taken, exit_requested>>
      BY <1>4, <2>1 DEF CloseWindow, CloseIdleWindow
    <3>3. UNCHANGED <<listed, named, write_failed, file, sleep, signal>>
      BY <1>4, <2>1 DEF CloseWindow, CloseIdleWindow, log, logind
    <3>4. /\ x11' \in BOOLEAN /\ ready' \in BOOLEAN /\ sensitive' \in BOOLEAN /\ shortcut' \in BOOLEAN
          /\ inhibitor' \in BOOLEAN /\ exit_requested' \in BOOLEAN /\ window' \in BOOLEAN
          /\ taken' \in BOOLEAN /\ label' \in {"Start", "Stop"}
      BY <3>1, <3>2 DEF OwnTypeOK
    <3>5. /\ listed' \in BOOLEAN /\ named' \in BOOLEAN /\ write_failed' \in BOOLEAN
          /\ signal' \in BOOLEAN /\ file' \in Files /\ sleep' \in {"awake", "preparing", "asleep"}
      BY <3>3 DEF OwnTypeOK
    <3> QED
      BY <3>4, <3>5 DEF OwnTypeOK
  <2>2. CASE CloseBusyWindow
    <3>1. /\ PhaseChanged /\ exit_requested' = TRUE /\ signal' = signal
          /\ UNCHANGED <<x11, ready, taken, sleep>>
      BY <1>4, <2>2 DEF CloseWindow, CloseBusyWindow, logind
    <3>2. exit_requested' \in BOOLEAN /\ signal' \in BOOLEAN
      BY <3>1 DEF OwnTypeOK
    <3> QED
      BY <3>1, <3>2, CallbackType
  <2> QED
    BY <1>4, <2>1, <2>2 DEF CloseWindow
<1>5. CASE DeleteLog
  <2>1. UNCHANGED <<x11, ready, sensitive, label, shortcut, inhibitor, taken, exit_requested,
                    named, write_failed, sleep, signal>>
    BY <1>5 DEF DeleteLog, lock, logind
  <2>2. \/ file' = NoFile /\ listed' = FALSE /\ window' = window
        \/ window' = FALSE /\ file' = file /\ listed' = listed
    BY <1>5 DEF DeleteLog
  <2>3. file' \in Files /\ listed' \in BOOLEAN /\ window' \in BOOLEAN
    <3>1. CASE file' = NoFile /\ listed' = FALSE /\ window' = window
      BY <3>1 DEF OwnTypeOK, Files
    <3>2. CASE window' = FALSE /\ file' = file /\ listed' = listed
      BY <3>2 DEF OwnTypeOK
    <3> QED
      BY <2>2, <3>1, <3>2
  <2> QED
    BY <2>1, <2>3 DEF OwnTypeOK
<1>6. CASE PlayerFinished
  BY <1>6, CallbackType DEF PlayerFinished, logind, OwnTypeOK
<1>7. CASE Poll
  BY <1>7, CallbackType DEF Poll, logind, OwnTypeOK
<1>8. CASE PrepareToSleep
  BY <1>8 DEF PrepareToSleep, OwnTypeOK, log, lock
<1>9. CASE OnPrepareForSleep
  <2>1. /\ signal' = FALSE /\ exit_requested' = exit_requested
        /\ UNCHANGED <<x11, ready, taken, sleep>>
    BY <1>9 DEF OnPrepareForSleep
  <2>2. CASE SaveAndForceStop
    <3>1. file' \in Files /\ named' \in BOOLEAN /\ write_failed' \in BOOLEAN
      BY <2>2, RunnerParts, WriteRunType DEF SaveAndForceStop, OwnTypeOK
    <3>2. stop_requested' \in BOOLEAN /\ ready \in BOOLEAN
      BY DEF Proved!IInv, Proved!TypeOK, OwnTypeOK
    <3>3. Sensitive(phase', stop_requested', ready) \in BOOLEAN
      BY <3>2, SensitiveType
    <3>4. sensitive' \in BOOLEAN
      BY <2>2, <3>3 DEF SaveAndForceStop
    <3>5. UNCHANGED <<shortcut, label, window, inhibitor, listed>>
      BY <2>2 DEF SaveAndForceStop
    <3> QED
      BY <2>1, <3>1, <3>4, <3>5 DEF OwnTypeOK
  <2>3. CASE JustForceStop
    <3>1. PhaseChanged /\ exit_requested' \in BOOLEAN /\ signal' \in BOOLEAN
      BY <2>1, <2>3 DEF JustForceStop, OwnTypeOK
    <3> QED
      BY <2>1, <3>1, CallbackType
  <2>4. CASE UNCHANGED <<runner, sensitive, label, shortcut, window, inhibitor, log>>
    <3>1. UNCHANGED <<sensitive, label, shortcut, window, inhibitor>>
      BY <2>4
    <3>2. UNCHANGED <<listed, named, write_failed, file>>
      BY <2>4 DEF log
    <3>3. /\ x11' \in BOOLEAN /\ ready' \in BOOLEAN /\ sensitive' \in BOOLEAN /\ shortcut' \in BOOLEAN
          /\ inhibitor' \in BOOLEAN /\ exit_requested' \in BOOLEAN /\ window' \in BOOLEAN
          /\ taken' \in BOOLEAN /\ label' \in {"Start", "Stop"}
      BY <2>1, <3>1 DEF OwnTypeOK
    <3>4. /\ listed' \in BOOLEAN /\ named' \in BOOLEAN /\ write_failed' \in BOOLEAN
          /\ signal' \in BOOLEAN /\ file' \in Files /\ sleep' \in {"awake", "preparing", "asleep"}
      BY <2>1, <3>2 DEF OwnTypeOK
    <3> QED
      BY <3>3, <3>4 DEF OwnTypeOK
  <2> QED
    BY <1>9, <2>2, <2>3, <2>4 DEF OnPrepareForSleep
<1>10. CASE FallAsleep
  BY <1>10 DEF FallAsleep, OwnTypeOK, log, lock
<1>11. CASE DelayExpires
  BY <1>11 DEF DelayExpires, OwnTypeOK, log, lock
<1>12. CASE Resume
  BY <1>12 DEF Resume, OwnTypeOK, log, lock
<1>13. CASE UNCHANGED vars
  BY <1>13 DEF vars, OwnTypeOK, log, lock, logind
<1> QED
  BY <1>1, <1>2, <1>3, <1>4, <1>5, <1>6, <1>7, <1>8, <1>9, <1>10, <1>11, <1>12, <1>13
     DEF Next

(* Every variable keeps its type.  That a file holds at least one reading    *)
(* rests on the runner: a run that is RUNNING has one (application.c:1016). *)
THEOREM TypeCorrect == Spec => []TypeOK
<1>1. Proved!IInv /\ OwnTypeOK => TypeOK
  BY RunnerParts DEF OwnTypeOK, TypeOK
<1>2. Proved!IInv /\ OwnTypeOK /\ Proved!IInv' /\ [Next]_vars => OwnTypeOK'
  BY OwnTypeStep
<1> QED
  BY <1>1, <1>2, InitOwnType, RunnerInvariance, PTL DEF Spec
===============================================================================
