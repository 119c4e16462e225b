----------------------------- MODULE CommandLine -----------------------------
(***************************************************************************)
(* gbb (commandline.c): `gbb test' runs one battery test and writes it to a *)
(* file, with SIGINT for its stop button; `gbb play' and `play-local'       *)
(* replay one log; `gbb record' records one.  `test' is the second client   *)
(* of TestRunner, here with the brightnesses of SystemState where           *)
(* TestRunner has only whose brightness it is.                              *)
(***************************************************************************)
EXTENDS TestRunner, SystemState, XInputWait, EventRecorder

CONSTANTS
  Spellings,          \* what can follow --duration: sequences of <<n, unit>>
  MinBatteries,       \* what can follow --min-battery
  UnitLength,         \* the seconds of "h", "m" and "s", at scale
  DefaultLimit,       \* ten minutes, at the same scale
  TestBrightness,     \* the value of --screen-brightness
  NoArgument,         \* an option that is not given
  NoFile              \* nothing has been written

Units == {"h", "m", "s"}

ASSUME SpellingsAssumption == Spellings \subseteq Seq(Nat \X STRING)
ASSUME MinBatteriesAssumption == MinBatteries \subseteq Int
ASSUME UnitLengthAssumption == UnitLength \in [Units -> Nat]
ASSUME ArgumentsAssumption ==
  /\ DefaultLimit \in Nat
  /\ TestBrightness \in Levels
  /\ NoFile \notin Run

VARIABLES
  command,      \* the subcommand
  args,         \* the options and the test of `gbb test'
  status,       \* how far the process is
  test_output,  \* test_output: NULL, the option's, or the default path
  file,         \* what the output file holds
  playback      \* the player of `gbb play'

processVars == <<command, args, status, test_output, file, playback>>
allVars == <<vars, stateVars, waitVars, recorderVars, processVars>>

Commands == {"test", "play", "record"}
Arguments ==
  [test : Tests,
   duration : Spellings \cup {NoArgument},
   min_battery : MinBatteries \cup {NoArgument},
   min_battery_last : BOOLEAN,   \* after --duration
   output : BOOLEAN]

CommandTypeOK ==
  /\ TypeOK
  /\ SystemStateTypeOK
  /\ WaitTypeOK
  /\ RecorderTypeOK
  /\ command \in Commands
  /\ args \in Arguments
  /\ status \in {"starting", "running", "exited", "died", "crashed"}
  /\ test_output \in {"NULL", "option", "default"}
  /\ file \in Run \cup {NoFile}
  /\ playback \in {"none", "playing", "finished"}

(* What a subcommand does not look at is not enumerated for it. *)
Untested ==
  /\ \A d \in Devices : actual[d] = 0
  /\ current_state.online /\ current_state.percent = CHOOSE p \in Percents : TRUE
  /\ args.test = CHOOSE t \in Tests : TRUE
  /\ args.duration = NoArgument
  /\ args.min_battery = NoArgument
  /\ command = "play" => ~args.output

CommandInit ==
  /\ Init
  /\ SystemStateInit
  /\ WaitInit
  /\ RecorderInit
  /\ command \in Commands
  /\ args \in Arguments
  /\ args.min_battery_last => NoArgument \notin {args.duration, args.min_battery}
  /\ status = "starting"
  /\ test_output = IF args.output THEN "option" ELSE "NULL"
  /\ file = NoFile
  /\ playback = "none"
  /\ command # "test" => Untested
  /\ command # "play" => devices = {}

-----------------------------------------------------------------------------
(* parse_duration: one to three numbers with their units, summed up; a unit *)
(* may come twice.                                                          *)
Parses(spelling) ==
  /\ Len(spelling) \in 1..3
  /\ \A i \in 1..Len(spelling) : spelling[i][2] \in Units

ParseDuration(spelling) ==
  FoldLeft(LAMBDA total, part : total + part[1] * UnitLength[part[2]], 0, spelling)

(* --min-battery overwrites half of the pointer test_duration: with zero it *)
(* stays NULL if it was, anything else parse_duration follows to nowhere.   *)
(* --duration replaces the pointer, whatever it was.                        *)
Crashes(a) ==
  /\ a.min_battery # NoArgument
  /\ a.duration = NoArgument \/ a.min_battery_last
  /\ a.duration # NoArgument \/ a.min_battery # 0
Duration(a) ==
  [type |-> "TIME",
   limit |-> IF a.duration = NoArgument THEN DefaultLimit ELSE ParseDuration(a.duration)]
DurationParses(a) == a.duration = NoArgument \/ Parses(a.duration)

(* Whatever `gbb test' can be asked for is among the durations of a run.    *)
ASSUME DurationsOfTestAssumption ==
  \A a \in Arguments : ~Crashes(a) /\ DurationParses(a) => Duration(a) \in Durations

(* test, up to its main loop: the player of a new runner is not ready. *)
Test ==
  /\ command = "test" /\ status = "starting"
  /\ status' = IF Crashes(args) THEN "crashed"
               ELSE IF DurationParses(args) THEN "running" ELSE "died"
  /\ UNCHANGED <<vars, stateVars, waitVars, recorderVars, command, args,
                 test_output, file, playback>>

Testing == command = "test" /\ status = "running"

(* on_runner_phase_changed when the phase is no other, or one it ignores *)
PhaseIgnored ==
  /\ phase' = phase \/ phase' \notin {"RUNNING", "STOPPED"}
  /\ UNCHANGED <<actual, refused, status, test_output, file>>

(* The folder of the default path may not be there to be made: gbb dies and *)
(* leaves the brightness of the test.                                       *)
PhaseRunning ==
  /\ phase # "RUNNING" /\ phase' = "RUNNING"
  /\ \/ /\ test_output' = IF test_output = "NULL" THEN "default" ELSE test_output
        /\ UNCHANGED status
     \/ /\ test_output = "NULL"
        /\ status' = "died"
        /\ UNCHANGED test_output
  /\ UNCHANGED <<actual, refused, file>>

(* Mutant of PhaseStopped: a run that has no reading is not written. *)
PhaseStoppedUnwritten ==
  /\ phase # "STOPPED" /\ phase' = "STOPPED"
  /\ Restore
  /\ status' = "exited"
  /\ file' = IF run'.history = <<>> THEN file ELSE run'
  /\ UNCHANGED test_output

(* runner_set_stopped has set the saved brightnesses before STOPPED is      *)
(* announced.  A run without a name for its file fails to be written with   *)
(* no error set, whose message is read all the same.                        *)
PhaseStopped ==
  /\ phase # "STOPPED" /\ phase' = "STOPPED"
  /\ Restore
  /\ \/ /\ test_output = "NULL"
        /\ status' = "crashed"
        /\ UNCHANGED file
     \/ /\ test_output # "NULL"
        /\ \/ status' = "exited" /\ file' = run'
           \/ status' = "died" /\ UNCHANGED file
  /\ UNCHANGED test_output

OnRunnerPhaseChanged ==
  /\ PhaseIgnored \/ PhaseRunning \/ PhaseStopped
  /\ UNCHANGED <<proxy, cached, saved_brightness, original,
                 waitVars, recorderVars, command, args, playback>>

(* test_on_player_ready *)
TestOnPlayerReady ==
  /\ Testing /\ ~player_ready
  /\ player_ready' = TRUE
  /\ Start(args.test, Duration(args))
  /\ Save
  /\ \E failed \in SUBSET Controlled :
       SetBrightnesses([screen |-> TestBrightness, keyboard |-> 0], failed)
  /\ UNCHANGED <<proxy, cached, refused, wait, nodes, selected, listed, vanished, events,
                 devices, changes, both_seen, recorderVars, processVars>>

(* on_sigint: gbb_test_runner_stop, which does nothing before the test has  *)
(* started.                                                                 *)
OnSigint == Testing /\ Stop /\ OnRunnerPhaseChanged

TestPlayerFinished == Testing /\ PlayerFinished /\ OnRunnerPhaseChanged

TestPoll == Testing /\ (PollSame \/ PollChanged) /\ OnRunnerPhaseChanged

TestSystemState ==
  /\ Testing
  /\ \E d \in Devices :
       \/ /\ \/ InterfaceReady(d)
             \/ PropertiesChanged(d)
             \/ \E level \in Levels : ChangeBrightness(d, level)
          /\ UNCHANGED status
       \/ InterfaceFails(d) /\ status' = "died"
  /\ UNCHANGED <<vars, waitVars, recorderVars, command, args, test_output, file, playback>>

-----------------------------------------------------------------------------
(* do_play: the first of its two main loops ends with the wait. *)
Play ==
  /\ command = "play" /\ status = "starting"
  /\ Wait
  /\ status' = "running"
  /\ UNCHANGED <<vars, stateVars, recorderVars, command, args, test_output, file, playback>>

PlayWait ==
  /\ command = "play"
  /\ Thread \/ PlayerBecomesReady \/ DeviceListChanges
  /\ status' = IF wait' = "error" THEN "died" ELSE status
  /\ UNCHANGED <<vars, stateVars, recorderVars, command, args, test_output, file, playback>>

(* on_player_ready, and do_play goes on: "finished" is connected first, and *)
(* a file that cannot be opened is the end of it.                           *)
OnPlayerReady ==
  /\ command = "play" /\ status = "running"
  /\ OnThreadDone
  /\ \/ playback' = "playing" /\ UNCHANGED status
     \/ status' = "died" /\ UNCHANGED playback
  /\ UNCHANGED <<vars, stateVars, recorderVars, command, args, test_output, file>>

OnPlayerFinished ==
  /\ command = "play" /\ playback = "playing"
  /\ playback' = "finished"
  /\ status' = "exited"
  /\ UNCHANGED <<vars, stateVars, waitVars, recorderVars, command, args, test_output, file>>

-----------------------------------------------------------------------------
(* record: an output file that does not exist cannot be opened. *)
Record ==
  /\ command = "record" /\ status = "starting"
  /\ \/ /\ \E f \in IF args.output THEN {"file"} ELSE {"stdout"} : Enable(f)
        /\ status' = "running"
     \/ /\ args.output
        /\ status' = "died"
        /\ UNCHANGED recorderVars
  /\ UNCHANGED <<vars, stateVars, waitVars, command, args, test_output, file, playback>>

RecordEvent ==
  /\ command = "record"
  /\ XRecordCallback
  /\ UNCHANGED <<vars, stateVars, waitVars, processVars>>

RecordEnds ==
  /\ command = "record"
  /\ ContextDisabled
  /\ status' = "exited"
  /\ UNCHANGED <<vars, stateVars, waitVars, command, args, test_output, file, playback>>

-----------------------------------------------------------------------------
CommandNext ==
  \/ Test \/ TestOnPlayerReady \/ OnSigint \/ TestPlayerFinished \/ TestPoll
  \/ TestSystemState
  \/ Play \/ PlayWait \/ OnPlayerReady \/ OnPlayerFinished
  \/ Record \/ RecordEvent \/ RecordEnds

(* A file that is played ends; the thread and the main loop of `gbb play'   *)
(* go on as long as there is something to do.                               *)
CommandSpec ==
  /\ CommandInit /\ [][CommandNext]_allVars
  /\ WF_allVars(TestPlayerFinished)
  /\ WF_allVars(Play)
  /\ WF_allVars(PlayWait /\ Thread)
  /\ WF_allVars(OnPlayerReady)
  /\ WF_allVars(OnPlayerFinished)

-----------------------------------------------------------------------------
(* When `gbb test' exits as it should, the file holds the run, whatever     *)
(* ended it; it crashes (other than by --min-battery) only with nothing to  *)
(* lose, before the first reading and with no --output; and a default name  *)
(* is only made of the date of a run that has one (commandline.c:492-504).  *)
ExitKeepsRun ==
  command = "test" =>
    /\ status = "exited" => file = run
    /\ status = "crashed" /\ run # NoRun => run.history = <<>> /\ ~args.output
    /\ test_output = "default" => run.dated

(* When a test is over, and before anything can fail in writing its run     *)
(* (test-runner.c:46-52), each brightness that was known when it began is   *)
(* back, however the proxies lagged and the user or the daemon changed it   *)
(* meanwhile, unless the very call that sets it has failed, which the code  *)
(* ignores (system-state.c:194-197).  `gbb test' neither exits nor crashes  *)
(* otherwise; but when it dies during the test -- of a folder or a proxy    *)
(* that cannot be made (commandline.c:478-479, system-state.c:80-110) -- it *)
(* leaves the brightness of the test.                                       *)
KnownBrightnessRestored ==
  [][\/ phase # "STOPPED" /\ phase' = "STOPPED"
     \/ Testing /\ status' \in {"exited", "crashed"}
     => \A d \in Devices \ refused' :
          original[d] # Unknown => actual'[d] = original[d]]_allVars

(* `gbb play' replays nothing before the X server has had both devices of   *)
(* the player at once: the first events would reach nobody.                 *)
PlayedToBothDevices == playback # "none" => player_ready /\ both_seen

(* The log balances presses and releases up to and including Super-Q. *)
RecordingBalanced == LogFollowsInput /\ StopReleasesAll

(* A SIGINT that is taken up, by a run in PROLOGUE, WAITING or RUNNING, ends *)
(* `gbb test'.  (One that comes before the player is ready meets no run and *)
(* is swallowed, commandline.c:584-590; a later one finds the run ending.)  *)
SigintEndsTest == (command = "test" /\ user_ended) ~> status # "running"

(* No wake-up is lost: if the player is ready and its devices stay,         *)
(* `gbb play' plays its file to the end, or dies of a file that cannot be   *)
(* opened (event-player.c:94-96) or of a device that vanished while the     *)
(* list was looked at.                                                      *)
PlayStarts ==
  <>[](command = "play" /\ player_ready /\ devices = Nodes)
    => <>(playback = "finished" \/ status = "died")

CommandsEnd == SigintEndsTest /\ PlayStarts
==============================================================================
