# A TLA+ model of gnome-battery-bench

gnome-battery-bench measures the power use of a laptop: it replays recorded
input events in a loop while the machine runs on battery, samples the
battery's charge, and keeps the samples in a log file. This directory holds
a model of the program in TLA+, the TLC configurations that check it on small
instances, and theorems about it with proofs for TLAPS. Paths below are those
of the repository; `src/x.c` files are given as `x.c`.

## 1. The system and its parts

| component | state | operations and callbacks | talks to |
|---|---|---|---|
| test runner (`test-runner.c`) | phase, stop_requested, force_stop, the run | start, stop, force_stop; the player's "finished", the monitor's "changed" | drives player, run and system state; emits "phase-changed" |
| test run (`test-run.c`) | duration, history of readings, start time, file name | add a reading, is_done, write and read the JSON file | read by application, graphs |
| event player (`event-player.c`) | ready | play_file, stop; emits "ready", "finished" | abstract class |
| remote player (`remote-player.c`) | pending_fd, started, D-Bus proxies | the same, by D-Bus; Play asynchronous, Stop synchronous | replay helper |
| replay helper (`replay-helper.c`) | per player: invocation, connection to its creator | CreatePlayer (with a polkit check), Play, Stop, Destroy; creator vanishes | evdev player |
| evdev player (`evdev-player.c`) | input stream, next event and its timer | play_fd, stop, next_event_timeout | uinput, event log |
| event log (`event-log.c`) | a stream position | read one event | |
| power monitor (`power-monitor.c`) | current reading | a timer polls the supplies; "changed" | power supplies |
| power supplies (`power-supply.c`, `util-sysfs.c`) | cached attributes | poll a battery, poll the mains | sysfs |
| system state (`system-state.c`) | two proxies, saved brightnesses | save, set, restore | gnome-settings-daemon |
| application (`application.c`) | button, shortcut, inhibitor lock, exit_requested, log list | click, shortcut, close, delete, PrepareForSleep, phase-changed | runner, logind, disk |
| command line (`commandline.c`) | options, the run, its file | play, play-local, record, monitor, test, SIGINT | runner, recorder, wait |
| device wait (`xinput-wait.c`) | a thread, the player's nodes | ask for news, look at the device list, wait | X server |
| recorder (`event-recorder.c`) | keys and buttons held, the context | record events, end at Super-Q | X server |
| power graphs (`power-graphs.c`) | the run shown, ranges of the axes | show a run, follow it | test run |
| battery tests, system info, utilities | | a directory scan, formatting | |

Client and helper are two processes, each a single-threaded GLib main loop, so one
callback runs to its end before the next begins; the one thread is that of
`xinput-wait.c`. What is hard is mostly not threads but the order of callbacks:
the end of a file, the plug being pulled, the user's stop, the closing of the
window and the machine's sleep can come in any order and in every phase, and each
is half-finished while the player is being stopped. On top of that, Stop blocks
the client while the answer to Play waits in its queue, messages may be late, and
the helper may die. PROJECT.json lists each hazard at its line, with the
properties that look for it.

What makes each part correct:

- **runner**: the player does what the phase says; every stop is honoured; an
  ordinary stop plays the epilogue and a forced one does not; the readings are
  there when they are dereferenced; nothing of a run leaks into the next;
- **run**: the history is bounded whatever the battery reports, and frozen
  outside of RUNNING; a time limit ends the run;
- **players**: every accepted file is followed by exactly one "finished";
  when a Stop returns nothing plays or will play; events keep the pace of the
  recording and what is pressed is released;
- **helper**: every call is answered, and once (a Play with wrong file descriptors
  is the exception, section 4); nothing is replayed for a client that has left;
- **monitor and supplies**: what is reported is what the batteries hold, whatever
  cannot be read; predictions are sane; nothing is signalled without a change;
- **file of a run**: what is written can be read back;
- **graphs**: what is known of a curve stays inside its chart while it grows;
- **system state**: a brightness that was known is given back, if the device
  takes it and the process lives;
- **command line**: a test that exits has kept its run; SIGINT ends a run;
- **device wait**: no news of a device is missed, nothing is played before both
  are there;
- **recorder**: presses and releases are balanced at the shortcut that ends it;
- **application**: the lock spans the run; the machine gets to sleep; the window
  closes; what the log lists is in the files.

## 2. Modules

`TestRun` is the constant part of the runner's view of a run: the run as a
record, and the two decisions of `test-run.c`, whether a reading is kept
(`UseState`) and whether the run is over (`IsDone`). Divisions of doubles are
written multiplied out, signs and zero included. Percentages are small natural
numbers.

`TestRunner` extends it with the state machine. Each action is a public function
or a callback, with everything it calls. `player` is abstract: "idle", the file
being played, or "stopping". The operator `SetEpilogue(now)` and its fellows take
as a parameter what the player does at the time of the call, because a
"finished" handler runs when the player is already idle again. `current_state`
is the monitor's last reading; `PollSame` is a poll that `update_timeout` drops,
`PollChanged` one that reaches `on_power_monitor_changed`. `user_ended` is
auxiliary.

`EventPlayer` is the promise of `GbbEventPlayer` alone: Play, Stop, Finish, with
Finish weakly fair; the handler of "finished" may play the next file at once
(`FinishAndPlay`). This is exactly what `TestRunner` assumes about `player`.

`RemotePlayer` is the client's `GbbRemotePlayer`, the helper's player object and
the two directions of D-Bus between them, as sequences of messages that keep
their order. `stopped`, `accepted` and `finished` are auxiliary. A file may be
accepted before the player is ready, and is then started by the last of the
set-up callbacks. The refinement `AbstractSpec` maps it to `EventPlayer`: idle,
playing or stopping. It is claimed of all steps, and of liveness for as long as
the set-up does not fail and no file is given up before it was started
(`GivenUp`): for such a file the code emits no "finished". The client plays only
when idle and stops at most once what it plays; `TestRunner!PlayerMatchesPhase`
shows that the runner does, and `Application!PlayerReadyWhenUsed` that it does
not play before "ready".

`EvdevPlayer` is the helper's player of one file after another: the lines not
read yet, the event read ahead, its timer, the clock since the start, the keys
that are down. The clock counts ticks, the microseconds of the code, `Ms` of them
to a millisecond. `due` is when the timer fires: `queue_event` computes it from an
event's time, which wraps (`Scheduled`), and cuts the wait off to whole
milliseconds (`TimerFor`), so that an event can come up to a tick less than a
millisecond early. `latest` is auxiliary: how late `due` may be however the main
loop dawdled before. A line that cannot be read ends the process (`die`),
and `Bury` is what the client then sees. `AbstractSpec` maps it to `EventPlayer`.
Kinds of events other than press and release do not differ; the line parser of
`event-log.c` is an event, the end of the file or a bad line.

`Helper` is `replay-helper.c` around that player, which it sees as playing or
not: the two asynchronous steps of polkit, the creation of the player, Play,
Stop, Destroy and NameOwnerChanged. Any client, not only this program's, may
call anything once its CreatePlayer has been answered, a Play with no or wrong file
descriptors included (`BadPlays`): `HandleBadPlay` and `HandlePlayWithoutFd` send the
error and go on as replay-helper.c:86-112 does, to a second answer, to a file that
plays for an invocation that is gone (`Answered` is who gets the answer then), or to
the helper's end. `stale` is auxiliary: such a Play has been let through. This
program's client always passes one descriptor (remote-player.c:96-107), which is
what `RemotePlayer` models. What the bus delivers is
one sequence, in the order in which the bus sent it. A client that leaves while
its authorization is checked is watched in vain: its player stays for ever, but
never plays (`NobodyPlaysAlone`). `RemotePlayer` models the same Play and Stop
again, for one well-behaved client, with late messages and the helper's death.

`Application` instantiates `TestRunner` and adds the window, the lock, the log and
logind. The display is one of X11 or not (`x11`, any of the two at the start):
only on the first is the shortcut taken and given back (application.c:523, 899).
An action is the runner's action and, in the same step, `PhaseChanged`:
`on_runner_phase_changed` is a signal handler and runs before the runner's call
returns. Of the run's file only the number of readings in it is kept, or that it
holds the text written to force an fsync, or does not exist.

`PowerState` is the constant part of the power monitor: a reading, when two are
equal, and the statistics of a pair. Doubles are integers or `NaN`, whose
comparisons are those of C; a quotient is a pair that is compared multiplied
out. `PowerSupply` is what a battery or adapter makes of its attributes in
sysfs: which of energy and charge is read, and the capacities, are settled at
construction; `MainsPoll` returns an uninitialised variable when the attribute
cannot be read, hence both values. `PowerMonitor` composes them: the sum over the
batteries in the order of the list, the poll, and `gbb monitor` as its client.
The kernel changes attributes between polls.

`RunFile` is `test-run.c` with energies instead of whole percents: the filter
with the extremes it keeps for the graphs, the elements of the JSON file with
what is left out of them and how they are rounded, and the reading back, which
applies the filter again. An element that the filter drops is freed and then
used as the start of the next one; `Freed` is the set of what may be found
there. `PowerGraphs` composes it with the ranges and curves of `power-graphs.c`
and with a file that may hold half a write or be spoilt. The axes end at 100 W and
48 hours, and so does the promise of `CurveInsideChart`: what is longer leaves the
chart, as `round_up_time` has it. The promise is about what is known, at all four
edges: power and life between zero and the top of the axis, the percentage between
0 and 100, no point before the first reading or beyond the time axis. Statistics
that are not known are -1 and drawn below the chart, an unknown charge too, and a
battery that reports more than its capacity above it (power-graphs.c:262-293).

What recurs over a list is written as a recursive function (`SumUp`,
`SumUpDesign`, `ReadFromFile`) or as the least index of a set (`RoundUp`), which the
proofs can reason about.

`CommandLine` is `commandline.c` with three of its subcommands. `gbb test` is the
second client of `TestRunner`, whose actions it conjoins with `SystemState`: the
two asynchronous proxies, which may not be had, the cached property, save, set and
restore, where the daemon may refuse each single set (`refused` keeps which of the
last restore). `gbb play` waits with `XInputWait`, step by step between two calls
of the X server: the list is one call (`QueryDevices`), the property of each
device in it another, which ends the process if the device has vanished meanwhile
(`CheckForDevices`). `gbb record` drives `EventRecorder`. The variable `command`
says which of them is running; what a subcommand does not look at has one initial
value for it (`Untested`).

`MCTestRunner`, `MCApplication`, `MCEvdevPlayer`, `MCPowerMonitor`, `MCPowerGraphs`
and `MCCommandLine` hold the instances for TLC, the modules ending in `_proofs`
the theorems.

Operators whose comment begins with "Mutant" are plausible mistakes in the
definition that follows them. They are used nowhere in the model: for each
property that a run checks, PROJECT.json names a mutant that must break it.

## 3. Runs

| run | instance | shows |
|---|---|---|
| runner_safety | tests with and without prologue and epilogue; one time and one percent limit; charges 0..2; clock to 5 | player, flags and run follow the phase (PhaseConsistent); the history is bounded (HistoryBounded); what the end of a run may do (OrderlyEnd: nothing played after a forced stop, history frozen, epilogue unless forced, and the call that restores the brightness; whether that succeeds is a matter of command_line); an end asked for comes (EndRequestHonoured); a time limit ends a run while readings keep changing (DrainingRunEnds); a test without prologue ends only when done or asked to (LoopEndedForAReason) |
| runner_stale_stop | the same tests, charges 0..1 | finding: tests with a prologue may end for no reason |
| runner_brightness | the same | finding: the brightness is not always restored |
| runner_never_ends | time passes (SpecPolling), readings need not change | finding: a time limit may never be noticed |
| remote_player | 8 calls of the client | helper and client agree, one Play for each file started, none refused (CallsMatchPlayback); nothing plays or will play when a Stop is answered (SilentWhenStopped); StopAlwaysReturns; the refinement of EventPlayer |
| evdev_safety | eight logs of up to five events and two keys, with equal times, times out of order, one that wraps, and bad lines; three files | no event a whole millisecond early nor put off by more than those before it (KeepsPace); nothing left down (ReleasedAtEnd); the refinement of EventPlayer |
| helper_safety | five calls of any kind, wrong Plays included; the helper's death | every call answered, once unless a wrong Play was let through, playback agreeing with it (AnswersMatchPlayback), and in the end (CallsAreAnswered); nothing played for a client that has left (NobodyPlaysAlone, VanishedIsDestroyed) |
| app_safety | X11 or not; a test with and one without prologue and epilogue, time limit 1, charges 0..1, clock to 3 | the lock (LockSpansRun), button and shortcut (WindowFollowsRun), file and log (LogMatchesRun); SleepComes, CloseHonoured |
| app_data_lost | as app_safety | finding: a failing second write destroys the first |
| power_monitor | a battery read by energy and one read by charge, of three and two kinds; one adapter; three polls | the sum over the batteries (EnergyAccounted), predictions of the battery's life (PredictionCoversElapsed), no signal without a change (QuietWhenSteady) |
| run_file | three readings at three gaps, four energies or NaN, limits of time and of charge, known and unknown capacities | what is written is what is read back (ReadBackFaithful); what is known of the curves is inside their charts (CurveInsideChart) |
| command_line | a test with both files and one with none, one time limit; --duration right, wrong or none, --min-battery before or after it; two brightnesses of two devices; four changes of the device list; logs of five entries | the file holds the run (ExitKeepsRun); brightnesses given back unless refused, before the process can exit or crash (KnownBrightnessRestored); PlayedToBothDevices; RecordingBalanced; SIGINT and `gbb play` come to their end (CommandsEnd) |

**Bounds.** `MaxTime` is where the clock stands still; it is beyond the time
limit by more than one share of it (`MaxTimeAssumption`), so runs of full length
occur, and since only differences of times are used nothing depends on where it
stops. `TimeSamples` and `PercentSamples` stand for 100 and 200: with 1 and 2 a
history has up to three readings, and readings are both kept and dropped;
longer ones are left to the theorem HistoryAlwaysBounded. Charges
0..2 with limit 1 make starts above, at and below the limit, so the divisor of
`QuotientExceeds` takes all three signs. The clock is reset when a run starts,
so states of successive runs coincide and any number of runs follow each other.
`MaxSerial` counts the client's calls: eight are four plays and stops, more than
the two needed for a late Stop to meet the next Play. One PrepareForSleep is
pending at a time.
The evdev player's `Ms` of three ticks has remainders to cut off, `Wrap` of 24 ticks
stands for 2^32 microseconds, and one log goes beyond it. `Slack` is how late the main
loop comes to a timer: two ticks leave a rest of a millisecond at every event, and
let the clock overtake the next one.
`MaxPlays` is three: a file after a stop, after an end, and after both. The
helper's five calls are CreatePlayer and four more, enough for two Plays with a
Stop between them and a Destroy.
The monitor's two batteries are the least number for which an order of the sum
matters, three polls the least for a reading to be compared with one that is
neither the first nor the last. `Ms`, `Micro`, `Minute` and `Hour` are scaled so that
four ticks make a millisecond and two units a millionth of a Wh: every remainder
of the rounding occurs, and the readings' gaps are below, at and above what
rounding can hide. With three readings an element is read after one that was
dropped. `MaxChanges` lets each device come, go and come again; `MaxLog` of five
allows a key and a button to be held at Super-Q and released once more.
`MinBatteries` has one value, 5; what zero does differs in `Crashes` only.

**Deadlock** is checked for the runner, the application, the monitor and the
run's file. The three players stop when their calls or files are used up, their
set-up has failed or their process is dead, and a subcommand exits, so their
configurations switch the check off; `StopAlwaysReturns`, `CallsAreAnswered`,
`CommandsEnd` and the fairness parts of the two `AbstractSpec` say that they do not
stop in between.

**Fairness.** The player finishes (`WF` of PlayerFinished): event logs are finite
and every Play is answered, which is what `RemotePlayer` refines. Main loops
dispatch and the bus delivers; nothing makes the helper die, or a device or the
daemon fail. logind sleeps when no lock delays it. Users,
batteries, the plug, the helper's death, time-outs and logind's patience get no
fairness. Timers fire once time has passed, and it does pass. polkit's
check gets no fairness either: it may wait for the user. `SpecPolling` adds that
the monitor's timer fires (power-monitor.c:234), which is not enough for
TimedRunEnds; `DrainingRunEnds` has as its premise that readings keep changing,
as on a machine that is discharging. `CommandSpec` has the thread of the wait go
on, its callback dispatched and files end; the X server's device list, the
readiness of the player, SIGINT and the settings daemon get none, and PlayStarts
has it as its premise that the player is ready and the devices stay.

## 4. Findings

Each of the first four is the subject of a run that must find it.

1. A stop in PROLOGUE, followed by a forced stop, leaves `stop_requested` set,
   and the next run with a prologue ends at once (test-runner.c:69-72).
2. A forced stop in WAITING does not restore the brightness (test-runner.c:263).
3. A time limit is not noticed while the energy reading stands still
   (power-monitor.c:216).
4. A run written for a sleep is lost if its second write fails
   (test-run.c:424).

These are in the models as the code has them, and the properties allow for
them:

- the time of an event is multiplied by 1000 in 32 bits: what comes after 71
  minutes of a log is replayed too early (evdev-player.c:120; `Scheduled`); and the
  wait for any event is cut off to whole milliseconds, up to 999 us too short
  (evdev-player.c:121; `TimerFor`);
- a Play with no file descriptor, more than one or a wrong index is answered with an
  error, after which the handler goes on: a second answer, a file that plays for an
  invocation that is gone, or `fds[0]` of a NULL array (replay-helper.c:86-112;
  `HandleBadPlay`, `HandlePlayWithoutFd`). What survives is that no call is dropped;
- statistics that are not known are -1 and drawn below the charts, and a battery that
  reports more than its capacity above one (power-graphs.c:262-293; `Curve`);
- a set of the brightness that fails is only warned about: the brightness of the test
  stays (system-state.c:194-197; `refused`);
- `gbb test` that dies during the test, because the folder of its log cannot be made
  (commandline.c:478-479) or a proxy cannot be had (system-state.c:80-110), leaves
  the brightness of the test (`PhaseRunning`, `InterfaceFails`);
- a SIGINT that comes before the player is ready is swallowed: the test starts all
  the same (commandline.c:584-590; `OnSigint`);
- a device that vanishes after XIQueryDevice has listed it and before its property is
  asked for ends `gbb play` with an X error (xinput-wait.c:63-67; `CheckForDevices`);
- a run of one reading is written for a sleep and then not listed
  (application.c:892);
- the file of `gbb record --output` is opened for reading, so it has to exist and
  stays as it is (event-recorder.c:183), while docs/gbb.txt:76 says that events
  are recorded to it;
- `--min-battery` (docs/gbb.txt:95-97) is parsed into the variable of
  `--duration`, a pointer: alone or after `--duration` it makes that point to nowhere,
  before it it has no effect (commandline.c:454-455; `Crashes`);
- SIGINT in WAITING, without `--output`, crashes `gbb test`: the file has no name
  and the failure no error (commandline.c:499-506; `PhaseStopped`);
- the readings of a run may be read from freed memory when the filter drops one
  of them (test-run.c:694; `Freed`), and an energy that was not known is read back
  as the one before;
- the adapter's state is an uninitialised variable when it cannot be read
  (power-supply.c:494; `MainsPoll`);
- Destroy during playback answers the Play with success instead of the error of
  replay-helper.c:35-38; no client of the program calls Destroy.

## 5. Proofs

`TestRunner_proofs` proves for every set of tests, durations and charges, every
MaxTime, TimeSamples and PercentSamples that satisfies the assumptions of
`TestRun`:

- `Invariance`: `Spec => []IInv`, where `IInv` is the conjunction of TypeOK,
  PlayerMatchesPhase, ForceStopOnlyWhileStopping, RunUsable and HistoryBounded.
  They hold only together: an action that uses the run needs one to be set, a
  finished player must meet the phase that waits for it, and a forced stop must
  find the player stopping.
  The proof is split into a control part (phase, player, flags), which does not
  look at the readings, and a contents part (the run), which needs one lemma
  per operator of `TestRun`. `HistoryBounded` rests on `AddKeepsShares`: a
  reading that is kept uses up one more share, the two durations being summed
  by `SumOfShares` and `SumOfSharesDown`.
- its consequences TypeCorrect, PhaseAlwaysConsistent (from the theorems about
  its three parts) and HistoryAlwaysBounded;
- LoopAlwaysEndedForAReason, with `EndInv`: only a test with a prologue is ever in
  PROLOGUE, the one phase that can obey a stop requested for an earlier run;
- AlwaysOrderlyEnd, the conjunction of four action properties, each from the
  invariant: ForceStopAlwaysFinal, HistoryAlwaysFrozen, EpilogueAlwaysPlayed and
  AlwaysRestoredAfterPlayback.

`Application_proofs` proves, for every instance of the runner and from the
invariant `ControlInv` alone, LockAlwaysSpansRun and WindowAlwaysFollowsRun (of
the shortcut: on an X11 display alone, and never on another). The write, the stop
and the release are calls of one callback and one step, so that their order within
it is not observed. LogAlwaysMatchesRun rests on `LogInv`: a file with readings
belongs to a run that has stopped or that is being stopped *by force*, which no
epilogue follows; that a run is RUNNING when it is saved in a hurry says that it
had no file before. RunnerRefined shows that every step of the application is a
step of its `Runner` or leaves the runner alone (the initial states likewise;
fairness is not claimed, because the machine may sleep). By it
RunnerAlwaysConsistent carries the invariant of `TestRunner_proofs` over (the
module is instantiated there as `Proved`, and `RunnerParts` says that both name
the same formulas), and TypeCorrect adds the types of the window, the lock and the
log.

`EvdevPlayer_proofs` proves for all logs, any Wrap, Slack and MaxPlays, from the
invariant `PlayInv` (a file that is open is the one accepted and not finished, and
a living player has a timer only while one is open): TypeCorrect;
ImplementsEventPlayer, the safety part of the refinement, where every action is
shown to be Play, Finish or a stutter; AlwaysKeepsPace, from `PaceInv` (the clock is
at most `Slack` past a timer that is set), with `QueueEventKeepsPace` for the one
operation that sets a timer and `RoundedDown` for what it cuts off; and
AlwaysReleased, which
assumes that in every log a press is followed by a release of its key
(`Balanced`). Its invariant `ReleaseToCome` says where the release of a key that is
down is: it is the event that waits for its timer, or among the unread lines,
unless a stop has left the key down.

`Helper_proofs` proves for any number of calls TypeCorrect,
AnswersAlwaysMatchPlayback and NobodyEverPlaysAlone. Neither property is
inductive. `IInv` follows a call by its serial number: a call that waits neither in
the queue nor with the player is answered, and, until a wrong Play has been let
through (`stale`), once, and not before (`AnswerInv`); no number is queued twice, and
the first is CreatePlayer (`QueueInv`); the stages of the player tell which
calls can have been made (`StageInv`); a player that is there is watched, and
the signal queued once its client has left, or nothing but CreatePlayer was ever
called (`WatchInv`). `AppendSerials` and `TailSerials` say what sending and
receiving do to the numbers in the queue, `ReplyFacts` what an answer does;
`HandlerStep` puts together what they do to `AnswerInv`: a handler takes one call and
adds one answer, to it or to the Play that ends (`OneAdded`, `FinishAdds`), or two to
a wrong Play, which makes it stale. `HelperEndsStep` is the end of the process, at
which the bus answers whatever waits.

`RemotePlayer_proofs` proves for any number of calls TypeCorrect,
CallsAlwaysMatchPlayback, AlwaysSilentWhenStopped and ImplementsEventPlayer, the
safety part of the refinement. The counts of OnePlayPerStart are not what is
inductive; the places are: a Play is under way to the helper, being played or
answered, at one of them at a time and only once in a queue, and its file is
started exactly while it is at one (`PlaceInv`). The calls under way were made one
after the other, and after the Play that is played (`OrderInv`). A file is pending
only before the player is ready, and all accepted files but the current one have
had their "finished" (`CountInv`). AlwaysSilentWhenStopped adds `StopInv`: an
answer to a Stop is older than all that is played or under way to the helper
(`Past`), and the client is blocked on its last call, about a file that is
started; so the answer it waits for finds nothing younger, and the Play must be at
the one place that is left, answered. `AppendPlays`, `ConcatPlays` and `TailPlays`
say what the operations on queues do to the Plays in them, and each action has a
lemma.

`CommandLine_proofs` proves for all tests, levels, devices and bounds
ExitAlwaysKeepsRun, from `OutputInv` (the output file is named when the run becomes
RUNNING, which dates it, so that a run that ends without a name has never run);
KnownBrightnessAlwaysRestored, from `BrightnessInv` (what is cached comes from a
proxy and a device that the daemon controls, and what was known is what was
saved), of every callback that stops the run, and of every exit and crash, which it
shows to be such callbacks; a death during the test and a set that is refused are
outside of it, as the code has them (section 4); and AlwaysPlayedToBothDevices, from
`WaitInv` (how far the wait is says what has been seen, the list that a thread is
looking at included). RecordingAlwaysBalanced follows from `RecorderInv`, whose lemmas
say what a press, a release and the releases at Super-Q do to the log as a
sequence: an entry alternates with the earlier ones of its code exactly if the
code was held or not (`HeldBy`), and what is held is what the two lists of the
recorder have. `CommandInvariance` puts these together with the invariant of the
runner, which `gbb test` uses as specified (`RunnerUsed`: it starts one run, of a
duration it could parse, `ProcessInv`); CommandTypeCorrect and
TestKeepsRunnerInvariants are its consequences.

`PowerMonitor_proofs` proves for any number of batteries, any sets of attributes
and any levels TypeCorrect, EnergyAlwaysAccounted, AlwaysQuietWhenSteady (an action
property) and PredictionAlwaysCovers. `IInv` says of the current reading that it is
`ReadState` of what the supplies were when they were polled last (`polled`), and of
the start state that it is `ReadState` of *some* earlier attributes that the same
batteries can have (`WasRead`, `Held`); batteries never change what they settled
at construction (`Settled`). That reduces each property to one about `SumUp`:
`SumOfKnown`, `SumOfSome`, `SumOfBounded` and `SumOfDesigns` are shown by induction
over the list of batteries. PredictionAlwaysCovers assumes `NeverOverfull`, that a
battery never reports more than its capacity: with one at 101% of a worn capacity
the prediction from the start may be shorter than the time already spent. TLC
evaluates `NeverOverfull` for the run's instance.

`PowerGraphs_proofs` proves for all limits, gaps, energies, capacities, units and
numbers of readings TypeCorrect, AlwaysReadBackFaithful, LiveCurveAlwaysInside and
CurveAlwaysInside. `IInv` says that

- the live run has readings of one battery in the order of time, each of which
  used up a share if charge is limited (`Measured`), and that it then uses energy
  up (`UsesUp`), which is why its last prediction covers the time before;
- the extremes it keeps bound its curves (`Extremes`), the run read back included;
- the file holds the elements of the run's *first n* readings, but for those that
  were spoilt (`Holds`): readings that are added later do not change them
  (`AddKeepsHolds`);
- a run read back is dated and its readings are of batteries as `Held` has them
  (`Dated`, `HeldRun`), which is what bounds its percentage and its first point;
- the ranges are those of what is shown.

What reading a file gives is shown by induction over its elements: a run with its
extremes (`ReadRuns`); readings that come from the written ones in their order,
although one that the filter drops leaves the next to start from freed memory
(`ReadContents`, `Traced`: time and energy are in every element and owe nothing to
the reading before); and, if the readings are spaced widely enough, each exactly
(`ReadExactly`, where a missing capacity or adapter state is found in the reading
before). The arithmetic of rounding is in `RoundedGap`, `FarEnoughInTime` and
`RoundedPercent`. LiveCurveAlwaysInside has no premise: the bottom edge is
`StatisticsNotNegative`, the percentage `PercentInside` and `ChargeInside`.
CurveAlwaysInside, about
the run that was read back, assumes `WholeMicros`: that the battery reports whole
millionths of a Wh, which the file then keeps exactly. TLC found why it has to: when
a unit is a quarter of a millionth, energies of 8, 7 and 6 units are rounded to
readings of which the filter drops one, and the next starts from
memory that has been freed, without a capacity; in the run's instance (half a
millionth) the invariant happens to hold although `WholeMicros` does not.

**Induction.** The library's induction theorems take an operator, which no prover
here instantiates. The two modules therefore prove `Induction` for *sets*, from
`LeastNat` (every non-empty set of naturals has a least element, by
`WFMin`), and `RecursionExists`: a function on 0..N that is defined by recursion
exists and satisfies its equations. Both are stated once in each module.

What the proofs found wrong in the models: a timer of the monitor could
fire beyond `MaxTime` (`UpdateTimeout`), so that types failed at the bound;
`CurveInsideChart` promised the time axis for limits over 48 hours; and what it
promises of a run that was read back depends on the precision of the battery
(above).

The assumptions are the named ASSUMEs of the modules, which TLC evaluates in the
runs, and the premises of AlwaysReleased, PredictionAlwaysCovers and
CurveAlwaysInside. An assumption says only what kind of value a constant is, with
these exceptions: `MaxTimeAssumption` of the runner (section 3),
`DurationsOfTestAssumption` (what an option of `gbb test` means is one of the
durations the runner knows), `PeriodAssumption` of the graphs (two polls of the
monitor are at most five minutes apart, the least step of the time axis; the code
polls four times a second, power-monitor.c:11) and `KeysAssumption` (Q is a key,
and keys, buttons and the wheel differ).

Model-checked only:

- liveness: EndRequestHonoured, DrainingRunEnds, StopAlwaysReturns,
  VanishedIsDestroyed, CallsAreAnswered, SleepComes, CloseHonoured, CommandsEnd
  and the fairness parts of the AbstractSpecs, out of the prover's reach (they
  need ENABLED, for every weakly fair action).

Every invariant and every action property that a passing run checks is a theorem,
under the premises named above.

## 6. Not modelled, and the plan

Left out for good: labels and the painting of graphs, the format of dates and
numbers, system information (`system-info.c`), the table of tests
(`battery-test.c`, whose result is the constant Tests), D-Bus introspection data:
they have no state that another part acts on. Also left out:

- `gbb info`, which prints and exits; `gbb_event_log_duration`, whose result is
  `loop_time` in RunFile;
- the cancellation of the device wait, which no caller uses;
- the parsing of a line of a log: an unreadable time would be any time
  (event-log.c:58), and durations whose numbers overflow;
- virtual devices and the wait for them in `evdev-player.c`, a success or a failure
  in `Helper`;
- the folder of logs as a whole: `Application` has one run's file, and its reading
  back at a start is in `PowerGraphs`.

Planned, the most important first:

1. the runner on top of the remote player instead of the abstract one, in one
   module, as a check of what the two refinements promise together, and the
   theorem that `Application` with `RemotePlayer` still keeps its promises;
2. the proved steps towards the liveness properties that do not need ENABLED:
   what must hold while an obligation is open, as action properties;
3. two clients of the helper at once, sharing its serial numbers.
