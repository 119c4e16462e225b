-------------------------- MODULE CommandLine_proofs --------------------------
(***************************************************************************)
(* Theorems about the command line: `gbb test' gives back the brightnesses *)
(* it knew and leaves no reading unwritten, and `gbb play' plays to both   *)
(* devices, for all sets of tests, levels and controllable devices,        *)
(* whatever the server's device list and the settings daemon do.           *)
(***************************************************************************)
EXTENDS CommandLine, TestRunner_proofs, SequenceTheorems, TLAPS

-----------------------------------------------------------------------------
(* What is cached comes from a proxy that is there and a device that the    *)
(* daemon controls; so does what was known when it was saved, and then the  *)
(* saved value is the known one.                                            *)
CachedByProxy ==
  \A d \in Devices : cached[d] # Unknown => proxy[d] /\ d \in Available

OriginalSaved ==
  \A d \in Devices :
    original[d] # Unknown => /\ proxy[d] /\ d \in Available
                             /\ saved_brightness[d] = original[d]

BrightnessInv ==
  /\ SystemStateTypeOK
  /\ CachedByProxy
  /\ OriginalSaved

LEMMA InitBrightnessInv == CommandInit => BrightnessInv
BY LevelsAssumption
   DEF CommandInit, SystemStateInit, BrightnessInv, SystemStateTypeOK, CachedByProxy,
       OriginalSaved

(* The callbacks of the proxies and the daemon keep the invariant. *)
LEMMA SystemStateStep ==
  ASSUME BrightnessInv, NEW d \in Devices,
         \/ InterfaceReady(d)
         \/ InterfaceFails(d)
         \/ PropertiesChanged(d)
         \/ \E level \in Levels : ChangeBrightness(d, level)
  PROVE  BrightnessInv'
<1> USE DEF BrightnessInv, SystemStateTypeOK, CachedByProxy, OriginalSaved
<1>1. CASE InterfaceReady(d)
  BY <1>1 DEF InterfaceReady
<1>2. CASE PropertiesChanged(d)
  BY <1>2 DEF PropertiesChanged
<1>3. CASE \E level \in Levels : ChangeBrightness(d, level)
  BY <1>3 DEF ChangeBrightness
<1>4. CASE InterfaceFails(d)
  BY <1>4 DEF InterfaceFails, stateVars
<1> QED
  BY <1>1, <1>2, <1>3, <1>4

(* Setting brightnesses changes only what the devices show. *)
LEMMA SetBrightnessesType ==
  ASSUME actual \in [Devices -> Levels], NEW levels \in [Devices -> Levels],
         NEW failed, SetBrightnesses(levels, failed)
  PROVE  actual' \in [Devices -> Levels]
BY DEF SetBrightnesses

(* A callback of the runner leaves the caches and what was saved alone, and *)
(* sets the devices, if at all, to what was saved.                          *)
LEMMA PhaseChangedStep ==
  ASSUME BrightnessInv, OnRunnerPhaseChanged
  PROVE  BrightnessInv'
<1>1. UNCHANGED <<proxy, cached, saved_brightness, original>>
  BY DEF OnRunnerPhaseChanged
<1>2. actual' \in [Devices -> Levels] /\ refused' \subseteq Devices
  <2>1. CASE PhaseIgnored \/ PhaseRunning
    BY <2>1 DEF PhaseIgnored, PhaseRunning, BrightnessInv, SystemStateTypeOK
  <2>2. CASE PhaseStopped
    <3>1. PICK failed \in SUBSET Controlled :
            SetBrightnesses(saved_brightness, failed) /\ refused' = failed
      BY <2>2 DEF PhaseStopped, Restore
    <3>2. refused' \subseteq Devices
      BY <3>1, AvailableAssumption DEF Controlled
    <3>3. actual' \in [Devices -> Levels]
      BY <3>1, SetBrightnessesType DEF BrightnessInv, SystemStateTypeOK
    <3> QED
      BY <3>2, <3>3
  <2> QED
    BY <2>1, <2>2 DEF OnRunnerPhaseChanged
<1> QED
  BY <1>1, <1>2 DEF BrightnessInv, SystemStateTypeOK, CachedByProxy, OriginalSaved

LEMMA TestOnPlayerReadyStep ==
  ASSUME BrightnessInv, TestOnPlayerReady
  PROVE  BrightnessInv'
<1> DEFINE levels == [screen |-> TestBrightness, keyboard |-> 0]
<1>1. /\ Save /\ UNCHANGED <<proxy, cached, refused>>
      /\ \E failed \in SUBSET Controlled : SetBrightnesses(levels, failed)
  BY DEF TestOnPlayerReady
<1>2. levels \in [Devices -> Levels]
  BY LevelsAssumption, ArgumentsAssumption DEF Devices
<1>3. actual' \in [Devices -> Levels]
  BY <1>1, <1>2, SetBrightnessesType DEF BrightnessInv, SystemStateTypeOK
<1>4. /\ saved_brightness' = [d \in Devices |-> IF cached[d] = Unknown THEN 0 ELSE cached[d]]
      /\ original' = [d \in Devices |-> IF cached[d] = actual[d] THEN actual[d] ELSE Unknown]
  BY <1>1 DEF Save
<1>5. SystemStateTypeOK'
  BY <1>1, <1>3, <1>4, LevelsAssumption DEF BrightnessInv, SystemStateTypeOK
<1>6. CachedByProxy'
  BY <1>1 DEF BrightnessInv, CachedByProxy
<1>7. ASSUME NEW d \in Devices, original'[d] # Unknown
      PROVE  /\ proxy'[d] /\ d \in Available
             /\ saved_brightness'[d] = original'[d]
  <2>1. cached[d] = actual[d] /\ original'[d] = actual[d]
    BY <1>4, <1>7
  <2>2. cached[d] # Unknown
    BY <1>7, <2>1
  <2>3. saved_brightness'[d] = cached[d]
    BY <1>4, <2>2
  <2> QED
    BY <1>1, <2>1, <2>2, <2>3 DEF BrightnessInv, CachedByProxy
<1> QED
  BY <1>5, <1>6, <1>7 DEF BrightnessInv, OriginalSaved

(* The steps that do not concern the brightnesses *)
LEMMA OtherSteps ==
  ASSUME \/ Test \/ Play \/ PlayWait \/ OnPlayerReady \/ OnPlayerFinished
         \/ Record \/ RecordEvent \/ RecordEnds \/ UNCHANGED allVars
  PROVE  UNCHANGED <<vars, stateVars>>
BY DEF Test, Play, PlayWait, OnPlayerReady, OnPlayerFinished, Record, RecordEvent,
       RecordEnds, allVars

LEMMA BrightnessInvStep == BrightnessInv /\ [CommandNext]_allVars => BrightnessInv'
<1> SUFFICES ASSUME BrightnessInv, [CommandNext]_allVars PROVE BrightnessInv'
  OBVIOUS
<1>1. CASE TestOnPlayerReady
  BY <1>1, TestOnPlayerReadyStep
<1>2. CASE OnSigint \/ TestPlayerFinished \/ TestPoll
  BY <1>2, PhaseChangedStep DEF OnSigint, TestPlayerFinished, TestPoll
<1>3. CASE TestSystemState
  BY <1>3, SystemStateStep DEF TestSystemState
<1>4. CASE \/ Test \/ Play \/ PlayWait \/ OnPlayerReady \/ OnPlayerFinished
           \/ Record \/ RecordEvent \/ RecordEnds \/ UNCHANGED allVars
  <2>1. UNCHANGED stateVars
    BY <1>4, OtherSteps
  <2> QED
    BY <2>1 DEF stateVars, BrightnessInv, SystemStateTypeOK, CachedByProxy, OriginalSaved
<1> QED
  BY <1>1, <1>2, <1>3, <1>4 DEF CommandNext

(* When the run stops, whichever callback stops it, every brightness that  *)
(* was known when it was saved is set again, but for a device that refuses  *)
(* the very call; and `gbb test' neither exits nor crashes otherwise        *)
(* (test-runner.c:46-52, commandline.c:499-506, system-state.c:172-237).    *)
THEOREM KnownBrightnessAlwaysRestored == CommandSpec => KnownBrightnessRestored
<1>1. BrightnessInv /\ [CommandNext]_allVars =>
        [\/ phase # "STOPPED" /\ phase' = "STOPPED"
         \/ Testing /\ status' \in {"exited", "crashed"}
         => \A d \in Devices \ refused' :
              original[d] # Unknown => actual'[d] = original[d]]_allVars
  <2> SUFFICES ASSUME BrightnessInv, CommandNext,
                      \/ phase # "STOPPED" /\ phase' = "STOPPED"
                      \/ Testing /\ status' \in {"exited", "crashed"},
                      NEW d \in Devices \ refused', original[d] # Unknown
               PROVE  actual'[d] = original[d]
    OBVIOUS
  <2>1. CASE TestOnPlayerReady
    BY <2>1 DEF TestOnPlayerReady, Start, Testing, processVars
  <2>2. CASE OnSigint \/ TestPlayerFinished \/ TestPoll
    <3>1. OnRunnerPhaseChanged /\ Testing
      BY <2>2 DEF OnSigint, TestPlayerFinished, TestPoll
    <3>2. PhaseStopped
      BY <3>1 DEF OnRunnerPhaseChanged, PhaseIgnored, PhaseRunning, Testing
    <3>3. PICK failed : SetBrightnesses(saved_brightness, failed) /\ refused' = failed
      BY <3>2 DEF PhaseStopped, Restore
    <3>4. d \in Controlled \ failed /\ saved_brightness[d] = original[d]
      BY <3>3 DEF Controlled, BrightnessInv, OriginalSaved
    <3> QED
      BY <3>3, <3>4 DEF SetBrightnesses
  <2>3. CASE TestSystemState
    BY <2>3 DEF TestSystemState, vars, Testing
  <2>4. CASE Test
    BY <2>4 DEF Test, vars, Testing
  <2>5. CASE \/ Play \/ PlayWait \/ OnPlayerReady \/ OnPlayerFinished
             \/ Record \/ RecordEvent \/ RecordEnds
    <3>1. UNCHANGED phase
      BY <2>5, OtherSteps DEF vars
    <3>2. ~Testing
      BY <2>5 DEF Play, PlayWait, OnPlayerReady, OnPlayerFinished, Record, RecordEvent,
                  RecordEnds, Testing
    <3> QED
      BY <3>1, <3>2
  <2> QED
    BY <2>1, <2>2, <2>3, <2>4, <2>5 DEF CommandNext
<1> QED
  BY <1>1, InitBrightnessInv, BrightnessInvStep, PTL DEF CommandSpec, KnownBrightnessRestored

-----------------------------------------------------------------------------
(* How far the wait is says what has been seen: the nodes come from a       *)
(* player that is ready, and only a list that was full when it was taken    *)
(* gets past the check.                                                     *)
WaitInv ==
  /\ devices = Nodes => both_seen
  /\ listed = Nodes => both_seen
  /\ nodes = "known" => player_ready
  /\ wait \in {"found", "over"} => player_ready /\ both_seen
  /\ playback # "none" => wait = "over"

LEMMA InitWaitInv == CommandInit => WaitInv
BY DEF CommandInit, WaitInit, WaitInv, Nodes

LEMMA WaitInvStep == WaitInv /\ [CommandNext]_allVars => WaitInv'
<1> SUFFICES ASSUME WaitInv, [CommandNext]_allVars PROVE WaitInv'
  OBVIOUS
<1> USE DEF WaitInv
<1>1. CASE Play
  BY <1>1 DEF Play, Wait, StartThread
<1>2. CASE PlayWait
  <2>1. UNCHANGED playback
    BY <1>2 DEF PlayWait
  <2>2. CASE Thread
    BY <2>1, <2>2 DEF Thread, SelectEvents, QueryDevices, CheckForDevices, NextEvent, Nodes
  <2>3. CASE PlayerBecomesReady
    BY <2>1, <2>3 DEF PlayerBecomesReady, StartThread
  <2>4. CASE DeviceListChanges
    <3>1. both_seen' = (both_seen \/ devices' = Nodes)
      BY <2>4 DEF DeviceListChanges
    <3>2. UNCHANGED <<player_ready, wait, nodes, listed>>
      BY <2>4 DEF DeviceListChanges
    <3> QED
      BY <2>1, <3>1, <3>2, Zenon
  <2> QED
    BY <1>2, <2>2, <2>3, <2>4 DEF PlayWait
<1>3. CASE OnPlayerReady
  BY <1>3 DEF OnPlayerReady, OnThreadDone
<1>4. CASE OnPlayerFinished
  BY <1>4 DEF OnPlayerFinished, waitVars
<1>5. CASE TestOnPlayerReady
  BY <1>5 DEF TestOnPlayerReady, processVars
<1>6. CASE OnSigint \/ TestPlayerFinished \/ TestPoll
  BY <1>6 DEF OnSigint, TestPlayerFinished, TestPoll, OnRunnerPhaseChanged, waitVars
<1>7. CASE TestSystemState \/ Test \/ Record \/ RecordEvent \/ RecordEnds \/ UNCHANGED allVars
  BY <1>7 DEF TestSystemState, Test, Record, RecordEvent, RecordEnds, allVars, waitVars,
              processVars
<1> QED
  BY <1>1, <1>2, <1>3, <1>4, <1>5, <1>6, <1>7 DEF CommandNext

(* Nothing is replayed before both devices have been there.                 *)
THEOREM AlwaysPlayedToBothDevices == CommandSpec => []PlayedToBothDevices
<1>1. WaitInv => PlayedToBothDevices
  BY DEF WaitInv, PlayedToBothDevices
<1> QED
  BY <1>1, InitWaitInv, WaitInvStep, PTL DEF CommandSpec
-----------------------------------------------------------------------------
(* What gbb_test_run_new makes: a record, of which Add and SetStartTime     *)
(* replace a field and keep the others.                                     *)
IsRecord(r) ==
  r = [test |-> r.test, duration |-> r.duration, dated |-> r.dated, history |-> r.history]

LEMMA RecordFacts ==
  ASSUME NEW r, IsRecord(r), NEW s
  PROVE  /\ IsRecord(Add(r, s)) /\ Add(r, s).dated = r.dated
         /\ IsRecord(SetStartTime(r)) /\ SetStartTime(r).dated = TRUE
<1>1. ASSUME NEW h
      PROVE  /\ IsRecord([r EXCEPT !.history = h])
             /\ [r EXCEPT !.history = h].dated = r.dated
  BY DEF IsRecord
<1>2. ASSUME NEW b
      PROVE  /\ IsRecord([r EXCEPT !.dated = b])
             /\ [r EXCEPT !.dated = b].dated = b
  BY DEF IsRecord
<1>3. IsRecord(SetStartTime(r)) /\ SetStartTime(r).dated = TRUE
  BY <1>2 DEF SetStartTime
<1> QED
  BY <1>1, <1>3 DEF Add

LEMMA NewRunIsRecord ==
  ASSUME NEW t, NEW d
  PROVE  /\ IsRecord(NewRun(t, d))
         /\ NewRun(t, d).history = <<>>
BY DEF IsRecord, NewRun

(* The file gets its name when the run becomes RUNNING, which is when the   *)
(* run gets its date and before it can have a second reading; so the run    *)
(* that ends without a name is one that never ran.                          *)
OutputInv ==
  /\ args.output => test_output # "NULL"
  /\ test_output = "default" => player_ready /\ run.dated
  /\ phase # "STOPPED" => player_ready /\ IsRecord(run)
  /\ status = "starting" => run = NoRun /\ phase = "STOPPED"
  /\ status = "running" /\ phase # "STOPPED" /\ test_output = "NULL" =>
       phase # "RUNNING" /\ run.history = <<>>
  /\ status = "exited" => file = run
  /\ status = "crashed" /\ run # NoRun => run.history = <<>> /\ ~args.output

(* A callback of the runner neither starts a run nor changes one that it    *)
(* stops; what it adds to a run it adds when that is RUNNING.               *)
LEMMA RunnerOutcome ==
  ASSUME Stop \/ PlayerFinished \/ PollSame \/ PollChanged,
         phase # "STOPPED" => IsRecord(run)
  PROVE  /\ phase' # "RUNNING" => run' = run
         /\ phase = "STOPPED" => phase' = "STOPPED"
         /\ phase' # "STOPPED" => IsRecord(run')
         /\ phase' = "RUNNING" /\ phase = "RUNNING" => run'.dated = run.dated
         /\ phase' = "RUNNING" /\ phase # "RUNNING" => run'.dated
<1>1. CASE Stop
  BY <1>1 DEF Stop, StopRunning, StopWaiting, StopPrologue, SetEpilogue, SetStopped
<1>2. CASE PlayerFinished
  BY <1>2 DEF PlayerFinished, FinishedForceStop, FinishedPrologue, FinishedLoop,
              FinishedStopping, FinishedEpilogue, SetEpilogue, SetStopped
<1>3. CASE PollSame
  BY <1>3 DEF PollSame
<1>4. CASE PollChanged
  <2>1. PICK s \in ReadingsAt(clock') :
          LeaveWaiting(s) \/ RecordReading(s) \/ IgnoreReading(s)
    BY <1>4 DEF PollChanged
  <2>2. CASE LeaveWaiting(s)
    <3>1. /\ phase = "WAITING" /\ phase' = "RUNNING"
          /\ run' = Add(SetStartTime(run), s)
      BY <2>2 DEF LeaveWaiting
    <3>2. IsRecord(SetStartTime(run)) /\ SetStartTime(run).dated = TRUE
      BY <3>1, RecordFacts
    <3> QED
      BY <3>1, <3>2, RecordFacts
  <2>3. CASE RecordReading(s)
    BY <2>3, RecordFacts DEF RecordReading
  <2>4. CASE IgnoreReading(s)
    BY <2>4 DEF IgnoreReading
  <2> QED
    BY <2>1, <2>2, <2>3, <2>4
<1> QED
  BY <1>1, <1>2, <1>3, <1>4

LEMMA InitOutputInv == CommandInit /\ command = "test" => OutputInv
BY DEF CommandInit, Init, OutputInv

LEMMA OutputInvStep ==
  ASSUME command = "test" => OutputInv, [CommandNext]_allVars
  PROVE  command' = "test" => OutputInv'
<1>1. command' = command /\ args' = args
  BY DEF CommandNext, Test, TestOnPlayerReady, OnSigint, TestPlayerFinished, TestPoll,
         TestSystemState, Play, PlayWait, OnPlayerReady, OnPlayerFinished, Record,
         RecordEvent, RecordEnds, OnRunnerPhaseChanged, processVars, allVars
<1> SUFFICES ASSUME command = "test" PROVE OutputInv'
  BY <1>1
<1>2. OutputInv
  OBVIOUS
<1>3. CASE Test
  BY <1>2, <1>3 DEF Test, OutputInv, IsRecord, vars, waitVars
<1>4. CASE TestOnPlayerReady
  <2>1. /\ Start(args.test, Duration(args)) /\ ~player_ready /\ player_ready' = TRUE
        /\ status = "running" /\ UNCHANGED <<test_output, status, file, args>>
    BY <1>4 DEF TestOnPlayerReady, Testing, processVars
  <2>2. IsRecord(run') /\ run'.history = <<>> /\ phase' # "RUNNING"
    BY <2>1, NewRunIsRecord DEF Start
  <2> QED
    BY <1>2, <2>1, <2>2 DEF OutputInv
<1>5. CASE OnSigint \/ TestPlayerFinished \/ TestPoll
  <2>1. /\ Stop \/ PlayerFinished \/ PollSame \/ PollChanged
        /\ OnRunnerPhaseChanged /\ status = "running"
    BY <1>5 DEF OnSigint, TestPlayerFinished, TestPoll, Testing
  <2>2. /\ phase' # "RUNNING" => run' = run
        /\ phase = "STOPPED" => phase' = "STOPPED"
        /\ phase' # "STOPPED" => IsRecord(run')
        /\ phase' = "RUNNING" /\ phase = "RUNNING" => run'.dated = run.dated
        /\ phase' = "RUNNING" /\ phase # "RUNNING" => run'.dated
    BY <1>2, <2>1, RunnerOutcome DEF OutputInv
  <2>3. args' = args /\ player_ready' = player_ready
    BY <2>1 DEF OnRunnerPhaseChanged, waitVars
  <2>4. CASE PhaseIgnored
    BY <1>2, <2>1, <2>2, <2>3, <2>4 DEF PhaseIgnored, OutputInv
  <2>5. CASE PhaseRunning
    BY <1>2, <2>1, <2>2, <2>3, <2>5 DEF PhaseRunning, OutputInv
  <2>6. CASE PhaseStopped
    BY <1>2, <2>1, <2>2, <2>3, <2>6 DEF PhaseStopped, OutputInv
  <2> QED
    BY <2>1, <2>4, <2>5, <2>6 DEF OnRunnerPhaseChanged
<1>6. CASE TestSystemState
  BY <1>2, <1>6 DEF TestSystemState, OutputInv, IsRecord, vars, waitVars, processVars
<1>7. CASE UNCHANGED allVars
  BY <1>2, <1>7 DEF allVars, OutputInv, IsRecord, vars, waitVars, processVars
<1>8. ~(\/ Play \/ PlayWait \/ OnPlayerReady \/ OnPlayerFinished
        \/ Record \/ RecordEvent \/ RecordEnds)
  BY DEF Play, PlayWait, OnPlayerReady, OnPlayerFinished, Record, RecordEvent, RecordEnds
<1> QED
  BY <1>3, <1>4, <1>5, <1>6, <1>7, <1>8 DEF CommandNext

(* When `gbb test' exits as it should its file holds the run, and it        *)
(* crashes, but for --min-battery, only without a reading to lose.          *)
THEOREM ExitAlwaysKeepsRun == CommandSpec => []ExitKeepsRun
<1>1. CommandInit => (command = "test" => OutputInv)
  BY InitOutputInv
<1>2. (command = "test" => OutputInv) /\ [CommandNext]_allVars
        => (command = "test" => OutputInv)'
  BY OutputInvStep
<1>3. (command = "test" => OutputInv) => ExitKeepsRun
  BY DEF OutputInv, ExitKeepsRun
<1> QED
  BY <1>1, <1>2, <1>3, PTL DEF CommandSpec

-----------------------------------------------------------------------------
(* The beginnings of a sequence that has grown *)
LEMMA PrefixOfConcat ==
  ASSUME NEW S, NEW a \in Seq(S), NEW b \in Seq(S), NEW n \in 0..Len(a)
  PROVE  SubSeq(a \o b, 1, n) = SubSeq(a, 1, n)
<1>1. CASE n = 0
  BY <1>1, SubSeqEmpty
<1>2. CASE n # 0
  <2>1. 1 \in 1..Len(a) /\ n \in 1..Len(a)
    BY <1>2
  <2> QED
    BY <2>1, SubSeqOfConcat1
<1> QED
  BY <1>1, <1>2

LEMMA PrefixBeyond ==
  ASSUME NEW S, NEW a \in Seq(S), NEW b \in Seq(S), NEW m \in 0..Len(b)
  PROVE  SubSeq(a \o b, 1, Len(a) + m) = a \o SubSeq(b, 1, m)
<1> DEFINE n == Len(a) + m
           p == SubSeq(a \o b, 1, n)
           q == SubSeq(b, 1, m)
<1>1. Len(a) \in Nat /\ Len(b) \in Nat /\ m \in Nat /\ n \in Nat /\ n <= Len(a) + Len(b)
  OBVIOUS
<1>2. /\ a \o b \in Seq(S) /\ Len(a \o b) = Len(a) + Len(b)
      /\ \A i \in 1..(Len(a) + Len(b)) : (a \o b)[i] = IF i <= Len(a) THEN a[i] ELSE b[i - Len(a)]
  BY ConcatProperties
<1>3. \A i \in 1..n : (a \o b)[i] \in S
  BY <1>1, <1>2, ElementOfSeq
<1>4. p \in Seq(S) /\ Len(p) = n /\ \A i \in 1..n : p[i] = (a \o b)[i]
  <2>1. /\ p \in Seq(S)
        /\ Len(p) = IF 1 <= n THEN n - 1 + 1 ELSE 0
        /\ \A i \in 1..(n - 1 + 1) : p[i] = (a \o b)[1 + i - 1]
    BY <1>1, <1>3, SubSeqProperties
  <2> HIDE DEF p
  <2> QED
    BY <1>1, <2>1
<1>5. q \in Seq(S) /\ Len(q) = m /\ \A i \in 1..m : q[i] = b[i]
  <2>1. \A i \in 1..m : b[i] \in S
    BY <1>1, ElementOfSeq
  <2>2. /\ q \in Seq(S)
        /\ Len(q) = IF 1 <= m THEN m - 1 + 1 ELSE 0
        /\ \A i \in 1..(m - 1 + 1) : q[i] = b[1 + i - 1]
    BY <1>1, <2>1, SubSeqProperties
  <2> HIDE DEF q
  <2> QED
    BY <1>1, <2>2
<1> HIDE DEF n, p, q
<1>6. /\ a \o q \in Seq(S) /\ Len(a \o q) = Len(a) + m
      /\ \A i \in 1..(Len(a) + m) : (a \o q)[i] = IF i <= Len(a) THEN a[i] ELSE q[i - Len(a)]
  BY <1>5, ConcatProperties
<1>7. ASSUME NEW i \in 1..n PROVE p[i] = (a \o q)[i]
  <2>1. p[i] = IF i <= Len(a) THEN a[i] ELSE b[i - Len(a)]
    BY <1>1, <1>2, <1>4 DEF n
  <2>2. (a \o q)[i] = IF i <= Len(a) THEN a[i] ELSE q[i - Len(a)]
    BY <1>6 DEF n
  <2>3. ~(i <= Len(a)) => i - Len(a) \in 1..m
    BY <1>1 DEF n
  <2> QED
    BY <1>5, <2>1, <2>2, <2>3
<1>8. p = a \o q
  BY <1>4, <1>6, <1>7, SeqEqual DEF n
<1> QED
  BY <1>8 DEF n, p, q

(* An entry more *)
LEMMA ConcatOne ==
  ASSUME NEW S, NEW a \in Seq(S), NEW e \in S
  PROVE  /\ a \o <<e>> \in Seq(S)
         /\ Len(a \o <<e>>) = Len(a) + 1
         /\ \A i \in 1..Len(a) : (a \o <<e>>)[i] = a[i]
         /\ (a \o <<e>>)[Len(a) + 1] = e
OBVIOUS

(* What an entry does to what is held *)
LEMMA HeldAfterPress ==
  ASSUME NEW a \in Seq(Entries), NEW c \in Codes
  PROVE  HeldBy(a \o <<Entry("Press", c)>>) = HeldBy(a) \cup {c}
<1> DEFINE e == Entry("Press", c)
           b == a \o <<e>>
<1>1. e \in Entries /\ \A d : e # Entry("Release", d)
  BY DEF Entry, Entries
<1>2. /\ Len(b) = Len(a) + 1 /\ Len(a) \in Nat
      /\ \A i \in 1..Len(a) : b[i] = a[i]
      /\ b[Len(a) + 1] = e
  BY <1>1, ConcatOne
<1>e. \A d : e = Entry("Press", d) <=> c = d
  BY DEF Entry
<1> HIDE DEF e, b
<1> SUFFICES ASSUME NEW d \in Codes PROVE d \in HeldBy(b) <=> d \in HeldBy(a) \/ d = c
  BY DEF HeldBy, e, b
<1>3. ASSUME d \in HeldBy(b) PROVE d \in HeldBy(a) \/ d = c
  <2>1. PICK i \in 1..Len(b) : /\ b[i] = Entry("Press", d)
                              /\ \A j \in (i + 1)..Len(b) : b[j] # Entry("Release", d)
    BY <1>3 DEF HeldBy
  <2>2. CASE i = Len(a) + 1
    BY <1>2, <1>e, <2>1, <2>2
  <2>3. CASE i # Len(a) + 1
    <3>1. i \in 1..Len(a) /\ a[i] = Entry("Press", d)
      BY <1>2, <2>1, <2>3
    <3>2. ASSUME NEW j \in (i + 1)..Len(a) PROVE a[j] # Entry("Release", d)
      <4>1. j \in 1..Len(a) /\ j \in (i + 1)..Len(b)
        BY <1>2, <3>1
      <4> QED
        BY <1>2, <2>1, <4>1
    <3> QED
      BY <3>1, <3>2 DEF HeldBy
  <2> QED
    BY <2>2, <2>3
<1>4. ASSUME d = c PROVE d \in HeldBy(b)
  <2>1. /\ Len(a) + 1 \in 1..Len(b) /\ b[Len(a) + 1] = Entry("Press", d)
        /\ \A j \in (Len(a) + 1 + 1)..Len(b) : b[j] # Entry("Release", d)
    BY <1>2, <1>4 DEF e
  <2> QED
    BY <2>1 DEF HeldBy
<1>5. ASSUME d \in HeldBy(a) PROVE d \in HeldBy(b)
  <2>1. PICK i \in 1..Len(a) : /\ a[i] = Entry("Press", d)
                              /\ \A j \in (i + 1)..Len(a) : a[j] # Entry("Release", d)
    BY <1>5 DEF HeldBy
  <2>2. ASSUME NEW j \in (i + 1)..Len(b) PROVE b[j] # Entry("Release", d)
    <3>1. CASE j = Len(a) + 1
      BY <1>1, <1>2, <3>1
    <3>2. CASE j # Len(a) + 1
      <4>1. j \in 1..Len(a) /\ j \in (i + 1)..Len(a)
        BY <1>2, <3>2
      <4> QED
        BY <1>2, <2>1, <4>1
    <3> QED
      BY <3>1, <3>2
  <2>3. i \in 1..Len(b) /\ b[i] = Entry("Press", d)
    BY <1>2, <2>1
  <2> QED
    BY <2>2, <2>3 DEF HeldBy
<1> QED
  BY <1>3, <1>4, <1>5

(* Releases and turns of the wheel *)
LEMMA HeldAfterReleases ==
  ASSUME NEW a \in Seq(Entries), NEW b \in Seq(Entries),
         \A i \in 1..Len(b) : b[i].type # "Press"
  PROVE  HeldBy(a \o b) = HeldBy(a) \ {c \in Codes : \E i \in 1..Len(b) : b[i] = Entry("Release", c)}
<1> DEFINE w == a \o b
<1>1. /\ Len(w) = Len(a) + Len(b) /\ Len(a) \in Nat /\ Len(b) \in Nat
      /\ \A i \in 1..(Len(a) + Len(b)) : w[i] = IF i <= Len(a) THEN a[i] ELSE b[i - Len(a)]
  BY ConcatProperties
<1> HIDE DEF w
<1> SUFFICES ASSUME NEW d \in Codes
             PROVE  d \in HeldBy(w) <=>
                      /\ d \in HeldBy(a)
                      /\ ~ \E i \in 1..Len(b) : b[i] = Entry("Release", d)
  BY DEF HeldBy, w
<1>2. Entry("Press", d).type = "Press"
  BY DEF Entry
<1>3. ASSUME d \in HeldBy(w)
      PROVE  d \in HeldBy(a) /\ ~ \E i \in 1..Len(b) : b[i] = Entry("Release", d)
  <2>1. PICK i \in 1..Len(w) : /\ w[i] = Entry("Press", d)
                              /\ \A j \in (i + 1)..Len(w) : w[j] # Entry("Release", d)
    BY <1>3 DEF HeldBy
  <2>2. i <= Len(a)
    <3>1. SUFFICES ASSUME ~(i <= Len(a)) PROVE FALSE
      OBVIOUS
    <3>2. i - Len(a) \in 1..Len(b) /\ w[i] = b[i - Len(a)]
      BY <1>1, <3>1
    <3> QED
      BY <1>2, <2>1, <3>2
  <2>3. i \in 1..Len(a) /\ a[i] = Entry("Press", d)
    BY <1>1, <2>1, <2>2
  <2>4. ASSUME NEW j \in (i + 1)..Len(a) PROVE a[j] # Entry("Release", d)
    <3>1. j \in (i + 1)..Len(w) /\ w[j] = a[j]
      BY <1>1, <2>3
    <3> QED
      BY <2>1, <3>1
  <2>5. ASSUME NEW j \in 1..Len(b) PROVE b[j] # Entry("Release", d)
    <3>1. Len(a) + j \in (i + 1)..Len(w) /\ w[Len(a) + j] = b[Len(a) + j - Len(a)]
      BY <1>1, <2>3
    <3>2. Len(a) + j - Len(a) = j
      BY <1>1
    <3> QED
      BY <2>1, <3>1, <3>2
  <2> QED
    BY <2>3, <2>4, <2>5 DEF HeldBy
<1>4. ASSUME d \in HeldBy(a), ~ \E i \in 1..Len(b) : b[i] = Entry("Release", d)
      PROVE  d \in HeldBy(w)
  <2>1. PICK i \in 1..Len(a) : /\ a[i] = Entry("Press", d)
                              /\ \A j \in (i + 1)..Len(a) : a[j] # Entry("Release", d)
    BY <1>4 DEF HeldBy
  <2>2. i \in 1..Len(w) /\ w[i] = Entry("Press", d)
    BY <1>1, <2>1
  <2>3. ASSUME NEW j \in (i + 1)..Len(w) PROVE w[j] # Entry("Release", d)
    <3>1. CASE j <= Len(a)
      <4>1. j \in (i + 1)..Len(a) /\ w[j] = a[j]
        BY <1>1, <3>1
      <4> QED
        BY <2>1, <4>1
    <3>2. CASE ~(j <= Len(a))
      <4>1. j - Len(a) \in 1..Len(b) /\ w[j] = b[j - Len(a)]
        BY <1>1, <3>2
      <4> QED
        BY <1>4, <4>1
    <3> QED
      BY <3>1, <3>2
  <2> QED
    BY <2>2, <2>3 DEF HeldBy
<1> QED
  BY <1>3, <1>4

(* Entries that each do something, after entries that each did *)
LEMMA AlternatesConcat ==
  ASSUME NEW a \in Seq(Entries), NEW b \in Seq(Entries), Alternates(a),
         \A i \in 1..Len(b) : b[i].type # "Wheel" =>
           (b[i].type = "Release") = (b[i].code \in HeldBy(a \o SubSeq(b, 1, i - 1)))
  PROVE  Alternates(a \o b)
<1> DEFINE w == a \o b
<1>1. /\ Len(w) = Len(a) + Len(b) /\ Len(a) \in Nat /\ Len(b) \in Nat
      /\ \A i \in 1..(Len(a) + Len(b)) : w[i] = IF i <= Len(a) THEN a[i] ELSE b[i - Len(a)]
  BY ConcatProperties
<1>2. ASSUME NEW i \in 1..Len(a) PROVE w[i] = a[i] /\ SubSeq(w, 1, i - 1) = SubSeq(a, 1, i - 1)
  <2>1. i - 1 \in 0..Len(a) /\ i \in 1..(Len(a) + Len(b)) /\ i <= Len(a)
    BY <1>1
  <2> QED
    BY <1>1, <2>1, PrefixOfConcat
<1>3. ASSUME NEW i \in 1..Len(w), ~(i <= Len(a))
      PROVE  /\ i - Len(a) \in 1..Len(b) /\ w[i] = b[i - Len(a)]
             /\ SubSeq(w, 1, i - 1) = a \o SubSeq(b, 1, i - Len(a) - 1)
  <2>1. /\ i - Len(a) \in 1..Len(b) /\ i - Len(a) - 1 \in 0..Len(b)
        /\ Len(a) + (i - Len(a) - 1) = i - 1
    BY <1>1, <1>3
  <2>2. SubSeq(w, 1, Len(a) + (i - Len(a) - 1)) = a \o SubSeq(b, 1, i - Len(a) - 1)
    BY <2>1, PrefixBeyond
  <2> QED
    BY <1>1, <1>3, <2>1, <2>2
<1> HIDE DEF w
<1> SUFFICES ASSUME NEW i \in 1..Len(w), w[i].type # "Wheel"
             PROVE  (w[i].type = "Release") = (w[i].code \in HeldBy(SubSeq(w, 1, i - 1)))
  BY DEF Alternates, w
<1>4. CASE i <= Len(a)
  <2>1. i \in 1..Len(a)
    BY <1>4
  <2> QED
    BY <1>2, <2>1 DEF Alternates
<1>5. CASE ~(i <= Len(a))
  BY <1>3, <1>5
<1> QED
  BY <1>4, <1>5

LEMMA AlternatesOne ==
  ASSUME NEW a \in Seq(Entries), NEW e \in Entries, Alternates(a),
         e.type = "Press" => e.code \notin HeldBy(a),
         e.type = "Release" => e.code \in HeldBy(a)
  PROVE  Alternates(a \o <<e>>)
<1>1. <<e>> \in Seq(Entries) /\ Len(<<e>>) = 1 /\ <<e>>[1] = e
  OBVIOUS
<1>2. e.type \in {"Press", "Release", "Wheel"}
  BY DEF Entries
<1>3. SubSeq(<<e>>, 1, 0) = <<>> /\ a \o <<>> = a
  BY SubSeqEmpty, ConcatEmptySeq
<1>4. ASSUME NEW i \in 1..Len(<<e>>), <<e>>[i].type # "Wheel"
      PROVE  (<<e>>[i].type = "Release") = (<<e>>[i].code \in HeldBy(a \o SubSeq(<<e>>, 1, i - 1)))
  <2>1. i = 1 /\ i - 1 = 0
    BY <1>1
  <2>2. (e.type = "Release") = (e.code \in HeldBy(a))
    BY <1>1, <1>2, <1>4, <2>1
  <2> QED
    BY <1>1, <1>3, <2>1, <2>2
<1> QED
  BY <1>1, <1>4, AlternatesConcat

(* The two lists of what is pressed *)
LEMMA InjectiveSeq ==
  ASSUME NEW S, NEW list \in Seq(S)
  PROVE  /\ IsInjective(list) <=> \A i, j \in 1..Len(list) : list[i] = list[j] => i = j
         /\ Range(list) = {list[i] : i \in 1..Len(list)}
         /\ \A c : Contains(list, c) <=> c \in Range(list)
<1>1. DOMAIN list = 1..Len(list)
  OBVIOUS
<1> QED
  BY <1>1 DEF IsInjective, Range, Contains

LEMMA PressedList ==
  ASSUME NEW S, NEW list \in Seq(S), IsInjective(list), NEW c \in S
  PROVE  /\ Pressed(list, c) \in Seq(S) /\ IsInjective(Pressed(list, c))
         /\ Range(Pressed(list, c)) = Range(list) \cup {c}
<1>1. CASE Contains(list, c)
  BY <1>1, InjectiveSeq DEF Pressed
<1>2. CASE ~Contains(list, c)
  <2> DEFINE new == <<c>> \o list
  <2>1. /\ new \in Seq(S) /\ Len(new) = Len(list) + 1 /\ Len(list) \in Nat
        /\ \A i \in 1..(Len(list) + 1) : new[i] = IF i = 1 THEN c ELSE list[i - 1]
    OBVIOUS
  <2> HIDE DEF new
  <2>2. \A i \in 1..Len(list) : list[i] # c
    BY <1>2 DEF Contains
  <2>3. ASSUME NEW i \in 1..Len(new), NEW j \in 1..Len(new), new[i] = new[j]
        PROVE  i = j
    <3>1. CASE i = 1 /\ j = 1
      BY <3>1
    <3>2. CASE i = 1 /\ j # 1
      <4>1. j - 1 \in 1..Len(list) /\ new[j] = list[j - 1] /\ new[i] = c
        BY <2>1, <3>2
      <4> QED
        BY <2>2, <2>3, <4>1
    <3>3. CASE i # 1 /\ j = 1
      <4>1. i - 1 \in 1..Len(list) /\ new[i] = list[i - 1] /\ new[j] = c
        BY <2>1, <3>3
      <4> QED
        BY <2>2, <2>3, <4>1
    <3>4. CASE i # 1 /\ j # 1
      <4>1. /\ i - 1 \in 1..Len(list) /\ new[i] = list[i - 1]
            /\ j - 1 \in 1..Len(list) /\ new[j] = list[j - 1]
        BY <2>1, <3>4
      <4>2. i - 1 = j - 1
        BY <2>3, <4>1, InjectiveSeq
      <4> QED
        BY <2>1, <4>2
    <3> QED
      BY <3>1, <3>2, <3>3, <3>4
  <2>4. IsInjective(new)
    BY <2>1, <2>3, InjectiveSeq
  <2>5. ASSUME NEW d PROVE d \in Range(new) <=> d \in Range(list) \/ d = c
    <3>1. ASSUME d \in Range(new) PROVE d \in Range(list) \/ d = c
      <4>1. PICK i \in 1..Len(new) : new[i] = d
        BY <2>1, <3>1, InjectiveSeq
      <4>2. CASE i = 1
        BY <2>1, <4>1, <4>2
      <4>3. CASE i # 1
        <5>1. i - 1 \in 1..Len(list) /\ list[i - 1] = d
          BY <2>1, <4>1, <4>3
        <5> QED
          BY <5>1, InjectiveSeq
      <4> QED
        BY <4>2, <4>3
    <3>2. ASSUME d = c PROVE d \in Range(new)
      <4>1. 1 \in 1..Len(new) /\ new[1] = d
        BY <2>1, <3>2
      <4> QED
        BY <2>1, <4>1, InjectiveSeq
    <3>3. ASSUME d \in Range(list) PROVE d \in Range(new)
      <4>1. PICK i \in 1..Len(list) : list[i] = d
        BY <3>3, InjectiveSeq
      <4>2. i + 1 \in 1..Len(new) /\ new[i + 1] = list[i + 1 - 1] /\ i + 1 - 1 = i
        BY <2>1
      <4> QED
        BY <2>1, <4>1, <4>2, InjectiveSeq
    <3> QED
      BY <3>1, <3>2, <3>3
  <2> QED
    BY <1>2, <2>1, <2>4, <2>5 DEF Pressed, new
<1> QED
  BY <1>1, <1>2

LEMMA ReleasedList ==
  ASSUME NEW S, NEW list \in Seq(S), IsInjective(list), NEW c, Contains(list, c)
  PROVE  /\ Released(list, c) \in Seq(S) /\ IsInjective(Released(list, c))
         /\ Range(Released(list, c)) = Range(list) \ {c}
<1>1. PICK m \in 1..Len(list) : list[m] = c
  BY DEF Contains
<1>2. ASSUME NEW i \in 1..Len(list), list[i] = c PROVE i = m
  BY <1>1, <1>2, InjectiveSeq
<1>3. \A j \in 1..(m - 1) : j \in 1..Len(list) /\ j # m
  OBVIOUS
<1>4. m = CHOOSE i \in 1..Len(list) : list[i] = c /\ \A j \in 1..(i - 1) : list[j] # c
  BY <1>1, <1>2, <1>3
<1> DEFINE new == SubSeq(list, 1, m - 1) \o SubSeq(list, m + 1, Len(list))
           old(i) == IF i < m THEN i ELSE i + 1
<1>5. Released(list, c) = new
  BY <1>4 DEF Released, RemoveAt
<1>6. /\ new \in Seq(S) /\ Len(new) = Len(list) - 1
      /\ \A i \in 1..(Len(list) - 1) : new[i] = list[old(i)]
  <2> DEFINE before == SubSeq(list, 1, m - 1)
             after == SubSeq(list, m + 1, Len(list))
  <2>1. /\ Len(list) \in Nat /\ m \in Nat /\ 1 <= m /\ m <= Len(list)
        /\ \A i \in 1..Len(list) : list[i] \in S
    BY ElementOfSeq
  <2>2. before \in Seq(S) /\ Len(before) = m - 1 /\ \A i \in 1..(m - 1) : before[i] = list[i]
    BY <2>1
  <2>3. /\ after \in Seq(S) /\ Len(after) = Len(list) - m
        /\ \A i \in 1..(Len(list) - m) : after[i] = list[m + i]
    <3>1. /\ m + 1 \in Int /\ Len(list) \in Int
          /\ \A i \in (m + 1)..Len(list) : list[i] \in S
      BY <2>1
    <3>2. /\ after \in Seq(S)
          /\ Len(after) = IF m + 1 <= Len(list) THEN Len(list) - (m + 1) + 1 ELSE 0
          /\ \A i \in 1..(Len(list) - (m + 1) + 1) : after[i] = list[m + 1 + i - 1]
      BY <3>1, SubSeqProperties
    <3> HIDE DEF after
    <3>3. Len(after) = Len(list) - m
      BY <2>1, <3>2
    <3>4. ASSUME NEW i \in 1..(Len(list) - m) PROVE after[i] = list[m + i]
      <4>1. i \in 1..(Len(list) - (m + 1) + 1) /\ m + 1 + i - 1 = m + i
        BY <2>1
      <4> QED
        BY <3>2, <4>1
    <3> QED
      BY <3>2, <3>3, <3>4
  <2> HIDE DEF before, after
  <2>4. /\ before \o after \in Seq(S) /\ Len(before \o after) = Len(list) - 1
        /\ \A i \in 1..(Len(list) - 1) :
             (before \o after)[i] = IF i <= m - 1 THEN before[i] ELSE after[i - (m - 1)]
    <3>1. /\ before \o after \in Seq(S) /\ Len(before \o after) = Len(before) + Len(after)
          /\ \A i \in 1..(Len(before) + Len(after)) :
               (before \o after)[i] =
                 IF i <= Len(before) THEN before[i] ELSE after[i - Len(before)]
      BY <2>2, <2>3, ConcatProperties
    <3>2. Len(before) + Len(after) = Len(list) - 1
      BY <2>1, <2>2, <2>3
    <3> QED
      BY <2>2, <3>1, <3>2
  <2>5. ASSUME NEW i \in 1..(Len(list) - 1) PROVE (before \o after)[i] = list[old(i)]
    <3>1. CASE i < m
      BY <2>1, <2>2, <2>4, <3>1
    <3>2. CASE ~(i < m)
      <4>1. i - (m - 1) \in 1..(Len(list) - m) /\ m + (i - (m - 1)) = i + 1
        BY <2>1, <3>2
      <4> QED
        BY <2>1, <2>3, <2>4, <3>2, <4>1
    <3> QED
      BY <3>1, <3>2
  <2> QED
    BY <2>4, <2>5 DEF before, after
<1> HIDE DEF new
<1>7. ASSUME NEW i \in 1..Len(new) PROVE old(i) \in 1..Len(list) /\ old(i) # m /\ new[i] = list[old(i)]
  BY <1>6
<1>8. IsInjective(new)
  <2> SUFFICES ASSUME NEW i \in 1..Len(new), NEW j \in 1..Len(new), new[i] = new[j]
               PROVE  i = j
    BY <1>6, InjectiveSeq
  <2>1. old(i) = old(j)
    BY <1>7, InjectiveSeq
  <2> QED
    BY <2>1, <1>6
<1>9. ASSUME NEW d PROVE d \in Range(new) <=> d \in Range(list) /\ d # c
  <2>1. ASSUME d \in Range(new) PROVE d \in Range(list) /\ d # c
    <3>1. PICK i \in 1..Len(new) : new[i] = d
      BY <1>6, <2>1, InjectiveSeq
    <3>2. old(i) \in 1..Len(list) /\ old(i) # m /\ list[old(i)] = d
      BY <1>7, <3>1
    <3> HIDE DEF old
    <3> QED
      BY <1>2, <3>2, InjectiveSeq
  <2>2. ASSUME d \in Range(list), d # c PROVE d \in Range(new)
    <3>1. PICK j \in 1..Len(list) : list[j] = d
      BY <2>2, InjectiveSeq
    <3>2. j # m
      BY <1>1, <2>2, <3>1
    <3>3. PICK i \in 1..(Len(list) - 1) : old(i) = j
      <4>1. CASE j < m
        <5>1. j \in 1..(Len(list) - 1) /\ old(j) = j
          BY <4>1
        <5> QED
          BY <5>1
      <4>2. CASE ~(j < m)
        <5>1. j - 1 \in 1..(Len(list) - 1) /\ old(j - 1) = j
          BY <3>2, <4>2
        <5> QED
          BY <5>1
      <4> QED
        BY <4>1, <4>2
    <3>4. i \in 1..Len(new) /\ new[i] = d
      BY <1>6, <3>1, <3>3
    <3> QED
      BY <1>6, <3>4, InjectiveSeq
  <2> QED
    BY <2>1, <2>2
<1> QED
  BY <1>5, <1>6, <1>8, <1>9

(* What is written is what is held, as far as anything is written at all;   *)
(* a recorder that has not begun has neither written nor pressed anything.  *)
RecorderInv ==
  /\ RecorderTypeOK
  /\ out # "stdout" => log = <<>>
  /\ context = "none" =>
       log = <<>> /\ pressed_keys = <<>> /\ pressed_buttons = <<>> /\ stop_at = NotStopped
  /\ LogFollowsInput
  /\ StopReleasesAll

LEMMA CodesTypes ==
  /\ Keys \subseteq Codes /\ Buttons \subseteq Codes /\ Wheel \in Codes
  /\ Keys \cap Buttons = {} /\ Q \in Keys
  /\ \A type \in {"Press", "Release", "Wheel"}, c \in Codes :
       /\ Entry(type, c) \in Entries
       /\ Entry(type, c).type = type /\ Entry(type, c).code = c
BY KeysAssumption DEF Codes, Keys, Entry, Entries

LEMMA NothingWritten ==
  /\ Alternates(<<>>) /\ HeldBy(<<>>) = {} /\ <<>> \in Seq(Entries)
  /\ SubSeq(<<>>, 1, 0) = <<>>
BY SubSeqEmpty DEF Alternates, HeldBy

LEMMA InitRecorderInv == RecorderInit => RecorderInv
<1> SUFFICES ASSUME RecorderInit PROVE RecorderInv
  OBVIOUS
<1>1. /\ <<>> \in Seq(Keys) /\ <<>> \in Seq(Buttons) /\ Range(<<>>) = {}
      /\ IsInjective(<<>>)
  BY DEF Range, IsInjective
<1> QED
  BY <1>1, NothingWritten DEF RecorderInit, RecorderInv, RecorderTypeOK, LogFollowsInput,
     StopReleasesAll, NotStopped

(* A callback that writes nothing or one entry before Super-Q, or anything  *)
(* after it, with lists that fit what it has written                        *)
LEMMA WriteStep ==
  ASSUME RecorderInv, NEW entries \in Seq(Entries), DumpEvents(entries),
         UNCHANGED <<out, stop_at>>, context' \in {"enabled", "disabling"},
         pressed_keys' \in Seq(Keys), IsInjective(pressed_keys'),
         pressed_buttons' \in Seq(Buttons), IsInjective(pressed_buttons'),
         stop_at = NotStopped =>
           (Alternates(log) /\ HeldBy(log) = Range(pressed_keys) \cup Range(pressed_buttons)
             => /\ Alternates(log \o entries)
                /\ HeldBy(log \o entries) = Range(pressed_keys') \cup Range(pressed_buttons'))
  PROVE  RecorderInv'
<1> USE DEF RecorderInv, RecorderTypeOK
<1>1. CASE out = "stdout"
  <2>1. log' = log \o entries /\ log' \in Seq(Entries) /\ Len(log') = Len(log) + Len(entries)
    BY <1>1, ConcatProperties DEF DumpEvents
  <2>2. Len(log) \in Nat /\ Len(entries) \in Nat
    OBVIOUS
  <2>3. stop_at' \in {NotStopped} \cup 0..Len(log')
    BY <2>1, <2>2
  <2>4. LogFollowsInput'
    BY <1>1, <2>1 DEF LogFollowsInput
  <2>5. stop_at # NotStopped => SubSeq(log', 1, stop_at) = SubSeq(log, 1, stop_at)
    BY <2>1, PrefixOfConcat
  <2>6. StopReleasesAll'
    BY <2>5 DEF StopReleasesAll
  <2> QED
    BY <1>1, <2>1, <2>3, <2>4, <2>6
<1>2. CASE out # "stdout"
  <2>1. log' = <<>> /\ log = <<>>
    BY <1>2 DEF DumpEvents
  <2>2. LogFollowsInput'
    BY <1>2, <2>1, NothingWritten DEF LogFollowsInput
  <2>3. StopReleasesAll'
    BY <2>1 DEF StopReleasesAll
  <2> QED
    BY <1>2, <2>1, <2>2, <2>3
<1> QED
  BY <1>1, <1>2

LEMMA EmptyWrite == \A a \in Seq(Entries) : a \o <<>> = a /\ <<>> \in Seq(Entries)
BY ConcatEmptySeq

(* The press of a key or a button *)
LEMMA PressHeld ==
  ASSUME NEW c \in Codes, NEW list, NEW others, RecorderInv, c \notin others,
         Contains(list, c) <=> c \in Range(list), Press(c, list), NEW new,
         Range(new) = Range(list) \cup {c}
  PROVE  \E entries \in Seq(Entries) :
           /\ DumpEvents(entries)
           /\ Alternates(log) /\ HeldBy(log) = Range(list) \cup others
                => /\ Alternates(log \o entries)
                   /\ HeldBy(log \o entries) = Range(new) \cup others
<1>0. log \in Seq(Entries)
  BY DEF RecorderInv, RecorderTypeOK
<1>1. CASE Contains(list, c)
  <2>1. DumpEvents(<<>>) /\ Range(new) = Range(list)
    BY <1>1 DEF Press
  <2> QED
    BY <1>0, <2>1, EmptyWrite
<1>2. CASE ~Contains(list, c)
  <2> DEFINE e == Entry("Press", c)
  <2>1. DumpEvents(<<e>>) /\ e \in Entries /\ e.type = "Press" /\ e.code = c
    BY <1>2, CodesTypes DEF Press
  <2>2. HeldBy(log \o <<e>>) = HeldBy(log) \cup {c}
    BY <1>0, HeldAfterPress
  <2> HIDE DEF e
  <2>3. ASSUME Alternates(log), HeldBy(log) = Range(list) \cup others
        PROVE  /\ Alternates(log \o <<e>>)
               /\ HeldBy(log \o <<e>>) = Range(new) \cup others
    <3>1. c \notin HeldBy(log)
      BY <1>2, <2>3
    <3>2. Alternates(log \o <<e>>)
      BY <1>0, <2>1, <2>3, <3>1, AlternatesOne
    <3> QED
      BY <2>2, <2>3, <3>2
  <2>4. <<e>> \in Seq(Entries)
    BY <2>1
  <2> QED
    BY <2>1, <2>3, <2>4
<1> QED
  BY <1>1, <1>2

(* The release of a key or a button that is pressed *)
LEMMA ReleaseHeld ==
  ASSUME NEW c \in Codes, NEW old, NEW others, RecorderInv, c \in old, c \notin others,
         Alternates(log), HeldBy(log) = old \cup others
  PROVE  LET entries == <<Entry("Release", c)>>
         IN  /\ Alternates(log \o entries)
             /\ HeldBy(log \o entries) = (old \ {c}) \cup others
<1> DEFINE e == Entry("Release", c)
           b == <<e>>
<1>0. log \in Seq(Entries)
  BY DEF RecorderInv, RecorderTypeOK
<1>1. e \in Entries /\ e.type = "Release" /\ e.code = c
  BY CodesTypes
<1>2. \A d : e = Entry("Release", d) <=> d = c
  BY DEF Entry
<1> HIDE DEF e
<1>3. b \in Seq(Entries) /\ Len(b) = 1 /\ b[1] = e
  BY <1>1
<1> HIDE DEF b
<1>4. {d \in Codes : \E i \in 1..Len(b) : b[i] = Entry("Release", d)} = {c}
  BY <1>2, <1>3
<1>5. \A i \in 1..Len(b) : b[i].type # "Press"
  BY <1>1, <1>3
<1>6. HeldBy(log \o b) = HeldBy(log) \ {c}
  BY <1>0, <1>3, <1>4, <1>5, HeldAfterReleases
<1>7. Alternates(log \o b)
  BY <1>0, <1>1, AlternatesOne DEF b
<1> QED
  BY <1>6, <1>7 DEF b, e

(* What Super-Q writes releases everything that is held.                    *)
LEMMA ReleaseAllEntries ==
  ASSUME RecorderInv
  PROVE  /\ ReleaseAll \in Seq(Entries)
         /\ Len(log) + Len(ReleaseAll) \in Nat
         /\ Alternates(log) /\ HeldBy(log) = Range(pressed_keys) \cup Range(pressed_buttons)
              => Alternates(log \o ReleaseAll) /\ HeldBy(log \o ReleaseAll) = {}
<1> DEFINE pressed == pressed_keys \o pressed_buttons
           held == Range(pressed_keys) \cup Range(pressed_buttons)
           r == ReleaseAll
<1>1. /\ pressed_keys \in Seq(Keys) /\ IsInjective(pressed_keys)
      /\ pressed_buttons \in Seq(Buttons) /\ IsInjective(pressed_buttons)
      /\ log \in Seq(Entries) /\ Len(log) \in Nat
      /\ Len(pressed_keys) \in Nat /\ Len(pressed_buttons) \in Nat
  BY DEF RecorderInv, RecorderTypeOK
<1>2. pressed_keys \in Seq(Codes) /\ pressed_buttons \in Seq(Codes)
  BY <1>1, CodesTypes, SeqMonotonic
<1>3. /\ pressed \in Seq(Codes) /\ Len(pressed) = Len(pressed_keys) + Len(pressed_buttons)
      /\ \A i \in 1..Len(pressed) :
           pressed[i] = IF i <= Len(pressed_keys) THEN pressed_keys[i]
                        ELSE pressed_buttons[i - Len(pressed_keys)]
  BY <1>2, ConcatProperties
<1>4. Range(pressed) = held
  BY <1>2, RangeConcatenation
<1>5. ASSUME NEW list \in Seq(Codes)
      PROVE  /\ ReleasesOf(list) \in Seq(Entries) /\ Len(ReleasesOf(list)) = Len(list)
             /\ \A i \in 1..Len(list) : ReleasesOf(list)[i] = Entry("Release", list[i])
  <2>1. \A i \in 1..Len(list) : Entry("Release", list[i]) \in Entries
    BY CodesTypes, ElementOfSeq
  <2>2. Len(list) \in Nat
    OBVIOUS
  <2> QED
    BY <2>1, <2>2 DEF ReleasesOf
<1>6. /\ r \in Seq(Entries) /\ Len(r) = Len(pressed_keys) + Len(pressed_buttons)
      /\ \A i \in 1..Len(r) :
           r[i] = IF i <= Len(pressed_keys) THEN ReleasesOf(pressed_keys)[i]
                  ELSE ReleasesOf(pressed_buttons)[i - Len(pressed_keys)]
  <2> DEFINE ra == ReleasesOf(pressed_keys)
             rb == ReleasesOf(pressed_buttons)
  <2>1. /\ ra \in Seq(Entries) /\ Len(ra) = Len(pressed_keys)
        /\ rb \in Seq(Entries) /\ Len(rb) = Len(pressed_buttons)
    BY <1>2, <1>5
  <2>2. r = ra \o rb
    BY DEF ReleaseAll
  <2> HIDE DEF r, ra, rb
  <2>3. /\ r \in Seq(Entries) /\ Len(r) = Len(ra) + Len(rb)
        /\ \A i \in 1..(Len(ra) + Len(rb)) : r[i] = IF i <= Len(ra) THEN ra[i] ELSE rb[i - Len(ra)]
    <3>1. /\ ra \o rb \in Seq(Entries) /\ Len(ra \o rb) = Len(ra) + Len(rb)
          /\ \A i \in 1..(Len(ra) + Len(rb)) :
               (ra \o rb)[i] = IF i <= Len(ra) THEN ra[i] ELSE rb[i - Len(ra)]
      BY <2>1, ConcatProperties
    <3> QED
      BY <2>2, <3>1
  <2>4. /\ Len(r) = Len(pressed_keys) + Len(pressed_buttons)
        /\ \A i \in 1..Len(r) : r[i] = IF i <= Len(pressed_keys) THEN ra[i]
                                     ELSE rb[i - Len(pressed_keys)]
    BY <2>1, <2>3
  <2> QED
    BY <2>3, <2>4 DEF ra, rb
<1> HIDE DEF pressed, r
<1>7. ASSUME NEW i \in 1..Len(r) PROVE i \in 1..Len(pressed) /\ r[i] = Entry("Release", pressed[i])
  <2>0. i \in 1..Len(pressed)
    BY <1>3, <1>6
  <2>1. CASE i <= Len(pressed_keys)
    <3>1. i \in 1..Len(pressed_keys)
      BY <1>1, <2>1
    <3> QED
      BY <1>2, <1>3, <1>5, <1>6, <2>0, <2>1, <3>1
  <2>2. CASE ~(i <= Len(pressed_keys))
    <3>1. i - Len(pressed_keys) \in 1..Len(pressed_buttons)
      BY <1>1, <1>6, <2>2
    <3> QED
      BY <1>2, <1>3, <1>5, <1>6, <2>0, <2>2, <3>1
  <2> QED
    BY <2>1, <2>2
<1>8. ASSUME NEW i \in 1..Len(pressed), NEW j \in 1..Len(pressed), pressed[i] = pressed[j]
      PROVE  i = j
  <2> DEFINE m == Len(pressed_keys)
  <2>1. \A n \in 1..Len(pressed) : n <= m => n \in 1..m /\ pressed[n] = pressed_keys[n]
    BY <1>1, <1>3
  <2>2. \A n \in 1..Len(pressed) : ~(n <= m) =>
          n - m \in 1..Len(pressed_buttons) /\ pressed[n] = pressed_buttons[n - m]
    BY <1>1, <1>3
  <2>3. /\ \A n \in 1..m : pressed_keys[n] \in Keys
        /\ \A n \in 1..Len(pressed_buttons) : pressed_buttons[n] \in Buttons
    BY <1>1, ElementOfSeq
  <2>4. CASE i <= m /\ j <= m
    BY <1>1, <1>8, <2>1, <2>4, InjectiveSeq
  <2>5. CASE ~(i <= m) /\ ~(j <= m)
    <3>1. i - m = j - m
      BY <1>1, <1>8, <2>2, <2>5, InjectiveSeq
    <3> QED
      BY <1>1, <1>3, <3>1
  <2>6. CASE (i <= m) # (j <= m)
    BY <1>8, <2>1, <2>2, <2>3, <2>6, CodesTypes
  <2> QED
    BY <2>4, <2>5, <2>6
<1>9. ASSUME NEW n \in 0..Len(r)
      PROVE  HeldBy(log \o SubSeq(r, 1, n)) = HeldBy(log) \ {pressed[i] : i \in 1..n}
  <2> DEFINE b == SubSeq(r, 1, n)
  <2>1. b \in Seq(Entries) /\ Len(b) = n /\ \A i \in 1..n : b[i] = r[i] /\ i \in 1..Len(r)
    <3>1. n \in Nat /\ \A i \in 1..n : i \in 1..Len(r) /\ r[i] \in Entries
      BY <1>6, ElementOfSeq
    <3>2. /\ b \in Seq(Entries) /\ Len(b) = IF 1 <= n THEN n - 1 + 1 ELSE 0
          /\ \A i \in 1..(n - 1 + 1) : b[i] = r[1 + i - 1]
      BY <3>1, SubSeqProperties
    <3> HIDE DEF b
    <3> QED
      BY <3>1, <3>2
  <2> HIDE DEF b
  <2>2. ASSUME NEW i \in 1..n
        PROVE  b[i] = Entry("Release", pressed[i]) /\ pressed[i] \in Codes
    BY <1>3, <1>7, <2>1, ElementOfSeq
  <2>3. \A i \in 1..Len(b) : b[i].type # "Press"
    BY <2>1, <2>2 DEF Entry
  <2>4. {c \in Codes : \E i \in 1..Len(b) : b[i] = Entry("Release", c)} = {pressed[i] : i \in 1..n}
    <3>1. \A c, d : Entry("Release", c) = Entry("Release", d) <=> c = d
      BY DEF Entry
    <3> QED
      BY <2>1, <2>2, <3>1
  <2>5. HeldBy(log \o b) = HeldBy(log) \ {c \in Codes : \E i \in 1..Len(b) : b[i] = Entry("Release", c)}
    BY <1>1, <2>1, <2>3, HeldAfterReleases
  <2> QED
    BY <2>4, <2>5 DEF b
<1>10. ASSUME Alternates(log), HeldBy(log) = held
       PROVE  Alternates(log \o r) /\ HeldBy(log \o r) = {}
  <2>1. Len(r) \in Nat /\ Len(r) = Len(pressed)
    BY <1>1, <1>3, <1>6
  <2>2. held = {pressed[i] : i \in 1..Len(r)}
    BY <1>3, <1>4, <2>1, InjectiveSeq
  <2>3. HeldBy(log \o r) = {}
    <3>1. SubSeq(r, 1, Len(r)) = r
      BY <1>6, SubSeqFull
    <3>2. HeldBy(log \o SubSeq(r, 1, Len(r))) = HeldBy(log) \ {pressed[i] : i \in 1..Len(r)}
      BY <1>9, <2>1
    <3> QED
      BY <1>10, <2>2, <3>1, <3>2
  <2>4. ASSUME NEW i \in 1..Len(r)
        PROVE  (r[i].type = "Release") = (r[i].code \in HeldBy(log \o SubSeq(r, 1, i - 1)))
    <3>1. r[i].type = "Release" /\ r[i].code = pressed[i] /\ i \in 1..Len(pressed)
      <4>1. i \in 1..Len(pressed) /\ r[i] = Entry("Release", pressed[i])
        BY <1>7
      <4> QED
        BY <4>1 DEF Entry
    <3>2. i - 1 \in 0..Len(r) /\ i \notin 1..(i - 1) /\ 1..(i - 1) \subseteq 1..Len(pressed)
      BY <2>1
    <3>3. pressed[i] \in held
      BY <2>2
    <3>4. pressed[i] \notin {pressed[j] : j \in 1..(i - 1)}
      BY <1>8, <3>1, <3>2
    <3>5. pressed[i] \in HeldBy(log \o SubSeq(r, 1, i - 1))
      BY <1>9, <1>10, <3>2, <3>3, <3>4
    <3> QED
      BY <3>1, <3>5
  <2>5. Alternates(log \o r)
    BY <1>1, <1>6, <1>10, <2>4, AlternatesConcat
  <2> QED
    BY <2>3, <2>5
<1> QED
  BY <1>1, <1>6, <1>10 DEF r

LEMMA KeyPressStopStep ==
  ASSUME RecorderInv, KeyPressStop
  PROVE  RecorderInv'
<1> DEFINE rest == IF Contains(pressed_keys, Q) THEN <<>> ELSE <<Entry("Press", Q)>>
           entries == ReleaseAll \o rest
<1>1. /\ pressed_keys \in Seq(Keys) /\ IsInjective(pressed_keys)
      /\ pressed_buttons \in Seq(Buttons) /\ IsInjective(pressed_buttons)
      /\ log \in Seq(Entries) /\ Len(log) \in Nat /\ context \in {"enabled", "disabling"}
      /\ out \in {"none", "stdout", "file"}
  BY DEF RecorderInv, RecorderTypeOK, KeyPressStop, Recording
<1>2. /\ DumpEvents(entries) /\ context' = "disabling"
      /\ pressed_keys' = Pressed(pressed_keys, Q)
      /\ UNCHANGED <<out, pressed_buttons>>
      /\ stop_at' = IF stop_at # NotStopped THEN stop_at
                     ELSE IF out = "stdout" THEN Len(log) + Len(ReleaseAll) ELSE 0
  BY DEF KeyPressStop
<1>3. pressed_keys' \in Seq(Keys) /\ IsInjective(pressed_keys')
  BY <1>1, <1>2, CodesTypes, PressedList
<1>4. rest \in Seq(Entries)
  BY CodesTypes
<1>5. ReleaseAll \in Seq(Entries)
  BY ReleaseAllEntries
<1> HIDE DEF rest
<1>6. entries \in Seq(Entries) /\ Len(entries) = Len(ReleaseAll) + Len(rest)
  BY <1>4, <1>5, ConcatProperties
<1> HIDE DEF entries
<1>7. CASE stop_at # NotStopped
  <2>1. /\ UNCHANGED <<out, stop_at, pressed_buttons>> /\ DumpEvents(entries)
        /\ context' \in {"enabled", "disabling"}
    BY <1>2, <1>7
  <2> QED
    BY <1>1, <1>3, <1>6, <1>7, <2>1, WriteStep
<1>8. CASE stop_at = NotStopped /\ out = "stdout"
  <2>1. log' = log \o entries /\ stop_at' = Len(log) + Len(ReleaseAll)
    BY <1>2, <1>8 DEF DumpEvents
  <2>2. log' \in Seq(Entries) /\ Len(log') = Len(log) + Len(entries)
    BY <1>1, <1>6, <2>1, ConcatProperties
  <2>3. Len(ReleaseAll) \in 0..Len(entries) /\ stop_at' \in 0..Len(log') /\ stop_at' # NotStopped
    <3>1. Len(ReleaseAll) \in Nat /\ Len(rest) \in Nat
      BY <1>4, <1>5
    <3> QED
      BY <1>1, <1>6, <2>1, <2>2, <3>1 DEF NotStopped
  <2>4. SubSeq(entries, 1, Len(ReleaseAll)) = ReleaseAll
    <3>1. Len(ReleaseAll) \in 0..Len(ReleaseAll)
      BY <1>5
    <3>2. SubSeq(entries, 1, Len(ReleaseAll)) = SubSeq(ReleaseAll, 1, Len(ReleaseAll))
      BY <1>4, <1>5, <3>1, PrefixOfConcat DEF entries
    <3> QED
      BY <1>5, <3>2, SubSeqFull
  <2>5. SubSeq(log', 1, stop_at') = log \o ReleaseAll
    <3>1. SubSeq(log \o entries, 1, Len(log) + Len(ReleaseAll))
            = log \o SubSeq(entries, 1, Len(ReleaseAll))
      BY <1>1, <1>6, <2>3, PrefixBeyond
    <3> QED
      BY <2>1, <2>4, <3>1
  <2>6. Alternates(log) /\ HeldBy(log) = Range(pressed_keys) \cup Range(pressed_buttons)
    BY <1>8 DEF RecorderInv, LogFollowsInput
  <2>7. StopReleasesAll'
    BY <2>5, <2>6, ReleaseAllEntries DEF StopReleasesAll
  <2>8. LogFollowsInput'
    BY <2>3 DEF LogFollowsInput
  <2> QED
    BY <1>1, <1>2, <1>3, <1>8, <2>2, <2>3, <2>7, <2>8 DEF RecorderInv, RecorderTypeOK
<1>9. CASE stop_at = NotStopped /\ out # "stdout"
  <2>1. log' = <<>> /\ stop_at' = 0
    BY <1>2, <1>9 DEF DumpEvents, RecorderInv
  <2>2. LogFollowsInput' /\ 0 \in 0..Len(log')
    BY <2>1, NothingWritten DEF LogFollowsInput, NotStopped
  <2>3. SubSeq(log', 1, stop_at') = <<>>
    BY <2>1, NothingWritten
  <2>4. StopReleasesAll'
    BY <2>3, NothingWritten DEF StopReleasesAll
  <2> QED
    BY <1>1, <1>2, <1>3, <1>9, <2>1, <2>2, <2>4, NothingWritten DEF RecorderInv, RecorderTypeOK
<1> QED
  BY <1>7, <1>8, <1>9

LEMMA RecordEventStep ==
  ASSUME RecorderInv, XRecordCallback
  PROVE  RecorderInv'
<1> DEFINE keys == Range(pressed_keys)
           buttons == Range(pressed_buttons)
<1>1. /\ pressed_keys \in Seq(Keys) /\ IsInjective(pressed_keys)
      /\ pressed_buttons \in Seq(Buttons) /\ IsInjective(pressed_buttons)
      /\ log \in Seq(Entries)
  BY DEF RecorderInv, RecorderTypeOK
<1>2. keys \subseteq Keys /\ buttons \subseteq Buttons
  BY <1>1, RangeOfSeq
<1> HIDE DEF keys, buttons
<1>3. /\ \A c : Contains(pressed_keys, c) <=> c \in keys
      /\ \A c : Contains(pressed_buttons, c) <=> c \in buttons
  BY <1>1, InjectiveSeq DEF keys, buttons
<1>4. CASE \E key \in Keys : KeyPress(key)
  <2>1. PICK key \in Keys : KeyPress(key)
    BY <1>4
  <2>2. key \in Codes /\ key \notin buttons
    BY <1>2, CodesTypes
  <2>3. /\ pressed_keys' \in Seq(Keys) /\ IsInjective(pressed_keys')
        /\ Range(pressed_keys') = keys \cup {key}
    BY <1>1, <2>1, PressedList DEF KeyPress, keys
  <2>4. PICK entries \in Seq(Entries) :
          /\ DumpEvents(entries)
          /\ Alternates(log) /\ HeldBy(log) = keys \cup buttons
               => /\ Alternates(log \o entries)
                  /\ HeldBy(log \o entries) = Range(pressed_keys') \cup buttons
    BY <1>3, <2>1, <2>2, <2>3, PressHeld DEF KeyPress, keys
  <2>6. /\ DumpEvents(entries)
        /\ UNCHANGED <<out, stop_at, pressed_buttons>> /\ context' \in {"enabled", "disabling"}
    BY <2>1, <2>4 DEF KeyPress, Recording
  <2>7. Alternates(log) /\ HeldBy(log) = Range(pressed_keys) \cup Range(pressed_buttons)
          => /\ Alternates(log \o entries)
             /\ HeldBy(log \o entries) = Range(pressed_keys') \cup Range(pressed_buttons')
    BY <2>4, <2>6 DEF keys, buttons
  <2> QED
    BY <1>1, <2>3, <2>4, <2>6, <2>7, WriteStep
<1>5. CASE \E key \in Keys : KeyRelease(key)
  <2>1. PICK key \in Keys : KeyRelease(key)
    BY <1>5
  <2>2. key \in Codes /\ key \notin buttons /\ key \in keys
    BY <1>2, <1>3, <2>1, CodesTypes DEF KeyRelease
  <2>3. /\ pressed_keys' \in Seq(Keys) /\ IsInjective(pressed_keys')
        /\ Range(pressed_keys') = keys \ {key}
    BY <1>1, <2>1, ReleasedList DEF KeyRelease, keys
  <2>4. <<Entry("Release", key)>> \in Seq(Entries)
    BY <2>2, CodesTypes
  <2>5. Alternates(log) /\ HeldBy(log) = keys \cup buttons
          => /\ Alternates(log \o <<Entry("Release", key)>>)
             /\ HeldBy(log \o <<Entry("Release", key)>>) = Range(pressed_keys') \cup buttons
    BY <2>2, <2>3, ReleaseHeld
  <2>6. /\ DumpEvents(<<Entry("Release", key)>>)
        /\ UNCHANGED <<out, stop_at, pressed_buttons>> /\ context' \in {"enabled", "disabling"}
    BY <2>1 DEF KeyRelease, Recording
  <2>7. Alternates(log) /\ HeldBy(log) = Range(pressed_keys) \cup Range(pressed_buttons)
          => /\ Alternates(log \o <<Entry("Release", key)>>)
             /\ HeldBy(log \o <<Entry("Release", key)>>) = Range(pressed_keys') \cup Range(pressed_buttons')
    BY <2>4, <2>5, <2>6 DEF keys, buttons
  <2> QED
    BY <1>1, <2>3, <2>4, <2>6, <2>7, WriteStep
<1>6. CASE \E button \in Buttons : ButtonPress(button)
  <2>1. PICK button \in Buttons : ButtonPress(button)
    BY <1>6
  <2>2. button \in Codes /\ button \notin keys
    BY <1>2, CodesTypes
  <2>3. /\ pressed_buttons' \in Seq(Buttons) /\ IsInjective(pressed_buttons')
        /\ Range(pressed_buttons') = buttons \cup {button}
    BY <1>1, <2>1, PressedList DEF ButtonPress, buttons
  <2>4. PICK entries \in Seq(Entries) :
          /\ DumpEvents(entries)
          /\ Alternates(log) /\ HeldBy(log) = buttons \cup keys
               => /\ Alternates(log \o entries)
                  /\ HeldBy(log \o entries) = Range(pressed_buttons') \cup keys
    BY <1>3, <2>1, <2>2, <2>3, PressHeld DEF ButtonPress, buttons
  <2>6. /\ DumpEvents(entries)
        /\ UNCHANGED <<out, stop_at, pressed_keys>> /\ context' \in {"enabled", "disabling"}
    BY <2>1, <2>4 DEF ButtonPress, Recording
  <2>7. Alternates(log) /\ HeldBy(log) = Range(pressed_keys) \cup Range(pressed_buttons)
          => /\ Alternates(log \o entries)
             /\ HeldBy(log \o entries) = Range(pressed_keys') \cup Range(pressed_buttons')
    BY <2>4, <2>6 DEF keys, buttons
  <2> QED
    BY <1>1, <2>3, <2>4, <2>6, <2>7, WriteStep
<1>7. CASE \E button \in Buttons : ButtonRelease(button)
  <2>1. PICK button \in Buttons : ButtonRelease(button)
    BY <1>7
  <2>2. button \in Codes /\ button \notin keys /\ button \in buttons
    BY <1>2, <1>3, <2>1, CodesTypes DEF ButtonRelease
  <2>3. /\ pressed_buttons' \in Seq(Buttons) /\ IsInjective(pressed_buttons')
        /\ Range(pressed_buttons') = buttons \ {button}
    BY <1>1, <2>1, ReleasedList DEF ButtonRelease, buttons
  <2>4. <<Entry("Release", button)>> \in Seq(Entries)
    BY <2>2, CodesTypes
  <2>5. Alternates(log) /\ HeldBy(log) = buttons \cup keys
          => /\ Alternates(log \o <<Entry("Release", button)>>)
             /\ HeldBy(log \o <<Entry("Release", button)>>) = Range(pressed_buttons') \cup keys
    BY <2>2, <2>3, ReleaseHeld
  <2>6. /\ DumpEvents(<<Entry("Release", button)>>)
        /\ UNCHANGED <<out, stop_at, pressed_keys>> /\ context' \in {"enabled", "disabling"}
    BY <2>1 DEF ButtonRelease, Recording
  <2>7. Alternates(log) /\ HeldBy(log) = Range(pressed_keys) \cup Range(pressed_buttons)
          => /\ Alternates(log \o <<Entry("Release", button)>>)
             /\ HeldBy(log \o <<Entry("Release", button)>>) = Range(pressed_keys') \cup Range(pressed_buttons')
    BY <2>4, <2>5, <2>6 DEF keys, buttons
  <2> QED
    BY <1>1, <2>3, <2>4, <2>6, <2>7, WriteStep
<1>8. CASE TurnWheel
  <2> DEFINE b == <<Entry("Wheel", Wheel)>>
  <2>1. Entry("Wheel", Wheel) \in Entries /\ Entry("Wheel", Wheel).type = "Wheel"
    BY CodesTypes
  <2>2. b \in Seq(Entries) /\ Len(b) = 1 /\ b[1] = Entry("Wheel", Wheel)
    BY <2>1
  <2> HIDE DEF b
  <2>3. /\ \A i \in 1..Len(b) : b[i].type # "Press"
        /\ \A c \in Codes, i \in 1..Len(b) : b[i] # Entry("Release", c)
    BY <2>1, <2>2 DEF Entry
  <2>4. HeldBy(log \o b) = HeldBy(log)
    <3>1. HeldBy(log \o b) = HeldBy(log) \ {c \in Codes : \E i \in 1..Len(b) : b[i] = Entry("Release", c)}
      BY <1>1, <2>2, <2>3, HeldAfterReleases
    <3>2. \A c \in Codes : ~ \E i \in 1..Len(b) : b[i] = Entry("Release", c)
      BY <2>3
    <3> QED
      BY <3>1, <3>2
  <2>5. Alternates(log) => Alternates(log \o b)
    BY <1>1, <2>1, AlternatesOne DEF b
  <2>6. /\ DumpEvents(b) /\ UNCHANGED <<out, stop_at, pressed_keys, pressed_buttons>>
        /\ context' \in {"enabled", "disabling"}
    BY <1>8 DEF TurnWheel, Recording, b
  <2>7. Alternates(log) /\ HeldBy(log) = Range(pressed_keys) \cup Range(pressed_buttons)
          => /\ Alternates(log \o b)
             /\ HeldBy(log \o b) = Range(pressed_keys') \cup Range(pressed_buttons')
    BY <2>4, <2>5, <2>6
  <2> QED
    BY <1>1, <2>2, <2>6, <2>7, WriteStep
<1>9. CASE KeyPressStop
  BY <1>9, KeyPressStopStep
<1> QED
  BY <1>4, <1>5, <1>6, <1>7, <1>8, <1>9 DEF XRecordCallback

LEMMA RecorderInvStep == RecorderInv /\ [CommandNext]_allVars => RecorderInv'
<1> SUFFICES ASSUME RecorderInv, [CommandNext]_allVars PROVE RecorderInv'
  OBVIOUS
<1>1. CASE RecordEvent
  BY <1>1, RecordEventStep DEF RecordEvent
<1>2. ASSUME UNCHANGED recorderVars PROVE RecorderInv'
  BY <1>2 DEF recorderVars, RecorderInv, RecorderTypeOK, LogFollowsInput, StopReleasesAll
<1>3. CASE Record
  <2>1. CASE UNCHANGED recorderVars
    BY <1>2, <2>1
  <2>2. CASE \E f \in {"file", "stdout"} : Enable(f)
    <3>1. Range(<<>>) = {}
      BY DEF Range
    <3> QED
      BY <2>2, <3>1, NothingWritten
         DEF Enable, RecorderInv, RecorderTypeOK, LogFollowsInput, StopReleasesAll
  <2> QED
    BY <1>3, <2>1, <2>2 DEF Record
<1>4. CASE RecordEnds
  BY <1>4 DEF RecordEnds, ContextDisabled, RecorderInv, RecorderTypeOK, LogFollowsInput,
     StopReleasesAll
<1>5. CASE \/ Test \/ TestOnPlayerReady \/ OnSigint \/ TestPlayerFinished \/ TestPoll
           \/ TestSystemState \/ Play \/ PlayWait \/ OnPlayerReady \/ OnPlayerFinished
           \/ UNCHANGED allVars
  BY <1>2, <1>5 DEF Test, TestOnPlayerReady, OnSigint, TestPlayerFinished, TestPoll,
     TestSystemState, Play, PlayWait, OnPlayerReady, OnPlayerFinished, OnRunnerPhaseChanged,
     allVars
<1> QED
  BY <1>1, <1>3, <1>4, <1>5 DEF CommandNext

(* Whatever keys and buttons there are and however long a recording is, its *)
(* presses and releases alternate, what it holds down is what the user      *)
(* does, and up to the Super-Q that ends it everything is released          *)
(* (event-recorder.c:55-127).                                               *)
THEOREM RecordingAlwaysBalanced == CommandSpec => []RecordingBalanced
<1>1. CommandInit => RecorderInv
  BY InitRecorderInv DEF CommandInit
<1>2. RecorderInv => RecordingBalanced
  BY DEF RecorderInv, RecordingBalanced
<1> QED
  BY <1>1, <1>2, RecorderInvStep, PTL DEF CommandSpec

-----------------------------------------------------------------------------
(* `gbb test' gets to its main loop only with a duration it could parse.    *)
ProcessInv ==
  /\ command \in Commands
  /\ args \in Arguments
  /\ status \in {"starting", "running", "exited", "died", "crashed"}
  /\ test_output \in {"NULL", "option", "default"}
  /\ playback \in {"none", "playing", "finished"}
  /\ Testing => ~Crashes(args) /\ DurationParses(args)

(* The runner is used as its specification says: `test' starts one run, of  *)
(* a duration that it can be given, and stops it.                           *)
LEMMA RunnerUsed ==
  ASSUME ProcessInv, [CommandNext]_allVars
  PROVE  [Next]_vars
<1>1. CASE TestOnPlayerReady
  <2>1. Start(args.test, Duration(args)) /\ Testing
    BY <1>1 DEF TestOnPlayerReady
  <2>2. args.test \in Tests /\ Duration(args) \in Durations
    BY <2>1, DurationsOfTestAssumption DEF ProcessInv, Arguments
  <2> QED
    BY <2>1, <2>2 DEF Next, StartNewRun
<1>2. CASE OnSigint \/ TestPlayerFinished \/ TestPoll
  BY <1>2 DEF OnSigint, TestPlayerFinished, TestPoll, Next
<1>3. CASE TestSystemState
  BY <1>3 DEF TestSystemState
<1>4. CASE \/ Test \/ Play \/ PlayWait \/ OnPlayerReady \/ OnPlayerFinished
           \/ Record \/ RecordEvent \/ RecordEnds \/ UNCHANGED allVars
  BY <1>4, OtherSteps
<1> QED
  BY <1>1, <1>2, <1>3, <1>4 DEF CommandNext

LEMMA ProcessInvStep == ProcessInv /\ [CommandNext]_allVars => ProcessInv'
<1> SUFFICES ASSUME ProcessInv, [CommandNext]_allVars PROVE ProcessInv'
  OBVIOUS
<1> USE DEF ProcessInv, Testing
<1>1. CASE Test
  BY <1>1 DEF Test
<1>2. CASE TestOnPlayerReady \/ TestSystemState \/ PlayWait \/ RecordEvent \/ UNCHANGED allVars
  BY <1>2 DEF TestOnPlayerReady, TestSystemState, PlayWait, RecordEvent, allVars, processVars
<1>3. CASE OnSigint \/ TestPlayerFinished \/ TestPoll
  <2>1. OnRunnerPhaseChanged /\ Testing
    BY <1>3 DEF OnSigint, TestPlayerFinished, TestPoll
  <2> QED
    BY <2>1 DEF OnRunnerPhaseChanged, PhaseIgnored, PhaseRunning, PhaseStopped
<1>4. CASE Play \/ OnPlayerReady \/ OnPlayerFinished \/ Record \/ RecordEnds
  BY <1>4 DEF Play, OnPlayerReady, OnPlayerFinished, Record, RecordEnds
<1> QED
  BY <1>1, <1>2, <1>3, <1>4 DEF CommandNext

(* The file holds a run that there was.                                     *)
FileInv == file \in Run \cup {NoFile}

LEMMA FileInvStep ==
  ASSUME Control, Contents, FileInv, [CommandNext]_allVars, Contents'
  PROVE  FileInv'
<1>1. CASE OnSigint \/ TestPlayerFinished \/ TestPoll
  <2>1. OnRunnerPhaseChanged
    BY <1>1 DEF OnSigint, TestPlayerFinished, TestPoll
  <2>2. CASE PhaseIgnored \/ PhaseRunning
    BY <2>2 DEF PhaseIgnored, PhaseRunning, FileInv
  <2>3. CASE PhaseStopped
    <3>1. run # NoRun /\ run \in Run
      BY <2>3 DEF PhaseStopped, Contents, RunUsable
    <3>2. run' = run
      <4>1. phase' = "STOPPED" /\ (Stop \/ PlayerFinished \/ PollSame \/ PollChanged)
        BY <1>1, <2>3 DEF PhaseStopped, OnSigint, TestPlayerFinished, TestPoll
      <4>2. (~PollSame /\ ~PollChanged) \/ phase = "STOPPED" \/ run' = run
        BY <4>1 DEF PollSame, PollChanged, LeaveWaiting, RecordReading, IgnoreReading
      <4>3. Stop \/ PlayerFinished => run' = run
        BY DEF Stop, PlayerFinished
      <4> QED
        BY <2>3, <4>1, <4>2, <4>3 DEF PhaseStopped
    <3> QED
      BY <2>3, <3>1, <3>2 DEF PhaseStopped, FileInv
  <2> QED
    BY <2>1, <2>2, <2>3 DEF OnRunnerPhaseChanged
<1>2. CASE \/ Test \/ TestOnPlayerReady \/ TestSystemState \/ Play \/ PlayWait
           \/ OnPlayerReady \/ OnPlayerFinished \/ Record \/ RecordEvent \/ RecordEnds
           \/ UNCHANGED allVars
  BY <1>2 DEF Test, TestOnPlayerReady, TestSystemState, Play, PlayWait, OnPlayerReady,
     OnPlayerFinished, Record, RecordEvent, RecordEnds, allVars, processVars, FileInv
<1> QED
  BY <1>1, <1>2 DEF CommandNext

(* Every event the server has queued is for a change of its list.           *)
WaitTypeInv == WaitTypeOK /\ events <= changes

LEMMA WaitTypeStep == WaitTypeInv /\ [CommandNext]_allVars => WaitTypeInv'
<1> SUFFICES ASSUME WaitTypeInv, [CommandNext]_allVars PROVE WaitTypeInv'
  OBVIOUS
<1> USE MaxChangesAssumption DEF WaitTypeInv, WaitTypeOK, WaitStates
<1>1. CASE Play
  BY <1>1 DEF Play, Wait, StartThread
<1>2. CASE PlayWait
  <2>1. CASE SelectEvents
    BY <2>1 DEF SelectEvents
  <2>2. CASE CheckForDevices
    BY <2>2 DEF CheckForDevices
  <2>3. CASE NextEvent
    BY <2>3 DEF NextEvent
  <2>4. CASE PlayerBecomesReady
    BY <2>4 DEF PlayerBecomesReady, StartThread
  <2>5. CASE DeviceListChanges
    <3>1. changes' = changes + 1 /\ changes < MaxChanges
          /\ events' \in {events, events + 1} /\ UNCHANGED <<player_ready, wait, nodes, selected, listed>>
      BY <2>5 DEF DeviceListChanges
    <3>2. devices' \subseteq Nodes /\ both_seen' \in BOOLEAN /\ vanished' \in BOOLEAN
      BY <2>5 DEF DeviceListChanges
    <3> QED
      BY <3>1, <3>2
  <2>6. CASE QueryDevices
    BY <2>6 DEF QueryDevices
  <2> QED
    BY <1>2, <2>1, <2>2, <2>3, <2>4, <2>5, <2>6 DEF PlayWait, Thread
<1>3. CASE OnPlayerReady
  BY <1>3 DEF OnPlayerReady, OnThreadDone
<1>4. CASE TestOnPlayerReady
  BY <1>4 DEF TestOnPlayerReady
<1>5. CASE OnSigint \/ TestPlayerFinished \/ TestPoll
  BY <1>5 DEF OnSigint, TestPlayerFinished, TestPoll, OnRunnerPhaseChanged, waitVars
<1>6. CASE \/ Test \/ TestSystemState \/ OnPlayerFinished \/ Record \/ RecordEvent
           \/ RecordEnds \/ UNCHANGED allVars
  BY <1>6 DEF Test, TestSystemState, OnPlayerFinished, Record, RecordEvent, RecordEnds,
     allVars, waitVars
<1> QED
  BY <1>1, <1>2, <1>3, <1>4, <1>5, <1>6 DEF CommandNext

CommandInv ==
  /\ Control /\ Contents
  /\ BrightnessInv
  /\ WaitTypeInv
  /\ RecorderInv
  /\ ProcessInv
  /\ FileInv

LEMMA InitCommandInv == CommandInit => CommandInv
<1> SUFFICES ASSUME CommandInit PROVE CommandInv
  OBVIOUS
<1>1. Control /\ Contents
  BY InitIInv, IInvParts DEF CommandInit
<1>2. WaitTypeInv
  <2>1. both_seen \in BOOLEAN
    <3>1. both_seen = (devices = Nodes)
      BY DEF CommandInit, WaitInit
    <3>2. (devices = Nodes) \in BOOLEAN
      OBVIOUS
    <3> QED
      BY <3>1, <3>2, Zenon
  <2>2. events \in 0..MaxChanges /\ changes \in 0..MaxChanges /\ events <= changes
    BY MaxChangesAssumption DEF CommandInit, WaitInit
  <2>3. /\ player_ready \in BOOLEAN /\ selected \in BOOLEAN
        /\ listed \subseteq Nodes /\ vanished \in BOOLEAN
    BY DEF CommandInit, WaitInit
  <2>4. wait \in WaitStates /\ nodes \in {"NULL", "known"} /\ devices \subseteq Nodes
    BY DEF CommandInit, WaitInit, WaitStates
  <2> QED
    BY <2>1, <2>2, <2>3, <2>4 DEF WaitTypeInv, WaitTypeOK
<1>3. ProcessInv
  BY DEF CommandInit, ProcessInv, Testing
<1> QED
  BY <1>1, <1>2, <1>3, InitBrightnessInv, InitRecorderInv DEF CommandInit, CommandInv, FileInv

THEOREM CommandInvariance == CommandSpec => []CommandInv
<1>1. CommandInv /\ [CommandNext]_allVars => CommandInv'
  <2> SUFFICES ASSUME CommandInv, [CommandNext]_allVars PROVE CommandInv'
    OBVIOUS
  <2>1. [Next]_vars
    BY RunnerUsed DEF CommandInv
  <2>2. Control' /\ Contents'
    BY <2>1, ControlStep, ContentsStep DEF CommandInv
  <2>3. FileInv'
    BY <2>2, FileInvStep DEF CommandInv
  <2> QED
    BY <2>2, <2>3, BrightnessInvStep, WaitTypeStep, RecorderInvStep, ProcessInvStep
       DEF CommandInv
<1> QED
  BY <1>1, InitCommandInv, PTL DEF CommandSpec

(* Every variable of the command line and of its parts keeps its type,      *)
(* whatever lists, durations and levels there are.                          *)
THEOREM CommandTypeCorrect == CommandSpec => []CommandTypeOK
<1>1. CommandInv => CommandTypeOK
  BY IInvParts DEF CommandInv, CommandTypeOK, IInv, BrightnessInv, WaitTypeInv, RecorderInv,
     ProcessInv, FileInv
<1> QED
  BY <1>1, CommandInvariance, PTL

(* What is proved of the runner holds in `gbb test', too: player, flags and *)
(* run follow the phase and the history stays short (commandline.c:485-560). *)
THEOREM TestKeepsRunnerInvariants == CommandSpec => [](PhaseConsistent /\ HistoryBounded)
<1>1. CommandInv => PhaseConsistent /\ HistoryBounded
  BY DEF CommandInv, Control, Contents, PhaseConsistent
<1> QED
  BY <1>1, CommandInvariance, PTL
===============================================================================
