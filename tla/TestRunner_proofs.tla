-------------------------- MODULE TestRunner_proofs --------------------------
(* Proofs about TestRunner, for every set of tests, durations and charges. *)
EXTENDS TestRunner, TLAPS

(* The inductive invariant: the type invariant and the safety invariants    *)
(* hold only together.  An action that uses the run needs one to be set, a  *)
(* finished player needs to know the phase that waits for it, and a forced  *)
(* stop must find the player stopping.                                      *)
IInv ==
  /\ TypeOK
  /\ PlayerMatchesPhase
  /\ ForceStopOnlyWhileStopping
  /\ RunUsable
  /\ HistoryBounded

-----------------------------------------------------------------------------
(* A new run has the fields of a run and nothing in its history. *)
LEMMA NewRunType ==
  ASSUME NEW t \in Tests, NEW d \in Durations
  PROVE  /\ NewRun(t, d) \in Run
         /\ NewRun(t, d) # NoRun
         /\ NewRun(t, d).history = <<>>
         /\ SharesUsedUp(NewRun(t, d))
<1>1. NewRun(t, d) \in Run
  BY DEF NewRun, Run
<1>2. NewRun(t, d) # NoRun
  BY <1>1, NoRunAssumption
<1>3. NewRun(t, d).history = <<>>
  BY DEF NewRun
<1> QED
  BY <1>1, <1>2, <1>3 DEF SharesUsedUp

(* What appending an element does to a sequence and to its two ends. *)
LEMMA AppendFacts ==
  ASSUME NEW S, NEW h \in Seq(S), NEW e \in S
  PROVE  /\ Append(h, e) \in Seq(S)
         /\ Append(h, e) # <<>>
         /\ Len(Append(h, e)) = Len(h) + 1
         /\ Append(h, e)[Len(h) + 1] = e
         /\ h # <<>> => /\ Append(h, e)[1] = h[1]
                       /\ Len(h) \in Nat \ {0}
                       /\ h[1] \in S
                       /\ h[Len(h)] \in S
         /\ h = <<>> => Append(h, e)[1] = e
<1>1. Len(h) \in Nat /\ (h # <<>> => Len(h) > 0) /\ (h = <<>> => Len(h) = 0)
  OBVIOUS
<1>2. Append(h, e) \in Seq(S) /\ Len(Append(h, e)) = Len(h) + 1
  OBVIOUS
<1>3. Append(h, e)[Len(h) + 1] = e
  OBVIOUS
<1>4. Append(h, e) # <<>>
  <2>1. ASSUME NEW q, q = <<>>
        PROVE  Len(q) = 0
    BY <2>1
  <2>2. Len(Append(h, e)) # 0
    BY <1>1, <1>2
  <2> QED
    BY <2>1, <2>2
<1>5. ASSUME h # <<>>
      PROVE  Append(h, e)[1] = h[1] /\ h[1] \in S /\ h[Len(h)] \in S
  BY <1>1, <1>5
<1>6. ASSUME h = <<>>
      PROVE  Append(h, e)[1] = e
  BY <1>1, <1>3, <1>6
<1> QED
  BY <1>1, <1>2, <1>3, <1>4, <1>5, <1>6

(* Adding a reading leaves a run that has readings, the same first one      *)
(* unless it is the first itself.                                           *)
LEMMA AddType ==
  ASSUME NEW r \in Run, NEW s \in Reading
  PROVE  /\ Add(r, s) \in Run
         /\ Add(r, s).history # <<>>
         /\ StartState(Add(r, s)) = IF r.history = <<>> THEN s ELSE StartState(r)
         /\ Add(r, s).dated = r.dated
         /\ Add(r, s).test = r.test
         /\ Add(r, s).duration = r.duration
<1>1. r.history \in Seq(Reading)
  BY DEF Run
<1>2. CASE UseState(r, s)
  <2>1. Add(r, s) = [r EXCEPT !.history = Append(r.history, s)]
    BY <1>2 DEF Add
  <2>2. /\ Append(r.history, s) \in Seq(Reading)
        /\ Append(r.history, s) # <<>>
        /\ Append(r.history, s)[1] = IF r.history = <<>> THEN s ELSE r.history[1]
    BY <1>1, AppendFacts
  <2>3. Add(r, s).history = Append(r.history, s)
    BY <2>1 DEF Run
  <2> QED
    BY <2>1, <2>2, <2>3 DEF Run, StartState
<1>3. CASE ~UseState(r, s)
  BY <1>1, <1>3 DEF Add, UseState
<1> QED
  BY <1>2, <1>3

(* Dating a run changes nothing else. *)
LEMMA SetStartTimeType ==
  ASSUME NEW r \in Run
  PROVE  /\ SetStartTime(r) \in Run
         /\ SetStartTime(r).dated = TRUE
         /\ SetStartTime(r).history = r.history
         /\ SetStartTime(r).duration = r.duration
BY DEF SetStartTime, Run

(* The numbers of a reading. *)
LEMMA ReadingNumbers ==
  ASSUME NEW x \in Reading
  PROVE  x.time \in Int /\ x.percent \in Int
<1>1. x.time \in 0..MaxTime /\ x.percent \in Percents
  BY DEF Reading
<1>2. MaxTime \in Nat
  BY SamplesAssumption
<1>3. 0..MaxTime \subseteq Int
  BY <1>2
<1>4. Percents \subseteq Int
  BY PercentsAssumption
<1> QED
  BY <1>1, <1>3, <1>4

(* The arithmetic of shares: two adjacent distances, scaled by k, add up.   *)
LEMMA SumOfShares ==
  ASSUME NEW k \in Int, NEW n \in Int, NEW share \in Int,
         NEW a \in Int, NEW b \in Int, NEW c \in Int,
         k * (b - a) >= (n - 1) * share, k * (c - b) > share
  PROVE  k * (c - a) >= n * share
<1>1. k * (c - a) = k * (c - b) + k * (b - a)
  OBVIOUS
<1>2. n * share = (n - 1) * share + share
  OBVIOUS
<1>3. /\ k * (c - a) \in Int /\ k * (c - b) \in Int /\ k * (b - a) \in Int
      /\ n * share \in Int /\ (n - 1) * share \in Int
  OBVIOUS
<1> QED
  BY <1>1, <1>2, <1>3

(* The same for values that go down. *)
LEMMA SumOfSharesDown ==
  ASSUME NEW k \in Int, NEW n \in Int, NEW share \in Int,
         NEW a \in Int, NEW b \in Int, NEW c \in Int,
         k * (a - b) >= (n - 1) * share, k * (b - c) > share
  PROVE  k * (a - c) >= n * share
<1>1. k * (a - c) = k * (a - b) + k * (b - c)
  OBVIOUS
<1>2. n * share = (n - 1) * share + share
  OBVIOUS
<1>3. /\ k * (a - c) \in Int /\ k * (a - b) \in Int /\ k * (b - c) \in Int
      /\ n * share \in Int /\ (n - 1) * share \in Int
  OBVIOUS
<1> QED
  BY <1>1, <1>2, <1>3

(* One more kept reading uses up one more share: the distance to the last   *)
(* kept reading exceeds a share and adds to the distance already covered.   *)
LEMMA AddKeepsShares ==
  ASSUME NEW r \in Run, NEW s \in Reading, SharesUsedUp(r)
  PROVE  SharesUsedUp(Add(r, s))
<1> DEFINE h == r.history
           g == Append(h, s)
           limit == r.duration.limit
<1>1. /\ h \in Seq(Reading)
      /\ r.duration \in [type : {"TIME", "PERCENT"}, limit : Nat]
      /\ limit \in Nat
      /\ TimeSamples \in Nat /\ PercentSamples \in Nat
  BY DurationsAssumption, SamplesAssumption DEF Run
<1>2. \A x \in Reading : x.time \in Int /\ x.percent \in Int
  BY ReadingNumbers
<1>3. CASE ~UseState(r, s)
  BY <1>3 DEF Add
<1>4. CASE UseState(r, s)
  <2>1. /\ Add(r, s).history = g
        /\ Add(r, s).duration = r.duration
    BY <1>4 DEF Add, Run
  <2>2. /\ g # <<>>
        /\ Len(g) = Len(h) + 1
        /\ g[Len(g)] = s
        /\ h # <<>> => /\ g[1] = h[1]
                      /\ Len(h) \in Nat \ {0}
                      /\ h[1] \in Reading
                      /\ h[Len(h)] \in Reading
        /\ h = <<>> => g[1] = s
    BY <1>1, AppendFacts
  <2>3. CASE h = <<>>
    <3>1. Len(g) - 1 = 0 /\ g[1] = s /\ g[Len(g)] = s
      BY <2>2, <2>3
    <3>2. \A x \in Int : 0 * x = 0 /\ x - x = 0
      OBVIOUS
    <3> QED
      BY <1>1, <1>2, <2>1, <3>1, <3>2 DEF SharesUsedUp, StartState, LastState
  <2>4. CASE h # <<>>
    <3> DEFINE n == Len(h)
    <3>1. /\ n \in Nat \ {0}
          /\ h[1].time \in Int /\ h[1].percent \in Int
          /\ h[n].time \in Int /\ h[n].percent \in Int
          /\ s.time \in Int /\ s.percent \in Int
      BY <1>2, <2>2, <2>4
    <3>2. ASSUME r.duration.type = "TIME"
          PROVE  TimeSamples * (s.time - h[1].time) >= n * limit
      <4>1. TimeSamples * (h[n].time - h[1].time) >= (n - 1) * limit
        BY <2>4, <3>2 DEF SharesUsedUp, StartState, LastState
      <4>2. TimeSamples * (s.time - h[n].time) > limit
        BY <1>4, <2>4, <3>2 DEF UseState, LastState
      <4>3. TimeSamples \in Int /\ n \in Int /\ limit \in Int
        BY <1>1, <3>1
      <4> HIDE DEF h, n, limit
      <4> QED
        BY <3>1, <4>1, <4>2, <4>3, SumOfShares, Zenon
    <3>3. ASSUME r.duration.type = "PERCENT", h[1].percent - limit > 0
          PROVE  PercentSamples * (h[1].percent - s.percent)
                   >= n * (h[1].percent - limit)
      <4> DEFINE span == h[1].percent - limit
      <4>1. PercentSamples * (h[1].percent - h[n].percent) >= (n - 1) * span
        BY <2>4, <3>3 DEF SharesUsedUp, StartState, LastState
      <4>2. PercentSamples * (h[n].percent - s.percent) > span
        BY <1>1, <1>4, <2>4, <3>1, <3>3
           DEF UseState, LastState, StartState, QuotientExceeds
      <4>3. PercentSamples \in Int /\ n \in Int /\ span \in Int
        BY <1>1, <3>1
      <4> HIDE DEF h, n, limit, span
      <4>4. PercentSamples * (h[1].percent - s.percent) >= n * span
        BY <3>1, <4>1, <4>2, <4>3, SumOfSharesDown, Zenon
      <4> QED
        BY <4>4 DEF span
    <3>4. Len(g) - 1 = n /\ g[1] = h[1] /\ g[Len(g)] = s
      BY <2>2, <2>4, <3>1
    <3> QED
      BY <2>1, <3>2, <3>3, <3>4 DEF SharesUsedUp, StartState, LastState
  <2> QED
    BY <2>3, <2>4
<1> QED
  BY <1>3, <1>4

-----------------------------------------------------------------------------
(* The control part of the invariant: everything but what is said about the *)
(* contents of the run, so that the proofs about phases, flags and player   *)
(* need not look inside it.                                                 *)
Control ==
  /\ phase \in Phases
  /\ stop_requested \in BOOLEAN
  /\ force_stop \in BOOLEAN
  /\ player \in {"idle", "stopping"} \cup Files
  /\ brightness \in Brightnesses
  /\ saved \in Brightnesses
  /\ user_ended \in BOOLEAN
  /\ PlayerMatchesPhase
  /\ ForceStopOnlyWhileStopping

Contents ==
  /\ run \in Run \cup {NoRun}
  /\ current_state \in Reading
  /\ clock \in 0..MaxTime
  /\ RunUsable
  /\ HistoryBounded

LEMMA IInvParts == IInv <=> Control /\ Contents
BY DEF IInv, TypeOK, Control, Contents

LEMMA InitIInv == Init => IInv
<1> SUFFICES ASSUME Init PROVE Control /\ Contents
  BY IInvParts
<1>1. Control
  BY DEF Init, Control, Phases, Files, Brightnesses, PlayerMatchesPhase,
         ForceStopOnlyWhileStopping
<1>2. 0 \in 0..MaxTime
  BY SamplesAssumption
<1>3. current_state \in Reading
  BY <1>2 DEF Init, ReadingsAt, Reading
<1>4. Contents
  BY <1>2, <1>3 DEF Init, Contents, RunUsable, HistoryBounded
<1> QED
  BY <1>1, <1>4

(* The control part is preserved by every step that the code can take. *)
LEMMA ControlStep ==
  ASSUME Control, [Next]_vars
  PROVE  Control'
<1> USE DEF Control, Phases, Files, Brightnesses, PlayerMatchesPhase,
            ForceStopOnlyWhileStopping
<1>1. ASSUME NEW t \in Tests, NEW d \in Durations, Start(t, d)
      PROVE  Control'
  BY <1>1 DEF Start, PlayFile
<1>2. CASE Stop
  <2>1. CASE StopRunning
    BY <1>2, <2>1 DEF Stop, StopRunning, StopPlayer
  <2>2. CASE StopWaiting
    BY <1>2, <2>2 DEF Stop, StopWaiting, SetEpilogue, SetStopped, PlayFile
  <2>3. CASE StopPrologue
    BY <1>2, <2>3 DEF Stop, StopPrologue
  <2> QED
    BY <1>2, <2>1, <2>2, <2>3 DEF Stop
<1>3. CASE ForceStop
  <2>1. CASE phase \in {"PROLOGUE", "RUNNING", "EPILOGUE"}
    <3>1. /\ phase' = "STOPPING" /\ force_stop' = TRUE /\ user_ended' = TRUE
          /\ UNCHANGED <<stop_requested, brightness, saved>>
      BY <1>3, <2>1 DEF ForceStop
    <3>2. player' = "stopping"
      BY <1>3, <2>1 DEF ForceStop, StopPlayer
    <3> QED
      BY <3>1, <3>2
  <2>2. CASE phase = "STOPPING"
    BY <1>3, <2>2 DEF ForceStop
  <2>3. CASE phase = "WAITING"
    BY <1>3, <2>3 DEF ForceStop
  <2> QED
    BY <1>3, <2>1, <2>2, <2>3 DEF ForceStop
<1>4. CASE PlayerFinished
  <2> USE <1>4 DEF PlayerFinished, SetEpilogue, SetStopped, PlayFile
  <2>1. CASE FinishedForceStop
    BY <2>1 DEF FinishedForceStop
  <2>2. CASE ~force_stop /\ FinishedPrologue /\ UNCHANGED force_stop
    BY <2>2 DEF FinishedPrologue
  <2>3. CASE ~force_stop /\ FinishedLoop /\ UNCHANGED force_stop
    BY <2>3 DEF FinishedLoop
  <2>4. CASE ~force_stop /\ FinishedStopping /\ UNCHANGED force_stop
    BY <2>4 DEF FinishedStopping
  <2>5. CASE ~force_stop /\ FinishedEpilogue /\ UNCHANGED force_stop
    BY <2>5 DEF FinishedEpilogue
  <2> QED
    BY <2>1, <2>2, <2>3, <2>4, <2>5
<1>5. CASE PollSame
  BY <1>5 DEF PollSame
<1>6. CASE PollChanged
  <2>1. PICK s \in ReadingsAt(clock') : LeaveWaiting(s) \/ RecordReading(s) \/ IgnoreReading(s)
    BY <1>6 DEF PollChanged
  <2>2. UNCHANGED <<stop_requested, force_stop, brightness, saved, user_ended>>
    BY <1>6 DEF PollChanged
  <2>3. CASE LeaveWaiting(s)
    BY <2>2, <2>3 DEF LeaveWaiting, PlayFile
  <2>4. CASE RecordReading(s)
    BY <2>2, <2>4 DEF RecordReading
  <2>5. CASE IgnoreReading(s)
    BY <2>2, <2>5 DEF IgnoreReading
  <2> QED
    BY <2>1, <2>3, <2>4, <2>5
<1>7. CASE UNCHANGED vars
  BY <1>7 DEF vars
<1> QED
  BY <1>1, <1>2, <1>3, <1>4, <1>5, <1>6, <1>7 DEF Next, StartNewRun

(* What a step does to the run: it is replaced by a new one, or gets a      *)
(* reading while it runs, or stays as it is.                                *)
LEMMA ContentsStep ==
  ASSUME Control, Contents, [Next]_vars
  PROVE  Contents'
<1>1. /\ run \in Run \cup {NoRun} /\ current_state \in Reading /\ clock \in 0..MaxTime
      /\ HistoryBounded
  BY DEF Contents
<1>2. ASSUME NEW t \in Tests, NEW d \in Durations, Start(t, d)
      PROVE  Contents'
  <2>1. run' = NewRun(t, d) /\ UNCHANGED <<current_state, clock>>
    BY <1>2 DEF Start
  <2>2. phase' # "RUNNING"
    BY <1>2 DEF Start
  <2> QED
    BY <1>1, <2>1, <2>2, NewRunType DEF Contents, RunUsable, HistoryBounded
<1>3. ASSUME UNCHANGED <<run, current_state, clock>>,
             phase' = "RUNNING" => phase = "RUNNING",
             phase' # "STOPPED" => phase # "STOPPED",
             phase' \in {"PROLOGUE", "WAITING"} => phase \in {"PROLOGUE", "WAITING"}
      PROVE  Contents'
  BY <1>3 DEF Contents, RunUsable, HistoryBounded
<1>4. CASE Stop
  BY <1>3, <1>4 DEF Stop, StopRunning, StopWaiting, StopPrologue, SetEpilogue, SetStopped
<1>5. CASE ForceStop
  BY <1>3, <1>5 DEF ForceStop
<1>6. CASE PlayerFinished
  <2>1. UNCHANGED <<run, current_state, clock>>
    BY <1>6 DEF PlayerFinished
  <2>2. phase # "STOPPED"
    BY <1>6 DEF PlayerFinished, Control, PlayerMatchesPhase
  <2>3. /\ phase' = "RUNNING" => phase = "RUNNING"
        /\ phase' \in {"PROLOGUE", "WAITING"} => phase \in {"PROLOGUE", "WAITING"}
    BY <1>6 DEF PlayerFinished, FinishedForceStop, FinishedPrologue, FinishedLoop,
                FinishedStopping, FinishedEpilogue, SetEpilogue, SetStopped
  <2> QED
    BY <1>3, <2>1, <2>2, <2>3
<1>7. Tick \in 0..MaxTime /\ 0 \in 0..MaxTime
  BY <1>1, SamplesAssumption DEF Tick
<1>8. CASE PollSame
  <2>1. clock' \in 0..MaxTime /\ UNCHANGED <<run, phase, current_state>>
    BY <1>7, <1>8 DEF PollSame
  <2> QED
    BY <2>1 DEF Contents, RunUsable, HistoryBounded
<1>9. CASE PollChanged
  <2>1. clock' \in 0..MaxTime
    BY <1>7, <1>9 DEF PollChanged
  <2>2. PICK s \in ReadingsAt(clock') :
          /\ current_state' = s
          /\ LeaveWaiting(s) \/ RecordReading(s) \/ IgnoreReading(s)
    BY <1>9 DEF PollChanged
  <2>3. s \in Reading
    BY <2>1, <2>2 DEF ReadingsAt, Reading
  <2>4. CASE LeaveWaiting(s)
    <3> DEFINE r == SetStartTime(run)
    <3>1. phase = "WAITING" /\ ~s.online /\ run' = Add(r, s) /\ phase' = "RUNNING"
      BY <2>4 DEF LeaveWaiting
    <3>2. run # NoRun /\ run \in Run
      BY <1>1, <3>1 DEF Contents, RunUsable
    <3>3. r \in Run /\ r.dated = TRUE /\ r.history = <<>>
      BY <3>1, <3>2, SetStartTimeType DEF Contents, RunUsable
    <3>4. SharesUsedUp(r)
      BY <3>3 DEF SharesUsedUp
    <3> HIDE DEF r
    <3>5. /\ run' \in Run /\ run'.history # <<>> /\ run'.dated /\ SharesUsedUp(run')
          /\ StartState(run') = s
      BY <2>3, <3>1, <3>3, <3>4, AddType, AddKeepsShares
    <3> QED
      BY <2>1, <2>2, <2>3, <3>1, <3>5, NoRunAssumption
         DEF Contents, RunUsable, HistoryBounded
  <2>5. CASE RecordReading(s)
    <3>1. phase = "RUNNING" /\ run' = Add(run, s) /\ phase' = phase
      BY <2>5 DEF RecordReading
    <3>2. /\ run \in Run /\ run.history # <<>> /\ run.dated /\ SharesUsedUp(run)
          /\ ~StartState(run).online
      BY <1>1, <3>1 DEF Contents, RunUsable, HistoryBounded
    <3>3. /\ run' \in Run /\ run'.history # <<>> /\ run'.dated /\ SharesUsedUp(run')
          /\ StartState(run') = StartState(run)
      BY <2>3, <3>1, <3>2, AddType, AddKeepsShares
    <3> QED
      BY <2>1, <2>2, <2>3, <3>1, <3>2, <3>3, NoRunAssumption
         DEF Contents, RunUsable, HistoryBounded
  <2>6. CASE IgnoreReading(s)
    BY <2>1, <2>2, <2>3, <2>6 DEF IgnoreReading, Contents, RunUsable, HistoryBounded
  <2> QED
    BY <2>2, <2>4, <2>5, <2>6
<1>10. CASE UNCHANGED vars
  BY <1>3, <1>10 DEF vars
<1> QED
  BY <1>2, <1>4, <1>5, <1>6, <1>8, <1>9, <1>10 DEF Next, StartNewRun

-----------------------------------------------------------------------------
(* The runner keeps its inductive invariant: TestRunner drives the player,  *)
(* the run and the brightness consistently through every sequence of        *)
(* callbacks.                                                               *)
THEOREM Invariance == Spec => []IInv
<1>1. Init => IInv
  BY InitIInv
<1>2. IInv /\ [Next]_vars => IInv'
  <2> SUFFICES ASSUME IInv, [Next]_vars PROVE IInv'
    OBVIOUS
  <2>1. Control /\ Contents
    BY IInvParts
  <2>2. Control' /\ Contents'
    BY <2>1, ControlStep, ContentsStep
  <2> QED
    BY <2>2 DEF IInv, TypeOK, Control, Contents
<1> QED
  BY <1>1, <1>2, PTL DEF Spec

(* Every variable keeps its type. *)
THEOREM TypeCorrect == Spec => []TypeOK
<1>1. IInv => TypeOK
  BY DEF IInv
<1> QED
  BY <1>1, Invariance, PTL

(* No file is ever played on a busy player, and every "finished" meets the  *)
(* phase that waits for it.                                                 *)
THEOREM PlayerAlwaysMatchesPhase == Spec => []PlayerMatchesPhase
<1>1. IInv => PlayerMatchesPhase
  BY DEF IInv
<1> QED
  BY <1>1, Invariance, PTL

(* force_stop never outlives the stopping it was set for. *)
THEOREM ForceStopNeverStale == Spec => []ForceStopOnlyWhileStopping
<1>1. IInv => ForceStopOnlyWhileStopping
  BY DEF IInv
<1> QED
  BY <1>1, Invariance, PTL

(* Whenever the code dereferences the run or its readings, they exist. *)
THEOREM RunAlwaysUsable == Spec => []RunUsable
<1>1. IInv => RunUsable
  BY DEF IInv
<1> QED
  BY <1>1, Invariance, PTL

(* The history of a run is never longer than what the run has used up. *)
THEOREM HistoryAlwaysBounded == Spec => []HistoryBounded
<1>1. IInv => HistoryBounded
  BY DEF IInv
<1> QED
  BY <1>1, Invariance, PTL

(* Player, flag and run follow the phase, in every reachable state. *)
THEOREM PhaseAlwaysConsistent == Spec => []PhaseConsistent
<1>1. IInv => PhaseConsistent
  BY DEF IInv, PhaseConsistent
<1> QED
  BY <1>1, Invariance, PTL

-----------------------------------------------------------------------------
(* What a finished player can do to the phase and the player. *)
LEMMA FinishedOutcome ==
  ASSUME PlayerFinished
  PROVE  /\ force_stop => phase' = "STOPPED" /\ player' = "idle"
         /\ phase' = "STOPPED" => brightness' = saved
         /\ phase' = "STOPPED" /\ phase \in {"PROLOGUE", "RUNNING", "STOPPING"}
              => ~run.test.epilogue \/ force_stop
<1> USE DEF PlayerFinished, SetEpilogue, SetStopped, PlayFile
<1>1. CASE FinishedForceStop
  BY <1>1 DEF FinishedForceStop
<1>2. CASE ~force_stop /\ FinishedPrologue
  BY <1>2 DEF FinishedPrologue
<1>3. CASE ~force_stop /\ FinishedLoop
  BY <1>3 DEF FinishedLoop
<1>4. CASE ~force_stop /\ FinishedStopping
  BY <1>4 DEF FinishedStopping
<1>5. CASE ~force_stop /\ FinishedEpilogue
  BY <1>5 DEF FinishedEpilogue
<1> QED
  BY <1>1, <1>2, <1>3, <1>4, <1>5

(* What the polling of the supplies cannot do: stop the run. *)
LEMMA PollOutcome ==
  ASSUME PollSame \/ PollChanged
  PROVE  /\ phase' # phase => phase = "WAITING" /\ phase' = "RUNNING"
         /\ phase # "WAITING" => player' = player
BY DEF PollSame, PollChanged, LeaveWaiting, RecordReading, IgnoreReading

(* Once a stop is forced nothing is played any more. *)
THEOREM ForceStopAlwaysFinal == Spec => ForceStopIsFinal
<1>1. IInv /\ [Next]_vars =>
        [force_stop => phase' \in {"STOPPING", "STOPPED"} /\ player' \notin Files]_vars
  <2> SUFFICES ASSUME IInv, Next, force_stop
               PROVE  phase' \in {"STOPPING", "STOPPED"} /\ player' \notin Files
    OBVIOUS
  <2>1. phase = "STOPPING" /\ player = "stopping"
    BY DEF IInv, ForceStopOnlyWhileStopping, PlayerMatchesPhase
  <2>2. CASE StartNewRun
    BY <2>1, <2>2 DEF StartNewRun, Start
  <2>3. CASE Stop
    BY <2>1, <2>3 DEF Stop, StopRunning, StopWaiting, StopPrologue
  <2>4. CASE ForceStop
    BY <2>1, <2>4 DEF ForceStop, Files
  <2>5. CASE PlayerFinished
    BY <2>5, FinishedOutcome DEF Files
  <2>6. CASE PollSame \/ PollChanged
    BY <2>1, <2>6, PollOutcome DEF Files
  <2> QED
    BY <2>2, <2>3, <2>4, <2>5, <2>6 DEF Next
<1> QED
  BY <1>1, Invariance, PTL DEF Spec, ForceStopIsFinal

(* A run whose player has been used leaves the brightness as it found it. *)
THEOREM AlwaysRestoredAfterPlayback == Spec => RestoredAfterPlayback
<1>1. IInv /\ [Next]_vars =>
        [player # "idle" /\ phase' = "STOPPED" => brightness' = saved]_vars
  <2> SUFFICES ASSUME IInv, Next, player # "idle", phase' = "STOPPED"
               PROVE  brightness' = saved
    OBVIOUS
  <2>1. phase \notin {"STOPPED", "WAITING"}
    BY DEF IInv, PlayerMatchesPhase
  <2>2. CASE StartNewRun
    BY <2>1, <2>2 DEF StartNewRun, Start
  <2>3. CASE Stop
    BY <2>1, <2>3 DEF Stop, StopRunning, StopWaiting, StopPrologue
  <2>4. CASE ForceStop
    BY <2>1, <2>4 DEF ForceStop
  <2>5. CASE PlayerFinished
    BY <2>5, FinishedOutcome
  <2>6. CASE PollSame \/ PollChanged
    BY <2>1, <2>6, PollOutcome
  <2> QED
    BY <2>2, <2>3, <2>4, <2>5, <2>6 DEF Next
<1> QED
  BY <1>1, Invariance, PTL DEF Spec, RestoredAfterPlayback

(* A run that used its player plays its epilogue, if it has one, before it  *)
(* stops, but for a forced stop.                                            *)
THEOREM EpilogueAlwaysPlayed == Spec => EpilogueUnlessForced
<1>1. IInv /\ [Next]_vars =>
        [phase' = "STOPPED" /\ phase \in {"PROLOGUE", "RUNNING", "STOPPING"} =>
           ~run.test.epilogue \/ force_stop]_vars
  <2> SUFFICES ASSUME Next, phase' = "STOPPED",
                      phase \in {"PROLOGUE", "RUNNING", "STOPPING"}
               PROVE  ~run.test.epilogue \/ force_stop
    OBVIOUS
  <2>1. CASE StartNewRun
    BY <2>1 DEF StartNewRun, Start
  <2>2. CASE Stop
    BY <2>2 DEF Stop, StopRunning, StopWaiting, StopPrologue
  <2>3. CASE ForceStop
    BY <2>3 DEF ForceStop
  <2>4. CASE PlayerFinished
    BY <2>4, FinishedOutcome
  <2>5. CASE PollSame \/ PollChanged
    BY <2>5, PollOutcome
  <2> QED
    BY <2>1, <2>2, <2>3, <2>4, <2>5 DEF Next
<1> QED
  BY <1>1, Invariance, PTL DEF Spec, EpilogueUnlessForced

(* What Add does to the length of a history: one more reading or none. *)
LEMMA AddGrowsByOne ==
  ASSUME NEW r \in Run, NEW s \in Reading, Add(r, s).history # r.history
  PROVE  Len(Add(r, s).history) = Len(r.history) + 1
<1>1. r.history \in Seq(Reading)
  BY DEF Run
<1>2. UseState(r, s)
  BY DEF Add
<1>3. Add(r, s).history = Append(r.history, s)
  BY <1>2 DEF Add, Run
<1> QED
  BY <1>1, <1>3, AppendFacts

(* Readings count while the run is RUNNING, one at a time, and no others.   *)
THEOREM HistoryAlwaysFrozen == Spec => HistoryFrozenOutsideRunning
<1> DEFINE Frozen ==
      run # NoRun /\ run'.history # run.history =>
        \/ phase' = "RUNNING" /\ Len(run'.history) = Len(run.history) + 1
        \/ phase = "STOPPED" /\ run'.history = <<>>
<1>1. IInv /\ [Next]_vars => [Frozen]_vars
  <2> SUFFICES ASSUME IInv, Next, run # NoRun, run'.history # run.history
               PROVE  \/ phase' = "RUNNING" /\ Len(run'.history) = Len(run.history) + 1
                      \/ phase = "STOPPED" /\ run'.history = <<>>
    OBVIOUS
  <2>1. run \in Run
    BY DEF IInv, TypeOK
  <2>2. CASE StartNewRun
    <3>1. PICK t \in Tests, d \in Durations : Start(t, d)
      BY <2>2 DEF StartNewRun
    <3> QED
      BY <3>1, NewRunType DEF Start
  <2>3. CASE Stop \/ ForceStop \/ PlayerFinished \/ PollSame
    BY <2>3 DEF Stop, ForceStop, PlayerFinished, PollSame
  <2>4. CASE PollChanged
    <3>1. clock' \in 0..MaxTime
      BY <2>4, SamplesAssumption DEF PollChanged, Tick, IInv, TypeOK
    <3>2. PICK s \in ReadingsAt(clock') :
            LeaveWaiting(s) \/ RecordReading(s) \/ IgnoreReading(s)
      BY <2>4 DEF PollChanged
    <3>3. s \in Reading
      BY <3>1, <3>2 DEF ReadingsAt, Reading
    <3>4. CASE LeaveWaiting(s)
      <4> DEFINE r == SetStartTime(run)
      <4>1. phase' = "RUNNING" /\ run' = Add(r, s)
        BY <3>4 DEF LeaveWaiting
      <4>2. r \in Run /\ r.history = run.history
        BY <2>1, SetStartTimeType
      <4> HIDE DEF r
      <4> QED
        BY <3>3, <4>1, <4>2, AddGrowsByOne
    <3>5. CASE RecordReading(s)
      BY <2>1, <3>3, <3>5, AddGrowsByOne DEF RecordReading
    <3>6. CASE IgnoreReading(s)
      BY <3>6 DEF IgnoreReading
    <3> QED
      BY <3>2, <3>4, <3>5, <3>6
  <2> QED
    BY <2>2, <2>3, <2>4 DEF Next
<1> QED
  BY <1>1, Invariance, PTL DEF Spec, HistoryFrozenOutsideRunning

(* Every step that ends playback, or a run, does so in good order. *)
THEOREM AlwaysOrderlyEnd == Spec => OrderlyEnd
BY ForceStopAlwaysFinal, HistoryAlwaysFrozen, EpilogueAlwaysPlayed,
   AlwaysRestoredAfterPlayback DEF OrderlyEnd
-----------------------------------------------------------------------------
(* What is inductive of LoopEndedForAReason: only a test with a prologue is *)
(* ever in PROLOGUE, where a stop that was requested for an earlier run is  *)
(* obeyed.                                                                  *)
EndInv ==
  run # NoRun /\ ~run.test.prologue => phase # "PROLOGUE" /\ EndedForAReason

(* A step that leaves the run alone ends it for a reason: it was asked for, *)
(* or the loop file has ended and the run is done.                          *)
LEMMA EndStep ==
  ASSUME IInv, EndInv, Stop \/ ForceStop \/ PlayerFinished \/ PollSame
  PROVE  EndInv'
<1>1. run' = run
  BY DEF Stop, ForceStop, PlayerFinished, PollSame
<1> SUFFICES ASSUME run # NoRun, ~run.test.prologue
             PROVE  phase' # "PROLOGUE" /\ EndedForAReason'
  BY <1>1 DEF EndInv
<1>2. phase # "PROLOGUE" /\ EndedForAReason
  BY DEF EndInv
<1>3. CASE Stop
  BY <1>2, <1>3 DEF Stop, StopRunning, StopWaiting, StopPrologue, SetEpilogue, SetStopped,
                    EndedForAReason
<1>4. CASE ForceStop
  BY <1>4 DEF ForceStop, EndedForAReason
<1>5. CASE PlayerFinished
  <2>1. user_ended' = user_ended
    BY <1>5 DEF PlayerFinished
  <2>2. CASE phase \in {"STOPPING", "EPILOGUE", "STOPPED"}
    <3>1. user_ended \/ (run.history # <<>> /\ IsDone(run))
      BY <1>2, <2>2 DEF EndedForAReason
    <3>2. phase' # "PROLOGUE"
      BY <1>2, <1>5 DEF PlayerFinished, FinishedForceStop, FinishedPrologue, FinishedLoop,
                        FinishedStopping, FinishedEpilogue, SetEpilogue, SetStopped
    <3> QED
      BY <1>1, <2>1, <3>1, <3>2 DEF EndedForAReason
  <2>3. CASE phase = "RUNNING"
    <3>1. FinishedLoop /\ run.history # <<>>
      BY <1>5, <2>3 DEF PlayerFinished, FinishedPrologue, FinishedStopping,
                        FinishedEpilogue, FinishedForceStop, IInv,
                        ForceStopOnlyWhileStopping, RunUsable
    <3>2. CASE IsDone(run)
      BY <1>1, <3>1, <3>2 DEF FinishedLoop, SetEpilogue, SetStopped, EndedForAReason
    <3>3. CASE ~IsDone(run)
      BY <2>3, <3>1, <3>3 DEF FinishedLoop, EndedForAReason
    <3> QED
      BY <3>2, <3>3
  <2>4. phase # "WAITING"
    BY <1>5 DEF PlayerFinished, IInv, PlayerMatchesPhase
  <2> QED
    BY <1>2, <2>2, <2>3, <2>4 DEF IInv, TypeOK, Phases
<1>6. CASE PollSame
  BY <1>2, <1>6 DEF PollSame, EndedForAReason
<1> QED
  BY <1>3, <1>4, <1>5, <1>6

(* The loop is played "until the test time is finished or the user ends the *)
(* test" (README:58-59), of every test that has no prologue.                *)
THEOREM LoopAlwaysEndedForAReason == Spec => []LoopEndedForAReason
<1>1. Init => EndInv
  BY DEF Init, EndInv
<1>2. IInv /\ EndInv /\ [Next]_vars => EndInv'
  <2> SUFFICES ASSUME IInv, EndInv, [Next]_vars PROVE EndInv'
    OBVIOUS
  <2>1. ASSUME NEW t \in Tests, NEW d \in Durations, Start(t, d)
        PROVE  EndInv'
    <3>1. run'.test = t
      BY <2>1 DEF Start, NewRun
    <3>2. phase' \in {"PROLOGUE", "WAITING"} /\ (phase' = "PROLOGUE" => t.prologue)
      BY <2>1 DEF Start
    <3> QED
      BY <3>1, <3>2 DEF EndInv, EndedForAReason
  <2>2. CASE Stop \/ ForceStop \/ PlayerFinished \/ PollSame
    BY <2>2, EndStep
  <2>3. CASE PollChanged
    <3>1. user_ended' = user_ended
      BY <2>3 DEF PollChanged
    <3>2. PICK s \in ReadingsAt(clock') :
            LeaveWaiting(s) \/ RecordReading(s) \/ IgnoreReading(s)
      BY <2>3 DEF PollChanged
    <3>3. CASE LeaveWaiting(s) \/ RecordReading(s)
      BY <3>3 DEF LeaveWaiting, RecordReading, EndInv, EndedForAReason
    <3>4. CASE IgnoreReading(s)
      BY <3>1, <3>4 DEF IgnoreReading, EndInv, EndedForAReason
    <3> QED
      BY <3>2, <3>3, <3>4
  <2>4. CASE UNCHANGED vars
    BY <2>4 DEF vars, EndInv, EndedForAReason
  <2> QED
    BY <2>1, <2>2, <2>3, <2>4 DEF Next, StartNewRun
<1>3. EndInv => LoopEndedForAReason
  BY DEF EndInv, LoopEndedForAReason
<1> QED
  BY <1>1, <1>2, <1>3, Invariance, PTL DEF Spec
=============================================================================
