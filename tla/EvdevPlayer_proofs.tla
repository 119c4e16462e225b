-------------------------- MODULE EvdevPlayer_proofs --------------------------
(***************************************************************************)
(* Theorems about EvdevPlayer, for all logs, however many files are played *)
(* and whenever they are stopped: it keeps the promise of an event player, *)
(* and the pace of the recording.                                          *)
(***************************************************************************)
EXTENDS EvdevPlayer, TLAPS

(* Every file that was accepted has been finished but for the one that is   *)
(* open, and a living player has a timer only while it plays.               *)
PlayInv ==
  /\ TypeOK
  /\ input => accepted = finished + 1
  /\ ~input => accepted = finished
  /\ alive /\ due # NoTimer => input

(* Ticks rounded down to milliseconds, less than a millisecond off. *)
LEMMA RoundedDown ==
  ASSUME NEW a \in Nat, NEW u \in Nat \ {0}
  PROVE  /\ a \div u \in Nat /\ u * (a \div u) \in Nat
         /\ u * (a \div u) <= a
         /\ a < u * (a \div u) + u
OBVIOUS

(* The ticks of an event are those of its time, but for a wrap. *)
LEMMA ScheduledType ==
  ASSUME NEW e \in Event
  PROVE  /\ e.time \in Nat /\ Ms * e.time \in Nat /\ Scheduled(e) \in Nat
         /\ Scheduled(e) <= Ms * e.time
         /\ Ms * e.time < Wrap => Scheduled(e) = Ms * e.time
<1>1. e.time \in Nat /\ Ms \in Nat /\ Wrap \in Nat \ {0}
  BY WrapAssumption DEF Event
<1>2. Ms * e.time \in Nat
  BY <1>1
<1>3. ASSUME NEW n \in Nat PROVE n % Wrap \in Nat /\ n % Wrap <= n /\ (n < Wrap => n % Wrap = n)
  BY <1>1
<1> QED
  BY <1>1, <1>2, <1>3 DEF Scheduled

(* A timer is not in the past, at most what is cut off early, and not later  *)
(* than the event or than it is set.                                        *)
LEMMA TimerForBounds ==
  ASSUME NEW e \in Event, NEW t \in Nat
  PROVE  /\ TimerFor(e, t) \in Nat
         /\ t <= TimerFor(e, t)
         /\ TimerFor(e, t) + Ms > Scheduled(e)
         /\ TimerFor(e, t) <= t \/ TimerFor(e, t) <= Scheduled(e)
<1>1. Scheduled(e) \in Nat /\ Ms \in Nat \ {0}
  BY ScheduledType, WrapAssumption
<1>2. CASE Scheduled(e) > t
  <2>1. Scheduled(e) - t \in Nat
    BY <1>1, <1>2
  <2>2. /\ Ms * ((Scheduled(e) - t) \div Ms) \in Nat
        /\ Ms * ((Scheduled(e) - t) \div Ms) <= Scheduled(e) - t
        /\ Scheduled(e) - t < Ms * ((Scheduled(e) - t) \div Ms) + Ms
    BY <1>1, <2>1, RoundedDown
  <2>3. TimerFor(e, t) = t + Ms * ((Scheduled(e) - t) \div Ms)
    BY <1>2 DEF TimerFor
  <2> DEFINE Wait == Ms * ((Scheduled(e) - t) \div Ms)
  <2> HIDE DEF Wait
  <2>4. TimerFor(e, t) = t + Wait /\ Wait \in Nat /\ Wait <= Scheduled(e) - t /\ Scheduled(e) - t < Wait + Ms
    BY <2>2, <2>3 DEF Wait
  <2> QED
    BY <1>1, <2>4
<1>3. CASE ~(Scheduled(e) > t)
  BY <1>1, <1>3 DEF TimerFor
<1> QED
  BY <1>2, <1>3

(* What is left to read of a file holds lines of the right type. *)
LEMMA QueueEventType ==
  ASSUME NEW lines \in Seq(Event \cup {BadLine}), NEW t \in Nat, NEW l \in Nat,
         QueueEvent(lines, t, l),
         unread \in Seq(Event \cup {BadLine}), next_event \in Event \cup {NoEvent},
         due \in Nat \cup {NoTimer}, latest \in Nat, alive
  PROVE  /\ unread' \in Seq(Event \cup {BadLine})
         /\ next_event' \in Event \cup {NoEvent}
         /\ due' \in Nat \cup {NoTimer} /\ latest' \in Nat
         /\ alive' \in BOOLEAN
<1>1. CASE /\ lines = <<>> /\ next_event' = NoEvent /\ due' = t /\ latest' = l
           /\ unread' = <<>> /\ UNCHANGED alive
  BY <1>1
<1>2. CASE /\ lines # <<>> /\ Head(lines) # BadLine
           /\ next_event' = Head(lines)
           /\ due' = TimerFor(Head(lines), t)
           /\ latest' = LatestFor(Head(lines), l)
           /\ unread' = Tail(lines)
           /\ UNCHANGED alive
  <2>1. Head(lines) \in Event /\ Tail(lines) \in Seq(Event \cup {BadLine})
    BY <1>2
  <2>2. due' \in Nat
    BY <1>2, <2>1, TimerForBounds
  <2>3. latest' \in Nat
    BY <1>2, <2>1, ScheduledType DEF LatestFor
  <2> QED
    BY <1>2, <2>1, <2>2, <2>3
<1>3. CASE alive' = FALSE /\ UNCHANGED <<next_event, due, latest, unread>>
  BY <1>3
<1> QED
  BY <1>1, <1>2, <1>3 DEF QueueEvent

(* "finished" has room to be counted while a file is open. *)
LEMMA FinishedOnce ==
  ASSUME TypeOK, accepted = finished + 1
  PROVE  finished + 1 \in 0..MaxPlays
BY DEF TypeOK

LEMMA BooleanTypes == TypeOK => alive \in BOOLEAN /\ input \in BOOLEAN
BY DEF TypeOK

LEMMA InitPlayInv == Init => PlayInv
<1> SUFFICES ASSUME Init PROVE PlayInv
  OBVIOUS
<1>1. 0 \in 0..MaxPlays /\ <<>> \in Seq(Event \cup {BadLine})
  BY BoundsAssumption
<1> QED
  BY <1>1 DEF Init, PlayInv, TypeOK, NoTimer

(* "finished": the file is closed, and nothing is left of it. *)
LEMMA StopPlayingStep ==
  ASSUME PlayInv, input, StopPlaying, UNCHANGED <<alive, down, accepted>>, left' \subseteq Keys
  PROVE  PlayInv'
<1>1. finished' = accepted' /\ finished' \in 0..MaxPlays
  BY FinishedOnce DEF PlayInv, StopPlaying
<1>2. ~input' /\ due' = NoTimer
  BY DEF StopPlaying
<1>3. {alive, input}' \subseteq BOOLEAN
  BY <1>2, BooleanTypes DEF PlayInv, StopPlaying
<1>4. unread' \in Seq(Event \cup {BadLine}) /\ now' \in Nat /\ latest' \in Nat
  BY DEF StopPlaying
<1>5. TypeOK'
  BY <1>1, <1>2, <1>3, <1>4 DEF PlayInv, StopPlaying, TypeOK
<1> QED
  BY <1>1, <1>2, <1>5 DEF PlayInv

LEMMA PlayInvStep == PlayInv /\ [Next]_vars => PlayInv'
<1> SUFFICES ASSUME PlayInv, [Next]_vars PROVE PlayInv'
  OBVIOUS
<1> USE BoundsAssumption, BooleanTypes DEF PlayInv, TypeOK
<1>a. ASSUME input, finished' = finished + 1, UNCHANGED accepted
      PROVE  finished' \in 0..MaxPlays /\ accepted' = finished'
  BY <1>a, FinishedOnce
<1>1. CASE Play
  <2>1. PICK lines \in Logs : QueueEvent(lines, 0, 0)
    BY <1>1 DEF Play
  <2>2. lines \in Seq(Event \cup {BadLine})
    BY LogsAssumption
  <2>3. /\ unread' \in Seq(Event \cup {BadLine})
        /\ next_event' \in Event \cup {NoEvent}
        /\ due' \in Nat \cup {NoTimer} /\ latest' \in Nat
        /\ alive' \in BOOLEAN
    BY <1>1, <2>1, <2>2, QueueEventType DEF Play
  <2> QED
    BY <1>1, <2>3 DEF Play
<1>2. CASE Stop
  BY <1>2, StopPlayingStep DEF Stop
<1>3. CASE NextEventTimeout
  <2>1. CASE next_event = NoEvent /\ StopPlaying /\ UNCHANGED <<alive, down>>
    BY <1>3, <2>1, StopPlayingStep DEF NextEventTimeout
  <2>2. CASE /\ next_event # NoEvent
             /\ WriteEvent(next_event)
             /\ QueueEvent(unread, now, latest + Slack)
             /\ UNCHANGED <<input, now, finished>>
    <3>1. /\ unread' \in Seq(Event \cup {BadLine})
          /\ next_event' \in Event \cup {NoEvent}
          /\ due' \in Nat \cup {NoTimer} /\ latest' \in Nat
          /\ alive' \in BOOLEAN
      <4>1. latest + Slack \in Nat
        OBVIOUS
      <4> QED
        BY <1>3, <2>2, <4>1, QueueEventType DEF NextEventTimeout
    <3>2. next_event \in Event
      BY <2>2
    <3>3. next_event.key \in Keys /\ next_event.kind \in {"press", "release", "other"}
      BY <3>2 DEF Event
    <3>4. down' \subseteq Keys
      BY <2>2, <3>3 DEF WriteEvent
    <3> QED
      BY <1>3, <2>2, <3>1, <3>4 DEF NextEventTimeout
  <2> QED
    BY <1>3, <2>1, <2>2 DEF NextEventTimeout
<1>4. CASE Bury
  BY <1>4, <1>a DEF Bury
<1>5. CASE Pass
  BY <1>5 DEF Pass
<1>6. CASE UNCHANGED vars
  BY <1>6 DEF vars
<1> QED
  BY <1>1, <1>2, <1>3, <1>4, <1>5, <1>6 DEF Next

THEOREM PlayInvariance == Spec => []PlayInv
BY InitPlayInv, PlayInvStep, PTL DEF Spec

(* Every variable keeps its type. *)
THEOREM TypeCorrect == Spec => []TypeOK
<1>1. PlayInv => TypeOK
  BY DEF PlayInv
<1> QED
  BY <1>1, PlayInvariance, PTL

-----------------------------------------------------------------------------
(* Every file that is accepted is followed by exactly one "finished",       *)
(* whether it ends, is stopped, or the process dies over one of its lines   *)
(* (evdev-player.c:156-197): each step of the player is one of an           *)
(* event player's, or none that its client can see.                         *)
THEOREM ImplementsEventPlayer == Spec => Abstract!Safety
<1>1. Init => Abstract!Init
  BY DEF Init, Abstract!Init
<1>2. PlayInv /\ [Next]_vars => [Abstract!Next]_(Abstract!vars)
  <2> SUFFICES ASSUME PlayInv, [Next]_vars
               PROVE  Abstract!Next \/ UNCHANGED Abstract!vars
    OBVIOUS
  <2> USE DEF PlayInv, TypeOK, Abstract!vars
  <2>1. CASE Play
    BY <2>1 DEF Play, Abstract!Next, Abstract!Play
  <2>2. CASE Stop
    BY <2>2 DEF Stop, StopPlaying, Abstract!Next, Abstract!Finish
  <2>3. CASE NextEventTimeout
    <3>1. CASE StopPlaying
      BY <2>3, <3>1 DEF NextEventTimeout, StopPlaying, Abstract!Next, Abstract!Finish
    <3>2. CASE UNCHANGED <<input, now, finished>>
      BY <2>3, <3>2 DEF NextEventTimeout
    <3> QED
      BY <2>3, <3>1, <3>2 DEF NextEventTimeout
  <2>4. CASE Bury
    BY <2>4 DEF Bury, Abstract!Next, Abstract!Finish
  <2>5. CASE Pass
    BY <2>5 DEF Pass
  <2>6. CASE UNCHANGED vars
    BY <2>6 DEF vars
  <2> QED
    BY <2>1, <2>2, <2>3, <2>4, <2>5, <2>6 DEF Next
<1> QED
  BY <1>1, <1>2, PlayInvariance, PTL DEF Spec, Abstract!Safety

-----------------------------------------------------------------------------
(* The main loop is at most Slack behind a timer, and a timer waits no       *)
(* longer than its event demands.                                           *)
PaceInv ==
  /\ alive /\ due # NoTimer => now <= due + Slack
  /\ KeepsPace

LEMMA QueueEventKeepsPace ==
  ASSUME NEW lines \in Seq(Event \cup {BadLine}), NEW t \in Nat, NEW l \in Nat,
         QueueEvent(lines, t, l), t <= l, now' = t, alive' \in BOOLEAN
  PROVE  PaceInv'
<1> USE BoundsAssumption
<1>1. CASE next_event' = NoEvent /\ due' = t /\ latest' = l
  BY <1>1 DEF PaceInv, KeepsPace
<1>2. CASE /\ lines # <<>> /\ Head(lines) # BadLine
           /\ next_event' = Head(lines)
           /\ due' = TimerFor(Head(lines), t)
           /\ latest' = LatestFor(Head(lines), l)
  <2> DEFINE e == Head(lines)
  <2>1. e \in Event
    BY <1>2
  <2> HIDE DEF e
  <2>2. /\ due' \in Nat /\ t <= due' /\ due' + Ms > Scheduled(e)
        /\ due' <= t \/ due' <= Scheduled(e)
    BY <1>2, <2>1, TimerForBounds DEF e
  <2>3. /\ Ms * e.time \in Nat /\ Scheduled(e) \in Nat /\ Scheduled(e) <= Ms * e.time
        /\ Ms * e.time < Wrap => Scheduled(e) = Ms * e.time
    BY <2>1, ScheduledType
  <2>4. latest' = IF Ms * e.time > l THEN Ms * e.time ELSE l
    BY <1>2 DEF LatestFor, e
  <2>5. due' <= latest'
    <3> DEFINE T == Ms * e.time
    <3>1. T \in Nat /\ Scheduled(e) <= T /\ latest' = IF T > l THEN T ELSE l
      BY <2>3, <2>4
    <3> HIDE DEF T
    <3> QED
      BY <2>2, <2>3, <3>1
  <2>6. Ms * e.time < Wrap => due' + Ms > Ms * e.time
    BY <2>2, <2>3
  <2>7. next_event' = e
    BY <1>2 DEF e
  <2>8. t <= due' + Slack
    <3>1. \A d \in Nat : t <= d => t <= d + Slack
      OBVIOUS
    <3> QED
      BY <2>2, <3>1
  <2> QED
    BY <2>5, <2>6, <2>7, <2>8 DEF PaceInv, KeepsPace
<1>3. CASE alive' = FALSE
  BY <1>3 DEF PaceInv, KeepsPace
<1> QED
  BY <1>1, <1>2, <1>3 DEF QueueEvent

LEMMA PaceInvStep == PlayInv /\ PaceInv /\ [Next]_vars => PaceInv'
<1> SUFFICES ASSUME PlayInv, PaceInv, [Next]_vars PROVE PaceInv'
  OBVIOUS
<1>a. /\ unread \in Seq(Event \cup {BadLine}) /\ now \in Nat /\ latest \in Nat
      /\ due \in Nat \cup {NoTimer} /\ Slack \in Nat
  BY BoundsAssumption DEF PlayInv, TypeOK
<1>b. alive' \in BOOLEAN
  BY PlayInvStep, BooleanTypes DEF PlayInv, TypeOK
<1>1. CASE Play
  <2>1. PICK lines \in Logs : QueueEvent(lines, 0, 0)
    BY <1>1 DEF Play
  <2>2. lines \in Seq(Event \cup {BadLine}) /\ now' = 0
    BY <1>1, LogsAssumption DEF Play
  <2>3. 0 \in Nat /\ 0 <= 0
    OBVIOUS
  <2> QED
    BY <1>b, <2>1, <2>2, <2>3, QueueEventKeepsPace
<1>2. CASE Stop \/ NextEventTimeout
  <2>1. CASE StopPlaying
    BY <2>1 DEF StopPlaying, PaceInv, KeepsPace
  <2>2. CASE /\ QueueEvent(unread, now, latest + Slack) /\ now' = now
             /\ alive /\ due # NoTimer
    <3>1. now <= due + Slack /\ due <= latest
      BY <2>2 DEF PaceInv, KeepsPace, PlayInv
    <3>2. now <= latest + Slack /\ latest + Slack \in Nat
      BY <1>a, <2>2, <3>1
    <3> QED
      BY <1>a, <1>b, <2>2, <3>2, QueueEventKeepsPace
  <2> QED
    BY <1>2, <2>1, <2>2 DEF Stop, NextEventTimeout
<1>3. CASE Bury
  BY <1>3 DEF Bury, PaceInv, KeepsPace
<1>4. CASE Pass
  <2>1. now' <= due' + Slack
    BY <1>4, <1>a DEF Pass, NoTimer
  <2> QED
    BY <1>4, <2>1 DEF Pass, PaceInv, KeepsPace
<1>5. CASE UNCHANGED vars
  BY <1>5 DEF vars, PaceInv, KeepsPace
<1> QED
  BY <1>1, <1>2, <1>3, <1>4, <1>5 DEF Next

(* Events are replayed at the pace of the recording, however late the main   *)
(* loop is, whatever times a log has and wherever a file is stopped: none a  *)
(* whole millisecond early but for a wrap, and none put off but by its own   *)
(* time and the handling of those before (evdev-player.c:118-126).           *)
THEOREM AlwaysKeepsPace == Spec => []KeepsPace
<1>1. Init => PaceInv
  BY BoundsAssumption DEF Init, PaceInv, KeepsPace, NoTimer
<1>2. PaceInv => KeepsPace
  BY DEF PaceInv
<1> QED
  BY <1>1, <1>2, PaceInvStep, PlayInvariance, PTL DEF Spec
-----------------------------------------------------------------------------
IsPress(line) == line # BadLine /\ line.kind = "press"
IsRelease(line, k) == line # BadLine /\ line.kind = "release" /\ line.key = k

(* The lines release k. *)
Releases(lines, k) == \E i \in 1..Len(lines) : IsRelease(lines[i], k)

(* Every press of the lines is followed by a release of its key. *)
Balanced(lines) ==
  \A i \in 1..Len(lines) : IsPress(lines[i]) =>
    \E j \in (i + 1)..Len(lines) : IsRelease(lines[j], lines[i].key)

(* What has been pressed and is still down, but for what a stop has left    *)
(* down, is released by the event that waits or by the rest of the file.    *)
ReleaseToCome ==
  /\ Balanced(unread)
  /\ next_event # NoEvent /\ IsPress(next_event) => Releases(unread, next_event.key)
  /\ alive => \A k \in down \ left :
       (next_event # NoEvent /\ IsRelease(next_event, k)) \/ Releases(unread, k)
  /\ alive /\ next_event = NoEvent => unread = <<>>
  /\ alive /\ ~input => next_event = NoEvent

(* The first line of a file and the lines after it. *)
LEMMA HeadAndTail ==
  ASSUME NEW lines \in Seq(Event \cup {BadLine}), lines # <<>>
  PROVE  /\ Len(lines) \in Nat /\ Len(lines) >= 1 /\ Head(lines) = lines[1]
         /\ Tail(lines) \in Seq(Event \cup {BadLine})
         /\ Len(Tail(lines)) = Len(lines) - 1
         /\ \A i \in 1..(Len(lines) - 1) : Tail(lines)[i] = lines[i + 1]
OBVIOUS

LEMMA ReleasesByHeadOrTail ==
  ASSUME NEW lines \in Seq(Event \cup {BadLine}), lines # <<>>, NEW k, Releases(lines, k)
  PROVE  IsRelease(Head(lines), k) \/ Releases(Tail(lines), k)
<1>1. PICK i \in 1..Len(lines) : IsRelease(lines[i], k)
  BY DEF Releases
<1>2. CASE i = 1
  BY <1>1, <1>2, HeadAndTail
<1>3. CASE i # 1
  <2>1. i - 1 \in 1..(Len(lines) - 1) /\ (i - 1) + 1 = i
    BY <1>3, HeadAndTail
  <2>2. Tail(lines)[i - 1] = lines[i]
    BY <2>1, HeadAndTail
  <2> QED
    BY <1>1, <2>1, <2>2, HeadAndTail DEF Releases
<1> QED
  BY <1>2, <1>3

LEMMA BalancedTail ==
  ASSUME NEW lines \in Seq(Event \cup {BadLine}), lines # <<>>, Balanced(lines)
  PROVE  /\ Balanced(Tail(lines))
         /\ IsPress(Head(lines)) => Releases(Tail(lines), Head(lines).key)
<1>1. ASSUME NEW i \in 1..Len(lines), IsPress(lines[i])
      PROVE  \E j \in i..Len(Tail(lines)) : IsRelease(Tail(lines)[j], lines[i].key)
  <2>1. PICK j \in (i + 1)..Len(lines) : IsRelease(lines[j], lines[i].key)
    BY <1>1 DEF Balanced
  <2>2. j - 1 \in i..(Len(lines) - 1) /\ j - 1 \in 1..(Len(lines) - 1) /\ (j - 1) + 1 = j
    BY HeadAndTail
  <2>3. Tail(lines)[j - 1] = lines[j]
    BY <2>2, HeadAndTail
  <2> QED
    BY <2>1, <2>2, <2>3, HeadAndTail
<1>2. ASSUME NEW i \in 1..Len(Tail(lines)), IsPress(Tail(lines)[i])
      PROVE  \E j \in (i + 1)..Len(Tail(lines)) : IsRelease(Tail(lines)[j], Tail(lines)[i].key)
  <2>1. i + 1 \in 1..Len(lines) /\ Tail(lines)[i] = lines[i + 1]
    BY HeadAndTail
  <2> QED
    BY <1>1, <1>2, <2>1
<1>3. ASSUME IsPress(Head(lines)) PROVE Releases(Tail(lines), Head(lines).key)
  BY <1>1, <1>3, HeadAndTail DEF Releases
<1> QED
  BY <1>2, <1>3 DEF Balanced

(* The next line is read: what is to be released still is. *)
LEMMA QueueEventReleases ==
  ASSUME NEW lines \in Seq(Event \cup {BadLine}), NEW t, NEW l, QueueEvent(lines, t, l),
         Balanced(lines), Balanced(unread), alive' = TRUE
  PROVE  /\ Balanced(unread')
         /\ next_event' # NoEvent /\ IsPress(next_event') => Releases(unread', next_event'.key)
         /\ next_event' = NoEvent => unread' = <<>>
         /\ \A k : Releases(lines, k) =>
              (next_event' # NoEvent /\ IsRelease(next_event', k)) \/ Releases(unread', k)
<1>1. CASE lines = <<>> /\ next_event' = NoEvent /\ unread' = <<>>
  BY <1>1 DEF Balanced, Releases
<1>2. CASE /\ lines # <<>> /\ Head(lines) # BadLine
           /\ next_event' = Head(lines)
           /\ unread' = Tail(lines)
  <2>1. next_event' # NoEvent
    BY <1>2, HeadAndTail, NullAssumption
  <2> QED
    BY <1>2, <2>1, BalancedTail, ReleasesByHeadOrTail
<1> QED
  BY <1>1, <1>2 DEF QueueEvent

LEMMA ReleaseToComeStep == PlayInv /\ ReleaseToCome /\ [Next]_vars /\ (\A lines \in Logs : Balanced(lines))
                             => ReleaseToCome'
<1> SUFFICES ASSUME PlayInv, ReleaseToCome, [Next]_vars, \A lines \in Logs : Balanced(lines)
             PROVE  ReleaseToCome'
  OBVIOUS
<1> USE BooleanTypes
<1>a. unread \in Seq(Event \cup {BadLine}) /\ now \in Nat /\ alive \in BOOLEAN /\ input \in BOOLEAN
  BY DEF PlayInv, TypeOK
<1>b. alive' \in BOOLEAN
  <2>1. PlayInv'
    BY PlayInvStep
  <2> QED
    BY <2>1 DEF PlayInv, TypeOK
<1>c. ASSUME StopPlaying, alive' = alive, alive => down' \subseteq left'
      PROVE  ReleaseToCome'
  BY <1>c DEF StopPlaying, ReleaseToCome, Balanced
<1>d. ASSUME NEW lines \in Seq(Event \cup {BadLine}), NEW t, NEW l,
             QueueEvent(lines, t, l), alive, alive' = FALSE
      PROVE  next_event' = next_event /\ unread' = unread
  BY <1>d, <1>a DEF QueueEvent
<1>e. ASSUME alive' = FALSE, next_event' = next_event, unread' = unread PROVE ReleaseToCome'
  BY <1>e DEF ReleaseToCome
<1>1. CASE Play
  <2>1. PICK lines \in Logs : QueueEvent(lines, 0, 0)
    BY <1>1 DEF Play
  <2>2. lines \in Seq(Event \cup {BadLine}) /\ Balanced(lines)
    BY LogsAssumption
  <2>3. CASE alive'
    <3>1. down' \ left' = {}
      BY <1>1 DEF Play, ReleaseToCome, Releases
    <3>2. Balanced(unread) /\ alive' = TRUE /\ input' = TRUE
      BY <1>1, <2>3, <1>b DEF Play, ReleaseToCome
    <3> QED
      BY <2>1, <2>2, <3>1, <3>2, QueueEventReleases DEF ReleaseToCome
  <2>4. CASE ~alive'
    BY <1>1, <1>b, <1>d, <1>e, <2>1, <2>2, <2>4 DEF Play
  <2> QED
    BY <2>3, <2>4
<1>2. CASE Stop
  BY <1>2, <1>c DEF Stop
<1>3. CASE NextEventTimeout
  <2>1. CASE next_event = NoEvent /\ StopPlaying /\ UNCHANGED <<alive, down>>
    <3>1. alive => down' \subseteq left'
      BY <1>3, <2>1 DEF NextEventTimeout, ReleaseToCome, Releases
    <3> QED
      BY <2>1, <3>1, <1>c
  <2>2. CASE /\ next_event # NoEvent
             /\ WriteEvent(next_event)
             /\ QueueEvent(unread, now, latest + Slack)
             /\ UNCHANGED <<input, now, finished>>
    <3>1. CASE alive'
      <4>1. alive' = TRUE /\ Balanced(unread) /\ input' = input /\ left' = left /\ alive
        BY <1>3, <1>b, <2>2, <3>1 DEF NextEventTimeout, ReleaseToCome
      <4>2. input
        BY <2>2, <4>1 DEF ReleaseToCome
      <4>3. next_event \in Event
        BY <2>2 DEF PlayInv, TypeOK
      <4>4. next_event # BadLine /\ next_event.kind \in {"press", "release", "other"}
        BY <4>3, NullAssumption DEF Event
      <4>5. ASSUME NEW k \in down' \ left PROVE Releases(unread, k)
        <5>1. CASE next_event.kind = "press" /\ down' = down \cup {next_event.key}
          BY <2>2, <4>1, <4>4, <4>5, <5>1 DEF ReleaseToCome, IsPress, IsRelease
        <5>2. CASE next_event.kind = "release" /\ down' = down \ {next_event.key}
          BY <4>1, <4>4, <4>5, <5>2 DEF ReleaseToCome, IsRelease
        <5>3. CASE next_event.kind = "other" /\ down' = down
          BY <4>1, <4>4, <4>5, <5>3 DEF ReleaseToCome, IsRelease
        <5> QED
          BY <2>2, <4>4, <5>1, <5>2, <5>3 DEF WriteEvent
      <4> QED
        BY <2>2, <4>1, <4>2, <4>5, <1>a, QueueEventReleases DEF ReleaseToCome
    <3>2. CASE ~alive'
      BY <1>3, <1>a, <1>b, <1>d, <1>e, <2>2, <3>2 DEF NextEventTimeout
    <3> QED
      BY <3>1, <3>2
  <2> QED
    BY <1>3, <2>1, <2>2 DEF NextEventTimeout
<1>4. CASE Bury
  BY <1>4, <1>a, <1>e DEF Bury
<1>5. CASE Pass
  BY <1>5 DEF Pass, ReleaseToCome
<1>6. CASE UNCHANGED vars
  BY <1>6 DEF vars, ReleaseToCome
<1> QED
  BY <1>1, <1>2, <1>3, <1>4, <1>5, <1>6 DEF Next

(* If every file releases what it presses, nothing is down when a living    *)
(* player is idle but what a stop has left down: no release is skipped, and  *)
(* none is left for after the end (evdev-player.c:73-100).                  *)
THEOREM AlwaysReleased ==
  ASSUME \A lines \in Logs : Balanced(lines)
  PROVE  Spec => []ReleasedAtEnd
<1>1. Init => ReleaseToCome
  BY DEF Init, ReleaseToCome, Balanced, Releases
<1>2. PlayInv /\ ReleaseToCome /\ [Next]_vars => ReleaseToCome'
  BY ReleaseToComeStep
<1>3. ReleaseToCome => ReleasedAtEnd
  BY DEF ReleaseToCome, ReleasedAtEnd, Releases
<1> QED
  BY <1>1, <1>2, <1>3, PlayInvariance, PTL DEF Spec
===============================================================================
