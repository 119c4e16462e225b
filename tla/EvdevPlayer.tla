----------------------------- MODULE EvdevPlayer -----------------------------
(***************************************************************************)
(* GbbEvdevPlayer (evdev-player.c), the event player that writes the events *)
(* of a log to a virtual keyboard and mouse.  One event is read ahead, and a *)
(* timer of the main loop waits for its time; the event after the last one *)
(* is the end of the file, which stops the player.  A line that cannot be  *)
(* read ends the process.                                                  *)
(*                                                                         *)
(* The clock counts ticks, microseconds in the code, since the player was   *)
(* started with the file; the times of events are whole milliseconds, and   *)
(* so is what a timer waits.  The code computes the ticks of an event as an *)
(* unsigned int, so that times wrap (GbbEvent.time, event-log.h:8).          *)
(***************************************************************************)
EXTENDS Integers, Sequences

CONSTANTS
  Keys,      \* keys and buttons
  Logs,      \* the event logs, without comments and empty lines
  Ms,        \* ticks of a millisecond, 1000 in the code
  Wrap,      \* 2^32 in the code
  Slack,     \* bound: how late the main loop may come to the timer
  MaxPlays,  \* bound: how many files are played
  NoEvent,   \* next_event == NULL
  BadLine    \* a line gbb_event_read has an error for

Event == [kind : {"press", "release", "other"}, key : Keys, time : Nat]

ASSUME LogsAssumption == Logs \subseteq Seq(Event \cup {BadLine})
ASSUME WrapAssumption == {Ms, Wrap} \subseteq Nat \ {0}
ASSUME BoundsAssumption == Slack \in Nat /\ MaxPlays \in Nat
ASSUME NullAssumption == NoEvent \notin Event /\ BadLine \notin Event

VARIABLES
  alive,       \* the process has not died
  input,       \* a file is open
  unread,      \* the lines of the file that have not been read
  next_event,  \* the event the timer waits for
  due,         \* when the timer fires, NoTimer if there is none
  now,         \* the clock
  down,        \* the keys that are down on the virtual devices
  latest,      \* auxiliary: when the event is due at the latest
  left,        \* auxiliary: the keys that were down when a file was stopped
  accepted,    \* auxiliary: how many files play_fd has accepted
  finished     \* auxiliary: how many times "finished" has been emitted

vars == <<alive, input, unread, next_event, due, now, down, latest, left, accepted, finished>>

NoTimer == -1

TypeOK ==
  /\ {alive, input} \subseteq BOOLEAN
  /\ unread \in Seq(Event \cup {BadLine})
  /\ next_event \in Event \cup {NoEvent}
  /\ due \in Nat \cup {NoTimer}
  /\ now \in Nat /\ latest \in Nat
  /\ down \subseteq Keys /\ left \subseteq Keys
  /\ accepted \in 0..MaxPlays
  /\ finished \in 0..MaxPlays

Init ==
  /\ alive = TRUE
  /\ input = FALSE
  /\ unread = <<>>
  /\ next_event = NoEvent
  /\ due = NoTimer
  /\ now = 0
  /\ down = {}
  /\ latest = 0
  /\ left = {}
  /\ accepted = 0
  /\ finished = 0

-----------------------------------------------------------------------------
(* The time of an event, as the code computes it. *)
Scheduled(e) == (Ms * e.time) % Wrap

(* The timer that is set at t for an event: the rest of a millisecond is    *)
(* cut off.                                                                 *)
TimerFor(e, t) == IF Scheduled(e) > t THEN t + Ms * ((Scheduled(e) - t) \div Ms) ELSE t

(* How long the timer for an event may take to be due if the one before is  *)
(* handled by t at the latest: nothing but its own time puts it off.        *)
LatestFor(e, t) == IF Ms * e.time > t THEN Ms * e.time ELSE t

(* Mutant of QueueEvent: the time of an event is taken for the time since   *)
(* the event before it.                                                     *)
QueueEventFromNow(lines, t, l) ==
  IF lines = <<>>
  THEN /\ next_event' = NoEvent /\ due' = t /\ latest' = l
       /\ unread' = <<>> /\ UNCHANGED alive
  ELSE IF Head(lines) = BadLine
  THEN alive' = FALSE /\ UNCHANGED <<next_event, due, latest, unread>>
  ELSE /\ next_event' = Head(lines) /\ latest' = LatestFor(Head(lines), l)
       /\ due' = t + Scheduled(Head(lines))
       /\ unread' = Tail(lines) /\ UNCHANGED alive

(* queue_event, with the lines left to read, the time since the start, and  *)
(* the latest that this could be                                            *)
QueueEvent(lines, t, l) ==
  \/ /\ lines = <<>>
     /\ next_event' = NoEvent
     /\ due' = t
     /\ latest' = l
     /\ unread' = <<>>
     /\ UNCHANGED alive
  \/ /\ lines # <<>> /\ Head(lines) # BadLine
     /\ next_event' = Head(lines)
     /\ due' = TimerFor(Head(lines), t)
     /\ latest' = LatestFor(Head(lines), l)
     /\ unread' = Tail(lines)
     /\ UNCHANGED alive
  \/ /\ lines # <<>> /\ Head(lines) = BadLine
     /\ alive' = FALSE
     /\ UNCHANGED <<next_event, due, latest, unread>>

(* gbb_evdev_player_play_fd, called on an idle player *)
Play ==
  /\ alive /\ ~input
  /\ accepted < MaxPlays
  /\ input' = TRUE
  /\ now' = 0
  /\ \E lines \in Logs : QueueEvent(lines, 0, 0)
  /\ accepted' = accepted + 1
  /\ UNCHANGED <<down, left, finished>>

(* Mutant of StopPlaying: the timer is not removed. *)
StopPlayingTimerLeft ==
  /\ input' = FALSE
  /\ next_event' = NoEvent
  /\ unread' = <<>>
  /\ now' = 0 /\ latest' = 0
  /\ finished' = finished + 1
  /\ due' = IF next_event = NoEvent THEN NoTimer ELSE due

(* gbb_evdev_player_stop: what is down stays down. *)
StopPlaying ==
  /\ input' = FALSE
  /\ next_event' = NoEvent
  /\ unread' = <<>>
  /\ due' = NoTimer
  /\ now' = 0 /\ latest' = 0
  /\ finished' = finished + 1

Stop ==
  /\ alive /\ input
  /\ StopPlaying
  /\ left' = left \cup down
  /\ UNCHANGED <<alive, down, accepted>>

(* Mutant of WriteEvent: a release of a key is taken for another press. *)
PressEvent(e) == down' = IF e.kind = "other" THEN down ELSE down \cup {e.key}

WriteEvent(e) ==
  down' = CASE e.kind = "press" -> down \cup {e.key}
            [] e.kind = "release" -> down \ {e.key}
            [] e.kind = "other" -> down

(* Mutant of NextEventTimeout: the end of the file does not stop the player. *)
NextEventTimeoutNoEnd ==
  /\ alive /\ due # NoTimer /\ now >= due
  /\ next_event # NoEvent
  /\ WriteEvent(next_event)
  /\ QueueEvent(unread, now, latest + Slack)
  /\ UNCHANGED <<input, now, finished, left, accepted>>

(* next_event_timeout *)
NextEventTimeout ==
  /\ alive /\ due # NoTimer /\ now >= due
  /\ \/ /\ next_event = NoEvent
        /\ StopPlaying
        /\ UNCHANGED <<alive, down>>
     \/ /\ next_event # NoEvent
        /\ WriteEvent(next_event)
        /\ QueueEvent(unread, now, latest + Slack)
        /\ UNCHANGED <<input, now, finished>>
  /\ UNCHANGED <<left, accepted>>

(* The process has died over a bad line.  Its files are closed, and the bus *)
(* answers the Play that it leaves, which remote-player.c:71-87 takes for    *)
(* the end of the file.                                                     *)
Bury ==
  /\ ~alive /\ input
  /\ input' = FALSE
  /\ finished' = finished + 1
  /\ UNCHANGED <<alive, unread, next_event, due, now, down, latest, left, accepted>>

(* Time passes while a timer is set. *)
Pass ==
  /\ alive /\ due # NoTimer
  /\ now < due + Slack
  /\ now' = now + 1
  /\ UNCHANGED <<alive, input, unread, next_event, due, down, latest, left, accepted, finished>>

-----------------------------------------------------------------------------
Next == Play \/ Stop \/ NextEventTimeout \/ Bury \/ Pass

(* Time passes, timers fire and a death is noticed; that somebody plays or  *)
(* stops is not fair.                                                       *)
Spec ==
  /\ Init /\ [][Next]_vars
  /\ WF_vars(NextEventTimeout) /\ WF_vars(Bury) /\ WF_vars(Pass)

-----------------------------------------------------------------------------
(* Recorded events are replayed at the pace of the recording: none comes a   *)
(* whole millisecond before its time, unless that wraps, and however many    *)
(* went before, none is due later than its own time or the handling of an    *)
(* earlier one, so that neither what is cut off nor the lateness of the main *)
(* loop adds up where the recording has a pause (evdev-player.c:118-126).    *)
KeepsPace ==
  alive /\ input =>
    /\ due <= latest
    /\ next_event # NoEvent /\ Ms * next_event.time < Wrap =>
         due + Ms > Ms * next_event.time

(* A file that releases what it presses leaves nothing down that no earlier *)
(* stop has left down: no release is skipped, and none comes after the end  *)
(* (evdev-player.c:73-100).                                                 *)
ReleasedAtEnd == alive /\ ~input => down \subseteq left

(* The evdev player keeps the promise of an event player, also to a client  *)
(* whose log has a bad line.                                                *)
Abstract == INSTANCE EventPlayer WITH player <- IF input THEN "playing" ELSE "idle"

AbstractSpec == Abstract!Spec
==============================================================================
