---------------------------- MODULE RemotePlayer ----------------------------
(***************************************************************************)
(* GbbRemotePlayer (remote-player.c), the event player of the client, and  *)
(* its partner in the privileged helper (replay-helper.c), which plays the *)
(* file into uinput devices (evdev-player.c).  The two are processes with a *)
(* main loop each, connected by D-Bus:                                     *)
(*                                                                         *)
(*   client --Play--> helper    asynchronous, answered when playing is over *)
(*   client --Stop--> helper    synchronous, given up after 25 seconds      *)
(*                                                                         *)
(* Each direction keeps the order of its messages.  While the client waits *)
(* for the answer to Stop its main loop does not run, so that the answer   *)
(* to Play is looked at only afterwards.  The helper may die at any time;  *)
(* the bus then answers its calls with errors, and the helper the bus      *)
(* starts for the next call knows no player.                               *)
(*                                                                         *)
(* The client is the test runner: it plays when idle and stops at most     *)
(* once what it plays (TestRunner!PlayerMatchesPhase).                     *)
(***************************************************************************)
EXTENDS Naturals, Sequences, FiniteSets

CONSTANT MaxSerial   \* bound: how many calls the client makes

ASSUME MaxSerialAssumption == MaxSerial \in Nat \ {0}

VARIABLES
  setup,        \* how far the chain of calls from gbb_remote_player_new is
  pending,      \* pending_fd # -1
  started,      \* GbbRemotePlayer.started
  serial,       \* serial number of the client's last call
  waiting_stop, \* serial of the Stop the client is blocked on, 0 if none
  to_helper,    \* calls under way to the helper
  to_client,    \* answers under way to the client
  helper,       \* "serving", or "restarted" and without a player object
  invocation,   \* Player.invocation: serial of the Play to be answered, 0 if none
  input,        \* the evdev player has a file open and an event scheduled
  stopped,      \* auxiliary: the client has stopped what it plays
  accepted,     \* auxiliary: how many files play_fd has accepted
  finished      \* auxiliary: how many times "finished" has been emitted

client == <<setup, pending, started, serial, waiting_stop, stopped, accepted, finished>>
server == <<helper, invocation, input>>
vars == <<client, to_helper, to_client, server>>

Setups == {"helper_proxy", "create_player", "player_proxy", "ready", "dead"}
Serials == 1..MaxSerial
Call == [type : {"Play", "Stop"}, serial : Serials]
Reply == [type : {"Play", "Stop"}, serial : Serials, ok : BOOLEAN]

TypeOK ==
  /\ setup \in Setups
  /\ pending \in BOOLEAN
  /\ started \in BOOLEAN
  /\ serial \in 0..MaxSerial
  /\ waiting_stop \in 0..MaxSerial
  /\ to_helper \in Seq(Call)
  /\ to_client \in Seq(Reply)
  /\ helper \in {"serving", "restarted"}
  /\ invocation \in 0..MaxSerial
  /\ input \in BOOLEAN
  /\ stopped \in BOOLEAN
  /\ accepted \in 0..MaxSerial
  /\ finished \in 0..MaxSerial

Init ==
  /\ setup = "helper_proxy"
  /\ pending = FALSE
  /\ started = FALSE
  /\ serial = 0
  /\ waiting_stop = 0
  /\ to_helper = <<>>
  /\ to_client = <<>>
  /\ helper = "serving"
  /\ invocation = 0
  /\ input = FALSE
  /\ stopped = FALSE
  /\ accepted = 0
  /\ finished = 0

(* The client's main loop runs: it is alive and not inside a blocking call. *)
Dispatching == setup # "dead" /\ waiting_stop = 0

-----------------------------------------------------------------------------
(* The answers to the chain of calls that looks for the helper, creates a   *)
(* player and gets its proxy; any error makes the program die.              *)
SetupStep ==
  /\ Dispatching
  /\ \/ setup = "helper_proxy" /\ setup' = "create_player"
     \/ setup = "create_player" /\ setup' = "player_proxy"
     \/ setup \in {"helper_proxy", "create_player", "player_proxy"} /\ setup' = "dead"
  /\ UNCHANGED <<pending, started, serial, waiting_stop, stopped, accepted, finished,
                 to_helper, to_client, server>>

(* remote_player_maybe_start, with a file to play *)
SendPlay ==
  /\ serial < MaxSerial
  /\ serial' = serial + 1
  /\ to_helper' = Append(to_helper, [type |-> "Play", serial |-> serial'])
  /\ pending' = FALSE
  /\ started' = TRUE

(* Mutant of PlayerProxyReady: a pending file is forgotten about. *)
PlayerProxyReadyOnly ==
  /\ Dispatching
  /\ setup = "player_proxy"
  /\ setup' = "ready"
  /\ UNCHANGED <<pending, started, serial, to_helper, waiting_stop, stopped, accepted,
                 finished, to_client, server>>

(* on_player_proxy_ready_cb *)
PlayerProxyReady ==
  /\ Dispatching
  /\ setup = "player_proxy"
  /\ setup' = "ready"
  /\ \/ pending /\ SendPlay
     \/ ~pending /\ UNCHANGED <<pending, started, serial, to_helper>>
  /\ UNCHANGED <<waiting_stop, stopped, accepted, finished, to_client, server>>

(* gbb_remote_player_play_fd, called on an idle player *)
PlayFd ==
  /\ Dispatching
  /\ ~pending /\ ~started /\ ~stopped
  /\ serial < MaxSerial
  /\ \/ setup = "ready" /\ SendPlay
     \/ /\ setup # "ready"
        /\ pending' = TRUE
        /\ UNCHANGED <<started, serial, to_helper>>
  /\ accepted' = accepted + 1
  /\ UNCHANGED <<setup, waiting_stop, stopped, finished, to_client, server>>

(* gbb_remote_player_stop: the call, up to where it blocks *)
Stop ==
  /\ Dispatching
  /\ pending \/ started
  /\ ~stopped
  /\ stopped' = TRUE
  /\ \/ /\ pending
        /\ pending' = FALSE
        /\ UNCHANGED <<serial, waiting_stop, to_helper>>
     \/ /\ ~pending
        /\ serial < MaxSerial
        /\ serial' = serial + 1
        /\ to_helper' = Append(to_helper, [type |-> "Stop", serial |-> serial'])
        /\ waiting_stop' = serial'
        /\ UNCHANGED pending
  /\ UNCHANGED <<setup, started, accepted, finished, to_client, server>>

(* g_dbus_proxy_call_sync returns, with the answer or without. *)
StopReturns ==
  /\ waiting_stop # 0
  /\ \E i \in DOMAIN to_client :
       /\ to_client[i].type = "Stop" /\ to_client[i].serial = waiting_stop
       /\ to_client' = [j \in 1..(Len(to_client) - 1) |->
                          to_client[IF j < i THEN j ELSE j + 1]]
  /\ waiting_stop' = 0
  /\ UNCHANGED <<setup, pending, started, serial, stopped, accepted, finished,
                 to_helper, server>>

StopTimesOut ==
  /\ waiting_stop # 0
  /\ waiting_stop' = 0
  /\ UNCHANGED <<setup, pending, started, serial, stopped, accepted, finished,
                 to_helper, to_client, server>>

(* on_play_reply, whether the answer is an error or not; the handler of     *)
(* "finished" may call gbb_remote_player_play_fd.                           *)
EmitFinished ==
  /\ finished' = finished + 1
  /\ \/ started' = FALSE /\ UNCHANGED <<pending, serial, to_helper, accepted>>
     \/ SendPlay /\ accepted' = accepted + 1

OnPlayReply ==
  /\ Dispatching
  /\ to_client # <<>> /\ Head(to_client).type = "Play"
  /\ to_client' = Tail(to_client)
  /\ stopped' = FALSE
  /\ EmitFinished
  /\ UNCHANGED <<setup, waiting_stop, server>>

(* The answer to a Stop that was given up is dropped. *)
DropLateStopReply ==
  /\ to_client # <<>> /\ Head(to_client).type = "Stop"
  /\ Head(to_client).serial # waiting_stop
  /\ to_client' = Tail(to_client)
  /\ UNCHANGED <<client, to_helper, server>>

-----------------------------------------------------------------------------
Answer(call, ok) == [type |-> call.type, serial |-> call.serial, ok |-> ok]
PlayAnswer(n, ok) == [type |-> "Play", serial |-> n, ok |-> ok]

(* player_handle_method_call, "Play" *)
HandlePlay(call) ==
  /\ call.type = "Play"
  /\ \/ /\ invocation # 0       \* "Player already playing"
        /\ to_client' = Append(to_client, Answer(call, FALSE))
        /\ UNCHANGED <<invocation, input>>
     \/ /\ invocation = 0
        /\ input' = TRUE
        /\ invocation' = call.serial
        /\ UNCHANGED to_client

(* Mutants of HandleStop: invocation is not checked; a Stop that comes too  *)
(* late is not answered; the Play is not answered; the file plays on.       *)
HandleStopUnchecked(call) ==
  /\ call.type = "Stop"
  /\ input' = FALSE
  /\ to_client' = to_client \o <<PlayAnswer(invocation, TRUE), Answer(call, TRUE)>>
  /\ invocation' = 0

HandleStopUnanswered(call) ==
  /\ call.type = "Stop"
  /\ input' = FALSE
  /\ to_client' = IF invocation = 0 THEN to_client
                  ELSE to_client \o <<PlayAnswer(invocation, TRUE), Answer(call, TRUE)>>
  /\ invocation' = 0

HandleStopPlayUnanswered(call) ==
  /\ call.type = "Stop"
  /\ input' = FALSE
  /\ to_client' = Append(to_client, Answer(call, TRUE))
  /\ invocation' = 0

HandleStopPlaysOn(call) ==
  /\ call.type = "Stop"
  /\ to_client' = Append(to_client, Answer(call, invocation # 0))
  /\ UNCHANGED <<invocation, input>>

(* player_handle_method_call, "Stop": gbb_evdev_player_stop emits           *)
(* "finished", whose handler answers the Play before the Stop is answered.  *)
HandleStop(call) ==
  /\ call.type = "Stop"
  /\ \/ /\ invocation = 0       \* "Player stopped"
        /\ to_client' = Append(to_client, Answer(call, FALSE))
        /\ UNCHANGED <<invocation, input>>
     \/ /\ invocation # 0
        /\ input' = FALSE
        /\ to_client' = to_client \o <<PlayAnswer(invocation, TRUE), Answer(call, TRUE)>>
        /\ invocation' = 0

HandleCall ==
  /\ to_helper # <<>>
  /\ to_helper' = Tail(to_helper)
  /\ \/ /\ helper = "serving"
        /\ HandlePlay(Head(to_helper)) \/ HandleStop(Head(to_helper))
     \/ /\ helper = "restarted"  \* no such object
        /\ to_client' = Append(to_client, Answer(Head(to_helper), FALSE))
        /\ UNCHANGED <<invocation, input>>
  /\ UNCHANGED <<client, helper>>

(* next_event_timeout at the end of the file: gbb_evdev_player_stop, whose  *)
(* "finished" makes on_player_finished answer the Play.                     *)
EndOfFile ==
  /\ input
  /\ input' = FALSE
  /\ to_client' = Append(to_client, PlayAnswer(invocation, TRUE))
  /\ invocation' = 0
  /\ UNCHANGED <<client, to_helper, helper>>

(* The helper dies (die, exit, killed): the bus answers what it had not.    *)
HelperDies ==
  /\ helper = "serving" /\ setup = "ready"
  /\ helper' = "restarted"
  /\ invocation' = 0
  /\ input' = FALSE
  /\ to_helper' = <<>>
  /\ to_client' = to_client
                    \o (IF invocation = 0 THEN <<>> ELSE <<PlayAnswer(invocation, FALSE)>>)
                    \o [i \in DOMAIN to_helper |-> Answer(to_helper[i], FALSE)]
  /\ UNCHANGED client

-----------------------------------------------------------------------------
Next ==
  \/ SetupStep
  \/ PlayerProxyReady
  \/ PlayFd
  \/ Stop
  \/ StopReturns
  \/ StopTimesOut
  \/ OnPlayReply
  \/ DropLateStopReply
  \/ HandleCall
  \/ EndOfFile
  \/ HelperDies

(* Main loops dispatch what is ready, the bus delivers, and every event log *)
(* is finite.  That the user plays or stops, that the helper dies and that  *)
(* a Stop times out is not fair.                                            *)
Fairness ==
  /\ WF_vars(SetupStep)
  /\ WF_vars(PlayerProxyReady)
  /\ WF_vars(StopReturns)
  /\ WF_vars(OnPlayReply)
  /\ WF_vars(DropLateStopReply)
  /\ WF_vars(HandleCall)
  /\ WF_vars(EndOfFile)

Spec == Init /\ [][Next]_vars /\ Fairness

-----------------------------------------------------------------------------
(* The helper's two records of playing agree: there is a Play to answer     *)
(* exactly while the evdev player has a file (replay-helper.c:114-118,      *)
(* 57-66), so "finished" never finds invocation NULL.                       *)
InvocationMatchesInput == input <=> invocation # 0

(* While the client holds a file to be started there is exactly one Play    *)
(* between its call and its answer -- under way to the helper, being played *)
(* or answered -- and otherwise none: none is lost, none is answered twice. *)
(* A second answer would end a later file, a lost one would leave the test  *)
(* runner in its phase for ever.                                            *)
IsPlay(m) == m.type = "Play"

PlaysIn(queue) == Cardinality({i \in DOMAIN queue : IsPlay(queue[i])})

PlaysUnderWay ==
  PlaysIn(to_helper) + (IF invocation = 0 THEN 0 ELSE 1) + PlaysIn(to_client)

OnePlayPerStart == PlaysUnderWay = IF started THEN 1 ELSE 0

(* The helper never has to refuse a Play with "Player already playing"      *)
(* (replay-helper.c:82).                                                    *)
PlayNeverRefused ==
  to_helper # <<>> /\ IsPlay(Head(to_helper)) => invocation = 0

(* Calls, answers and playback agree. *)
CallsMatchPlayback == InvocationMatchesInput /\ OnePlayPerStart /\ PlayNeverRefused

(* When the client gets the answer to its Stop, silence is certain: nothing *)
(* plays, nothing is on its way to be played, and the answer to the Play    *)
(* that was stopped is on its way (remote-player.c:132-153), also when the  *)
(* file ended by itself or the helper died meanwhile.  The late answer to a *)
(* Stop that was given up, with a later file playing, is no such answer.    *)
SilentWhenStopped ==
  \A i \in DOMAIN to_client :
    to_client[i].type = "Stop" /\ to_client[i].serial = waiting_stop =>
      /\ ~input /\ to_helper = <<>>
      /\ \E j \in DOMAIN to_client : IsPlay(to_client[j])

(* The client always gets out of its blocking Stop: the helper answers it   *)
(* even if the Play it is about has ended or the helper has died.           *)
StopAlwaysReturns == waiting_stop # 0 ~> waiting_stop = 0

(* The remote player keeps the promise of an event player, also for a file  *)
(* that is accepted before the player is ready and has to be started by the *)
(* last of the set-up callbacks (remote-player.c:199).  The promise ends    *)
(* with the program, and for a file that is given up before it was started: *)
(* a stop then closes it and emits no "finished" (remote-player.c:132-136), *)
(* which is why the clients wait for "ready".                               *)
GivenUp == stopped /\ ~pending /\ ~started

Abstract == INSTANCE EventPlayer WITH
  player <- IF stopped THEN "stopping"
            ELSE IF pending \/ started THEN "playing" ELSE "idle"

AbstractSpec ==
  /\ Abstract!Safety
  /\ <>[](setup = "dead" \/ GivenUp) \/ Abstract!Fairness
=============================================================================
