-------------------------------- MODULE Helper --------------------------------
(***************************************************************************)
(* The replay helper (replay-helper.c): one client, the player object it is *)
(* given, and what comes in from the bus: method calls and the signal       *)
(* NameOwnerChanged.  The players of several clients share a serial number  *)
(* only, so that one client stands for all of them; it asks for a player    *)
(* once, as gbb_remote_player_new does.  What the calls of this program's   *)
(* client look like is the matter of RemotePlayer; here a client may make   *)
(* any call at any time, a Play with no file descriptor or with a wrong one *)
(* included: for these the handler sends an error and goes on.              *)
(***************************************************************************)
EXTENDS Naturals, Sequences, SequencesExt

CONSTANTS
  MaxCalls  \* bound: how many calls the client makes

ASSUME MaxCallsAssumption == MaxCalls \in Nat \ {0}

VARIABLES
  present,     \* the client is on the bus
  sent,        \* how many calls it has made; a call is known by its number
  inbox,       \* what the bus has for the helper, in order
  player,      \* the stages of the client's player
  watched,     \* creator_changed_connection, made while the client was there
  playing,     \* the evdev player has a file open
  invocation,  \* Player.invocation: the Play to answer when playing is over
  answers,     \* the answers to each call
  stale        \* auxiliary: a call was answered and then used as if it were not

client == <<present, sent>>
object == <<player, watched>>
vars == <<client, inbox, object, playing, invocation, answers, stale>>

Serials == 1..MaxCalls
NoCall == 0
NameOwnerChanged == [method |-> "NameOwnerChanged", serial |-> NoCall]
BadPlays == {"PlayWithoutFd", "PlayWithOtherFds"}  \* none; several, or a wrong index
Methods == {"Play", "Stop", "Destroy"} \cup BadPlays
Message == [method : Methods \cup {"CreatePlayer"}, serial : Serials] \cup {NameOwnerChanged}
Stages == {"none", "authority", "checking", "refused", "exists", "destroyed"}

TypeOK ==
  /\ {present, watched, playing, stale} \subseteq BOOLEAN
  /\ sent \in 0..MaxCalls
  /\ inbox \in Seq(Message)
  /\ player \in Stages
  /\ invocation \in {NoCall} \cup Serials
  /\ answers \in [Serials -> Seq({"ok", "error"})]
  /\ stale \/ \A s \in Serials : Len(answers[s]) \in {0, 1}

Init ==
  /\ present = TRUE
  /\ sent = 0
  /\ inbox = <<>>
  /\ player = "none"
  /\ watched = FALSE
  /\ playing = FALSE
  /\ invocation = NoCall
  /\ answers = [s \in Serials |-> <<>>]
  /\ stale = FALSE

-----------------------------------------------------------------------------
(* The client: it makes calls on its player once CreatePlayer has returned  *)
(* the path, and some time leaves the bus.                                  *)

SendCall(method) ==
  /\ present /\ sent < MaxCalls
  /\ IF method = "CreatePlayer" THEN sent = 0 ELSE sent > 0 /\ answers[1] = <<"ok">>
  /\ sent' = sent + 1
  /\ inbox' = Append(inbox, [method |-> method, serial |-> sent + 1])
  /\ UNCHANGED <<present, object, playing, invocation, answers, stale>>

Vanish ==
  /\ present
  /\ present' = FALSE
  /\ inbox' = IF watched THEN Append(inbox, NameOwnerChanged) ELSE inbox
  /\ UNCHANGED <<sent, object, playing, invocation, answers, stale>>

-----------------------------------------------------------------------------
(* Answers so far, and one more. *)
Reply(replies, serial, answer) ==
  [s \in Serials |-> IF s = serial THEN Append(replies[s], answer) ELSE replies[s]]

(* The next message is a call of the method to an object that is there. *)
Called(method) == inbox # <<>> /\ Head(inbox).method = method /\ inbox' = Tail(inbox)

Serial == Head(inbox).serial

(* helper_handle_method_call *)
HandleCreatePlayer ==
  /\ Called("CreatePlayer")
  /\ player' = "authority"
  /\ UNCHANGED <<client, watched, playing, invocation, answers, stale>>

(* on_got_polkit_authority *)
OnGotPolkitAuthority ==
  /\ player = "authority"
  /\ \/ player' = "checking" /\ UNCHANGED answers
     \/ player' = "refused" /\ answers' = Reply(answers, 1, "error")
  /\ UNCHANGED <<client, inbox, watched, playing, invocation, stale>>

(* Mutant of OnCheckedAuthorization: nobody watches for the client to leave. *)
OnCheckedAuthorizationUnwatched ==
  /\ player = "checking"
  /\ player' = "exists" /\ answers' = Reply(answers, 1, "ok")
  /\ UNCHANGED <<client, inbox, watched, playing, invocation, stale>>

(* on_checked_authorization: the check fails, the client is refused, or the *)
(* virtual devices cannot be made; or there is a player.  A client that is  *)
(* no longer there is watched in vain.                                      *)
OnCheckedAuthorization ==
  /\ player = "checking"
  /\ \/ player' = "refused" /\ answers' = Reply(answers, 1, "error") /\ UNCHANGED watched
     \/ player' = "exists" /\ answers' = Reply(answers, 1, "ok") /\ watched' = present
  /\ UNCHANGED <<client, inbox, playing, invocation, stale>>

-----------------------------------------------------------------------------
(* Who gets the answer to the invocation: the Play, or, if that has been     *)
(* answered before and its memory is free, nobody, the Play once more, or a *)
(* call that has the memory now.                                            *)
Answered ==
  IF answers[invocation] = <<>>
  THEN {invocation}
  ELSE {NoCall, invocation} \cup {inbox[i].serial : i \in DOMAIN inbox}

(* Mutant of OnPlayerFinished: the invocation stays. *)
OnPlayerFinishedUncleared(replies) ==
  /\ playing' = FALSE
  /\ answers' = Reply(replies, invocation, "ok")
  /\ UNCHANGED invocation

(* on_player_finished, the handler of the "finished" that the evdev player  *)
(* emits when it has closed its file                                        *)
OnPlayerFinished(replies) ==
  /\ playing' = FALSE
  /\ \E s \in Answered : answers' = Reply(replies, s, "ok")
  /\ invocation' = NoCall

EndOfFile ==
  /\ playing
  /\ OnPlayerFinished(answers)
  /\ UNCHANGED <<client, inbox, object, stale>>

(* The process ends, and the devices with it: the bus answers what had no   *)
(* answer with an error, and the helper it starts for the next call knows   *)
(* no player.                                                               *)
HelperEnds ==
  /\ player' = "destroyed"
  /\ watched' = FALSE
  /\ inbox' = <<>>
  /\ playing' = FALSE
  /\ invocation' = NoCall
  /\ answers' = [s \in Serials |-> IF s <= sent /\ answers[s] = <<>> THEN <<"error">>
                                                                  ELSE answers[s]]
  /\ UNCHANGED client

(* A line of the file cannot be read, or an answered call is used again.    *)
HelperDies ==
  /\ player = "exists" /\ (playing \/ stale)
  /\ HelperEnds
  /\ UNCHANGED stale

(* player_handle_method_call, "Play" with one file descriptor *)
HandlePlay ==
  /\ Called("Play") /\ player = "exists"
  /\ \/ /\ invocation # NoCall
        /\ answers' = Reply(answers, Serial, "error")
        /\ UNCHANGED <<playing, invocation>>
     \/ /\ invocation = NoCall
        /\ playing' = TRUE
        /\ invocation' = Serial
        /\ UNCHANGED answers
  /\ UNCHANGED <<client, object, stale>>

(* The same with wrong ones: no error of the first two checks returns.  Then *)
(* "Player already playing" is a second answer; or the file is played for a  *)
(* call that has been answered; or, with no descriptor, fds[0] is NULL[0].   *)
HandleBadPlay ==
  /\ player = "exists"
  /\ \E method \in BadPlays :
       /\ Called(method)
       /\ \/ /\ invocation # NoCall
             /\ answers' = Reply(Reply(answers, Serial, "error"), Serial, "error")
             /\ UNCHANGED <<object, playing, invocation>>
          \/ /\ invocation = NoCall /\ method = "PlayWithOtherFds"
             /\ playing' = TRUE
             /\ invocation' = Serial
             /\ answers' = Reply(answers, Serial, "error")
             /\ UNCHANGED object
  /\ stale' = TRUE
  /\ UNCHANGED client

HandlePlayWithoutFd ==
  /\ inbox # <<>> /\ Head(inbox).method = "PlayWithoutFd"
  /\ player = "exists" /\ invocation = NoCall
  /\ HelperEnds
  /\ UNCHANGED stale

(* Mutant of HandleStop: a Stop that comes too late is not answered. *)
HandleStopQuiet ==
  /\ Called("Stop") /\ player = "exists"
  /\ \/ invocation = NoCall /\ UNCHANGED <<playing, invocation, answers>>
     \/ invocation # NoCall /\ OnPlayerFinished(Reply(answers, Serial, "ok"))
  /\ UNCHANGED <<client, object, stale>>

HandleStop ==
  /\ Called("Stop") /\ player = "exists"
  /\ \/ /\ invocation = NoCall
        /\ answers' = Reply(answers, Serial, "error")
        /\ UNCHANGED <<playing, invocation>>
     \/ /\ invocation # NoCall
        /\ OnPlayerFinished(Reply(answers, Serial, "ok"))
  /\ UNCHANGED <<client, object, stale>>

(* Mutant of PlayerDestroy: what plays is not stopped first. *)
PlayerDestroyPlaying(replies) ==
  /\ player' = "destroyed"
  /\ watched' = FALSE
  /\ invocation' = NoCall
  /\ answers' = IF invocation = NoCall THEN replies ELSE Reply(replies, invocation, "error")
  /\ UNCHANGED playing

(* player_destroy: stopping the player answers the invocation and clears it, *)
(* so that the error that follows goes to no invocation.                    *)
PlayerDestroy(replies) ==
  /\ player' = "destroyed"
  /\ watched' = FALSE
  /\ \/ invocation # NoCall /\ OnPlayerFinished(replies)
     \/ invocation = NoCall /\ answers' = replies /\ UNCHANGED <<playing, invocation>>

HandleDestroy ==
  /\ Called("Destroy") /\ player = "exists"
  /\ PlayerDestroy(Reply(answers, Serial, "ok"))
  /\ UNCHANGED <<client, stale>>

(* A call to an object that is no longer registered: GDBus has an error, in *)
(* this helper or in the next.                                              *)
HandleUnknown ==
  /\ \E method \in Methods : Called(method)
  /\ player = "destroyed"
  /\ answers' = Reply(answers, Serial, "error")
  /\ UNCHANGED <<client, object, playing, invocation, stale>>

(* Mutant of OnNameOwnerChanged: the player is stopped and kept. *)
OnNameOwnerChangedStop ==
  /\ Called("NameOwnerChanged")
  /\ IF invocation # NoCall THEN OnPlayerFinished(answers)
                            ELSE UNCHANGED <<playing, invocation, answers>>
  /\ UNCHANGED <<client, object, stale>>

(* on_name_owner_changed, unless the player has unsubscribed meanwhile *)
OnNameOwnerChanged ==
  /\ Called("NameOwnerChanged")
  /\ \/ watched /\ PlayerDestroy(answers)
     \/ ~watched /\ UNCHANGED <<object, playing, invocation, answers>>
  /\ UNCHANGED <<client, stale>>

-----------------------------------------------------------------------------
HandleMessage ==
  \/ HandleCreatePlayer
  \/ HandlePlay \/ HandleBadPlay \/ HandlePlayWithoutFd
  \/ HandleStop \/ HandleDestroy \/ HandleUnknown
  \/ OnNameOwnerChanged

Next ==
  \/ \E method \in Methods \cup {"CreatePlayer"} : SendCall(method)
  \/ Vanish
  \/ HandleMessage
  \/ OnGotPolkitAuthority \/ OnCheckedAuthorization
  \/ EndOfFile
  \/ HelperDies

(* The main loop handles what comes in, and files end.  The authorization   *)
(* may wait for the user for ever.  Nothing makes the helper die.            *)
Spec == Init /\ [][Next]_vars /\ WF_vars(HandleMessage) /\ WF_vars(EndOfFile)

-----------------------------------------------------------------------------
(* The evdev player has a file open exactly while a Play waits for its      *)
(* answer, and only as long as the player object exists: no timer is left   *)
(* for a freed player (replay-helper.c:33-42).                              *)
PlayingIsInvoked ==
  /\ playing <=> invocation # NoCall
  /\ playing => player = "exists"

UnderWay(serial) ==
  \/ \E i \in DOMAIN inbox : inbox[i].serial = serial
  \/ invocation = serial
  \/ serial = 1 /\ player \in {"authority", "checking"}

(* Every call is answered once on every path, the errors, the player's       *)
(* destruction and the helper's end included: never twice, and never        *)
(* dropped.  A Play with wrong file descriptors is answered twice           *)
(* (replay-helper.c:86-105), and once the helper has gone on with one, what *)
(* is left of the promise is that no call is dropped.                       *)
OneAnswerEach ==
  \A s \in Serials :
    LET done == s <= sent /\ ~UnderWay(s)
    IN  /\ done => answers[s] # <<>>
        /\ ~stale => Len(answers[s]) = IF done THEN 1 ELSE 0

(* Playback and answers agree. *)
AnswersMatchPlayback == PlayingIsInvoked /\ OneAnswerEach

(* Nothing is replayed for a client that has left, except while the signal  *)
(* that will stop it is under way (replay-helper.c:229-238).                *)
NobodyPlaysAlone == playing /\ ~present => Contains(inbox, NameOwnerChanged)

(* The player of a client that leaves is destroyed, if the client was there *)
(* when it was created (replay-helper.c:186).                               *)
VanishedIsDestroyed == watched /\ ~present ~> player = "destroyed"

(* Every call on the player gets its answer, a Play at the end of its file, *)
(* whatever else the client sends and when (replay-helper.c:64, 129); from  *)
(* the bus, if the helper dies.                                             *)
CallsAreAnswered == \A s \in Serials \ {1} : s <= sent ~> answers[s] # <<>>
==============================================================================
