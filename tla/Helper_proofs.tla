----------------------------- MODULE Helper_proofs -----------------------------
(***************************************************************************)
(* Theorems about Helper, for any number of calls: every call is answered, *)
(* and once as long as no Play with wrong file descriptors was let through, *)
(* the evdev player plays exactly for a Play, and never for a client whose *)
(* leaving has been handled.                                               *)
(*                                                                         *)
(* The argument follows a call by its serial number: it is queued, or it   *)
(* is the Play under way or the CreatePlayer being checked, or it has been *)
(* answered, and never two of these unless an answered call is used again. *)
(***************************************************************************)
EXTENDS Helper, TLAPS

(* TypeOK, but for how many answers there are *)
Types ==
  /\ {present, watched, playing, stale} \subseteq BOOLEAN
  /\ sent \in 0..MaxCalls
  /\ inbox \in Seq(Message)
  /\ player \in Stages
  /\ invocation \in {NoCall} \cup Serials
  /\ answers \in [Serials -> Seq({"ok", "error"})]

(* The serial numbers of what is in a queue *)
SerialsOf(queue) == {queue[i].serial : i \in 1..Len(queue)}
Queued == SerialsOf(inbox)

(* No call is queued twice, and the first one is the CreatePlayer. *)
QueueInv ==
  /\ \A i \in 1..Len(inbox) :
       /\ inbox[i].serial <= sent
       /\ inbox[i].method = "CreatePlayer" <=> inbox[i].serial = 1
  /\ \A i, j \in 1..Len(inbox) :
       i # j /\ inbox[i].serial # NoCall => inbox[i].serial # inbox[j].serial

(* What the stage of the player says of the first call and of later ones. *)
StageInv ==
  /\ sent = 0 => player = "none"
  /\ sent > 1 => answers[1] = <<"ok">>
  /\ answers[1] = <<"ok">> => player \in {"exists", "destroyed"}
  /\ player \in {"none", "authority", "checking"} => answers[1] = <<>>
  /\ player # "none" => 1 \notin Queued
  /\ player = "none" /\ sent > 0 => 1 \in Queued

(* The Play under way is a later call that is queued no more. *)
PlayInv ==
  /\ invocation # NoCall => invocation \in 2..sent /\ invocation \notin Queued
  /\ PlayingIsInvoked

(* Where a call waits for its answer *)
BeingChecked(s) == s = 1 /\ player \in {"authority", "checking"}
Waiting == Queued \cup {invocation}

(* Only calls that were made are answered; those that wait no more are, and *)
(* those that wait are not, unless one was answered and then used again.    *)
AnswerInv ==
  \A s \in Serials :
    /\ answers[s] # <<>> => s <= sent
    /\ s <= sent /\ s \notin Waiting /\ ~BeingChecked(s) => answers[s] # <<>>
    /\ ~stale => Len(answers[s]) \in {0, 1} /\ (s \in Waiting => answers[s] = <<>>)

(* The client of a player that is there is watched, and its leaving in the  *)
(* queue, or it left before the player was made and can have called nothing *)
(* else.                                                                    *)
WatchInv ==
  /\ watched => player = "exists"
  /\ watched /\ ~present => \E i \in 1..Len(inbox) : inbox[i] = NameOwnerChanged
  /\ player = "exists" /\ ~watched => ~present /\ sent = 1

IInv == Types /\ QueueInv /\ StageInv /\ PlayInv /\ AnswerInv /\ WatchInv

-----------------------------------------------------------------------------
(* A message that is added to a queue, and one that is taken from it *)
LEMMA AppendSerials ==
  ASSUME NEW queue \in Seq(Message), NEW m \in Message
  PROVE  /\ Append(queue, m) \in Seq(Message)
         /\ Len(Append(queue, m)) = Len(queue) + 1
         /\ \A i \in 1..Len(queue) : Append(queue, m)[i] = queue[i]
         /\ Append(queue, m)[Len(queue) + 1] = m
         /\ SerialsOf(Append(queue, m)) = SerialsOf(queue) \cup {m.serial}
<1> DEFINE q == Append(queue, m)
<1>1. /\ q \in Seq(Message) /\ Len(q) = Len(queue) + 1 /\ Len(queue) \in Nat
      /\ \A i \in 1..Len(queue) : q[i] = queue[i]
      /\ q[Len(queue) + 1] = m
  OBVIOUS
<1> HIDE DEF q
<1>2. 1..Len(q) = 1..Len(queue) \cup {Len(queue) + 1}
  BY <1>1
<1>3. SerialsOf(q) = SerialsOf(queue) \cup {m.serial}
  BY <1>1, <1>2 DEF SerialsOf
<1> QED
  BY <1>1, <1>3 DEF q

LEMMA TailSerials ==
  ASSUME NEW queue \in Seq(Message), queue # <<>>,
         \A i, j \in 1..Len(queue) :
           i # j /\ queue[i].serial # NoCall => queue[i].serial # queue[j].serial
  PROVE  /\ Head(queue) = queue[1] /\ Head(queue) \in Message
         /\ Len(queue) \in Nat /\ 1 \in 1..Len(queue)
         /\ Tail(queue) \in Seq(Message)
         /\ Len(Tail(queue)) = Len(queue) - 1
         /\ \A i \in 1..(Len(queue) - 1) : Tail(queue)[i] = queue[i + 1]
         /\ \A s \in Serials :
              s \in SerialsOf(Tail(queue)) <=> s \in SerialsOf(queue) /\ s # Head(queue).serial
         /\ Head(queue).serial \in SerialsOf(queue)
<1> DEFINE q == Tail(queue)
<1>1. /\ Head(queue) = queue[1] /\ Head(queue) \in Message
      /\ Len(queue) \in Nat /\ Len(queue) >= 1
      /\ q \in Seq(Message) /\ Len(q) = Len(queue) - 1
      /\ \A i \in 1..(Len(queue) - 1) : q[i] = queue[i + 1]
  OBVIOUS
<1> HIDE DEF q
<1>2. Head(queue).serial \in SerialsOf(queue)
  BY <1>1 DEF SerialsOf
<1>3. ASSUME NEW s \in Serials, s \in SerialsOf(q)
      PROVE  s \in SerialsOf(queue) /\ s # Head(queue).serial
  <2>1. PICK i \in 1..Len(q) : s = q[i].serial
    BY <1>3 DEF SerialsOf
  <2>2. i + 1 \in 1..Len(queue) /\ i + 1 # 1 /\ 1 \in 1..Len(queue) /\ q[i] = queue[i + 1]
    BY <1>1
  <2>3. s # NoCall
    BY DEF Serials, NoCall
  <2> QED
    BY <1>1, <2>1, <2>2, <2>3 DEF SerialsOf
<1>4. ASSUME NEW s \in Serials, s \in SerialsOf(queue), s # Head(queue).serial
      PROVE  s \in SerialsOf(q)
  <2>1. PICK i \in 1..Len(queue) : s = queue[i].serial
    BY <1>4 DEF SerialsOf
  <2>2. i # 1
    BY <1>1, <1>4, <2>1
  <2>3. i - 1 \in 1..Len(q) /\ q[i - 1] = queue[(i - 1) + 1] /\ (i - 1) + 1 = i
    BY <1>1, <2>2
  <2> QED
    BY <2>1, <2>3 DEF SerialsOf
<1> QED
  BY <1>1, <1>2, <1>3, <1>4 DEF q

(* One call is answered, and the others are not. *)
AnswerSeqs == Seq({"ok", "error"})

LEMMA ReplyFacts ==
  ASSUME NEW replies \in [Serials -> AnswerSeqs], NEW s, NEW a \in {"ok", "error"}
  PROVE  /\ Reply(replies, s, a) \in [Serials -> AnswerSeqs]
         /\ s \in Serials => /\ Reply(replies, s, a)[s] # <<>>
                             /\ Len(Reply(replies, s, a)[s]) = Len(replies[s]) + 1
                             /\ replies[s] = <<>> => Reply(replies, s, a)[s] = <<a>>
         /\ \A t \in Serials : t # s => Reply(replies, s, a)[t] = replies[t]
<1> DEFINE longer(t) == Append(replies[t], a)
<1>1. \A t \in Serials : /\ replies[t] \in AnswerSeqs
                         /\ longer(t) \in AnswerSeqs /\ longer(t) # <<>>
                         /\ Len(longer(t)) = Len(replies[t]) + 1
                         /\ replies[t] = <<>> => longer(t) = <<a>>
  <2> SUFFICES ASSUME NEW t \in Serials
               PROVE  /\ replies[t] \in AnswerSeqs
                      /\ longer(t) \in AnswerSeqs /\ longer(t) # <<>>
                      /\ Len(longer(t)) = Len(replies[t]) + 1
                      /\ replies[t] = <<>> => longer(t) = <<a>>
    OBVIOUS
  <2>1. replies[t] \in Seq({"ok", "error"})
    BY DEF AnswerSeqs
  <2>2. ASSUME NEW old \in Seq({"ok", "error"})
        PROVE  /\ Append(old, a) \in Seq({"ok", "error"}) /\ Append(old, a) # <<>>
               /\ Len(Append(old, a)) = Len(old) + 1
    OBVIOUS
  <2>3. Append(<<>>, a) = <<a>>
    OBVIOUS
  <2> QED
    BY <2>1, <2>2, <2>3 DEF AnswerSeqs
<1>2. Reply(replies, s, a) = [t \in Serials |-> IF t = s THEN longer(t) ELSE replies[t]]
  BY DEF Reply
<1> HIDE DEF longer
<1> QED
  BY <1>1, <1>2
-----------------------------------------------------------------------------
(* What the first message of the queue is, and what is left in the queue    *)
LEMMA TakeMessage ==
  ASSUME IInv, NEW method, Called(method)
  PROVE  /\ inbox' \in Seq(Message)
         /\ sent' = sent => QueueInv'
         /\ \A s \in Serials : s \in Queued' <=> s \in Queued /\ s # Serial
         /\ method # "NameOwnerChanged" =>
              /\ Serial \in Serials /\ Serial <= sent /\ Serial \in Queued
              /\ Serial # invocation
              /\ ~stale => answers[Serial] = <<>>
              /\ Serial = 1 <=> method = "CreatePlayer"
              /\ (\E i \in 1..Len(inbox) : inbox[i] = NameOwnerChanged) =>
                   \E i \in 1..Len(inbox') : inbox'[i] = NameOwnerChanged
         /\ method = "NameOwnerChanged" => Serial = NoCall
<1>1. /\ inbox \in Seq(Message) /\ inbox # <<>> /\ inbox' = Tail(inbox)
      /\ Head(inbox).method = method
  BY DEF IInv, Types, Called
<1>2. \A i, j \in 1..Len(inbox) :
        i # j /\ inbox[i].serial # NoCall => inbox[i].serial # inbox[j].serial
  BY DEF IInv, QueueInv
<1>3. /\ Head(inbox) = inbox[1] /\ Head(inbox) \in Message
      /\ Len(inbox) \in Nat /\ 1 \in 1..Len(inbox)
      /\ inbox' \in Seq(Message)
      /\ Len(inbox') = Len(inbox) - 1
      /\ \A i \in 1..(Len(inbox) - 1) : inbox'[i] = inbox[i + 1]
      /\ \A s \in Serials : s \in Queued' <=> s \in Queued /\ s # Serial
      /\ Serial \in Queued
  BY <1>1, <1>2, TailSerials DEF Queued, Serial
<1>4. ASSUME sent' = sent PROVE QueueInv'
  <2>1. \A i \in 1..Len(inbox') : i + 1 \in 1..Len(inbox) /\ inbox'[i] = inbox[i + 1]
    BY <1>3
  <2>2. \A i, j \in 1..Len(inbox') : i # j => i + 1 # j + 1
    OBVIOUS
  <2>3. \A i \in 1..Len(inbox') :
          /\ inbox'[i].serial <= sent
          /\ inbox'[i].method = "CreatePlayer" <=> inbox'[i].serial = 1
    BY <2>1 DEF IInv, QueueInv
  <2>4. \A i, j \in 1..Len(inbox') :
          i # j /\ inbox'[i].serial # NoCall => inbox'[i].serial # inbox'[j].serial
    BY <1>2, <2>1, <2>2
  <2> QED
    BY <1>4, <2>3, <2>4 DEF QueueInv
<1>5. ASSUME method # "NameOwnerChanged"
      PROVE  /\ Serial \in Serials /\ Serial <= sent
             /\ Serial # invocation
             /\ ~stale => answers[Serial] = <<>>
             /\ Serial = 1 <=> method = "CreatePlayer"
             /\ (\E i \in 1..Len(inbox) : inbox[i] = NameOwnerChanged) =>
                  \E i \in 1..Len(inbox') : inbox'[i] = NameOwnerChanged
  <2>1. Head(inbox) # NameOwnerChanged
    BY <1>1, <1>5 DEF NameOwnerChanged
  <2>2. Serial \in Serials
    BY <1>3, <2>1 DEF Message, Serial
  <2>3. Serial <= sent /\ (Serial = 1 <=> method = "CreatePlayer")
    BY <1>1, <1>3 DEF IInv, QueueInv, Serial
  <2>4. Serial # invocation
    BY <1>3, <2>2 DEF IInv, PlayInv, Serials, NoCall
  <2>5. ~stale => answers[Serial] = <<>>
    BY <1>3, <2>2 DEF IInv, AnswerInv, Waiting
  <2>6. ASSUME NEW i \in 1..Len(inbox), inbox[i] = NameOwnerChanged
        PROVE  \E k \in 1..Len(inbox') : inbox'[k] = NameOwnerChanged
    <3>1. i # 1
      BY <1>3, <2>1, <2>6
    <3>2. i - 1 \in 1..Len(inbox') /\ inbox'[i - 1] = inbox[(i - 1) + 1] /\ (i - 1) + 1 = i
      BY <1>3, <3>1
    <3> QED
      BY <2>6, <3>2
  <2> QED
    BY <2>2, <2>3, <2>4, <2>5, <2>6
<1>6. ASSUME method = "NameOwnerChanged" PROVE Serial = NoCall
  <2>1. Head(inbox) \notin [method : Methods \cup {"CreatePlayer"}, serial : Serials]
    BY <1>1, <1>6 DEF Methods, BadPlays
  <2> QED
    BY <1>3, <2>1 DEF Message, NameOwnerChanged, Serial
<1> QED
  BY <1>3, <1>4, <1>5, <1>6

LEMMA InitIInv == Init => IInv
<1> SUFFICES ASSUME Init PROVE IInv
  OBVIOUS
<1>1. inbox \in Seq(Message) /\ 1..Len(inbox) = {} /\ Queued = {}
  BY DEF Init, Queued, SerialsOf
<1>2. \A s \in Serials : s \in Nat /\ s > 0 /\ answers[s] = <<>> /\ Len(<<>>) = 0
  BY DEF Init, Serials
<1>3. answers \in [Serials -> Seq({"ok", "error"})] /\ 0 \in 0..MaxCalls
  BY MaxCallsAssumption DEF Init
<1>4. 1 \in Serials
  BY MaxCallsAssumption DEF Serials
<1>5. Types
  BY <1>1, <1>3 DEF Init, Types, Stages
<1>6. QueueInv
  BY <1>1 DEF QueueInv
<1>7. StageInv
  BY <1>2, <1>4 DEF Init, StageInv
<1>8. PlayInv /\ WatchInv
  BY DEF Init, PlayInv, PlayingIsInvoked, WatchInv
<1>9. AnswerInv
  BY <1>2 DEF Init, AnswerInv, BeingChecked
<1> QED
  BY <1>5, <1>6, <1>7, <1>8, <1>9 DEF IInv

-----------------------------------------------------------------------------
(* The client calls. *)
LEMMA SendCallStep ==
  ASSUME IInv, NEW method \in Methods \cup {"CreatePlayer"}, SendCall(method)
  PROVE  IInv'
<1> DEFINE m == [method |-> method, serial |-> sent + 1]
<1>1. /\ present /\ sent < MaxCalls /\ sent \in Nat
      /\ sent' = sent + 1 /\ inbox' = Append(inbox, m)
      /\ UNCHANGED <<present, player, watched, playing, invocation, answers, stale>>
      /\ inbox \in Seq(Message)
      /\ method = "CreatePlayer" <=> sent = 0
      /\ sent > 0 => answers[1] = <<"ok">>
  BY DEF SendCall, IInv, Types, object, Methods, BadPlays
<1>2. sent + 1 \in Serials /\ m \in Message /\ m # NameOwnerChanged
  BY <1>1, MaxCallsAssumption DEF Serials, Message, NameOwnerChanged, NoCall
<1>3. /\ inbox' \in Seq(Message)
      /\ Len(inbox') = Len(inbox) + 1 /\ Len(inbox) \in Nat
      /\ \A i \in 1..Len(inbox) : inbox'[i] = inbox[i]
      /\ inbox'[Len(inbox) + 1] = m
      /\ Queued' = Queued \cup {sent + 1}
  BY <1>1, <1>2, AppendSerials DEF Queued
<1>4. \A i \in 1..Len(inbox') : i \in 1..Len(inbox) \/ i = Len(inbox) + 1
  BY <1>3
<1>5. \A i \in 1..Len(inbox) : inbox[i].serial <= sent /\ inbox[i].serial # sent + 1
  <2>1. \A i \in 1..Len(inbox) : inbox[i].serial \in Nat
    BY <1>1 DEF Message, NameOwnerChanged, Serials, NoCall
  <2> QED
    BY <1>1, <2>1 DEF IInv, QueueInv
<1>6. sent + 1 \notin Queued
  BY <1>5 DEF Queued, SerialsOf
<1>7. Types'
  <2>1. sent' \in 0..MaxCalls
    BY <1>1, MaxCallsAssumption
  <2> QED
    BY <1>1, <1>3, <2>1 DEF IInv, Types
<1>8. QueueInv'
  <2>1. \A i \in 1..Len(inbox') :
          /\ inbox'[i].serial <= sent'
          /\ inbox'[i].method = "CreatePlayer" <=> inbox'[i].serial = 1
    <3>1. \A i \in 1..Len(inbox) : inbox'[i].serial <= sent'
      <4>1. \A i \in 1..Len(inbox) : inbox[i].serial \in Nat
        BY <1>1 DEF Message, NameOwnerChanged, Serials, NoCall
      <4> QED
        BY <1>1, <1>3, <1>5, <4>1
    <3>2. \A i \in 1..Len(inbox) : inbox'[i].method = "CreatePlayer" <=> inbox'[i].serial = 1
      BY <1>3 DEF IInv, QueueInv
    <3>3. m.method = "CreatePlayer" <=> m.serial = 1
      BY <1>1
    <3> QED
      BY <1>1, <1>3, <1>4, <3>1, <3>2, <3>3
  <2>2. ASSUME NEW i \in 1..Len(inbox'), NEW j \in 1..Len(inbox'),
               i # j, inbox'[i].serial # NoCall
        PROVE  inbox'[i].serial # inbox'[j].serial
    <3>1. CASE i \in 1..Len(inbox) /\ j \in 1..Len(inbox)
      BY <1>3, <2>2, <3>1 DEF IInv, QueueInv
    <3>2. CASE i = Len(inbox) + 1 /\ j \in 1..Len(inbox)
      BY <1>3, <1>5, <3>2
    <3>3. CASE i \in 1..Len(inbox) /\ j = Len(inbox) + 1
      BY <1>3, <1>5, <3>3
    <3> QED
      BY <1>4, <2>2, <3>1, <3>2, <3>3
  <2> QED
    BY <2>1, <2>2 DEF QueueInv
<1>9. StageInv'
  <2>1. CASE sent = 0
    BY <1>1, <1>3, <2>1 DEF IInv, StageInv
  <2>2. CASE sent > 0
    <3>1. player \in {"exists", "destroyed"} /\ 1 \notin Queued
      BY <1>1, <2>2 DEF IInv, StageInv
    <3> QED
      BY <1>1, <1>3, <2>2, <3>1 DEF IInv, StageInv
  <2> QED
    BY <1>1, <2>1, <2>2
<1>10. PlayInv'
  BY <1>1, <1>3, <1>6 DEF IInv, PlayInv, PlayingIsInvoked, Types
<1>11. AnswerInv'
  <2>1. answers[sent + 1] = <<>> /\ sent + 1 # invocation
    <3>1. ~(sent + 1 <= sent)
      BY <1>1
    <3> QED
      BY <1>2, <3>1, <1>1 DEF IInv, AnswerInv, PlayInv, NoCall
  <2>2. /\ Waiting' = Waiting \cup {sent + 1}
        /\ \A s \in Serials : BeingChecked(s)' = BeingChecked(s)
    BY <1>1, <1>3 DEF Waiting, BeingChecked
  <2>3. \A s \in Serials : s \in Nat /\ (s <= sent' <=> s <= sent \/ s = sent + 1)
    BY <1>1 DEF Serials
  <2> QED
    BY <1>1, <2>1, <2>2, <2>3 DEF IInv, AnswerInv
<1>12. WatchInv'
  BY <1>1, <1>3 DEF IInv, WatchInv
<1> QED
  BY <1>7, <1>8, <1>9, <1>10, <1>11, <1>12 DEF IInv

(* The client leaves. *)
LEMMA VanishStep ==
  ASSUME IInv, Vanish
  PROVE  IInv'
<1>1. /\ present' = FALSE
      /\ UNCHANGED <<sent, player, watched, playing, invocation, answers, stale>>
      /\ inbox \in Seq(Message)
  BY DEF Vanish, IInv, Types, object
<1>2. CASE ~watched
  <2>1. inbox' = inbox
    BY <1>2 DEF Vanish
  <2> QED
    BY <1>1, <1>2, <2>1
       DEF IInv, Types, QueueInv, StageInv, PlayInv, PlayingIsInvoked, AnswerInv, WatchInv,
           Queued, Waiting, BeingChecked
<1>3. CASE watched
  <2>1. inbox' = Append(inbox, NameOwnerChanged)
    BY <1>3 DEF Vanish
  <2>2. NameOwnerChanged \in Message /\ NameOwnerChanged.serial = NoCall
    BY DEF Message, NameOwnerChanged
  <2>3. /\ inbox' \in Seq(Message)
        /\ Len(inbox') = Len(inbox) + 1 /\ Len(inbox) \in Nat
        /\ \A k \in 1..Len(inbox) : inbox'[k] = inbox[k]
        /\ inbox'[Len(inbox) + 1] = NameOwnerChanged
        /\ Queued' = Queued \cup {NoCall}
    BY <1>1, <2>1, <2>2, AppendSerials DEF Queued
  <2>4. \A k \in 1..Len(inbox') : k \in 1..Len(inbox) \/ k = Len(inbox) + 1
    BY <2>3
  <2>5. \A x \in Serials : x # NoCall /\ (x \in Queued' <=> x \in Queued)
    BY <2>3 DEF Serials, NoCall
  <2>6. Types'
    BY <1>1, <2>3 DEF IInv, Types
  <2>7. QueueInv'
    <3>1. /\ NameOwnerChanged.serial <= sent
          /\ NameOwnerChanged.method # "CreatePlayer" /\ NameOwnerChanged.serial # 1
      BY DEF NameOwnerChanged, NoCall, IInv, Types
    <3>2. \A k \in 1..Len(inbox') :
            /\ inbox'[k].serial <= sent'
            /\ inbox'[k].method = "CreatePlayer" <=> inbox'[k].serial = 1
      BY <1>1, <2>3, <2>4, <3>1 DEF IInv, QueueInv
    <3>3. ASSUME NEW k \in 1..Len(inbox'), NEW j \in 1..Len(inbox'),
                 k # j, inbox'[k].serial # NoCall
          PROVE  inbox'[k].serial # inbox'[j].serial
      <4>1. k \in 1..Len(inbox) /\ inbox'[k] = inbox[k]
        BY <2>2, <2>3, <2>4, <3>3
      <4>2. CASE j \in 1..Len(inbox)
        BY <2>3, <3>3, <4>1, <4>2 DEF IInv, QueueInv
      <4>3. CASE j = Len(inbox) + 1
        BY <2>2, <2>3, <3>3, <4>3
      <4> QED
        BY <2>4, <4>2, <4>3
    <3> QED
      BY <3>2, <3>3 DEF QueueInv
  <2>8. 1 \in Serials
    BY MaxCallsAssumption DEF Serials
  <2>9. StageInv'
    BY <1>1, <2>5, <2>8 DEF IInv, StageInv
  <2>10. PlayInv'
    <3>1. invocation # NoCall => invocation \in Serials
      BY DEF IInv, Types
    <3> QED
      BY <1>1, <2>5, <3>1 DEF IInv, PlayInv, PlayingIsInvoked
  <2>11. AnswerInv'
    BY <1>1, <2>5 DEF IInv, AnswerInv, Waiting, BeingChecked
  <2>12. WatchInv'
    <3>1. Len(inbox) + 1 \in 1..Len(inbox')
      BY <2>3
    <3> QED
      BY <1>1, <1>3, <2>3, <3>1 DEF IInv, WatchInv
  <2> QED
    BY <2>6, <2>7, <2>9, <2>10, <2>11, <2>12 DEF IInv
<1> QED
  BY <1>2, <1>3

-----------------------------------------------------------------------------
(* The first call is received, authorized and answered. *)
LEMMA FirstSerial == 1 \in Serials /\ 1 # NoCall /\ NoCall \notin Serials
BY MaxCallsAssumption DEF Serials, NoCall

LEMMA HandleCreatePlayerStep ==
  ASSUME IInv, HandleCreatePlayer
  PROVE  IInv'
<1>1. /\ Called("CreatePlayer") /\ player' = "authority"
      /\ UNCHANGED <<present, sent, watched, playing, invocation, answers, stale>>
  BY DEF HandleCreatePlayer, client
<1>2. /\ inbox' \in Seq(Message) /\ QueueInv'
      /\ \A s \in Serials : s \in Queued' <=> s \in Queued /\ s # 1
      /\ 1 \in Queued /\ 1 <= sent /\ 1 # invocation
      /\ (\E i \in 1..Len(inbox) : inbox[i] = NameOwnerChanged) =>
           \E i \in 1..Len(inbox') : inbox'[i] = NameOwnerChanged
  BY <1>1, TakeMessage
<1>3. player = "none" /\ answers[1] = <<>> /\ sent = 1
      /\ invocation = NoCall /\ ~watched /\ ~playing
  <2>1. player = "none" /\ answers[1] = <<>>
    BY <1>2 DEF IInv, StageInv
  <2>2. ~(sent > 1)
    BY <2>1 DEF IInv, StageInv
  <2> QED
    BY <1>2, <2>1, <2>2 DEF IInv, Types, PlayInv, PlayingIsInvoked, WatchInv
<1>4. Types'
  BY <1>1, <1>2 DEF IInv, Types, Stages
<1>5. StageInv'
  BY <1>1, <1>2, <1>3, FirstSerial DEF IInv, StageInv
<1>6. PlayInv'
  BY <1>1, <1>3 DEF PlayInv, PlayingIsInvoked
<1>7. AnswerInv'
  BY <1>1, <1>2, <1>3 DEF IInv, AnswerInv, Waiting, BeingChecked
<1>8. WatchInv'
  BY <1>1, <1>3 DEF WatchInv
<1> QED
  BY <1>2, <1>4, <1>5, <1>6, <1>7, <1>8 DEF IInv

(* While the first call is being checked there is no other. *)
LEMMA Checking ==
  ASSUME IInv, player \in {"authority", "checking"}
  PROVE  /\ sent = 1 /\ answers[1] = <<>> /\ invocation = NoCall
         /\ ~watched /\ ~playing /\ 1 \notin Queued
<1>1. answers[1] = <<>>
  BY DEF IInv, StageInv
<1>2. sent = 1
  BY <1>1 DEF IInv, StageInv, Types
<1> QED
  BY <1>1, <1>2 DEF IInv, PlayInv, PlayingIsInvoked, WatchInv, StageInv, Types

LEMMA AuthorizationStep ==
  ASSUME IInv, OnGotPolkitAuthority \/ OnCheckedAuthorization
  PROVE  IInv'
<1>1. /\ player \in {"authority", "checking"}
      /\ UNCHANGED <<present, sent, inbox, playing, invocation, stale>>
  BY DEF OnGotPolkitAuthority, OnCheckedAuthorization, client
<1>2. /\ sent = 1 /\ answers[1] = <<>> /\ invocation = NoCall
      /\ ~watched /\ ~playing /\ 1 \notin Queued
  BY <1>1, Checking
<1>3. QueueInv' /\ Queued' = Queued /\ Waiting' = Waiting /\ 1 \notin Waiting
  BY <1>1, <1>2, FirstSerial DEF IInv, QueueInv, Queued, Waiting
<1>4. answers \in [Serials -> AnswerSeqs]
  BY DEF IInv, Types, AnswerSeqs
<1>5. CASE player' = "checking" /\ UNCHANGED <<answers, watched>>
  <2>1. Types'
    BY <1>1, <1>5 DEF IInv, Types, Stages
  <2>2. AnswerInv'
    BY <1>1, <1>2, <1>3, <1>5 DEF IInv, AnswerInv, BeingChecked
  <2> QED
    BY <1>1, <1>2, <1>3, <1>5, <2>1, <2>2, FirstSerial
       DEF IInv, StageInv, PlayInv, PlayingIsInvoked, WatchInv
<1>6. CASE player' = "refused" /\ answers' = Reply(answers, 1, "error") /\ UNCHANGED watched
  <2>1. /\ answers' \in [Serials -> AnswerSeqs] /\ answers'[1] = <<"error">>
        /\ \A t \in Serials : t # 1 => answers'[t] = answers[t]
    BY <1>2, <1>4, <1>6, FirstSerial, ReplyFacts
  <2>2. <<"error">> # <<"ok">> /\ <<"error">> # <<>> /\ Len(<<"error">>) = 1
    OBVIOUS
  <2>3. Types'
    BY <1>1, <1>6, <2>1 DEF IInv, Types, Stages, AnswerSeqs
  <2>4. AnswerInv'
    <3>1. \A s \in Serials : s # 1 => answers'[s] = answers[s] /\ ~BeingChecked(s)
      BY <2>1 DEF BeingChecked
    <3>2. \A s \in Serials : s # 1 =>
            /\ answers[s] # <<>> => s <= sent
            /\ s <= sent /\ s \notin Waiting => answers[s] # <<>>
            /\ ~stale => Len(answers[s]) \in {0, 1} /\ (s \in Waiting => answers[s] = <<>>)
      BY <3>1 DEF IInv, AnswerInv
    <3>3. /\ answers'[1] # <<>> /\ 1 <= sent
          /\ Len(answers'[1]) \in {0, 1} /\ 1 \notin Waiting
      BY <1>2, <1>3, <2>1, <2>2
    <3>4. \A s \in Serials :
            /\ answers'[s] # <<>> => s <= sent
            /\ s <= sent /\ s \notin Waiting => answers'[s] # <<>>
            /\ ~stale => Len(answers'[s]) \in {0, 1} /\ (s \in Waiting => answers'[s] = <<>>)
      BY <3>1, <3>2, <3>3
    <3> QED
      BY <1>1, <1>3, <3>4 DEF AnswerInv
  <2> QED
    BY <1>1, <1>2, <1>3, <1>6, <2>1, <2>2, <2>3, <2>4, FirstSerial
       DEF IInv, StageInv, PlayInv, PlayingIsInvoked, WatchInv
<1>7. CASE player' = "exists" /\ answers' = Reply(answers, 1, "ok") /\ watched' = present
  <2>1. /\ answers' \in [Serials -> AnswerSeqs] /\ answers'[1] = <<"ok">>
        /\ \A t \in Serials : t # 1 => answers'[t] = answers[t]
    BY <1>2, <1>4, <1>7, FirstSerial, ReplyFacts
  <2>2. <<"ok">> # <<>> /\ Len(<<"ok">>) = 1
    OBVIOUS
  <2>3. Types'
    BY <1>1, <1>7, <2>1 DEF IInv, Types, Stages, AnswerSeqs
  <2>4. AnswerInv'
    <3>1. \A s \in Serials : s # 1 => answers'[s] = answers[s] /\ ~BeingChecked(s)
      BY <2>1 DEF BeingChecked
    <3>2. \A s \in Serials : s # 1 =>
            /\ answers[s] # <<>> => s <= sent
            /\ s <= sent /\ s \notin Waiting => answers[s] # <<>>
            /\ ~stale => Len(answers[s]) \in {0, 1} /\ (s \in Waiting => answers[s] = <<>>)
      BY <3>1 DEF IInv, AnswerInv
    <3>3. /\ answers'[1] # <<>> /\ 1 <= sent
          /\ Len(answers'[1]) \in {0, 1} /\ 1 \notin Waiting
      BY <1>2, <1>3, <2>1, <2>2
    <3>4. \A s \in Serials :
            /\ answers'[s] # <<>> => s <= sent
            /\ s <= sent /\ s \notin Waiting => answers'[s] # <<>>
            /\ ~stale => Len(answers'[s]) \in {0, 1} /\ (s \in Waiting => answers'[s] = <<>>)
      BY <3>1, <3>2, <3>3
    <3> QED
      BY <1>1, <1>3, <3>4 DEF AnswerInv
  <2> QED
    BY <1>1, <1>2, <1>3, <1>7, <2>1, <2>2, <2>3, <2>4, FirstSerial
       DEF IInv, StageInv, PlayInv, PlayingIsInvoked, WatchInv
<1> QED
  BY <1>5, <1>6, <1>7 DEF OnGotPolkitAuthority, OnCheckedAuthorization

-----------------------------------------------------------------------------
(* What a handler does to the answers: the calls of a set are answered, and *)
(* if no answered call was used again they have one answer then and no      *)
(* other call has got one; in any case only calls that wait get answers.    *)
Adds(new, some, sound) ==
  /\ new \in [Serials -> AnswerSeqs]
  /\ \A t \in some : new[t] # <<>>
  /\ \A t \in Serials :
       /\ answers[t] # <<>> => new[t] # <<>>
       /\ new[t] # answers[t] => t \in Waiting
       /\ sound => IF t \in some THEN Len(new[t]) = 1 ELSE new[t] = answers[t]

LEMMA NothingAdded ==
  ASSUME IInv, NEW sound
  PROVE  Adds(answers, {}, sound)
BY DEF IInv, Types, AnswerSeqs, Adds

LEMMA ReplyAdds ==
  ASSUME NEW old, NEW some \in SUBSET Serials, NEW sound, Adds(old, some, sound),
         NEW s \in Serials, s \in Waiting, NEW a \in {"ok", "error"},
         sound => answers[s] = <<>> /\ s \notin some
  PROVE  Adds(Reply(old, s, a), some \cup {s}, sound)
<1> DEFINE new == Reply(old, s, a)
<1>1. old \in [Serials -> AnswerSeqs]
  BY DEF Adds
<1>2. /\ new \in [Serials -> AnswerSeqs]
      /\ new[s] # <<>> /\ Len(new[s]) = Len(old[s]) + 1
      /\ \A t \in Serials : t # s => new[t] = old[t]
  BY <1>1, ReplyFacts
<1> HIDE DEF new
<1>3. sound => Len(new[s]) = 1
  <2>1. Len(<<>>) = 0
    OBVIOUS
  <2> QED
    BY <1>2, <2>1 DEF Adds
<1> QED
  BY <1>2, <1>3 DEF Adds, new

LEMMA OneAdded ==
  ASSUME IInv, NEW sound, NEW s \in Serials, s \in Waiting, NEW a \in {"ok", "error"},
         sound => answers[s] = <<>>
  PROVE  Adds(Reply(answers, s, a), {s}, sound)
<1>1. Adds(answers, {}, sound)
  BY NothingAdded
<1>2. {} \cup {s} = {s} /\ {} \in SUBSET Serials /\ s \notin {}
  OBVIOUS
<1>3. Adds(Reply(answers, s, a), {} \cup {s}, sound)
  BY <1>1, <1>2, ReplyAdds
<1> QED
  BY <1>2, <1>3

(* The calls that wait were made, and the Play that is played waits. *)
LEMMA WaitingFacts ==
  ASSUME IInv
  PROVE  /\ \A s \in Serials : s \in Waiting => s <= sent
         /\ invocation # NoCall =>
              /\ invocation \in Serials /\ invocation # 1 /\ invocation \in Waiting
              /\ invocation \notin Queued
              /\ ~stale => answers[invocation] = <<>>
              /\ playing /\ player = "exists"
         /\ invocation # 1
         /\ player \in {"exists", "destroyed"} => 1 \notin Waiting
         /\ invocation = NoCall => ~playing
<1>1. \A s \in Queued : s <= sent
  BY DEF IInv, QueueInv, Queued, SerialsOf
<1>2. ASSUME invocation # NoCall
      PROVE  /\ invocation \in Serials /\ invocation # 1 /\ invocation <= sent
             /\ invocation \in Waiting /\ invocation \notin Queued
             /\ playing /\ player = "exists"
  <2>1. invocation \in Serials /\ invocation \in 2..sent /\ sent \in Nat
    BY <1>2 DEF IInv, Types, PlayInv
  <2>2. invocation # 1 /\ invocation <= sent
    BY <2>1
  <2> QED
    BY <1>2, <2>1, <2>2 DEF IInv, PlayInv, PlayingIsInvoked, Waiting
<1>3. \A s \in Serials : s \in Waiting => s <= sent
  BY <1>1, <1>2, FirstSerial DEF Waiting
<1>4. invocation # 1
  BY <1>2, FirstSerial
<1>5. player \in {"exists", "destroyed"} => 1 \notin Waiting
  BY <1>4 DEF IInv, StageInv, Waiting
<1>6. invocation = NoCall => ~playing
  BY DEF IInv, PlayInv, PlayingIsInvoked
<1> QED
  BY <1>2, <1>3, <1>4, <1>5, <1>6 DEF IInv, AnswerInv

(* Playing is over: the Play has an answer then, this one or an earlier.    *)
LEMMA FinishAdds ==
  ASSUME IInv, invocation # NoCall,
         NEW old, NEW some \in SUBSET Serials, Adds(old, some, ~stale),
         invocation \notin some, OnPlayerFinished(old)
  PROVE  Adds(answers', some \cup {invocation}, ~stale)
<1>1. PICK s \in Answered : answers' = Reply(old, s, "ok")
  BY DEF OnPlayerFinished
<1>2. /\ invocation \in Serials /\ invocation \in Waiting
      /\ ~stale => answers[invocation] = <<>>
  BY WaitingFacts
<1>3. CASE s = invocation
  BY <1>1, <1>2, <1>3, ReplyAdds
<1>4. CASE s # invocation
  <2>1. stale /\ answers[invocation] # <<>> /\ s \in Queued \cup {NoCall}
    <3>1. DOMAIN inbox = 1..Len(inbox)
      BY DEF IInv, Types
    <3> QED
      BY <1>1, <1>2, <1>4, <3>1 DEF Answered, Queued, SerialsOf
  <2>2. Adds(answers', some \cup ({s} \cap Serials), ~stale)
    <3>1. CASE s \in Serials
      <4>1. s \in Waiting
        BY <2>1, <3>1, FirstSerial DEF Waiting
      <4>2. {s} \cap Serials = {s}
        BY <3>1
      <4> QED
        BY <1>1, <2>1, <3>1, <4>1, <4>2, ReplyAdds
    <3>2. CASE s \notin Serials
      <4>1. old \in [Serials -> AnswerSeqs]
        BY DEF Adds
      <4>2. /\ Reply(old, s, "ok") \in [Serials -> AnswerSeqs]
            /\ \A t \in Serials : t # s => Reply(old, s, "ok")[t] = old[t]
        BY <4>1, ReplyFacts
      <4>3. /\ answers' \in [Serials -> AnswerSeqs]
            /\ \A t \in Serials : answers'[t] = old[t]
        BY <1>1, <3>2, <4>2
      <4>4. some \cup ({s} \cap Serials) = some
        BY <3>2
      <4> QED
        BY <4>3, <4>4 DEF Adds
    <3> QED
      BY <3>1, <3>2
  <2> QED
    BY <1>2, <2>1, <2>2 DEF Adds
<1> QED
  BY <1>3, <1>4

(* What a handler has to do to the answers: the calls that wait no more are *)
(* answered, and none that still wait.                                      *)
LEMMA HandlerStep ==
  ASSUME IInv, NEW some \in SUBSET Serials,
         UNCHANGED sent, player \in {"exists", "destroyed"},
         player' \in {player, "destroyed"},
         stale' \in BOOLEAN, stale => stale',
         Adds(answers', some, ~stale'),
         \A s \in Serials : s \in Waiting' => s \in Waiting /\ (~stale' => s \notin some),
         \A s \in Serials : s \in Waiting => s \in Waiting' \/ s \in some
  PROVE  AnswerInv' /\ StageInv'
<1>1. \A s \in Serials : ~BeingChecked(s) /\ ~BeingChecked(s)'
  BY DEF BeingChecked
<1>2. AnswerInv'
  <2> SUFFICES ASSUME NEW s \in Serials
               PROVE  /\ answers'[s] # <<>> => s <= sent
                      /\ s <= sent /\ s \notin Waiting' => answers'[s] # <<>>
                      /\ ~stale' => /\ Len(answers'[s]) \in {0, 1}
                                    /\ s \in Waiting' => answers'[s] = <<>>
    BY <1>1 DEF AnswerInv
  <2>1. /\ s \in some => answers'[s] # <<>>
        /\ answers[s] # <<>> => answers'[s] # <<>>
        /\ answers'[s] # answers[s] => s \in Waiting
        /\ ~stale' => IF s \in some THEN Len(answers'[s]) = 1 ELSE answers'[s] = answers[s]
    BY DEF Adds
  <2>2. /\ answers[s] # <<>> => s <= sent
        /\ s <= sent /\ s \notin Waiting => answers[s] # <<>>
        /\ ~stale => Len(answers[s]) \in {0, 1} /\ (s \in Waiting => answers[s] = <<>>)
    BY <1>1 DEF IInv, AnswerInv
  <2>3. s \in Waiting => s <= sent
    BY WaitingFacts
  <2>4. ~stale' => Len(answers'[s]) \in {0, 1}
    BY <2>1, <2>2
  <2> QED
    BY <2>1, <2>2, <2>3, <2>4
<1>3. answers'[1] = answers[1] /\ 1 \notin Queued'
  BY FirstSerial, WaitingFacts DEF Adds, Waiting
<1>4. StageInv'
  BY <1>3, FirstSerial DEF IInv, StageInv
<1> QED
  BY <1>2, <1>4

LEMMA EndOfFileStep ==
  ASSUME IInv, EndOfFile
  PROVE  IInv'
<1>1. /\ UNCHANGED <<present, sent, inbox, player, watched, stale>>
      /\ playing /\ playing' = FALSE /\ invocation' = NoCall /\ OnPlayerFinished(answers)
  BY DEF EndOfFile, OnPlayerFinished, client, object
<1>2. invocation # NoCall
  BY <1>1 DEF IInv, PlayInv, PlayingIsInvoked
<1>3. /\ invocation \in Serials /\ invocation \notin Queued
      /\ player = "exists"
  BY <1>2, WaitingFacts
<1>4. Adds(answers', {invocation}, ~stale)
  <2>1. Adds(answers, {}, ~stale)
    BY NothingAdded
  <2> QED
    BY <1>1, <1>2, <2>1, FinishAdds, {} \cup {invocation} = {invocation}
<1>5. QueueInv' /\ Queued' = Queued
  BY <1>1 DEF IInv, QueueInv, Queued
<1>6. Types'
  BY <1>1, <1>4 DEF IInv, Types, Adds, AnswerSeqs
<1>7. AnswerInv' /\ StageInv'
  <2>1. stale' \in BOOLEAN
    BY <1>1 DEF IInv, Types
  <2>2. \A s \in Serials : s \in Waiting' <=> s \in Waiting /\ s # invocation
    BY <1>1, <1>3, <1>5, FirstSerial DEF Waiting
  <2>3. Adds(answers', {invocation}, ~stale')
    BY <1>1, <1>4
  <2> QED
    BY <1>1, <1>3, <2>1, <2>2, <2>3, HandlerStep
<1>8. PlayInv' /\ WatchInv'
  BY <1>1 DEF IInv, PlayInv, PlayingIsInvoked, WatchInv
<1> QED
  BY <1>5, <1>6, <1>7, <1>8 DEF IInv

(* What every call on the player takes from the queue *)
LEMMA CallTaken ==
  ASSUME IInv, NEW method \in Methods, Called(method), sent' = sent
  PROVE  /\ inbox' \in Seq(Message) /\ QueueInv'
         /\ \A s \in Serials : s \in Queued' <=> s \in Queued /\ s # Serial
         /\ Serial \in Serials /\ Serial # 1 /\ Serial <= sent /\ Serial \in Queued
         /\ Serial \in Waiting
         /\ Serial # invocation /\ Serial # NoCall
         /\ ~stale => answers[Serial] = <<>>
         /\ (\E i \in 1..Len(inbox) : inbox[i] = NameOwnerChanged) =>
              \E i \in 1..Len(inbox') : inbox'[i] = NameOwnerChanged
BY TakeMessage, FirstSerial DEF Methods, BadPlays, Waiting

(* A call is answered and nothing else changes: a Play while another one is *)
(* under way, a Stop that comes too late, a call on a player that is gone.  *)
LEMMA AnsweredStep ==
  ASSUME IInv, NEW method \in Methods, Called(method), player \in {"exists", "destroyed"},
         UNCHANGED <<present, sent, player, watched, playing, invocation>>,
         \/ answers' = Reply(answers, Serial, "error") /\ UNCHANGED stale
         \/ /\ answers' = Reply(Reply(answers, Serial, "error"), Serial, "error")
            /\ stale' = TRUE
  PROVE  IInv'
<1>1. /\ inbox' \in Seq(Message) /\ QueueInv'
      /\ \A s \in Serials : s \in Queued' <=> s \in Queued /\ s # Serial
      /\ Serial \in Serials /\ Serial \in Waiting
      /\ Serial # invocation
      /\ ~stale => answers[Serial] = <<>>
      /\ (\E i \in 1..Len(inbox) : inbox[i] = NameOwnerChanged) =>
           \E i \in 1..Len(inbox') : inbox'[i] = NameOwnerChanged
  BY CallTaken
<1>2. stale \in BOOLEAN
  BY DEF IInv, Types
<1>3. Adds(answers', {Serial}, ~stale') /\ stale' \in BOOLEAN /\ (stale => stale')
  <2>1. ASSUME NEW sound, sound => ~stale
        PROVE  Adds(Reply(answers, Serial, "error"), {Serial}, sound)
    BY <1>1, <2>1, OneAdded
  <2>2. CASE answers' = Reply(answers, Serial, "error") /\ UNCHANGED stale
    BY <1>2, <2>1, <2>2
  <2>3. CASE /\ answers' = Reply(Reply(answers, Serial, "error"), Serial, "error")
             /\ stale' = TRUE
    <3>1. Adds(Reply(answers, Serial, "error"), {Serial}, FALSE)
      BY <2>1
    <3>2. {Serial} \cup {Serial} = {Serial} /\ {Serial} \in SUBSET Serials
      BY <1>1
    <3> DEFINE once == Reply(answers, Serial, "error")
    <3>3. answers' = Reply(once, Serial, "error") /\ Adds(once, {Serial}, FALSE)
      BY <2>3, <3>1
    <3> HIDE DEF once
    <3>4. Adds(Reply(once, Serial, "error"), {Serial} \cup {Serial}, FALSE)
      BY <1>1, <3>2, <3>3, ReplyAdds
    <3> QED
      BY <2>3, <3>2, <3>3, <3>4
  <2> QED
    BY <2>2, <2>3
<1>4. Types'
  <2>1. answers' \in [Serials -> Seq({"ok", "error"})]
    BY <1>3 DEF Adds, AnswerSeqs
  <2> QED
    BY <1>1, <1>3, <2>1 DEF IInv, Types
<1>5. AnswerInv' /\ StageInv'
  <2>1. \A s \in Serials : s \in Waiting' <=> s \in Waiting /\ s # Serial
    BY <1>1, FirstSerial DEF Waiting
  <2> QED
    BY <1>1, <1>3, <2>1, HandlerStep
<1>6. PlayInv'
  <2>1. invocation # NoCall => invocation \in Serials
    BY DEF IInv, Types
  <2> QED
    BY <1>1, <2>1 DEF IInv, PlayInv, PlayingIsInvoked
<1>7. WatchInv'
  BY <1>1 DEF IInv, WatchInv
<1> QED
  BY <1>1, <1>4, <1>5, <1>6, <1>7 DEF IInv

(* A Play is accepted, with or without an error sent first. *)
LEMMA PlayAcceptedStep ==
  ASSUME IInv, NEW method \in Methods, Called(method), player = "exists",
         invocation = NoCall, playing' = TRUE, invocation' = Serial,
         UNCHANGED <<present, sent, player, watched>>,
         \/ UNCHANGED <<answers, stale>>
         \/ answers' = Reply(answers, Serial, "error") /\ stale' = TRUE
  PROVE  IInv'
<1>1. /\ inbox' \in Seq(Message) /\ QueueInv'
      /\ \A s \in Serials : s \in Queued' <=> s \in Queued /\ s # Serial
      /\ Serial \in Serials /\ Serial # 1 /\ Serial <= sent /\ Serial # NoCall
      /\ Serial \in Queued /\ Serial \in Waiting
      /\ (\E i \in 1..Len(inbox) : inbox[i] = NameOwnerChanged) =>
           \E i \in 1..Len(inbox') : inbox'[i] = NameOwnerChanged
  BY CallTaken
<1>2. \A s \in Serials : s \in Waiting' <=> s \in Waiting
  BY <1>1, FirstSerial DEF Waiting
<1>3. stale \in BOOLEAN
  BY DEF IInv, Types
<1>4. PICK some \in {{}, {Serial}} :
        /\ Adds(answers', some, ~stale') /\ stale' \in BOOLEAN /\ (stale => stale')
        /\ ~stale' => some = {}
  <2>1. CASE UNCHANGED <<answers, stale>>
    BY <1>3, <2>1, NothingAdded
  <2>2. CASE answers' = Reply(answers, Serial, "error") /\ stale' = TRUE
    <3>1. Adds(Reply(answers, Serial, "error"), {Serial}, FALSE)
      BY <1>1, OneAdded
    <3> QED
      BY <2>2, <3>1
  <2> QED
    BY <2>1, <2>2
<1>5. Types'
  <2>1. answers' \in [Serials -> Seq({"ok", "error"})]
    BY <1>4 DEF Adds, AnswerSeqs
  <2> QED
    BY <1>1, <1>4, <2>1 DEF IInv, Types
<1>6. AnswerInv' /\ StageInv'
  <2>1. some \in SUBSET Serials
    BY <1>1, <1>4
  <2> QED
    BY <1>2, <1>4, <2>1, HandlerStep
<1>7. PlayInv'
  <2>1. Serial \in 2..sent
    BY <1>1 DEF Serials, IInv, Types
  <2> QED
    BY <1>1, <2>1 DEF PlayInv, PlayingIsInvoked
<1>8. WatchInv'
  BY <1>1 DEF IInv, WatchInv
<1> QED
  BY <1>1, <1>5, <1>6, <1>7, <1>8 DEF IInv

(* A call is answered with success and the Play under way, if there is one, *)
(* is answered with it: Stop and Destroy.                                   *)
LEMMA StoppedStep ==
  ASSUME IInv, NEW method \in Methods, Called(method), player = "exists",
         UNCHANGED <<present, sent, stale>>,
         \/ player' = player /\ watched' = watched
         \/ player' = "destroyed" /\ watched' = FALSE,
         \/ invocation # NoCall /\ OnPlayerFinished(Reply(answers, Serial, "ok"))
         \/ /\ invocation = NoCall /\ answers' = Reply(answers, Serial, "ok")
            /\ UNCHANGED <<playing, invocation>>
  PROVE  IInv'
<1>1. /\ inbox' \in Seq(Message) /\ QueueInv'
      /\ \A s \in Serials : s \in Queued' <=> s \in Queued /\ s # Serial
      /\ Serial \in Serials /\ Serial \in Waiting
      /\ Serial # invocation
      /\ ~stale => answers[Serial] = <<>>
      /\ (\E i \in 1..Len(inbox) : inbox[i] = NameOwnerChanged) =>
           \E i \in 1..Len(inbox') : inbox'[i] = NameOwnerChanged
  BY CallTaken
<1>2. Adds(Reply(answers, Serial, "ok"), {Serial}, ~stale)
  BY <1>1, OneAdded
<1>3. /\ ~playing' /\ playing' \in BOOLEAN /\ invocation' = NoCall
      /\ Adds(answers', {Serial, invocation} \cap Serials, ~stale)
  <2>1. CASE invocation # NoCall
    <3>1. playing' = FALSE /\ invocation' = NoCall
      BY <2>1 DEF OnPlayerFinished
    <3>2. invocation \in Serials
      BY <2>1, WaitingFacts
    <3>3. {Serial, invocation} \cap Serials = {Serial} \cup {invocation}
      BY <1>1, <3>2
    <3>4. {Serial} \in SUBSET Serials /\ invocation \notin {Serial}
      BY <1>1
    <3>5. Adds(answers', {Serial} \cup {invocation}, ~stale)
      BY <1>2, <2>1, <3>4, FinishAdds
    <3> QED
      BY <3>1, <3>3, <3>5
  <2>2. CASE invocation = NoCall
    <3>1. ~playing /\ UNCHANGED <<playing, invocation>> /\ playing \in BOOLEAN
      BY <2>2, WaitingFacts DEF IInv, Types
    <3>2. answers' = Reply(answers, Serial, "ok") /\ {Serial, invocation} \cap Serials = {Serial}
      BY <1>1, <2>2, FirstSerial
    <3> QED
      BY <1>2, <2>2, <3>1, <3>2
  <2> QED
    BY <2>1, <2>2
<1>4. Types'
  <2>1. watched' \in BOOLEAN /\ player' \in Stages
    BY DEF IInv, Types, Stages
  <2>2. {present, watched, playing, stale}' \subseteq BOOLEAN
    BY <1>3, <2>1 DEF IInv, Types
  <2>3. answers' \in [Serials -> Seq({"ok", "error"})]
    BY <1>3 DEF Adds, AnswerSeqs
  <2> QED
    BY <1>1, <1>3, <2>1, <2>2, <2>3 DEF IInv, Types
<1>5. AnswerInv' /\ StageInv'
  <2>1. \A s \in Serials : s \in Waiting' <=> s \in Waiting /\ s # Serial /\ s # invocation
    <3>1. invocation # NoCall => invocation \notin Queued
      BY WaitingFacts
    <3> QED
      BY <1>1, <1>3, <3>1, FirstSerial DEF Waiting
  <2>2. stale' \in BOOLEAN
    BY DEF IInv, Types
  <2>3. Adds(answers', {Serial, invocation} \cap Serials, ~stale')
    BY <1>3
  <2> QED
    BY <2>1, <2>2, <2>3, HandlerStep
<1>6. PlayInv'
  BY <1>3 DEF PlayInv, PlayingIsInvoked
<1>7. WatchInv'
  BY <1>1 DEF IInv, WatchInv
<1> QED
  BY <1>1, <1>4, <1>5, <1>6, <1>7 DEF IInv

(* The client has left: the player is destroyed, or was before.             *)
LEMMA NameOwnerChangedStep ==
  ASSUME IInv, OnNameOwnerChanged
  PROVE  IInv'
<1>1. Called("NameOwnerChanged") /\ UNCHANGED <<present, sent, stale>>
  BY DEF OnNameOwnerChanged, client
<1>2. /\ inbox' \in Seq(Message) /\ QueueInv' /\ Serial = NoCall
      /\ \A s \in Serials : s \in Queued' <=> s \in Queued
  BY <1>1, TakeMessage, FirstSerial
<1>3. CASE ~watched
  <2>1. UNCHANGED <<player, watched, playing, invocation, answers>>
    BY <1>3 DEF OnNameOwnerChanged, object
  <2>2. Types'
    BY <1>1, <1>2, <2>1 DEF IInv, Types
  <2>3. StageInv'
    BY <1>1, <1>2, <2>1, FirstSerial DEF IInv, StageInv
  <2>4. PlayInv'
    <3>1. invocation # NoCall => invocation \in Serials
      BY DEF IInv, Types
    <3> QED
      BY <1>1, <1>2, <2>1, <3>1 DEF IInv, PlayInv, PlayingIsInvoked
  <2>5. AnswerInv'
    BY <1>1, <1>2, <2>1 DEF IInv, AnswerInv, Waiting, BeingChecked
  <2>6. WatchInv'
    BY <1>1, <1>3, <2>1 DEF IInv, WatchInv
  <2> QED
    BY <1>2, <2>2, <2>3, <2>4, <2>5, <2>6 DEF IInv
<1>4. CASE watched
  <2>1. /\ player' = "destroyed" /\ watched' = FALSE
        /\ \/ invocation # NoCall /\ OnPlayerFinished(answers)
           \/ invocation = NoCall /\ answers' = answers /\ UNCHANGED <<playing, invocation>>
    BY <1>4 DEF OnNameOwnerChanged, PlayerDestroy
  <2>2. player = "exists"
    BY <1>4 DEF IInv, WatchInv
  <2>3. Adds(answers, {}, ~stale)
    BY NothingAdded
  <2>4. /\ ~playing' /\ playing' \in BOOLEAN /\ invocation' = NoCall
        /\ Adds(answers', {invocation} \cap Serials, ~stale)
    <3>1. CASE invocation # NoCall
      <4>1. playing' = FALSE /\ invocation' = NoCall /\ OnPlayerFinished(answers)
        BY <2>1, <3>1 DEF OnPlayerFinished
      <4>2. {invocation} \cap Serials = {} \cup {invocation} /\ {} \in SUBSET Serials
        BY <3>1, WaitingFacts
      <4>3. Adds(answers', {} \cup {invocation}, ~stale)
        BY <2>3, <3>1, <4>1, <4>2, FinishAdds
      <4> QED
        BY <4>1, <4>2, <4>3
    <3>2. CASE invocation = NoCall
      <4>1. ~playing /\ playing \in BOOLEAN /\ {invocation} \cap Serials = {}
        BY <3>2, WaitingFacts, FirstSerial DEF IInv, Types
      <4> QED
        BY <2>1, <2>3, <3>2, <4>1
    <3> QED
      BY <3>1, <3>2
  <2>5. Types'
    <3>1. {present, watched, playing, stale}' \subseteq BOOLEAN
      BY <1>1, <2>1, <2>4 DEF IInv, Types
    <3>2. player' \in Stages
      BY <2>1 DEF Stages
    <3>3. answers' \in [Serials -> Seq({"ok", "error"})]
      BY <2>4 DEF Adds, AnswerSeqs
    <3> QED
      BY <1>1, <1>2, <2>4, <3>1, <3>2, <3>3 DEF IInv, Types
  <2>6. AnswerInv' /\ StageInv'
    <3>1. \A s \in Serials : s \in Waiting' <=> s \in Waiting /\ s # invocation
      <4>1. invocation # NoCall => invocation \notin Queued
        BY WaitingFacts
      <4> QED
        BY <1>2, <2>4, <4>1, FirstSerial DEF Waiting
    <3>2. stale' \in BOOLEAN
      BY <1>1 DEF IInv, Types
    <3>3. Adds(answers', {invocation} \cap Serials, ~stale')
      BY <1>1, <2>4
    <3> QED
      BY <1>1, <2>1, <2>2, <3>1, <3>2, <3>3, HandlerStep
  <2>7. PlayInv' /\ WatchInv'
    BY <2>1, <2>4 DEF PlayInv, PlayingIsInvoked, WatchInv
  <2> QED
    BY <1>2, <2>5, <2>6, <2>7 DEF IInv
<1> QED
  BY <1>3, <1>4

(* The helper ends, and the bus answers the calls that wait. *)
LEMMA HelperEndsStep ==
  ASSUME IInv, player = "exists", HelperEnds, UNCHANGED stale
  PROVE  IInv'
<1>1. /\ player' = "destroyed" /\ watched' = FALSE /\ inbox' = <<>>
      /\ playing' = FALSE /\ invocation' = NoCall /\ UNCHANGED <<present, sent>>
  BY DEF HelperEnds, client
<1>2. inbox' \in Seq(Message) /\ 1..Len(inbox') = {} /\ Queued' = {}
  BY <1>1 DEF Queued, SerialsOf
<1>3. <<"error">> \in AnswerSeqs /\ <<"error">> # <<>> /\ Len(<<"error">>) = 1
  BY DEF AnswerSeqs
<1>4. answers \in [Serials -> AnswerSeqs]
  BY DEF IInv, Types, AnswerSeqs
<1>5. /\ answers' \in [Serials -> AnswerSeqs]
      /\ \A s \in Serials :
           answers'[s] = IF s <= sent /\ answers[s] = <<>> THEN <<"error">> ELSE answers[s]
  BY <1>3, <1>4 DEF HelperEnds
<1>6. Types'
  <2>1. {present, watched, playing, stale}' \subseteq BOOLEAN
    BY <1>1 DEF IInv, Types
  <2> QED
    BY <1>1, <1>2, <1>5, <2>1 DEF IInv, Types, Stages, AnswerSeqs
<1>7. QueueInv' /\ PlayInv' /\ WatchInv'
  BY <1>1, <1>2 DEF QueueInv, PlayInv, PlayingIsInvoked, WatchInv
<1>8. StageInv'
  <2>1. sent > 0 /\ (sent > 1 => answers[1] = <<"ok">>) /\ <<"ok">> # <<>>
    BY DEF IInv, StageInv, Types
  <2> QED
    BY <1>1, <1>2, <1>5, <2>1, FirstSerial DEF StageInv
<1>9. AnswerInv'
  <2>1. \A s \in Serials : s \notin Waiting'
    BY <1>1, <1>2, FirstSerial DEF Waiting
  <2>2. \A s \in Serials : /\ answers[s] # <<>> => s <= sent
                           /\ ~stale => Len(answers[s]) \in {0, 1}
    BY DEF IInv, AnswerInv
  <2>3. \A s \in Serials : /\ answers'[s] # <<>> => s <= sent
                           /\ s <= sent => answers'[s] # <<>>
                           /\ ~stale => Len(answers'[s]) \in {0, 1}
    BY <1>3, <1>5, <2>2
  <2> QED
    BY <1>1, <2>1, <2>3 DEF AnswerInv
<1> QED
  BY <1>6, <1>7, <1>8, <1>9 DEF IInv

-----------------------------------------------------------------------------
LEMMA Inductive ==
  ASSUME IInv, [Next]_vars
  PROVE  IInv'
<1>1. ASSUME NEW method \in Methods \cup {"CreatePlayer"}, SendCall(method) PROVE IInv'
  BY <1>1, SendCallStep
<1>2. CASE Vanish
  BY <1>2, VanishStep
<1>3. CASE HandleCreatePlayer
  BY <1>3, HandleCreatePlayerStep
<1>4. CASE HandlePlay
  <2>1. "Play" \in Methods
    BY DEF Methods
  <2>2. /\ Called("Play") /\ player = "exists"
        /\ UNCHANGED <<present, sent, player, watched, stale>>
    BY <1>4 DEF HandlePlay, client, object
  <2>3. CASE answers' = Reply(answers, Serial, "error") /\ UNCHANGED <<playing, invocation>>
    BY <2>1, <2>2, <2>3, AnsweredStep
  <2>4. CASE /\ invocation = NoCall /\ playing' = TRUE /\ invocation' = Serial
             /\ UNCHANGED answers
    BY <2>1, <2>2, <2>4, PlayAcceptedStep
  <2> QED
    BY <1>4, <2>3, <2>4 DEF HandlePlay
<1>5. CASE HandleStop
  <2>1. "Stop" \in Methods
    BY DEF Methods
  <2>2. /\ Called("Stop") /\ player = "exists"
        /\ UNCHANGED <<present, sent, player, watched, stale>>
    BY <1>5 DEF HandleStop, client, object
  <2>3. CASE answers' = Reply(answers, Serial, "error") /\ UNCHANGED <<playing, invocation>>
    BY <2>1, <2>2, <2>3, AnsweredStep
  <2>4. CASE invocation # NoCall /\ OnPlayerFinished(Reply(answers, Serial, "ok"))
    <3>1. \/ player' = player /\ watched' = watched
          \/ player' = "destroyed" /\ watched' = FALSE
      BY <2>2
    <3>2. \/ invocation # NoCall /\ OnPlayerFinished(Reply(answers, Serial, "ok"))
          \/ /\ invocation = NoCall /\ answers' = Reply(answers, Serial, "ok")
             /\ UNCHANGED <<playing, invocation>>
      BY <2>4
    <3>3. player = "exists" /\ Called("Stop") /\ UNCHANGED <<present, sent, stale>>
      BY <2>2
    <3> QED
      BY <2>1, <3>1, <3>2, <3>3, StoppedStep
  <2> QED
    BY <1>5, <2>3, <2>4 DEF HandleStop
<1>6. CASE HandleDestroy
  <2>1. "Destroy" \in Methods
    BY DEF Methods
  <2>2. /\ Called("Destroy") /\ player = "exists" /\ UNCHANGED <<present, sent, stale>>
        /\ player' = "destroyed" /\ watched' = FALSE
        /\ \/ invocation # NoCall /\ OnPlayerFinished(Reply(answers, Serial, "ok"))
           \/ /\ invocation = NoCall /\ answers' = Reply(answers, Serial, "ok")
              /\ UNCHANGED <<playing, invocation>>
    BY <1>6 DEF HandleDestroy, PlayerDestroy, client
  <2> QED
    BY <2>1, <2>2, StoppedStep
<1>7. CASE HandleUnknown
  <2>1. PICK method \in Methods : Called(method)
    BY <1>7 DEF HandleUnknown
  <2> QED
    BY <1>7, <2>1, AnsweredStep DEF HandleUnknown, client, object
<1>8. CASE OnNameOwnerChanged
  BY <1>8, NameOwnerChangedStep
<1>9. CASE OnGotPolkitAuthority \/ OnCheckedAuthorization
  BY <1>9, AuthorizationStep
<1>10. CASE EndOfFile
  BY <1>10, EndOfFileStep
<1>11. CASE UNCHANGED vars
  BY <1>11
     DEF vars, client, object, IInv, Types, QueueInv, StageInv, PlayInv, PlayingIsInvoked,
         AnswerInv, WatchInv, Queued, Waiting, BeingChecked
<1>12. CASE HandleBadPlay
  <2>1. PICK method \in BadPlays :
          /\ Called(method)
          /\ \/ /\ invocation # NoCall
                /\ answers' = Reply(Reply(answers, Serial, "error"), Serial, "error")
                /\ UNCHANGED <<object, playing, invocation>>
             \/ /\ invocation = NoCall /\ method = "PlayWithOtherFds"
                /\ playing' = TRUE
                /\ invocation' = Serial
                /\ answers' = Reply(answers, Serial, "error")
                /\ UNCHANGED object
    BY <1>12 DEF HandleBadPlay
  <2>2. /\ method \in Methods /\ player = "exists" /\ stale' = TRUE
        /\ UNCHANGED <<present, sent, player, watched>>
    BY <1>12, <2>1 DEF HandleBadPlay, Methods, client, object
  <2>3. CASE invocation # NoCall
    BY <2>1, <2>2, <2>3, AnsweredStep
  <2>4. CASE invocation = NoCall
    BY <2>1, <2>2, <2>4, PlayAcceptedStep
  <2> QED
    BY <2>3, <2>4
<1>13. CASE HandlePlayWithoutFd \/ HelperDies
  BY <1>13, HelperEndsStep DEF HandlePlayWithoutFd, HelperDies
<1> QED
  BY <1>1, <1>2, <1>3, <1>4, <1>5, <1>6, <1>7, <1>8, <1>9, <1>10, <1>11, <1>12, <1>13
     DEF Next, HandleMessage

THEOREM Invariance == Spec => []IInv
BY InitIInv, Inductive, PTL DEF Spec

(* Types, for every number of calls. *)
THEOREM TypeCorrect == Spec => []TypeOK
<1>1. IInv => TypeOK
  BY DEF IInv, Types, AnswerInv, TypeOK
<1> QED
  BY <1>1, Invariance, PTL

(* The evdev player plays exactly while the helper has a Play to answer     *)
(* when it is over; every call that waits no more is answered, and exactly  *)
(* once as long as the helper has not gone on with a Play whose file        *)
(* descriptors were wrong.                                                  *)
THEOREM AnswersAlwaysMatchPlayback == Spec => []AnswersMatchPlayback
<1>1. ASSUME IInv, NEW s \in Serials
      PROVE  LET done == s <= sent /\ ~UnderWay(s)
             IN  /\ done => answers[s] # <<>>
                 /\ ~stale => Len(answers[s]) = IF done THEN 1 ELSE 0
  <2>1. UnderWay(s) <=> s \in Waiting \/ BeingChecked(s)
    <3>1. DOMAIN inbox = 1..Len(inbox)
      BY <1>1 DEF IInv, Types
    <3> QED
      BY <3>1 DEF UnderWay, Queued, SerialsOf, Waiting, BeingChecked
  <2>2. s <= sent /\ ~UnderWay(s) => answers[s] # <<>>
    BY <1>1, <2>1 DEF IInv, AnswerInv
  <2>3. ~stale /\ ~(s <= sent /\ ~UnderWay(s)) => answers[s] = <<>>
    BY <1>1, <2>1 DEF IInv, AnswerInv, StageInv, BeingChecked
  <2>4. answers[s] \in Seq({"ok", "error"})
    BY <1>1 DEF IInv, Types
  <2>5. /\ Len(answers[s]) \in Nat /\ (answers[s] # <<>> => Len(answers[s]) > 0)
        /\ answers[s] = <<>> => Len(answers[s]) = 0
    BY <2>4
  <2>6. ~stale => Len(answers[s]) \in {0, 1}
    BY <1>1 DEF IInv, AnswerInv
  <2>7. ~stale /\ s <= sent /\ ~UnderWay(s) => Len(answers[s]) = 1
    BY <2>2, <2>5, <2>6
  <2> QED
    BY <2>2, <2>3, <2>5, <2>7
<1>2. IInv => AnswersMatchPlayback
  BY <1>1 DEF AnswersMatchPlayback, OneAnswerEach, IInv, PlayInv
<1> QED
  BY <1>2, Invariance, PTL

(* Nothing is replayed for a client that has left, but for the time that    *)
(* the signal that says so takes.                                           *)
THEOREM NobodyEverPlaysAlone == Spec => []NobodyPlaysAlone
<1>1. ASSUME IInv, playing, ~present PROVE Contains(inbox, NameOwnerChanged)
  <2>1. invocation # NoCall /\ player = "exists"
    BY <1>1 DEF IInv, PlayInv, PlayingIsInvoked
  <2>2. invocation \in 2..sent /\ sent \in Nat
    BY <1>1, <2>1 DEF IInv, Types, PlayInv
  <2>3. sent # 1
    BY <2>2
  <2>4. watched
    BY <1>1, <2>1, <2>3 DEF IInv, WatchInv
  <2>5. \E i \in 1..Len(inbox) : inbox[i] = NameOwnerChanged
    BY <1>1, <2>4 DEF IInv, WatchInv
  <2> QED
    BY <2>5 DEF Contains
<1>2. IInv => NobodyPlaysAlone
  BY <1>1 DEF NobodyPlaysAlone
<1> QED
  BY <1>2, Invariance, PTL
===============================================================================
