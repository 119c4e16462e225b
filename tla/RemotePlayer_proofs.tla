------------------------- MODULE RemotePlayer_proofs -------------------------
(***************************************************************************)
(* Theorems about RemotePlayer, for any number of calls, whatever is late,  *)
(* given up or lost with the helper: there is one Play for each file that  *)
(* was started, a Stop that is answered has silenced the helper, and the   *)
(* client sees an event player.                                            *)
(*                                                                         *)
(* The argument is that a Play is at one place at a time: on its way to the *)
(* helper, being played, or answered -- and that its file is started as     *)
(* long as it is at one of them.                                           *)
(***************************************************************************)
EXTENDS RemotePlayer, FiniteSetTheorems, TLAPS

(* A Play, or its answer, is in a queue; and it is the only one there.      *)
PlayIn(queue) == \E i \in 1..Len(queue) : IsPlay(queue[i])
OnePlay(queue) ==
  \A i, j \in 1..Len(queue) : IsPlay(queue[i]) /\ IsPlay(queue[j]) => i = j

PlaceInv ==
  /\ OnePlay(to_helper) /\ OnePlay(to_client)
  /\ started <=> PlayIn(to_helper) \/ PlayIn(to_client) \/ invocation # 0
  /\ ~(PlayIn(to_helper) /\ PlayIn(to_client))
  /\ invocation # 0 => ~PlayIn(to_helper) /\ ~PlayIn(to_client)
  /\ InvocationMatchesInput

(* The calls that are under way were made one after the other, and after    *)
(* the Play that is played.                                                 *)
OrderInv ==
  /\ invocation <= serial
  /\ \A i \in 1..Len(to_helper) :
       invocation < to_helper[i].serial /\ to_helper[i].serial <= serial
  /\ \A i, j \in 1..Len(to_helper) : i < j => to_helper[i].serial < to_helper[j].serial

(* A file is pending only before the player is ready and only until it is   *)
(* stopped.  "finished" has been emitted for all files but the current one, *)
(* and each has had its Play but for one that is pending or was given up.   *)
CountInv ==
  /\ pending => ~started /\ ~stopped /\ setup # "ready"
  /\ accepted = finished + (IF stopped \/ pending \/ started THEN 1 ELSE 0)
  /\ accepted <= serial + (IF started \/ ~(stopped \/ pending) THEN 0 ELSE 1)

IInv == TypeOK /\ PlaceInv /\ OrderInv /\ CountInv

-----------------------------------------------------------------------------
(* What the operations on queues do to the Plays in them *)

LEMMA AppendFacts ==
  ASSUME NEW S, NEW q \in Seq(S), NEW m \in S
  PROVE  /\ Append(q, m) \in Seq(S)
         /\ Len(q) \in Nat /\ Len(Append(q, m)) = Len(q) + 1
         /\ \A i \in 1..Len(q) : Append(q, m)[i] = q[i]
         /\ Append(q, m)[Len(q) + 1] = m
         /\ \A i \in 1..Len(Append(q, m)) : i \in 1..Len(q) \/ i = Len(q) + 1
OBVIOUS

LEMMA AppendPlays ==
  ASSUME NEW S, NEW q \in Seq(S), NEW m \in S
  PROVE  /\ PlayIn(Append(q, m)) <=> PlayIn(q) \/ IsPlay(m)
         /\ OnePlay(q) /\ ~(PlayIn(q) /\ IsPlay(m)) => OnePlay(Append(q, m))
<1> DEFINE a == Append(q, m)
<1>1. /\ Len(q) \in Nat /\ Len(a) = Len(q) + 1
      /\ \A i \in 1..Len(q) : a[i] = q[i]
      /\ a[Len(q) + 1] = m
      /\ \A i \in 1..Len(a) : i \in 1..Len(q) \/ i = Len(q) + 1
      /\ Len(q) + 1 \in 1..Len(a)
      /\ \A i \in 1..Len(q) : i \in 1..Len(a)
  BY AppendFacts
<1> HIDE DEF a
<1>2. PlayIn(a) <=> PlayIn(q) \/ IsPlay(m)
  BY <1>1 DEF PlayIn
<1>3. ASSUME OnePlay(q), ~(PlayIn(q) /\ IsPlay(m)),
             NEW i \in 1..Len(a), NEW j \in 1..Len(a), IsPlay(a[i]), IsPlay(a[j])
      PROVE  i = j
  <2>1. CASE i \in 1..Len(q) /\ j \in 1..Len(q)
    BY <1>1, <1>3, <2>1 DEF OnePlay
  <2>2. CASE i = Len(q) + 1 /\ j = Len(q) + 1
    BY <2>2
  <2>3. CASE i = Len(q) + 1 /\ j \in 1..Len(q)
    BY <1>1, <1>3, <2>3 DEF PlayIn
  <2>4. CASE i \in 1..Len(q) /\ j = Len(q) + 1
    BY <1>1, <1>3, <2>4 DEF PlayIn
  <2> QED
    BY <1>1, <2>1, <2>2, <2>3, <2>4
<1> QED
  BY <1>2, <1>3 DEF OnePlay, a

LEMMA ConcatPlays ==
  ASSUME NEW S, NEW q \in Seq(S), NEW r \in Seq(S)
  PROVE  /\ q \o r \in Seq(S)
         /\ PlayIn(q \o r) <=> PlayIn(q) \/ PlayIn(r)
         /\ OnePlay(q) /\ OnePlay(r) /\ ~(PlayIn(q) /\ PlayIn(r)) => OnePlay(q \o r)
<1> DEFINE c == q \o r
<1>1. /\ c \in Seq(S)
      /\ Len(q) \in Nat /\ Len(r) \in Nat /\ Len(c) = Len(q) + Len(r)
      /\ \A i \in 1..Len(q) : c[i] = q[i]
      /\ \A i \in (Len(q) + 1)..(Len(q) + Len(r)) : c[i] = r[i - Len(q)]
  OBVIOUS
<1> HIDE DEF c
<1>2. \A i \in 1..Len(c) :
        \/ i \in 1..Len(q) /\ c[i] = q[i]
        \/ ~(i \in 1..Len(q)) /\ i - Len(q) \in 1..Len(r) /\ c[i] = r[i - Len(q)]
  BY <1>1
<1>3. \A i \in 1..Len(q) : i \in 1..Len(c) /\ c[i] = q[i]
  BY <1>1
<1>4. \A i \in 1..Len(r) : i + Len(q) \in 1..Len(c) /\ c[i + Len(q)] = r[i]
  <2> SUFFICES ASSUME NEW i \in 1..Len(r)
               PROVE  i + Len(q) \in 1..Len(c) /\ c[i + Len(q)] = r[i]
    OBVIOUS
  <2>1. i + Len(q) \in (Len(q) + 1)..(Len(q) + Len(r)) /\ (i + Len(q)) - Len(q) = i
    BY <1>1
  <2>2. c[i + Len(q)] = r[(i + Len(q)) - Len(q)]
    BY <1>1, <2>1
  <2>3. (i + Len(q)) - Len(q) = i
    BY <1>1
  <2>4. c[i + Len(q)] = r[i]
    BY <2>2, <2>3, Zenon
  <2>5. i + Len(q) \in 1..Len(c)
    BY <1>1
  <2> QED
    BY <2>4, <2>5
<1>5. PlayIn(c) <=> PlayIn(q) \/ PlayIn(r)
  BY <1>2, <1>3, <1>4 DEF PlayIn
<1>6. ASSUME OnePlay(q), OnePlay(r), ~(PlayIn(q) /\ PlayIn(r)),
             NEW i \in 1..Len(c), NEW j \in 1..Len(c), IsPlay(c[i]), IsPlay(c[j])
      PROVE  i = j
  <2>1. CASE i \in 1..Len(q) /\ j \in 1..Len(q)
    BY <1>3, <1>6, <2>1 DEF OnePlay
  <2>2. CASE ~(i \in 1..Len(q)) /\ ~(j \in 1..Len(q))
    <3>1. i - Len(q) = j - Len(q)
      BY <1>2, <1>6, <2>2 DEF OnePlay
    <3> QED
      BY <1>1, <3>1
  <2>3. CASE i \in 1..Len(q) /\ ~(j \in 1..Len(q))
    BY <1>2, <1>6, <2>3 DEF PlayIn
  <2>4. CASE ~(i \in 1..Len(q)) /\ j \in 1..Len(q)
    BY <1>2, <1>6, <2>4 DEF PlayIn
  <2> QED
    BY <2>1, <2>2, <2>3, <2>4
<1> QED
  BY <1>1, <1>5, <1>6 DEF OnePlay, c

LEMMA TailPlays ==
  ASSUME NEW S, NEW q \in Seq(S), q # <<>>
  PROVE  /\ Head(q) = q[1] /\ Head(q) \in S /\ 1 \in 1..Len(q)
         /\ Tail(q) \in Seq(S)
         /\ \A i \in 1..Len(Tail(q)) : i + 1 \in 1..Len(q) /\ Tail(q)[i] = q[i + 1]
         /\ PlayIn(q) <=> IsPlay(Head(q)) \/ PlayIn(Tail(q))
         /\ OnePlay(q) => OnePlay(Tail(q)) /\ ~(IsPlay(Head(q)) /\ PlayIn(Tail(q)))
<1> DEFINE t == Tail(q)
<1>1. /\ Head(q) = q[1] /\ Head(q) \in S
      /\ Len(q) \in Nat /\ Len(q) >= 1
      /\ t \in Seq(S) /\ Len(t) = Len(q) - 1
      /\ \A i \in 1..(Len(q) - 1) : t[i] = q[i + 1]
  OBVIOUS
<1> HIDE DEF t
<1>2. \A i \in 1..Len(t) : i + 1 \in 1..Len(q) /\ i + 1 # 1 /\ t[i] = q[i + 1]
  BY <1>1
<1>3. \A i \in 1..Len(q) : i # 1 => i - 1 \in 1..Len(t) /\ t[i - 1] = q[i]
  <2> SUFFICES ASSUME NEW i \in 1..Len(q), i # 1
               PROVE  i - 1 \in 1..Len(t) /\ t[i - 1] = q[i]
    OBVIOUS
  <2>1. i - 1 \in 1..(Len(q) - 1) /\ (i - 1) + 1 = i
    BY <1>1
  <2> QED
    BY <1>1, <2>1
<1>4. 1 \in 1..Len(q)
  BY <1>1
<1>5. PlayIn(q) <=> IsPlay(Head(q)) \/ PlayIn(t)
  BY <1>1, <1>2, <1>3, <1>4 DEF PlayIn
<1>6. OnePlay(q) => ~(IsPlay(Head(q)) /\ PlayIn(t))
  BY <1>1, <1>2, <1>4 DEF PlayIn, OnePlay
<1>7. OnePlay(q) => OnePlay(t)
  <2> SUFFICES ASSUME OnePlay(q), NEW i \in 1..Len(t), NEW j \in 1..Len(t),
                      IsPlay(t[i]), IsPlay(t[j])
               PROVE  i = j
    BY DEF OnePlay
  <2>1. i + 1 = j + 1
    BY <1>2 DEF OnePlay
  <2> QED
    BY <2>1
<1> QED
  BY <1>1, <1>2, <1>4, <1>5, <1>6, <1>7 DEF t

(* The answer to a Stop is taken out of the middle of a queue.              *)
LEMMA RemovedPlays ==
  ASSUME NEW S, NEW q \in Seq(S), NEW i \in 1..Len(q), ~IsPlay(q[i]),
         NEW r, r = [j \in 1..(Len(q) - 1) |-> q[IF j < i THEN j ELSE j + 1]]
  PROVE  /\ r \in Seq(S)
         /\ PlayIn(r) <=> PlayIn(q)
         /\ OnePlay(q) => OnePlay(r)
<1> DEFINE old(j) == IF j < i THEN j ELSE j + 1
<1>1. Len(q) \in Nat /\ Len(q) >= 1 /\ \A k \in 1..Len(q) : q[k] \in S
  OBVIOUS
<1>2. \A j \in 1..(Len(q) - 1) : old(j) \in 1..Len(q) /\ old(j) # i /\ r[j] = q[old(j)]
  BY <1>1
<1>3. r \in Seq(S) /\ Len(r) = Len(q) - 1
  <2>1. r \in [1..(Len(q) - 1) -> S]
    BY <1>1
  <2> QED
    BY <1>1, <2>1
<1>4. ASSUME NEW k \in 1..Len(q), k # i
      PROVE  \E j \in 1..(Len(q) - 1) : old(j) = k
  <2>1. CASE k < i
    BY <1>1, <2>1
  <2>2. CASE k > i
    <3>1. k - 1 \in 1..(Len(q) - 1) /\ ~(k - 1 < i) /\ (k - 1) + 1 = k
      BY <1>1, <2>2
    <3>2. old(k - 1) = k
      BY <3>1
    <3> QED
      BY <3>1, <3>2
  <2> QED
    BY <1>4, <2>1, <2>2
<1>5. \A j, k \in 1..(Len(q) - 1) : old(j) = old(k) => j = k
  BY <1>1
<1> HIDE DEF old
<1>6. PlayIn(r) <=> PlayIn(q)
  <2>1. PlayIn(r) => PlayIn(q)
    BY <1>2, <1>3 DEF PlayIn
  <2>2. ASSUME NEW k \in 1..Len(q), IsPlay(q[k]) PROVE PlayIn(r)
    <3>1. PICK j \in 1..(Len(q) - 1) : old(j) = k
      BY <1>4, <2>2
    <3>2. r[j] = q[k] /\ j \in 1..Len(r)
      BY <1>2, <1>3, <3>1
    <3> QED
      BY <2>2, <3>2 DEF PlayIn
  <2> QED
    BY <2>1, <2>2 DEF PlayIn
<1>7. OnePlay(q) => OnePlay(r)
  <2> SUFFICES ASSUME OnePlay(q), NEW j \in 1..Len(r), NEW k \in 1..Len(r),
                      IsPlay(r[j]), IsPlay(r[k])
               PROVE  j = k
    BY DEF OnePlay
  <2>1. old(j) = old(k)
    BY <1>2, <1>3 DEF OnePlay
  <2> QED
    BY <1>3, <1>5, <2>1
<1> QED
  BY <1>3, <1>6, <1>7

-----------------------------------------------------------------------------
LEMMA CallTypes ==
  \A m \in Call \cup Reply : m.serial \in Nat /\ m.serial <= MaxSerial
BY MaxSerialAssumption DEF Call, Reply, Serials

LEMMA InitIInv == Init => IInv
<1> SUFFICES ASSUME Init PROVE IInv
  OBVIOUS
<1>1. 0 \in 0..MaxSerial /\ MaxSerial \in Nat
  BY MaxSerialAssumption
<1>2. to_helper \in Seq(Call) /\ to_client \in Seq(Reply)
  BY DEF Init
<1>3. 1..Len(to_helper) = {} /\ 1..Len(to_client) = {}
  BY DEF Init
<1>4. TypeOK
  BY <1>1, <1>2 DEF Init, TypeOK, Setups
<1>5. PlaceInv
  BY <1>3 DEF Init, PlaceInv, OnePlay, PlayIn, InvocationMatchesInput
<1>6. OrderInv
  BY <1>3 DEF Init, OrderInv
<1>7. CountInv
  BY DEF Init, CountInv
<1> QED
  BY <1>4, <1>5, <1>6, <1>7 DEF IInv

(* A call is sent: it is the youngest. *)
LEMMA SentInOrder ==
  ASSUME TypeOK, OrderInv, NEW m \in Call, m.serial = serial + 1,
         to_helper' = Append(to_helper, m), serial' = serial + 1,
         UNCHANGED invocation
  PROVE  OrderInv'
<1>1. /\ to_helper \in Seq(Call) /\ serial \in Nat /\ invocation \in Nat
      /\ MaxSerial \in Nat
  BY MaxSerialAssumption DEF TypeOK
<1>2. /\ Len(to_helper) \in Nat /\ Len(to_helper') = Len(to_helper) + 1
      /\ \A i \in 1..Len(to_helper) : to_helper'[i] = to_helper[i]
      /\ to_helper'[Len(to_helper) + 1] = m
      /\ \A i \in 1..Len(to_helper') : i \in 1..Len(to_helper) \/ i = Len(to_helper) + 1
  BY <1>1, AppendFacts
<1>3. \A i \in 1..Len(to_helper) : to_helper[i].serial \in Nat
  BY <1>1, CallTypes
<1>4. \A i \in 1..Len(to_helper') :
        invocation < to_helper'[i].serial /\ to_helper'[i].serial <= serial + 1
  BY <1>1, <1>2, <1>3 DEF OrderInv
<1>5. ASSUME NEW i \in 1..Len(to_helper'), NEW j \in 1..Len(to_helper'), i < j
      PROVE  to_helper'[i].serial < to_helper'[j].serial
  <2>1. i \in 1..Len(to_helper)
    BY <1>2, <1>5
  <2>2. CASE j \in 1..Len(to_helper)
    BY <1>2, <1>5, <2>1, <2>2 DEF OrderInv
  <2>3. CASE j = Len(to_helper) + 1
    BY <1>1, <1>2, <1>3, <2>1, <2>3 DEF OrderInv
  <2> QED
    BY <1>2, <2>2, <2>3
<1>6. invocation <= serial + 1
  BY <1>1 DEF OrderInv
<1> QED
  BY <1>4, <1>5, <1>6 DEF OrderInv

(* A call is handled: it may be the Play that is played from now on.        *)
LEMMA HandledInOrder ==
  ASSUME TypeOK, OrderInv, to_helper # <<>>, to_helper' = Tail(to_helper), UNCHANGED serial,
         invocation' \in {0, invocation, Head(to_helper).serial}
  PROVE  OrderInv'
<1>1. /\ to_helper \in Seq(Call) /\ serial \in Nat /\ invocation \in Nat
  BY DEF TypeOK
<1>2. /\ Head(to_helper) = to_helper[1] /\ 1 \in 1..Len(to_helper)
      /\ to_helper' \in Seq(Call)
      /\ \A i \in 1..Len(to_helper') : i + 1 \in 1..Len(to_helper) /\ to_helper'[i] = to_helper[i + 1]
  BY <1>1, TailPlays
<1>3. \A i \in 1..Len(to_helper) : to_helper[i].serial \in Nat
  BY <1>1, CallTypes
<1>4. ASSUME NEW i \in 1..Len(to_helper')
      PROVE  invocation' < to_helper'[i].serial /\ to_helper'[i].serial <= serial
  <2>1. 1 < i + 1
    OBVIOUS
  <2>2. to_helper[1].serial < to_helper[i + 1].serial
    BY <1>2, <2>1 DEF OrderInv
  <2>3. invocation < to_helper[i + 1].serial /\ to_helper[i + 1].serial <= serial
    BY <1>2 DEF OrderInv
  <2>4. 0 < to_helper[i + 1].serial
    BY <1>1, <1>2, <1>3, <2>3
  <2> QED
    BY <1>2, <2>2, <2>3, <2>4
<1>5. ASSUME NEW i \in 1..Len(to_helper'), NEW j \in 1..Len(to_helper'), i < j
      PROVE  to_helper'[i].serial < to_helper'[j].serial
  <2>1. i + 1 < j + 1
    BY <1>5
  <2> QED
    BY <1>2, <2>1 DEF OrderInv
<1>6. invocation' <= serial
  BY <1>1, <1>2 DEF OrderInv
<1> QED
  BY <1>4, <1>5, <1>6 DEF OrderInv

(* A Play is sent while none is anywhere. *)
LEMMA SendPlayStep ==
  ASSUME TypeOK, OrderInv, InvocationMatchesInput, SendPlay,
         UNCHANGED <<invocation, input>>, invocation = 0,
         ~PlayIn(to_helper), OnePlay(to_helper), ~PlayIn(to_client'), OnePlay(to_client')
  PROVE  PlaceInv' /\ OrderInv' /\ to_helper' \in Seq(Call) /\ serial' \in 0..MaxSerial
<1> DEFINE m == [type |-> "Play", serial |-> serial']
<1>1. /\ serial < MaxSerial /\ serial' = serial + 1 /\ started' = TRUE
      /\ to_helper' = Append(to_helper, m)
  BY DEF SendPlay
<1>2. /\ to_helper \in Seq(Call) /\ serial \in Nat /\ MaxSerial \in Nat
  BY MaxSerialAssumption DEF TypeOK
<1>3. m \in Call /\ m.serial = serial + 1 /\ IsPlay(m)
  BY <1>1, <1>2 DEF Call, Serials, IsPlay
<1> HIDE DEF m
<1>4. to_helper' \in Seq(Call)
  BY <1>1, <1>2, <1>3, AppendFacts
<1>5. PlayIn(to_helper') /\ OnePlay(to_helper')
  BY <1>1, <1>2, <1>3, AppendPlays
<1>6. PlaceInv'
  BY <1>1, <1>5 DEF PlaceInv, InvocationMatchesInput
<1>7. OrderInv'
  BY <1>1, <1>3, SentInOrder
<1> QED
  BY <1>1, <1>2, <1>4, <1>6, <1>7

-----------------------------------------------------------------------------
(* The client's steps *)
LEMMA SetupSteps ==
  ASSUME IInv, SetupStep \/ StopTimesOut \/ UNCHANGED vars
  PROVE  IInv'
<1>1. /\ UNCHANGED <<pending, started, serial, stopped, accepted, finished,
                     to_helper, to_client, helper, invocation, input>>
      /\ setup' \in Setups
      /\ setup' = "ready" => setup = "ready"
      /\ waiting_stop' \in 0..MaxSerial
  <2>1. 0 \in 0..MaxSerial
    BY MaxSerialAssumption
  <2> QED
    BY <2>1 DEF SetupStep, StopTimesOut, vars, client, server, Setups, IInv, TypeOK
<1>2. TypeOK'
  BY <1>1 DEF IInv, TypeOK
<1>3. PlaceInv' /\ OrderInv' /\ CountInv'
  BY <1>1 DEF IInv, PlaceInv, PlayIn, OnePlay, InvocationMatchesInput, OrderInv, CountInv
<1> QED
  BY <1>2, <1>3 DEF IInv

LEMMA CountTypes ==
  ASSUME TypeOK
  PROVE  /\ {accepted, finished, serial, MaxSerial} \subseteq Nat
         /\ accepted <= MaxSerial /\ finished <= MaxSerial /\ serial <= MaxSerial
BY MaxSerialAssumption DEF TypeOK

LEMMA PlayStarted ==
  ASSUME IInv, ~started
  PROVE  /\ invocation = 0 /\ ~PlayIn(to_helper) /\ ~PlayIn(to_client)
         /\ OnePlay(to_helper) /\ OnePlay(to_client)
BY DEF IInv, PlaceInv

LEMMA PlayerProxyReadyStep ==
  ASSUME IInv, PlayerProxyReady
  PROVE  IInv'
<1>1. /\ UNCHANGED <<waiting_stop, stopped, accepted, finished, to_client,
                     helper, invocation, input>>
      /\ setup' = "ready" /\ setup' \in Setups
  BY DEF PlayerProxyReady, server, Setups
<1>2. CASE pending /\ SendPlay
  <2>1. pending' = FALSE /\ started' = TRUE /\ serial' = serial + 1
    BY <1>2 DEF SendPlay
  <2>2. ~started /\ ~stopped
    BY <1>2 DEF IInv, CountInv
  <2>3. PlaceInv' /\ OrderInv' /\ to_helper' \in Seq(Call) /\ serial' \in 0..MaxSerial
    BY <1>1, <1>2, <2>2, PlayStarted, SendPlayStep DEF IInv, PlaceInv
  <2>4. TypeOK'
    BY <1>1, <2>1, <2>3 DEF IInv, TypeOK
  <2>5. CountInv'
    BY <1>1, <1>2, <2>1, <2>2, CountTypes DEF IInv, CountInv
  <2> QED
    BY <2>3, <2>4, <2>5 DEF IInv
<1>3. CASE ~pending /\ UNCHANGED <<pending, started, serial, to_helper>>
  <2>1. TypeOK'
    BY <1>1, <1>3 DEF IInv, TypeOK
  <2>2. PlaceInv' /\ OrderInv' /\ CountInv'
    BY <1>1, <1>3
       DEF IInv, PlaceInv, PlayIn, OnePlay, InvocationMatchesInput, OrderInv, CountInv
  <2> QED
    BY <2>1, <2>2 DEF IInv
<1> QED
  BY <1>2, <1>3 DEF PlayerProxyReady

LEMMA PlayFdStep ==
  ASSUME IInv, PlayFd
  PROVE  IInv'
<1>1. /\ UNCHANGED <<setup, waiting_stop, stopped, finished, to_client,
                     helper, invocation, input>>
      /\ ~pending /\ ~started /\ ~stopped
      /\ serial < MaxSerial
      /\ accepted' = accepted + 1
  BY DEF PlayFd, server
<1>2. accepted = finished /\ accepted <= serial
  BY <1>1, CountTypes DEF IInv, CountInv
<1>3. accepted' \in 0..MaxSerial
  BY <1>1, <1>2, CountTypes DEF IInv
<1>4. CASE SendPlay
  <2>1. pending' = FALSE /\ started' = TRUE /\ serial' = serial + 1
    BY <1>4 DEF SendPlay
  <2>2. PlaceInv' /\ OrderInv' /\ to_helper' \in Seq(Call) /\ serial' \in 0..MaxSerial
    BY <1>1, <1>4, PlayStarted, SendPlayStep DEF IInv, PlaceInv
  <2>3. TypeOK'
    BY <1>1, <1>3, <2>1, <2>2 DEF IInv, TypeOK
  <2>4. CountInv'
    BY <1>1, <1>2, <2>1, CountTypes DEF IInv, CountInv
  <2> QED
    BY <2>2, <2>3, <2>4 DEF IInv
<1>5. CASE setup # "ready" /\ pending' = TRUE /\ UNCHANGED <<started, serial, to_helper>>
  <2>1. TypeOK'
    BY <1>1, <1>3, <1>5 DEF IInv, TypeOK
  <2>2. PlaceInv' /\ OrderInv'
    BY <1>1, <1>5 DEF IInv, PlaceInv, PlayIn, OnePlay, InvocationMatchesInput, OrderInv
  <2>3. CountInv'
    BY <1>1, <1>2, <1>5, CountTypes DEF IInv, CountInv
  <2> QED
    BY <2>1, <2>2, <2>3 DEF IInv
<1> QED
  BY <1>4, <1>5 DEF PlayFd

LEMMA StopStep ==
  ASSUME IInv, Stop
  PROVE  IInv'
<1>1. /\ UNCHANGED <<setup, started, accepted, finished, to_client,
                     helper, invocation, input>>
      /\ pending \/ started
      /\ ~stopped /\ stopped' = TRUE
  BY DEF Stop, server
<1>2. CASE pending /\ pending' = FALSE /\ UNCHANGED <<serial, waiting_stop, to_helper>>
  <2>1. TypeOK'
    BY <1>1, <1>2 DEF IInv, TypeOK
  <2>2. PlaceInv' /\ OrderInv'
    BY <1>1, <1>2 DEF IInv, PlaceInv, PlayIn, OnePlay, InvocationMatchesInput, OrderInv
  <2>3. CountInv'
    BY <1>1, <1>2, CountTypes DEF IInv, CountInv
  <2> QED
    BY <2>1, <2>2, <2>3 DEF IInv
<1> DEFINE m == [type |-> "Stop", serial |-> serial']
<1>3. CASE /\ ~pending /\ serial < MaxSerial /\ serial' = serial + 1
           /\ to_helper' = Append(to_helper, m)
           /\ waiting_stop' = serial'
           /\ UNCHANGED pending
  <2>1. /\ to_helper \in Seq(Call) /\ serial \in Nat /\ MaxSerial \in Nat
    BY MaxSerialAssumption DEF IInv, TypeOK
  <2>2. m \in Call /\ m.serial = serial + 1 /\ ~IsPlay(m)
    BY <1>3, <2>1 DEF Call, Serials, IsPlay
  <2> HIDE DEF m
  <2>3. serial' \in 0..MaxSerial /\ to_helper' \in Seq(Call)
    BY <1>3, <2>1, <2>2, AppendFacts
  <2>4. (PlayIn(to_helper') <=> PlayIn(to_helper)) /\ OnePlay(to_helper')
    BY <1>3, <2>1, <2>2, AppendPlays DEF IInv, PlaceInv
  <2>5. TypeOK'
    BY <1>1, <1>3, <2>3 DEF IInv, TypeOK
  <2>6. PlaceInv'
    BY <1>1, <2>4 DEF IInv, PlaceInv, InvocationMatchesInput
  <2>7. OrderInv'
    BY <1>1, <1>3, <2>2, SentInOrder DEF IInv
  <2>8. CountInv'
    BY <1>1, <1>3, CountTypes DEF IInv, CountInv
  <2> QED
    BY <2>5, <2>6, <2>7, <2>8 DEF IInv
<1> QED
  BY <1>2, <1>3 DEF Stop

(* An answer to a Stop is taken or dropped. *)
LEMMA StopReplySteps ==
  ASSUME IInv, StopReturns \/ DropLateStopReply
  PROVE  IInv'
<1>1. /\ UNCHANGED <<setup, pending, started, serial, stopped, accepted, finished,
                     to_helper, helper, invocation, input>>
      /\ waiting_stop' \in 0..MaxSerial
  <2>1. 0 \in 0..MaxSerial
    BY MaxSerialAssumption
  <2> QED
    BY <2>1 DEF StopReturns, DropLateStopReply, client, server, IInv, TypeOK
<1>2. to_client \in Seq(Reply) /\ OnePlay(to_client)
  BY DEF IInv, TypeOK, PlaceInv
<1>3. /\ to_client' \in Seq(Reply)
      /\ PlayIn(to_client') <=> PlayIn(to_client)
      /\ OnePlay(to_client')
  <2>1. CASE StopReturns
    <3>1. PICK i \in DOMAIN to_client :
            /\ to_client[i].type = "Stop"
            /\ to_client' = [j \in 1..(Len(to_client) - 1) |->
                               to_client[IF j < i THEN j ELSE j + 1]]
      BY <2>1 DEF StopReturns
    <3>2. i \in 1..Len(to_client) /\ ~IsPlay(to_client[i])
      BY <1>2, <3>1 DEF IsPlay
    <3> QED
      BY <1>2, <3>1, <3>2, RemovedPlays
  <2>2. CASE DropLateStopReply
    <3>1. /\ to_client # <<>> /\ to_client' = Tail(to_client)
          /\ ~IsPlay(Head(to_client))
      BY <2>2 DEF DropLateStopReply, IsPlay
    <3> QED
      BY <1>2, <3>1, TailPlays
  <2> QED
    BY <2>1, <2>2
<1>4. TypeOK'
  BY <1>1, <1>3 DEF IInv, TypeOK
<1>5. PlaceInv'
  <2>1. PlayIn(to_helper') = PlayIn(to_helper) /\ OnePlay(to_helper')
    BY <1>1 DEF IInv, PlaceInv
  <2> QED
    BY <1>1, <1>3, <2>1 DEF IInv, PlaceInv, InvocationMatchesInput
<1>6. OrderInv' /\ CountInv'
  BY <1>1 DEF IInv, OrderInv, CountInv
<1> QED
  BY <1>4, <1>5, <1>6 DEF IInv

(* The answer to the Play: its file is over, and the next may be started.   *)
LEMMA OnPlayReplyStep ==
  ASSUME IInv, OnPlayReply
  PROVE  IInv'
<1>1. /\ UNCHANGED <<setup, waiting_stop, helper, invocation, input>>
      /\ to_client # <<>> /\ IsPlay(Head(to_client))
      /\ to_client' = Tail(to_client)
      /\ stopped' = FALSE
      /\ finished' = finished + 1
  BY DEF OnPlayReply, EmitFinished, IsPlay, server
<1>2. to_client \in Seq(Reply) /\ OnePlay(to_client)
  BY DEF IInv, TypeOK, PlaceInv
<1>3. /\ PlayIn(to_client) /\ ~PlayIn(to_client')
      /\ to_client' \in Seq(Reply) /\ OnePlay(to_client')
  BY <1>1, <1>2, TailPlays
<1>4. /\ started /\ invocation = 0 /\ ~PlayIn(to_helper) /\ OnePlay(to_helper)
      /\ InvocationMatchesInput
  BY <1>3 DEF IInv, PlaceInv
<1>5. ~pending
  BY <1>4 DEF IInv, CountInv
<1>6. accepted = finished + 1 /\ accepted <= serial
  BY <1>4, <1>5, CountTypes DEF IInv, CountInv
<1>7. finished' \in 0..MaxSerial
  BY <1>1, <1>6, CountTypes DEF IInv
<1>8. CASE started' = FALSE /\ UNCHANGED <<pending, serial, to_helper, accepted>>
  <2>1. TypeOK'
    BY <1>1, <1>3, <1>7, <1>8 DEF IInv, TypeOK
  <2>2. PlaceInv'
    BY <1>1, <1>3, <1>4, <1>8 DEF PlaceInv, InvocationMatchesInput
  <2>3. OrderInv'
    BY <1>1, <1>8 DEF IInv, OrderInv
  <2>4. CountInv'
    BY <1>1, <1>5, <1>6, <1>8, CountTypes DEF IInv, CountInv
  <2> QED
    BY <2>1, <2>2, <2>3, <2>4 DEF IInv
<1>9. CASE SendPlay /\ accepted' = accepted + 1
  <2>1. pending' = FALSE /\ started' = TRUE /\ serial' = serial + 1
    BY <1>9 DEF SendPlay
  <2>2. PlaceInv' /\ OrderInv' /\ to_helper' \in Seq(Call) /\ serial' \in 0..MaxSerial
    BY <1>1, <1>3, <1>4, <1>9, SendPlayStep DEF IInv
  <2>3. accepted' \in 0..MaxSerial
    BY <1>6, <1>9, <2>1, <2>2, CountTypes DEF IInv
  <2>4. TypeOK'
    BY <1>1, <1>3, <1>7, <2>1, <2>2, <2>3 DEF IInv, TypeOK
  <2>5. CountInv'
    BY <1>1, <1>6, <1>9, <2>1, CountTypes DEF IInv, CountInv
  <2> QED
    BY <2>2, <2>4, <2>5 DEF IInv
<1> QED
  BY <1>8, <1>9 DEF OnPlayReply, EmitFinished

-----------------------------------------------------------------------------
(* The helper's steps *)
LEMMA AnswerTypes ==
  /\ \A call \in Call, ok \in BOOLEAN :
       /\ Answer(call, ok) \in Reply
       /\ IsPlay(Answer(call, ok)) <=> IsPlay(call)
  /\ \A n \in Serials, ok \in BOOLEAN :
       PlayAnswer(n, ok) \in Reply /\ IsPlay(PlayAnswer(n, ok))
BY DEF Answer, PlayAnswer, Call, Reply, IsPlay

LEMMA InvocationType ==
  ASSUME TypeOK, invocation # 0
  PROVE  invocation \in Serials
BY MaxSerialAssumption DEF TypeOK, Serials

(* What the helper does not see stays as it is. *)
LEMMA ClientKept ==
  ASSUME IInv, UNCHANGED client,
         to_helper' \in Seq(Call), to_client' \in Seq(Reply),
         helper' \in {"serving", "restarted"}, invocation' \in 0..MaxSerial, input' \in BOOLEAN,
         PlaceInv', OrderInv'
  PROVE  IInv'
<1>1. UNCHANGED <<setup, pending, started, serial, waiting_stop, stopped, accepted, finished>>
  BY DEF client
<1>2. TypeOK'
  BY <1>1 DEF IInv, TypeOK
<1>3. CountInv'
  BY <1>1 DEF IInv, CountInv
<1> QED
  BY <1>2, <1>3 DEF IInv

LEMMA EndOfFileStep ==
  ASSUME IInv, EndOfFile
  PROVE  IInv'
<1> DEFINE m == PlayAnswer(invocation, TRUE)
<1>1. /\ UNCHANGED client /\ UNCHANGED <<to_helper, helper>>
      /\ input /\ input' = FALSE /\ invocation' = 0
      /\ to_client' = Append(to_client, m)
  BY DEF EndOfFile
<1>2. /\ invocation # 0 /\ started /\ ~PlayIn(to_helper) /\ ~PlayIn(to_client)
      /\ OnePlay(to_helper) /\ OnePlay(to_client)
  BY <1>1 DEF IInv, PlaceInv, InvocationMatchesInput
<1>3. m \in Reply /\ IsPlay(m)
  BY <1>2, InvocationType, AnswerTypes DEF IInv
<1> HIDE DEF m
<1>4. /\ to_helper \in Seq(Call) /\ to_client \in Seq(Reply)
      /\ helper \in {"serving", "restarted"} /\ 0 \in 0..MaxSerial
  BY MaxSerialAssumption DEF IInv, TypeOK
<1>5. to_client' \in Seq(Reply) /\ PlayIn(to_client') /\ OnePlay(to_client')
  BY <1>1, <1>2, <1>3, <1>4, AppendFacts, AppendPlays
<1>6. PlaceInv'
  BY <1>1, <1>2, <1>5 DEF PlaceInv, InvocationMatchesInput, client
<1>7. OrderInv'
  <2>1. \A i \in 1..Len(to_helper) : to_helper[i].serial \in Nat
    BY <1>4, CallTypes
  <2>2. invocation \in Nat /\ serial \in Nat
    BY DEF IInv, TypeOK
  <2> QED
    BY <1>1, <2>1, <2>2 DEF IInv, OrderInv, client
<1> QED
  BY <1>1, <1>4, <1>5, <1>6, <1>7, ClientKept

LEMMA HandleCallStep ==
  ASSUME IInv, HandleCall
  PROVE  IInv'
<1> DEFINE call == Head(to_helper)
<1>1. /\ UNCHANGED client /\ UNCHANGED helper
      /\ to_helper # <<>> /\ to_helper' = Tail(to_helper)
  BY DEF HandleCall
<1>2. /\ to_helper \in Seq(Call) /\ to_client \in Seq(Reply)
      /\ helper \in {"serving", "restarted"} /\ 0 \in 0..MaxSerial
      /\ OnePlay(to_helper) /\ OnePlay(to_client)
      /\ invocation \in 0..MaxSerial /\ input \in BOOLEAN
  BY MaxSerialAssumption DEF IInv, TypeOK, PlaceInv
<1>3. /\ call \in Call
      /\ to_helper' \in Seq(Call)
      /\ PlayIn(to_helper) <=> IsPlay(call) \/ PlayIn(to_helper')
      /\ OnePlay(to_helper') /\ ~(IsPlay(call) /\ PlayIn(to_helper'))
  BY <1>1, <1>2, TailPlays
<1> HIDE DEF call
<1>4. UNCHANGED <<started, serial>>
  BY <1>1 DEF client
<1>5. ASSUME invocation' \in {0, invocation, call.serial} PROVE OrderInv'
  BY <1>1, <1>4, <1>5, HandledInOrder DEF IInv, call
(* The call is answered, a Play only by a helper that has no player. *)
<1>6. ASSUME NEW ok \in BOOLEAN, to_client' = Append(to_client, Answer(call, ok)),
             UNCHANGED <<invocation, input>>
      PROVE  IInv'
  <2>1. Answer(call, ok) \in Reply /\ (IsPlay(Answer(call, ok)) <=> IsPlay(call))
    BY <1>3, AnswerTypes
  <2>2. ~(PlayIn(to_client) /\ IsPlay(call))
    BY <1>3 DEF IInv, PlaceInv
  <2>3. /\ to_client' \in Seq(Reply) /\ OnePlay(to_client')
        /\ PlayIn(to_client') <=> PlayIn(to_client) \/ IsPlay(call)
    BY <1>2, <1>6, <2>1, <2>2, AppendFacts, AppendPlays
  <2>4. PlaceInv'
    BY <1>3, <1>4, <1>6, <2>3 DEF IInv, PlaceInv, InvocationMatchesInput
  <2>5. OrderInv'
    BY <1>5, <1>6
  <2> QED
    BY <1>1, <1>2, <1>3, <1>6, <2>3, <2>4, <2>5, ClientKept
(* The Play is played. *)
<1>7. ASSUME IsPlay(call), invocation = 0, input' = TRUE, invocation' = call.serial,
             UNCHANGED to_client
      PROVE  IInv'
  <2>1. call.serial \in 0..MaxSerial /\ call.serial # 0
    BY <1>3, MaxSerialAssumption DEF Call, Serials
  <2>2. ~PlayIn(to_client) /\ started /\ ~PlayIn(to_helper')
    BY <1>3, <1>7 DEF IInv, PlaceInv
  <2>3. PlaceInv'
    BY <1>2, <1>3, <1>4, <1>7, <2>1, <2>2 DEF PlaceInv, InvocationMatchesInput
  <2>4. OrderInv'
    BY <1>5, <1>7
  <2> QED
    BY <1>1, <1>2, <1>3, <1>7, <2>1, <2>3, <2>4, ClientKept
(* A Stop ends what is played. *)
<1>8. ASSUME ~IsPlay(call), invocation # 0, input' = FALSE, invocation' = 0,
             to_client' = to_client \o <<PlayAnswer(invocation, TRUE), Answer(call, TRUE)>>
      PROVE  IInv'
  <2> DEFINE p == PlayAnswer(invocation, TRUE)
             a == Answer(call, TRUE)
             r == <<p, a>>
  <2>1. p \in Reply /\ IsPlay(p) /\ a \in Reply /\ ~IsPlay(a)
    BY <1>3, <1>8, InvocationType, AnswerTypes DEF IInv
  <2> HIDE DEF p, a
  <2>2. r \in Seq(Reply) /\ Len(r) = 2 /\ r[1] = p /\ r[2] = a
    BY <2>1
  <2> HIDE DEF r
  <2>3. PlayIn(r) /\ OnePlay(r)
    BY <2>1, <2>2 DEF PlayIn, OnePlay
  <2>4. ~PlayIn(to_client) /\ ~PlayIn(to_helper) /\ started
    BY <1>8 DEF IInv, PlaceInv
  <2>5. to_client' \in Seq(Reply) /\ PlayIn(to_client') /\ OnePlay(to_client')
    <3>1. to_client' = to_client \o r
      BY <1>8 DEF r, p, a
    <3> QED
      BY <1>2, <2>2, <2>3, <2>4, <3>1, ConcatPlays
  <2>6. PlaceInv'
    BY <1>3, <1>4, <1>8, <2>4, <2>5 DEF PlaceInv, InvocationMatchesInput
  <2>7. OrderInv'
    BY <1>5, <1>8
  <2> QED
    BY <1>1, <1>2, <1>3, <1>8, <2>5, <2>6, <2>7, ClientKept
<1>9. CASE helper = "restarted"
  BY <1>6, <1>9 DEF HandleCall, call
<1>10. CASE helper = "serving" /\ HandlePlay(call)
  <2>1. IsPlay(call) /\ invocation = 0
    BY <1>3, <1>10 DEF HandlePlay, IsPlay, IInv, PlaceInv
  <2> QED
    BY <1>7, <1>10, <2>1 DEF HandlePlay
<1>11. CASE helper = "serving" /\ HandleStop(call)
  <2>1. ~IsPlay(call)
    BY <1>11 DEF HandleStop, IsPlay
  <2> QED
    BY <1>6, <1>8, <1>11, <2>1 DEF HandleStop
<1> QED
  BY <1>2, <1>9, <1>10, <1>11 DEF HandleCall, call

(* The bus answers what the helper leaves. *)
LEMMA HelperDiesStep ==
  ASSUME IInv, HelperDies
  PROVE  IInv'
<1> DEFINE a == IF invocation = 0 THEN <<>> ELSE <<PlayAnswer(invocation, FALSE)>>
           b == [i \in DOMAIN to_helper |-> Answer(to_helper[i], FALSE)]
<1>1. /\ UNCHANGED client /\ helper' = "restarted"
      /\ invocation' = 0 /\ input' = FALSE /\ to_helper' = <<>>
      /\ to_client' = to_client \o a \o b
  BY DEF HelperDies
<1>2. /\ to_helper \in Seq(Call) /\ to_client \in Seq(Reply) /\ 0 \in 0..MaxSerial
      /\ OnePlay(to_helper) /\ OnePlay(to_client) /\ serial \in Nat
  BY MaxSerialAssumption DEF IInv, TypeOK, PlaceInv
<1>3. a \in Seq(Reply) /\ OnePlay(a) /\ (PlayIn(a) <=> invocation # 0)
  <2>1. CASE invocation = 0
    BY <2>1 DEF OnePlay, PlayIn
  <2>2. CASE invocation # 0
    <3> DEFINE m == PlayAnswer(invocation, FALSE)
    <3>1. m \in Reply /\ IsPlay(m)
      BY <2>2, InvocationType, AnswerTypes DEF IInv
    <3> HIDE DEF m
    <3>2. a = <<m>>
      BY <2>2 DEF m
    <3> HIDE DEF a
    <3>3. a \in Seq(Reply) /\ Len(a) = 1 /\ a[1] = m
      BY <3>1, <3>2
    <3> QED
      BY <2>2, <3>1, <3>3 DEF OnePlay, PlayIn
  <2> QED
    BY <2>1, <2>2
<1>4. b \in Seq(Reply) /\ OnePlay(b) /\ (PlayIn(b) <=> PlayIn(to_helper))
  <2>1. DOMAIN to_helper = 1..Len(to_helper) /\ Len(to_helper) \in Nat
    BY <1>2
  <2>2. \A i \in 1..Len(to_helper) :
          b[i] \in Reply /\ (IsPlay(b[i]) <=> IsPlay(to_helper[i]))
    <3> SUFFICES ASSUME NEW i \in 1..Len(to_helper)
                 PROVE  b[i] \in Reply /\ (IsPlay(b[i]) <=> IsPlay(to_helper[i]))
      OBVIOUS
    <3>1. to_helper[i] \in Call /\ b[i] = Answer(to_helper[i], FALSE)
      BY <1>2, <2>1
    <3> QED
      BY <3>1, AnswerTypes
  <2>3. b \in [1..Len(to_helper) -> Reply]
    BY <2>1, <2>2
  <2> HIDE DEF b
  <2>4. b \in Seq(Reply) /\ Len(b) = Len(to_helper)
    BY <2>1, <2>3
  <2> QED
    BY <1>2, <2>2, <2>4 DEF OnePlay, PlayIn
<1> HIDE DEF a, b
<1>5. to_client \o a \in Seq(Reply) /\ OnePlay(to_client \o a)
      /\ (PlayIn(to_client \o a) <=> PlayIn(to_client) \/ invocation # 0)
  BY <1>2, <1>3, ConcatPlays DEF IInv, PlaceInv
<1>6. /\ to_client' \in Seq(Reply) /\ OnePlay(to_client')
      /\ PlayIn(to_client') <=> started
  BY <1>1, <1>2, <1>4, <1>5, ConcatPlays DEF IInv, PlaceInv
<1>7. /\ to_helper' \in Seq(Call) /\ 1..Len(to_helper') = {}
  BY <1>1
<1>8. PlaceInv'
  BY <1>1, <1>6, <1>7 DEF PlaceInv, PlayIn, OnePlay, InvocationMatchesInput, client
<1>9. OrderInv'
  BY <1>1, <1>2, <1>7 DEF OrderInv, client
<1> QED
  BY <1>1, <1>2, <1>6, <1>7, <1>8, <1>9, ClientKept

-----------------------------------------------------------------------------
LEMMA Inductive == IInv /\ [Next]_vars => IInv'
BY SetupSteps, PlayerProxyReadyStep, PlayFdStep, StopStep, StopReplySteps, OnPlayReplyStep,
   HandleCallStep, EndOfFileStep, HelperDiesStep
   DEF Next

THEOREM Invariance == Spec => []IInv
BY InitIInv, Inductive, PTL DEF Spec

(* Types, for any number of calls. *)
THEOREM TypeCorrect == Spec => []TypeOK
<1>1. IInv => TypeOK
  BY DEF IInv
<1> QED
  BY <1>1, Invariance, PTL

-----------------------------------------------------------------------------
(* The answer to a Stop is older than the Play that is played and than all  *)
(* calls that are under way.                                                *)
OlderThan(m, last, playing, calls) ==
  m.type = "Stop" =>
    /\ m.serial <= last
    /\ playing # 0 => m.serial < playing
    /\ \A j \in 1..Len(calls) : m.serial < calls[j].serial

Past(m) == OlderThan(m, serial, invocation, to_helper)
PastThen(m) == OlderThan(m, serial', invocation', to_helper')

(* The client is blocked on its last call, about a file that is started; a  *)
(* restarted helper plays nothing.                                          *)
StopInv ==
  /\ \A i \in 1..Len(to_client) : Past(to_client[i])
  /\ waiting_stop # 0 => waiting_stop = serial /\ started
  /\ helper = "restarted" => invocation = 0

(* An answer stays past while calls are made,                               *)
LEMMA PastSent ==
  ASSUME IInv, NEW m \in Reply, Past(m), NEW c \in Call, c.serial = serial + 1,
         serial' = serial + 1, to_helper' = Append(to_helper, c), UNCHANGED invocation
  PROVE  PastThen(m)
<1> SUFFICES ASSUME m.type = "Stop"
             PROVE  /\ m.serial <= serial'
                    /\ invocation' # 0 => m.serial < invocation'
                    /\ \A j \in 1..Len(to_helper') : m.serial < to_helper'[j].serial
  BY DEF Past, PastThen, OlderThan
<1>1. /\ m.serial <= serial /\ m.serial \in Nat
      /\ invocation # 0 => m.serial < invocation
      /\ \A j \in 1..Len(to_helper) : m.serial < to_helper[j].serial
  BY CallTypes DEF Past, PastThen, OlderThan
<1>2. to_helper \in Seq(Call) /\ serial \in Nat
  BY DEF IInv, TypeOK
<1>3. /\ \A i \in 1..Len(to_helper) : to_helper'[i] = to_helper[i]
      /\ to_helper'[Len(to_helper) + 1] = c
      /\ \A i \in 1..Len(to_helper') : i \in 1..Len(to_helper) \/ i = Len(to_helper) + 1
  BY <1>2, AppendFacts
<1>4. m.serial < c.serial /\ m.serial <= serial'
  BY <1>1, <1>2
<1> QED
  BY <1>1, <1>3, <1>4

(* while they are handled,                                                  *)
LEMMA PastHandled ==
  ASSUME IInv, NEW m \in Reply, Past(m), UNCHANGED serial,
         to_helper # <<>>, to_helper' = Tail(to_helper),
         invocation' \in {0, invocation, Head(to_helper).serial}
  PROVE  PastThen(m)
<1>1. to_helper \in Seq(Call)
  BY DEF IInv, TypeOK
<1>2. /\ Head(to_helper) = to_helper[1] /\ 1 \in 1..Len(to_helper)
      /\ \A i \in 1..Len(to_helper') : i + 1 \in 1..Len(to_helper) /\ to_helper'[i] = to_helper[i + 1]
  BY <1>1, TailPlays
<1> QED
  BY <1>2 DEF Past, PastThen, OlderThan

(* and while what plays ends.                                               *)
LEMMA PastEnded ==
  ASSUME NEW m, Past(m), UNCHANGED serial, invocation' \in {0, invocation},
         to_helper' = to_helper \/ to_helper' = <<>>
  PROVE  PastThen(m)
<1>1. CASE to_helper' = to_helper
  BY <1>1 DEF Past, PastThen, OlderThan
<1>2. CASE to_helper' = <<>>
  <2>1. 1..Len(to_helper') = {}
    BY <1>2
  <2> QED
    BY <2>1 DEF Past, PastThen, OlderThan
<1> QED
  BY <1>1, <1>2

(* The answer to a Play is past in any case. *)
LEMMA PlayAnswerPast == \A n, ok : PlayAnswer(n, ok).type # "Stop"
BY DEF PlayAnswer

LEMMA SendPlayPast ==
  ASSUME IInv, SendPlay, UNCHANGED invocation
  PROVE  \A m \in Reply : Past(m) => PastThen(m)
<1> DEFINE c == [type |-> "Play", serial |-> serial']
<1>1. serial' = serial + 1 /\ to_helper' = Append(to_helper, c) /\ serial < MaxSerial
  BY DEF SendPlay
<1>2. c \in Call /\ c.serial = serial + 1
  BY <1>1, MaxSerialAssumption DEF IInv, TypeOK, Call, Serials
<1> HIDE DEF c
<1> QED
  BY <1>1, <1>2, PastSent

(* Every answer was there before, or is past when it is given. *)
LEMMA AnswersPast ==
  ASSUME IInv, StopInv, \A m \in Reply : Past(m) => PastThen(m),
         \A i \in 1..Len(to_client') :
            (\E k \in 1..Len(to_client) : to_client'[i] = to_client[k]) \/ PastThen(to_client'[i])
  PROVE  \A i \in 1..Len(to_client') : PastThen(to_client'[i])
<1>1. \A k \in 1..Len(to_client) : to_client[k] \in Reply /\ Past(to_client[k])
  BY DEF IInv, TypeOK, StopInv
<1> QED
  BY <1>1

LEMMA InitStopInv == Init => StopInv
<1>1. Init => 1..Len(to_client) = {}
  BY DEF Init
<1> QED
  BY <1>1 DEF Init, StopInv

LEMMA ClientStopInv ==
  ASSUME IInv, StopInv, SetupStep \/ PlayerProxyReady \/ PlayFd \/ Stop \/ UNCHANGED vars
  PROVE  StopInv'
<1>1. /\ UNCHANGED <<to_client, helper, invocation>>
      /\ started => started'
  BY DEF SetupStep, PlayerProxyReady, PlayFd, Stop, SendPlay, vars, client, server
<1>2. CASE UNCHANGED <<serial, to_helper, waiting_stop>>
  <2>1. \A m : Past(m) => PastThen(m)
    BY <1>1, <1>2 DEF Past, PastThen, OlderThan
  <2> QED
    BY <1>1, <1>2, <2>1 DEF StopInv, Past, PastThen
<1>3. CASE SendPlay /\ waiting_stop = 0 /\ UNCHANGED waiting_stop
  <2>1. \A i \in 1..Len(to_client') : PastThen(to_client'[i])
    BY <1>1, <1>3, SendPlayPast, AnswersPast
  <2> QED
    BY <1>1, <1>3, <2>1 DEF StopInv, Past, PastThen
<1>4. CASE Stop /\ ~pending /\ serial' = serial + 1 /\ waiting_stop' = serial'
  <2> DEFINE c == [type |-> "Stop", serial |-> serial']
  <2>1. to_helper' = Append(to_helper, c) /\ serial < MaxSerial /\ started'
    BY <1>1, <1>4 DEF Stop
  <2>2. c \in Call /\ c.serial = serial + 1
    BY <1>4, <2>1, MaxSerialAssumption DEF IInv, TypeOK, Call, Serials
  <2> HIDE DEF c
  <2>3. \A m \in Reply : Past(m) => PastThen(m)
    BY <1>1, <1>4, <2>1, <2>2, PastSent
  <2>4. \A i \in 1..Len(to_client') : PastThen(to_client'[i])
    BY <1>1, <2>3, AnswersPast
  <2> QED
    BY <1>1, <1>4, <2>1, <2>4 DEF StopInv, Past, PastThen
<1> QED
  BY <1>2, <1>3, <1>4
     DEF SetupStep, PlayerProxyReady, PlayFd, Stop, Dispatching, vars, client

LEMMA ReplyStopInv ==
  ASSUME IInv, StopInv, StopReturns \/ StopTimesOut \/ DropLateStopReply \/ OnPlayReply
  PROVE  StopInv'
<1>1. to_client \in Seq(Reply)
  BY DEF IInv, TypeOK
<1>2. UNCHANGED <<helper, invocation>> /\ waiting_stop' \in {0, waiting_stop}
  BY DEF StopReturns, StopTimesOut, DropLateStopReply, OnPlayReply, client, server
<1>3. \A i \in 1..Len(to_client') : \E k \in 1..Len(to_client) : to_client'[i] = to_client[k]
  <2>1. CASE StopReturns
    <3>1. PICK i \in DOMAIN to_client :
            to_client' = [j \in 1..(Len(to_client) - 1) |->
                            to_client[IF j < i THEN j ELSE j + 1]]
      BY <2>1 DEF StopReturns
    <3>2. Len(to_client) \in Nat /\ i \in 1..Len(to_client)
      BY <1>1
    <3>3. \A j \in 1..(Len(to_client) - 1) :
            /\ to_client'[j] = to_client[IF j < i THEN j ELSE j + 1]
            /\ (IF j < i THEN j ELSE j + 1) \in 1..Len(to_client)
      BY <3>1, <3>2
    <3>4. Len(to_client') = Len(to_client) - 1
      BY <3>1, <3>2
    <3> QED
      BY <3>3, <3>4
  <2>2. CASE StopTimesOut
    BY <2>2 DEF StopTimesOut
  <2>3. CASE to_client # <<>> /\ to_client' = Tail(to_client)
    BY <1>1, <2>3, TailPlays
  <2> QED
    BY <2>1, <2>2, <2>3 DEF DropLateStopReply, OnPlayReply
<1>4. CASE SendPlay /\ waiting_stop = 0
  <2>1. \A i \in 1..Len(to_client') : PastThen(to_client'[i])
    BY <1>2, <1>3, <1>4, SendPlayPast, AnswersPast
  <2> QED
    BY <1>2, <1>4, <2>1 DEF StopInv, Past, PastThen
<1>5. CASE UNCHANGED <<serial, to_helper>> /\ (waiting_stop' # 0 => UNCHANGED started)
  <2>1. \A m : Past(m) => PastThen(m)
    BY <1>2, <1>5 DEF Past, PastThen, OlderThan
  <2>2. \A i \in 1..Len(to_client') : PastThen(to_client'[i])
    BY <1>3, <2>1, AnswersPast
  <2> QED
    BY <1>2, <1>5, <2>2 DEF StopInv, Past, PastThen
<1> QED
  BY <1>4, <1>5
     DEF StopReturns, StopTimesOut, DropLateStopReply, OnPlayReply, EmitFinished, Dispatching, client

LEMMA HandleCallStopInv ==
  ASSUME IInv, StopInv, HandleCall
  PROVE  StopInv'
<1> DEFINE call == Head(to_helper)
<1>1. /\ UNCHANGED <<started, serial, waiting_stop, helper>>
      /\ to_helper # <<>> /\ to_helper' = Tail(to_helper)
  BY DEF HandleCall, client
<1>2. to_helper \in Seq(Call) /\ to_client \in Seq(Reply) /\ serial \in Nat
  BY DEF IInv, TypeOK
<1>3. /\ call = to_helper[1] /\ call \in Call /\ 1 \in 1..Len(to_helper)
      /\ \A i \in 1..Len(to_helper') : i + 1 \in 1..Len(to_helper) /\ to_helper'[i] = to_helper[i + 1]
  BY <1>1, <1>2, TailPlays
<1>4. invocation' \in {0, invocation, call.serial}
  BY DEF HandleCall, HandlePlay, HandleStop
<1>5. \A m \in Reply : Past(m) => PastThen(m)
  BY <1>1, <1>4, PastHandled
<1>6. helper' = "restarted" => invocation' = 0
  BY <1>1 DEF HandleCall, StopInv
<1> HIDE DEF call
(* The answer to this call is older than the calls behind it. *)
<1>7. ASSUME NEW ok \in BOOLEAN, invocation' = 0 \/ call.type = "Play" PROVE PastThen(Answer(call, ok))
  <2>1. Answer(call, ok).serial = call.serial /\ Answer(call, ok).type = call.type
    BY DEF Answer
  <2>2. call.serial <= serial /\ \A i \in 1..Len(to_helper') : call.serial < to_helper'[i].serial
    <3>1. \A i \in 1..Len(to_helper') : 1 < i + 1
      OBVIOUS
    <3> QED
      BY <1>3, <3>1 DEF IInv, OrderInv
  <2> QED
    BY <1>1, <1>7, <2>1, <2>2 DEF Past, PastThen, OlderThan
<1>8. \A i \in 1..Len(to_client') :
        (\E k \in 1..Len(to_client) : to_client'[i] = to_client[k]) \/ PastThen(to_client'[i])
  <2>1. CASE UNCHANGED to_client
    BY <2>1
  <2>2. ASSUME NEW ok \in BOOLEAN, to_client' = Append(to_client, Answer(call, ok)),
               invocation' = 0 \/ call.type = "Play"
        PROVE  \A i \in 1..Len(to_client') :
                 (\E k \in 1..Len(to_client) : to_client'[i] = to_client[k]) \/ PastThen(to_client'[i])
    <3>1. PastThen(Answer(call, ok)) /\ Answer(call, ok) \in Reply
      BY <1>3, <1>7, <2>2, AnswerTypes
    <3> QED
      BY <1>2, <2>2, <3>1, AppendFacts
  <2>3. CASE /\ to_client' = to_client \o <<PlayAnswer(invocation, TRUE), Answer(call, TRUE)>>
             /\ invocation' = 0
    <3> DEFINE p == PlayAnswer(invocation, TRUE)
               a == Answer(call, TRUE)
    <3>1. PastThen(a) /\ PastThen(p)
      BY <1>7, <2>3, PlayAnswerPast DEF Past, PastThen, OlderThan
    <3> HIDE DEF p, a
    <3>2. to_client' = to_client \o <<p, a>>
      BY <2>3 DEF p, a
    <3>3. \A i \in 1..Len(to_client') :
            \/ i \in 1..Len(to_client) /\ to_client'[i] = to_client[i]
            \/ to_client'[i] = p \/ to_client'[i] = a
      BY <1>2, <3>2
    <3> QED
      BY <3>1, <3>3
  <2> QED
    BY <2>1, <2>2, <2>3 DEF HandleCall, HandlePlay, HandleStop, StopInv, call
<1>9. \A i \in 1..Len(to_client') : PastThen(to_client'[i])
  BY <1>5, <1>8, AnswersPast
<1> QED
  BY <1>1, <1>6, <1>9 DEF StopInv, Past, PastThen

LEMMA EndStopInv ==
  ASSUME IInv, StopInv, EndOfFile
  PROVE  StopInv'
<1> DEFINE p == PlayAnswer(invocation, TRUE)
<1>1. /\ UNCHANGED <<started, serial, waiting_stop, helper, to_helper>>
      /\ invocation' = 0 /\ to_client' = Append(to_client, p)
  BY DEF EndOfFile, client
<1>2. to_client \in Seq(Reply) /\ p \in Reply
  <2>1. invocation # 0
    BY DEF EndOfFile, IInv, PlaceInv, InvocationMatchesInput
  <2> QED
    BY <2>1, InvocationType, AnswerTypes DEF IInv, TypeOK
<1>3. PastThen(p)
  BY PlayAnswerPast DEF Past, PastThen, OlderThan
<1> HIDE DEF p
<1>4. \A m \in Reply : Past(m) => PastThen(m)
  BY <1>1, PastEnded
<1>5. \A i \in 1..Len(to_client') : PastThen(to_client'[i])
  BY <1>1, <1>2, <1>3, <1>4, AppendFacts, AnswersPast
<1> QED
  BY <1>1, <1>5 DEF StopInv, Past, PastThen

LEMMA DeathStopInv ==
  ASSUME IInv, StopInv, HelperDies
  PROVE  StopInv'
<1> DEFINE a == IF invocation = 0 THEN <<>> ELSE <<PlayAnswer(invocation, FALSE)>>
           b == [i \in DOMAIN to_helper |-> Answer(to_helper[i], FALSE)]
<1>1. /\ UNCHANGED <<started, serial, waiting_stop>>
      /\ invocation' = 0 /\ to_helper' = <<>>
      /\ to_client' = (to_client \o a) \o b
  BY DEF HelperDies, client
<1>2. to_client \in Seq(Reply) /\ to_helper \in Seq(Call)
  BY DEF IInv, TypeOK
<1>3. a \in Seq(Reply) /\ \A i \in 1..Len(a) : PastThen(a[i])
  <2>1. CASE invocation = 0
    BY <2>1
  <2>2. CASE invocation # 0
    <3> DEFINE m == PlayAnswer(invocation, FALSE)
    <3>1. m \in Reply /\ PastThen(m)
      BY <2>2, InvocationType, AnswerTypes, PlayAnswerPast DEF IInv, PastThen, OlderThan
    <3> HIDE DEF m
    <3>2. a = <<m>>
      BY <2>2 DEF m
    <3> HIDE DEF a
    <3>3. a \in Seq(Reply) /\ Len(a) = 1 /\ a[1] = m
      BY <3>1, <3>2
    <3>4. \A i \in 1..Len(a) : i = 1
      BY <3>3
    <3> QED
      BY <3>1, <3>3, <3>4
  <2> QED
    BY <2>1, <2>2
<1>4. DOMAIN b = 1..Len(to_helper) /\ Len(to_helper) \in Nat
  BY <1>2
<1>5. \A i \in 1..Len(to_helper) : b[i] \in Reply /\ PastThen(b[i])
  <2> SUFFICES ASSUME NEW i \in 1..Len(to_helper) PROVE b[i] \in Reply /\ PastThen(b[i])
    OBVIOUS
  <2>1. b[i] = Answer(to_helper[i], FALSE) /\ to_helper[i] \in Call
    BY <1>2, <1>4
  <2> HIDE DEF b
  <2>2. b[i] \in Reply /\ b[i].serial = to_helper[i].serial
    <3>1. \A c \in Call : Answer(c, FALSE) \in Reply /\ Answer(c, FALSE).serial = c.serial
      BY DEF Answer, Call, Reply
    <3> QED
      BY <2>1, <3>1
  <2>3. to_helper[i].serial <= serial
    BY DEF IInv, OrderInv
  <2>4. 1..Len(to_helper') = {}
    BY <1>1
  <2> QED
    BY <1>1, <2>2, <2>3, <2>4 DEF Past, PastThen, OlderThan
<1>6. b \in Seq(Reply) /\ Len(b) = Len(to_helper)
  <2>1. b \in [1..Len(to_helper) -> Reply]
    BY <1>4, <1>5
  <2> HIDE DEF b
  <2> QED
    BY <1>4, <2>1
<1> HIDE DEF a, b
<1>7. \A i \in 1..Len(to_client') :
        \/ \E k \in 1..Len(to_client) : to_client'[i] = to_client[k]
        \/ \E k \in 1..Len(a) : to_client'[i] = a[k]
        \/ \E k \in 1..Len(b) : to_client'[i] = b[k]
  <2> DEFINE ca == to_client \o a
  <2>1. /\ Len(to_client) \in Nat /\ Len(a) \in Nat /\ Len(b) \in Nat
        /\ Len(ca) = Len(to_client) + Len(a)
        /\ \A i \in 1..Len(ca) :
             ca[i] = IF i <= Len(to_client) THEN to_client[i] ELSE a[i - Len(to_client)]
    BY <1>2, <1>3, <1>6
  <2>2. ca \in Seq(Reply)
    BY <1>2, <1>3, ConcatPlays
  <2> HIDE DEF ca
  <2>3. /\ Len(ca \o b) = Len(ca) + Len(b)
        /\ \A i \in 1..Len(ca \o b) : (ca \o b)[i] = IF i <= Len(ca) THEN ca[i] ELSE b[i - Len(ca)]
    BY <1>6, <2>2
  <2>4. to_client' = ca \o b
    BY <1>1 DEF ca
  <2>5. \A i \in 1..Len(to_client') :
          \/ i \in 1..Len(ca) /\ to_client'[i] = ca[i]
          \/ i - Len(ca) \in 1..Len(b) /\ to_client'[i] = b[i - Len(ca)]
    BY <2>1, <2>3, <2>4
  <2>6. \A i \in 1..Len(ca) :
          \/ i \in 1..Len(to_client) /\ ca[i] = to_client[i]
          \/ i - Len(to_client) \in 1..Len(a) /\ ca[i] = a[i - Len(to_client)]
    BY <2>1
  <2> QED
    BY <2>5, <2>6
<1>8. \A m \in Reply : Past(m) => PastThen(m)
  BY <1>1, PastEnded
<1>9. \A i \in 1..Len(to_client') : PastThen(to_client'[i])
  BY <1>3, <1>5, <1>6, <1>7, <1>8, AnswersPast
<1> QED
  BY <1>1, <1>9 DEF StopInv, Past, PastThen

LEMMA StopInvStep == IInv /\ StopInv /\ [Next]_vars => StopInv'
BY ClientStopInv, ReplyStopInv, HandleCallStopInv, EndStopInv, DeathStopInv DEF Next

(* When the client gets the answer to its Stop, nothing plays or will play, *)
(* and the answer to the Play is there too (remote-player.c:132-153), for   *)
(* any number of calls, given up or not, and whenever the helper dies.      *)
THEOREM AlwaysSilentWhenStopped == Spec => []SilentWhenStopped
<1>1. IInv /\ StopInv => SilentWhenStopped
  <2> SUFFICES ASSUME IInv, StopInv, NEW i \in DOMAIN to_client,
                      to_client[i].type = "Stop", to_client[i].serial = waiting_stop
               PROVE  /\ ~input /\ to_helper = <<>>
                      /\ \E j \in DOMAIN to_client : IsPlay(to_client[j])
    BY DEF SilentWhenStopped
  <2>1. /\ to_client \in Seq(Reply) /\ to_helper \in Seq(Call)
        /\ serial \in Nat /\ invocation \in Nat
    BY DEF IInv, TypeOK
  <2>2. i \in 1..Len(to_client) /\ to_client[i] \in Reply
    BY <2>1
  <2>3. waiting_stop # 0 /\ waiting_stop = serial /\ started
    <3>1. to_client[i].serial # 0
      BY <2>2, MaxSerialAssumption DEF Reply, Serials
    <3> QED
      BY <3>1 DEF StopInv, Past, PastThen
  <2>4. /\ invocation # 0 => serial < invocation
        /\ \A j \in 1..Len(to_helper) : serial < to_helper[j].serial
    BY <2>2, <2>3 DEF StopInv, Past, PastThen, OlderThan
  <2>5. invocation = 0
    BY <2>1, <2>4 DEF IInv, OrderInv
  <2>6. to_helper = <<>>
    <3>1. \A j \in 1..Len(to_helper) : to_helper[j].serial <= serial /\ to_helper[j].serial \in Nat
      BY <2>1, CallTypes DEF IInv, OrderInv
    <3>2. 1 \notin 1..Len(to_helper)
      BY <2>1, <2>4, <3>1
    <3> QED
      BY <2>1, <3>2, TailPlays
  <2>7. PlayIn(to_client)
    <3>1. ~PlayIn(to_helper)
      BY <2>6 DEF PlayIn
    <3> QED
      BY <2>3, <2>5, <3>1 DEF IInv, PlaceInv
  <2> QED
    BY <2>1, <2>5, <2>6, <2>7 DEF IInv, PlaceInv, InvocationMatchesInput, PlayIn
<1> QED
  BY <1>1, InitStopInv, StopInvStep, Invariance, PTL DEF Spec

-----------------------------------------------------------------------------
(* One Play of a queue counts as one. *)
LEMMA CountPlays ==
  ASSUME NEW S, NEW q \in Seq(S), OnePlay(q)
  PROVE  PlaysIn(q) = IF PlayIn(q) THEN 1 ELSE 0
<1>1. DOMAIN q = 1..Len(q)
  OBVIOUS
<1>2. CASE PlayIn(q)
  <2>1. PICK i \in 1..Len(q) : IsPlay(q[i])
    BY <1>2 DEF PlayIn
  <2>2. {k \in DOMAIN q : IsPlay(q[k])} = {i}
    BY <1>1, <2>1 DEF OnePlay
  <2> QED
    BY <1>2, <2>2, FS_Singleton DEF PlaysIn
<1>3. CASE ~PlayIn(q)
  <2>1. {k \in DOMAIN q : IsPlay(q[k])} = {}
    BY <1>1, <1>3 DEF PlayIn
  <2> QED
    BY <1>3, <2>1, FS_EmptySet DEF PlaysIn
<1> QED
  BY <1>2, <1>3

(* No Play is lost, answered twice or refused, and the helper plays exactly *)
(* while it has one to answer.                                              *)
THEOREM CallsAlwaysMatchPlayback == Spec => []CallsMatchPlayback
<1>1. ASSUME IInv PROVE OnePlayPerStart
  <2>1. /\ to_helper \in Seq(Call) /\ to_client \in Seq(Reply)
        /\ OnePlay(to_helper) /\ OnePlay(to_client)
    BY <1>1 DEF IInv, TypeOK, PlaceInv
  <2>2. /\ PlaysIn(to_helper) = IF PlayIn(to_helper) THEN 1 ELSE 0
        /\ PlaysIn(to_client) = IF PlayIn(to_client) THEN 1 ELSE 0
    BY <2>1, CountPlays
  <2> QED
    BY <1>1, <2>2 DEF IInv, PlaceInv, OnePlayPerStart, PlaysUnderWay
<1>2. ASSUME IInv PROVE PlayNeverRefused
  <2>1. to_helper \in Seq(Call)
    BY <1>2 DEF IInv, TypeOK
  <2>2. to_helper # <<>> /\ IsPlay(Head(to_helper)) => PlayIn(to_helper)
    BY <2>1, TailPlays
  <2> QED
    BY <1>2, <2>2 DEF IInv, PlaceInv, PlayNeverRefused
<1>3. IInv => CallsMatchPlayback
  BY <1>1, <1>2 DEF CallsMatchPlayback, IInv, PlaceInv
<1> QED
  BY <1>3, Invariance, PTL

(* Client, bus and helper together are an event player to the test runner:  *)
(* each of their steps is one of an event player's, or none it can see.     *)
THEOREM ImplementsEventPlayer == Spec => Abstract!Safety
<1>1. Init => Abstract!Init
  BY DEF Init, Abstract!Init
<1>2. IInv /\ [Next]_vars => [Abstract!Next]_(Abstract!vars)
  <2> SUFFICES ASSUME IInv, [Next]_vars
               PROVE  Abstract!Next \/ UNCHANGED Abstract!vars
    OBVIOUS
  <2> USE DEF Abstract!vars
  <2>1. CASE PlayerProxyReady
    BY <2>1 DEF PlayerProxyReady, SendPlay
  <2>2. CASE PlayFd
    BY <2>2 DEF PlayFd, SendPlay, Abstract!Next, Abstract!Play
  <2>3. CASE Stop
    BY <2>3 DEF Stop, Abstract!Next, Abstract!Stop
  <2>4. CASE OnPlayReply
    <3>1. to_client \in Seq(Reply) /\ to_client # <<>> /\ IsPlay(Head(to_client))
      BY <2>4 DEF OnPlayReply, IsPlay, IInv, TypeOK
    <3>2. started /\ ~pending
      BY <3>1, TailPlays DEF IInv, PlaceInv, CountInv
    <3>3. /\ stopped' = FALSE /\ finished' = finished + 1
          /\ \/ started' = FALSE /\ UNCHANGED <<pending, accepted>>
             \/ started' = TRUE /\ pending' = FALSE /\ accepted' = accepted + 1
      BY <2>4 DEF OnPlayReply, EmitFinished, SendPlay
    <3> QED
      BY <3>2, <3>3 DEF Abstract!Next, Abstract!Finish, Abstract!FinishAndPlay
  <2>5. CASE \/ SetupStep \/ StopReturns \/ StopTimesOut \/ DropLateStopReply
             \/ HandleCall \/ EndOfFile \/ HelperDies \/ UNCHANGED vars
    <3>1. UNCHANGED <<pending, started, stopped, accepted, finished>>
      BY <2>5
         DEF SetupStep, StopReturns, StopTimesOut, DropLateStopReply, HandleCall, EndOfFile,
             HelperDies, client, vars
    <3> QED
      BY <3>1
  <2> QED
    BY <2>1, <2>2, <2>3, <2>4, <2>5 DEF Next
<1> QED
  BY <1>1, <1>2, Invariance, PTL DEF Spec, Abstract!Safety
===============================================================================
