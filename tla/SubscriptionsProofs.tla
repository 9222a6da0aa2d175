-------------------------- MODULE SubscriptionsProofs --------------------------
(***************************************************************************)
(* Proofs about Subscriptions, for every value of its constants.           *)
(***************************************************************************)
EXTENDS Subscriptions, SequenceTheorems, TLAPS

USE SubscriptionsAssumption

-----------------------------------------------------------------------------
(* What a send to a channel and a receive from it do to its contents. *)
LEMMA ChannelSend ==
  ASSUME NEW S, NEW s \in Seq(S), NEW x \in S
  PROVE  /\ Append(s, x) \in Seq(S) /\ Len(Append(s, x)) = Len(s) + 1
         /\ ToSet(Append(s, x)) = ToSet(s) \union {x}
         /\ x \notin ToSet(s) /\ IsInjective(s) => IsInjective(Append(s, x))
<1>1. /\ Append(s, x) \in Seq(S) /\ Len(Append(s, x)) = Len(s) + 1
      /\ DOMAIN s = 1 .. Len(s) /\ DOMAIN Append(s, x) = 1 .. Len(s) + 1
      /\ \A i \in 1 .. Len(s) : Append(s, x)[i] = s[i]
      /\ Append(s, x)[Len(s) + 1] = x /\ Len(s) \in Nat
  OBVIOUS
<1>2. ToSet(Append(s, x)) = ToSet(s) \union {x}
  BY <1>1 DEF ToSet
<1>3. x \notin ToSet(s) /\ IsInjective(s) => IsInjective(Append(s, x))
  BY <1>1 DEF ToSet, IsInjective
<1> QED
  BY <1>1, <1>2, <1>3

LEMMA ChannelReceive ==
  ASSUME NEW S, NEW s \in Seq(S), s # <<>>
  PROVE  /\ Head(s) \in S /\ Tail(s) \in Seq(S) /\ Len(Tail(s)) = Len(s) - 1
         /\ ToSet(s) = ToSet(Tail(s)) \union {Head(s)}
         /\ IsInjective(s) => IsInjective(Tail(s)) /\ Head(s) \notin ToSet(Tail(s))
<1>1. /\ Head(s) \in S /\ Tail(s) \in Seq(S) /\ Len(Tail(s)) = Len(s) - 1
      /\ DOMAIN s = 1 .. Len(s) /\ DOMAIN Tail(s) = 1 .. Len(s) - 1
      /\ \A i \in 1 .. Len(s) - 1 : Tail(s)[i] = s[i + 1]
      /\ Head(s) = s[1] /\ Len(s) \in Nat /\ Len(s) >= 1
  OBVIOUS
<1>2. ToSet(s) = ToSet(Tail(s)) \union {Head(s)}
  <2>1. ASSUME NEW i \in 1 .. Len(s) PROVE s[i] \in ToSet(Tail(s)) \union {Head(s)}
    <3>1. CASE i = 1
      BY <1>1, <3>1
    <3>2. CASE i # 1
      <4>1. i - 1 \in 1 .. Len(s) - 1 /\ Tail(s)[i - 1] = s[i]
        BY <1>1, <3>2
      <4> QED
        BY <1>1, <4>1 DEF ToSet
    <3> QED
      BY <3>1, <3>2
  <2>2. ASSUME NEW i \in 1 .. Len(s) - 1 PROVE Tail(s)[i] \in ToSet(s)
    <3>1. i + 1 \in 1 .. Len(s) /\ Tail(s)[i] = s[i + 1]
      BY <1>1
    <3> QED
      BY <1>1, <3>1 DEF ToSet
  <2>3. Head(s) \in ToSet(s)
    BY <1>1 DEF ToSet
  <2> QED
    BY <1>1, <2>1, <2>2, <2>3 DEF ToSet
<1>3. IsInjective(s) => IsInjective(Tail(s)) /\ Head(s) \notin ToSet(Tail(s))
  <2> SUFFICES ASSUME IsInjective(s)
               PROVE  IsInjective(Tail(s)) /\ Head(s) \notin ToSet(Tail(s))
    OBVIOUS
  <2>1. \A i, j \in 1 .. Len(s) : s[i] = s[j] => i = j
    BY <1>1 DEF IsInjective
  <2>2. \A i, j \in 1 .. Len(s) - 1 : Tail(s)[i] = Tail(s)[j] => i = j
    <3> TAKE i, j \in 1 .. Len(s) - 1
    <3> HAVE Tail(s)[i] = Tail(s)[j]
    <3>1. i + 1 \in 1 .. Len(s) /\ j + 1 \in 1 .. Len(s) /\ s[i + 1] = s[j + 1]
      BY <1>1
    <3> QED
      BY <2>1, <3>1
  <2>3. ASSUME NEW i \in 1 .. Len(s) - 1 PROVE Tail(s)[i] # Head(s)
    <3>1. i + 1 \in 1 .. Len(s) /\ 1 \in 1 .. Len(s) /\ Tail(s)[i] = s[i + 1]
      BY <1>1
    <3> QED
      BY <1>1, <2>1, <3>1
  <2> QED
    BY <1>1, <2>2, <2>3 DEF ToSet, IsInjective
<1> QED
  BY <1>1, <1>2, <1>3

LEMMA ChannelContents ==
  ASSUME NEW S, NEW s \in Seq(S)
  PROVE  ToSet(s) \subseteq S
<1>1. DOMAIN s = 1 .. Len(s) /\ \A i \in 1 .. Len(s) : s[i] \in S
  OBVIOUS
<1> QED
  BY <1>1 DEF ToSet

LEMMA EmptyChannel == ToSet(<<>>) = {} /\ IsInjective(<<>>)
<1>1. DOMAIN <<>> = {}
  OBVIOUS
<1> QED
  BY <1>1 DEF ToSet, IsInjective

-----------------------------------------------------------------------------
(* Type correctness. *)

States == {"none", "check", "push", "cancel", "done"}

(* A notifier's step changes its own place only. *)
LEMMA GoToType ==
  ASSUME NEW e \in Event, NEW c \in Client, NEW s \in States,
         notifier \in [Event -> [Client -> States]], GoTo(e, c, s)
  PROVE  /\ notifier' \in [Event -> [Client -> States]]
         /\ notifier'[e][c] = s
         /\ \A f \in Event, d \in Client : f # e \/ d # c => notifier'[f][d] = notifier[f][d]
<1>1. notifier' = [notifier EXCEPT ![e] = [notifier[e] EXCEPT ![c] = s]]
  BY DEF GoTo
<1>2. [notifier[e] EXCEPT ![c] = s] \in [Client -> States]
  OBVIOUS
<1>3. notifier' \in [Event -> [Client -> States]]
  BY <1>1, <1>2
<1>4. notifier'[e] = [notifier[e] EXCEPT ![c] = s]
  BY <1>1
<1>5. notifier'[e][c] = s
  BY <1>4
<1>6. \A f \in Event, d \in Client : f # e \/ d # c => notifier'[f][d] = notifier[f][d]
  <2> TAKE f \in Event, d \in Client
  <2>1. CASE f # e
    BY <1>1, <2>1
  <2>2. CASE f = e /\ d # c
    BY <1>4, <2>2
  <2> QED
    BY <2>1, <2>2
<1> QED
  BY <1>3, <1>5, <1>6

LEMMA InitType == Init => TypeOK
  BY EmptySeq DEF Init, TypeOK, Event

LEMMA BroadcastType ==
  ASSUME TypeOK, Broadcast \/ SkipBroadcast
  PROVE  TypeOK'
<1> USE DEF TypeOK, clientVars, loopVars
<1>1. made' \in 0 .. MaxEvents /\ made' \in Event
  BY DEF Broadcast, SkipBroadcast, Make, Event
<1>2. events' \in Seq(Event) /\ Len(events') <= EventCap
  <2>1. CASE Broadcast
    BY <1>1, <2>1, ChannelSend DEF Broadcast
  <2>2. CASE SkipBroadcast
    BY <2>2 DEF SkipBroadcast
  <2> QED
    BY <2>1, <2>2
<1>3. due' \in [Client -> SUBSET Event] /\ skipped' \subseteq Event
  BY <1>1 DEF Broadcast, SkipBroadcast, Make
<1> QED
  BY <1>1, <1>2, <1>3 DEF Broadcast, SkipBroadcast

LEMMA ClientType ==
  ASSUME TypeOK, NEW c \in Client, OnBlock(c) \/ Read(c) \/ LeaveClient(c)
  PROVE  TypeOK'
<1> USE DEF TypeOK, dueVars, loopVars
<1>1. CASE OnBlock(c)
  <2>1. subscribe' \in Seq(Client) /\ Len(subscribe') <= QueueCap
    BY <1>1, ChannelSend DEF OnBlock
  <2> QED
    BY <1>1, <2>1 DEF OnBlock
<1>2. CASE Read(c)
  <2>1. /\ Head(stream[c]) \in Event /\ Tail(stream[c]) \in Seq(Event)
        /\ Len(Tail(stream[c])) = Len(stream[c]) - 1
    BY <1>2, ChannelReceive DEF Read
  <2>2. stream' \in [Client -> Seq(Event)] /\ \A d \in Client : Len(stream'[d]) <= StreamCap
    BY <1>2, <2>1 DEF Read
  <2>3. received' \in [Client -> SUBSET Event]
    BY <1>2, <2>1 DEF Read
  <2> QED
    BY <1>2, <2>2, <2>3 DEF Read
<1>3. CASE LeaveClient(c)
  BY <1>3 DEF LeaveClient
<1> QED
  BY <1>1, <1>2, <1>3

LEMMA LoopType ==
  ASSUME TypeOK, Loop \/ Close
  PROVE  TypeOK'
<1> USE DEF TypeOK, clientVars, dueVars, loopVars
<1>1. CASE AddSubscriber
  <2>1. /\ Head(subscribe) \in Client /\ subscribe' \in Seq(Client)
        /\ Len(subscribe') <= QueueCap
    BY <1>1, ChannelReceive DEF AddSubscriber
  <2>2. due' \in [Client -> SUBSET Event]
    BY <1>1, ChannelContents DEF AddSubscriber
  <2> QED
    BY <1>1, <2>1, <2>2 DEF AddSubscriber
<1>2. CASE AddFails
  <2>1. subscribe' \in Seq(Client) /\ Len(subscribe') <= QueueCap
    BY <1>2, ChannelReceive DEF AddFails
  <2> QED
    BY <1>2, <2>1 DEF AddFails
<1>3. CASE RemoveSubscriber
  <2>1. unsubscribe' \in Seq(Client) /\ Len(unsubscribe') <= QueueCap
    BY <1>3, ChannelReceive DEF RemoveSubscriber
  <2> QED
    BY <1>3, <2>1 DEF RemoveSubscriber
<1>4. CASE DispatchOnBlock
  <2>1. /\ Head(events) \in Event /\ events' \in Seq(Event) /\ Len(events') <= EventCap
    BY <1>4, ChannelReceive DEF DispatchOnBlock
  <2>2. notifier' \in [Event -> [Client -> States]]
    BY <1>4 DEF DispatchOnBlock, States
  <2> QED
    BY <1>4, <2>1, <2>2 DEF DispatchOnBlock, States
<1>5. CASE Stop \/ Close
  BY <1>5 DEF Stop, Close
<1> QED
  BY <1>1, <1>2, <1>3, <1>4, <1>5 DEF Loop

(* A notifier moves to one place, and may send to its client or cancel. *)
LEMMA NotifyMoves ==
  ASSUME TypeOK, NEW e \in Event, NEW c \in Client, Notify(e, c)
  PROVE  \E s \in States : GoTo(e, c, s)
  BY DEF Notify, Check, Checked, Push, SeesGone, Timeout, TimeoutCancels, Cancel, States

LEMMA NotifyType ==
  ASSUME TypeOK, NEW e \in Event, NEW c \in Client, Notify(e, c)
  PROVE  TypeOK'
<1> USE DEF TypeOK, clientVars, dueVars, loopVars
<1>1. notifier' \in [Event -> [Client -> States]]
  <2>1. notifier \in [Event -> [Client -> States]]
    BY DEF States
  <2>2. PICK s \in States : GoTo(e, c, s)
    BY NotifyMoves
  <2> QED
    BY <2>1, <2>2, GoToType
<1>2. stream' \in [Client -> Seq(Event)] /\ \A d \in Client : Len(stream'[d]) <= StreamCap
  <2>1. CASE Push(e, c)
    BY <2>1, ChannelSend DEF Push, Room
  <2>2. CASE ~Push(e, c)
    BY <2>2 DEF Notify, Check, SeesGone, Timeout, Cancel
  <2> QED
    BY <2>1, <2>2
<1>3. unsubscribe' \in Seq(Client) /\ Len(unsubscribe') <= QueueCap
  <2>1. CASE Cancel(e, c)
    BY <2>1, ChannelSend DEF Cancel
  <2>2. CASE ~Cancel(e, c)
    BY <2>2 DEF Notify, Check, SeesGone, Timeout, Push
  <2> QED
    BY <2>1, <2>2
<1>4. UNCHANGED <<made, events, subscribe, subscribers, loop, client, received, due, skipped, failures>>
  BY DEF Notify, Check, SeesGone, Timeout, Push, Cancel
<1> QED
  BY <1>1, <1>2, <1>3, <1>4 DEF States

LEMMA NextType == TypeOK /\ [Next]_vars => TypeOK'
<1> SUFFICES ASSUME TypeOK, [Next]_vars PROVE TypeOK'
  OBVIOUS
<1>1. CASE UNCHANGED vars
  BY <1>1 DEF vars, clientVars, dueVars, loopVars, TypeOK
<1>2. CASE Next
  BY <1>2, BroadcastType, ClientType, LoopType, NotifyType DEF Next
<1> QED
  BY <1>1, <1>2

(* Every variable keeps its range and no channel, the clients' included,   *)
(* exceeds its capacity, for any number of clients and events.             *)
THEOREM TypeCorrect == Spec => []TypeOK
<1> QED
  BY InitType, NextType, PTL DEF Spec

-----------------------------------------------------------------------------
(* No silent miss. *)

(* A client has no events due before its subscription is taken from the    *)
(* channel, and asks once.                                                 *)
AskOnce ==
  /\ IsInjective(subscribe)
  /\ \A c \in Client :
       /\ client[c] = "new" => c \notin ToSet(subscribe)
       /\ client[c] = "new" \/ c \in ToSet(subscribe) => due[c] = {} /\ c \notin subscribers

(* An event that is not handed out yet has no notifier, and is handed out  *)
(* once.                                                                   *)
HandedOnce ==
  /\ IsInjective(events)
  /\ \A e \in ToSet(events) : e <= made
  /\ \A e \in Event : e \in ToSet(events) \/ e > made =>
       \A c \in Client : notifier[e][c] = "none"

IInv == TypeOK /\ AskOnce /\ HandedOnce /\ NoSilentMiss

LEMMA InitInv == Init => IInv
<1> SUFFICES ASSUME Init PROVE IInv
  OBVIOUS
<1>1. AskOnce /\ HandedOnce
  BY EmptyChannel DEF Init, AskOnce, HandedOnce
<1>2. NoSilentMiss
  BY DEF Init, NoSilentMiss
<1> QED
  BY <1>1, <1>2, InitType DEF IInv

(* A client asks once: only OnBlock and the loop touch what this is about. *)
LEMMA AskOnceKept ==
  ASSUME IInv, Next
  PROVE  AskOnce'
<1> USE DEF IInv, TypeOK, clientVars, dueVars, loopVars
<1>1. CASE \E c \in Client : OnBlock(c)
  <2>1. PICK c \in Client : OnBlock(c)
    BY <1>1
  <2>2. /\ ToSet(subscribe') = ToSet(subscribe) \union {c}
        /\ IsInjective(subscribe')
    BY <2>1, ChannelSend DEF OnBlock, AskOnce
  <2>3. /\ client'[c] = "open" /\ \A d \in Client \ {c} : client'[d] = client[d]
        /\ UNCHANGED <<due, subscribers>> /\ client[c] = "new"
    BY <2>1 DEF OnBlock
  <2> QED
    BY <2>2, <2>3 DEF AskOnce
<1>2. CASE AddSubscriber \/ AddFails
  <2>0. /\ subscribe \in Seq(Client) /\ subscribe # <<>> /\ subscribe' = Tail(subscribe)
        /\ IsInjective(subscribe)
    BY <1>2 DEF AddSubscriber, AddFails, AskOnce
  <2>1. /\ Head(subscribe) \in Client
        /\ ToSet(subscribe) = ToSet(subscribe') \union {Head(subscribe)}
        /\ IsInjective(subscribe') /\ Head(subscribe) \notin ToSet(subscribe')
    BY <2>0, ChannelReceive
  <2>2. /\ UNCHANGED client /\ \A c \in Client \ {Head(subscribe)} : due'[c] = due[c]
        /\ subscribers' \subseteq subscribers \union {Head(subscribe)}
    BY <1>2 DEF AddSubscriber, AddFails
  <2> QED
    BY <2>1, <2>2 DEF AskOnce
<1>3. CASE RemoveSubscriber
  BY <1>3 DEF RemoveSubscriber, AskOnce
<1>4. CASE Broadcast \/ SkipBroadcast
  <2>1. /\ UNCHANGED <<client, subscribe, subscribers>>
        /\ \A c \in Client : c \notin subscribers => due'[c] = due[c]
    BY <1>4 DEF Broadcast, SkipBroadcast, Make
  <2> QED
    BY <2>1 DEF AskOnce
<1>5. CASE \E c \in Client : Read(c) \/ LeaveClient(c)
  <2>1. PICK c \in Client : Read(c) \/ LeaveClient(c)
    BY <1>5
  <2>2. UNCHANGED <<subscribe, due, subscribers>>
    BY <2>1 DEF Read, LeaveClient
  <2>3. client' = client \/ client' = [client EXCEPT ![c] = "gone"]
    BY <2>1 DEF Read, LeaveClient
  <2>4. \A d \in Client : client'[d] = "new" => client[d] = "new"
    BY <2>3
  <2> QED
    BY <2>2, <2>4 DEF AskOnce
<1>6. CASE DispatchOnBlock \/ Stop \/ Close
  BY <1>6 DEF DispatchOnBlock, Stop, Close, AskOnce
<1>7. CASE \E e \in Event, c \in Client : Notify(e, c)
  <2>1. UNCHANGED <<client, subscribe, due, subscribers>>
    BY <1>7 DEF Notify, Check, Push, SeesGone, Timeout, Cancel
  <2> QED
    BY <2>1 DEF AskOnce
<1> QED
  BY <1>1, <1>2, <1>3, <1>4, <1>5, <1>6, <1>7 DEF Next, Loop

(* Events are numbered as they are made, handed out once, and only then    *)
(* have notifiers.                                                         *)
LEMMA HandedOnceKept ==
  ASSUME IInv, Next
  PROVE  HandedOnce'
<1> USE DEF IInv, clientVars, loopVars
<1>0. /\ made \in Nat /\ events \in Seq(Event) /\ Event \subseteq Int
      /\ notifier \in [Event -> [Client -> States]]
  BY DEF TypeOK, Event, States
<1>1. CASE Broadcast
  <2>1. made' = made + 1 /\ made' \in Event /\ UNCHANGED notifier /\ events' = Append(events, made + 1)
    BY <1>0, <1>1 DEF Broadcast, Make, Event, TypeOK
  <2>2. made + 1 \notin ToSet(events)
    BY <1>0 DEF HandedOnce
  <2>3. IsInjective(events') /\ ToSet(events') = ToSet(events) \union {made + 1}
    BY <1>0, <2>1, <2>2, ChannelSend DEF HandedOnce
  <2>4. \A e \in ToSet(events) : e \in Int
    BY <1>0, ChannelContents
  <2>5. \A e \in ToSet(events') : e <= made'
    BY <1>0, <2>1, <2>3, <2>4 DEF HandedOnce
  <2>6. ASSUME NEW e \in Event, e \in ToSet(events') \/ e > made', NEW c \in Client
        PROVE  notifier'[e][c] = "none"
    <3>1. e \in ToSet(events) \/ e > made
      BY <1>0, <2>1, <2>3, <2>6
    <3> QED
      BY <2>1, <3>1 DEF HandedOnce
  <2> QED
    BY <2>3, <2>5, <2>6 DEF HandedOnce
<1>2. CASE SkipBroadcast
  <2>1. made' = made + 1 /\ UNCHANGED <<notifier, events>>
    BY <1>2 DEF SkipBroadcast, Make
  <2>2. \A e \in ToSet(events) : e \in Int
    BY <1>0, ChannelContents
  <2> QED
    BY <1>0, <2>1, <2>2 DEF HandedOnce
<1>3. CASE DispatchOnBlock
  <2>1. /\ Head(events) \in Event /\ UNCHANGED made
        /\ ToSet(events) = ToSet(events') \union {Head(events)}
        /\ IsInjective(events') /\ Head(events) \notin ToSet(events')
    BY <1>0, <1>3, ChannelReceive DEF DispatchOnBlock, HandedOnce
  <2>2. \A e \in Event \ {Head(events)} : notifier'[e] = notifier[e]
    BY <1>0, <1>3 DEF DispatchOnBlock
  <2>3. Head(events) <= made
    BY <2>1 DEF HandedOnce
  <2>4. \A e \in Event : e \in ToSet(events') \/ e > made' => e # Head(events)
    BY <1>0, <2>1, <2>3
  <2> QED
    BY <2>1, <2>2, <2>4 DEF HandedOnce
<1>4. CASE \E e \in Event, c \in Client : Notify(e, c)
  <2>1. PICK e \in Event, c \in Client : Notify(e, c)
    BY <1>4
  <2>2. UNCHANGED <<made, events>> /\ notifier[e][c] # "none"
    BY <2>1 DEF Notify, Check, Push, SeesGone, Timeout, Cancel
  <2>3. \A f \in Event, d \in Client : f # e \/ d # c => notifier'[f][d] = notifier[f][d]
    BY <1>0, <2>1, NotifyMoves, GoToType
  <2> QED
    BY <2>2, <2>3 DEF HandedOnce
<1>5. CASE \/ \E c \in Client : OnBlock(c) \/ Read(c) \/ LeaveClient(c)
           \/ AddSubscriber \/ AddFails \/ RemoveSubscriber \/ Stop \/ Close
  <2>1. UNCHANGED <<made, events, notifier>>
    BY <1>5 DEF OnBlock, Read, LeaveClient, AddSubscriber, AddFails, RemoveSubscriber, Stop, Close
  <2> QED
    BY <2>1 DEF HandedOnce
<1> QED
  BY <1>1, <1>2, <1>3, <1>4, <1>5 DEF Next, Loop

-----------------------------------------------------------------------------
Served(e, c) ==
  \/ e \in ToSet(events) \/ Waiting(e, c)
  \/ e \in received[c] \/ e \in ToSet(stream[c])
  \/ Cancelling(c)

(* What is served stays served while nothing is taken away from it. *)
LEMMA StaysServed ==
  ASSUME NoSilentMiss, subscribers' \subseteq subscribers, UNCHANGED <<due, skipped>>,
         \A c \in subscribers' : \A e \in due[c] : Served(e, c) => Served(e, c)'
  PROVE  NoSilentMiss'
  BY DEF NoSilentMiss, Served

(* A notifier ends only when its event is in the stream or the client's    *)
(* cancellation is in the channel.                                         *)
LEMMA NotifyServes ==
  ASSUME IInv, NEW e \in Event, NEW c \in Client, Notify(e, c)
  PROVE  NoSilentMiss'
<1> USE DEF IInv, clientVars, dueVars, loopVars
<1>0. /\ notifier \in [Event -> [Client -> States]] /\ stream \in [Client -> Seq(Event)]
      /\ unsubscribe \in Seq(Client) /\ subscribers \subseteq Client
      /\ due \in [Client -> SUBSET Event]
  BY DEF TypeOK, States
<1>1. UNCHANGED <<subscribers, due, skipped, received, events>>
  BY DEF Notify, Check, Push, SeesGone, Timeout, Cancel
<1>2. \A f \in Event, d \in Client : f # e \/ d # c => notifier'[f][d] = notifier[f][d]
  BY <1>0, NotifyMoves, GoToType
<1>3. \A s \in States : GoTo(e, c, s) => notifier'[e][c] = s
  BY <1>0, GoToType
<1>4. \A d \in Client : ToSet(stream[d]) \subseteq ToSet(stream'[d])
  <2>1. CASE Push(e, c)
    <3>1. ToSet(stream'[c]) = ToSet(stream[c]) \union {e}
      BY <1>0, <2>1, ChannelSend DEF Push
    <3>2. \A d \in Client \ {c} : stream'[d] = stream[d]
      BY <1>0, <2>1 DEF Push
    <3> QED
      BY <3>1, <3>2
  <2>2. CASE ~Push(e, c)
    BY <2>2 DEF Notify, Check, SeesGone, Timeout, Cancel
  <2> QED
    BY <2>1, <2>2
<1>5. ToSet(unsubscribe) \subseteq ToSet(unsubscribe')
  <2>1. CASE Cancel(e, c)
    BY <1>0, <2>1, ChannelSend DEF Cancel
  <2>2. CASE ~Cancel(e, c)
    BY <2>2 DEF Notify, Check, SeesGone, Timeout, Push
  <2> QED
    BY <2>1, <2>2
<1>6. \/ Push(e, c) /\ e \in ToSet(stream'[c]) /\ notifier[e][c] = "push"
      \/ Cancel(e, c) /\ c \in ToSet(unsubscribe')
      \/ notifier'[e][c] \in {"push", "cancel"} /\ notifier[e][c] \in {"check", "push"}
  <2>1. CASE Push(e, c)
    BY <1>0, <2>1, ChannelSend DEF Push
  <2>2. CASE Cancel(e, c)
    BY <1>0, <2>2, ChannelSend DEF Cancel
  <2>3. CASE Check(e, c) \/ SeesGone(e, c) \/ Timeout(e, c)
    BY <1>3, <2>3 DEF Check, Checked, SeesGone, Timeout, TimeoutCancels, States
  <2> QED
    BY <2>1, <2>2, <2>3 DEF Notify
<1>7. \A d \in Client : Cancelling(d) => Cancelling(d)'
  BY <1>2, <1>5, <1>6 DEF Cancelling
<1>8. \A d \in Client, f \in Event : Waiting(f, d) => Served(f, d)'
  BY <1>2, <1>6 DEF Waiting, Served, Cancelling
<1>9. \A d \in subscribers' : \A f \in due[d] : Served(f, d) => Served(f, d)'
  BY <1>0, <1>1, <1>4, <1>7, <1>8 DEF Served
<1> QED
  BY <1>1, <1>9, StaysServed

(* The client's own steps: a read moves an event from its stream to what   *)
(* it has received.                                                        *)
LEMMA ClientServes ==
  ASSUME IInv, NEW c \in Client, OnBlock(c) \/ Read(c) \/ LeaveClient(c)
  PROVE  NoSilentMiss'
<1> USE DEF IInv, clientVars, dueVars, loopVars
<1>0. /\ stream \in [Client -> Seq(Event)] /\ received \in [Client -> SUBSET Event]
      /\ subscribers \subseteq Client
  BY DEF TypeOK
<1>1. UNCHANGED <<subscribers, due, skipped, events, notifier, unsubscribe>>
  BY DEF OnBlock, Read, LeaveClient
<1>2. \A d \in Client : \A e \in received[d] \union ToSet(stream[d]) :
        e \in received'[d] \union ToSet(stream'[d])
  <2>1. CASE Read(c)
    <3>1. /\ stream[c] \in Seq(Event) /\ stream[c] # <<>>
          /\ stream'[c] = Tail(stream[c]) /\ received'[c] = received[c] \union {Head(stream[c])}
          /\ \A d \in Client \ {c} : stream'[d] = stream[d] /\ received'[d] = received[d]
      BY <1>0, <2>1 DEF Read
    <3>2. ToSet(stream[c]) = ToSet(stream'[c]) \union {Head(stream[c])}
      BY <3>1, ChannelReceive
    <3> QED
      BY <3>1, <3>2
  <2>2. CASE OnBlock(c) \/ LeaveClient(c)
    BY <2>2 DEF OnBlock, LeaveClient
  <2> QED
    BY <2>1, <2>2
<1>3. \A d \in Client : Cancelling(d) => Cancelling(d)'
  BY <1>1 DEF Cancelling
<1>4. \A d \in subscribers' : \A f \in due[d] : Served(f, d) => Served(f, d)'
  BY <1>0, <1>1, <1>2, <1>3 DEF Served, Waiting
<1> QED
  BY <1>1, <1>4, StaysServed

(* The loop: an event that waits in the channel is due to a new            *)
(* subscriber, a removed one need not be served, and an event handed out   *)
(* gets a notifier for each subscriber.                                    *)
LEMMA LoopServes ==
  ASSUME IInv, Loop \/ Close
  PROVE  NoSilentMiss'
<1> USE DEF IInv, clientVars, dueVars, loopVars
<1>0. /\ subscribers \subseteq Client /\ due \in [Client -> SUBSET Event]
      /\ notifier \in [Event -> [Client -> States]]
      /\ subscribe \in Seq(Client) /\ unsubscribe \in Seq(Client) /\ events \in Seq(Event)
  BY DEF TypeOK, States
<1>1. CASE AddSubscriber
  <2>1. UNCHANGED <<skipped, events, notifier, unsubscribe, stream, received>>
    BY <1>1 DEF AddSubscriber
  <2> DEFINE n == Head(subscribe)
  <2>2. /\ subscribe # <<>> /\ subscribers' = subscribers \union {n}
        /\ due' = [due EXCEPT ![n] = ToSet(events)]
    BY <1>1 DEF AddSubscriber
  <2>3. n \in Client
    BY <1>0, <2>2, ChannelReceive
  <2>4. due'[n] = ToSet(events) /\ \A d \in Client \ {n} : due'[d] = due[d]
    BY <1>0, <2>2, <2>3
  <2>5. \A d \in Client : Cancelling(d) => Cancelling(d)'
    BY <2>1 DEF Cancelling
  <2> HIDE DEF n
  <2>6. ASSUME NEW d \in subscribers', NEW f \in due'[d] \ skipped'
        PROVE  Served(f, d)'
    <3>1. CASE d = n
      BY <2>1, <2>4, <2>6, <3>1 DEF Served
    <3>2. CASE d # n
      <4>1. d \in subscribers /\ d \in Client /\ f \in due[d] \ skipped
        BY <1>0, <2>1, <2>2, <2>4, <3>2
      <4>2. Served(f, d)
        BY <4>1 DEF NoSilentMiss, Served
      <4> QED
        BY <2>1, <2>5, <4>1, <4>2 DEF Served, Waiting
    <3> QED
      BY <3>1, <3>2
  <2> QED
    BY <2>6 DEF NoSilentMiss, Served
<1>2. CASE RemoveSubscriber
  <2>1. UNCHANGED <<due, skipped, events, notifier, stream, received>>
    BY <1>2 DEF RemoveSubscriber
  <2>2. unsubscribe # <<>> /\ subscribers' = subscribers \ {Head(unsubscribe)}
        /\ unsubscribe' = Tail(unsubscribe)
    BY <1>2 DEF RemoveSubscriber
  <2>3. ToSet(unsubscribe) = ToSet(unsubscribe') \union {Head(unsubscribe)}
    BY <1>0, <2>2, ChannelReceive
  <2>4. \A d \in subscribers' : Cancelling(d) => Cancelling(d)'
    BY <2>1, <2>2, <2>3 DEF Cancelling
  <2>5. \A d \in subscribers' : \A f \in due[d] : Served(f, d) => Served(f, d)'
    BY <2>1, <2>4 DEF Served, Waiting
  <2> QED
    BY <2>1, <2>2, <2>5, StaysServed
<1>3. CASE DispatchOnBlock
  <2> DEFINE e == Head(events)
  <2>1. UNCHANGED <<subscribers, due, skipped, unsubscribe, stream, received>>
    BY <1>3 DEF DispatchOnBlock
  <2>2. /\ events # <<>> /\ events' = Tail(events)
        /\ notifier' = [notifier EXCEPT ![e] =
                          [c \in Client |-> IF c \in subscribers THEN "check" ELSE "none"]]
    BY <1>3 DEF DispatchOnBlock
  <2>3. /\ e \in Event /\ e \in ToSet(events)
        /\ ToSet(events) = ToSet(events') \union {e}
    BY <1>0, <2>2, ChannelReceive
  <2>4. \A d \in Client : notifier[e][d] = "none"
    BY <2>3 DEF HandedOnce
  <2> HIDE DEF e
  <2>5. \A f \in Event \ {e} : notifier'[f] = notifier[f]
    BY <1>0, <2>2
  <2>6. \A d \in subscribers : notifier'[e][d] = "check"
    BY <1>0, <2>2, <2>3
  <2>7. \A d \in Client : Cancelling(d) => Cancelling(d)'
    BY <2>1, <2>4, <2>5 DEF Cancelling
  <2>8. ASSUME NEW d \in subscribers', NEW f \in due[d], Served(f, d)
        PROVE  Served(f, d)'
    <3>1. d \in subscribers /\ d \in Client /\ f \in Event
      BY <1>0, <2>1
    <3>2. CASE f = e
      BY <2>6, <3>1, <3>2 DEF Served, Waiting
    <3>3. CASE f # e
      BY <2>1, <2>3, <2>5, <2>7, <2>8, <3>1, <3>3 DEF Served, Waiting
    <3> QED
      BY <3>2, <3>3
  <2> QED
    BY <2>1, <2>8, StaysServed
<1>4. CASE AddFails \/ Stop \/ Close
  <2>1. UNCHANGED <<subscribers, due, skipped, events, notifier, unsubscribe, stream, received>>
    BY <1>4 DEF AddFails, Stop, Close
  <2>2. \A d \in subscribers : \A f \in due[d] : Served(f, d) => Served(f, d)'
    BY <2>1 DEF Served, Waiting, Cancelling
  <2> QED
    BY <2>1, <2>2, StaysServed
<1> QED
  BY <1>1, <1>2, <1>3, <1>4 DEF Loop

(* The block dispatcher: an event due to every subscriber enters the       *)
(* channel or is skipped.                                                  *)
LEMMA BroadcastServes ==
  ASSUME IInv, Broadcast \/ SkipBroadcast
  PROVE  NoSilentMiss'
<1> USE DEF IInv, clientVars, dueVars, loopVars
<1>0. subscribers \subseteq Client /\ due \in [Client -> SUBSET Event] /\ events \in Seq(Event)
  BY DEF TypeOK
<1>1. /\ UNCHANGED <<subscribers, notifier, unsubscribe, stream, received>>
      /\ \A c \in subscribers : due'[c] = due[c] \union {made'}
  BY <1>0 DEF Broadcast, SkipBroadcast, Make
<1>2. /\ ToSet(events) \subseteq ToSet(events') /\ skipped \subseteq skipped'
      /\ made' \in ToSet(events') \/ made' \in skipped'
  <2>1. CASE Broadcast
    <3>1. made' \in Event /\ events' = Append(events, made')
      BY <2>1 DEF Broadcast, Make, Event, TypeOK
    <3> QED
      BY <1>0, <2>1, <3>1, ChannelSend DEF Broadcast
  <2>2. CASE SkipBroadcast
    BY <2>2 DEF SkipBroadcast
  <2> QED
    BY <2>1, <2>2
<1>3. ASSUME NEW d \in subscribers', NEW f \in due'[d] \ skipped'
      PROVE  Served(f, d)'
  <2>1. CASE f = made'
    BY <1>2, <1>3, <2>1 DEF Served
  <2>2. CASE f # made'
    <3>1. d \in subscribers /\ f \in due[d] \ skipped
      BY <1>1, <1>2, <1>3, <2>2
    <3>2. Served(f, d)
      BY <3>1 DEF NoSilentMiss, Served
    <3> QED
      BY <1>1, <1>2, <3>2 DEF Served, Waiting, Cancelling
  <2> QED
    BY <2>1, <2>2
<1> QED
  BY <1>3 DEF NoSilentMiss, Served

LEMMA NextInv == IInv /\ [Next]_vars => IInv'
<1> SUFFICES ASSUME IInv, [Next]_vars PROVE IInv'
  OBVIOUS
<1>1. TypeOK'
  BY NextType DEF IInv
<1>2. CASE UNCHANGED vars
  BY <1>1, <1>2 DEF vars, clientVars, dueVars, loopVars, IInv, AskOnce, HandedOnce, NoSilentMiss,
     Waiting, Cancelling
<1>3. CASE Next
  <2>1. NoSilentMiss'
    BY <1>3, BroadcastServes, ClientServes, LoopServes, NotifyServes DEF Next
  <2> QED
    BY <1>1, <1>3, <2>1, AskOnceKept, HandedOnceKept DEF IInv
<1> QED
  BY <1>2, <1>3

(* No subscriber misses in silence an event that was put in the channel of *)
(* the loop, with any number of clients, events and places in the          *)
(* channels: it is still there, with its notifier, in the stream, read, or *)
(* the subscription is being cancelled (sub_block.go:49-86).  Events the   *)
(* block dispatcher skips because that channel is full are not covered     *)
(* (dispatch_blk.go:88-92).                                                *)
THEOREM SilentMissExcluded == Spec => []NoSilentMiss
<1>1. IInv => NoSilentMiss
  BY DEF IInv
<1> QED
  BY <1>1, InitInv, NextInv, PTL DEF Spec

=============================================================================
