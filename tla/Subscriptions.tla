---------------------------- MODULE Subscriptions ----------------------------
(***************************************************************************)
(* The subscriptions of API clients to new blocks                          *)
(* (graphql/resolvers/root.go, sub_block.go); those to new transactions    *)
(* are served by the same loop with handlers of the same form.             *)
(*                                                                         *)
(* One goroutine runs the loop: it takes subscriptions, cancellations and  *)
(* events from their channels in any order.  Each event is handed to each  *)
(* subscriber by a goroutine of its own, the notifier, which gives up      *)
(* after a second and cancels the subscription then, or when the client    *)
(* has gone.                                                               *)
(***************************************************************************)
EXTENDS Integers, Sequences, FiniteSets, SequencesExt

CONSTANTS
  Client,
  MaxEvents,    \* bound: events, numbered in the order they are made
  EventCap,     \* capacity of onBlockEvents, 500
  QueueCap,     \* of the channels of subscriptions and cancellations, 100
  StreamCap,    \* of the channel of a client, 500
  MaxFailures   \* bound: identifiers that cannot be made

ASSUME SubscriptionsAssumption ==
  /\ {MaxEvents, MaxFailures} \subseteq Nat
  /\ {EventCap, QueueCap, StreamCap} \subseteq Nat \ {0}

Event == 1 .. MaxEvents

VARIABLES
  made,         \* events the block dispatcher has tried to broadcast
  events,       \* the channel onBlockEvents
  subscribe,    \* the channel subscribeOnBlock
  unsubscribe,  \* the channel unsubscribeOnBlock
  subscribers,  \* blockSubscribers
  loop,         \* "runs", "stopping" after the signal, "ended"
  client,       \* "new", "open" after its call of OnBlock, "gone"
  stream,       \* the channel of each client
  notifier,     \* what the goroutine of an event and a client does
  received,     \* history: what each client has read
  due,          \* history: events of the time of each subscriber, from those that
                \* wait in the channel when it is added on
  skipped,      \* history: events that were not broadcast
  failures

clientVars == <<client, received>>
dueVars == <<due, skipped>>
loopVars == <<subscribers, loop, failures>>
vars == <<made, events, subscribe, unsubscribe, stream, notifier, clientVars, dueVars, loopVars>>

(* Every variable in its range, no channel over its capacity. *)
TypeOK ==
  /\ made \in 0 .. MaxEvents
  /\ events \in Seq(Event) /\ Len(events) <= EventCap
  /\ subscribe \in Seq(Client) /\ Len(subscribe) <= QueueCap
  /\ unsubscribe \in Seq(Client) /\ Len(unsubscribe) <= QueueCap
  /\ subscribers \subseteq Client
  /\ loop \in {"runs", "stopping", "ended"}
  /\ client \in [Client -> {"new", "open", "gone"}]
  /\ stream \in [Client -> Seq(Event)] /\ \A c \in Client : Len(stream[c]) <= StreamCap
  /\ notifier \in [Event -> [Client -> {"none", "check", "push", "cancel", "done"}]]
  /\ received \in [Client -> SUBSET Event] /\ due \in [Client -> SUBSET Event]
  /\ skipped \subseteq Event
  /\ failures \in 0 .. MaxFailures

Init ==
  /\ made = 0 /\ events = <<>> /\ subscribe = <<>> /\ unsubscribe = <<>>
  /\ subscribers = {} /\ loop = "runs"
  /\ client = [c \in Client |-> "new"] /\ stream = [c \in Client |-> <<>>]
  /\ notifier = [e \in Event |-> [c \in Client |-> "none"]]
  /\ received = [c \in Client |-> {}] /\ due = [c \in Client |-> {}]
  /\ skipped = {}
  /\ failures = 0

-----------------------------------------------------------------------------
(* The block dispatcher broadcasts, or skips the event after 200 ms. *)

Make ==
  /\ made < MaxEvents /\ made' = made + 1
  /\ due' = [c \in Client |-> IF c \in subscribers THEN due[c] \union {made'} ELSE due[c]]

Broadcast ==
  /\ Make
  /\ Len(events) < EventCap /\ events' = Append(events, made')
  /\ UNCHANGED <<subscribe, unsubscribe, stream, notifier, clientVars, skipped, loopVars>>

SkipBroadcast ==
  /\ Make
  /\ Len(events) = EventCap /\ skipped' = skipped \union {made'}
  /\ UNCHANGED <<events, subscribe, unsubscribe, stream, notifier, clientVars, loopVars>>

-----------------------------------------------------------------------------
(* Clients subscribe, read and leave when they like. *)

OnBlock(c) ==
  /\ client[c] = "new" /\ client' = [client EXCEPT ![c] = "open"]
  /\ Len(subscribe) < QueueCap /\ subscribe' = Append(subscribe, c)
  /\ UNCHANGED <<made, events, unsubscribe, stream, notifier, received, dueVars, loopVars>>

Read(c) ==
  /\ client[c] = "open" /\ stream[c] # <<>>
  /\ stream' = [stream EXCEPT ![c] = Tail(@)]
  /\ received' = [received EXCEPT ![c] = @ \union {Head(stream[c])}]
  /\ UNCHANGED <<made, events, subscribe, unsubscribe, notifier, client, dueVars, loopVars>>

LeaveClient(c) ==
  /\ client[c] = "open" /\ client' = [client EXCEPT ![c] = "gone"]
  /\ UNCHANGED <<made, events, subscribe, unsubscribe, stream, notifier, received, dueVars, loopVars>>

-----------------------------------------------------------------------------
(* The loop.  While it runs, any channel that has something may be next,   *)
(* the stop signal too.                                                    *)

Running == loop # "ended"

AddSubscriber ==
  /\ Running /\ subscribe # <<>> /\ subscribe' = Tail(subscribe)
  /\ subscribers' = subscribers \union {Head(subscribe)}
  /\ due' = [due EXCEPT ![Head(subscribe)] = ToSet(events)]
  /\ UNCHANGED <<made, events, unsubscribe, stream, notifier, clientVars, skipped, loop, failures>>

(* Without an identifier the client is left waiting. *)
AddFails ==
  /\ Running /\ subscribe # <<>> /\ subscribe' = Tail(subscribe)
  /\ failures < MaxFailures /\ failures' = failures + 1
  /\ UNCHANGED <<made, events, unsubscribe, stream, notifier, clientVars, dueVars, subscribers, loop>>

RemoveSubscriber ==
  /\ Running /\ unsubscribe # <<>> /\ unsubscribe' = Tail(unsubscribe)
  /\ subscribers' = subscribers \ {Head(unsubscribe)}
  /\ UNCHANGED <<made, events, subscribe, stream, notifier, clientVars, dueVars, loop, failures>>

DispatchOnBlock ==
  /\ Running /\ events # <<>> /\ events' = Tail(events)
  /\ notifier' = [notifier EXCEPT ![Head(events)] =
                    [c \in Client |-> IF c \in subscribers THEN "check" ELSE "none"]]
  /\ UNCHANGED <<made, subscribe, unsubscribe, stream, clientVars, dueVars, loopVars>>

Close ==
  /\ loop = "runs" /\ loop' = "stopping"
  /\ UNCHANGED <<made, events, subscribe, unsubscribe, stream, notifier, clientVars,
                 dueVars, subscribers, failures>>

Stop ==
  /\ loop = "stopping" /\ loop' = "ended"
  /\ UNCHANGED <<made, events, subscribe, unsubscribe, stream, notifier, clientVars,
                 dueVars, subscribers, failures>>

-----------------------------------------------------------------------------
(* A notifier. *)

GoTo(e, c, s) == notifier' = [notifier EXCEPT ![e][c] = s]
Gone(c) == client[c] = "gone"

CheckedLeaving(c) == IF Gone(c) THEN "done" ELSE "push"
Checked(c) == IF Gone(c) THEN "cancel" ELSE "push"

Check(e, c) ==
  /\ notifier[e][c] = "check"
  /\ GoTo(e, c, Checked(c))
  /\ UNCHANGED <<made, events, subscribe, unsubscribe, stream, clientVars, dueVars, loopVars>>

NoRoomCheck(c) == TRUE
Room(c) == Len(stream[c]) < StreamCap

Push(e, c) ==
  /\ notifier[e][c] = "push" /\ Room(c)
  /\ stream' = [stream EXCEPT ![c] = Append(@, e)]
  /\ GoTo(e, c, "done")
  /\ UNCHANGED <<made, events, subscribe, unsubscribe, clientVars, dueVars, loopVars>>

SeesGone(e, c) ==
  /\ notifier[e][c] = "push" /\ Gone(c)
  /\ GoTo(e, c, "cancel")
  /\ UNCHANGED <<made, events, subscribe, unsubscribe, stream, clientVars, dueVars, loopVars>>

TimeoutEnds(e, c) == GoTo(e, c, "done")
TimeoutWaits(e, c) == UNCHANGED notifier
TimeoutCancels(e, c) == GoTo(e, c, "cancel")

Timeout(e, c) ==
  /\ notifier[e][c] = "push" /\ ~Room(c)
  /\ TimeoutCancels(e, c)
  /\ UNCHANGED <<made, events, subscribe, unsubscribe, stream, clientVars, dueVars, loopVars>>

Cancel(e, c) ==
  /\ notifier[e][c] = "cancel"
  /\ Len(unsubscribe) < QueueCap /\ unsubscribe' = Append(unsubscribe, c)
  /\ GoTo(e, c, "done")
  /\ UNCHANGED <<made, events, subscribe, stream, clientVars, dueVars, loopVars>>

Loop == AddSubscriber \/ AddFails \/ RemoveSubscriber \/ DispatchOnBlock \/ Stop
Notify(e, c) == Check(e, c) \/ Push(e, c) \/ SeesGone(e, c) \/ Timeout(e, c) \/ Cancel(e, c)

Next ==
  \/ Broadcast \/ SkipBroadcast
  \/ \E c \in Client : OnBlock(c) \/ Read(c) \/ LeaveClient(c)
  \/ Loop \/ Close
  \/ \E e \in Event, c \in Client : Notify(e, c)

Spec == Init /\ [][Next]_vars

(* The loop and the notifiers are goroutines of the server; a channel that *)
(* keeps something is chosen in the end.  Clients, blocks and the stop     *)
(* owe nothing.                                                            *)
FairSpec ==
  /\ Spec
  /\ WF_vars(AddSubscriber) /\ WF_vars(RemoveSubscriber) /\ WF_vars(DispatchOnBlock) /\ WF_vars(Stop)
  /\ \A e \in Event, c \in Client : WF_vars(Notify(e, c))

-----------------------------------------------------------------------------
Waiting(e, c) == notifier[e][c] \in {"check", "push", "cancel"}
Cancelling(c) ==
  \/ c \in ToSet(unsubscribe)
  \/ \E e \in Event : notifier[e][c] = "cancel"

(* No subscriber misses an event in silence, but for those the block       *)
(* dispatcher skips after 200 ms because the channel of the loop is full:  *)
(* each other event of its time is on its way to the loop, was read by the *)
(* client, is in its stream, or its notifier still waits, or its           *)
(* subscription is cancelled or about to be.  (dispatch_blk.go:88-92;      *)
(* sub_block.go:76, "timeout reached without response? just remove the     *)
(* subscriber")                                                            *)
NoSilentMiss ==
  \A c \in subscribers : \A e \in due[c] \ skipped :
    \/ e \in ToSet(events) \/ Waiting(e, c)
    \/ e \in received[c] \/ e \in ToSet(stream[c])
    \/ Cancelling(c)

(* A client that reads nothing holds nobody up: each notifier ends, and    *)
(* each event is handed out, unless the server stops.                      *)
(* (sub_block.go:50, "broadcast the event in separate go routines so we    *)
(* don't block here")                                                      *)
NobodyHeldUp ==
  /\ \A e \in Event : e \in ToSet(events) ~> e \notin ToSet(events) \/ loop = "ended"
  /\ \A e \in Event, c \in Client : Waiting(e, c) ~> ~Waiting(e, c) \/ loop = "ended"

(* A subscriber that has gone is removed with the next event that is       *)
(* handed out: nothing more is held for it after that.                     *)
(* (sub_block.go:58, "check if the context isn't already closed in which   *)
(* case we just unsub and leave")                                          *)
GoneRemoved ==
  \A e \in Event, c \in Client :
    notifier[e][c] = "check" /\ Gone(c) ~> c \notin subscribers \/ loop = "ended"

=============================================================================
