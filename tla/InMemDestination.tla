------------------------- MODULE InMemDestination -------------------------
(***************************************************************************)
(* src/asynchronous/inmemory.rs.  A destination is a task that owns the    *)
(* subscriptions and handles one DestinationAction at a time, and handles, *)
(* cloned freely, that queue actions for it.  Fanning a message out is not *)
(* atomic: sessions take events, die and queue further actions between two *)
(* iterations of the loop of InMemDestinationBackend::send.                *)
(*                                                                         *)
(* The action in hand stays at the head of actions[d] until it has been    *)
(* handled; nobody but the task looks at the queue.                        *)
(***************************************************************************)
EXTENDS ClientProxy

VARIABLES
    backend,        \* backend[d]: what the task of d is doing
    actions,        \* actions[d]: the channel of DestinationActions of d
    issued,         \* the Subscriptions ever made; a uuid is a position in it
    subscriptions,  \* subscriptions[d]: the ids in the HashMap of the task of d
    todo,           \* todo[d]: the ids the loop of send has yet to visit
    dead,           \* dead[d]: dead_subscriptions, the ids whose send failed
    log             \* log[d]: what the task of d did, in order (history)

destVars == <<backend, actions, issued, subscriptions, todo, dead, log>>
proxyVars == <<inbox, seen>>

Subscription == [client : Clients, dest : Destinations, sub : SubIds]
Ids == 1 .. Len(issued)

SubscribeAction(c, s) == [type |-> "Subscribe", client |-> c, sub |-> s]
UnsubscribeAction(c, i) == [type |-> "Unsubscribe", client |-> c, id |-> i]
SendAction(m) == [type |-> "Send", message |-> m]
CloseAction == [type |-> "Close"]

DestinationAction ==
    [type : {"Subscribe"}, client : Clients, sub : SubIds]
    \cup [type : {"Unsubscribe"}, client : Clients, id : Nat]
    \cup [type : {"Send"}, message : Messages]
    \cup {CloseAction}

Joined(i) == [type |-> "Joined", id |-> i]
Left(i) == [type |-> "Left", id |-> i]
Sent(m) == [type |-> "Sent", message |-> m]

LogEntry == [type : {"Joined", "Left"}, id : Nat] \cup [type : {"Sent"}, message : Messages]

BackendState == {"absent", "listening", "sending", "closed", "panicked"}

DestTypeOK ==
    /\ backend \in [Destinations -> BackendState]
    /\ actions \in [Destinations -> ChannelOf(DestinationAction)]
    /\ issued \in Seq(Subscription)
    /\ subscriptions \in [Destinations -> SUBSET Ids]
    /\ todo \in [Destinations -> SUBSET Ids]
    /\ dead \in [Destinations -> SUBSET Ids]
    /\ log \in [Destinations -> Seq(LogEntry)]

DestInit ==
    /\ backend = [d \in Destinations |-> "absent"]
    /\ actions = [d \in Destinations |-> Dropped]
    /\ issued = <<>>
    /\ subscriptions = [d \in Destinations |-> {}]
    /\ todo = [d \in Destinations |-> {}]
    /\ dead = [d \in Destinations |-> {}]
    /\ log = [d \in Destinations |-> <<>>]

Stopped(d) == backend[d] \in {"closed", "panicked"}

-----------------------------------------------------------------------------
(* The handle.                                                             *)

\* InMemDestination::create: a channel and a task listening on it.
Create(d) ==
    /\ backend[d] = "absent"
    /\ backend' = [backend EXCEPT ![d] = "listening"]
    /\ actions' = [actions EXCEPT ![d] = NewChannel]
    /\ UNCHANGED <<issued, subscriptions, todo, dead, log>>

PerformAction(d, a) == actions' = [actions EXCEPT ![d] = Push(@, a)]

\* Destination::subscribe: the error comes back through the callback.
Subscribe(d, c, s) ==
    /\ PerformAction(d, SubscribeAction(c, s))
    /\ IF actions[d].open THEN UNCHANGED inbox
                          ELSE SendEvent(c, Subscribed(d, s, Failed))

\* Destination::unsubscribe.  On a destination that stopped, the callback is
\* unsubscribe_callback(None, Err), on which AsyncStompClient panics in the
\* task of its caller: UnsubscribePanics.
Unsubscribe(d, c, i) ==
    /\ actions[d].open
    /\ PerformAction(d, UnsubscribeAction(c, i))
UnsubscribePanics(d) == ~actions[d].open

\* Destination::send; AsyncStompClient::send_callback ignores its result.
Send(d, m) == PerformAction(d, SendAction(m))

\* Destination::close
CloseHandle(d) == PerformAction(d, CloseAction)

-----------------------------------------------------------------------------
(* The task: InMemDestinationBackend::listen_on.                           *)

Handling(d, type) == /\ backend[d] = "listening"
                     /\ Ready(actions[d])
                     /\ First(actions[d]).type = type

Handled(d) == actions' = [actions EXCEPT ![d] = Pop(@)]

Record(d, entry) == log' = [log EXCEPT ![d] = Append(@, entry)]

\* The task ends, by itself or by a panic: receiver and HashMap are dropped.
Stop(d, how) ==
    /\ backend' = [backend EXCEPT ![d] = how]
    /\ actions' = [actions EXCEPT ![d] = Dropped]
    /\ subscriptions' = [subscriptions EXCEPT ![d] = {}]
    /\ UNCHANGED <<issued, todo, dead>>

\* Mutant: the id in the HashMap is another one than the callback is given.
AddSubscriptionTwoIds(d) ==
    LET a == First(actions[d])
        i == Len(issued) + 1
    IN  /\ Handling(d, "Subscribe")
        /\ issued' = Append(issued, [client |-> a.client, dest |-> d, sub |-> a.sub])
        /\ subscriptions' = [subscriptions EXCEPT ![d] = @ \cup {i + 1}]
        /\ SendEvent(a.client, Subscribed(d, a.sub, i))
        /\ Record(d, Joined(i))
        /\ Handled(d)
        /\ UNCHANGED <<backend, todo, dead, seen>>

\* Mutant: the callback is not called.
AddSubscriptionSilently(d) ==
    LET a == First(actions[d])
        i == Len(issued) + 1
    IN  /\ Handling(d, "Subscribe")
        /\ issued' = Append(issued, [client |-> a.client, dest |-> d, sub |-> a.sub])
        /\ subscriptions' = [subscriptions EXCEPT ![d] = @ \cup {i}]
        /\ Record(d, Joined(i))
        /\ Handled(d)
        /\ UNCHANGED <<backend, todo, dead, proxyVars>>

\* add_subscription: a fresh uuid, and the callback with it.  The subscriber
\* may be gone by now; the subscription is made all the same.
AddSubscription(d) ==
    LET a == First(actions[d])
        i == Len(issued) + 1
    IN  /\ Handling(d, "Subscribe")
        /\ issued' = Append(issued, [client |-> a.client, dest |-> d, sub |-> a.sub])
        /\ subscriptions' = [subscriptions EXCEPT ![d] = @ \cup {i}]
        /\ SendEvent(a.client, Subscribed(d, a.sub, i))
        /\ Record(d, Joined(i))
        /\ Handled(d)
        /\ UNCHANGED <<backend, todo, dead, seen>>

\* Mutant: HashMap::get instead of HashMap::remove.
RemoveSubscriptionKeepsIt(d) ==
    LET a == First(actions[d])
    IN  /\ Handling(d, "Unsubscribe")
        /\ a.id \in subscriptions[d]
        /\ SendEvent(a.client, Unsubscribed(issued[a.id].sub, a.id))
        /\ Record(d, Left(a.id))
        /\ Handled(d)
        /\ UNCHANGED <<backend, issued, subscriptions, todo, dead, seen>>

\* Mutant: the callback is not called.
RemoveSubscriptionSilently(d) ==
    LET a == First(actions[d])
    IN  /\ Handling(d, "Unsubscribe")
        /\ a.id \in subscriptions[d]
        /\ subscriptions' = [subscriptions EXCEPT ![d] = @ \ {a.id}]
        /\ Record(d, Left(a.id))
        /\ Handled(d)
        /\ UNCHANGED <<backend, issued, todo, dead, proxyVars>>

\* remove_subscription, for a subscription that is there: the callback gets
\* the subscriber's own id, taken from the Subscription removed.
RemoveSubscription(d) ==
    LET a == First(actions[d])
    IN  /\ Handling(d, "Unsubscribe")
        /\ a.id \in subscriptions[d]
        /\ subscriptions' = [subscriptions EXCEPT ![d] = @ \ {a.id}]
        /\ SendEvent(a.client, Unsubscribed(issued[a.id].sub, a.id))
        /\ Record(d, Left(a.id))
        /\ Handled(d)
        /\ UNCHANGED <<backend, issued, todo, dead, seen>>

\* remove_subscription, for one that is not: the callback gets None and Ok,
\* and unwrap_subscriber_sub_id of AsyncStompClient panics in this task.
RemoveUnknownSubscription(d) ==
    /\ Handling(d, "Unsubscribe")
    /\ First(actions[d]).id \notin subscriptions[d]
    /\ Stop(d, "panicked")
    /\ UNCHANGED <<log, proxyVars>>

\* send, up to the loop over the subscriptions.
BeginSend(d) ==
    /\ Handling(d, "Send")
    /\ backend' = [backend EXCEPT ![d] = "sending"]
    /\ todo' = [todo EXCEPT ![d] = subscriptions[d]]
    /\ Record(d, Sent(First(actions[d]).message))
    /\ UNCHANGED <<actions, issued, subscriptions, dead, proxyVars>>

\* Mutant: is_ok for is_err, so that the living are taken for dead.
SendToInverted(d, i) ==
    LET c == issued[i].client
    IN  /\ backend[d] = "sending"
        /\ todo' = [todo EXCEPT ![d] = @ \ {i}]
        /\ SendEvent(c, ServerMessage(issued[i].sub, i, First(actions[d]).message))
        /\ dead' = IF Alive(c) THEN [dead EXCEPT ![d] = @ \cup {i}] ELSE dead
        /\ UNCHANGED <<backend, actions, issued, subscriptions, log, seen>>

\* One iteration: the HashMap yields its values in any order.
SendTo(d, i) ==
    LET c == issued[i].client
    IN  /\ backend[d] = "sending"
        /\ todo' = [todo EXCEPT ![d] = @ \ {i}]
        /\ SendEvent(c, ServerMessage(issued[i].sub, i, First(actions[d]).message))
        /\ dead' = IF Alive(c) THEN dead ELSE [dead EXCEPT ![d] = @ \cup {i}]
        /\ UNCHANGED <<backend, actions, issued, subscriptions, log, seen>>

\* After the loop: the dead are removed; the send callback does nothing.
EndSend(d) ==
    /\ backend[d] = "sending"
    /\ todo[d] = {}
    /\ backend' = [backend EXCEPT ![d] = "listening"]
    /\ subscriptions' = [subscriptions EXCEPT ![d] = @ \ dead[d]]
    /\ dead' = [dead EXCEPT ![d] = {}]
    /\ Handled(d)
    /\ UNCHANGED <<issued, todo, log, proxyVars>>

\* DestinationAction::Close: whatever is queued behind it is dropped.
CloseBackend(d) ==
    /\ Handling(d, "Close")
    /\ Stop(d, "closed")
    /\ UNCHANGED <<log, proxyVars>>

Backend(d) ==
    \/ AddSubscription(d)
    \/ RemoveSubscription(d)
    \/ RemoveUnknownSubscription(d)
    \/ BeginSend(d)
    \/ \E i \in todo[d] : SendTo(d, i)
    \/ EndSend(d)
    \/ CloseBackend(d)

-----------------------------------------------------------------------------
(* What the loop of send relies on.                                        *)

\* The message a destination is fanning out is the action in its hand.
SendInHand ==
    \A d \in Destinations : backend[d] = "sending" =>
        Ready(actions[d]) /\ First(actions[d]).type = "Send"

\* The ids that send has given up belong to sessions that are gone.
DeadAreGone ==
    \A d \in Destinations : \A i \in dead[d] : ~Alive(issued[i].client)

-----------------------------------------------------------------------------
(* What a destination owes its subscribers.                                *)

\* What a session was sent and, unless it has ended, has got or will get.
Told(c) == seen[c] \o inbox[c].queue

\* The events about subscription i, and those that its client has been sent, in
\* order.
About(i) == [type : {"Subscribed"}, dest : Destinations, sub : SubIds, result : {i}]
            \cup [type : {"Unsubscribed"}, sub : SubIds, result : {i}]
            \cup [type : {"ServerMessage"}, sub : SubIds, id : {i}, message : Messages]
Delivered(i) == Selected(Told(issued[i].client), About(i))

\* A log from the moment it joined to the moment it left, without the comings and
\* goings of the others.
Own(i) == {Joined(i), Left(i)} \cup {Sent(m) : m \in Messages}
During(history, i) ==
    LET from == CHOOSE k \in DOMAIN history : history[k] = Joined(i)
        leave == {k \in DOMAIN history : history[k] = Left(i)}
        to == IF leave = {} THEN Len(history) ELSE CHOOSE k \in leave : TRUE
    IN  Selected(SubSeq(history, from, to), Own(i))
Membership(i) == During(log[issued[i].dest], i)

\* A log in which it joins once, and one in which it leaves.
JoinsOnce(history, i) ==
    \E k \in DOMAIN history : \A l \in DOMAIN history : history[l] = Joined(i) <=> l = k
LeavesIn(history, i) == \E k \in DOMAIN history : history[k] = Left(i)

\* The events it is due: one for each entry of that in the log of its destination.
\* It is not owed the one that the loop of send has yet to hand it.
EventFor(i, e) == CASE e.type = "Joined" -> Subscribed(issued[i].dest, issued[i].sub, i)
                    [] e.type = "Sent" -> ServerMessage(issued[i].sub, i, e.message)
                    [] e.type = "Left" -> Unsubscribed(issued[i].sub, i)
Due(i) == [k \in DOMAIN Membership(i) |-> EventFor(i, Membership(i)[k])]
Owed(i) == IF i \in todo[issued[i].dest] THEN SubSeq(Due(i), 1, Len(Due(i)) - 1) ELSE Due(i)

\* What its client was sent is what it is owed, or begins it if the client is gone.
Follows(i) ==
    IF Alive(issued[i].client)
    THEN Delivered(i) = Owed(i)
    ELSE /\ Len(Delivered(i)) <= Len(Owed(i))
         /\ Delivered(i) = SubSeq(Owed(i), 1, Len(Delivered(i)))

\* Every subscriber is told that it is subscribed, then gets every message the
\* destination handled since, in the destination's order, once, and after the
\* answer to its unsubscribe nothing more (add_subscription, send and
\* remove_subscription, whatever happens between two iterations of the loop
\* of send).  It may only lag behind while that loop has yet to reach it, or
\* because its session is gone, and then it has a prefix.
SubscriptionFollowsLog == \A i \in Ids : Follows(i)

\* A subscription disappears from the HashMap of a destination only because
\* its own client unsubscribed it, because its session is gone, or because
\* the destination stopped: the pruning after the loop of send never takes a
\* live one.
LostOnlyForCause ==
    [][\A d \in Destinations : \A i \in subscriptions[d] \ subscriptions'[d] :
          \/ ~Alive(issued[i].client)
          \/ First(actions[d]) = UnsubscribeAction(issued[i].client, i)
          \/ Stopped(d)']_<<destVars, proxyVars>>
=============================================================================
