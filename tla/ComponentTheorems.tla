-------------------------- MODULE ComponentTheorems --------------------------
(***************************************************************************)
(* What the building blocks of ClientSession and InMemDestination do to    *)
(* the channels of sessions and destinations, and that the tasks of both   *)
(* keep the types of their variables, whoever sends to them and calls the  *)
(* handles.                                                                *)
(***************************************************************************)
EXTENDS InMemDestination, ClientSession, ChannelTheorems

-----------------------------------------------------------------------------
(* Events and actions.                                                     *)

\* What AsyncStompClient makes of its arguments are events.
LEMMA EventTypes ==
    ASSUME NEW d \in Destinations, NEW s \in SubIds, NEW r \in Nat, NEW m \in Messages
    PROVE  /\ Subscribed(d, s, r) \in ClientEvent
           /\ Unsubscribed(s, r) \in ClientEvent
           /\ ServerMessage(s, r, m) \in ClientEvent
BY DEF Subscribed, Unsubscribed, ServerMessage, ClientEvent

\* The two events without a payload (client.rs, ClientEvent) are events too.
LEMMA SimpleEventTypes == Error \in ClientEvent /\ Close \in ClientEvent
BY DEF ClientEvent

\* Events of a session have the fields their handlers use.
LEMMA EventFields ==
    ASSUME NEW e \in ClientEvent
    PROVE  /\ e.type = "Subscribed" => /\ e.dest \in Destinations /\ e.sub \in SubIds
                                       /\ e.result \in Nat
                                       /\ e = Subscribed(e.dest, e.sub, e.result)
           /\ e.type = "Unsubscribed" => /\ e.sub \in SubIds /\ e.result \in Nat
                                         /\ e = Unsubscribed(e.sub, e.result)
           /\ e.type = "ServerMessage" => /\ e.sub \in SubIds /\ e.id \in Nat
                                          /\ e.message \in Messages
           /\ e.type = "Error" => e = Error
           /\ e.type = "Close" => e = Close
BY DEF ClientEvent, Error, Close, Subscribed, Unsubscribed

\* What an InMemDestination makes of its arguments are actions.
LEMMA ActionTypes ==
    ASSUME NEW c \in Clients, NEW s \in SubIds, NEW i \in Nat, NEW m \in Messages
    PROVE  /\ SubscribeAction(c, s) \in DestinationAction
           /\ UnsubscribeAction(c, i) \in DestinationAction
           /\ SendAction(m) \in DestinationAction
BY DEF SubscribeAction, UnsubscribeAction, SendAction, DestinationAction

\* Closing, the action without a payload, is an action of the typed set too.
LEMMA CloseActionType == CloseAction \in DestinationAction
BY DEF DestinationAction

\* A Send at the head of the queue carries a message.
LEMMA SendActionTypes ==
    ASSUME DestTypeOK, NEW d \in Destinations,
           Ready(actions[d]), First(actions[d]).type = "Send"
    PROVE  First(actions[d]).message \in Messages
<1>1. First(actions[d]) \in DestinationAction
  BY PopProperties DEF DestTypeOK
<1> QED
  BY <1>1 DEF DestinationAction, CloseAction

\* The subscriptions ever made have a client, a destination and the client's id.
LEMMA IssuedTypes ==
    ASSUME DestTypeOK, NEW i \in Ids
    PROVE  /\ i \in Nat /\ i # 0
           /\ issued[i].client \in Clients
           /\ issued[i].dest \in Destinations
           /\ issued[i].sub \in SubIds
<1>1. issued \in Seq(Subscription) /\ i \in 1 .. Len(issued)
  BY DEF DestTypeOK, Ids
<1>2. issued[i] \in Subscription
  BY <1>1
<1> QED
  BY <1>1, <1>2 DEF Subscription

-----------------------------------------------------------------------------
(* Channels.                                                               *)

\* send_event touches the channel of one session, adds at most the one event,
\* and opens or closes nothing.
LEMMA SendEventEffect ==
    ASSUME ProxyTypeOK, NEW c \in Clients, NEW e \in ClientEvent, SendEvent(c, e)
    PROVE  /\ inbox' \in [Clients -> ChannelOf(ClientEvent)]
           /\ inbox'[c] = Push(inbox[c], e)
           /\ \A x \in Clients : /\ x # c => inbox'[x] = inbox[x]
                                 /\ inbox'[x].open = inbox[x].open
                                 /\ Pending(inbox[x]) \subseteq Pending(inbox'[x])
                                 /\ Pending(inbox'[x]) \subseteq Pending(inbox[x]) \cup {e}
                                 /\ ~Alive(x) => inbox'[x] = inbox[x]
           /\ Alive(c) => e \in Pending(inbox'[c])
<1>1. /\ inbox \in [Clients -> ChannelOf(ClientEvent)]
      /\ inbox' = [inbox EXCEPT ![c] = Push(inbox[c], e)]
  BY DEF ProxyTypeOK, SendEvent
<1>2. /\ Push(inbox[c], e) \in ChannelOf(ClientEvent)
      /\ Push(inbox[c], e).open = inbox[c].open
      /\ Pending(inbox[c]) \subseteq Pending(Push(inbox[c], e))
      /\ Pending(Push(inbox[c], e)) \subseteq Pending(inbox[c]) \cup {e}
      /\ inbox[c].open => e \in Pending(Push(inbox[c], e))
      /\ ~inbox[c].open => Push(inbox[c], e) = inbox[c]
  <2>1. inbox[c] \in ChannelOf(ClientEvent)
    BY <1>1
  <2> QED
    BY <2>1, PushProperties
<1> QED
  BY <1>1, <1>2 DEF Alive

\* Taking an event removes it, and nothing else.
LEMMA TakeEventEffect ==
    ASSUME ProxyTypeOK, NEW c \in Clients, Ready(inbox[c]), TakeEvent(c)
    PROVE  /\ inbox' \in [Clients -> ChannelOf(ClientEvent)]
           /\ seen' \in [Clients -> Seq(ClientEvent)]
           /\ inbox'[c] = Pop(inbox[c])
           /\ NextEvent(c) \in ClientEvent
           /\ NextEvent(c) \in Pending(inbox[c])
           /\ Pending(inbox[c]) \subseteq Pending(inbox'[c]) \cup {NextEvent(c)}
           /\ \A x \in Clients : /\ x # c => inbox'[x] = inbox[x]
                                 /\ inbox'[x].open = inbox[x].open
                                 /\ Pending(inbox'[x]) \subseteq Pending(inbox[x])
<1>1. /\ inbox \in [Clients -> ChannelOf(ClientEvent)]
      /\ inbox' = [inbox EXCEPT ![c] = Pop(inbox[c])]
      /\ seen \in [Clients -> Seq(ClientEvent)]
      /\ seen' = [seen EXCEPT ![c] = Append(seen[c], NextEvent(c))]
  BY DEF ProxyTypeOK, TakeEvent
<1>2. /\ Pop(inbox[c]) \in ChannelOf(ClientEvent)
      /\ Pop(inbox[c]).open = inbox[c].open
      /\ NextEvent(c) \in ClientEvent
      /\ NextEvent(c) \in Pending(inbox[c])
      /\ Pending(Pop(inbox[c])) \subseteq Pending(inbox[c])
      /\ Pending(inbox[c]) \subseteq Pending(Pop(inbox[c])) \cup {NextEvent(c)}
  <2>1. inbox[c] \in ChannelOf(ClientEvent)
    BY <1>1
  <2> QED
    BY <2>1, PopProperties DEF NextEvent
<1>3. seen' \in [Clients -> Seq(ClientEvent)]
  BY <1>1, <1>2
<1> QED
  BY <1>1, <1>2, <1>3

\* A session that ends closes its channel, and drops what is in it.
LEMMA DropInboxEffect ==
    ASSUME ProxyTypeOK, NEW c \in Clients, DropInbox(c)
    PROVE  /\ inbox' \in [Clients -> ChannelOf(ClientEvent)]
           /\ Pending(inbox'[c]) = {} /\ ~inbox'[c].open
           /\ \A x \in Clients : /\ x # c => inbox'[x] = inbox[x]
                                 /\ Pending(inbox'[x]) \subseteq Pending(inbox[x])
<1>1. /\ inbox \in [Clients -> ChannelOf(ClientEvent)]
      /\ inbox' = [inbox EXCEPT ![c] = Dropped]
  BY DEF ProxyTypeOK, DropInbox
<1> QED
  BY <1>1, EmptyChannels

\* perform_action adds at most the one action, for the one destination.
LEMMA PerformActionEffect ==
    ASSUME DestTypeOK, NEW d \in Destinations, NEW a \in DestinationAction,
           PerformAction(d, a)
    PROVE  /\ actions' \in [Destinations -> ChannelOf(DestinationAction)]
           /\ \A x \in Destinations : /\ x # d => actions'[x] = actions[x]
                                      /\ Pending(actions'[x]) \subseteq Pending(actions[x]) \cup {a}
                                      /\ Ready(actions[x]) =>
                                           /\ Ready(actions'[x])
                                           /\ First(actions'[x]) = First(actions[x])
<1>1. /\ actions \in [Destinations -> ChannelOf(DestinationAction)]
      /\ actions' = [actions EXCEPT ![d] = Push(actions[d], a)]
  BY DEF DestTypeOK, PerformAction
<1>2. /\ Push(actions[d], a) \in ChannelOf(DestinationAction)
      /\ Pending(Push(actions[d], a)) \subseteq Pending(actions[d]) \cup {a}
      /\ Ready(actions[d]) => /\ Ready(Push(actions[d], a))
                              /\ First(Push(actions[d], a)) = First(actions[d])
  <2>1. actions[d] \in ChannelOf(DestinationAction)
    BY <1>1
  <2> QED
    BY <2>1, PushProperties
<1> QED
  BY <1>1, <1>2

\* An action handled is removed, and nothing is added.
LEMMA HandledEffect ==
    ASSUME DestTypeOK, NEW d \in Destinations, Ready(actions[d]), Handled(d)
    PROVE  /\ actions' \in [Destinations -> ChannelOf(DestinationAction)]
           /\ First(actions[d]) \in DestinationAction
           /\ First(actions[d]) \in Pending(actions[d])
           /\ \A x \in Destinations : Pending(actions'[x]) \subseteq Pending(actions[x])
<1>1. /\ actions \in [Destinations -> ChannelOf(DestinationAction)]
      /\ actions' = [actions EXCEPT ![d] = Pop(actions[d])]
  BY DEF DestTypeOK, Handled
<1>2. /\ Pop(actions[d]) \in ChannelOf(DestinationAction)
      /\ First(actions[d]) \in DestinationAction
      /\ First(actions[d]) \in Pending(actions[d])
      /\ Pending(Pop(actions[d])) \subseteq Pending(actions[d])
  <2>1. actions[d] \in ChannelOf(DestinationAction)
    BY <1>1
  <2> QED
    BY <2>1, PopProperties
<1> QED
  BY <1>1, <1>2

\* A destination that is listening and has something to do, knows what.
LEMMA HandlingTypes ==
    ASSUME DestTypeOK, NEW d \in Destinations, NEW type, Handling(d, type)
    PROVE  /\ Ready(actions[d])
           /\ First(actions[d]) \in DestinationAction
           /\ First(actions[d]) \in Pending(actions[d])
           /\ First(actions[d]).type = type
           /\ type = "Subscribe" => /\ First(actions[d]).client \in Clients
                                    /\ First(actions[d]).sub \in SubIds
           /\ type = "Unsubscribe" => /\ First(actions[d]).client \in Clients
                                      /\ First(actions[d]).id \in Nat
           /\ type = "Send" => First(actions[d]).message \in Messages
<1>1. /\ Ready(actions[d]) /\ First(actions[d]).type = type
      /\ actions[d] \in ChannelOf(DestinationAction)
  BY DEF Handling, DestTypeOK
<1>2. First(actions[d]) \in DestinationAction /\ First(actions[d]) \in Pending(actions[d])
  BY <1>1, PopProperties
<1> QED
  BY <1>1, <1>2 DEF DestinationAction, CloseAction

-----------------------------------------------------------------------------
(* The task.                                                               *)

\* Every step of a destination's task preserves types.
LEMMA BackendTypes ==
    ASSUME ProxyTypeOK, DestTypeOK, SendInHand, NEW d \in Destinations, Backend(d)
    PROVE  ProxyTypeOK' /\ DestTypeOK'
<1>1. CASE AddSubscription(d)
  <2> DEFINE a == First(actions[d])
             i == Len(issued) + 1
  <2>1. /\ Ready(actions[d]) /\ a.client \in Clients /\ a.sub \in SubIds
        /\ i \in Nat
    BY <1>1, HandlingTypes DEF AddSubscription, DestTypeOK
  <2>2. /\ inbox' \in [Clients -> ChannelOf(ClientEvent)]
        /\ actions' \in [Destinations -> ChannelOf(DestinationAction)]
    <3>1. Subscribed(d, a.sub, i) \in ClientEvent
      BY <2>1 DEF Subscribed, ClientEvent
    <3> QED
      BY <1>1, <2>1, <3>1, SendEventEffect, HandledEffect DEF AddSubscription
  <2>3. issued' \in Seq(Subscription) /\ Len(issued') = i /\ Len(issued) \in Nat
    BY <1>1, <2>1 DEF AddSubscription, DestTypeOK, Subscription
  <2>4. Ids \subseteq Ids' /\ i \in Ids'
    BY <2>3 DEF Ids
  <2>5. log' \in [Destinations -> Seq(LogEntry)]
    BY <1>1, <2>1 DEF AddSubscription, Record, Joined, LogEntry, DestTypeOK
  <2> QED
    BY <1>1, <2>2, <2>3, <2>4, <2>5 DEF AddSubscription, ProxyTypeOK, DestTypeOK
<1>2. CASE RemoveSubscription(d)
  <2> DEFINE a == First(actions[d])
  <2>1. Ready(actions[d]) /\ a.client \in Clients /\ a.id \in Nat
    BY <1>2, HandlingTypes DEF RemoveSubscription
  <2>4. a.id \in Ids /\ issued[a.id].sub \in SubIds
    <3>1. a.id \in Ids
      BY <1>2 DEF RemoveSubscription, DestTypeOK
    <3> QED
      BY <3>1, IssuedTypes
  <2>2. /\ inbox' \in [Clients -> ChannelOf(ClientEvent)]
        /\ actions' \in [Destinations -> ChannelOf(DestinationAction)]
    <3>1. Unsubscribed(issued[a.id].sub, a.id) \in ClientEvent
      BY <2>1, <2>4 DEF Unsubscribed, ClientEvent
    <3> QED
      BY <1>2, <2>1, <3>1, SendEventEffect, HandledEffect DEF RemoveSubscription
  <2>3. log' \in [Destinations -> Seq(LogEntry)]
    BY <1>2, <2>1 DEF RemoveSubscription, Record, Left, LogEntry, DestTypeOK
  <2> QED
    BY <1>2, <2>2, <2>3 DEF RemoveSubscription, ProxyTypeOK, DestTypeOK, Ids
<1>3. CASE RemoveUnknownSubscription(d)
  BY <1>3, EmptyChannels
     DEF RemoveUnknownSubscription, Stop, proxyVars, ProxyTypeOK, DestTypeOK, BackendState, Ids
<1>4. CASE BeginSend(d)
  <2>1. log' \in [Destinations -> Seq(LogEntry)]
    BY <1>4, HandlingTypes DEF BeginSend, Record, Sent, LogEntry, DestTypeOK
  <2> QED
    BY <1>4, <2>1 DEF BeginSend, proxyVars, ProxyTypeOK, DestTypeOK, BackendState, Ids
<1>5. ASSUME NEW i \in todo[d], SendTo(d, i)
      PROVE  ProxyTypeOK' /\ DestTypeOK'
  <2> DEFINE m == First(actions[d]).message
             c == issued[i].client
  <2>1. i \in Ids /\ i \in Nat /\ c \in Clients /\ issued[i].sub \in SubIds
    <3>1. i \in Ids
      BY <1>5 DEF DestTypeOK
    <3> QED
      BY <3>1, IssuedTypes
  <2>2. m \in Messages
    BY <1>5, SendActionTypes DEF SendTo, SendInHand
  <2>3. inbox' \in [Clients -> ChannelOf(ClientEvent)]
    BY <1>5, <2>1, <2>2, EventTypes, SendEventEffect DEF SendTo
  <2> QED
    BY <1>5, <2>1, <2>3 DEF SendTo, ProxyTypeOK, DestTypeOK, Ids
<1>6. CASE EndSend(d)
  <2>1. actions' \in [Destinations -> ChannelOf(DestinationAction)]
    BY <1>6, HandledEffect DEF EndSend, SendInHand
  <2> QED
    BY <1>6, <2>1 DEF EndSend, proxyVars, ProxyTypeOK, DestTypeOK, BackendState, Ids
<1>7. CASE CloseBackend(d)
  BY <1>7, EmptyChannels
     DEF CloseBackend, Stop, proxyVars, ProxyTypeOK, DestTypeOK, BackendState, Ids
<1> QED
  BY <1>1, <1>2, <1>3, <1>4, <1>5, <1>6, <1>7 DEF Backend

\* A call on a handle queues up behind the message that is being fanned out, ...
LEMMA CallLeavesSend ==
    ASSUME DestTypeOK, SendInHand, NEW d \in Destinations, NEW a \in DestinationAction,
           PerformAction(d, a), UNCHANGED backend
    PROVE  SendInHand'
BY PerformActionEffect DEF SendInHand

\* ... and the task takes it from the queue when it has been fanned out.
LEMMA TaskLeavesSend ==
    ASSUME DestTypeOK, SendInHand, NEW d \in Destinations, Backend(d)
    PROVE  SendInHand'
<1>1. CASE AddSubscription(d) \/ RemoveSubscription(d)
  BY <1>1 DEF AddSubscription, RemoveSubscription, Handling, Handled, SendInHand, DestTypeOK
<1>2. CASE RemoveUnknownSubscription(d) \/ CloseBackend(d)
  BY <1>2 DEF RemoveUnknownSubscription, CloseBackend, Stop, SendInHand, DestTypeOK
<1>3. CASE BeginSend(d)
  BY <1>3 DEF BeginSend, Handling, SendInHand, DestTypeOK
<1>4. CASE \E i \in todo[d] : SendTo(d, i)
  BY <1>4 DEF SendTo, SendInHand
<1>5. CASE EndSend(d)
  BY <1>5 DEF EndSend, Handled, SendInHand, DestTypeOK
<1> QED
  BY <1>1, <1>2, <1>3, <1>4, <1>5 DEF Backend

-----------------------------------------------------------------------------
(* What a session is told, and what that says about a subscription.        *)

\* A session is told events.
LEMMA ToldTypes ==
    ASSUME ProxyTypeOK, NEW c \in Clients
    PROVE  /\ seen[c] \in Seq(ClientEvent) /\ inbox[c].queue \in Seq(ClientEvent)
           /\ Told(c) \in Seq(ClientEvent)
<1>1. seen[c] \in Seq(ClientEvent) /\ inbox[c].queue \in Seq(ClientEvent)
  BY DEF ProxyTypeOK, ChannelOf
<1> QED
  BY <1>1, ConcatProperties DEF Told

\* send_event tells a session that lives one thing more, and nobody else.
LEMMA SendTells ==
    ASSUME ProxyTypeOK, NEW c \in Clients, NEW e \in ClientEvent, SendEvent(c, e),
           UNCHANGED seen
    PROVE  /\ Told(c)' = IF Alive(c) THEN Append(Told(c), e) ELSE Told(c)
           /\ \A x \in Clients : /\ x # c => Told(x)' = Told(x)
                                 /\ Alive(x)' = Alive(x)
<1>1. /\ inbox'[c] = Push(inbox[c], e)
      /\ \A x \in Clients : /\ x # c => inbox'[x] = inbox[x]
                            /\ inbox'[x].open = inbox[x].open
  BY SendEventEffect
<1>2. CASE ~Alive(c)
  <2>1. inbox'[c] = inbox[c]
    BY <1>1, <1>2 DEF Push, Alive
  <2> QED
    BY <1>1, <1>2, <2>1 DEF Told, Alive
<1>3. CASE Alive(c)
  <2>1. inbox'[c].queue = Append(inbox[c].queue, e)
    BY <1>1, <1>3 DEF Push, Alive, ProxyTypeOK, ChannelOf
  <2>2. seen[c] \o Append(inbox[c].queue, e) = Append(seen[c] \o inbox[c].queue, e)
    <3>1. seen[c] \in Seq(ClientEvent) /\ inbox[c].queue \in Seq(ClientEvent)
      BY ToldTypes
    <3> DEFINE before == seen[c]
               queued == inbox[c].queue
    <3>2. before \in Seq(ClientEvent) /\ queued \in Seq(ClientEvent)
      BY <3>1
    <3> HIDE DEF before, queued
    <3>3. before \o Append(queued, e) = Append(before \o queued, e)
      BY <3>2, PushBehind
    <3> QED
      BY <3>3 DEF before, queued
  <2> QED
    BY <1>1, <1>3, <2>1, <2>2 DEF Told, Alive
<1> QED
  BY <1>2, <1>3

\* What a session takes from its channel it was told before.
LEMMA TakingTellsNothing ==
    ASSUME ProxyTypeOK, NEW c \in Clients, Ready(inbox[c]), TakeEvent(c)
    PROVE  \A x \in Clients : Told(x)' = Told(x) /\ Alive(x)' = Alive(x)
<1>1. /\ inbox'[c] = Pop(inbox[c])
      /\ \A x \in Clients : /\ x # c => inbox'[x] = inbox[x]
                            /\ inbox'[x].open = inbox[x].open
  BY TakeEventEffect
<1>2. /\ seen'[c] = Append(seen[c], Head(inbox[c].queue))
      /\ \A x \in Clients : x # c => seen'[x] = seen[x]
  BY DEF TakeEvent, ProxyTypeOK, NextEvent, First
<1>3. inbox'[c].queue = Tail(inbox[c].queue)
  BY <1>1 DEF Pop, ProxyTypeOK, ChannelOf
<1>4. Told(c)' = Told(c)
  BY <1>2, <1>3, ToldTypes, TakenAndLeft DEF Told, Ready
<1> QED
  BY <1>1, <1>2, <1>4 DEF Told, Alive

\* A session that ends will not get what is still in its channel.
LEMMA EndingCutsOff ==
    ASSUME ProxyTypeOK, NEW c \in Clients, DropInbox(c), UNCHANGED seen
    PROVE  /\ ~Alive(c)'
           /\ Told(c)' \in Seq(ClientEvent)
           /\ Len(Told(c)') <= Len(Told(c))
           /\ \A k \in 1 .. Len(Told(c)') : Told(c)'[k] = Told(c)[k]
           /\ \A x \in Clients \ {c} : Told(x)' = Told(x) /\ Alive(x)' = Alive(x)
<1>1. inbox'[c] = Dropped /\ \A x \in Clients \ {c} : inbox'[x] = inbox[x]
  BY DEF DropInbox, ProxyTypeOK
<1>2. Told(c)' = seen[c]
  <2>1. Told(c)' = seen[c] \o <<>>
    BY <1>1 DEF Told, Dropped
  <2> QED
    BY <2>1, ToldTypes, ConcatEmptySeq
<1>3. /\ Len(seen[c]) <= Len(Told(c))
      /\ \A k \in 1 .. Len(seen[c]) : Told(c)[k] = seen[c][k]
  <2>1. seen[c] \in Seq(ClientEvent) /\ inbox[c].queue \in Seq(ClientEvent)
    BY ToldTypes
  <2>2. /\ Len(seen[c] \o inbox[c].queue) = Len(seen[c]) + Len(inbox[c].queue)
        /\ \A k \in 1 .. Len(seen[c]) + Len(inbox[c].queue) :
             (seen[c] \o inbox[c].queue)[k] =
               IF k <= Len(seen[c]) THEN seen[c][k] ELSE inbox[c].queue[k - Len(seen[c])]
    BY <2>1, ConcatProperties
  <2>3. Len(seen[c]) \in Nat /\ Len(inbox[c].queue) \in Nat
    BY <2>1
  <2> DEFINE told == seen[c] \o inbox[c].queue
             before == Len(seen[c])
             queued == Len(inbox[c].queue)
  <2>4. before <= Len(told) /\ \A k \in 1 .. before : told[k] = seen[c][k]
    <3> HIDE DEF told, before, queued
    <3>1. Len(told) = before + queued /\ before \in Nat /\ queued \in Nat
      BY <2>2, <2>3 DEF told, before, queued
    <3>2. \A k \in 1 .. before + queued : k <= before => told[k] = seen[c][k]
      BY <2>2 DEF told, before, queued
    <3> QED
      BY <3>1, <3>2
  <2> QED
    BY <2>4 DEF Told
<1>4. \A x \in Clients \ {c} : Told(x)' = Told(x) /\ Alive(x)' = Alive(x)
  BY <1>1 DEF Told, Alive
<1>5. ~Alive(c)'
  BY <1>1 DEF Alive, Dropped
<1> QED
  BY <1>2, <1>3, <1>4, <1>5, ToldTypes

\* An event is about the subscription it names.
LEMMA AboutWhom ==
    ASSUME NEW d \in Destinations, NEW s \in SubIds, NEW r \in Nat, NEW m \in Messages,
           NEW i
    PROVE  /\ Subscribed(d, s, r) \in About(i) <=> i = r
           /\ Unsubscribed(s, r) \in About(i) <=> i = r
           /\ ServerMessage(s, r, m) \in About(i) <=> i = r
BY DEF About, Subscribed, Unsubscribed, ServerMessage

\* What a subscription was delivered are events about it.
LEMMA DeliveredTypes ==
    ASSUME ProxyTypeOK, DestTypeOK, NEW i \in Ids
    PROVE  Delivered(i) \in Seq(ClientEvent \cap About(i))
BY IssuedTypes, ToldTypes, SelectedTypes DEF Delivered

\* An event is delivered to the subscription it is about, if it is sent to its
\* client and the client lives.
LEMMA SendDelivers ==
    ASSUME ProxyTypeOK, DestTypeOK, NEW c \in Clients, NEW e \in ClientEvent, SendEvent(c, e),
           UNCHANGED seen, NEW i \in Ids, issued'[i] = issued[i]
    PROVE  Delivered(i)' = IF issued[i].client = c /\ Alive(c) /\ e \in About(i)
                           THEN Append(Delivered(i), e) ELSE Delivered(i)
<1>1. /\ issued[i].client \in Clients
      /\ Told(issued[i].client) \in Seq(ClientEvent)
  BY IssuedTypes, ToldTypes
<1>2. Delivered(i)' = Selected(Told(issued[i].client)', About(i))
  BY DEF Delivered, About
<1>3. CASE issued[i].client = c /\ Alive(c)
  <2>1. Told(issued[i].client)' = Append(Told(issued[i].client), e)
    BY <1>3, SendTells
  <2>2. Selected(Append(Told(issued[i].client), e), About(i)) =
          IF e \in About(i) THEN Append(Selected(Told(issued[i].client), About(i)), e)
                           ELSE Selected(Told(issued[i].client), About(i))
    BY <1>1, SelectedAppend
  <2> QED
    BY <1>2, <1>3, <2>1, <2>2 DEF Delivered
<1>4. CASE ~(issued[i].client = c /\ Alive(c))
  <2>1. Told(issued[i].client)' = Told(issued[i].client)
    BY <1>1, <1>4, SendTells
  <2> QED
    BY <1>2, <1>4, <2>1 DEF Delivered
<1> QED
  BY <1>3, <1>4

-----------------------------------------------------------------------------
(* What a log says of a subscription.                                      *)

\* The entries of a membership are entries of the log, of its own.
LEMMA DuringTypes ==
    ASSUME NEW history \in Seq(LogEntry), NEW i, JoinsOnce(history, i)
    PROVE  During(history, i) \in Seq(LogEntry \cap Own(i))
<1> DEFINE from == CHOOSE k \in DOMAIN history : history[k] = Joined(i)
           leave == {k \in DOMAIN history : history[k] = Left(i)}
           to == IF leave = {} THEN Len(history) ELSE CHOOSE k \in leave : TRUE
<1>1. from \in DOMAIN history
  BY DEF JoinsOnce
<1>2. to \in 0 .. Len(history)
  <2>1. CASE leave = {}
    BY <2>1
  <2>2. CASE leave # {}
    <3>1. to \in leave
      BY <2>2
    <3> QED
      BY <3>1
  <2> QED
    BY <2>1, <2>2
<1>3. During(history, i) = Selected(SubSeq(history, from, to), Own(i))
  BY DEF During
<1> HIDE DEF from, to, leave
<1>4. SubSeq(history, from, to) \in Seq(LogEntry)
  <2>1. from \in Int /\ to \in Int /\ \A k \in from .. to : history[k] \in LogEntry
    BY <1>1, <1>2
  <2> QED
    BY <2>1, SubSeqProperties
<1> QED
  BY <1>3, <1>4, SelectedTypes

\* A log grows at its end: what it says of a part that has been written stays.
LEMMA GrowingLog ==
    ASSUME NEW history \in Seq(LogEntry), NEW e \in LogEntry
    PROVE  /\ Append(history, e) \in Seq(LogEntry)
           /\ DOMAIN history = 1 .. Len(history) /\ Len(history) \in Nat
           /\ Len(Append(history, e)) = Len(history) + 1
           /\ DOMAIN Append(history, e) = 1 .. Len(history) + 1
           /\ \A k \in 1 .. Len(history) : Append(history, e)[k] = history[k]
           /\ Append(history, e)[Len(history) + 1] = e
           /\ \A m, n \in 1 .. Len(history) :
                SubSeq(Append(history, e), m, n) = SubSeq(history, m, n)
           /\ \A m \in 1 .. Len(history) :
                /\ SubSeq(history, m, Len(history)) \in Seq(LogEntry)
                /\ SubSeq(Append(history, e), m, Len(history) + 1) =
                     Append(SubSeq(history, m, Len(history)), e)
<1> DEFINE after == Append(history, e)
           N == Len(history)
<1>1. /\ after \in Seq(LogEntry)
      /\ DOMAIN history = 1 .. N /\ N \in Nat
      /\ Len(after) = N + 1 /\ DOMAIN after = 1 .. N + 1
      /\ \A k \in 1 .. N : after[k] = history[k]
      /\ after[N + 1] = e
  OBVIOUS
<1>2. ASSUME NEW m \in 1 .. N, NEW n \in 1 .. N
      PROVE  /\ SubSeq(history, m, n) \in Seq(LogEntry)
             /\ SubSeq(after, m, n) = SubSeq(history, m, n)
  <2>1. /\ m \in Int /\ n \in Int
        /\ \A k \in m .. n : history[k] \in LogEntry /\ after[k] = history[k]
    BY <1>1
  <2> HIDE DEF after, N
  <2>2. /\ SubSeq(history, m, n) \in Seq(LogEntry)
        /\ Len(SubSeq(history, m, n)) = IF m <= n THEN n - m + 1 ELSE 0
        /\ \A k \in 1 .. n - m + 1 : SubSeq(history, m, n)[k] = history[m + k - 1]
    BY <2>1, SubSeqProperties
  <2>3. /\ SubSeq(after, m, n) \in Seq(LogEntry)
        /\ Len(SubSeq(after, m, n)) = IF m <= n THEN n - m + 1 ELSE 0
        /\ \A k \in 1 .. n - m + 1 : SubSeq(after, m, n)[k] = after[m + k - 1]
    BY <2>1, SubSeqProperties
  <2>4. \A k \in 1 .. Len(SubSeq(history, m, n)) : SubSeq(after, m, n)[k] = SubSeq(history, m, n)[k]
    BY <2>1, <2>2, <2>3
  <2> QED
    BY <2>2, <2>3, <2>4, SeqEqual
<1>3. ASSUME NEW m \in 1 .. N
      PROVE  SubSeq(after, m, N + 1) = Append(SubSeq(history, m, N), e)
  <2>1. m \in 1 .. Len(after) /\ N + 1 \in m .. Len(after) /\ N \in 1 .. N
    BY <1>1
  <2> HIDE DEF after, N
  <2>2. SubSeq(after, m, N + 1) = SubSeq(after, m, (N + 1) - 1) \o <<after[N + 1]>>
    BY <1>1, <2>1, SubSeqRecursiveSecond
  <2>3. (N + 1) - 1 = N /\ SubSeq(after, m, N) = SubSeq(history, m, N)
        /\ SubSeq(history, m, N) \in Seq(LogEntry)
    BY <1>1, <1>2, <2>1
  <2>4. Append(SubSeq(history, m, N), e) = SubSeq(history, m, N) \o <<e>>
    BY <2>3, AppendIsConcat
  <2> QED
    BY <1>1, <2>2, <2>3, <2>4
<1>4. ASSUME NEW m \in 1 .. N
      PROVE  SubSeq(history, m, N) \in Seq(LogEntry)
  <2>1. N \in 1 .. N
    BY <1>1
  <2> QED
    BY <1>2, <2>1
<1> QED
  BY <1>1, <1>2, <1>3, <1>4

\* An entry written while it is subscribed is about it if it is its own; ...
LEMMA DuringMore ==
    ASSUME NEW history \in Seq(LogEntry), NEW e \in LogEntry, NEW i,
           JoinsOnce(history, i), ~LeavesIn(history, i), e # Joined(i)
    PROVE  /\ During(Append(history, e), i) = IF e \in Own(i) THEN Append(During(history, i), e)
                                              ELSE During(history, i)
           /\ JoinsOnce(Append(history, e), i)
<1> DEFINE after == Append(history, e)
           N == Len(history)
<1>1. /\ after \in Seq(LogEntry)
      /\ DOMAIN history = 1 .. N /\ N \in Nat
      /\ Len(after) = N + 1 /\ DOMAIN after = 1 .. N + 1
      /\ \A k \in 1 .. N : after[k] = history[k]
      /\ after[N + 1] = e
      /\ \A m \in 1 .. N : /\ SubSeq(history, m, N) \in Seq(LogEntry)
                           /\ SubSeq(after, m, N + 1) = Append(SubSeq(history, m, N), e)
  BY GrowingLog
<1> HIDE DEF after, N
<1>2. PICK from \in DOMAIN history : \A l \in DOMAIN history : history[l] = Joined(i) <=> l = from
  BY DEF JoinsOnce
<1>3. /\ from \in 1 .. N /\ from \in 1 .. N + 1
      /\ \A l \in 1 .. N + 1 : after[l] = Joined(i) <=> l = from
  <2>1. from \in 1 .. N /\ \A l \in 1 .. N : history[l] = Joined(i) <=> l = from
    BY <1>1, <1>2
  <2> QED
    BY <1>1, <2>1
<1>4. /\ (CHOOSE k \in DOMAIN history : history[k] = Joined(i)) = from
      /\ (CHOOSE k \in DOMAIN after : after[k] = Joined(i)) = from
  BY <1>1, <1>2, <1>3
<1>5. During(history, i) = Selected(SubSeq(history, from, N), Own(i))
  <2>1. {k \in DOMAIN history : history[k] = Left(i)} = {}
    BY DEF LeavesIn
  <2> QED
    BY <1>4, <2>1 DEF During, N
<1>6. During(after, i) = Selected(SubSeq(after, from, N + 1), Own(i))
  <2>1. CASE e = Left(i)
    <3>1. {k \in DOMAIN after : after[k] = Left(i)} = {N + 1}
      BY <1>1, <2>1 DEF LeavesIn
    <3>2. (CHOOSE k \in {N + 1} : TRUE) = N + 1 /\ {N + 1} # {}
      OBVIOUS
    <3> QED
      BY <1>4, <3>1, <3>2 DEF During
  <2>2. CASE e # Left(i)
    <3>1. {k \in DOMAIN after : after[k] = Left(i)} = {}
      BY <1>1, <2>2 DEF LeavesIn
    <3> QED
      BY <1>1, <1>4, <3>1 DEF During
  <2> QED
    BY <2>1, <2>2
<1> DEFINE part == SubSeq(history, from, N)
<1>7. part \in Seq(LogEntry) /\ SubSeq(after, from, N + 1) = Append(part, e)
  BY <1>1, <1>3
<1> HIDE DEF part
<1>8. Selected(Append(part, e), Own(i)) =
        IF e \in Own(i) THEN Append(Selected(part, Own(i)), e) ELSE Selected(part, Own(i))
  BY <1>7, SelectedAppend
<1>9. JoinsOnce(after, i)
  <2>1. from \in DOMAIN after /\ \A l \in DOMAIN after : after[l] = Joined(i) <=> l = from
    BY ONLY <1>1, <1>3
  <2> QED
    BY ONLY <2>1 DEF JoinsOnce
<1> QED
  BY <1>5, <1>6, <1>7, <1>8, <1>9 DEF part, after

\* ... once it has left, nothing is; ...
LEMMA DuringOver ==
    ASSUME NEW history \in Seq(LogEntry), NEW e \in LogEntry, NEW i,
           JoinsOnce(history, i), LeavesIn(history, i), e \notin {Joined(i), Left(i)}
    PROVE  /\ During(Append(history, e), i) = During(history, i)
           /\ JoinsOnce(Append(history, e), i)
<1> DEFINE after == Append(history, e)
           N == Len(history)
<1>1. /\ DOMAIN history = 1 .. N /\ N \in Nat
      /\ Len(after) = N + 1 /\ DOMAIN after = 1 .. N + 1
      /\ \A k \in 1 .. N : after[k] = history[k]
      /\ after[N + 1] = e
      /\ \A m, n \in 1 .. N : SubSeq(after, m, n) = SubSeq(history, m, n)
  BY GrowingLog
<1> HIDE DEF after, N
<1>2. PICK from \in DOMAIN history : \A l \in DOMAIN history : history[l] = Joined(i) <=> l = from
  BY DEF JoinsOnce
<1>3. /\ from \in 1 .. N /\ from \in 1 .. N + 1
      /\ \A l \in 1 .. N + 1 : after[l] = Joined(i) <=> l = from
  <2>1. from \in 1 .. N /\ \A l \in 1 .. N : history[l] = Joined(i) <=> l = from
    BY <1>1, <1>2
  <2> QED
    BY <1>1, <2>1
<1>4. /\ (CHOOSE k \in DOMAIN history : history[k] = Joined(i)) = from
      /\ (CHOOSE k \in DOMAIN after : after[k] = Joined(i)) = from
  BY <1>1, <1>2, <1>3
<1> DEFINE leave == {k \in DOMAIN history : history[k] = Left(i)}
           to == CHOOSE k \in leave : TRUE
<1>5. leave # {} /\ {k \in DOMAIN after : after[k] = Left(i)} = leave
  BY <1>1 DEF LeavesIn
<1>6. to \in 1 .. N
  <2>1. to \in leave
    BY <1>5
  <2> QED
    BY <1>1, <2>1
<1>7. /\ During(history, i) = Selected(SubSeq(history, from, to), Own(i))
      /\ During(after, i) = Selected(SubSeq(after, from, to), Own(i))
  BY <1>4, <1>5 DEF During
<1> HIDE DEF leave, to
<1>8. JoinsOnce(after, i)
  BY <1>1, <1>3 DEF JoinsOnce
<1> QED
  BY <1>1, <1>3, <1>6, <1>7, <1>8 DEF after

\* ... and it begins with the entry that says that it joins.
LEMMA DuringFirst ==
    ASSUME NEW history \in Seq(LogEntry), NEW i, Joined(i) \in LogEntry,
           \A k \in DOMAIN history : history[k] # Joined(i), ~LeavesIn(history, i)
    PROVE  /\ During(Append(history, Joined(i)), i) = <<Joined(i)>>
           /\ JoinsOnce(Append(history, Joined(i)), i)
           /\ ~LeavesIn(Append(history, Joined(i)), i)
<1> DEFINE e == Joined(i)
           after == Append(history, e)
           N == Len(history)
<1>1. /\ after \in Seq(LogEntry)
      /\ DOMAIN history = 1 .. N /\ N \in Nat
      /\ Len(after) = N + 1 /\ DOMAIN after = 1 .. N + 1
      /\ \A k \in 1 .. N : after[k] = history[k]
      /\ after[N + 1] = e
  BY GrowingLog
<1>2. e # Left(i) /\ e \in Own(i)
  BY DEF Joined, Left, Own
<1> HIDE DEF after, N
<1>3. \A l \in 1 .. N + 1 : after[l] = Joined(i) <=> l = N + 1
  BY <1>1
<1>4. (CHOOSE k \in DOMAIN after : after[k] = Joined(i)) = N + 1
  BY <1>1, <1>3
<1>5. {k \in DOMAIN after : after[k] = Left(i)} = {} /\ ~LeavesIn(after, i)
  BY <1>1, <1>2 DEF LeavesIn
<1>6. During(after, i) = Selected(SubSeq(after, N + 1, N + 1), Own(i))
  BY <1>1, <1>4, <1>5 DEF During
<1>7. SubSeq(after, N + 1, N + 1) = <<e>>
  <2>1. N + 1 \in Int /\ \A k \in (N + 1) .. (N + 1) : after[k] \in LogEntry
    BY <1>1
  <2>2. /\ SubSeq(after, N + 1, N + 1) \in Seq(LogEntry)
        /\ Len(SubSeq(after, N + 1, N + 1)) = 1
        /\ SubSeq(after, N + 1, N + 1)[1] = e
    <3> DEFINE a == N + 1
    <3>1. a \in Int /\ \A k \in a .. a : after[k] \in LogEntry
      BY <2>1
    <3>2. /\ SubSeq(after, a, a) \in Seq(LogEntry)
          /\ Len(SubSeq(after, a, a)) = IF a <= a THEN a - a + 1 ELSE 0
          /\ \A k \in 1 .. a - a + 1 : SubSeq(after, a, a)[k] = after[a + k - 1]
      <4> HIDE DEF a
      <4> QED
        BY <3>1, SubSeqProperties
    <3>3. a <= a /\ a - a + 1 = 1 /\ 1 \in 1 .. a - a + 1 /\ a + 1 - 1 = N + 1
      BY <1>1
    <3> QED
      BY <1>1, <3>2, <3>3
  <2> DEFINE part == SubSeq(after, N + 1, N + 1)
  <2>3. part \in Seq(LogEntry) /\ Len(part) = 1 /\ part[1] = e
    BY <2>2
  <2>4. <<e>> \in Seq(LogEntry) /\ Len(<<e>>) = 1 /\ <<e>>[1] = e
    OBVIOUS
  <2> HIDE DEF part, e
  <2>5. part = <<e>>
    BY <2>3, <2>4, SeqEqual
  <2> QED
    BY <2>5 DEF part
<1>8. Selected(<<e>>, Own(i)) = <<e>>
  <2>1. <<>> \in Seq(LogEntry) /\ Append(<<>>, e) = <<e>> /\ e \in LogEntry
    OBVIOUS
  <2> HIDE DEF e
  <2>2. Selected(Append(<<>>, e), Own(i)) = Append(Selected(<<>>, Own(i)), e)
    BY <1>2, <2>1, SelectedAppend
  <2> QED
    BY <2>1, <2>2, SelectedEmpty
<1>9. JoinsOnce(after, i)
  BY <1>1, <1>3 DEF JoinsOnce
<1> QED
  BY <1>5, <1>6, <1>7, <1>8, <1>9 DEF after

-----------------------------------------------------------------------------
(* The task of a session.                                                  *)

\* A session that ends leaves well-typed variables.
LEMMA EndTypes ==
    ASSUME ProxyTypeOK, SessionTypeOK, NEW c \in Clients, NEW how \in Phase, End(c, how)
    PROVE  /\ phase' \in [Clients -> Phase]
           /\ active' \in [Clients -> SUBSET Entry]
           /\ inbox' \in [Clients -> ChannelOf(ClientEvent)]
BY DropInboxEffect DEF SessionTypeOK, End

\* Frames are appended to what a client was sent.
LEMMA EmitTypes ==
    ASSUME SessionTypeOK, NEW c \in Clients, NEW f \in Frame, Emit(c, f)
    PROVE  out' \in [Clients -> Seq(Frame)]
BY DEF SessionTypeOK, Emit

\* What a session sends are frames.
LEMMA FrameTypes ==
    ASSUME NEW s \in SubIds, NEW m \in Messages
    PROVE  MESSAGE(s, m) \in Frame
BY DEF MESSAGE, Frame

\* The frames without a payload that a session writes to its client are frames too.
LEMMA SimpleFrameTypes == CONNECTED \in Frame /\ ERROR \in Frame /\ HEARTBEAT \in Frame
BY DEF CONNECTED, ERROR, HEARTBEAT, Frame

\* Reading a frame counts it.
LEMMA ReadsTypes ==
    ASSUME SessionTypeOK, NEW c \in Clients, NEW kind, Reads(c, kind)
    PROVE  frames' \in [Clients -> Nat]
BY DEF SessionTypeOK, Reads

\* Every step of a session in which no destination takes part preserves types.
LEMMA SessionStepTypes ==
    ASSUME ProxyTypeOK, SessionTypeOK, NEW c \in Clients, SessionStep(c)
    PROVE  ProxyTypeOK' /\ SessionTypeOK'
<1>1. CASE Connect(c)
  BY <1>1, EmitTypes, SimpleFrameTypes DEF Connect, ProxyTypeOK, SessionTypeOK, Phase
<1>2. CASE Reject(c)
  BY <1>2, EmitTypes, SimpleFrameTypes, EndTypes DEF Reject, ProxyTypeOK, SessionTypeOK, Phase
<1>3. CASE BadFrame(c)
  BY <1>3, EmitTypes, SimpleFrameTypes, ReadsTypes, SendEventEffect, SimpleEventTypes
     DEF BadFrame, Fail, ProxyTypeOK, SessionTypeOK
<1>4. ASSUME NEW s \in SubIds, UnknownUnsubscribe(c, s)
      PROVE  ProxyTypeOK' /\ SessionTypeOK'
  BY <1>4, EmitTypes, SimpleFrameTypes, ReadsTypes, SendEventEffect, SimpleEventTypes
     DEF UnknownUnsubscribe, Fail, ProxyTypeOK, SessionTypeOK
<1>5. CASE Disconnect(c)
  BY <1>5, ReadsTypes, EndTypes DEF Disconnect, ProxyTypeOK, SessionTypeOK, Phase
<1>6. CASE UnhandledFrame(c)
  BY <1>6, ReadsTypes, EndTypes DEF UnhandledFrame, ProxyTypeOK, SessionTypeOK, Phase
<1>7. CASE EndOfStream(c)
  BY <1>7, EndTypes DEF EndOfStream, ProxyTypeOK, SessionTypeOK, Phase
<1>8. CASE HandleEvent(c)
  <2>1. CASE OnSubscribed(c)
    <3>1. /\ inbox' \in [Clients -> ChannelOf(ClientEvent)]
          /\ seen' \in [Clients -> Seq(ClientEvent)]
          /\ NextEvent(c).dest \in Destinations /\ NextEvent(c).sub \in SubIds
          /\ NextEvent(c).result \in Nat
      BY <2>1, TakeEventEffect, EventFields DEF OnSubscribed, Event
    <3>2. active' \in [Clients -> SUBSET Entry]
      BY <2>1, <3>1 DEF OnSubscribed, SessionTypeOK, Entry
    <3> QED
      BY <2>1, <3>1, <3>2 DEF OnSubscribed, ProxyTypeOK, SessionTypeOK
  <2>2. CASE OnUnsubscribed(c)
    BY <2>2, TakeEventEffect DEF OnUnsubscribed, Event, ProxyTypeOK, SessionTypeOK
  <2>3. CASE OnServerMessage(c)
    BY <2>3, TakeEventEffect, EventFields, FrameTypes, EmitTypes
       DEF OnServerMessage, Event, ProxyTypeOK, SessionTypeOK
  <2>4. CASE OnError(c)
    <3>1. inbox[c] \in ChannelOf(ClientEvent) /\ Ready(inbox[c])
      BY <2>4 DEF ProxyTypeOK, OnError, Event
    <3>2. Push(Pop(inbox[c]), Close) \in ChannelOf(ClientEvent)
      BY <3>1, PopProperties, PushProperties, SimpleEventTypes
    <3> QED
      BY <2>4, <3>2, EmitTypes, SimpleFrameTypes, SimpleEventTypes
         DEF OnError, ProxyTypeOK, SessionTypeOK
  <2>5. CASE OnClose(c)
    BY <2>5, EndTypes, SimpleEventTypes DEF OnClose, ProxyTypeOK, SessionTypeOK, Phase
  <2> QED
    BY <1>8, <2>1, <2>2, <2>3, <2>4, <2>5 DEF HandleEvent
<1>9. CASE Heartbeat(c)
  BY <1>9, EmitTypes, SimpleFrameTypes DEF Heartbeat, ProxyTypeOK, SessionTypeOK
<1>10. CASE MissHeartbeat(c)
  BY <1>10, SendEventEffect, SimpleEventTypes DEF MissHeartbeat, ProxyTypeOK, SessionTypeOK
<1>11. CASE SinkFails(c)
  BY <1>11, EndTypes DEF SinkFails, ProxyTypeOK, SessionTypeOK, Phase
<1>12. CASE LingerEnds(c)
  BY <1>12 DEF LingerEnds, ProxyTypeOK, SessionTypeOK, Phase
<1> QED
  BY <1>1, <1>2, <1>3, <1>4, <1>5, <1>6, <1>7, <1>8, <1>9, <1>10, <1>11, <1>12
     DEF SessionStep
=============================================================================
