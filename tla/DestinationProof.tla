--------------------------- MODULE DestinationProof ---------------------------
(***************************************************************************)
(* What a destination owes its subscribers, for any number of destinations,*)
(* sessions, ids and messages and whoever calls the handles: the invariant *)
(* LogInv of OpenDestination, that no subscription is lost without a cause,  *)
(* and that destinations implement AbstractTopics, step by step.           *)
(***************************************************************************)
EXTENDS TopicRefinement, ComponentTheorems

\* What the proofs below use of the environment: it queues actions, on behalf of
\* the owner when it asks to unsubscribe; it may start a destination; and a
\* session may fail to subscribe, take an event, or end.
EnvironmentStep ==
    /\ UNCHANGED <<issued, subscriptions, todo, dead, log>>
    /\ \A d \in Destinations :
         /\ backend[d] # "absent" => backend'[d] = backend[d]
         /\ backend[d] = "absent" => backend'[d] \in {"absent", "listening"}
         /\ backend[d] = "sending" => First(actions'[d]) = First(actions[d])
         /\ \A a \in Pending(actions'[d]) \ Pending(actions[d]) : a.type = "Unsubscribe" =>
              a.id \in Ids /\ issued[a.id].client = a.client /\ issued[a.id].dest = d
    /\ \/ \A c \in Clients :
            /\ Alive(c)' = Alive(c)
            /\ \/ Told(c)' = Told(c)
               \/ \E d \in Destinations, s \in SubIds :
                    Told(c)' = Append(Told(c), Subscribed(d, s, Failed))
       \/ \E c \in Clients :
            /\ Alive(c) /\ ~Alive(c)'
            /\ Told(c)' \in Seq(ClientEvent) /\ Len(Told(c)') <= Len(Told(c))
            /\ \A k \in 1 .. Len(Told(c)') : Told(c)'[k] = Told(c)[k]
            /\ \A x \in Clients \ {c} : Told(x)' = Told(x) /\ Alive(x)' = Alive(x)

-----------------------------------------------------------------------------
(* Types.                                                                  *)

\* A call on a handle that queues an action and does nothing else leaves types
\* alone, and is a step of the environment.
LEMMA CallEffect ==
    ASSUME TypeOK, SendInHand, NEW d \in Destinations, NEW a \in DestinationAction,
           PerformAction(d, a), backend[d] # "absent", handleUnchanged,
           a.type = "Unsubscribe" =>
             a.id \in Ids /\ issued[a.id].client = a.client /\ issued[a.id].dest = d
    PROVE  /\ DestTypeOK' /\ SendInHand'
           /\ \A x \in Destinations :
                /\ backend[x] = "sending" => First(actions'[x]) = First(actions[x])
                /\ \A b \in Pending(actions'[x]) \ Pending(actions[x]) : b.type = "Unsubscribe" =>
                     b.id \in Ids /\ issued[b.id].client = b.client /\ issued[b.id].dest = x
<1>1. DestTypeOK
  BY DEF TypeOK
<1>2. actions' \in [Destinations -> ChannelOf(DestinationAction)]
  BY <1>1, PerformActionEffect
<1>3. \A x \in Destinations : /\ x # d => actions'[x] = actions[x]
                              /\ Pending(actions'[x]) \subseteq Pending(actions[x]) \cup {a}
                              /\ Ready(actions[x]) => /\ Ready(actions'[x])
                                                      /\ First(actions'[x]) = First(actions[x])
  BY <1>1, PerformActionEffect
<1>4. DestTypeOK'
  BY <1>1, <1>2 DEF DestTypeOK, handleUnchanged, Ids
<1>5. SendInHand'
  BY <1>3 DEF SendInHand, handleUnchanged
<1> QED
  BY <1>3, <1>4, <1>5 DEF SendInHand

\* What the environment does preserves types and is described by
\* EnvironmentStep.
LEMMA EnvironmentEffect ==
    ASSUME TypeOK, SendInHand, DestEnvironment
    PROVE  TypeOK' /\ SendInHand' /\ EnvironmentStep
<1> USE DEF TypeOK
<1>1. ASSUME NEW d \in Destinations, NEW a \in DestinationAction,
             PerformAction(d, a), backend[d] # "absent", handleUnchanged, UNCHANGED proxyVars,
             a.type = "Unsubscribe" =>
               a.id \in Ids /\ issued[a.id].client = a.client /\ issued[a.id].dest = d
      PROVE  TypeOK' /\ SendInHand' /\ EnvironmentStep
  <2>1. \A c \in Clients : Told(c)' = Told(c) /\ Alive(c)' = Alive(c)
    BY <1>1 DEF Told, Alive, proxyVars
  <2>2. ProxyTypeOK'
    BY <1>1 DEF ProxyTypeOK, proxyVars
  <2>3. DestTypeOK' /\ SendInHand'
    BY <1>1, CallEffect
  <2> QED
    BY <1>1, <2>1, <2>2, <2>3, CallEffect DEF EnvironmentStep, handleUnchanged
<1>2. ASSUME NEW d \in Destinations, Create(d), UNCHANGED proxyVars
      PROVE  TypeOK' /\ SendInHand' /\ EnvironmentStep
  <2>1. \A c \in Clients : Told(c)' = Told(c) /\ Alive(c)' = Alive(c)
    BY <1>2 DEF Told, Alive, proxyVars
  <2>2. TypeOK'
    BY <1>2, EmptyChannels DEF Create, proxyVars, ProxyTypeOK, DestTypeOK, BackendState, Ids
  <2>3. SendInHand'
    BY <1>2 DEF Create, SendInHand, DestTypeOK
  <2>4. \A x \in Destinations :
          /\ backend[x] # "absent" => backend'[x] = backend[x]
          /\ backend[x] = "absent" => backend'[x] \in {"absent", "listening"}
          /\ backend[x] = "sending" => First(actions'[x]) = First(actions[x])
          /\ Pending(actions'[x]) \subseteq Pending(actions[x])
    BY <1>2, EmptyChannels DEF Create, DestTypeOK
  <2> QED
    BY <1>2, <2>1, <2>2, <2>3, <2>4 DEF EnvironmentStep, Create
<1>3. ASSUME NEW d \in Destinations, NEW c \in Clients, NEW s \in SubIds, CallSubscribe(d, c, s)
      PROVE  TypeOK' /\ SendInHand' /\ EnvironmentStep
  <2>1. /\ SubscribeAction(c, s) \in DestinationAction
        /\ SubscribeAction(c, s).type # "Unsubscribe"
        /\ PerformAction(d, SubscribeAction(c, s)) /\ backend[d] # "absent"
        /\ handleUnchanged /\ UNCHANGED seen
    BY <1>3 DEF CallSubscribe, MayCall, Subscribe, SubscribeAction, DestinationAction
  <2>2. CASE actions[d].open
    BY <1>1, <1>3, <2>1, <2>2 DEF CallSubscribe, Subscribe, proxyVars
  <2>3. CASE ~actions[d].open
    <3>1. /\ SendEvent(c, Subscribed(d, s, Failed))
          /\ Subscribed(d, s, Failed) \in ClientEvent
      BY <1>3, <2>3 DEF CallSubscribe, Subscribe, Subscribed, Failed, ClientEvent
    <3>2. \A x \in Clients : /\ Alive(x)' = Alive(x)
                             /\ \/ Told(x)' = Told(x)
                                \/ Told(x)' = Append(Told(x), Subscribed(d, s, Failed))
      BY <2>1, <3>1, SendTells
    <3>3. ProxyTypeOK'
      BY <2>1, <3>1, SendEventEffect DEF ProxyTypeOK
    <3>4. DestTypeOK' /\ SendInHand'
      BY <2>1, CallEffect
    <3>5. \A x \in Destinations :
            /\ backend[x] = "sending" => First(actions'[x]) = First(actions[x])
            /\ \A b \in Pending(actions'[x]) \ Pending(actions[x]) : b.type = "Unsubscribe" =>
                 b.id \in Ids /\ issued[b.id].client = b.client /\ issued[b.id].dest = x
      BY <2>1, CallEffect
    <3> QED
      BY <2>1, <3>2, <3>3, <3>4, <3>5 DEF EnvironmentStep, handleUnchanged
  <2> QED
    BY <2>2, <2>3
<1>4. ASSUME NEW d \in Destinations, NEW c \in Clients, NEW i \in Ids, CallUnsubscribe(d, c, i)
      PROVE  TypeOK' /\ SendInHand' /\ EnvironmentStep
  <2>1. UnsubscribeAction(c, i) \in DestinationAction
    BY DEF UnsubscribeAction, DestinationAction, Ids
  <2>2. UnsubscribeAction(c, i).id = i /\ UnsubscribeAction(c, i).client = c
    BY DEF UnsubscribeAction
  <2>3. /\ PerformAction(d, UnsubscribeAction(c, i)) /\ backend[d] # "absent"
        /\ handleUnchanged /\ UNCHANGED proxyVars
        /\ issued[i].client = c /\ issued[i].dest = d
    BY <1>4 DEF CallUnsubscribe, MayCall, Unsubscribe
  <2> QED
    BY <1>1, <2>1, <2>2, <2>3
<1>5. ASSUME NEW d \in Destinations, NEW m \in Messages, CallSend(d, m)
      PROVE  TypeOK' /\ SendInHand' /\ EnvironmentStep
  <2>1. SendAction(m) \in DestinationAction /\ SendAction(m).type # "Unsubscribe"
    BY DEF SendAction, DestinationAction
  <2> QED
    BY <1>1, <1>5, <2>1 DEF CallSend, MayCall, Send
<1>6. ASSUME NEW d \in Destinations, CallClose(d)
      PROVE  TypeOK' /\ SendInHand' /\ EnvironmentStep
  <2>1. CloseAction.type # "Unsubscribe"
    BY DEF CloseAction
  <2> QED
    BY <1>1, <1>6, <2>1, CloseActionType DEF CallClose, MayCall, CloseHandle
<1>7. ASSUME NEW c \in Clients, Take(c)
      PROVE  TypeOK' /\ SendInHand' /\ EnvironmentStep
  <2>1. \A x \in Clients : Told(x)' = Told(x) /\ Alive(x)' = Alive(x)
    BY <1>7, TakingTellsNothing DEF Take
  <2>2. ProxyTypeOK'
    BY <1>7, TakeEventEffect DEF Take, ProxyTypeOK
  <2>3. DestTypeOK' /\ SendInHand'
    BY <1>7 DEF Take, destVars, DestTypeOK, SendInHand, Ids
  <2> QED
    BY <1>7, <2>1, <2>2, <2>3 DEF Take, destVars, EnvironmentStep
<1>8. ASSUME NEW c \in Clients, Leave(c)
      PROVE  TypeOK' /\ SendInHand' /\ EnvironmentStep
  <2>1. /\ Alive(c) /\ ~Alive(c)'
        /\ Told(c)' \in Seq(ClientEvent) /\ Len(Told(c)') <= Len(Told(c))
        /\ \A k \in 1 .. Len(Told(c)') : Told(c)'[k] = Told(c)[k]
        /\ \A x \in Clients \ {c} : Told(x)' = Told(x) /\ Alive(x)' = Alive(x)
    BY <1>8, EndingCutsOff DEF Leave
  <2>2. ProxyTypeOK'
    BY <1>8, DropInboxEffect DEF Leave, ProxyTypeOK
  <2>3. DestTypeOK' /\ SendInHand'
    BY <1>8 DEF Leave, destVars, DestTypeOK, SendInHand, Ids
  <2> QED
    BY <1>8, <2>1, <2>2, <2>3 DEF Leave, destVars, EnvironmentStep
<1> QED
  BY <1>2, <1>3, <1>4, <1>5, <1>6, <1>7, <1>8 DEF DestEnvironment

-----------------------------------------------------------------------------
(* The loop of send, requests and events.                                  *)

\* The environment leaves the loop alone, asks for its own, tells of nothing
\* new, and does not raise the dead.
LEMMA EnvironmentKeepsLoop ==
    ASSUME TypeOK, LoopIsSound, RequestsAreOwn, DeadAreGone, EnvironmentStep
    PROVE  LoopIsSound' /\ RequestsAreOwn' /\ DeadAreGone'
<1>1. LoopIsSound'
  BY DEF LoopIsSound, EnvironmentStep
<1>2. RequestsAreOwn'
  BY DEF RequestsAreOwn, EnvironmentStep, Ids
<1>3. \A c \in Clients : Alive(c)' => Alive(c)
  BY DEF EnvironmentStep
<1>4. DeadAreGone'
  <2>1. \A d \in Destinations : \A i \in dead[d] : issued[i].client \in Clients
    BY IssuedTypes DEF TypeOK, DestTypeOK
  <2>2. dead' = dead /\ issued' = issued
    BY DEF EnvironmentStep
  <2> QED
    BY <1>3, <2>1, <2>2 DEF DeadAreGone
<1> QED
  BY <1>1, <1>2, <1>4

\* Every event was true of the ids drawn when it was sent; more are drawn later.
LEMMA TellingOfIssued ==
    ASSUME TypeOK, TypeOK', ToldOfIssued, Ids \subseteq Ids', NEW c \in Clients, NEW e \in ClientEvent,
           SendEvent(c, e), UNCHANGED seen, Names(e, Ids')
    PROVE  ToldOfIssued'
<1> SUFFICES ASSUME NEW x \in Clients, NEW k \in DOMAIN Told(x)'
             PROVE  Names(Told(x)'[k], Ids')
  BY DEF ToldOfIssued
<1>1. Told(x) \in Seq(ClientEvent)
  BY ToldTypes DEF TypeOK
<1>2. Told(x)' = Told(x) \/ Told(x)' = Append(Told(x), e)
  BY SendTells DEF TypeOK
<1>3. CASE k \in DOMAIN Told(x) /\ Told(x)'[k] = Told(x)[k]
  BY <1>3 DEF ToldOfIssued, Names
<1>4. CASE Told(x)'[k] = e
  BY <1>4
<1> QED
  <2>1. CASE Told(x)' = Told(x)
    BY <1>3, <2>1
  <2>2. CASE Told(x)' = Append(Told(x), e)
    <3>1. /\ Len(Told(x)) \in Nat
          /\ k \in 1 .. Len(Told(x)) + 1
          /\ \A l \in 1 .. Len(Told(x)) : Append(Told(x), e)[l] = Told(x)[l]
          /\ Append(Told(x), e)[Len(Told(x)) + 1] = e
          /\ DOMAIN Told(x) = 1 .. Len(Told(x))
      BY <1>1, <2>2
    <3> QED
      BY <1>3, <1>4, <2>2, <3>1
  <2> QED
    BY <1>2, <2>1, <2>2

\* The environment tells of no subscription, but of those that failed.
LEMMA EnvironmentTellsOfIssued ==
    ASSUME TypeOK, ToldOfIssued, EnvironmentStep
    PROVE  ToldOfIssued'
<1> SUFFICES ASSUME NEW c \in Clients, NEW k \in DOMAIN Told(c)'
             PROVE  Names(Told(c)'[k], Ids)
  BY DEF ToldOfIssued, EnvironmentStep, Ids
<1>1. Told(c) \in Seq(ClientEvent)
  BY ToldTypes DEF TypeOK
<1>2. \A l \in DOMAIN Told(c) : Names(Told(c)[l], Ids)
  BY DEF ToldOfIssued
<1>3. ASSUME NEW d \in Destinations, NEW s \in SubIds,
             Told(c)' = Append(Told(c), Subscribed(d, s, Failed))
      PROVE  Names(Told(c)'[k], Ids)
  <2>1. /\ Len(Told(c)) \in Nat
        /\ k \in 1 .. Len(Told(c)) + 1
        /\ \A l \in 1 .. Len(Told(c)) : Told(c)'[l] = Told(c)[l]
        /\ Told(c)'[Len(Told(c)) + 1] = Subscribed(d, s, Failed)
        /\ DOMAIN Told(c) = 1 .. Len(Told(c))
    BY <1>1, <1>3
  <2>2. Names(Subscribed(d, s, Failed), Ids)
    BY DEF Names, Subscribed
  <2> QED
    BY <1>2, <2>1, <2>2
<1>4. CASE Told(c)' = Told(c)
  BY <1>2, <1>4
<1>5. CASE /\ Told(c)' \in Seq(ClientEvent) /\ Len(Told(c)') <= Len(Told(c))
           /\ \A l \in 1 .. Len(Told(c)') : Told(c)'[l] = Told(c)[l]
  <2>1. k \in 1 .. Len(Told(c)') /\ k \in DOMAIN Told(c)
    BY <1>1, <1>5
  <2> QED
    BY <1>2, <1>5, <2>1
<1> QED
  BY <1>3, <1>4, <1>5 DEF EnvironmentStep

\* The task of a destination draws ids behind the others, queues nothing and
\* ends no session.
LEMMA TaskEffect ==
    ASSUME TypeOK, SendInHand, NEW d \in Destinations, Backend(d)
    PROVE  /\ Ids \subseteq Ids' /\ \A i \in Ids : issued'[i] = issued[i]
           /\ \A x \in Destinations : Pending(actions'[x]) \subseteq Pending(actions[x])
           /\ \A c \in Clients : Alive(c)' = Alive(c)
<1> USE DEF TypeOK
<1>1. CASE AddSubscription(d)
  <2> DEFINE a == First(actions[d])
             new == [client |-> a.client, dest |-> d, sub |-> a.sub]
             i == Len(issued) + 1
  <2>1. /\ Ready(actions[d]) /\ a.client \in Clients /\ a.sub \in SubIds
        /\ Handled(d) /\ issued' = Append(issued, new)
        /\ SendEvent(a.client, Subscribed(d, a.sub, i)) /\ UNCHANGED seen
    BY <1>1, HandlingTypes DEF AddSubscription
  <2>2. /\ Len(issued) \in Nat /\ Len(issued') = Len(issued) + 1
        /\ \A k \in 1 .. Len(issued) : issued'[k] = issued[k]
    BY <2>1 DEF DestTypeOK
  <2>3. Subscribed(d, a.sub, i) \in ClientEvent
    BY <2>1, <2>2 DEF Subscribed, ClientEvent
  <2>4. \A c \in Clients : Alive(c)' = Alive(c)
    BY <2>1, <2>3, SendTells
  <2>5. \A x \in Destinations : Pending(actions'[x]) \subseteq Pending(actions[x])
    BY <2>1, HandledEffect
  <2> QED
    BY <2>2, <2>4, <2>5 DEF Ids
<1>2. CASE RemoveSubscription(d)
  <2> DEFINE a == First(actions[d])
  <2>1. /\ Ready(actions[d]) /\ a.client \in Clients /\ a.id \in Ids
        /\ Handled(d) /\ UNCHANGED <<issued, seen>>
        /\ SendEvent(a.client, Unsubscribed(issued[a.id].sub, a.id))
    BY <1>2, HandlingTypes DEF RemoveSubscription, DestTypeOK
  <2>2. Unsubscribed(issued[a.id].sub, a.id) \in ClientEvent
    BY <2>1, IssuedTypes DEF Unsubscribed, ClientEvent
  <2>3. \A c \in Clients : Alive(c)' = Alive(c)
    BY <2>1, <2>2, SendTells
  <2>4. \A x \in Destinations : Pending(actions'[x]) \subseteq Pending(actions[x])
    BY <2>1, HandledEffect
  <2> QED
    BY <2>1, <2>3, <2>4 DEF Ids
<1>3. ASSUME NEW i \in todo[d], SendTo(d, i)
      PROVE  /\ UNCHANGED <<issued, actions>>
             /\ \A c \in Clients : Alive(c)' = Alive(c)
  <2> DEFINE m == First(actions[d]).message
  <2>1. i \in Ids /\ m \in Messages
    BY <1>3, SendActionTypes DEF SendTo, SendInHand, DestTypeOK
  <2>2. /\ issued[i].client \in Clients
        /\ ServerMessage(issued[i].sub, i, m) \in ClientEvent
    BY <2>1, IssuedTypes DEF ServerMessage, ClientEvent
  <2> QED
    BY <1>3, <2>2, SendTells DEF SendTo
<1>4. CASE RemoveUnknownSubscription(d) \/ CloseBackend(d)
  BY <1>4, EmptyChannels
     DEF RemoveUnknownSubscription, CloseBackend, Stop, proxyVars, Alive, Ids, DestTypeOK
<1>5. CASE BeginSend(d)
  BY <1>5 DEF BeginSend, proxyVars, Alive, Ids
<1>6. CASE EndSend(d)
  <2>1. Ready(actions[d]) /\ Handled(d)
    BY <1>6 DEF EndSend, SendInHand
  <2>2. \A x \in Destinations : Pending(actions'[x]) \subseteq Pending(actions[x])
    BY <2>1, HandledEffect
  <2> QED
    BY <1>6, <2>2 DEF EndSend, proxyVars, Alive, Ids
<1> QED
  BY <1>1, <1>2, <1>3, <1>4, <1>5, <1>6 DEF Backend, Ids

\* The task goes over subscriptions of its own, and gives up none that lives
\* (inmemory.rs:226-251).
LEMMA TaskKeepsLoop ==
    ASSUME TypeOK, SendInHand, LoopIsSound, RequestsAreOwn, DeadAreGone,
           NEW d \in Destinations, Backend(d)
    PROVE  LoopIsSound' /\ RequestsAreOwn' /\ DeadAreGone'
<1> USE DEF TypeOK
<1>1. /\ Ids \subseteq Ids' /\ \A i \in Ids : issued'[i] = issued[i]
      /\ \A x \in Destinations : Pending(actions'[x]) \subseteq Pending(actions[x])
      /\ \A c \in Clients : Alive(c)' = Alive(c)
  BY TaskEffect
<1>2. RequestsAreOwn'
  BY <1>1 DEF RequestsAreOwn
<1>3. DeadAreGone'
  <2>1. \A x \in Destinations : \A i \in dead'[x] :
          i \in Ids /\ ~Alive(issued[i].client)
    <3>1. \A x \in Destinations : \A i \in dead[x] : i \in Ids /\ ~Alive(issued[i].client)
      BY DEF DeadAreGone, DestTypeOK
    <3>2. ASSUME NEW i \in todo[d], SendTo(d, i)
          PROVE  \A x \in Destinations : \A k \in dead'[x] :
                   k \in dead[x] \/ (k = i /\ ~Alive(issued[i].client))
      BY <3>2 DEF SendTo, DestTypeOK
    <3>3. \/ \E i \in todo[d] : SendTo(d, i)
          \/ \A x \in Destinations : dead'[x] \subseteq dead[x]
      BY DEF Backend, AddSubscription, RemoveSubscription, RemoveUnknownSubscription,
             BeginSend, EndSend, CloseBackend, Stop, DestTypeOK
    <3>4. todo[d] \subseteq Ids
      BY DEF DestTypeOK
    <3> QED
      BY <3>1, <3>2, <3>3, <3>4
  <2>2. \A i \in Ids : issued[i].client \in Clients
    BY IssuedTypes
  <2> QED
    BY <1>1, <2>1, <2>2 DEF DeadAreGone
<1>4. LoopIsSound'
  <2>1. ASSUME NEW x \in Destinations
        PROVE  /\ \A i \in subscriptions'[x] : issued'[i].dest = x
               /\ todo'[x] \subseteq subscriptions'[x]
               /\ backend'[x] # "sending" => todo'[x] = {}
    <3>1. /\ \A i \in subscriptions[x] : i \in Ids /\ issued'[i].dest = x
          /\ todo[x] \subseteq subscriptions[x]
          /\ backend[x] # "sending" => todo[x] = {}
      BY <1>1 DEF LoopIsSound, DestTypeOK
    <3>2. CASE AddSubscription(d)
      <4> DEFINE i == Len(issued) + 1
      <4>1. issued'[i].dest = d
        BY <3>2 DEF AddSubscription, DestTypeOK
      <4> QED
        BY <3>1, <3>2, <4>1 DEF AddSubscription, Handling, DestTypeOK
    <3>3. CASE RemoveSubscription(d)
      BY <3>1, <3>3 DEF RemoveSubscription, Handling, DestTypeOK
    <3>4. CASE RemoveUnknownSubscription(d) \/ CloseBackend(d)
      BY <3>1, <3>4 DEF RemoveUnknownSubscription, CloseBackend, Stop, Handling, DestTypeOK
    <3>5. CASE BeginSend(d)
      BY <3>1, <3>5 DEF BeginSend, DestTypeOK
    <3>6. CASE \E i \in todo[d] : SendTo(d, i)
      BY <3>1, <3>6 DEF SendTo, DestTypeOK
    <3>7. CASE EndSend(d)
      BY <3>1, <3>7 DEF EndSend, DestTypeOK
    <3> QED
      BY <3>2, <3>3, <3>4, <3>5, <3>6, <3>7 DEF Backend
  <2> QED
    BY <2>1 DEF LoopIsSound
<1> QED
  BY <1>2, <1>3, <1>4

\* The task tells of ids that it has drawn.
LEMMA TaskTellsOfIssued ==
    ASSUME TypeOK, SendInHand, ToldOfIssued, NEW d \in Destinations, Backend(d)
    PROVE  ToldOfIssued'
<1> USE DEF TypeOK
<1>1. Ids \subseteq Ids'
  BY TaskEffect
<1>2. TypeOK'
  BY BackendTypes
<1>3. CASE AddSubscription(d)
  <2> DEFINE a == First(actions[d])
             i == Len(issued) + 1
             e == Subscribed(d, a.sub, i)
  <2>1. /\ a.client \in Clients /\ a.sub \in SubIds /\ i \in Nat /\ i \in Ids'
        /\ SendEvent(a.client, e) /\ UNCHANGED seen
    BY <1>3, HandlingTypes DEF AddSubscription, DestTypeOK, Ids
  <2>2. e \in ClientEvent /\ Names(e, Ids')
    BY <2>1 DEF Subscribed, ClientEvent, Names
  <2> QED
    BY <1>1, <1>2, <2>1, <2>2, TellingOfIssued
<1>4. CASE RemoveSubscription(d)
  <2> DEFINE a == First(actions[d])
             e == Unsubscribed(issued[a.id].sub, a.id)
  <2>1. /\ a.client \in Clients /\ a.id \in Ids /\ SendEvent(a.client, e) /\ UNCHANGED seen
    BY <1>4, HandlingTypes DEF RemoveSubscription, DestTypeOK
  <2>2. e \in ClientEvent /\ Names(e, Ids')
    BY <1>1, <2>1, IssuedTypes DEF Unsubscribed, ClientEvent, Names
  <2> QED
    BY <1>1, <1>2, <2>1, <2>2, TellingOfIssued
<1>5. ASSUME NEW i \in todo[d], SendTo(d, i)
      PROVE  ToldOfIssued'
  <2> DEFINE m == First(actions[d]).message
             e == ServerMessage(issued[i].sub, i, m)
  <2>1. i \in Ids /\ m \in Messages
    BY <1>5, SendActionTypes DEF SendTo, SendInHand, DestTypeOK
  <2>2. e \in ClientEvent /\ Names(e, Ids') /\ issued[i].client \in Clients
    BY <1>1, <2>1, IssuedTypes DEF ServerMessage, ClientEvent, Names
  <2>3. SendEvent(issued[i].client, e) /\ UNCHANGED seen
    BY <1>5 DEF SendTo
  <2> QED
    BY <1>1, <1>2, <2>2, <2>3, TellingOfIssued
<1>6. CASE UNCHANGED <<issued, inbox, seen>>
  BY <1>6 DEF ToldOfIssued, Told, Ids
<1> QED
  BY <1>3, <1>4, <1>5, <1>6
     DEF Backend, RemoveUnknownSubscription, BeginSend, EndSend, CloseBackend, Stop, proxyVars

-----------------------------------------------------------------------------
(* Destinations are topics.                                                *)

\* What topics do not see.
LEMMA Stutter ==
    ASSUME issued' = issued, subscriptions' = subscriptions,
           \A c \in Clients : Alive(c)' = Alive(c),
           \A d \in Destinations : Stopped(d)' = Stopped(d),
           \A i \in Ids : Awaited(i)' = Awaited(i) /\ Handed(i)' = Handed(i)
    PROVE  UNCHANGED Abstract!topicVars
<1>1. Ids' = Ids
  BY DEF Ids
<1>2. [i \in Ids |-> Awaited(i)]' = [i \in Ids |-> Awaited(i)]
  BY <1>1
<1>3. [i \in Ids |-> Handed(i)]' = [i \in Ids |-> Handed(i)]
  BY <1>1
<1>4. [i \in Ids |-> [topic |-> Home(i), subscriber |-> Owner(i)]]' =
      [i \in Ids |-> [topic |-> Home(i), subscriber |-> Owner(i)]]
  BY <1>1 DEF Home, Owner
<1>5. {c \in Clients : Alive(c)}' = {c \in Clients : Alive(c)}
  OBVIOUS
<1>6. {d \in Destinations : Stopped(d)}' = {d \in Destinations : Stopped(d)}
  OBVIOUS
<1> QED
  BY <1>2, <1>3, <1>4, <1>5, <1>6 DEF Abstract!topicVars

\* To those who have a subscription the environment delivers nothing, but a
\* session that ends may lose the last that it was sent.
LEMMA EnvironmentDelivers ==
    ASSUME TypeOK, EnvironmentStep
    PROVE  \/ /\ \A c \in Clients : Alive(c)' = Alive(c)
              /\ \A i \in Ids : Delivered(i)' = Delivered(i)
           \/ \E c \in Clients :
                /\ Alive(c) /\ ~Alive(c)' /\ \A x \in Clients \ {c} : Alive(x)' = Alive(x)
                /\ \A i \in Ids :
                     IF Owner(i) = c
                     THEN /\ Delivered(i)' = SubSeq(Delivered(i), 1, Len(Delivered(i)'))
                          /\ Len(Delivered(i)') \in 0 .. Len(Delivered(i))
                     ELSE Delivered(i)' = Delivered(i)
<1> USE DEF TypeOK
<1>1. /\ Ids' = Ids /\ issued' = issued
      /\ \A i \in Ids : Owner(i) \in Clients /\ i \in Nat /\ i # Failed
      /\ \A c \in Clients : Told(c) \in Seq(ClientEvent)
  <2>1. Ids' = Ids /\ issued' = issued
    BY DEF EnvironmentStep, Ids
  <2>2. \A i \in Ids : Owner(i) \in Clients /\ i \in Nat /\ i # Failed
    BY IssuedTypes DEF Owner, Failed
  <2> QED
    BY <2>1, <2>2, ToldTypes
<1>2. ASSUME NEW i \in Ids, NEW c \in Clients, Owner(i) = c
      PROVE  /\ Delivered(i) = Selected(Told(c), About(i))
             /\ Delivered(i)' = Selected(Told(c)', About(i))
  BY <1>1, <1>2 DEF Delivered, Owner, About
<1>3. ASSUME NEW i \in Ids, NEW c \in Clients, Owner(i) = c, Told(c)' = Told(c)
      PROVE  Delivered(i)' = Delivered(i)
  BY <1>2, <1>3
<1>4. ASSUME NEW i \in Ids, NEW c \in Clients, Owner(i) = c,
             NEW d \in Destinations, NEW s \in SubIds,
             Told(c)' = Append(Told(c), Subscribed(d, s, Failed))
      PROVE  Delivered(i)' = Delivered(i)
  <2>1. Subscribed(d, s, Failed) \in ClientEvent /\ Subscribed(d, s, Failed) \notin About(i)
    BY <1>1 DEF Subscribed, ClientEvent, About, Failed
  <2>2. Selected(Append(Told(c), Subscribed(d, s, Failed)), About(i)) = Selected(Told(c), About(i))
    BY <1>1, <2>1, SelectedAppend
  <2> QED
    BY <1>2, <1>4, <2>2
<1>5. CASE \A c \in Clients :
             /\ Alive(c)' = Alive(c)
             /\ \/ Told(c)' = Told(c)
                \/ \E d \in Destinations, s \in SubIds :
                     Told(c)' = Append(Told(c), Subscribed(d, s, Failed))
  <2>1. ASSUME NEW i \in Ids
        PROVE  Delivered(i)' = Delivered(i)
    <3> DEFINE c == Owner(i)
    <3>1. c \in Clients /\ Owner(i) = c
      BY <1>1
    <3> HIDE DEF c
    <3> QED
      BY <1>3, <1>4, <1>5, <3>1
  <2> QED
    BY <1>5, <2>1
<1>6. ASSUME NEW c \in Clients,
             Alive(c), ~Alive(c)',
             Told(c)' \in Seq(ClientEvent), Len(Told(c)') <= Len(Told(c)),
             \A k \in 1 .. Len(Told(c)') : Told(c)'[k] = Told(c)[k],
             \A x \in Clients \ {c} : Told(x)' = Told(x) /\ Alive(x)' = Alive(x),
             NEW i \in Ids
      PROVE  IF Owner(i) = c
             THEN /\ Delivered(i)' = SubSeq(Delivered(i), 1, Len(Delivered(i)'))
                  /\ Len(Delivered(i)') \in 0 .. Len(Delivered(i))
             ELSE Delivered(i)' = Delivered(i)
  <2>1. CASE Owner(i) = c
    <3> DEFINE before == Told(c)
               after == Told(c)'
    <3>1. /\ before \in Seq(ClientEvent) /\ after \in Seq(ClientEvent)
          /\ Len(after) <= Len(before)
          /\ \A k \in 1 .. Len(after) : after[k] = before[k]
      BY <1>1, <1>6, <2>1
    <3>2. Delivered(i) = Selected(before, About(i)) /\ Delivered(i)' = Selected(after, About(i))
      BY <1>2, <2>1
    <3> HIDE DEF before, after
    <3>3. /\ Len(Selected(after, About(i))) <= Len(Selected(before, About(i)))
          /\ \A k \in 1 .. Len(Selected(after, About(i))) :
               Selected(after, About(i))[k] = Selected(before, About(i))[k]
      BY <3>1, SelectedPrefix
    <3>4. /\ Selected(before, About(i)) \in Seq(ClientEvent \cap About(i))
          /\ Selected(after, About(i)) \in Seq(ClientEvent \cap About(i))
      BY <3>1, SelectedTypes
    <3> DEFINE t == Selected(after, About(i))
               u == Selected(before, About(i))
               E == ClientEvent \cap About(i)
    <3> HIDE DEF t, u, E
    <3>5. t = SubSeq(u, 1, Len(t)) /\ Len(t) \in 0 .. Len(u)
      <4>1. t \in Seq(E) /\ u \in Seq(E) /\ Len(t) <= Len(u) /\ \A k \in 1 .. Len(t) : t[k] = u[k]
        BY <3>3, <3>4 DEF t, u, E
      <4> QED
        BY <4>1, PrefixIsSubSeq
    <3> QED
      BY <2>1, <3>2, <3>5 DEF t, u
  <2>2. CASE Owner(i) # c
    <3>1. PICK x \in Clients : Owner(i) = x /\ x # c
      BY <1>1, <2>2
    <3> QED
      BY <1>3, <1>6, <2>2, <3>1
  <2> QED
    BY <2>1, <2>2
<1>7. CASE \E c \in Clients :
             /\ Alive(c) /\ ~Alive(c)'
             /\ Told(c)' \in Seq(ClientEvent) /\ Len(Told(c)') <= Len(Told(c))
             /\ \A k \in 1 .. Len(Told(c)') : Told(c)'[k] = Told(c)[k]
             /\ \A x \in Clients \ {c} : Told(x)' = Told(x) /\ Alive(x)' = Alive(x)
  <2> PICK c \in Clients :
             /\ Alive(c) /\ ~Alive(c)'
             /\ Told(c)' \in Seq(ClientEvent) /\ Len(Told(c)') <= Len(Told(c))
             /\ \A k \in 1 .. Len(Told(c)') : Told(c)'[k] = Told(c)[k]
             /\ \A x \in Clients \ {c} : Told(x)' = Told(x) /\ Alive(x)' = Alive(x)
    BY <1>7
  <2>1. \A i \in Ids :
          IF Owner(i) = c
          THEN /\ Delivered(i)' = SubSeq(Delivered(i), 1, Len(Delivered(i)'))
               /\ Len(Delivered(i)') \in 0 .. Len(Delivered(i))
          ELSE Delivered(i)' = Delivered(i)
    BY <1>6
  <2> QED
    BY <2>1
<1> QED
  BY <1>5, <1>7 DEF EnvironmentStep

\* What the client of a subscription was handed are words and messages, one for
\* each event.
WordForWord ==
    \A i \in Ids :
        /\ Delivered(i) \in Seq(ClientEvent)
        /\ Handed(i) \in Seq({"joined", "left"} \cup Messages)
        /\ Len(Handed(i)) = Len(Delivered(i))
        /\ \A k \in 1 .. Len(Delivered(i)) : Handed(i)[k] = Word(Delivered(i)[k])

\* This is so whenever types are kept.
LEMMA HandedTypes == TypeOK => WordForWord
<1> SUFFICES ASSUME TypeOK, NEW i \in Ids
             PROVE  /\ Delivered(i) \in Seq(ClientEvent)
                    /\ Handed(i) \in Seq({"joined", "left"} \cup Messages)
                    /\ Len(Handed(i)) = Len(Delivered(i))
                    /\ \A k \in 1 .. Len(Delivered(i)) : Handed(i)[k] = Word(Delivered(i)[k])
  BY DEF WordForWord
<1>1. Delivered(i) \in Seq(ClientEvent \cap About(i))
  BY DeliveredTypes DEF TypeOK
<1>2. \A e \in About(i) : Word(e) \in {"joined", "left"} \cup Messages
  BY DEF About, Word
<1> DEFINE n == Len(Delivered(i))
<1>3. /\ n \in Nat /\ DOMAIN Delivered(i) = 1 .. n
      /\ \A k \in 1 .. n : Delivered(i)[k] \in About(i)
      /\ Delivered(i) \in Seq(ClientEvent)
  BY <1>1
<1>4. Handed(i) = [k \in 1 .. n |-> Word(Delivered(i)[k])]
  BY <1>3 DEF Handed
<1>5. \A k \in 1 .. n : Word(Delivered(i)[k]) \in {"joined", "left"} \cup Messages
  BY <1>2, <1>3
<1> HIDE DEF n
<1>6. /\ Handed(i) \in [1 .. n -> {"joined", "left"} \cup Messages]
      /\ \A k \in 1 .. n : Handed(i)[k] = Word(Delivered(i)[k])
  BY <1>4, <1>5
<1>7. Handed(i) \in Seq({"joined", "left"} \cup Messages) /\ Len(Handed(i)) = n
  BY <1>3, <1>6
<1> QED
  BY <1>3, <1>6, <1>7 DEF n

\* One event more is one word more, ...
LEMMA HandedMore ==
    ASSUME TypeOK, TypeOK', NEW i \in Ids, i \in Ids', NEW e,
           Delivered(i)' = Append(Delivered(i), e), Word(e) \in {"joined", "left"} \cup Messages
    PROVE  Handed(i)' = Append(Handed(i), Word(e))
<1> DEFINE words == {"joined", "left"} \cup Messages
           events == Delivered(i)
           events2 == Delivered(i)'
           before == Handed(i)
           after == Handed(i)'
<1>1. /\ events \in Seq(ClientEvent) /\ before \in Seq(words) /\ Len(before) = Len(events)
      /\ \A k \in 1 .. Len(events) : before[k] = Word(events[k])
  BY HandedTypes DEF WordForWord
<1>2. WordForWord'
  <2>1. (TypeOK => WordForWord)'
    BY HandedTypes, PTL
  <2> QED
    BY <2>1
<1>3. /\ after \in Seq(words) /\ Len(after) = Len(events2)
      /\ \A k \in 1 .. Len(events2) : after[k] = Word(events2[k])
  BY <1>2 DEF WordForWord
<1>4. events2 = Append(events, e) /\ Word(e) \in words
  OBVIOUS
<1>5. /\ Len(events2) = Len(events) + 1 /\ Len(events) \in Nat
      /\ \A k \in 1 .. Len(events) : events2[k] = events[k]
      /\ events2[Len(events) + 1] = e
  <2> HIDE DEF events, events2
  <2> QED
    BY <1>1, <1>4
<1> HIDE DEF words, events, events2, before, after
<1>6. /\ Append(before, Word(e)) \in Seq(words) /\ Len(Append(before, Word(e))) = Len(after)
      /\ \A k \in 1 .. Len(events) : Append(before, Word(e))[k] = before[k]
      /\ Append(before, Word(e))[Len(events) + 1] = Word(e)
  BY <1>1, <1>3, <1>4, <1>5, AppendProperties
<1>7. \A k \in 1 .. Len(after) : after[k] = Append(before, Word(e))[k]
  BY <1>1, <1>3, <1>5, <1>6
<1>8. after = Append(before, Word(e))
  BY <1>3, <1>6, <1>7, SeqEqual
<1> QED
  BY <1>8 DEF before, after

\* ... and who loses the last events loses the last words.
LEMMA HandedLess ==
    ASSUME TypeOK, TypeOK', NEW i \in Ids, i \in Ids',
           Delivered(i)' = SubSeq(Delivered(i), 1, Len(Delivered(i)')),
           Len(Delivered(i)') \in 0 .. Len(Delivered(i))
    PROVE  Handed(i)' \in {SubSeq(Handed(i), 1, n) : n \in 0 .. Len(Handed(i))}
<1> DEFINE words == {"joined", "left"} \cup Messages
           events == Delivered(i)
           events2 == Delivered(i)'
           before == Handed(i)
           after == Handed(i)'
<1>1. /\ events \in Seq(ClientEvent) /\ before \in Seq(words) /\ Len(before) = Len(events)
      /\ \A k \in 1 .. Len(events) : before[k] = Word(events[k])
  BY HandedTypes DEF WordForWord
<1>2. WordForWord'
  <2>1. (TypeOK => WordForWord)'
    BY HandedTypes, PTL
  <2> QED
    BY <2>1
<1>3. /\ after \in Seq(words) /\ Len(after) = Len(events2)
      /\ \A k \in 1 .. Len(events2) : after[k] = Word(events2[k])
  BY <1>2 DEF WordForWord
<1>4. events2 = SubSeq(events, 1, Len(events2)) /\ Len(events2) \in 0 .. Len(events)
  OBVIOUS
<1>5. \A k \in 1 .. Len(events2) : events2[k] = events[k]
  <2> HIDE DEF events, events2
  <2>1. Len(events2) \in Int /\ \A k \in 1 .. Len(events2) : events[k] \in ClientEvent
    BY <1>1, <1>4
  <2>2. \A k \in 1 .. Len(events2) : SubSeq(events, 1, Len(events2))[k] = events[k]
    BY <2>1
  <2> QED
    BY <1>4, <2>2
<1> HIDE DEF words, events, events2, before, after
<1>6. Len(after) <= Len(before) /\ \A k \in 1 .. Len(after) : after[k] = before[k]
  BY <1>1, <1>3, <1>4, <1>5
<1>7. after = SubSeq(before, 1, Len(after)) /\ Len(after) \in 0 .. Len(before)
  BY <1>1, <1>3, <1>6, PrefixIsSubSeq
<1> QED
  BY <1>7 DEF before, after

\* What the loop of send has yet to hand out changes, for the living, only if
\* the task takes a step.
LEMMA EnvironmentAwaits ==
    ASSUME TypeOK, LoopIsSound, EnvironmentStep, NEW i \in Ids
    PROVE  /\ i \in Ids' /\ Owner(i)' = Owner(i) /\ Home(i)' = Home(i)
           /\ \A c \in Clients : Owner(i) = c /\ Alive(c)' = Alive(c) => Awaited(i)' = Awaited(i)
           /\ \A c \in Clients : Owner(i) = c /\ ~Alive(c)' => Awaited(i)' = <<>>
<1>1. /\ Ids' = Ids /\ issued' = issued /\ todo' = todo
      /\ Home(i) \in Destinations
  BY IssuedTypes DEF EnvironmentStep, Ids, Home, TypeOK
<1>2. Owner(i)' = Owner(i) /\ Home(i)' = Home(i)
  BY <1>1 DEF Owner, Home
<1>3. ASSUME NEW d \in Destinations, Home(i) = d
      PROVE  i \in todo[d] => First(actions'[d]) = First(actions[d])
  BY DEF LoopIsSound, EnvironmentStep
<1>4. ASSUME NEW c \in Clients, Owner(i) = c, Alive(c)' = Alive(c)
      PROVE  Awaited(i)' = Awaited(i)
  <2>1. Alive(Owner(i))' = Alive(Owner(i))
    BY <1>2, <1>4 DEF Alive
  <2>2. CASE i \notin todo[Home(i)]
    BY <1>1, <1>2, <2>2 DEF Awaited
  <2>3. CASE i \in todo[Home(i)]
    <3>1. First(actions[Home(i)])' = First(actions[Home(i)])
      BY <1>1, <1>2, <1>3, <2>3
    <3> QED
      BY <1>1, <1>2, <2>1, <2>3, <3>1 DEF Awaited
  <2> QED
    BY <2>2, <2>3
<1>5. ASSUME NEW c \in Clients, Owner(i) = c, ~Alive(c)'
      PROVE  Awaited(i)' = <<>>
  <2>1. ~Alive(Owner(i))'
    BY <1>2, <1>5 DEF Alive
  <2> QED
    BY <2>1 DEF Awaited
<1> QED
  BY <1>1, <1>2, <1>4, <1>5

\* What the environment does is invisible to topics, but for a session that
\* ends, which departs.
LEMMA EnvironmentRefines ==
    ASSUME TypeOK, TypeOK', LoopIsSound, EnvironmentStep
    PROVE  [Abstract!Next]_(Abstract!topicVars)
<1>1. /\ Ids' = Ids /\ issued' = issued /\ subscriptions' = subscriptions
      /\ \A i \in Ids : Owner(i) \in Clients
  BY IssuedTypes DEF EnvironmentStep, Ids, Owner, TypeOK
<1>2. \A d \in Destinations : Stopped(d)' = Stopped(d)
  BY DEF EnvironmentStep, Stopped
<1>3. ASSUME NEW i \in Ids, Delivered(i)' = Delivered(i)
      PROVE  Handed(i)' = Handed(i)
  BY <1>3 DEF Handed
<1>4. CASE /\ \A c \in Clients : Alive(c)' = Alive(c)
           /\ \A i \in Ids : Delivered(i)' = Delivered(i)
  <2>1. \A i \in Ids : Awaited(i)' = Awaited(i) /\ Handed(i)' = Handed(i)
    BY <1>1, <1>3, <1>4, EnvironmentAwaits
  <2>2. UNCHANGED Abstract!topicVars
    BY <1>1, <1>2, <1>4, <2>1, Stutter
  <2> QED
    BY <2>2
<1>5. ASSUME NEW c \in Clients,
             Alive(c), ~Alive(c)', \A x \in Clients \ {c} : Alive(x)' = Alive(x),
             \A i \in Ids :
                IF Owner(i) = c
                THEN /\ Delivered(i)' = SubSeq(Delivered(i), 1, Len(Delivered(i)'))
                     /\ Len(Delivered(i)') \in 0 .. Len(Delivered(i))
                ELSE Delivered(i)' = Delivered(i)
      PROVE  Abstract!Depart(c)
  <2> DEFINE known == [i \in Ids |-> [topic |-> Home(i), subscriber |-> Owner(i)]]
             present == {x \in Clients : Alive(x)}
             stopped == {d \in Destinations : Stopped(d)}
             due == [i \in Ids |-> Awaited(i)]
             got == [i \in Ids |-> Handed(i)]
             mine == {i \in DOMAIN known : known[i].subscriber = c}
  <2>1. mine = {i \in Ids : Owner(i) = c}
    OBVIOUS
  <2>2. known' = known
    BY <1>1, EnvironmentAwaits
  <2>3. present' = present \ {c} /\ c \in present
    BY <1>5
  <2>4. stopped' = stopped
    BY <1>2
  <2>5. due' = [i \in DOMAIN due |-> IF i \in mine THEN <<>> ELSE due[i]]
    <3>1. \A i \in Ids : Awaited(i)' = IF Owner(i) = c THEN <<>> ELSE Awaited(i)
      BY <1>1, <1>5, EnvironmentAwaits
    <3>2. due' = [i \in Ids |-> IF Owner(i) = c THEN <<>> ELSE Awaited(i)]
      BY <1>1, <3>1
    <3> QED
      BY <2>1, <3>2
  <2>6. DOMAIN got' = DOMAIN got
    BY <1>1
  <2>7. ASSUME NEW i \in DOMAIN got
        PROVE  IF i \in mine
               THEN got'[i] \in {SubSeq(got[i], 1, n) : n \in 0 .. Len(got[i])}
               ELSE got'[i] = got[i]
    <3>1. i \in Ids /\ i \in Ids' /\ got[i] = Handed(i) /\ got'[i] = Handed(i)'
      BY <1>1
    <3>2. CASE Owner(i) = c
      BY <1>5, <2>1, <3>1, <3>2, HandedLess
    <3>3. CASE Owner(i) # c
      BY <1>3, <1>5, <2>1, <3>1, <3>3
    <3> QED
      BY <3>2, <3>3
  <2> HIDE DEF mine
  <2>8. /\ c \in present
        /\ present' = present \ {c}
        /\ due' = [i \in DOMAIN due |-> IF i \in mine THEN <<>> ELSE due[i]]
        /\ DOMAIN got' = DOMAIN got
        /\ \A i \in DOMAIN got :
             IF i \in mine THEN got'[i] \in {SubSeq(got[i], 1, n) : n \in 0 .. Len(got[i])}
                           ELSE got'[i] = got[i]
        /\ UNCHANGED <<known, subscriptions, stopped>>
    BY <1>1, <2>2, <2>3, <2>4, <2>5, <2>6, <2>7
  <2> QED
    BY <2>8 DEF Abstract!Depart, mine
<1>6. (\E c \in Clients : Abstract!Depart(c)) => Abstract!Next
  BY DEF Abstract!Next
<1> QED
  BY <1>4, <1>5, <1>6, EnvironmentDelivers

\* Nobody awaits a message of a destination that is not sending; the task of one
\* destination has nothing to do with the messages of another.
LEMMA IdleAwaits ==
    ASSUME TypeOK, NEW d \in Destinations,
           \A c \in Clients : Alive(c)' = Alive(c),
           \A x \in Destinations \ {d} : actions'[x] = actions[x] /\ todo'[x] = todo[x],
           todo[d] = {}, todo'[d] = {},
           NEW i \in Ids, issued'[i] = issued[i]
    PROVE  Awaited(i)' = Awaited(i) /\ (Home(i) = d => Awaited(i) = <<>>)
<1>1. /\ Home(i) \in Destinations /\ Owner(i) \in Clients
      /\ Home(i)' = Home(i) /\ Owner(i)' = Owner(i)
  BY IssuedTypes DEF TypeOK, Home, Owner
<1>2. Alive(Owner(i))' = Alive(Owner(i))
  <2>1. PICK c \in Clients : Owner(i) = c
    BY <1>1
  <2> QED
    BY <1>1, <2>1 DEF Alive
<1>3. CASE Home(i) = d
  BY <1>1, <1>3 DEF Awaited
<1>4. CASE Home(i) # d
  <2>1. First(actions[Home(i)])' = First(actions[Home(i)]) /\ todo'[Home(i)] = todo[Home(i)]
    BY <1>1, <1>4 DEF First
  <2> QED
    BY <1>1, <1>2, <1>4, <2>1 DEF Awaited
<1> QED
  BY <1>3, <1>4

\* No event is about a subscription that was never made.
LEMMA NothingTold ==
    ASSUME TypeOK, ToldOfIssued, NEW c \in Clients, NEW i \in Nat \ {Failed}, i \notin Ids
    PROVE  Selected(Told(c), About(i)) = <<>>
<1> DEFINE E == ClientEvent \ About(i)
<1>1. Told(c) \in Seq(ClientEvent)
  BY ToldTypes DEF TypeOK
<1>2. \A k \in 1 .. Len(Told(c)) : Told(c)[k] \in ClientEvent /\ Names(Told(c)[k], Ids)
  BY <1>1 DEF ToldOfIssued
<1>3. \A e \in About(i) : ~Names(e, Ids)
  BY DEF About, Names
<1>4. Told(c) \in Seq(E)
  <2>1. \A k \in 1 .. Len(Told(c)) : Told(c)[k] \in E
    BY <1>2, <1>3
  <2> HIDE DEF E
  <2> QED
    BY <1>1, <2>1
<1>5. Selected(Told(c), About(i)) \in Seq(E \cap About(i))
  <2> HIDE DEF E
  <2> QED
    BY <1>4, SelectedTypes
<1>6. E \cap About(i) = {}
  OBVIOUS
<1> HIDE DEF E
<1>7. \A s \in Seq({}) : s = <<>>
  OBVIOUS
<1> QED
  BY <1>5, <1>6, <1>7

\* What a subscriber is told when it subscribes, and the others are not.
LEMMA AddDelivers ==
    ASSUME TypeOK, SendInHand, ToldOfIssued, NEW d \in Destinations, AddSubscription(d)
    PROVE  \E c \in Clients, s \in SubIds, new \in Nat :
               /\ new = Len(issued) + 1 /\ Ids' = Ids \cup {new} /\ Ids = 1 .. new - 1
               /\ issued'[new] = [client |-> c, dest |-> d, sub |-> s]
               /\ subscriptions' = [subscriptions EXCEPT ![d] = subscriptions[d] \cup {new}]
               /\ log' = [log EXCEPT ![d] = Append(log[d], Joined(new))]
               /\ \A i \in Ids : issued'[i] = issued[i] /\ Delivered(i)' = Delivered(i)
               /\ Delivered(new)' = IF Alive(c) THEN <<Subscribed(d, s, new)>> ELSE <<>>
<1> USE DEF TypeOK
<1>1. PICK c \in Clients, s \in SubIds, new \in Nat :
        /\ c = First(actions[d]).client /\ s = First(actions[d]).sub /\ new = Len(issued) + 1
        /\ issued' = Append(issued, [client |-> c, dest |-> d, sub |-> s])
        /\ subscriptions' = [subscriptions EXCEPT ![d] = subscriptions[d] \cup {new}]
        /\ log' = [log EXCEPT ![d] = Append(log[d], Joined(new))]
        /\ SendEvent(c, Subscribed(d, s, new)) /\ UNCHANGED seen
  <2>1. Len(issued) + 1 \in Nat
    BY DEF DestTypeOK
  <2> QED
    BY <2>1, HandlingTypes DEF AddSubscription, Record
<1> DEFINE e == Subscribed(d, s, new)
<1>2. /\ Ids' = Ids \cup {new} /\ new \notin Ids /\ new # Failed /\ Ids = 1 .. new - 1
      /\ issued'[new] = [client |-> c, dest |-> d, sub |-> s]
      /\ \A i \in Ids : issued'[i] = issued[i]
  BY <1>1 DEF DestTypeOK, Ids, Failed
<1>3. e \in ClientEvent /\ \A i : e \in About(i) <=> i = new
  BY DEF Subscribed, ClientEvent, About
<1>4. ASSUME NEW i \in Ids
      PROVE  Delivered(i)' = Delivered(i)
  <2>1. issued'[i] = issued[i] /\ e \notin About(i) /\ SendEvent(c, e) /\ UNCHANGED seen
    BY <1>1, <1>2, <1>3
  <2> HIDE DEF e
  <2> QED
    BY <1>3, <2>1, SendDelivers
<1>5. Delivered(new)' = IF Alive(c) THEN <<e>> ELSE <<>>
  <2> DEFINE told == Told(c)
             mine == About(new)
  <2>1. told \in Seq(ClientEvent) /\ Selected(told, mine) = <<>>
    BY <1>2, ToldTypes, NothingTold
  <2>2. Told(c)' = IF Alive(c) THEN Append(told, e) ELSE told
    BY <1>1, <1>3, SendTells
  <2>3. Delivered(new)' = Selected(Told(c)', mine)
    <3>1. issued'[new].client = c
      BY <1>2
    <3> QED
      BY <3>1 DEF Delivered, About
  <2>4. Selected(Append(told, e), mine) = Append(Selected(told, mine), e)
    <3>1. e \in mine /\ e \in ClientEvent
      BY <1>3
    <3> HIDE DEF told, mine, e
    <3> QED
      BY <2>1, <3>1, SelectedAppend
  <2>5. Append(<<>>, e) = <<e>>
    OBVIOUS
  <2> HIDE DEF told, mine, e
  <2> QED
    BY <2>1, <2>2, <2>3, <2>4, <2>5
<1> QED
  BY <1>1, <1>2, <1>4, <1>5

\* What a subscriber is told when it unsubscribes, and the others are not.
LEMMA RemoveDelivers ==
    ASSUME TypeOK, RequestsAreOwn, NEW d \in Destinations, RemoveSubscription(d)
    PROVE  \E i \in subscriptions[d] :
               /\ i \in Ids /\ issued[i].dest = d /\ issued' = issued
               /\ subscriptions' = [subscriptions EXCEPT ![d] = subscriptions[d] \ {i}]
               /\ log' = [log EXCEPT ![d] = Append(log[d], Left(i))]
               /\ \A j \in Ids :
                    Delivered(j)' = IF j = i /\ Alive(Owner(i))
                                    THEN Append(Delivered(i), Unsubscribed(issued[i].sub, i))
                                    ELSE Delivered(j)
<1> USE DEF TypeOK
<1>1. PICK c \in Clients, i \in subscriptions[d] :
        /\ c = First(actions[d]).client /\ i = First(actions[d]).id
        /\ issued' = issued
        /\ subscriptions' = [subscriptions EXCEPT ![d] = subscriptions[d] \ {i}]
        /\ log' = [log EXCEPT ![d] = Append(log[d], Left(i))]
        /\ SendEvent(c, Unsubscribed(issued[i].sub, i)) /\ UNCHANGED seen
  BY HandlingTypes DEF RemoveSubscription, Record
<1>2. i \in Ids /\ issued[i].client = c /\ issued[i].dest = d
  <2>1. First(actions[d]) \in Pending(actions[d]) /\ First(actions[d]).type = "Unsubscribe"
    BY HandlingTypes DEF RemoveSubscription
  <2> QED
    BY <1>1, <2>1 DEF RequestsAreOwn
<1> DEFINE e == Unsubscribed(issued[i].sub, i)
<1>3. e \in ClientEvent /\ \A j : e \in About(j) <=> j = i
  BY <1>2, IssuedTypes DEF Unsubscribed, ClientEvent, About
<1>4. ASSUME NEW j \in Ids
      PROVE  Delivered(j)' = IF j = i /\ Alive(Owner(i)) THEN Append(Delivered(i), e) ELSE Delivered(j)
  <2>1. issued'[j] = issued[j] /\ SendEvent(c, e) /\ UNCHANGED seen
    BY <1>1
  <2> HIDE DEF e
  <2>2. Delivered(j)' = IF issued[j].client = c /\ Alive(c) /\ e \in About(j)
                        THEN Append(Delivered(j), e) ELSE Delivered(j)
    BY <1>3, <2>1, SendDelivers
  <2> QED
    BY <1>2, <1>3, <2>2 DEF Owner
<1> QED
  BY <1>1, <1>2, <1>4

\* One iteration of the loop of send hands one subscriber the message.
LEMMA SendToDelivers ==
    ASSUME TypeOK, SendInHand, NEW d \in Destinations, NEW i \in todo[d], SendTo(d, i)
    PROVE  \E m \in Messages :
               /\ m = First(actions[d]).message /\ First(actions'[d]).message = m
               /\ i \in Ids /\ issued' = issued
               /\ \A j \in Ids :
                    Delivered(j)' = IF j = i /\ Alive(Owner(i))
                                    THEN Append(Delivered(i), ServerMessage(issued[i].sub, i, m))
                                    ELSE Delivered(j)
<1> USE DEF TypeOK
<1>1. PICK m \in Messages :
        /\ m = First(actions[d]).message /\ actions' = actions /\ issued' = issued
        /\ SendEvent(issued[i].client, ServerMessage(issued[i].sub, i, m)) /\ UNCHANGED seen
  <2>1. First(actions[d]).message \in Messages
    BY SendActionTypes DEF SendTo, SendInHand
  <2> QED
    BY <2>1 DEF SendTo
<1>2. i \in Ids
  BY DEF DestTypeOK
<1> DEFINE e == ServerMessage(issued[i].sub, i, m)
           c == issued[i].client
<1>3. e \in ClientEvent /\ c \in Clients /\ \A j : e \in About(j) <=> j = i
  BY <1>2, IssuedTypes DEF ServerMessage, ClientEvent, About
<1>4. ASSUME NEW j \in Ids
      PROVE  Delivered(j)' = IF j = i /\ Alive(Owner(i)) THEN Append(Delivered(i), e) ELSE Delivered(j)
  <2>1. issued'[j] = issued[j] /\ SendEvent(c, e) /\ UNCHANGED seen
    BY <1>1
  <2>2. Delivered(j)' = IF issued[j].client = c /\ Alive(c) /\ e \in About(j)
                        THEN Append(Delivered(j), e) ELSE Delivered(j)
    <3> HIDE DEF e, c
    <3> QED
      BY <1>3, <2>1, SendDelivers
  <2> HIDE DEF e
  <2> QED
    BY <1>2, <1>3, <2>2 DEF Owner
<1> QED
  BY <1>1, <1>2, <1>4

\* add_subscription is a subscriber that joins.
LEMMA AddRefines ==
    ASSUME TypeOK, TypeOK', SendInHand, LoopIsSound, ToldOfIssued,
           NEW d \in Destinations, AddSubscription(d)
    PROVE  \E c \in Clients : Abstract!Join(d, c)
<1> USE DEF TypeOK
<1>1. PICK c \in Clients, s \in SubIds, new \in Nat :
        /\ new = Len(issued) + 1 /\ Ids' = Ids \cup {new} /\ Ids = 1 .. new - 1
        /\ issued'[new] = [client |-> c, dest |-> d, sub |-> s]
        /\ subscriptions' = [subscriptions EXCEPT ![d] = subscriptions[d] \cup {new}]
        /\ log' = [log EXCEPT ![d] = Append(log[d], Joined(new))]
        /\ \A i \in Ids : issued'[i] = issued[i] /\ Delivered(i)' = Delivered(i)
        /\ Delivered(new)' = IF Alive(c) THEN <<Subscribed(d, s, new)>> ELSE <<>>
  BY AddDelivers
<1> DEFINE n == new - 1
           known == [i \in Ids |-> [topic |-> Home(i), subscriber |-> Owner(i)]]
           present == {x \in Clients : Alive(x)}
           stopped == {x \in Destinations : Stopped(x)}
           due == [i \in Ids |-> Awaited(i)]
           got == [i \in Ids |-> Handed(i)]
<1>2. n \in Nat /\ Ids = 1 .. n /\ Ids' = 1 .. n + 1 /\ n + 1 = new /\ new \in Ids'
  <2>1. Len(issued) \in Nat
    BY DEF DestTypeOK
  <2> QED
    BY <1>1, <2>1
<1>3. \A x \in Clients : Alive(x)' = Alive(x)
  BY TaskEffect DEF Backend
<1>4. present' = present
  BY <1>3
<1>5. d \notin stopped /\ stopped' = stopped
  BY DEF AddSubscription, Handling, Stopped
<1>6. /\ \A i \in Ids : Home(i)' = Home(i) /\ Owner(i)' = Owner(i)
      /\ Home(new)' = d /\ Owner(new)' = c
  BY <1>1 DEF Home, Owner
<1>7. known' = Append(known, [topic |-> d, subscriber |-> c]) /\ Len(known) = n
  <2> DEFINE g == known'
  <2>1. known = [i \in 1 .. n |-> known[i]] /\ g = [i \in 1 .. n + 1 |-> g[i]]
    BY <1>2
  <2>2. (\A i \in 1 .. n : g[i] = known[i]) /\ g[n + 1] = [topic |-> d, subscriber |-> c]
    BY <1>2, <1>6
  <2> HIDE DEF known, g, n
  <2> QED
    BY <1>2, <2>1, <2>2, OneMore DEF g
<1>8. due' = Append(due, <<>>)
  <2> DEFINE g == due'
  <2>1. due = [i \in 1 .. n |-> due[i]] /\ g = [i \in 1 .. n + 1 |-> g[i]]
    BY <1>2
  <2>2. ASSUME NEW i \in Ids
        PROVE  Awaited(i)' = Awaited(i)
    <3>1. /\ \A x \in Destinations \ {d} : actions'[x] = actions[x] /\ todo'[x] = todo[x]
          /\ todo[d] = {} /\ todo'[d] = {}
      BY DEF AddSubscription, Handling, Handled, LoopIsSound, DestTypeOK
    <3> QED
      BY <1>1, <1>3, <3>1, IdleAwaits
  <2>3. Awaited(new)' = <<>>
    <3>1. todo' = todo /\ todo[d] = {}
      BY DEF AddSubscription, Handling, LoopIsSound
    <3>2. Home(new)' = d
      BY <1>6
    <3> QED
      BY <3>1, <3>2 DEF Awaited
  <2>4. (\A i \in 1 .. n : g[i] = due[i]) /\ g[n + 1] = <<>>
    BY <1>2, <2>2, <2>3
  <2> HIDE DEF due, g, n
  <2> QED
    BY <1>2, <2>1, <2>4, OneMore DEF g
<1>9. got' = Append(got, IF c \in present THEN <<"joined">> ELSE <<>>)
  <2> DEFINE g == got'
  <2>1. got = [i \in 1 .. n |-> got[i]] /\ g = [i \in 1 .. n + 1 |-> g[i]]
    BY <1>2
  <2>2. ASSUME NEW i \in Ids
        PROVE  Handed(i)' = Handed(i)
    BY <1>1 DEF Handed
  <2>3. Handed(new)' = IF c \in present THEN <<"joined">> ELSE <<>>
    <3>1. CASE Alive(c)
      <4>1. Delivered(new)' = <<Subscribed(d, s, new)>>
        BY <1>1, <3>1
      <4>2. Word(Subscribed(d, s, new)) = "joined"
        BY DEF Word, Subscribed
      <4>3. Handed(new)' = [k \in {1} |-> Word(Subscribed(d, s, new))]
        BY <4>1 DEF Handed
      <4> QED
        BY <3>1, <4>2, <4>3
    <3>2. CASE ~Alive(c)
      <4>1. Delivered(new)' = <<>>
        BY <1>1, <3>2
      <4>2. Handed(new)' = <<>>
        BY <4>1 DEF Handed
      <4> QED
        BY <3>2, <4>2
    <3> QED
      BY <3>1, <3>2
  <2>4. (\A i \in 1 .. n : g[i] = got[i]) /\ g[n + 1] = IF c \in present THEN <<"joined">> ELSE <<>>
    BY <1>2, <2>2, <2>3
  <2> HIDE DEF got, g, n, present
  <2> QED
    BY <1>2, <2>1, <2>4, OneMore DEF g
<1>10. subscriptions' = [subscriptions EXCEPT ![d] = subscriptions[d] \cup {Len(known) + 1}]
  BY <1>1, <1>2, <1>7
<1> QED
  BY <1>4, <1>5, <1>7, <1>8, <1>9, <1>10 DEF Abstract!Join, Abstract!JOINED

\* What the task does beside making subscriptions leaves memberships, sessions
\* and, unless it stops, destinations as they are.
LEMMA Unmoved ==
    ASSUME TypeOK, issued' = issued, \A c \in Clients : Alive(c)' = Alive(c)
    PROVE  /\ Ids' = Ids
           /\ [i \in Ids |-> [topic |-> Home(i), subscriber |-> Owner(i)]]' =
              [i \in Ids |-> [topic |-> Home(i), subscriber |-> Owner(i)]]
           /\ {c \in Clients : Alive(c)}' = {c \in Clients : Alive(c)}
           /\ \A i \in Ids : /\ Owner(i)' = Owner(i) /\ Home(i)' = Home(i)
                             /\ Owner(i) \in Clients /\ Home(i) \in Destinations
                             /\ Alive(Owner(i))' = Alive(Owner(i))
                             /\ Delivered(i)' = Delivered(i) => Handed(i)' = Handed(i)
<1>1. Ids' = Ids
  BY DEF Ids
<1>2. \A i \in Ids : /\ Owner(i)' = Owner(i) /\ Home(i)' = Home(i)
                     /\ Owner(i) \in Clients /\ Home(i) \in Destinations
  BY IssuedTypes DEF Owner, Home, TypeOK
<1>3. ASSUME NEW i \in Ids
      PROVE  Alive(Owner(i))' = Alive(Owner(i))
  <2>1. PICK c \in Clients : Owner(i) = c
    BY <1>2
  <2> QED
    BY <1>2, <2>1 DEF Alive
<1>4. ASSUME NEW i \in Ids, Delivered(i)' = Delivered(i)
      PROVE  Handed(i)' = Handed(i)
  BY <1>4 DEF Handed
<1>5. {c \in Clients : Alive(c)}' = {c \in Clients : Alive(c)}
  OBVIOUS
<1> QED
  BY <1>1, <1>2, <1>3, <1>4, <1>5

\* remove_subscription is a member that leaves, ...
LEMMA RemoveRefines ==
    ASSUME TypeOK, TypeOK', SendInHand, LoopIsSound, RequestsAreOwn,
           NEW d \in Destinations, RemoveSubscription(d)
    PROVE  \E i \in subscriptions[d] : Abstract!Leave(d, i)
<1> USE DEF TypeOK
<1>1. PICK i \in subscriptions[d] :
        /\ i \in Ids /\ issued[i].dest = d /\ issued' = issued
        /\ subscriptions' = [subscriptions EXCEPT ![d] = subscriptions[d] \ {i}]
        /\ log' = [log EXCEPT ![d] = Append(log[d], Left(i))]
        /\ \A j \in Ids :
             Delivered(j)' = IF j = i /\ Alive(Owner(i))
                             THEN Append(Delivered(i), Unsubscribed(issued[i].sub, i))
                             ELSE Delivered(j)
  BY RemoveDelivers
<1> DEFINE known == [j \in Ids |-> [topic |-> Home(j), subscriber |-> Owner(j)]]
           present == {x \in Clients : Alive(x)}
           stopped == {x \in Destinations : Stopped(x)}
           due == [j \in Ids |-> Awaited(j)]
           got == [j \in Ids |-> Handed(j)]
<1>2. \A c \in Clients : Alive(c)' = Alive(c)
  BY TaskEffect DEF Backend
<1>3. /\ Ids' = Ids /\ known' = known /\ present' = present
      /\ \A j \in Ids : Delivered(j)' = Delivered(j) => Handed(j)' = Handed(j)
  BY <1>1, <1>2, Unmoved
<1>4. stopped' = stopped
  BY DEF RemoveSubscription, Handling, Stopped
<1>5. \A j \in Ids : Awaited(j)' = Awaited(j) /\ (Home(j) = d => Awaited(j) = <<>>)
  <2>1. /\ \A x \in Destinations \ {d} : actions'[x] = actions[x] /\ todo'[x] = todo[x]
        /\ todo[d] = {} /\ todo'[d] = {}
    BY DEF RemoveSubscription, Handling, Handled, LoopIsSound, DestTypeOK
  <2> QED
    BY <1>1, <1>2, <2>1, IdleAwaits
<1>6. due' = due /\ due[i] = <<>>
  BY <1>1, <1>3, <1>5 DEF Home
<1>7. got' = IF known[i].subscriber \in present
             THEN [got EXCEPT ![i] = Append(got[i], "left")] ELSE got
  <2>1. known[i].subscriber \in present <=> Alive(Owner(i))
    BY <1>1, IssuedTypes DEF Owner
  <2>2. CASE Alive(Owner(i))
    <3>1. Word(Unsubscribed(issued[i].sub, i)) = "left"
      BY DEF Word, Unsubscribed
    <3>2. Handed(i)' = Append(Handed(i), "left")
      BY <1>1, <1>3, <2>2, <3>1, HandedMore
    <3>3. \A j \in Ids : j # i => Handed(j)' = Handed(j)
      BY <1>1, <1>3
    <3> QED
      BY <1>1, <1>3, <2>1, <2>2, <3>2, <3>3
  <2>3. CASE ~Alive(Owner(i))
    <3>1. \A j \in Ids : Handed(j)' = Handed(j)
      BY <1>1, <1>3, <2>3
    <3> QED
      BY <1>3, <2>1, <2>3, <3>1
  <2> QED
    BY <2>2, <2>3
<1> HIDE DEF known, present, stopped, due, got
<1>8. /\ i \in subscriptions[d] /\ due[i] = <<>>
      /\ subscriptions' = [subscriptions EXCEPT ![d] = subscriptions[d] \ {i}]
      /\ got' = IF known[i].subscriber \in present
                THEN [got EXCEPT ![i] = Append(got[i], "left")] ELSE got
      /\ UNCHANGED <<known, present, stopped, due>>
  BY <1>1, <1>3, <1>4, <1>6, <1>7
<1>9. Abstract!Leave(d, i)
  BY <1>8 DEF Abstract!Leave, Abstract!LEFT, Abstract!Here, known, present, stopped, due, got
<1> QED
  BY <1>9

\* ... one iteration of the loop of send delivers, if the subscriber is there, ...
LEMMA SendToRefines ==
    ASSUME TypeOK, TypeOK', SendInHand, LoopIsSound,
           NEW d \in Destinations, NEW i \in todo[d], SendTo(d, i)
    PROVE  (i \in Ids /\ Abstract!Deliver(i)) \/ UNCHANGED Abstract!topicVars
<1> USE DEF TypeOK
<1>1. PICK m \in Messages :
        /\ m = First(actions[d]).message /\ First(actions'[d]).message = m
        /\ i \in Ids /\ issued' = issued
        /\ \A j \in Ids :
             Delivered(j)' = IF j = i /\ Alive(Owner(i))
                             THEN Append(Delivered(i), ServerMessage(issued[i].sub, i, m))
                             ELSE Delivered(j)
  BY SendToDelivers
<1> DEFINE known == [j \in Ids |-> [topic |-> Home(j), subscriber |-> Owner(j)]]
           present == {x \in Clients : Alive(x)}
           stopped == {x \in Destinations : Stopped(x)}
           due == [j \in Ids |-> Awaited(j)]
           got == [j \in Ids |-> Handed(j)]
<1>2. \A c \in Clients : Alive(c)' = Alive(c)
  BY TaskEffect DEF Backend
<1>3. /\ Ids' = Ids /\ known' = known /\ present' = present
      /\ \A j \in Ids : /\ Owner(j)' = Owner(j) /\ Home(j)' = Home(j)
                        /\ Owner(j) \in Clients /\ Home(j) \in Destinations
                        /\ Alive(Owner(j))' = Alive(Owner(j))
                        /\ Delivered(j)' = Delivered(j) => Handed(j)' = Handed(j)
  BY <1>1, <1>2, Unmoved
<1>4. subscriptions' = subscriptions /\ stopped' = stopped
      /\ actions' = actions /\ todo' = [todo EXCEPT ![d] = todo[d] \ {i}]
  BY DEF SendTo, Stopped
<1>5. Home(i) = d
  BY DEF LoopIsSound, Home
<1>6. ASSUME NEW j \in Ids
      PROVE  Awaited(j)' = IF j = i THEN <<>> ELSE Awaited(j)
  <2>1. /\ First(actions[Home(j)])' = First(actions[Home(j)])
        /\ j \in todo'[Home(j)] <=> j \in todo[Home(j)] /\ j # i
    BY <1>3, <1>4, <1>5 DEF First, DestTypeOK
  <2> QED
    BY <1>3, <2>1 DEF Awaited
<1>7. CASE Alive(Owner(i))
  <2>1. Awaited(i) = <<m>>
    BY <1>1, <1>5, <1>7 DEF Awaited
  <2>2. Handed(i)' = Append(Handed(i), m)
    <3>1. Word(ServerMessage(issued[i].sub, i, m)) = m
      BY DEF Word, ServerMessage
    <3> QED
      BY <1>1, <1>3, <1>7, <3>1, HandedMore
  <2>3. \A j \in Ids : j # i => Handed(j)' = Handed(j)
    BY <1>1, <1>3
  <2>4. due[i] = <<m>> /\ Head(<<m>>) = m /\ Tail(<<m>>) = <<>> /\ <<m>> # <<>>
    BY <1>1, <2>1
  <2>5. due' = [due EXCEPT ![i] = <<>>]
    BY <1>1, <1>3, <1>6
  <2>6. got' = [got EXCEPT ![i] = Append(got[i], m)]
    BY <1>1, <1>3, <2>2, <2>3
  <2> HIDE DEF known, present, stopped, due, got
  <2>7. /\ due[i] # <<>> /\ due' = [due EXCEPT ![i] = Tail(due[i])]
        /\ got' = [got EXCEPT ![i] = Append(got[i], Head(due[i]))]
        /\ UNCHANGED <<known, subscriptions, present, stopped>>
    BY <1>3, <1>4, <2>4, <2>5, <2>6
  <2> QED
    BY <1>1, <2>7 DEF Abstract!Deliver, known, present, stopped, due, got
<1>8. CASE ~Alive(Owner(i))
  <2>1. Awaited(i) = <<>>
    BY <1>8 DEF Awaited
  <2>2. \A j \in Ids : Awaited(j)' = Awaited(j) /\ Handed(j)' = Handed(j)
    BY <1>1, <1>3, <1>6, <1>8, <2>1
  <2>3. \A x \in Destinations : Stopped(x)' = Stopped(x)
    BY DEF SendTo, Stopped
  <2> QED
    BY <1>1, <1>2, <1>4, <2>2, <2>3, Stutter
<1> QED
  BY <1>7, <1>8

\* ... the start of that loop publishes to all members at once, ...
LEMMA BeginSendRefines ==
    ASSUME TypeOK, TypeOK', SendInHand, LoopIsSound, NEW d \in Destinations, BeginSend(d)
    PROVE  \E m \in Messages : Abstract!Publish(d, m)
<1> USE DEF TypeOK
<1>1. PICK m \in Messages : m = First(actions[d]).message
  BY HandlingTypes DEF BeginSend
<1> DEFINE known == [j \in Ids |-> [topic |-> Home(j), subscriber |-> Owner(j)]]
           present == {x \in Clients : Alive(x)}
           stopped == {x \in Destinations : Stopped(x)}
           due == [j \in Ids |-> Awaited(j)]
           got == [j \in Ids |-> Handed(j)]
<1>2. /\ issued' = issued /\ actions' = actions /\ UNCHANGED proxyVars
      /\ subscriptions' = subscriptions
      /\ todo' = [todo EXCEPT ![d] = subscriptions[d]] /\ todo[d] = {}
      /\ \A x \in Clients : Alive(x)' = Alive(x)
  BY DEF BeginSend, proxyVars, Alive, LoopIsSound, Handling
<1>3. /\ Ids' = Ids /\ known' = known /\ present' = present
      /\ \A j \in Ids : /\ Owner(j)' = Owner(j) /\ Home(j)' = Home(j)
                        /\ Owner(j) \in Clients /\ Home(j) \in Destinations
                        /\ Alive(Owner(j))' = Alive(Owner(j))
                        /\ Delivered(j)' = Delivered(j) => Handed(j)' = Handed(j)
  BY <1>2, Unmoved
<1>4. d \notin stopped /\ stopped' = stopped
  BY DEF BeginSend, Handling, Stopped, DestTypeOK
<1>5. got' = got
  <2>1. \A j \in Ids : Delivered(j)' = Delivered(j)
    BY <1>2 DEF Delivered, Told, About, proxyVars
  <2> QED
    BY <1>3, <2>1
<1>6. ASSUME NEW j \in Ids
      PROVE  Awaited(j)' = IF j \in subscriptions[d] /\ Alive(Owner(j))
                           THEN Append(Awaited(j), m) ELSE Awaited(j)
  <2>1. CASE Home(j) = d
    <3>1. Awaited(j) = <<>> /\ Append(<<>>, m) = <<m>>
      BY <1>2, <2>1 DEF Awaited
    <3>2. Awaited(j)' = IF j \in subscriptions[d] /\ Alive(Owner(j)) THEN <<m>> ELSE <<>>
      BY <1>1, <1>2, <1>3, <2>1 DEF Awaited, DestTypeOK
    <3> QED
      BY <3>1, <3>2
  <2>2. CASE Home(j) # d
    <3>1. j \notin subscriptions[d]
      BY <2>2 DEF LoopIsSound, Home
    <3>2. Awaited(j)' = Awaited(j)
      BY <1>2, <1>3, <2>2 DEF Awaited, DestTypeOK
    <3> QED
      BY <3>1, <3>2
  <2> QED
    BY <2>1, <2>2
<1>7. due' = [j \in DOMAIN due |-> IF j \in subscriptions[d] /\ known[j].subscriber \in present
                                   THEN Append(due[j], m) ELSE due[j]]
  <2>1. \A j \in Ids : known[j].subscriber \in present <=> Alive(Owner(j))
    BY <1>3
  <2>2. DOMAIN due = Ids /\ \A j \in Ids : due[j] = Awaited(j)
    OBVIOUS
  <2>3. due' = [j \in Ids |-> IF j \in subscriptions[d] /\ Alive(Owner(j))
                              THEN Append(Awaited(j), m) ELSE Awaited(j)]
    BY <1>3, <1>6
  <2> HIDE DEF due, known, present
  <2> QED
    BY <2>1, <2>2, <2>3
<1> HIDE DEF known, present, stopped, due, got
<1>8. Abstract!Publish(d, m)
  <2>1. /\ d \notin stopped
        /\ due' = [j \in DOMAIN due |-> IF j \in subscriptions[d] /\ known[j].subscriber \in present
                                        THEN Append(due[j], m) ELSE due[j]]
        /\ UNCHANGED <<known, subscriptions, present, stopped, got>>
    BY <1>2, <1>3, <1>4, <1>5, <1>7
  <2> QED
    BY <2>1 DEF Abstract!Publish, Abstract!Here, known, present, stopped, due, got
<1> QED
  BY <1>8

\* ... and its end forgets members that have departed.
LEMMA EndSendRefines ==
    ASSUME TypeOK, SendInHand, LoopIsSound, DeadAreGone, NEW d \in Destinations, EndSend(d)
    PROVE  Abstract!Prune(d)
<1> USE DEF TypeOK
<1> DEFINE known == [j \in Ids |-> [topic |-> Home(j), subscriber |-> Owner(j)]]
           present == {x \in Clients : Alive(x)}
           stopped == {x \in Destinations : Stopped(x)}
           due == [j \in Ids |-> Awaited(j)]
           got == [j \in Ids |-> Handed(j)]
           forgotten == subscriptions[d] \cap dead[d]
<1>1. /\ issued' = issued /\ UNCHANGED proxyVars /\ todo' = todo /\ todo[d] = {}
      /\ \A x \in Destinations \ {d} : actions'[x] = actions[x]
      /\ \A x \in Clients : Alive(x)' = Alive(x)
  BY DEF EndSend, Handled, proxyVars, Alive, DestTypeOK
<1>2. /\ Ids' = Ids /\ known' = known /\ present' = present
      /\ \A j \in Ids : Delivered(j)' = Delivered(j) => Handed(j)' = Handed(j)
  BY <1>1, Unmoved
<1>3. stopped' = stopped
  BY DEF EndSend, Stopped, DestTypeOK
<1>4. got' = got
  <2>1. \A j \in Ids : Delivered(j)' = Delivered(j)
    BY <1>1 DEF Delivered, Told, About, proxyVars
  <2> QED
    BY <1>2, <2>1
<1>5. due' = due
  <2>1. \A j \in Ids : Awaited(j)' = Awaited(j)
    BY <1>1, IdleAwaits
  <2> QED
    BY <1>2, <2>1
<1>6. /\ forgotten \in SUBSET {j \in subscriptions[d] : known[j].subscriber \notin present}
      /\ subscriptions' = [subscriptions EXCEPT ![d] = subscriptions[d] \ forgotten]
  <2>1. \A j \in forgotten : known[j].subscriber \notin present
    BY DEF DeadAreGone, DestTypeOK, Owner
  <2>2. subscriptions[d] \ dead[d] = subscriptions[d] \ forgotten
    OBVIOUS
  <2>3. subscriptions' = [subscriptions EXCEPT ![d] = subscriptions[d] \ dead[d]]
    BY DEF EndSend
  <2> HIDE DEF forgotten, known, present
  <2>4. subscriptions' = [subscriptions EXCEPT ![d] = subscriptions[d] \ forgotten]
    BY <2>2, <2>3
  <2>5. forgotten \subseteq subscriptions[d]
    BY DEF forgotten
  <2> QED
    BY <2>1, <2>4, <2>5
<1> HIDE DEF known, present, stopped, due, got
<1> QED
  BY <1>2, <1>3, <1>4, <1>5, <1>6
     DEF Abstract!Prune, Abstract!Here, known, present, stopped, due, got

\* A task that ends, by itself or by a panic, stops a topic that owes nothing.
LEMMA StopRefines ==
    ASSUME TypeOK, LoopIsSound, NEW d \in Destinations,
           RemoveUnknownSubscription(d) \/ CloseBackend(d)
    PROVE  Abstract!Stop(d)
<1> USE DEF TypeOK
<1> DEFINE known == [j \in Ids |-> [topic |-> Home(j), subscriber |-> Owner(j)]]
           present == {x \in Clients : Alive(x)}
           stopped == {x \in Destinations : Stopped(x)}
           due == [j \in Ids |-> Awaited(j)]
           got == [j \in Ids |-> Handed(j)]
<1>1. /\ issued' = issued /\ UNCHANGED proxyVars /\ todo' = todo /\ todo[d] = {}
      /\ subscriptions' = [subscriptions EXCEPT ![d] = {}]
      /\ \A x \in Destinations \ {d} : actions'[x] = actions[x]
      /\ \A x \in Clients : Alive(x)' = Alive(x)
  BY DEF RemoveUnknownSubscription, CloseBackend, Stop, Handling, LoopIsSound, proxyVars, Alive,
         DestTypeOK
<1>2. /\ Ids' = Ids /\ known' = known /\ present' = present
      /\ \A j \in Ids : Delivered(j)' = Delivered(j) => Handed(j)' = Handed(j)
  BY <1>1, Unmoved
<1>3. d \notin stopped /\ stopped' = stopped \cup {d}
  BY DEF RemoveUnknownSubscription, CloseBackend, Stop, Handling, Stopped, DestTypeOK
<1>4. got' = got
  <2>1. \A j \in Ids : Delivered(j)' = Delivered(j)
    BY <1>1 DEF Delivered, Told, About, proxyVars
  <2> QED
    BY <1>2, <2>1
<1>5. \A j \in Ids : Awaited(j)' = Awaited(j) /\ (Home(j) = d => Awaited(j) = <<>>)
  BY <1>1, IdleAwaits
<1>6. due' = due /\ \A j \in subscriptions[d] : due[j] = <<>>
  <2>1. \A j \in subscriptions[d] : j \in Ids /\ Home(j) = d
    BY DEF LoopIsSound, Home, DestTypeOK
  <2> QED
    BY <1>2, <1>5, <2>1
<1> HIDE DEF known, present, stopped, due, got
<1> QED
  BY <1>1, <1>2, <1>3, <1>4, <1>6 DEF Abstract!Stop, known, present, stopped, due, got

\* So every step of a destination's task is one of its topic, or none.
LEMMA TaskRefines ==
    ASSUME Core, TypeOK', NEW d \in Destinations, Backend(d)
    PROVE  [Abstract!Next]_(Abstract!topicVars)
<1> USE DEF Core
<1>1. CASE AddSubscription(d)
  BY <1>1, AddRefines DEF Abstract!Next
<1>2. CASE RemoveSubscription(d)
  BY <1>2, RemoveRefines DEF Abstract!Next
<1>3. CASE RemoveUnknownSubscription(d) \/ CloseBackend(d)
  BY <1>3, StopRefines DEF Abstract!Next
<1>4. CASE BeginSend(d)
  BY <1>4, BeginSendRefines DEF Abstract!Next
<1>5. ASSUME NEW i \in todo[d], SendTo(d, i)
      PROVE  [Abstract!Next]_(Abstract!topicVars)
  <2>1. DOMAIN [j \in Ids |-> Awaited(j)] = Ids
    OBVIOUS
  <2>2. CASE i \in Ids /\ Abstract!Deliver(i)
    BY <2>1, <2>2 DEF Abstract!Next
  <2> QED
    BY <1>5, <2>2, SendToRefines
<1>6. CASE EndSend(d)
  BY <1>6, EndSendRefines DEF Abstract!Next
<1> QED
  BY <1>1, <1>2, <1>3, <1>4, <1>5, <1>6 DEF Backend

-----------------------------------------------------------------------------
(* The theorems, as far as they need no log.                               *)

\* Before there is a destination there is nothing to be wrong about.
LEMMA InitCore == Init => Core
<1> SUFFICES ASSUME Init PROVE Core
  OBVIOUS
<1> USE DEF Init, ProxyInit, DestInit
<1>1. ProxyTypeOK
  BY EmptyChannels DEF ProxyTypeOK
<1>2. DestTypeOK
  BY EmptyChannels DEF DestTypeOK, BackendState
<1>3. SendInHand /\ DeadAreGone /\ LoopIsSound
  BY DEF SendInHand, DeadAreGone, LoopIsSound
<1>4. RequestsAreOwn
  BY EmptyChannels DEF RequestsAreOwn
<1>5. ToldOfIssued
  <2>1. \A c \in Clients : Told(c) = <<>>
    <3>1. <<>> \o <<>> = <<>>
      BY ConcatEmptySeq, EmptySeq
    <3> QED
      BY <3>1 DEF Told, NewChannel
  <2> QED
    BY <2>1 DEF ToldOfIssued
<1> QED
  BY <1>1, <1>2, <1>3, <1>4, <1>5 DEF Core, TypeOK

\* A step is one of the environment, one of a task, or none.
LEMMA CoreStep ==
    ASSUME Core, [Next]_vars
    PROVE  Core' /\ [Abstract!Next]_(Abstract!topicVars)
<1> USE DEF Core
<1>1. CASE DestEnvironment
  <2>1. TypeOK' /\ SendInHand' /\ EnvironmentStep
    BY <1>1, EnvironmentEffect
  <2> QED
    BY <2>1, EnvironmentKeepsLoop, EnvironmentTellsOfIssued, EnvironmentRefines
<1>2. ASSUME NEW d \in Destinations, Backend(d)
      PROVE  Core' /\ [Abstract!Next]_(Abstract!topicVars)
  <2>1. TypeOK' /\ SendInHand'
    BY <1>2, BackendTypes, TaskLeavesSend DEF TypeOK
  <2> QED
    BY <1>2, <2>1, TaskKeepsLoop, TaskTellsOfIssued, TaskRefines
<1>3. CASE UNCHANGED vars
  <2> USE <1>3 DEF vars, destVars, proxyVars
  <2>1. TypeOK' /\ SendInHand'
    BY DEF TypeOK, ProxyTypeOK, DestTypeOK, SendInHand, Ids
  <2>2. DeadAreGone' /\ LoopIsSound' /\ RequestsAreOwn' /\ ToldOfIssued'
    BY DEF DeadAreGone, LoopIsSound, RequestsAreOwn, ToldOfIssued, Told, Alive, Ids
  <2>3. UNCHANGED Abstract!topicVars
    <3>1. \A c \in Clients : Alive(c)' = Alive(c)
      BY DEF Alive
    <3>2. \A d \in Destinations : Stopped(d)' = Stopped(d)
      BY DEF Stopped
    <3>3. \A i \in Ids : Awaited(i)' = Awaited(i) /\ Handed(i)' = Handed(i)
      BY DEF Awaited, Handed, Delivered, Told, About, Home, Owner, Alive, First
    <3> QED
      BY <3>1, <3>2, <3>3, Stutter
  <2> QED
    BY <2>1, <2>2, <2>3
<1> QED
  BY <1>1, <1>2, <1>3 DEF Next

\* The task and the handles of a destination keep their types, the loop of send
\* its message and its subscribers, and nobody is told of a subscription that
\* was never made, whoever calls the handles and whenever sessions end
\* (inmemory.rs, listen_on and send).
THEOREM CoreInvariance == Spec => []Core
<1>1. Core /\ [Next]_vars => Core'
  BY CoreStep
<1> QED
  BY InitCore, <1>1, PTL DEF Spec

\* In particular every variable keeps its type.
THEOREM DestinationTypes == Spec => []TypeOK
<1>1. Core => TypeOK
  BY DEF Core
<1> QED
  BY CoreInvariance, <1>1, PTL

\* A destination whose loop of send goes over its HashMap, hands the message to
\* one channel after the other and prunes the dead at the end, is to its
\* subscribers a topic that publishes to all at once (inmemory.rs:226-251), for
\* any number of subscribers, messages and calls.
THEOREM Implementing == Spec => ImplementsTopics
<1>1. Init => Abstract!Init
  <2> SUFFICES ASSUME Init PROVE Abstract!Init
    OBVIOUS
  <2> USE DEF Init, ProxyInit, DestInit
  <2>1. Ids = {}
    BY DEF Ids
  <2>2. /\ [i \in Ids |-> [topic |-> Home(i), subscriber |-> Owner(i)]] = <<>>
        /\ [i \in Ids |-> Awaited(i)] = <<>>
        /\ [i \in Ids |-> Handed(i)] = <<>>
    BY <2>1
  <2>3. {c \in Clients : Alive(c)} = Clients
    BY DEF Alive, NewChannel
  <2>4. {d \in Destinations : Stopped(d)} = {}
    BY DEF Stopped
  <2> QED
    BY <2>2, <2>3, <2>4 DEF Abstract!Init
<1>2. Core /\ [Next]_vars => [Abstract!Next]_(Abstract!topicVars)
  BY CoreStep
<1> QED
  BY <1>1, <1>2, CoreInvariance, PTL DEF Spec, ImplementsTopics, Abstract!Spec

\* Whatever takes a subscription out of a HashMap has one of three causes: its
\* own client unsubscribed it, its session is gone, or the destination stopped.
\* The pruning after the loop of send takes no living one, whoever calls the
\* handles (inmemory.rs:245-251).
THEOREM Losing == Spec => LostOnlyForCause
<1>1. ASSUME Core, NEW d \in Destinations, Backend(d),
             NEW x \in Destinations, NEW i \in subscriptions[x], i \notin subscriptions'[x]
      PROVE  \/ ~Alive(issued[i].client)
             \/ First(actions[x]) = UnsubscribeAction(issued[i].client, i)
             \/ Stopped(x)'
  <2> USE <1>1 DEF Core, TypeOK
  <2>1. CASE RemoveSubscription(d)
    <3> DEFINE a == First(actions[d])
    <3>1. x = d /\ a.id = i
      BY <2>1 DEF RemoveSubscription, DestTypeOK
    <3>2. a \in DestinationAction /\ a \in Pending(actions[d]) /\ a.type = "Unsubscribe"
      BY <2>1, HandlingTypes DEF RemoveSubscription
    <3>3. issued[i].client = a.client
      BY <3>1, <3>2 DEF RequestsAreOwn
    <3>4. a = UnsubscribeAction(a.client, a.id)
      BY <3>2 DEF DestinationAction, UnsubscribeAction, CloseAction
    <3> QED
      BY <3>1, <3>3, <3>4
  <2>2. CASE EndSend(d)
    BY <2>2 DEF EndSend, DeadAreGone, DestTypeOK
  <2>3. CASE RemoveUnknownSubscription(d) \/ CloseBackend(d)
    BY <2>3 DEF RemoveUnknownSubscription, CloseBackend, Stop, Stopped, DestTypeOK
  <2>4. CASE AddSubscription(d) \/ BeginSend(d) \/ \E k \in todo[d] : SendTo(d, k)
    BY <2>4 DEF AddSubscription, BeginSend, SendTo, DestTypeOK
  <2> QED
    BY <2>1, <2>2, <2>3, <2>4 DEF Backend
<1>2. ASSUME Core, [Next]_vars,
             NEW d \in Destinations, NEW i \in subscriptions[d] \ subscriptions'[d]
      PROVE  \/ ~Alive(issued[i].client)
             \/ First(actions[d]) = UnsubscribeAction(issued[i].client, i)
             \/ Stopped(d)'
  <2>1. DestEnvironment => UNCHANGED subscriptions
    BY <1>2, EnvironmentEffect DEF EnvironmentStep, Core
  <2>2. UNCHANGED subscriptions \/ \E x \in Destinations : Backend(x)
    BY <1>2, <2>1 DEF Next, vars, destVars
  <2> QED
    BY <1>1, <1>2, <2>2
<1>3. Core /\ [Next]_vars =>
        [\A d \in Destinations : \A i \in subscriptions[d] \ subscriptions'[d] :
            \/ ~Alive(issued[i].client)
            \/ First(actions[d]) = UnsubscribeAction(issued[i].client, i)
            \/ Stopped(d)']_<<destVars, proxyVars>>
  BY <1>2
<1> QED
  BY <1>3, CoreInvariance, PTL DEF Spec, LostOnlyForCause

-----------------------------------------------------------------------------
(* What the log of a destination owes a subscription.                      *)

\* The events a membership stands for have types, ...
LEMMA EventForTypes ==
    ASSUME TypeOK, NEW i \in Ids, NEW e \in LogEntry \cap Own(i)
    PROVE  EventFor(i, e) \in ClientEvent
<1>1. i \in Nat /\ issued[i].dest \in Destinations /\ issued[i].sub \in SubIds
  BY IssuedTypes DEF TypeOK
<1>2. \/ e = Joined(i)
      \/ e = Left(i)
      \/ \E m \in Messages : e = Sent(m)
  BY DEF Own
<1> QED
  BY <1>1, <1>2
     DEF EventFor, Joined, Left, Sent, Subscribed, Unsubscribed, ServerMessage, ClientEvent

\* ... and so have those it is due, one for each entry.
LEMMA DueTypes ==
    ASSUME TypeOK, LogIsSound, NEW i \in Ids
    PROVE  /\ Membership(i) \in Seq(LogEntry)
           /\ Due(i) \in Seq(ClientEvent)
           /\ Owed(i) \in Seq(ClientEvent)
<1>1. Membership(i) \in Seq(LogEntry \cap Own(i))
  <2>1. log[issued[i].dest] \in Seq(LogEntry) /\ JoinsOnce(log[issued[i].dest], i)
    BY IssuedTypes DEF TypeOK, DestTypeOK, LogIsSound
  <2> QED
    BY <2>1, DuringTypes DEF Membership
<1> DEFINE n == Len(Membership(i))
<1>2. /\ n \in Nat /\ DOMAIN Membership(i) = 1 .. n
      /\ \A k \in 1 .. n : Membership(i)[k] \in LogEntry \cap Own(i)
      /\ Membership(i) \in Seq(LogEntry)
  BY <1>1
<1>3. \A k \in 1 .. n : EventFor(i, Membership(i)[k]) \in ClientEvent
  BY <1>2, EventForTypes
<1>4. Due(i) = [k \in 1 .. n |-> EventFor(i, Membership(i)[k])]
  BY <1>2 DEF Due
<1> HIDE DEF n
<1>5. Due(i) \in Seq(ClientEvent)
  <2>1. Due(i) \in [1 .. n -> ClientEvent]
    BY <1>3, <1>4
  <2> QED
    BY <1>2, <2>1
<1>6. Owed(i) \in Seq(ClientEvent)
  <2> DEFINE due == Due(i)
  <2>1. due \in Seq(ClientEvent)
    BY <1>5
  <2> HIDE DEF due
  <2>2. SubSeq(due, 1, Len(due) - 1) \in Seq(ClientEvent)
    <3>1. Len(due) - 1 \in Int /\ \A k \in 1 .. Len(due) - 1 : due[k] \in ClientEvent
      BY <2>1
    <3> DEFINE l == Len(due) - 1
    <3> HIDE DEF l
    <3>2. l \in Int /\ 1 \in Int /\ \A k \in 1 .. l : due[k] \in ClientEvent
      BY <3>1 DEF l
    <3>3. SubSeq(due, 1, l) \in Seq(ClientEvent)
      BY <3>2, SubSeqProperties
    <3> QED
      BY <3>3 DEF l
  <2> QED
    BY <2>1, <2>2 DEF Owed, due
<1> QED
  BY <1>2, <1>5, <1>6

\* One entry more is one event more, ...
LEMMA DueMore ==
    ASSUME TypeOK, NEW id, issued'[id] = issued[id], NEW e, Membership(id) \in Seq(LogEntry),
           Membership(id)' = Append(Membership(id), e)
    PROVE  Due(id)' = Append(Due(id), EventFor(id, e))
<1> DEFINE before == Membership(id)
           after == Membership(id)'
           n == Len(before)
           due == Due(id)
           due2 == Due(id)'
<1>1. before \in Seq(LogEntry) /\ after = Append(before, e)
  OBVIOUS
<1>2. due = [k \in DOMAIN before |-> EventFor(id, before[k])]
  BY DEF Due
<1>3. due2 = [k \in DOMAIN after |-> EventFor(id, after[k])]
  BY DEF Due, EventFor
<1>4. /\ n \in Nat /\ DOMAIN before = 1 .. n /\ DOMAIN after = 1 .. n + 1
      /\ \A k \in 1 .. n : after[k] = before[k]
      /\ after[n + 1] = e
  <2> HIDE DEF before, after
  <2> QED
    BY <1>1
<1> HIDE DEF before, after, n, due, due2
<1>5. due = [i \in 1 .. n |-> due[i]] /\ due2 = [i \in 1 .. n + 1 |-> due2[i]]
  BY <1>2, <1>3, <1>4
<1>6. (\A k \in 1 .. n : due2[k] = due[k]) /\ due2[n + 1] = EventFor(id, e)
  BY <1>2, <1>3, <1>4
<1>7. due2 = Append(due, EventFor(id, e))
  <2>1. n \in Nat
    BY <1>4
  <2>2. \A i \in 1 .. n : due2[i] = due[i]
    BY <1>6
  <2>3. due2[n + 1] = EventFor(id, e)
    BY <1>6
  <2>4. due2 = Append(due, due2[n + 1])
    BY ONLY <2>1, <1>5, <2>2, OneMore
  <2> QED
    BY <2>3, <2>4
<1> QED
  BY <1>7 DEF due, due2

\* ... and the same entries are the same events.
LEMMA DueSame ==
    ASSUME NEW i, issued'[i] = issued[i], Membership(i)' = Membership(i)
    PROVE  Due(i)' = Due(i)
<1> DEFINE before == Membership(i)
           after == Membership(i)'
<1>1. Due(i) = [k \in DOMAIN before |-> EventFor(i, before[k])]
  BY DEF Due
<1>2. Due(i)' = [k \in DOMAIN after |-> EventFor(i, after[k])]
  BY DEF Due, EventFor
<1> QED
  BY <1>1, <1>2

\* What a task writes that writes nothing, ...
LEMMA Unwritten ==
    ASSUME NEW i, issued'[i] = issued[i], log'[issued[i].dest] = log[issued[i].dest]
    PROVE  Due(i)' = Due(i)
<1>1. Membership(i)' = Membership(i)
  BY DEF Membership, During, Own, Joined, Left, Sent
<1> QED
  BY <1>1, DueSame

\* ... and what it writes about nobody else.
LEMMA Written ==
    ASSUME TypeOK, LogIsSound, NEW d \in Destinations, NEW e \in LogEntry,
           log' = [log EXCEPT ![d] = Append(log[d], e)],
           NEW i \in Ids, issued'[i] = issued[i], e # Joined(i),
           Home(i) = d => e # Left(i) \/ ~LeavesIn(log[d], i)
    PROVE  /\ JoinsOnce(log'[issued[i].dest], i)
           /\ LeavesIn(log'[issued[i].dest], i) <=>
                LeavesIn(log[issued[i].dest], i) \/ (Home(i) = d /\ e = Left(i))
           /\ Due(i)' = IF Home(i) = d /\ e \in Own(i) /\ ~LeavesIn(log[d], i)
                        THEN Append(Due(i), EventFor(i, e)) ELSE Due(i)
<1> DEFINE history == log[d]
<1>1. /\ history \in Seq(LogEntry) /\ log'[d] = Append(history, e)
      /\ \A x \in Destinations \ {d} : log'[x] = log[x]
      /\ issued[i].dest \in Destinations
      /\ JoinsOnce(log[issued[i].dest], i)
  BY IssuedTypes DEF TypeOK, DestTypeOK, LogIsSound
<1>2. CASE issued[i].dest # d
  <2>1. log'[issued[i].dest] = log[issued[i].dest]
    BY <1>1, <1>2
  <2>2. Due(i)' = Due(i)
    BY <2>1, Unwritten
  <2> QED
    BY <1>1, <1>2, <2>1, <2>2 DEF Home
<1>3. CASE issued[i].dest = d
  <2>1. LeavesIn(Append(history, e), i) <=> LeavesIn(history, i) \/ e = Left(i)
    <3> DEFINE after == Append(history, e)
               N == Len(history)
    <3>1. /\ DOMAIN history = 1 .. N /\ N \in Nat /\ DOMAIN after = 1 .. N + 1
          /\ (\A k \in 1 .. N : after[k] = history[k]) /\ after[N + 1] = e
      <4> HIDE DEF history
      <4> QED
        BY <1>1, GrowingLog
    <3> HIDE DEF after, N, history
    <3> QED
      BY <3>1 DEF LeavesIn, after
  <2>2. /\ Membership(i) = During(history, i) /\ Membership(i) \in Seq(LogEntry)
        /\ Membership(i)' = During(Append(history, e), i)
    <3>1. Membership(i)' = During(log'[issued'[i].dest], i)
      BY DEF Membership, During, Own, Joined, Left, Sent
    <3> QED
      BY <1>1, <1>3, <3>1, DueTypes DEF Membership
  <2>3. CASE ~LeavesIn(history, i)
    <3>1. /\ During(Append(history, e), i) = IF e \in Own(i) THEN Append(During(history, i), e)
                                             ELSE During(history, i)
          /\ JoinsOnce(Append(history, e), i)
      <4> HIDE DEF history
      <4> QED
        BY <1>1, <1>3, <2>3, DuringMore DEF history
    <3>2. e \in Own(i) => Due(i)' = Append(Due(i), EventFor(i, e))
      BY <2>2, <3>1, DueMore
    <3>3. e \notin Own(i) => Due(i)' = Due(i)
      BY <2>2, <3>1, DueSame
    <3> QED
      BY <1>1, <1>3, <2>1, <2>3, <3>1, <3>2, <3>3 DEF Home
  <2>4. CASE LeavesIn(history, i)
    <3>1. /\ During(Append(history, e), i) = During(history, i)
          /\ JoinsOnce(Append(history, e), i)
      <4>1. e # Left(i)
        BY <1>3, <2>4 DEF Home
      <4>2. JoinsOnce(history, i)
        BY <1>1, <1>3
      <4> HIDE DEF history
      <4> QED
        BY <1>1, <2>4, <4>1, <4>2, DuringOver
    <3>2. Due(i)' = Due(i)
      BY <2>2, <3>1, DueSame
    <3> QED
      BY <1>1, <1>3, <2>1, <2>4, <3>1, <3>2 DEF Home
  <2> QED
    BY <2>3, <2>4
<1> QED
  BY <1>2, <1>3

-----------------------------------------------------------------------------
(* The log remains sound.                                                  *)

\* A step that writes nothing, takes living ones out of no HashMap, unless the
\* task ends, and brings nobody back.
LEMMA KeepsLog ==
    ASSUME TypeOK, LogIsSound, issued' = issued, log' = log,
           \A c \in Clients : Alive(c)' => Alive(c),
           \A d \in Destinations :
               /\ Stopped(d) => Stopped(d)'
               /\ subscriptions'[d] \subseteq subscriptions[d]
               /\ Stopped(d)' \/ \A i \in subscriptions[d] \ subscriptions'[d] :
                                    \A c \in Clients : issued[i].client = c => ~Alive(c)'
    PROVE  LogIsSound'
<1>1. Ids' = Ids /\ \A i \in Ids : issued[i].dest \in Destinations /\ issued[i].client \in Clients
  BY IssuedTypes DEF Ids, TypeOK
<1>2. ASSUME NEW d \in Destinations, NEW k \in DOMAIN log'[d], log'[d][k].type # "Sent"
      PROVE  log'[d][k].id \in Ids' /\ issued'[log'[d][k].id].dest = d
  BY <1>1, <1>2 DEF LogIsSound
<1>3. ASSUME NEW i \in Ids, NEW d \in Destinations, NEW c \in Clients,
             d = issued[i].dest, c = issued[i].client
      PROVE  /\ JoinsOnce(log'[d], i)
             /\ i \in subscriptions'[d] => ~LeavesIn(log'[d], i)
             /\ ~LeavesIn(log'[d], i) /\ ~Stopped(d)' /\ Alive(c)' => i \in subscriptions'[d]
  <2>1. /\ JoinsOnce(log[d], i)
        /\ i \in subscriptions[d] => ~LeavesIn(log[d], i)
        /\ ~LeavesIn(log[d], i) /\ ~Stopped(d) /\ Alive(c) => i \in subscriptions[d]
    BY <1>3 DEF LogIsSound
  <2> QED
    BY <1>3, <2>1
<1>4. ASSUME NEW i \in Ids'
      PROVE  LET d == issued'[i].dest
             IN  /\ JoinsOnce(log'[d], i)
                 /\ i \in subscriptions'[d] => ~LeavesIn(log'[d], i)
                 /\ ~LeavesIn(log'[d], i) /\ backend'[d] \notin {"closed", "panicked"}
                      /\ inbox'[issued'[i].client].open => i \in subscriptions'[d]
  BY <1>1, <1>3 DEF Stopped, Alive
<1> QED
  BY <1>2, <1>4 DEF LogIsSound, Stopped, Alive, JoinsOnce, LeavesIn, Joined, Left

\* One that writes an entry of its own.
LEMMA WrittenNames ==
    ASSUME TypeOK, LogIsSound, NEW d \in Destinations, NEW e \in LogEntry,
           log' = [log EXCEPT ![d] = Append(log[d], e)],
           Ids \subseteq Ids', \A i \in Ids : issued'[i] = issued[i],
           e.type # "Sent" => e.id \in Ids' /\ issued'[e.id].dest = d
    PROVE  \A x \in Destinations : \A k \in DOMAIN log'[x] : log'[x][k].type # "Sent" =>
              log'[x][k].id \in Ids' /\ issued'[log'[x][k].id].dest = x
<1>1. ASSUME NEW x \in Destinations, NEW k \in DOMAIN log[x], log[x][k].type # "Sent"
      PROVE  log[x][k].id \in Ids' /\ issued'[log[x][k].id].dest = x
  BY <1>1 DEF LogIsSound
<1>2. log' \in [Destinations -> Seq(LogEntry)] /\ log[d] \in Seq(LogEntry)
  BY DEF TypeOK, DestTypeOK
<1>3. /\ log'[d] = Append(log[d], e) /\ \A x \in Destinations \ {d} : log'[x] = log[x]
  BY DEF TypeOK, DestTypeOK
<1>4. \A k \in DOMAIN log'[d] : (k \in DOMAIN log[d] /\ log'[d][k] = log[d][k]) \/ log'[d][k] = e
  <2> DEFINE history == log[d]
             after == Append(history, e)
             N == Len(history)
  <2>1. /\ DOMAIN history = 1 .. N /\ N \in Nat /\ DOMAIN after = 1 .. N + 1
        /\ (\A k \in 1 .. N : after[k] = history[k]) /\ after[N + 1] = e
    <3> HIDE DEF history
    <3> QED
      BY <1>2, GrowingLog DEF history
  <2>2. log'[d] = after /\ log[d] = history
    BY <1>3
  <2> HIDE DEF after, N, history
  <2> QED
    BY <2>1, <2>2
<1> QED
  BY <1>1, <1>3, <1>4

\* When a subscription is made (add_subscription), it is due the answer, and the
\* others nothing.
LEMMA Joining ==
    ASSUME TypeOK, LogIsSound, NEW d \in Destinations, NEW c \in Clients, NEW s \in SubIds,
           NEW new \in Nat, new \notin Ids, Ids' = Ids \cup {new},
           issued'[new] = [client |-> c, dest |-> d, sub |-> s],
           \A i \in Ids : issued'[i] = issued[i],
           subscriptions' = [subscriptions EXCEPT ![d] = subscriptions[d] \cup {new}],
           log' = [log EXCEPT ![d] = Append(log[d], Joined(new))],
           \A x \in Clients : Alive(x)' = Alive(x),
           \A x \in Destinations : Stopped(x)' = Stopped(x)
    PROVE  /\ LogIsSound'
           /\ \A i \in Ids : Due(i)' = Due(i)
           /\ Due(new)' = <<Subscribed(d, s, new)>>
<1> DEFINE e == Joined(new)
<1>1. /\ e \in LogEntry /\ e.type = "Joined" /\ e.id = new
      /\ \A i \in Ids : e # Joined(i) /\ e # Left(i) /\ e \notin Own(i)
  BY DEF Joined, Left, Own, Sent, LogEntry
<1>2. /\ log[d] \in Seq(LogEntry) /\ log'[d] = Append(log[d], e)
      /\ \A i \in Ids : issued[i].dest \in Destinations /\ issued[i].client \in Clients
      /\ subscriptions'[d] = subscriptions[d] \cup {new}
      /\ \A x \in Destinations : \A i \in Ids : i \in subscriptions'[x] <=> i \in subscriptions[x]
  BY IssuedTypes DEF TypeOK, DestTypeOK
<1>3. \A x \in Destinations : \A k \in DOMAIN log'[x] : log'[x][k].type # "Sent" =>
         log'[x][k].id \in Ids' /\ issued'[log'[x][k].id].dest = x
  <2>1. Ids \subseteq Ids' /\ e.id \in Ids' /\ issued'[e.id].dest = d
    BY <1>1
  <2> HIDE DEF e
  <2> QED
    BY <1>1, <2>1, WrittenNames DEF e
<1>4. ASSUME NEW i \in Ids
      PROVE  /\ JoinsOnce(log'[issued[i].dest], i)
             /\ LeavesIn(log'[issued[i].dest], i) <=> LeavesIn(log[issued[i].dest], i)
             /\ Due(i)' = Due(i)
  <2>1. issued'[i] = issued[i] /\ e # Joined(i) /\ e # Left(i) /\ e \notin Own(i)
    BY <1>1
  <2>2. log' = [log EXCEPT ![d] = Append(log[d], e)]
    OBVIOUS
  <2>3. e \in LogEntry
    BY <1>1
  <2> HIDE DEF e
  <2>4. /\ JoinsOnce(log'[issued[i].dest], i)
        /\ LeavesIn(log'[issued[i].dest], i) <=>
             LeavesIn(log[issued[i].dest], i) \/ (Home(i) = d /\ e = Left(i))
        /\ Due(i)' = IF Home(i) = d /\ e \in Own(i) /\ ~LeavesIn(log[d], i)
                     THEN Append(Due(i), EventFor(i, e)) ELSE Due(i)
    BY <2>1, <2>2, <2>3, Written
  <2> QED
    BY <2>1, <2>4
<1>5. /\ JoinsOnce(log'[d], new) /\ ~LeavesIn(log'[d], new)
      /\ During(log'[d], new) = <<e>>
  <2>1. \A k \in DOMAIN log[d] : log[d][k] # Joined(new) /\ log[d][k] # Left(new)
    BY DEF LogIsSound, Joined, Left
  <2>2. ~LeavesIn(log[d], new)
    BY <2>1 DEF LeavesIn
  <2>3. Joined(new) \in LogEntry
    BY <1>1
  <2> DEFINE history == log[d]
  <2>4. /\ history \in Seq(LogEntry) /\ ~LeavesIn(history, new)
        /\ \A k \in DOMAIN history : history[k] # Joined(new)
    BY <1>2, <2>1, <2>2
  <2> HIDE DEF history
  <2>5. /\ During(Append(history, Joined(new)), new) = <<Joined(new)>>
        /\ JoinsOnce(Append(history, Joined(new)), new)
        /\ ~LeavesIn(Append(history, Joined(new)), new)
    BY <2>3, <2>4, DuringFirst
  <2> QED
    BY <1>2, <2>5 DEF history
<1>6. Due(new)' = <<Subscribed(d, s, new)>>
  <2>1. Membership(new)' = <<e>>
    <3>1. Membership(new)' = During(log'[issued'[new].dest], new)
      BY DEF Membership, During, Own, Joined, Left, Sent
    <3>2. issued'[new].dest = d
      OBVIOUS
    <3> HIDE DEF e
    <3> QED
      BY <1>5, <3>1, <3>2
  <2>2. Due(new)' = [k \in DOMAIN <<e>> |-> EventFor(new, <<e>>[k])']
    BY <2>1 DEF Due
  <2>3. DOMAIN <<e>> = {1} /\ <<e>>[1] = e
    OBVIOUS
  <2>4. EventFor(new, e)' = Subscribed(d, s, new)
    BY DEF EventFor, Joined
  <2> QED
    BY <2>2, <2>3, <2>4
<1>7. ASSUME NEW i \in Ids'
      PROVE  LET x == issued'[i].dest
             IN  /\ JoinsOnce(log'[x], i)
                 /\ i \in subscriptions'[x] => ~LeavesIn(log'[x], i)
                 /\ ~LeavesIn(log'[x], i) /\ backend'[x] \notin {"closed", "panicked"}
                      /\ inbox'[issued'[i].client].open => i \in subscriptions'[x]
  <2>1. CASE i = new
    BY <1>2, <1>5, <2>1
  <2>2. CASE i \in Ids
    BY <1>2, <1>4, <2>2 DEF LogIsSound, Stopped, Alive
  <2> QED
    BY <2>1, <2>2
<1>8. LogIsSound'
  BY <1>3, <1>7 DEF LogIsSound, Stopped, Alive, JoinsOnce, LeavesIn, Joined, Left
<1> QED
  BY <1>4, <1>6, <1>8

\* When one is taken out (remove_subscription), it is due the answer, ...
LEMMA Leaving ==
    ASSUME TypeOK, LogIsSound, LoopIsSound, NEW d \in Destinations,
           NEW i \in Ids, i \in subscriptions[d], issued' = issued,
           subscriptions' = [subscriptions EXCEPT ![d] = subscriptions[d] \ {i}],
           log' = [log EXCEPT ![d] = Append(log[d], Left(i))],
           \A x \in Clients : Alive(x)' = Alive(x),
           \A x \in Destinations : Stopped(x)' = Stopped(x)
    PROVE  /\ LogIsSound'
           /\ \A j \in Ids : Due(j)' = IF j = i THEN Append(Due(i), Unsubscribed(issued[i].sub, i))
                                       ELSE Due(j)
<1> DEFINE e == Left(i)
<1>1. /\ e \in LogEntry /\ e.type = "Left" /\ e.id = i /\ e \in Own(i)
      /\ \A j \in Ids : e # Joined(j) /\ (e = Left(j) <=> j = i) /\ (e \in Own(j) <=> j = i)
  <2>1. i \in Nat
    BY IssuedTypes DEF TypeOK
  <2> QED
    BY <2>1 DEF Joined, Left, Own, Sent, LogEntry
<1>2. /\ Ids' = Ids /\ issued[i].dest = d /\ ~LeavesIn(log[d], i)
      /\ \A j \in Ids : issued[j].dest \in Destinations /\ issued[j].client \in Clients
      /\ \A x \in Destinations : \A j \in Ids :
            j \in subscriptions'[x] <=> j \in subscriptions[x] /\ ~(x = d /\ j = i)
  BY IssuedTypes DEF TypeOK, DestTypeOK, Ids, LoopIsSound, LogIsSound
<1>3. \A x \in Destinations : \A k \in DOMAIN log'[x] : log'[x][k].type # "Sent" =>
         log'[x][k].id \in Ids' /\ issued'[log'[x][k].id].dest = x
  <2>1. /\ Ids \subseteq Ids' /\ e.id \in Ids' /\ issued'[e.id].dest = d
        /\ \A j \in Ids : issued'[j] = issued[j]
    BY <1>1, <1>2
  <2>2. e \in LogEntry
    BY <1>1
  <2> HIDE DEF e
  <2> QED
    BY <2>1, <2>2, WrittenNames DEF e
<1>4. ASSUME NEW j \in Ids
      PROVE  /\ JoinsOnce(log'[issued[j].dest], j)
             /\ LeavesIn(log'[issued[j].dest], j) <=> LeavesIn(log[issued[j].dest], j) \/ j = i
             /\ Due(j)' = IF j = i THEN Append(Due(i), Unsubscribed(issued[i].sub, i)) ELSE Due(j)
  <2>1. /\ issued'[j] = issued[j] /\ e # Joined(j)
        /\ Home(j) = d => e # Left(j) \/ ~LeavesIn(log[d], j)
    BY <1>1, <1>2
  <2>2. log' = [log EXCEPT ![d] = Append(log[d], e)]
    OBVIOUS
  <2>3. e \in LogEntry
    BY <1>1
  <2>4. EventFor(i, e) = Unsubscribed(issued[i].sub, i)
    BY DEF EventFor, Left
  <2> HIDE DEF e
  <2>5. /\ JoinsOnce(log'[issued[j].dest], j)
        /\ LeavesIn(log'[issued[j].dest], j) <=>
             LeavesIn(log[issued[j].dest], j) \/ (Home(j) = d /\ e = Left(j))
        /\ Due(j)' = IF Home(j) = d /\ e \in Own(j) /\ ~LeavesIn(log[d], j)
                     THEN Append(Due(j), EventFor(j, e)) ELSE Due(j)
    BY <2>1, <2>2, <2>3, Written
  <2> QED
    BY <1>1, <1>2, <2>4, <2>5 DEF Home
<1>5. ASSUME NEW j \in Ids'
      PROVE  LET x == issued'[j].dest
             IN  /\ JoinsOnce(log'[x], j)
                 /\ j \in subscriptions'[x] => ~LeavesIn(log'[x], j)
                 /\ ~LeavesIn(log'[x], j) /\ backend'[x] \notin {"closed", "panicked"}
                      /\ inbox'[issued'[j].client].open => j \in subscriptions'[x]
  BY <1>2, <1>4 DEF LogIsSound, Stopped, Alive
<1>6. LogIsSound'
  BY <1>3, <1>5 DEF LogIsSound, Stopped, Alive, JoinsOnce, LeavesIn, Joined, Left
<1> QED
  BY <1>4, <1>6

\* ... and when a message is fanned out (send), so is every subscription that
\* has not left.
LEMMA Sending ==
    ASSUME TypeOK, LogIsSound, NEW d \in Destinations, NEW m \in Messages, issued' = issued,
           subscriptions' = subscriptions,
           log' = [log EXCEPT ![d] = Append(log[d], Sent(m))],
           \A x \in Clients : Alive(x)' = Alive(x),
           \A x \in Destinations : Stopped(x)' = Stopped(x)
    PROVE  /\ LogIsSound'
           /\ \A j \in Ids : Due(j)' = IF Home(j) = d /\ ~LeavesIn(log[d], j)
                                       THEN Append(Due(j), ServerMessage(issued[j].sub, j, m))
                                       ELSE Due(j)
<1> DEFINE e == Sent(m)
<1>1. /\ e \in LogEntry /\ e.type = "Sent"
      /\ \A j \in Ids : e # Joined(j) /\ e # Left(j) /\ e \in Own(j)
  BY DEF Joined, Left, Own, Sent, LogEntry
<1>2. /\ Ids' = Ids
      /\ \A j \in Ids : issued[j].dest \in Destinations /\ issued[j].client \in Clients
  BY IssuedTypes DEF TypeOK, Ids
<1>3. \A x \in Destinations : \A k \in DOMAIN log'[x] : log'[x][k].type # "Sent" =>
         log'[x][k].id \in Ids' /\ issued'[log'[x][k].id].dest = x
  <2>1. /\ Ids \subseteq Ids' /\ e.type = "Sent" /\ \A j \in Ids : issued'[j] = issued[j]
    BY <1>1, <1>2
  <2>2. e \in LogEntry
    BY <1>1
  <2> HIDE DEF e
  <2> QED
    BY <2>1, <2>2, WrittenNames DEF e
<1>4. ASSUME NEW j \in Ids
      PROVE  /\ JoinsOnce(log'[issued[j].dest], j)
             /\ LeavesIn(log'[issued[j].dest], j) <=> LeavesIn(log[issued[j].dest], j)
             /\ Due(j)' = IF Home(j) = d /\ ~LeavesIn(log[d], j)
                          THEN Append(Due(j), ServerMessage(issued[j].sub, j, m)) ELSE Due(j)
  <2>1. /\ issued'[j] = issued[j] /\ e # Joined(j)
        /\ Home(j) = d => e # Left(j) \/ ~LeavesIn(log[d], j)
    BY <1>1
  <2>2. log' = [log EXCEPT ![d] = Append(log[d], e)]
    OBVIOUS
  <2>3. e \in LogEntry
    BY <1>1
  <2>4. EventFor(j, e) = ServerMessage(issued[j].sub, j, m)
    BY DEF EventFor, Sent
  <2> HIDE DEF e
  <2>5. /\ JoinsOnce(log'[issued[j].dest], j)
        /\ LeavesIn(log'[issued[j].dest], j) <=>
             LeavesIn(log[issued[j].dest], j) \/ (Home(j) = d /\ e = Left(j))
        /\ Due(j)' = IF Home(j) = d /\ e \in Own(j) /\ ~LeavesIn(log[d], j)
                     THEN Append(Due(j), EventFor(j, e)) ELSE Due(j)
    BY <2>1, <2>2, <2>3, Written
  <2> QED
    BY <1>1, <2>4, <2>5
<1>5. ASSUME NEW j \in Ids'
      PROVE  LET x == issued'[j].dest
             IN  /\ JoinsOnce(log'[x], j)
                 /\ j \in subscriptions'[x] => ~LeavesIn(log'[x], j)
                 /\ ~LeavesIn(log'[x], j) /\ backend'[x] \notin {"closed", "panicked"}
                      /\ inbox'[issued'[j].client].open => j \in subscriptions'[x]
  BY <1>2, <1>4 DEF LogIsSound, Stopped, Alive
<1>6. LogIsSound'
  BY <1>3, <1>5 DEF LogIsSound, Stopped, Alive, JoinsOnce, LeavesIn, Joined, Left
<1> QED
  BY <1>4, <1>6

-----------------------------------------------------------------------------
(* What each step delivers and makes due.                                  *)

\* A subscription that follows its log goes on to, if nothing happens to it, or
\* if it is due one event more and gets it if its client lives.
LEMMA FollowsOn ==
    ASSUME TypeOK, LogIsSound, NEW i \in Ids, issued'[i] = issued[i], Follows(i),
           \A c \in Clients : Alive(c)' = Alive(c),
           \/ Delivered(i)' = Delivered(i) /\ Owed(i)' = Owed(i)
           \/ \E e \in ClientEvent :
                /\ Owed(i)' = Append(Owed(i), e)
                /\ Delivered(i)' = IF Alive(Owner(i)) THEN Append(Delivered(i), e) ELSE Delivered(i)
    PROVE  Follows(i)'
<1>1. Alive(issued[i].client)' = Alive(issued[i].client) /\ Owner(i) = issued[i].client
  <2>1. PICK c \in Clients : issued[i].client = c
    BY IssuedTypes DEF TypeOK
  <2> QED
    BY <2>1 DEF Owner, Alive
<1>2. CASE Delivered(i)' = Delivered(i) /\ Owed(i)' = Owed(i)
  BY <1>1, <1>2 DEF Follows
<1>3. ASSUME NEW e \in ClientEvent, Owed(i)' = Append(Owed(i), e),
             Delivered(i)' = IF Alive(Owner(i)) THEN Append(Delivered(i), e) ELSE Delivered(i)
      PROVE  Follows(i)'
  <2>1. CASE Alive(issued[i].client)
    BY <1>1, <1>3, <2>1 DEF Follows
  <2>2. CASE ~Alive(issued[i].client)
    <3> DEFINE s == Delivered(i)
               t == Owed(i)
               u == Append(t, e)
    <3>1. s \in Seq(ClientEvent) /\ t \in Seq(ClientEvent)
      <4>1. Delivered(i) \in Seq(ClientEvent \cap About(i))
        BY DeliveredTypes DEF TypeOK
      <4> QED
        BY <4>1, DueTypes
    <3>2. Len(s) <= Len(t) /\ s = SubSeq(t, 1, Len(s))
      BY <2>2 DEF Follows
    <3>3. Delivered(i)' = s /\ Owed(i)' = u
      BY <1>1, <1>3, <2>2
    <3> HIDE DEF s, t, u
    <3>4. /\ u \in Seq(ClientEvent) /\ Len(u) = Len(t) + 1
          /\ \A k \in 1 .. Len(t) : u[k] = t[k]
      BY <3>1, AppendProperties DEF u
    <3>5. \A k \in 1 .. Len(s) : s[k] = t[k]
      <4>1. Len(s) \in Int /\ \A k \in 1 .. Len(s) : t[k] \in ClientEvent
        BY <3>1, <3>2
      <4>2. \A k \in 1 .. Len(s) : SubSeq(t, 1, Len(s))[k] = t[k]
        BY <4>1
      <4> QED
        BY <3>2, <4>2
    <3>6. Len(s) <= Len(u) /\ \A k \in 1 .. Len(s) : s[k] = u[k]
      BY <3>1, <3>2, <3>4, <3>5
    <3>7. s = SubSeq(u, 1, Len(s))
      BY <3>1, <3>4, <3>6, PrefixIsSubSeq
    <3> QED
      BY <1>1, <2>2, <3>3, <3>6, <3>7 DEF Follows
  <2> QED
    BY <2>1, <2>2
<1> QED
  BY <1>2, <1>3

\* What is owed to those the loop of send need not visit is what they are due.
LEMMA OwedSame ==
    ASSUME NEW i, issued'[i] = issued[i], Due(i)' = Due(i),
           i \in todo'[issued[i].dest] <=> i \in todo[issued[i].dest]
    PROVE  Owed(i)' = Owed(i)
BY DEF Owed

\* The loops that go on owe what they owed.
LEMMA KeepsOwing ==
    ASSUME LoopOwesMessage,
           \A d \in Destinations : \A i \in todo'[d] :
               /\ i \in todo[d] /\ issued'[i] = issued[i] /\ Due(i)' = Due(i)
               /\ First(actions'[d]) = First(actions[d])
    PROVE  LoopOwesMessage'
<1>1. ASSUME NEW d \in Destinations, NEW i \in todo'[d]
      PROVE  /\ Due(i)' # <<>>
             /\ Due(i)'[Len(Due(i)')] = ServerMessage(issued'[i].sub, i, First(actions'[d]).message)
  BY DEF LoopOwesMessage
<1> QED
  BY <1>1 DEF LoopOwesMessage, First, ServerMessage

\* Callers, sessions that take events and sessions that end.
LEMMA EnvironmentFollows ==
    ASSUME LogInv, EnvironmentStep
    PROVE  LogIsSound' /\ LoopOwesMessage' /\ SubscriptionFollowsLog'
<1> USE DEF LogInv, Core
<1>1. /\ issued' = issued /\ log' = log /\ todo' = todo /\ subscriptions' = subscriptions
      /\ Ids' = Ids
      /\ \A i \in Ids : issued[i].dest \in Destinations /\ issued[i].client \in Clients
  BY IssuedTypes DEF EnvironmentStep, Ids, TypeOK
<1>2. /\ \A d \in Destinations : Stopped(d)' = Stopped(d)
      /\ \A c \in Clients : Alive(c)' => Alive(c)
  BY DEF EnvironmentStep, Stopped
<1>3. LogIsSound'
  BY <1>1, <1>2, KeepsLog
<1>4. \A i \in Ids : Due(i)' = Due(i) /\ Owed(i)' = Owed(i)
  BY <1>1, Unwritten, OwedSame
<1>5. LoopOwesMessage'
  <2>1. ASSUME NEW d \in Destinations, NEW i \in todo'[d]
        PROVE  /\ i \in todo[d] /\ issued'[i] = issued[i] /\ Due(i)' = Due(i)
               /\ First(actions'[d]) = First(actions[d])
    BY <1>1, <1>4 DEF LoopIsSound, EnvironmentStep, TypeOK, DestTypeOK
  <2> QED
    BY <2>1, KeepsOwing
<1>6. ASSUME NEW i \in Ids
      PROVE  Follows(i)'
  <2>1. Follows(i)
    BY DEF SubscriptionFollowsLog
  <2>2. CASE /\ \A c \in Clients : Alive(c)' = Alive(c)
             /\ \A j \in Ids : Delivered(j)' = Delivered(j)
    BY <1>1, <1>4, <2>1, <2>2, FollowsOn
  <2>3. ASSUME NEW c \in Clients,
               Alive(c), ~Alive(c)', \A x \in Clients \ {c} : Alive(x)' = Alive(x),
               \A j \in Ids :
                  IF Owner(j) = c
                  THEN /\ Delivered(j)' = SubSeq(Delivered(j), 1, Len(Delivered(j)'))
                       /\ Len(Delivered(j)') \in 0 .. Len(Delivered(j))
                  ELSE Delivered(j)' = Delivered(j)
        PROVE  Follows(i)'
    <3>1. CASE issued[i].client = c
      <4>1. Delivered(i) = Owed(i)
        BY <2>1, <2>3, <3>1 DEF Follows
      <4>2. /\ Delivered(i)' = SubSeq(Owed(i)', 1, Len(Delivered(i)'))
            /\ Len(Delivered(i)') \in 0 .. Len(Owed(i)')
        BY <1>4, <2>3, <3>1, <4>1 DEF Owner
      <4>3. ~Alive(issued[i].client)'
        BY <1>1, <2>3, <3>1 DEF Alive
      <4>4. Len(Delivered(i)') <= Len(Owed(i)')
        <5>1. Len(Owed(i)) \in Nat
          BY DueTypes
        <5> QED
          BY <1>4, <4>2, <5>1
      <4> QED
        BY <4>2, <4>3, <4>4 DEF Follows
    <3>2. CASE issued[i].client # c
      <4>1. Delivered(i)' = Delivered(i) /\ Owed(i)' = Owed(i)
        BY <1>4, <2>3, <3>2 DEF Owner
      <4>2. Alive(issued[i].client)' = Alive(issued[i].client)
        BY <1>1, <2>3, <3>2 DEF Alive
      <4> QED
        BY <2>1, <4>1, <4>2 DEF Follows
    <3> QED
      BY <3>1, <3>2
  <2> QED
    BY <2>2, <2>3, EnvironmentDelivers
<1> QED
  BY <1>1, <1>3, <1>5, <1>6 DEF SubscriptionFollowsLog

\* A subscription that is made is told so, the others nothing.
LEMMA AddFollows ==
    ASSUME LogInv, NEW d \in Destinations, AddSubscription(d)
    PROVE  LogIsSound' /\ LoopOwesMessage' /\ SubscriptionFollowsLog'
<1> USE DEF LogInv, Core
<1>1. PICK c \in Clients, s \in SubIds, new \in Nat :
        /\ new = Len(issued) + 1 /\ Ids' = Ids \cup {new} /\ Ids = 1 .. new - 1
        /\ issued'[new] = [client |-> c, dest |-> d, sub |-> s]
        /\ subscriptions' = [subscriptions EXCEPT ![d] = subscriptions[d] \cup {new}]
        /\ log' = [log EXCEPT ![d] = Append(log[d], Joined(new))]
        /\ \A i \in Ids : issued'[i] = issued[i] /\ Delivered(i)' = Delivered(i)
        /\ Delivered(new)' = IF Alive(c) THEN <<Subscribed(d, s, new)>> ELSE <<>>
  BY AddDelivers
<1>2. /\ new \notin Ids /\ todo' = todo /\ todo[d] = {}
      /\ \A x \in Destinations \ {d} : actions'[x] = actions[x]
      /\ \A x \in Destinations : todo[x] \subseteq Ids
      /\ \A i \in Ids : issued[i].dest \in Destinations
  <2>1. new \notin Ids
    BY <1>1
  <2>2. todo' = todo /\ \A x \in Destinations \ {d} : actions'[x] = actions[x]
    BY DEF AddSubscription, Handled, TypeOK, DestTypeOK
  <2>3. todo[d] = {}
    BY DEF AddSubscription, Handling, LoopIsSound
  <2>4. /\ \A x \in Destinations : todo[x] \subseteq Ids
        /\ \A i \in Ids : issued[i].dest \in Destinations
    BY IssuedTypes DEF TypeOK, DestTypeOK
  <2> QED
    BY <2>1, <2>2, <2>3, <2>4
<1>3. /\ \A x \in Clients : Alive(x)' = Alive(x)
      /\ \A x \in Destinations : Stopped(x)' = Stopped(x)
  BY TaskEffect DEF Backend, AddSubscription, Stopped
<1>4. /\ LogIsSound'
      /\ \A i \in Ids : Due(i)' = Due(i)
      /\ Due(new)' = <<Subscribed(d, s, new)>>
  BY <1>1, <1>2, <1>3, Joining
<1>5. LoopOwesMessage'
  <2>1. ASSUME NEW x \in Destinations, NEW i \in todo'[x]
        PROVE  /\ i \in todo[x] /\ issued'[i] = issued[i] /\ Due(i)' = Due(i)
               /\ First(actions'[x]) = First(actions[x])
    BY <1>1, <1>2, <1>4
  <2> QED
    BY <2>1, KeepsOwing
<1>6. ASSUME NEW i \in Ids
      PROVE  Follows(i)'
  <2>1. issued'[i] = issued[i] /\ Due(i)' = Due(i) /\ Delivered(i)' = Delivered(i) /\ Follows(i)
    BY <1>1, <1>4 DEF SubscriptionFollowsLog
  <2>2. Owed(i)' = Owed(i)
    BY <1>2, <2>1, OwedSame
  <2> QED
    BY <1>3, <2>1, <2>2, FollowsOn
<1>7. Follows(new)'
  <2> DEFINE e == Subscribed(d, s, new)
  <2>1. Owed(new)' = <<e>>
    <3>1. issued'[new].dest = d /\ new \notin todo'[d]
      BY <1>1, <1>2
    <3>2. Due(new)' = <<e>>
      BY <1>4
    <3> HIDE DEF e
    <3> QED
      BY <3>1, <3>2 DEF Owed
  <2>2. Alive(issued[new].client)' = Alive(c) /\ Delivered(new)' = IF Alive(c) THEN <<e>> ELSE <<>>
    BY <1>1, <1>3 DEF Alive
  <2>3. Len(<<>>) = 0 /\ Len(<<e>>) = 1 /\ SubSeq(<<e>>, 1, 0) = <<>>
    OBVIOUS
  <2> HIDE DEF e
  <2> QED
    BY <2>1, <2>2, <2>3 DEF Follows
<1> QED
  BY <1>1, <1>4, <1>5, <1>6, <1>7 DEF SubscriptionFollowsLog

\* One that is taken out is told so, the others nothing.
LEMMA RemoveFollows ==
    ASSUME LogInv, NEW d \in Destinations, RemoveSubscription(d)
    PROVE  LogIsSound' /\ LoopOwesMessage' /\ SubscriptionFollowsLog'
<1> USE DEF LogInv, Core
<1>1. PICK i \in subscriptions[d] :
        /\ i \in Ids /\ issued[i].dest = d /\ issued' = issued
        /\ subscriptions' = [subscriptions EXCEPT ![d] = subscriptions[d] \ {i}]
        /\ log' = [log EXCEPT ![d] = Append(log[d], Left(i))]
        /\ \A j \in Ids :
             Delivered(j)' = IF j = i /\ Alive(Owner(i))
                             THEN Append(Delivered(i), Unsubscribed(issued[i].sub, i))
                             ELSE Delivered(j)
  BY RemoveDelivers
<1>2. /\ Ids' = Ids /\ todo' = todo /\ todo[d] = {}
      /\ \A x \in Destinations \ {d} : actions'[x] = actions[x]
      /\ \A x \in Destinations : todo[x] \subseteq subscriptions[x] /\ todo[x] \subseteq Ids
      /\ \A x \in Destinations : \A j \in subscriptions[x] : issued[j].dest = x
  <2>1. Ids' = Ids
    BY <1>1 DEF Ids
  <2>2. todo' = todo /\ \A x \in Destinations \ {d} : actions'[x] = actions[x]
    BY DEF RemoveSubscription, Handled, TypeOK, DestTypeOK
  <2>3. todo[d] = {}
    BY DEF RemoveSubscription, Handling, LoopIsSound
  <2>4. /\ \A x \in Destinations : todo[x] \subseteq subscriptions[x] /\ todo[x] \subseteq Ids
        /\ \A x \in Destinations : \A j \in subscriptions[x] : issued[j].dest = x
    BY DEF LoopIsSound, TypeOK, DestTypeOK
  <2> QED
    BY <2>1, <2>2, <2>3, <2>4
<1>3. /\ \A x \in Clients : Alive(x)' = Alive(x)
      /\ \A x \in Destinations : Stopped(x)' = Stopped(x)
  BY TaskEffect DEF Backend, RemoveSubscription, Stopped
<1> DEFINE e == Unsubscribed(issued[i].sub, i)
<1>4. /\ LogIsSound'
      /\ \A j \in Ids : Due(j)' = IF j = i THEN Append(Due(i), e) ELSE Due(j)
  BY <1>1, <1>3, Leaving
<1>5. LoopOwesMessage'
  <2>1. ASSUME NEW x \in Destinations, NEW j \in todo'[x]
        PROVE  /\ j \in todo[x] /\ issued'[j] = issued[j] /\ Due(j)' = Due(j)
               /\ First(actions'[x]) = First(actions[x])
    BY <1>1, <1>2, <1>4
  <2> QED
    BY <2>1, KeepsOwing
<1>6. e \in ClientEvent
  BY <1>1, IssuedTypes DEF TypeOK, Unsubscribed, ClientEvent
<1>7. ASSUME NEW j \in Ids
      PROVE  Follows(j)'
  <2>1. issued'[j] = issued[j] /\ Follows(j)
    BY <1>1 DEF SubscriptionFollowsLog
  <2>2. CASE j = i
    <3>1. Owed(i) = Due(i) /\ Owed(i)' = Append(Due(i), e)
      <4>1. i \notin todo[issued[i].dest] /\ i \notin todo'[issued'[i].dest]
        BY <1>1, <1>2
      <4> HIDE DEF e
      <4> QED
        BY <1>1, <1>4, <4>1 DEF Owed
    <3>2. Delivered(i)' = IF Alive(Owner(i)) THEN Append(Delivered(i), e) ELSE Delivered(i)
      BY <1>1
    <3> HIDE DEF e
    <3> QED
      BY <1>3, <1>6, <2>1, <2>2, <3>1, <3>2, FollowsOn
  <2>3. CASE j # i
    <3>1. Due(j)' = Due(j) /\ Delivered(j)' = Delivered(j)
      BY <1>1, <1>4, <2>3
    <3>2. Owed(j)' = Owed(j)
      BY <1>2, <2>1, <3>1, OwedSame
    <3> QED
      BY <1>3, <2>1, <3>1, <3>2, FollowsOn
  <2> QED
    BY <2>2, <2>3
<1> QED
  BY <1>2, <1>4, <1>5, <1>7 DEF SubscriptionFollowsLog

\* When the loop of send begins, every member is due the message and owed it
\* when the loop reaches it; others that have not left belong to sessions that
\* are gone.
LEMMA BeginSendFollows ==
    ASSUME LogInv, NEW d \in Destinations, BeginSend(d)
    PROVE  LogIsSound' /\ LoopOwesMessage' /\ SubscriptionFollowsLog'
<1> USE DEF LogInv, Core
<1>1. PICK m \in Messages :
        m = First(actions[d]).message /\ log' = [log EXCEPT ![d] = Append(log[d], Sent(m))]
  BY HandlingTypes DEF BeginSend, Record, TypeOK
<1>2. /\ issued' = issued /\ actions' = actions /\ UNCHANGED proxyVars /\ Ids' = Ids
      /\ subscriptions' = subscriptions /\ todo[d] = {} /\ ~Stopped(d)
      /\ todo'[d] = subscriptions[d]
      /\ \A x \in Destinations \ {d} : todo'[x] = todo[x]
      /\ \A x \in Clients : Alive(x)' = Alive(x)
      /\ \A x \in Destinations : Stopped(x)' = Stopped(x)
  <2>1. /\ issued' = issued /\ actions' = actions /\ UNCHANGED proxyVars
        /\ subscriptions' = subscriptions
    BY DEF BeginSend
  <2>2. /\ todo'[d] = subscriptions[d]
        /\ \A x \in Destinations \ {d} : todo'[x] = todo[x]
    BY DEF BeginSend, TypeOK, DestTypeOK
  <2>3. todo[d] = {} /\ ~Stopped(d)
    BY DEF BeginSend, Handling, LoopIsSound, Stopped
  <2>4. \A x \in Destinations : Stopped(x)' = Stopped(x)
    BY DEF BeginSend, Handling, Stopped, TypeOK, DestTypeOK
  <2> QED
    BY <2>1, <2>2, <2>3, <2>4 DEF proxyVars, Alive, Ids
<1>3. /\ LogIsSound'
      /\ \A j \in Ids : Due(j)' = IF Home(j) = d /\ ~LeavesIn(log[d], j)
                                  THEN Append(Due(j), ServerMessage(issued[j].sub, j, m))
                                  ELSE Due(j)
  BY <1>1, <1>2, Sending
<1>4. /\ \A x \in Destinations : \A j \in subscriptions[x] : j \in Ids /\ Home(j) = x
      /\ \A x \in Destinations : todo[x] \subseteq subscriptions[x]
      /\ \A j \in subscriptions[d] : ~LeavesIn(log[d], j)
  BY DEF LoopIsSound, LogIsSound, Home, TypeOK, DestTypeOK
<1>5. ASSUME NEW j \in Ids
      PROVE  /\ ServerMessage(issued[j].sub, j, m) \in ClientEvent
             /\ Due(j) \in Seq(ClientEvent)
             /\ LET due == Append(Due(j), ServerMessage(issued[j].sub, j, m))
                IN  /\ SubSeq(due, 1, Len(due) - 1) = Due(j)
                    /\ due[Len(due)] = ServerMessage(issued[j].sub, j, m)
                    /\ due # <<>>
  <2> DEFINE e == ServerMessage(issued[j].sub, j, m)
             due == Due(j)
  <2>1. e \in ClientEvent
    BY IssuedTypes DEF TypeOK, ServerMessage, ClientEvent
  <2>2. due \in Seq(ClientEvent)
    BY DueTypes
  <2> HIDE DEF e, due
  <2>3. /\ SubSeq(Append(due, e), 1, Len(Append(due, e)) - 1) = due
        /\ Append(due, e)[Len(Append(due, e))] = e
        /\ Append(due, e) # <<>>
    BY <2>1, <2>2, LastOfAppend
  <2> QED
    BY <2>1, <2>2, <2>3 DEF e, due
<1>6. LoopOwesMessage'
  <2>1. ASSUME NEW x \in Destinations, NEW j \in todo'[x]
        PROVE  /\ Due(j)' # <<>>
               /\ Due(j)'[Len(Due(j)')] = ServerMessage(issued'[j].sub, j, First(actions'[x]).message)
    <3>1. CASE x = d
      <4>1. Due(j)' = Append(Due(j), ServerMessage(issued[j].sub, j, m)) /\ j \in Ids
        BY <1>2, <1>3, <1>4, <3>1
      <4> QED
        BY <1>1, <1>2, <1>5, <3>1, <4>1
    <3>2. CASE x # d
      <4>1. j \in todo[x] /\ j \in Ids /\ Home(j) # d
        BY <1>2, <1>4, <3>2
      <4>2. Due(j)' = Due(j)
        BY <1>3, <4>1
      <4> QED
        BY <1>2, <4>1, <4>2 DEF LoopOwesMessage
    <3> QED
      BY <3>1, <3>2
  <2> QED
    BY <2>1 DEF LoopOwesMessage, First, ServerMessage
<1>7. ASSUME NEW j \in Ids
      PROVE  Follows(j)'
  <2>1. issued'[j] = issued[j] /\ Follows(j) /\ Delivered(j)' = Delivered(j)
    BY <1>2 DEF SubscriptionFollowsLog, Delivered, Told, About, proxyVars
  <2>2. Home(j) \in Destinations /\ Owner(j) \in Clients /\ issued'[j].dest = Home(j)
    BY <2>1, IssuedTypes DEF TypeOK, Home, Owner
  <2> DEFINE e == ServerMessage(issued[j].sub, j, m)
  <2>3. CASE Home(j) = d /\ j \in subscriptions[d]
    <3>1. Due(j)' = Append(Due(j), e)
      BY <1>3, <1>4, <2>3
    <3>2. Owed(j)' = SubSeq(Due(j)', 1, Len(Due(j)') - 1)
      <4>1. j \in todo'[issued'[j].dest]
        BY <1>2, <2>2, <2>3
      <4> QED
        BY <4>1 DEF Owed
    <3>3. Owed(j) = Due(j)
      BY <1>2, <2>3 DEF Owed, Home
    <3>4. Owed(j)' = Owed(j)
      BY <1>5, <3>1, <3>2, <3>3
    <3> QED
      BY <1>2, <2>1, <3>4, FollowsOn
  <2>4. CASE Home(j) = d /\ j \notin subscriptions[d]
    <3>1. LeavesIn(log[d], j) \/ ~Alive(Owner(j))
      BY <1>2, <2>4 DEF LogIsSound, Home, Owner
    <3>2. Owed(j)' = Due(j)' /\ Owed(j) = Due(j)
      <4>1. j \notin todo'[issued'[j].dest] /\ j \notin todo[issued[j].dest]
        BY <1>2, <2>2, <2>4 DEF Home
      <4> QED
        BY <4>1 DEF Owed
    <3>3. CASE LeavesIn(log[d], j)
      BY <1>2, <1>3, <2>1, <2>4, <3>2, <3>3, FollowsOn
    <3>4. CASE ~LeavesIn(log[d], j)
      <4>1. Owed(j)' = Append(Owed(j), e) /\ e \in ClientEvent
        BY <1>3, <1>5, <2>4, <3>2, <3>4
      <4> HIDE DEF e
      <4> QED
        BY <1>2, <2>1, <3>1, <3>4, <4>1, FollowsOn
    <3> QED
      BY <3>3, <3>4
  <2>5. CASE Home(j) # d
    <3>1. Due(j)' = Due(j)
      BY <1>3, <2>5
    <3>2. j \in todo'[issued[j].dest] <=> j \in todo[issued[j].dest]
      BY <1>2, <2>2, <2>5 DEF Home
    <3>3. Owed(j)' = Owed(j)
      BY <2>1, <3>1, <3>2, OwedSame
    <3> QED
      BY <1>2, <2>1, <3>3, FollowsOn
  <2> QED
    BY <2>3, <2>4, <2>5
<1> QED
  BY <1>2, <1>3, <1>6, <1>7 DEF SubscriptionFollowsLog

\* An iteration of the loop hands the one it visits the message that it was
\* already due.
LEMMA SendToFollows ==
    ASSUME LogInv, NEW d \in Destinations, NEW i \in todo[d], SendTo(d, i)
    PROVE  LogIsSound' /\ LoopOwesMessage' /\ SubscriptionFollowsLog'
<1> USE DEF LogInv, Core
<1>1. PICK m \in Messages :
        /\ m = First(actions[d]).message /\ First(actions'[d]).message = m
        /\ i \in Ids /\ issued' = issued
        /\ \A j \in Ids :
             Delivered(j)' = IF j = i /\ Alive(Owner(i))
                             THEN Append(Delivered(i), ServerMessage(issued[i].sub, i, m))
                             ELSE Delivered(j)
  BY SendToDelivers
<1>2. /\ Ids' = Ids /\ actions' = actions /\ log' = log /\ subscriptions' = subscriptions
      /\ todo'[d] = todo[d] \ {i}
      /\ \A x \in Destinations \ {d} : todo'[x] = todo[x]
      /\ \A x \in Destinations : Stopped(x)' = Stopped(x)
  BY <1>1 DEF SendTo, Stopped, Ids, TypeOK, DestTypeOK
<1>3. \A x \in Clients : Alive(x)' = Alive(x)
  BY TaskEffect DEF Backend
<1>4. LogIsSound'
  BY <1>1, <1>2, <1>3, KeepsLog
<1>5. \A j \in Ids : Due(j)' = Due(j)
  BY <1>1, <1>2, Unwritten
<1>6. LoopOwesMessage'
  <2>1. ASSUME NEW x \in Destinations, NEW j \in todo'[x]
        PROVE  /\ j \in todo[x] /\ issued'[j] = issued[j] /\ Due(j)' = Due(j)
               /\ First(actions'[x]) = First(actions[x])
    <3>1. j \in todo[x] /\ j \in Ids
      BY <1>2 DEF TypeOK, DestTypeOK
    <3> QED
      BY <1>1, <1>2, <1>5, <3>1
  <2> QED
    BY <2>1, KeepsOwing
<1> DEFINE e == ServerMessage(issued[i].sub, i, m)
<1>7. e \in ClientEvent /\ issued[i].dest = d
  BY <1>1, IssuedTypes DEF TypeOK, ServerMessage, ClientEvent, LoopIsSound
<1>8. ASSUME NEW j \in Ids
      PROVE  Follows(j)'
  <2>1. issued'[j] = issued[j] /\ Follows(j)
    BY <1>1 DEF SubscriptionFollowsLog
  <2>2. CASE j = i
    <3>1. Owed(i)' = Due(i) /\ Owed(i) = SubSeq(Due(i), 1, Len(Due(i)) - 1)
      <4>1. i \in todo[issued[i].dest] /\ i \notin todo'[issued'[i].dest]
        BY <1>1, <1>2, <1>7
      <4> QED
        BY <1>1, <1>5, <4>1 DEF Owed
    <3>2. Due(i) # <<>> /\ Due(i)[Len(Due(i))] = e /\ Due(i) \in Seq(ClientEvent)
      BY <1>1, DueTypes DEF LoopOwesMessage
    <3>3. Due(i) = Append(SubSeq(Due(i), 1, Len(Due(i)) - 1), Due(i)[Len(Due(i))])
      BY <3>2, AllButLast
    <3>4. Owed(i)' = Append(Owed(i), e)
      BY <3>1, <3>2, <3>3
    <3>5. Delivered(i)' = IF Alive(Owner(i)) THEN Append(Delivered(i), e) ELSE Delivered(i)
      BY <1>1
    <3> HIDE DEF e
    <3> QED
      BY <1>3, <1>7, <2>1, <2>2, <3>4, <3>5, FollowsOn
  <2>3. CASE j # i
    <3>1. Due(j)' = Due(j) /\ Delivered(j)' = Delivered(j)
      BY <1>1, <1>5, <2>3
    <3>2. j \in todo'[issued[j].dest] <=> j \in todo[issued[j].dest]
      BY <1>2, <2>3, IssuedTypes DEF TypeOK
    <3>3. Owed(j)' = Owed(j)
      BY <2>1, <3>1, <3>2, OwedSame
    <3> QED
      BY <1>3, <2>1, <3>1, <3>3, FollowsOn
  <2> QED
    BY <2>2, <2>3
<1> QED
  BY <1>2, <1>4, <1>6, <1>8 DEF SubscriptionFollowsLog

\* What writes and delivers nothing, and leaves the loops of the others alone.
LEMMA QuietFollows ==
    ASSUME LogInv, NEW d \in Destinations, todo[d] = {}, UNCHANGED <<issued, log, todo, proxyVars>>,
           \A x \in Destinations \ {d} : actions'[x] = actions[x],
           \A x \in Destinations :
               /\ Stopped(x) => Stopped(x)'
               /\ subscriptions'[x] \subseteq subscriptions[x]
               /\ Stopped(x)' \/ \A i \in subscriptions[x] \ subscriptions'[x] :
                                    \A c \in Clients : issued[i].client = c => ~Alive(c)'
    PROVE  LogIsSound' /\ LoopOwesMessage' /\ SubscriptionFollowsLog'
<1> USE DEF LogInv, Core
<1>1. /\ issued' = issued /\ log' = log /\ todo' = todo /\ Ids' = Ids
      /\ \A c \in Clients : Alive(c)' = Alive(c)
  BY DEF proxyVars, Alive, Ids
<1>2. LogIsSound'
  BY <1>1, KeepsLog
<1>3. \A i \in Ids : Due(i)' = Due(i) /\ Owed(i)' = Owed(i)
  BY <1>1, Unwritten, OwedSame
<1>4. LoopOwesMessage'
  <2>1. ASSUME NEW x \in Destinations, NEW i \in todo'[x]
        PROVE  /\ i \in todo[x] /\ issued'[i] = issued[i] /\ Due(i)' = Due(i)
               /\ First(actions'[x]) = First(actions[x])
    <3>1. i \in todo[x] /\ i \in Ids /\ x # d
      BY <1>1 DEF TypeOK, DestTypeOK
    <3> QED
      BY <1>1, <1>3, <3>1
  <2> QED
    BY <2>1, KeepsOwing
<1>5. ASSUME NEW i \in Ids
      PROVE  Follows(i)'
  <2>1. issued'[i] = issued[i] /\ Follows(i) /\ Delivered(i)' = Delivered(i)
    BY <1>1 DEF SubscriptionFollowsLog, Delivered, Told, About, proxyVars
  <2> QED
    BY <1>1, <1>3, <2>1, FollowsOn
<1> QED
  BY <1>1, <1>2, <1>4, <1>5 DEF SubscriptionFollowsLog

\* So whatever the task of a destination does, ...
LEMMA TaskFollows ==
    ASSUME LogInv, NEW d \in Destinations, Backend(d)
    PROVE  LogIsSound' /\ LoopOwesMessage' /\ SubscriptionFollowsLog'
<1> USE DEF LogInv, Core
<1>1. CASE EndSend(d)
  <2> USE <1>1
  <2>1. /\ todo[d] = {} /\ UNCHANGED <<issued, log, todo, proxyVars>>
        /\ \A x \in Destinations \ {d} : actions'[x] = actions[x]
    BY DEF EndSend, Handled, TypeOK, DestTypeOK
  <2>2. \A c \in Clients : Alive(c)' = Alive(c)
    BY DEF EndSend, proxyVars, Alive
  <2>3. \A x \in Destinations :
           /\ Stopped(x) => Stopped(x)'
           /\ subscriptions'[x] \subseteq subscriptions[x]
    BY DEF EndSend, Stopped, TypeOK, DestTypeOK
  <2>4. \A x \in Destinations : \A i \in subscriptions[x] \ subscriptions'[x] :
           \A c \in Clients : issued[i].client = c => ~Alive(c)'
    BY <2>2 DEF EndSend, DeadAreGone, TypeOK, DestTypeOK
  <2> QED
    BY <2>1, <2>3, <2>4, QuietFollows
<1>2. CASE RemoveUnknownSubscription(d) \/ CloseBackend(d)
  <2> USE <1>2
  <2>1. /\ UNCHANGED <<issued, log, todo, proxyVars>>
        /\ \A x \in Destinations \ {d} : actions'[x] = actions[x]
    BY DEF RemoveUnknownSubscription, CloseBackend, Stop, TypeOK, DestTypeOK
  <2>2. todo[d] = {}
    BY DEF RemoveUnknownSubscription, CloseBackend, Handling, LoopIsSound
  <2>3. /\ Stopped(d)' /\ subscriptions'[d] = {}
        /\ \A x \in Destinations \ {d} : /\ Stopped(x)' = Stopped(x)
                                         /\ subscriptions'[x] = subscriptions[x]
    BY DEF RemoveUnknownSubscription, CloseBackend, Stop, Stopped, TypeOK, DestTypeOK
  <2> QED
    BY <2>1, <2>2, <2>3, QuietFollows
<1> QED
  BY <1>1, <1>2, AddFollows, RemoveFollows, BeginSendFollows, SendToFollows DEF Backend

-----------------------------------------------------------------------------
(* The theorems that are about the log.                                    *)

\* Whoever calls the handles, takes events or ends, and whichever step a task
\* takes, logs remain sound and subscribers follow them (inmemory.rs).
THEOREM LogInvariance == Spec => []LogInv
<1>1. Init => LogInv
  <2> SUFFICES ASSUME Init PROVE LogInv
    OBVIOUS
  <2>1. Core
    BY InitCore
  <2>2. Ids = {} /\ \A d \in Destinations : log[d] = <<>> /\ todo[d] = {}
    BY DEF Init, DestInit, Ids
  <2>3. LogIsSound /\ LoopOwesMessage /\ SubscriptionFollowsLog
    BY <2>2 DEF LogIsSound, LoopOwesMessage, SubscriptionFollowsLog
  <2> QED
    BY <2>1, <2>3 DEF LogInv
<1>2. LogInv /\ [Next]_vars => LogInv'
  <2> SUFFICES ASSUME LogInv, [Next]_vars PROVE LogInv'
    OBVIOUS
  <2>1. Core'
    BY CoreStep DEF LogInv
  <2>2. LogIsSound' /\ LoopOwesMessage' /\ SubscriptionFollowsLog'
    <3>1. CASE DestEnvironment
      <4>1. EnvironmentStep
        BY <3>1, EnvironmentEffect DEF LogInv, Core
      <4> QED
        BY <4>1, EnvironmentFollows
    <3>2. CASE \E d \in Destinations : Backend(d)
      BY <3>2, TaskFollows
    <3>3. CASE UNCHANGED vars
      <4>1. EnvironmentStep
        BY <3>3 DEF EnvironmentStep, vars, destVars, proxyVars, Told, Alive
      <4> QED
        BY <4>1, EnvironmentFollows
    <3> QED
      BY <3>1, <3>2, <3>3 DEF Next
  <2> QED
    BY <2>1, <2>2 DEF LogInv
<1> QED
  BY <1>1, <1>2, PTL DEF Spec

\* Every subscriber is told that it is subscribed, gets every message that the
\* destination handles while it is, in order and once, is told that it is
\* unsubscribed, and then gets nothing more, however the loop of send interleaves
\* with callers and with sessions that take events or end (add_subscription, send
\* and remove_subscription in inmemory.rs).
THEOREM Following == Spec => []SubscriptionFollowsLog
<1>1. LogInv => SubscriptionFollowsLog
  BY DEF LogInv
<1> QED
  BY LogInvariance, <1>1, PTL
=============================================================================
